-------------------------- MODULE MCBlockStructure --------------------------
(* Instances of BlockStructure: kinds, limits and labels in the            *)
(* configurations.                                                         *)
EXTENDS BlockStructure
=============================================================================
