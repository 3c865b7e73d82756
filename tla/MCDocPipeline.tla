--------------------------- MODULE MCDocPipeline ---------------------------
(* Instances of DocPipeline: two documents, bounds in the configurations.  *)
EXTENDS DocPipeline, TLC

(* The documents are interchangeable; used by the runs of safety only.     *)
Symmetry == Permutations(Docs)
=============================================================================
