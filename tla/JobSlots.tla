------------------------------ MODULE JobSlots ------------------------------
(***************************************************************************)
(* What the semaphore of the orchestrator promises: at most Limit jobs     *)
(* hold a slot, a slot that was taken is given back, and the death of the  *)
(* process frees all of them.                                              *)
(***************************************************************************)
EXTENDS Naturals, FiniteSets

CONSTANTS Jobs, Limit

VARIABLE held   \* the jobs that hold a slot

Init == held = {}

Take(j) ==
    /\ j \notin held
    /\ Cardinality(held) < Limit
    /\ held' = held \cup {j}

Give(j) ==
    /\ j \in held
    /\ held' = held \ {j}

Wipe == held' = {}

Next == (\E j \in Jobs : Take(j) \/ Give(j)) \/ Wipe

Safe == Init /\ [][Next]_held
Spec == Safe /\ \A j \in Jobs : WF_held(Give(j))
=============================================================================
