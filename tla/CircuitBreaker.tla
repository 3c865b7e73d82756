--------------------------- MODULE CircuitBreaker ---------------------------
(***************************************************************************)
(* What a circuit breaker promises to its callers: one call at a time runs *)
(* through it; it opens when Limit calls in a row have failed, neither     *)
(* sooner nor later, and one call that succeeds closes it again.  When an  *)
(* open breaker lets a call try is left open.                              *)
(***************************************************************************)
EXTENDS Naturals

CONSTANTS Callers, Limit

VARIABLES
    calling,    \* the callers whose call the breaker runs
    failed,     \* calls in a row that failed, up to Limit
    open        \* whether the breaker is open

state == <<calling, failed, open>>

Init == calling = {} /\ failed = 0 /\ open = FALSE

Begin(c) ==
    /\ calling = {}
    /\ calling' = {c}
    /\ UNCHANGED <<failed, open>>

Succeed ==
    /\ calling # {} /\ calling' = {}
    /\ failed' = 0
    /\ open' = FALSE

Fail ==
    /\ calling # {} /\ calling' = {}
    /\ failed' = IF failed < Limit THEN failed + 1 ELSE failed
    /\ open' = (failed' = Limit)

Next == (\E c \in Callers : Begin(c)) \/ Succeed \/ Fail

Safe == Init /\ [][Next]_state
=============================================================================
