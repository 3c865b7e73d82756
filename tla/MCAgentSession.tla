--------------------------- MODULE MCAgentSession ---------------------------
(* Instances of AgentSession for TLC; bounds in the configurations.        *)
EXTENDS AgentSession, TLC

(* Celery tasks do not read the cache of the web process, the one that     *)
(* polls fill; background tasks do.                                        *)
TwoPolls == [q \in BOOLEAN |-> IF q THEN 0 ELSE 2]
OnePoll  == [q \in BOOLEAN |-> 1]
=============================================================================
