---------------------------- MODULE MCStatusPoll ----------------------------
(* Instances of StatusPoll for TLC; bounds in the configurations.          *)
EXTENDS StatusPoll, TLC
=============================================================================
