---------------------------- MODULE MCWorkerBoot -----------------------------
(* WorkerBoot as it is; the configuration gives the numbers.  A tick is 10 s *)
(* of the default settings: the key lives 9, the heartbeat sleeps 3.         *)
EXTENDS WorkerBoot
=============================================================================
