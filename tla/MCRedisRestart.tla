--------------------------- MODULE MCRedisRestart ---------------------------
(* RedisRestart on small instances; the configuration gives the constants     *)
(* model values.  Neither a guard nor a property of the run reads the history  *)
(* variables of JobLifecycle or posted, so states that differ in these alone   *)
(* count as one.                                                               *)
EXTENDS RedisRestart

WithoutHistory == <<records, tomb, entry, disk, control, lists, run, client, faults,
                    rdb, restarts, doomed>>
=============================================================================
