----------------------------- MODULE RedisRestart -----------------------------
(***************************************************************************)
(* JobLifecycle over a Redis that forgets.  docker-compose.yaml runs Redis *)
(* with "--save 60 1 --appendonly no": when its container restarts, every  *)
(* key is back where the last snapshot left it, while the files on the     *)
(* data volume and the processes' own state stay where they are.  Records, *)
(* tombstones and RQ's queue go back together, to one earlier moment.      *)
(***************************************************************************)
EXTENDS JobLifecycle

CONSTANT MaxRestarts    \* bound on restarts of the Redis container

ASSUME MaxRestartsAssumption == MaxRestarts \in Nat

VARIABLES
    rdb,        \* the snapshot the next restart will load, once it is written
    restarts,
    doomed      \* history: jobs for which a DELETE has planted a tombstone

Keys == [status |-> status, quiet |-> quiet, tomb |-> tomb, entry |-> entry]

RestartInit == Init /\ rdb = {} /\ restarts = 0 /\ doomed = {}

\* The last save before a restart.
BackgroundSave ==
    /\ restarts < MaxRestarts
    /\ rdb = {}
    /\ rdb' = {Keys}
    /\ UNCHANGED <<vars, restarts, doomed>>

\* Redis is back with the keys of the snapshot.
Restart ==
    \E s \in rdb :
        /\ status' = s.status /\ quiet' = s.quiet /\ tomb' = s.tomb /\ entry' = s.entry
        /\ rdb' = {}
        /\ restarts' = restarts + 1
        /\ UNCHANGED <<disk, control, lists, run, client, posted, faults, history, doomed>>

\* The reaper takes files that have passed result_ttl_seconds.
AgedFilesGo ==
    pc[Reaper] # pc'[Reaper] /\ \E j \in Jobs : out[j] # out'[j] \/ inbox[j] # inbox'[j]

\* With a save a minute nothing reaches an age limit between the last save and
\* the restart: a step that takes that long means that Redis has saved again.
RestartNext ==
    \/ /\ Steps
       /\ rdb' = IF AgedFilesGo THEN {} ELSE rdb
       /\ doomed' = doomed \union {j \in Jobs : tomb'[j]}
       /\ UNCHANGED restarts
    \/ /\ TimePasses
       /\ rdb' = {}
       /\ UNCHANGED <<restarts, doomed>>
    \/ BackgroundSave
    \/ Restart

restartVars == <<vars, rdb, restarts, doomed>>

RestartSpec == RestartInit /\ [][RestartNext]_restartVars /\ Fairness

-----------------------------------------------------------------------------
(* Properties; RunningSettles is JobLifecycle's own, checked here across a     *)
(* restart.                                                                    *)

\* A restart may bring back the succeeded record of a job that a DELETE has got
\* hold of, and no other: a job with which no DELETE ever came as far as its
\* tombstone can be downloaded when it reads succeeded, until it is due to expire,
\* although its run may have been forgotten, made again or settled before the
\* snapshot (jobs.py, settle; reaper.sweep_artifacts).  The removal of the record
\* is no test of that: a run that meets the tombstone takes its stems away before
\* the DELETE comes to it.
StemsUnlessDeleted ==
    \A j \in Jobs : status[j] = "succeeded" /\ ~quiet[j] =>
        out[j] = "stems" \/ j \in doomed
=============================================================================
