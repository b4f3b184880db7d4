----------------------------- MODULE WorkerBoot ------------------------------
(***************************************************************************)
(* The worker container: worker-entrypoint.sh fetches, verifies and        *)
(* converts the weights (fetch_weights.py), worker.main loads them, and a  *)
(* thread asserts the process's liveness under a key with a TTL, which     *)
(* /readyz and the container's health probe read.  The container may die   *)
(* at any point and is started again; the files stay on the volume; Redis  *)
(* may be out of reach for a while.                                        *)
(*                                                                         *)
(* Jobs are JobLifecycle's subject: here the worker only boots and serves. *)
(***************************************************************************)
EXTENDS Integers

CONSTANTS
    AliveTTL,     \* settings.worker_alive_ttl_seconds
    MinPeriod,    \* the floor of the heartbeat's sleep
    Late,         \* most ticks a due heartbeat waits for its thread
    MaxCrashes,   \* bound on deaths of the container
    MaxFailures   \* bound on failed transfers, conversions, heartbeats and
                  \* outages of Redis

\* Mutant: the heartbeat sleeps as long as its key lives.
WholeTTL == AliveTTL

\* max(5, ttl // 3)
Period == IF AliveTTL \div 3 >= MinPeriod THEN AliveTTL \div 3 ELSE MinPeriod

\* Of the settings, Period spelled out: as the default has it, 90 s, two sleeps
\* of 30 s fit with time to spare.
BeatAssumption ==
    /\ AliveTTL \in Nat /\ MinPeriod \in Nat \ {0} /\ Late \in Nat
    /\ 2 * ((IF AliveTTL \div 3 >= MinPeriod THEN AliveTTL \div 3 ELSE MinPeriod) + Late)
         < AliveTTL

ASSUME BeatFits == BeatAssumption

ASSUME FaultsAssumption == MaxCrashes \in Nat /\ MaxFailures \in Nat

VARIABLES
    pc,       \* where the container's process is; "down" between two lives
    part,     \* the .ckpt.part file
    ckpt,     \* the Lightning checkpoint
    bare,     \* the converted state_dict; "foreign": of some other model
    reachable,  \* Redis answers
    alive,    \* ticks until Redis drops the liveness key, 0: there is none
    beatIn,   \* ticks until the next heartbeat is due; negative: overdue
    beaten,   \* this life has asserted its liveness
    missed,   \* heartbeats that have failed in a row, 2 for more
    gone,     \* ticks since a process last served, AliveTTL for more
    served,   \* some life has served
    crashes, failures

disk    == <<part, ckpt, bare>>
pulse   == <<alive, beatIn, beaten, missed, gone>>
history == <<served, crashes, failures>>
vars    == <<pc, disk, reachable, pulse, history>>

Fetching == {"check", "verify", "transfer", "md5", "convert", "save", "unlink"}
Booting  == Fetching \union {"boot", "load"}

\* An operator may have put a checkpoint on the volume, whole or not, or under
\* the converted file's name a state_dict of another model.
Init ==
    /\ pc = "down" /\ reachable = TRUE
    /\ part = "none" /\ ckpt \in {"none", "whole", "damaged"}
    /\ bare \in {"none", "foreign"}
    /\ alive = 0 /\ beatIn = 0 /\ beaten = FALSE /\ missed = 0 /\ gone = AliveTTL
    /\ served = FALSE /\ crashes = 0 /\ failures = 0

\* Something outside goes wrong; the script or the worker exits.
Fault == failures < MaxFailures /\ failures' = failures + 1

Exits == pc' = "down"

-----------------------------------------------------------------------------
(* worker-entrypoint.sh and fetch_weights.main.  set -e: a script that fails *)
(* takes the container down.                                                 *)

Start ==
    /\ pc = "down"
    /\ pc' = "check"
    /\ UNCHANGED <<disk, reachable, pulse, history>>

\* Mutant: a converted checkpoint is trusted because it is there.
UsableIfThere == bare # "none"

\* is_usable: half a file is too small or does not load.  Of the tensors it
\* looks at their number only.
IsUsable == bare \in {"whole", "foreign"}

\* Mutant: the original is looked for even though converting removes it.
AlwaysVerify == "verify"

AfterCheck == IF IsUsable THEN "boot" ELSE "verify"

Check ==
    /\ pc = "check"
    /\ pc' = AfterCheck
    /\ UNCHANGED <<disk, reachable, pulse, history>>

Verify ==
    /\ pc = "verify"
    /\ pc' = IF ckpt = "whole" THEN "convert" ELSE "transfer"
    /\ UNCHANGED <<disk, reachable, pulse, history>>

\* The reply is copied to the .part file.  A connection that ends early looks
\* like the end of the file.
Transfer ==
    /\ pc = "transfer"
    /\ \/ part' = "whole" /\ pc' = "md5" /\ UNCHANGED failures
       \/ Fault /\ part' = "partial" /\ pc' = "md5"
       \/ Fault /\ part' \in {part, "partial"} /\ Exits
    /\ UNCHANGED <<ckpt, bare, reachable, pulse, served, crashes>>

\* A wrong checksum costs the file and ends the script; a right one moves it,
\* which within the directory is a rename.
Md5 ==
    /\ pc = "md5"
    /\ part' = "none"
    /\ IF part = "whole" THEN ckpt' = "whole" /\ pc' = "convert"
                         ELSE UNCHANGED ckpt /\ Exits
    /\ UNCHANGED <<bare, reachable, pulse, history>>

\* torch.load of the original; torch.save opens the target and writes into it.
Convert ==
    /\ pc = "convert"
    /\ bare' = "partial"
    /\ pc' = "save"
    /\ UNCHANGED <<part, ckpt, reachable, pulse, history>>

Save ==
    /\ pc = "save"
    /\ \/ bare' = "whole" /\ pc' = "unlink" /\ UNCHANGED failures
       \/ Fault /\ Exits /\ UNCHANGED bare
    /\ UNCHANGED <<part, ckpt, reachable, pulse, served, crashes>>

Unlink ==
    /\ pc = "unlink"
    /\ ckpt' = "none"
    /\ pc' = "boot"
    /\ UNCHANGED <<part, bare, reachable, pulse, history>>

-----------------------------------------------------------------------------
(* worker.main. *)

\* Registrations, the checkpoint's existence, reconcile_orphaned_jobs.
Boot ==
    /\ pc = "boot"
    /\ \/ /\ pc' = (IF reachable /\ bare # "none" THEN "load" ELSE "down")
          /\ UNCHANGED failures
       \/ Fault /\ Exits
    /\ UNCHANGED <<disk, reachable, pulse, served, crashes>>

\* Mutant: what load_state_dict says is missing or unexpected goes unread, as
\* upstream has it.
AnyThatOpens == bare # "partial"

\* load_bandit: a file cut off does not load, and tensors that are missing or
\* unexpected raise.
Loadable == bare = "whole"

\* get_separator.  Then the heartbeat's thread starts, with its first beat, and
\* work registers the worker, which takes Redis.
Load ==
    /\ pc = "load"
    /\ IF Loadable /\ reachable
          THEN /\ pc' = "serve" /\ served' = TRUE
               /\ beatIn' = 0 /\ beaten' = FALSE /\ missed' = 0 /\ gone' = 0
          ELSE Exits /\ UNCHANGED <<served, beatIn, beaten, missed, gone>>
    /\ UNCHANGED <<disk, reachable, alive, crashes, failures>>

\* Mutant: SET without ex, on a key that nothing else takes away.
Lasting(ttl) == IF ttl > 0 THEN ttl ELSE 0

\* The key loses a tick of its time.
Shorter(ttl) == IF ttl > 0 THEN ttl - 1 ELSE 0

\* One turn of beat, whatever the worker's main thread is doing.
Beat ==
    /\ pc = "serve" /\ beatIn <= 0
    /\ \/ /\ reachable
          /\ alive' = AliveTTL /\ beaten' = TRUE /\ missed' = 0
          /\ UNCHANGED failures
       \/ /\ IF reachable THEN Fault ELSE UNCHANGED failures
          /\ missed' = IF missed < 2 THEN missed + 1 ELSE 2
          /\ UNCHANGED <<alive, beaten>>
    /\ beatIn' = Period
    /\ UNCHANGED <<pc, disk, reachable, gone, served, crashes>>

-----------------------------------------------------------------------------
(* The container, Redis and the clock. *)

\* Killed, out of memory, redeployed: the files stay as they are at that moment.
Crash ==
    /\ pc # "down" /\ crashes < MaxCrashes
    /\ crashes' = crashes + 1
    /\ pc' = "down"
    /\ part' \in (IF pc = "transfer" THEN {part, "partial"} ELSE {part})
    /\ UNCHANGED <<ckpt, bare, reachable, pulse, served, failures>>

RedisGoes ==
    /\ reachable /\ Fault /\ reachable' = FALSE
    /\ UNCHANGED <<pc, disk, pulse, served, crashes>>

RedisBack ==
    /\ ~reachable /\ reachable' = TRUE
    /\ UNCHANGED <<pc, disk, pulse, history>>

\* Booting takes any time; a heartbeat that is due waits at most Late.
Tick ==
    /\ pc = "serve" => beatIn > -Late
    /\ alive' = Shorter(alive)
    /\ beatIn' = IF pc = "serve" THEN beatIn - 1 ELSE beatIn
    /\ gone' = IF pc = "serve" \/ gone = AliveTTL THEN gone ELSE gone + 1
    /\ UNCHANGED <<pc, disk, reachable, beaten, missed, history>>

Work == \/ Start \/ Check \/ Verify \/ Transfer \/ Md5 \/ Convert \/ Save \/ Unlink
        \/ Boot \/ Load \/ Beat

Next == Work \/ Crash \/ RedisGoes \/ RedisBack \/ Tick

Spec == Init /\ [][Next]_vars

\* The container is restarted whenever it is down, its process is one thread,
\* and the heartbeat's thread is scheduled; so is Redis restarted.
FairSpec == Spec /\ WF_vars(Work) /\ WF_vars(RedisBack) /\ WF_vars(Tick)

-----------------------------------------------------------------------------
(* Properties. *)

\* Types; and a process serves only from weights that are all there and its
\* own: "a model full of random weights that still runs" (load_bandit).
TypeOK ==
    /\ pc \in {"down", "serve"} \union Booting
    /\ part \in {"none", "partial", "whole"}
    /\ ckpt \in {"none", "whole", "damaged"}
    /\ bare \in {"none", "partial", "whole", "foreign"} /\ reachable \in BOOLEAN
    /\ pc = "serve" => bare = "whole"
    /\ alive \in 0..AliveTTL /\ beatIn \in (-Late)..Period /\ gone \in 0..AliveTTL
    /\ beaten \in BOOLEAN /\ missed \in 0..2 /\ served \in BOOLEAN
    /\ crashes \in 0..MaxCrashes /\ failures \in 0..MaxFailures

\* live_workers: the processes whose key is there.
WorkerIsLive == alive > 0

\* The container's own probe asks for its worker's key, /readyz for any; both
\* fail without Redis.
CheckWorker == reachable /\ WorkerIsLive
Readyz      == reachable /\ WorkerIsLive

\* "There is no phase in which a healthy worker looks dead"
\* (start_liveness_heartbeat): once it has asserted its liveness, not even a
\* lost heartbeat lets the key lapse before the next.  A probe that does not
\* reach Redis fails whatever the worker does.
HealthyLooksAlive == pc = "serve" /\ beaten /\ missed <= 1 /\ reachable => CheckWorker

\* "A key outlives its process by at most worker_alive_ttl_seconds"
\* (live_workers), restarts in between included.
DeadIsNoticed == pc # "serve" => alive + gone <= AliveTTL

\* The weights are fetched once: after a first boot no restart, whenever it
\* comes, downloads them again (fetch_weights.main: "must be idempotent").
FetchedOnce == [][served => pc' # "transfer"]_vars

\* A crash in the middle of a download, a conversion or a move never leaves
\* files behind that keep the worker from booting (is_usable), nor does a
\* checkpoint that was damaged before.  A foreign state_dict does, for good: it
\* passes is_usable, so that nothing is fetched, and load_bandit refuses it.
BootsInTheEnd == bare # "foreign" => <>[](pc = "serve" /\ Readyz)
=============================================================================
