------------------------------ MODULE Retention ------------------------------
(***************************************************************************)
(* The age limits of the service on one clock: how long Redis keeps a      *)
(* record and a tombstone (jobs.save_job, jobs.request_cancel), how long   *)
(* the reaper leaves uploads and outputs alone (reaper.sweep_artifacts),   *)
(* how long a run may last (RQ's job_timeout) and how soon a silent record *)
(* is settled (settle_if_stale, reaper.main).  JobLifecycle is untimed and *)
(* takes from here when a record, a tombstone or a file may go.            *)
(*                                                                         *)
(* A handler is one step here: JobLifecycle has the interleavings.  Time   *)
(* passes in Tick, one unit for everything; whatever a live process does   *)
(* at once (take the next job, sweep when the interval is over, time a run *)
(* out) holds the clock until it is done.                                  *)
(***************************************************************************)
EXTENDS Integers, FiniteSets

CONSTANTS
    Jobs, NoJob,
    ResultTTL,   \* settings.result_ttl_seconds
    JobTimeout,  \* settings.job_timeout_seconds
    StaleAfter,  \* settings.stale_job_seconds
    Interval,    \* the reaper's sleep between two sweeps
    Lag,         \* most ticks between os.utime and the save that settles
    MaxCrashes   \* bound on worker crashes

ASSUME NoJobAssumption == NoJob \notin Jobs

\* As the defaults have it: 24 h, 12 h, 30 min, 1 h.
ASSUME LimitsAssumption ==
    /\ ResultTTL \in Nat /\ JobTimeout \in Nat \ {0} /\ JobTimeout < ResultTTL
    /\ StaleAfter \in Nat \ {0} /\ Interval \in Nat \ {0}
    /\ StaleAfter + Interval < ResultTTL + JobTimeout
    /\ Lag \in Nat /\ Lag < JobTimeout
    /\ MaxCrashes \in Nat

VARIABLES
    status,   \* status[j]: "none" when there is no record
    ttl,      \* ttl[j]: ticks until Redis drops the record
    silent,   \* silent[j]: ticks since the record was last written
    tomb,     \* tomb[j]: ticks until Redis drops the tombstone, 0: there is none
    upload,   \* upload[j]: age of the file in the inbox, or Gone
    out,      \* out[j]: age of the output directory, or Gone
    scratch,  \* scratch[j]: age of the wav ffmpeg decodes j into, or Gone
    queue,    \* the jobs in RQ's queue (external)
    ahead,    \* ahead[j]: the jobs queued when j was
    runner,   \* the job the worker runs, or NoJob
    phase,    \* what the run does next
    left,     \* ticks until RQ times the run out
    loose,    \* the jobs whose run has caught RQ's timeout and gone on
    lag,      \* ticks since os.utime
    up,       \* the worker process is running
    crashes,
    swept,    \* ticks since the reaper's last sweep
    used,     \* ids already issued
    deleted   \* jobs that a DELETE has removed

store   == <<status, ttl, silent, tomb>>
files   == <<upload, out, scratch>>
worker  == <<runner, phase, left, lag, loose>>
others  == <<up, crashes, swept, used, deleted>>
waiting == <<queue, ahead>>
vars    == <<store, files, waiting, worker, others>>

Gone == -1

Least(a, b) == IF a <= b THEN a ELSE b

Unsettled == {"queued", "running"}
Terminal  == {"succeeded", "failed"}

\* Mutant: a settled record gets the job timeout on top, too.
LongTTLForAll(s) == ResultTTL + JobTimeout

\* save_job's ttl
RecordTTL(s) == IF s \in Terminal THEN ResultTTL ELSE ResultTTL + JobTimeout

\* Mutant: tombstones live a tick less than a run may.
ShortTombTTL == JobTimeout - 1

TombTTL == JobTimeout

\* save_job
Save(j, s) ==
    /\ status' = [status EXCEPT ![j] = s]
    /\ ttl'    = [ttl EXCEPT ![j] = RecordTTL(s)]
    /\ silent' = [silent EXCEPT ![j] = 0]

\* settle
Settle(j, s) ==
    IF tomb[j] > 0 THEN UNCHANGED <<status, ttl, silent>> ELSE Save(j, s)

Idle == /\ runner' = NoJob /\ phase' = "idle" /\ left' = 0 /\ lag' = 0
        /\ UNCHANGED loose

Init ==
    /\ status = [j \in Jobs |-> "none"]
    /\ ttl = [j \in Jobs |-> 0] /\ silent = [j \in Jobs |-> 0]
    /\ tomb = [j \in Jobs |-> 0]
    /\ upload = [j \in Jobs |-> Gone] /\ out = [j \in Jobs |-> Gone]
    /\ scratch = [j \in Jobs |-> Gone]
    /\ queue = {} /\ ahead = [j \in Jobs |-> {}]
    /\ runner = NoJob /\ phase = "idle" /\ left = 0 /\ lag = 0
    /\ loose = {}
    /\ up = TRUE /\ crashes = 0 /\ swept = 0
    /\ used = {} /\ deleted = {}

-----------------------------------------------------------------------------
(* Requests. *)

\* create_job: the upload, then the record, then the queue.
Submit(j) ==
    /\ j \notin used
    /\ used' = used \union {j}
    /\ upload' = [upload EXCEPT ![j] = 0]
    /\ Save(j, "queued")
    /\ queue' = queue \union {j} /\ ahead' = [ahead EXCEPT ![j] = queue]
    /\ UNCHANGED <<tomb, out, scratch, worker, up, crashes, swept, deleted>>

\* delete_job
Delete(j) ==
    /\ status[j] # "none"
    /\ tomb' = [tomb EXCEPT ![j] = TombTTL]
    /\ queue' = queue \ {j}
    /\ status' = [status EXCEPT ![j] = "none"]
    /\ ttl' = [ttl EXCEPT ![j] = 0]
    /\ silent' = [silent EXCEPT ![j] = 0]
    /\ out' = [out EXCEPT ![j] = Gone] /\ upload' = [upload EXCEPT ![j] = Gone]
    /\ deleted' = deleted \union {j}
    /\ UNCHANGED <<scratch, ahead, worker, up, crashes, swept, used>>

-----------------------------------------------------------------------------
(* The worker: run_separation. *)

\* First in, first out, and the output directory is made.  A record that has
\* expired in the queue fails the call before anything else.
Start(j) ==
    /\ up /\ runner = NoJob
    /\ j \in queue /\ ahead[j] \intersect queue = {}
    /\ queue' = queue \ {j}
    /\ IF status[j] = "none"
          THEN UNCHANGED <<store, out, worker>>
          ELSE /\ Save(j, "running")
               /\ out' = [out EXCEPT ![j] = 0]
               /\ runner' = j /\ phase' = "decode" /\ left' = JobTimeout /\ lag' = 0
               /\ UNCHANGED <<tomb, loose>>
    /\ UNCHANGED <<upload, scratch, ahead, others>>

\* The input is read whole, and the stem files are created, in a directory that a
\* DELETE may have taken.
Decode ==
    /\ phase = "decode" /\ upload[runner] # Gone /\ out[runner] # Gone
    /\ out' = [out EXCEPT ![runner] = 0]
    /\ phase' = "infer"
    /\ UNCHANGED <<store, upload, scratch, waiting, runner, left, lag, loose, others>>

\* ffmpeg decodes into a file beside the input.
StartFfmpeg ==
    /\ scratch' = [scratch EXCEPT ![runner] = 0]
    /\ phase' = "ffmpeg"
    /\ UNCHANGED <<store, upload, out, waiting, runner, left, lag, others>>

\* What libsndfile cannot open, every video, is left to ffmpeg.
NotSoundfile ==
    /\ phase = "decode" /\ upload[runner] # Gone
    /\ StartFfmpeg
    /\ UNCHANGED loose

\* _load_audio takes whatever ta.load raises for a format it cannot open, RQ's
\* JobTimeoutException too: the run goes on with ffmpeg, and nothing limits it
\* any more.
TimeoutSwallowed ==
    /\ phase = "decode" /\ left = 0 /\ upload[runner] # Gone
    /\ StartFfmpeg
    /\ loose' = loose \union {runner}

FfmpegWrites ==
    /\ phase = "ffmpeg" /\ scratch[runner] > 0
    /\ scratch' = [scratch EXCEPT ![runner] = 0]
    /\ UNCHANGED <<store, upload, out, waiting, worker, others>>

\* finally: tmp.unlink.  Then the stem files are created as in Decode.
FfmpegDone ==
    /\ phase = "ffmpeg" /\ out[runner] # Gone
    /\ scratch' = [scratch EXCEPT ![runner] = Gone]
    /\ out' = [out EXCEPT ![runner] = 0]
    /\ phase' = "infer"
    /\ UNCHANGED <<store, upload, waiting, runner, left, lag, loose, others>>

\* on_progress: the record is written over, whatever it says by now.  Twice in a
\* tick is the same as once.
Progress ==
    /\ phase = "infer" /\ tomb[runner] = 0
    /\ status[runner] # "running" \/ silent[runner] > 0
    /\ Save(runner, "running")
    /\ UNCHANGED <<tomb, files, waiting, worker, others>>

\* JobCancelled: what the run has written goes, and so does its input.
Cancelled ==
    /\ phase = "infer" /\ tomb[runner] > 0
    /\ out' = [out EXCEPT ![runner] = Gone]
    /\ upload' = [upload EXCEPT ![runner] = Gone]
    /\ Idle
    /\ UNCHANGED <<store, scratch, waiting, others>>

\* Mutant: no os.utime, the directory keeps the age it has had since decode.
AgeKept(j) == out[j]

\* os.utime sets the modification time to now.
Restamped(j) == 0

Stamp ==
    /\ phase = "infer" /\ out[runner] # Gone
    /\ out' = [out EXCEPT ![runner] = Restamped(runner)]
    /\ phase' = "settle"
    /\ UNCHANGED <<store, upload, scratch, waiting, runner, left, lag, loose, others>>

Succeed ==
    /\ phase = "settle"
    /\ Settle(runner, "succeeded")
    /\ upload' = [upload EXCEPT ![runner] = Gone]
    /\ Idle
    /\ UNCHANGED <<tomb, out, scratch, waiting, others>>

\* Anything raised in the run's body, RQ's timeout included; ffmpeg's file goes.
Fail ==
    /\ runner # NoJob
    /\ Settle(runner, "failed")
    /\ upload' = [upload EXCEPT ![runner] = Gone]
    /\ scratch' = [scratch EXCEPT ![runner] = Gone]
    /\ Idle
    /\ UNCHANGED <<tomb, out, waiting, others>>

Crash ==
    /\ up /\ crashes < MaxCrashes
    /\ up' = FALSE /\ crashes' = crashes + 1
    /\ Idle
    /\ UNCHANGED <<store, files, waiting, swept, used, deleted>>

\* reconcile_orphaned_jobs: whatever is running is failed.
Orphaned(j) == status[j] = "running" /\ tomb[j] = 0

Restart ==
    /\ ~up
    /\ up' = TRUE
    /\ status' = [j \in Jobs |-> IF Orphaned(j) THEN "failed" ELSE status[j]]
    /\ ttl' = [j \in Jobs |-> IF Orphaned(j) THEN ResultTTL ELSE ttl[j]]
    /\ silent' = [j \in Jobs |-> IF Orphaned(j) THEN 0 ELSE silent[j]]
    /\ UNCHANGED <<tomb, files, waiting, worker, crashes, swept, used, deleted>>

-----------------------------------------------------------------------------
(* The reaper: sweep_stale_jobs, then sweep_artifacts. *)

\* Mutant: only polls settle a stale record.
NeverStale(j) == FALSE

\* settle_if_stale, tombstone included
Stale(j) == status[j] = "running" /\ silent[j] >= StaleAfter /\ tomb[j] = 0

\* Mutant: the retention window is shorter by the job timeout.
EarlyCutoff(age) == age >= ResultTTL - JobTimeout

\* entry.stat().st_mtime <= cutoff
PastCutoff(age) == age >= ResultTTL

\* Mutant: the sweep removes nothing.
KeptForever(age) == age

Swept(age) == IF PastCutoff(age) THEN Gone ELSE age

Sweep ==
    /\ status' = [j \in Jobs |-> IF Stale(j) THEN "failed" ELSE status[j]]
    /\ ttl' = [j \in Jobs |-> IF Stale(j) THEN ResultTTL ELSE ttl[j]]
    /\ silent' = [j \in Jobs |-> IF Stale(j) THEN 0 ELSE silent[j]]
    /\ upload' = [j \in Jobs |-> Swept(upload[j])]
    /\ out' = [j \in Jobs |-> Swept(out[j])]
    /\ scratch' = [j \in Jobs |-> Swept(scratch[j])]
    /\ swept' = 0
    /\ UNCHANGED <<tomb, waiting, worker, up, crashes, used, deleted>>

-----------------------------------------------------------------------------
(* The clock. *)

\* Redis drops a key when its time is up.
Expires(j) == ttl[j] = 1

Aged(age) == IF age = Gone THEN Gone ELSE Least(age + 1, ResultTTL)

\* A live worker takes the next job at once; when RQ times a run out it ends, or
\* catches the exception; the reaper sweeps on time.  A run may be silent for as
\* long as it lasts.
ClockMayRun ==
    /\ ~(up /\ runner = NoJob /\ queue # {})
    /\ runner # NoJob => left > 0 \/ runner \in loose
    /\ phase = "settle" => lag < Lag
    /\ swept < Interval

Tick ==
    /\ ClockMayRun
    /\ status' = [j \in Jobs |-> IF Expires(j) THEN "none" ELSE status[j]]
    /\ ttl' = [j \in Jobs |-> IF ttl[j] = 0 THEN 0 ELSE ttl[j] - 1]
    /\ silent' = [j \in Jobs |-> IF status[j] # "running" \/ Expires(j) THEN 0
                                 ELSE Least(silent[j] + 1, StaleAfter)]
    /\ tomb' = [j \in Jobs |-> IF tomb[j] = 0 THEN 0 ELSE tomb[j] - 1]
    /\ upload' = [j \in Jobs |-> Aged(upload[j])]
    /\ out' = [j \in Jobs |-> Aged(out[j])]
    /\ scratch' = [j \in Jobs |-> Aged(scratch[j])]
    /\ left' = IF left = 0 THEN 0 ELSE left - 1
    /\ lag' = IF phase = "settle" THEN lag + 1 ELSE lag
    /\ swept' = swept + 1
    /\ UNCHANGED <<waiting, runner, phase, loose, up, crashes, used, deleted>>

Decoding == Decode \/ NotSoundfile \/ TimeoutSwallowed \/ FfmpegDone
Ending   == Cancelled \/ Stamp \/ Succeed \/ Fail

Next ==
    \/ \E j \in Jobs : Submit(j) \/ Delete(j) \/ Start(j)
    \/ Decoding \/ FfmpegWrites \/ Progress \/ Ending
    \/ Crash \/ Restart \/ Sweep \/ Tick

Spec == Init /\ [][Next]_vars

\* Time passes; the worker, while it is up, takes the next job and comes to the end
\* of a finite input; the reaper sweeps.
FairSpec == /\ Spec
            /\ WF_vars(\E j \in Jobs : Start(j)) /\ WF_vars(Decoding \/ Ending)
            /\ WF_vars(Sweep) /\ WF_vars(Tick)

-----------------------------------------------------------------------------
(* Properties. *)

\* Types, and with them: a record has a TTL exactly while it exists, a settled one
\* at most the result TTL (save_job).
TypeOK ==
    /\ status \in [Jobs -> {"none"} \union Unsettled \union Terminal]
    /\ ttl \in [Jobs -> 0..(ResultTTL + JobTimeout)]
    /\ \A j \in Jobs : /\ status[j] = "none" <=> ttl[j] = 0
                       /\ status[j] \in Terminal => ttl[j] <= ResultTTL
    /\ silent \in [Jobs -> 0..StaleAfter]
    /\ tomb \in [Jobs -> 0..JobTimeout]
    /\ upload \in [Jobs -> Gone..ResultTTL] /\ out \in [Jobs -> Gone..ResultTTL]
    /\ scratch \in [Jobs -> Gone..ResultTTL]
    /\ queue \subseteq Jobs /\ ahead \in [Jobs -> SUBSET Jobs]
    /\ runner \in Jobs \union {NoJob} /\ (runner = NoJob <=> phase = "idle")
    /\ phase \in {"idle", "decode", "ffmpeg", "infer", "settle"}
    /\ left \in 0..JobTimeout /\ lag \in 0..Lag /\ loose \subseteq used
    /\ up \in BOOLEAN /\ crashes \in 0..MaxCrashes /\ swept \in 0..Interval
    /\ used \subseteq Jobs /\ deleted \subseteq Jobs

\* No report and no settlement of its run brings a deleted job's record back: the
\* tombstone that request_cancel leaves lasts as long as RQ lets the run
\* (jobs.py:185).  What a run does after its time is out of the tombstone's reach:
\* the one deleted in the tick it began, whose timeout is handled in the tick the
\* tombstone goes, and the one that has caught the timeout.
DeletedStaysDeleted ==
    [][\A j \in deleted : status[j] = "none" =>
           status'[j] = "none" \/ (runner = j /\ left = 0)]_vars

\* Redis never drops a record that says running: its run, the reaper or the
\* next boot settles it first.  Only a DELETE removes one (reaper.py: recovery
\* is "independent of who is watching").
RunningNeverExpires ==
    [][\A j \in Jobs : status[j] = "running" /\ status'[j] = "none" => j \in deleted']_vars

\* The sweep judges by age alone; what a run has written is safe from it for
\* as long as RQ limits the run, ffmpeg's file and the run's os.utime included
\* (sweep_artifacts).
RunKeepsOutput ==
    runner \notin loose =>
        /\ phase = "ffmpeg" => scratch[runner] # Gone
        /\ phase # "idle" => out[runner] # Gone \/ runner \in deleted

\* get_stem: 409 for a job that has not succeeded, 404 for a file not there.
GetStem(j) == status[j] = "succeeded" /\ out[j] # Gone

\* Records and artifacts expire together (README, BANDIT_RESULT_TTL_SECONDS): a
\* succeeded record outlives its stems by no more than the time between
\* os.utime and the save.
ServableToTheEnd ==
    \A j \in Jobs : status[j] = "succeeded" => GetStem(j) \/ ttl[j] <= Lag

\* As long as the worker has not died, no run has caught its timeout and the
\* backlog is shorter than the result TTL, a queued job keeps both its record and
\* its upload.
BacklogFits == (Cardinality(Jobs) - 1) * JobTimeout < ResultTTL

QueuedSurvives ==
    BacklogFits /\ crashes = 0 /\ loose = {} =>
        \A j \in queue : status[j] = "queued" /\ upload[j] # Gone

\* In the end nothing of any job is left, neither in Redis nor on the volume,
\* whatever became of it: a worker that dies while ffmpeg decodes leaves a file that
\* no record names, and only its age gives it away.  A worker that stays down
\* leaves RQ its queue.
AllIsForgotten ==
    \A j \in Jobs : <>[](/\ status[j] = "none" /\ tomb[j] = 0
                         /\ up => j \notin queue
                         /\ upload[j] = Gone /\ out[j] = Gone /\ scratch[j] = Gone)

\* jobs.py, save_job: "a job cannot expire while still queued or running behind
\* a backlog".  It can, behind a long one.
QueuedKeepsRecord ==
    \A j \in queue : status[j] = "queued"
=============================================================================
