---------------------------- MODULE JobLifecycle ----------------------------
(***************************************************************************)
(* The life of a separation job, from the upload to the webhook, as it is  *)
(* driven by four kinds of process that share Redis and the data volume:   *)
(*                                                                         *)
(*   Handlers  request handlers of the API        (api.py, jobs.py)        *)
(*   Reaper    the periodic janitor               (reaper.py)              *)
(*   Booter    the worker process while it boots  (worker.py, jobs.py)     *)
(*   Worker    the worker process while it works  (jobs.run_separation)    *)
(*                                                                         *)
(* Booter and Worker are one operating-system process: Worker is "down"    *)
(* until Booter has reconciled, and a crash takes both.  One step of the   *)
(* model is one Redis command or one file-system call, so everything the   *)
(* code does between two of them may interleave with the other processes.  *)
(*                                                                         *)
(* Only SweepFiles takes several files in one step.                        *)
(*                                                                         *)
(* The model is untimed.  A record that has reached its age limit is       *)
(* "quiet": stale_job_seconds for one that says running, the age of its    *)
(* output directory for one that says succeeded.  A record, a tombstone or *)
(* a file whose age limit has passed may go at any moment the guards of    *)
(* Expire, TombExpires and SweepFiles allow.                               *)
(***************************************************************************)
EXTENDS Naturals

CONSTANTS
    Jobs,       \* job ids (uuid4: never issued twice)
    Handlers,   \* concurrent request handlers of the API
    Reaper,     \* the janitor process
    Booter,     \* the worker process, from main() to worker.work()
    Worker,     \* the worker process, inside worker.work()
    NoJob,      \* "this process has no job in hand"
    Batches,    \* unthrottled progress reports of one separation
    Sources,    \* the submission routes used: "file", "url"
    Env,        \* what the environment may do, see EnvKinds
    MaxFaults   \* bound on crashes, timeouts and Redis outages

EnvKinds ==
    { "delete",      \* clients send DELETE
      "crash",       \* a process is killed between two steps
      "outage",      \* a Redis command raises
      "timeout",     \* RQ's JobTimeoutException interrupts a run
      "silence",     \* a live run writes nothing for stale_job_seconds
      "redispatch",  \* RQ hands out an entry its dead worker had started
      "backlog" }    \* a job waits longer than its record or upload lives

SourceKinds == {"file", "url"}
FaultKinds  == {"crash", "outage", "timeout"}

Procs == Handlers \union {Reaper, Booter, Worker}

ASSUME ProcsAssumption ==
    /\ Reaper \notin Handlers /\ Booter \notin Handlers /\ Worker \notin Handlers
    /\ Reaper # Booter /\ Reaper # Worker /\ Booter # Worker

ASSUME JobsAssumption == NoJob \notin Jobs

ASSUME ParametersAssumption ==
    /\ Batches \in Nat \ {0}
    /\ Sources \subseteq SourceKinds
    /\ Env \subseteq EnvKinds
    /\ MaxFaults \in Nat

VARIABLES
    \* Redis: the job record, and the tombstone key of request_cancel
    status,     \* status[j]; "none" when there is no record
    quiet,      \* quiet[j]: the record has reached its age limit
    tomb,       \* tomb[j]: the cancel key exists
    \* Redis: RQ's own entry of the job (external)
    entry,
    \* the data volume
    inbox,      \* inbox[j]: a file named "<id>.*" lies in the inbox
    out,        \* out[j]: "none", an empty "dir", or the "stems"
    \* processes
    pc,
    job,        \* the job each process has in hand
    toSweep,    \* keys the reaper's scan has yet to visit
    toAbandon,  \* records of the boot-time MGET yet to be abandoned
    outcome,    \* the worker's job.status: terminal status it would settle
    batch,      \* progress reports the run has saved
    localInput, \* the worker's local_input names a file of the inbox
    \* the outside world
    source,     \* how j was submitted; "none" while the id is not issued
    known,      \* ids the API has returned to a client
    posted,     \* posted[j][o]: webhooks sent for j with status o
    faults,
    \* history
    deleted,    \* jobs whose record a DELETE has removed
    raced,      \* deleted while another process was committed to a write
    abandoned,  \* jobs failed from outside while no run had them in hand
    struck      \* <<j, kind>>: a fault struck a process with j in hand

records == <<status, quiet>>
disk    == <<inbox, out>>
control == <<pc, job>>
lists   == <<toSweep, toAbandon>>
run     == <<outcome, batch, localInput>>
client  == <<source, known>>
marks   == <<deleted, raced, abandoned>>
history == <<marks, struck>>

vars == <<records, tomb, entry, disk, control, lists, run, client, posted,
          faults, history>>

-----------------------------------------------------------------------------
(* Control points.  A name says what the process does next. *)

SettlePCs == {"repudiate", "check", "save", "notify"}   \* abandon_job, settle
CreatePCs == {"create_save", "create_enqueue", "create_respond"}
DeletePCs == {"request_cancel", "cancel_rq", "delete_record", "remove_files",
              "remove_inbox"}
BodyPCs   == {"fetch", "download", "prepare", "decode", "infer", "report", "stamp"}

HandlerPCs == {"idle"} \union CreatePCs \union DeletePCs \union SettlePCs
ReaperPCs  == {"sleep", "scan"} \union SettlePCs
BooterPCs  == {"off", "scan"} \union SettlePCs
WorkerPCs  == {"down", "idle", "popped", "loaded", "cleanup", "finally"}
                  \union BodyPCs \union (SettlePCs \ {"repudiate"})

AllPCs == HandlerPCs \union ReaperPCs \union BooterPCs \union WorkerPCs

\* Where a process has no job in hand.
RestPCs == {"idle", "sleep", "scan", "off", "down"}

\* Definitions headed "Mutant" are not part of the model: each is the next
\* definition with a plausible bug in it, and some property must catch it.

\* Mutant: the job is handed to RQ before its record exists.
EnqueueBeforeSave == [ idle           |-> "create_enqueue",
                       create_enqueue |-> "create_save",
                       create_save    |-> "create_respond" ]

\* Mutant: the record is saved and never handed to RQ.
SaveWithoutEnqueue == [ idle           |-> "create_save",
                        create_save    |-> "create_respond",
                        create_enqueue |-> "create_respond" ]

\* _enqueue persists the record before RQ can hand the job out.
AfterSubmit == [ idle           |-> "create_save",
                 create_save    |-> "create_enqueue",
                 create_enqueue |-> "create_respond" ]

\* Mutant: the tombstone is planted when the record is already gone.
TombstoneLast == [ idle           |-> "cancel_rq",
                   cancel_rq      |-> "delete_record",
                   delete_record  |-> "request_cancel",
                   request_cancel |-> "remove_files" ]

\* delete_job plants the tombstone before it removes anything.
AfterDelete == [ idle           |-> "request_cancel",
                 request_cancel |-> "cancel_rq",
                 cancel_rq      |-> "delete_record",
                 delete_record  |-> "remove_files" ]

Terminal == {"succeeded", "failed"}
Unsettled == {"queued", "running"}

Go(p, step) == pc' = [pc EXCEPT ![p] = step]

\* Settling is a call: where each process is once it returns.
Rest(p) == IF p \in Handlers THEN "idle" ELSE IF p = Worker THEN "finally" ELSE "scan"

Leave(p) ==
    /\ Go(p, Rest(p))
    /\ job' = IF p = Worker THEN job ELSE [job EXCEPT ![p] = NoJob]

\* The status fail_job or run_separation put on p's copy before settle(job).
Outcome(p) == IF p = Worker THEN outcome ELSE "failed"

Executing(j)  == job[Worker] = j
Submitting(j) == \E h \in Handlers : job[h] = j /\ pc[h] \in CreatePCs

\* Some process will still act on what it has read of j.
InFlight(j) == (\E p \in Procs : job[p] = j) \/ j \in toAbandon

\* Mutant: nobody looks at the tombstone.
NeverCancelled(j) == FALSE

\* is_cancelled
IsCancelled(j) == tomb[j]

\* Mutant: no early return for a record that is not running.
StaleWhateverStatus(j) == quiet[j] \/ status[j] = "succeeded"

\* Mutant: the slower backstop is missing.
NeverStale(j) == FALSE

\* Mutant: nobody asks how long the record has been silent.
StaleAtOnce(j) == status[j] = "running"

\* settle_if_stale's test
IsStale(j) == status[j] = "running" /\ quiet[j]

\* Mutant: every record is abandoned, whatever its status.
EveryRecord == {j \in Jobs : status[j] # "none"}

\* The records the boot-time reconcile abandons.
BootOrphans == {j \in Jobs : status[j] = "running"}

\* Mutant: the entry stays with RQ.
EntryKept(j, delete) == entry[j]

\* RQ's entry after _cancel_rq_job: cancelled in place, or deleted with it.
CancelledEntry(j, delete) ==
    IF entry[j] = "none" \/ delete THEN "none" ELSE "canceled"

\* Mutant: no unlink in the finally block.
InputKept(j) == inbox[j]

\* The input the finally block leaves behind: what local_input does not name.
InputAfterRun(j) == inbox[j] /\ ~localInput

\* Past its last look at the tombstone, and about to write the record.
CommittedToWrite == {"loaded", "fetch", "download", "report", "save"}

\* Mutant: updated_at is not stamped.
SaveUnstamped(j, s) ==
    /\ status' = [status EXCEPT ![j] = s]
    /\ UNCHANGED quiet

\* save_job
Save(j, s) ==
    /\ status' = [status EXCEPT ![j] = s]
    /\ quiet'  = [quiet EXCEPT ![j] = FALSE]

Erase(j) ==
    /\ status' = [status EXCEPT ![j] = "none"]
    /\ quiet'  = [quiet EXCEPT ![j] = FALSE]

-----------------------------------------------------------------------------
Init ==
    /\ status = [j \in Jobs |-> "none"]
    /\ quiet = [j \in Jobs |-> FALSE]
    /\ tomb = [j \in Jobs |-> FALSE]
    /\ entry = [j \in Jobs |-> "none"]
    /\ inbox = [j \in Jobs |-> FALSE]
    /\ out = [j \in Jobs |-> "none"]
    /\ pc = [p \in Procs |-> CASE p \in Handlers -> "idle"
                               [] p = Reaper     -> "sleep"
                               [] p = Booter     -> "off"
                               [] p = Worker     -> "down"]
    /\ job = [p \in Procs |-> NoJob]
    /\ toSweep = {} /\ toAbandon = {}
    /\ outcome = "failed" /\ batch = 0 /\ localInput = FALSE
    /\ source = [j \in Jobs |-> "none"]
    /\ known = {}
    /\ posted = [j \in Jobs |-> [o \in Terminal |-> 0]]
    /\ faults = 0
    /\ deleted = {} /\ raced = {} /\ abandoned = {} /\ struck = {}

-----------------------------------------------------------------------------
(* Submitting a job: create_job, create_job_from_url, _enqueue. *)

\* A new uuid; an upload has been written to the inbox before the record is.
CreateBegin(h, j, s) ==
    /\ pc[h] = "idle"
    /\ source[j] = "none"
    /\ source' = [source EXCEPT ![j] = s]
    /\ inbox' = [inbox EXCEPT ![j] = (s = "file")]
    /\ job' = [job EXCEPT ![h] = j]
    /\ Go(h, AfterSubmit["idle"])
    /\ UNCHANGED <<records, tomb, entry, out, lists, run, known, posted, faults, history>>

CreateSave(h) ==
    /\ pc[h] = "create_save"
    /\ Save(job[h], "queued")
    /\ Go(h, AfterSubmit["create_save"])
    /\ UNCHANGED <<tomb, entry, disk, job, lists, run, client, posted, faults, history>>

CreateEnqueue(h) ==
    /\ pc[h] = "create_enqueue"
    /\ entry' = [entry EXCEPT ![job[h]] = "queued"]
    /\ Go(h, AfterSubmit["create_enqueue"])
    /\ UNCHANGED <<records, tomb, disk, job, lists, run, client, posted, faults, history>>

\* 202 with the id: from here a client can poll and delete it.
CreateRespond(h) ==
    /\ pc[h] = "create_respond"
    /\ known' = known \union {job[h]}
    /\ job' = [job EXCEPT ![h] = NoJob]
    /\ Go(h, "idle")
    /\ UNCHANGED <<records, tomb, entry, disk, lists, run, source, posted, faults, history>>

-----------------------------------------------------------------------------
(* Failing a job from outside its run: settle_if_stale, abandon_job, settle. *)

\* GET /v1/jobs/{id}: only a stale record makes the handler write.
GetStale(h, j) ==
    /\ pc[h] = "idle"
    /\ j \in known
    /\ IsStale(j)
    /\ job' = [job EXCEPT ![h] = j]
    /\ Go(h, "repudiate")
    /\ UNCHANGED <<records, tomb, entry, disk, lists, run, client, posted, faults, history>>

\* abandon_job: drop RQ's entry, so that nothing can start the job again.
Repudiate(p) ==
    /\ pc[p] = "repudiate"
    /\ entry' = [entry EXCEPT ![job[p]] = CancelledEntry(job[p], TRUE)]
    /\ Go(p, "check")
    /\ UNCHANGED <<records, tomb, disk, job, lists, run, client, posted, faults, history>>

\* settle: the tombstone is looked at once, before the write.
SettleCheck(p) ==
    /\ pc[p] = "check"
    /\ IF IsCancelled(job[p])
          THEN Leave(p)
          ELSE Go(p, "save") /\ UNCHANGED job
    /\ UNCHANGED <<records, tomb, entry, disk, lists, run, client, posted, faults, history>>

SettleSave(p) ==
    /\ pc[p] = "save"
    /\ Save(job[p], Outcome(p))
    /\ abandoned' = IF Executing(job[p]) THEN abandoned ELSE abandoned \union {job[p]}
    /\ Go(p, "notify")
    /\ UNCHANGED <<tomb, entry, disk, job, lists, run, client, posted, faults, deleted, raced, struck>>

\* Mutant: only good news is sent.
PostSuccess(p) ==
    posted' = IF Outcome(p) = "succeeded" THEN [posted EXCEPT ![job[p]]["succeeded"] = 1]
                                          ELSE posted

\* _notify: the webhook is sent and forgotten; counted up to two.
Post(p) == posted' = [posted EXCEPT ![job[p]][Outcome(p)] = IF @ < 2 THEN @ + 1 ELSE @]

Notify(p) ==
    /\ pc[p] = "notify"
    /\ Post(p)
    /\ Leave(p)
    /\ UNCHANGED <<records, tomb, entry, disk, lists, run, client, faults, history>>

Settle(p) == Repudiate(p) \/ SettleCheck(p) \/ SettleSave(p) \/ Notify(p)

-----------------------------------------------------------------------------
(* Deleting a job: remove_job, delete_job. *)

DeleteBegin(h, j) ==
    /\ "delete" \in Env
    /\ pc[h] = "idle"
    /\ j \in known
    /\ job' = [job EXCEPT ![h] = j]
    /\ Go(h, AfterDelete["idle"])
    /\ UNCHANGED <<records, tomb, entry, disk, lists, run, client, posted, faults, history>>

RequestCancel(h) ==
    /\ pc[h] = "request_cancel"
    /\ tomb' = [tomb EXCEPT ![job[h]] = TRUE]
    /\ Go(h, AfterDelete["request_cancel"])
    /\ UNCHANGED <<records, entry, disk, job, lists, run, client, posted, faults, history>>

CancelRQ(h) ==
    /\ pc[h] = "cancel_rq"
    /\ entry' = [entry EXCEPT ![job[h]] = CancelledEntry(job[h], FALSE)]
    /\ Go(h, AfterDelete["cancel_rq"])
    /\ UNCHANGED <<records, tomb, disk, job, lists, run, client, posted, faults, history>>

DeleteRecord(h) ==
    /\ pc[h] = "delete_record"
    /\ Erase(job[h])
    /\ deleted' = deleted \union {job[h]}
    /\ raced' = IF \E q \in Procs : job[q] = job[h] /\ pc[q] \in CommittedToWrite
                   THEN raced \union {job[h]} ELSE raced
    /\ Go(h, AfterDelete["delete_record"])
    /\ UNCHANGED <<tomb, entry, disk, job, lists, run, client, posted, faults, abandoned, struck>>

\* rmtree of the output directory
RemoveFiles(h) ==
    /\ pc[h] = "remove_files"
    /\ out' = [out EXCEPT ![job[h]] = "none"]
    /\ Go(h, "remove_inbox")
    /\ UNCHANGED <<records, tomb, entry, inbox, job, lists, run, client, posted, faults, history>>

\* unlink of "<id>.*" in the inbox
RemoveInbox(h) ==
    /\ pc[h] = "remove_inbox"
    /\ inbox' = [inbox EXCEPT ![job[h]] = FALSE]
    /\ job' = [job EXCEPT ![h] = NoJob]
    /\ Go(h, "idle")
    /\ UNCHANGED <<records, tomb, entry, out, lists, run, client, posted, faults, history>>

-----------------------------------------------------------------------------
(* The reaper: sweep_stale_jobs, then sweep_artifacts, then sleep. *)

SweepBegin ==
    /\ pc[Reaper] = "sleep"
    /\ toSweep' = {j \in Jobs : status[j] # "none"}
    /\ Go(Reaper, "scan")
    /\ UNCHANGED <<records, tomb, entry, disk, job, toAbandon, run, client, posted, faults, history>>

\* Each key is read when the scan reaches it, not when the scan began.
SweepOne(j) ==
    /\ pc[Reaper] = "scan"
    /\ j \in toSweep
    /\ toSweep' = toSweep \ {j}
    /\ IF IsStale(j)
          THEN Go(Reaper, "repudiate") /\ job' = [job EXCEPT ![Reaper] = j]
          ELSE UNCHANGED control
    /\ UNCHANGED <<records, tomb, entry, disk, toAbandon, run, client, posted, faults, history>>

\* Mutant: without os.utime the run's own directory may be past the cutoff.
SweepableInRun(j) == status[j] # "succeeded" \/ quiet[j]

\* Outputs old enough to go: no run's own, and no result's before its record is
\* due to expire with it (Retention: ServableToTheEnd).
SweepableOut(j) == ~Executing(j) /\ (status[j] # "succeeded" \/ quiet[j])

\* Uploads old enough to go: with a backlog, also of a job not yet decoded.
SweepableInbox(j) ==
    /\ ~Submitting(j)
    /\ \/ status[j] \notin Unsettled /\ ~Executing(j)
       \/ "backlog" \in Env /\ source[j] = "file"

\* Which of those have passed the cutoff is the environment's choice.
SweepFiles ==
    /\ pc[Reaper] = "scan"
    /\ toSweep = {}
    /\ \E O \in SUBSET {j \in Jobs : out[j] # "none" /\ SweepableOut(j)},
          I \in SUBSET {j \in Jobs : inbox[j] /\ SweepableInbox(j)} :
          /\ out' = [j \in Jobs |-> IF j \in O THEN "none" ELSE out[j]]
          /\ inbox' = [j \in Jobs |-> inbox[j] /\ j \notin I]
    /\ Go(Reaper, "sleep")
    /\ UNCHANGED <<records, tomb, entry, job, lists, run, client, posted, faults, history>>

-----------------------------------------------------------------------------
(* The worker boots: reconcile_orphaned_jobs, _abandon_running, get_separator. *)

\* One MGET: every record is judged by the copy taken here.
Boot ==
    /\ pc[Worker] = "down" /\ pc[Booter] = "off"
    /\ toAbandon' = BootOrphans
    /\ Go(Booter, "scan")
    /\ UNCHANGED <<records, tomb, entry, disk, job, toSweep, run, client, posted, faults, history>>

BootOne(j) ==
    /\ pc[Booter] = "scan"
    /\ j \in toAbandon
    /\ toAbandon' = toAbandon \ {j}
    /\ job' = [job EXCEPT ![Booter] = j]
    /\ Go(Booter, "repudiate")
    /\ UNCHANGED <<records, tomb, entry, disk, toSweep, run, client, posted, faults, history>>

\* Model loaded, heartbeat started: the worker takes work.
BootDone ==
    /\ pc[Booter] = "scan"
    /\ toAbandon = {}
    /\ pc' = [pc EXCEPT ![Booter] = "off", ![Worker] = "idle"]
    /\ UNCHANGED <<records, tomb, entry, disk, job, lists, run, client, posted, faults, history>>

-----------------------------------------------------------------------------
(* The worker runs a job: run_separation, _materialize_input, separate_file. *)

\* RQ pops the entry and calls run_separation.
Dequeue(j) ==
    /\ pc[Worker] = "idle"
    /\ entry[j] = "queued"
    /\ entry' = [entry EXCEPT ![j] = "started"]
    /\ job' = [job EXCEPT ![Worker] = j]
    /\ Go(Worker, "popped")
    /\ UNCHANGED <<records, tomb, disk, lists, run, client, posted, faults, history>>

\* The call has returned or raised; RQ closes its entry and the worker waits.
RunEnds ==
    /\ entry' = [entry EXCEPT ![job[Worker]] = IF @ = "queued" THEN @ ELSE "none"]
    /\ job' = [job EXCEPT ![Worker] = NoJob]
    /\ Go(Worker, "idle")
    /\ outcome' = "failed" /\ batch' = 0 /\ localInput' = FALSE

LoadRecord ==
    /\ pc[Worker] = "popped"
    /\ IF status[job[Worker]] = "none"
          THEN RunEnds                                \* RuntimeError
          ELSE Go(Worker, "loaded") /\ UNCHANGED <<entry, job, run>>
    /\ UNCHANGED <<records, tomb, disk, lists, client, posted, faults, history>>

\* The first write: no tombstone is looked at, and no status either.
StartRun ==
    /\ pc[Worker] = "loaded"
    /\ Save(job[Worker], "running")
    /\ outcome' = "failed" /\ batch' = 0
    /\ localInput' = (source[job[Worker]] = "file")
    /\ Go(Worker, IF source[job[Worker]] = "url" THEN "fetch" ELSE "prepare")
    /\ UNCHANGED <<tomb, entry, disk, job, lists, client, posted, faults, history>>

\* _materialize_input opens "<id>.download" before the first block arrives.
FetchOpen ==
    /\ pc[Worker] = "fetch"
    /\ inbox' = [inbox EXCEPT ![job[Worker]] = TRUE]
    /\ Go(Worker, "download")
    /\ UNCHANGED <<records, tomb, entry, out, job, lists, run, client, posted, faults, history>>

FetchHeartbeat ==
    /\ pc[Worker] = "download"
    /\ Save(job[Worker], "running")
    /\ UNCHANGED <<tomb, entry, disk, control, lists, run, client, posted, faults, history>>

\* Only now does local_input name the file.
FetchDone ==
    /\ pc[Worker] = "download"
    /\ localInput' = TRUE
    /\ Go(Worker, "prepare")
    /\ UNCHANGED <<records, tomb, entry, disk, job, lists, outcome, batch, client, posted, faults, history>>

\* Over max_upload_bytes: the partial file goes, and the run fails.
FetchTooLarge ==
    /\ pc[Worker] = "download"
    /\ inbox' = [inbox EXCEPT ![job[Worker]] = FALSE]
    /\ Go(Worker, "check")
    /\ UNCHANGED <<records, tomb, entry, out, job, lists, run, client, posted, faults, history>>

\* The body of the try block raises: a bad source, an undecodable file, a
\* directory removed underneath it.
BodyRaises ==
    /\ pc[Worker] \in BodyPCs \ {"report"}
    /\ Go(Worker, "check")
    /\ UNCHANGED <<records, tomb, entry, disk, job, lists, run, client, posted, faults, history>>

\* output_dir.mkdir(exist_ok=True)
MakeOutputDir ==
    /\ pc[Worker] = "prepare"
    /\ out' = [out EXCEPT ![job[Worker]] = IF @ = "none" THEN "dir" ELSE @]
    /\ Go(Worker, "decode")
    /\ UNCHANGED <<records, tomb, entry, inbox, job, lists, run, client, posted, faults, history>>

\* The input is read and every stem file opened; audio without a sample in it
\* skips the loop, and with it every progress report.
Decode ==
    /\ pc[Worker] = "decode"
    /\ inbox[job[Worker]] /\ out[job[Worker]] # "none"
    /\ out' = [out EXCEPT ![job[Worker]] = "stems"]
    /\ \E next \in {"infer", "stamp"} : Go(Worker, next)
    /\ UNCHANGED <<records, tomb, entry, inbox, job, lists, run, client, posted, faults, history>>

\* on_progress: look at the tombstone, then write.
ProgressCheck ==
    /\ pc[Worker] = "infer"
    /\ Go(Worker, IF IsCancelled(job[Worker]) THEN "cleanup" ELSE "report")
    /\ UNCHANGED <<records, tomb, entry, disk, job, lists, run, client, posted, faults, history>>

\* What the report says, a fraction rounded to four digits, is Segmentation's.
ProgressSave ==
    /\ pc[Worker] = "report"
    /\ Save(job[Worker], "running")
    /\ batch' = batch + 1
    /\ Go(Worker, IF batch + 1 < Batches THEN "infer" ELSE "stamp")
    /\ UNCHANGED <<tomb, entry, disk, job, lists, outcome, localInput, client, posted, faults, history>>

\* os.utime raises when a DELETE has removed the directory.
Stamp ==
    /\ pc[Worker] = "stamp"
    /\ out[job[Worker]] # "none"
    /\ outcome' = "succeeded"
    /\ Go(Worker, "check")
    /\ UNCHANGED <<records, tomb, entry, disk, job, lists, batch, localInput, client, posted, faults, history>>

\* JobCancelled: the run removes what it has written.
CancelCleanup ==
    /\ pc[Worker] = "cleanup"
    /\ out' = [out EXCEPT ![job[Worker]] = "none"]
    /\ Go(Worker, "finally")
    /\ UNCHANGED <<records, tomb, entry, inbox, job, lists, run, client, posted, faults, history>>

\* The finally block.
Finish ==
    /\ pc[Worker] = "finally"
    /\ inbox' = [inbox EXCEPT ![job[Worker]] = InputAfterRun(job[Worker])]
    /\ RunEnds
    /\ UNCHANGED <<records, tomb, out, lists, client, posted, faults, history>>

-----------------------------------------------------------------------------
(* Faults, each counted against MaxFaults. *)

\* The fault strikes the processes P, with what they have in hand.
Fault(kind, P) ==
    /\ kind \in Env
    /\ faults < MaxFaults
    /\ faults' = faults + 1
    /\ struck' = struck \union {<<job[p], kind>> : p \in {q \in P : job[q] # NoJob}}

\* The worker process dies, booting or working; files and RQ's entry stay.
WorkerCrash ==
    /\ Fault("crash", {Worker, Booter})
    /\ pc[Worker] # "down" \/ pc[Booter] # "off"
    /\ pc' = [pc EXCEPT ![Worker] = "down", ![Booter] = "off"]
    /\ job' = [job EXCEPT ![Worker] = NoJob, ![Booter] = NoJob]
    /\ toAbandon' = {}
    /\ outcome' = "failed" /\ batch' = 0 /\ localInput' = FALSE
    /\ UNCHANGED <<records, tomb, entry, disk, toSweep, client, posted, marks>>

\* The API process dies with every request it was serving.
ApiCrash ==
    /\ Fault("crash", Handlers)
    /\ \E h \in Handlers : pc[h] # "idle"
    /\ pc' = [p \in Procs |-> IF p \in Handlers THEN "idle" ELSE pc[p]]
    /\ job' = [p \in Procs |-> IF p \in Handlers THEN NoJob ELSE job[p]]
    /\ UNCHANGED <<records, tomb, entry, disk, lists, run, client, posted, marks>>

\* The reaper gives up its sweep; it starts over after a restart.
ReaperStops ==
    /\ pc' = [pc EXCEPT ![Reaper] = "sleep"]
    /\ job' = [job EXCEPT ![Reaper] = NoJob]
    /\ toSweep' = {}

ReaperCrash ==
    /\ Fault("crash", {Reaper})
    /\ pc[Reaper] # "sleep"
    /\ ReaperStops
    /\ UNCHANGED <<records, tomb, entry, disk, toAbandon, run, client, posted, marks>>

\* What the worker's except clause can still catch: past it, in fail_job or in
\* the JobCancelled clause, an exception leaves through finally.
InTry ==
    \/ pc[Worker] \in BodyPCs
    \/ pc[Worker] \in {"check", "save", "notify"} /\ outcome = "succeeded"

RunInterrupted ==
    /\ outcome' = "failed"
    /\ Go(Worker, IF InTry THEN "check" ELSE "finally")
    /\ UNCHANGED <<job, batch, localInput>>

\* JobTimeoutException, raised in the worker's main thread wherever it stands;
\* inside _notify the webhook may be on its way or not.
Timeout ==
    /\ Fault("timeout", {Worker})
    /\ pc[Worker] \in BodyPCs \union {"check", "save", "notify", "cleanup"}
    /\ RunInterrupted
    /\ \/ UNCHANGED posted
       \/ pc[Worker] = "notify" /\ Post(Worker)
    /\ UNCHANGED <<records, tomb, entry, disk, lists, client, marks>>

\* In the finally block it may come before the unlink.
TimeoutAtEnd ==
    /\ Fault("timeout", {Worker})
    /\ pc[Worker] = "finally"
    /\ RunEnds
    /\ UNCHANGED <<records, tomb, disk, lists, client, posted, marks>>

\* A Redis command that raises may have been carried out all the same.
MaybeWritten(p) ==
    \/ UNCHANGED records
    \/ pc[p] = "create_save" /\ Save(job[p], "queued")
    \/ pc[p] \in {"loaded", "download", "report"} /\ Save(job[p], "running")
    \/ pc[p] = "save" /\ Save(job[p], Outcome(p))

\* The request answers 500.
HandlerOutage(h) ==
    /\ Fault("outage", {h})
    /\ pc[h] \in CreatePCs \union {"request_cancel", "delete_record", "check", "save"}
    /\ MaybeWritten(h)
    /\ Go(h, "idle")
    /\ job' = [job EXCEPT ![h] = NoJob]
    /\ UNCHANGED <<tomb, entry, disk, lists, run, client, posted, marks>>

\* "sweep failed, will retry"
ReaperOutage ==
    /\ Fault("outage", {Reaper})
    /\ pc[Reaper] \in {"scan", "check", "save"}
    /\ MaybeWritten(Reaper)
    /\ ReaperStops
    /\ UNCHANGED <<tomb, entry, disk, toAbandon, run, client, posted, marks>>

\* main() raises and the container is restarted.
BooterOutage ==
    /\ Fault("outage", {Booter})
    /\ pc[Booter] \in {"check", "save"}
    /\ MaybeWritten(Booter)
    /\ Go(Booter, "off")
    /\ job' = [job EXCEPT ![Booter] = NoJob]
    /\ toAbandon' = {}
    /\ UNCHANGED <<tomb, entry, disk, toSweep, run, client, posted, marks>>

\* Before the try block the exception ends the run, and nothing marks the record.
WorkerOutage ==
    /\ Fault("outage", {Worker})
    /\ \/ pc[Worker] \in {"popped", "loaded"} /\ RunEnds
       \/ pc[Worker] \in {"download", "infer", "report", "check", "save"} /\ RunInterrupted /\ UNCHANGED entry
    /\ MaybeWritten(Worker)
    /\ UNCHANGED <<tomb, disk, lists, client, posted, marks>>

\* _cancel_rq_job swallows the exception and its caller goes on.
CancelSwallowed(p) ==
    /\ Fault("outage", {p})
    /\ pc[p] \in {"repudiate", "cancel_rq"}
    /\ Go(p, IF pc[p] = "repudiate" THEN "check" ELSE AfterDelete["cancel_rq"])
    /\ UNCHANGED <<records, tomb, entry, disk, job, lists, run, client, posted, marks>>

-----------------------------------------------------------------------------
(* Time passing. *)

\* Where a live run may write nothing for stale_job_seconds.
SilentPCs == {"fetch", "download", "decode"}

GoesQuiet(j) ==
    /\ ~quiet[j]
    /\ \/ status[j] = "running" /\ ~Executing(j)
       \/ status[j] = "running" /\ "silence" \in Env /\ pc[Worker] \in SilentPCs
       \/ status[j] = "succeeded" /\ ~InFlight(j)
    /\ quiet' = [quiet EXCEPT ![j] = TRUE]
    /\ UNCHANGED <<status, tomb, entry, disk, control, lists, run, client, posted, faults, history>>

\* A record's TTL: result_ttl_seconds once settled, and job_timeout_seconds
\* more before; no process outlasts either with the record in hand.
Expire(j) ==
    /\ ~InFlight(j)
    /\ \/ status[j] \in Terminal
       \/ status[j] = "queued" /\ ("backlog" \in Env \/ entry[j] # "queued")
    /\ Erase(j)
    /\ UNCHANGED <<tomb, entry, disk, control, lists, run, client, posted, faults, history>>

\* The tombstone outlives every run it was meant for (Retention:
\* DeletedStaysDeleted, which names the runs it does not outlive).
TombExpires(j) ==
    /\ tomb[j] /\ ~InFlight(j)
    /\ tomb' = [tomb EXCEPT ![j] = FALSE]
    /\ UNCHANGED <<records, entry, disk, control, lists, run, client, posted, faults, history>>

\* What abandon_job defends against: an entry a dead worker had started is
\* handed out again.
Redispatch(j) ==
    /\ "redispatch" \in Env
    /\ pc[Worker] = "idle"
    /\ entry[j] = "started"
    /\ job' = [job EXCEPT ![Worker] = j]
    /\ Go(Worker, "popped")
    /\ UNCHANGED <<records, tomb, entry, disk, lists, run, client, posted, faults, history>>

-----------------------------------------------------------------------------
HandlerStep(h) ==
    \/ CreateSave(h) \/ CreateEnqueue(h) \/ CreateRespond(h)
    \/ RequestCancel(h) \/ CancelRQ(h) \/ DeleteRecord(h) \/ RemoveFiles(h)
    \/ RemoveInbox(h) \/ Settle(h)

Request(h) ==
    \E j \in Jobs : \/ \E s \in Sources : CreateBegin(h, j, s)
                    \/ GetStale(h, j)
                    \/ DeleteBegin(h, j)

ReaperStep == \/ SweepBegin \/ SweepFiles \/ Settle(Reaper)
              \/ \E j \in Jobs : SweepOne(j)

BooterStep == \/ Boot \/ BootDone \/ Settle(Booter)
              \/ \E j \in Jobs : BootOne(j)

FetchEnds == FetchDone \/ FetchTooLarge

WorkerStep ==
    \/ \E j \in Jobs : Dequeue(j)
    \/ LoadRecord \/ StartRun \/ FetchOpen \/ FetchEnds \/ BodyRaises
    \/ MakeOutputDir \/ Decode \/ ProgressCheck \/ ProgressSave \/ Stamp
    \/ SettleCheck(Worker) \/ SettleSave(Worker) \/ Notify(Worker)
    \/ CancelCleanup \/ Finish

Faults ==
    \/ WorkerCrash \/ ApiCrash \/ ReaperCrash \/ Timeout \/ TimeoutAtEnd
    \/ \E h \in Handlers : HandlerOutage(h)
    \/ ReaperOutage \/ BooterOutage \/ WorkerOutage
    \/ \E p \in Procs : CancelSwallowed(p)

TimePasses ==
    \E j \in Jobs : GoesQuiet(j) \/ Expire(j) \/ TombExpires(j)

\* What the processes and RQ do, and what befalls them.
Steps ==
    \/ \E h \in Handlers : Request(h) \/ HandlerStep(h)
    \/ ReaperStep \/ BooterStep \/ WorkerStep \/ FetchHeartbeat
    \/ \E j \in Jobs : Redispatch(j)
    \/ Faults

Next == Steps \/ TimePasses

Spec == Init /\ [][Next]_vars

\* Requests are answered, the three services keep running (restart:
\* unless-stopped), and a record nobody writes goes quiet.  Nothing obliges a
\* client to call, a fault to strike, a record or tombstone to expire.
Fairness ==
    /\ \A h \in Handlers : WF_vars(HandlerStep(h))
    /\ WF_vars(ReaperStep)
    /\ WF_vars(BooterStep)
    /\ WF_vars(WorkerStep)
    /\ \A j \in Jobs : WF_vars(GoesQuiet(j))

FairSpec == Spec /\ Fairness

-----------------------------------------------------------------------------
(* Properties. *)

StoreOK ==
    /\ status \in [Jobs -> {"none"} \union Unsettled \union Terminal]
    /\ quiet \in [Jobs -> BOOLEAN]
    /\ \A j \in Jobs : quiet[j] => status[j] \in {"running", "succeeded"}
    /\ tomb \in [Jobs -> BOOLEAN]
    /\ entry \in [Jobs -> {"none", "queued", "started", "canceled"}]
    /\ inbox \in [Jobs -> BOOLEAN]
    /\ out \in [Jobs -> {"none", "dir", "stems"}]

ProcOK ==
    /\ pc \in [Procs -> AllPCs]
    /\ job \in [Procs -> Jobs \union {NoJob}]
    /\ \A h \in Handlers : pc[h] \in HandlerPCs
    /\ pc[Reaper] \in ReaperPCs /\ pc[Booter] \in BooterPCs /\ pc[Worker] \in WorkerPCs
    /\ \A p \in Procs : job[p] = NoJob <=> pc[p] \in RestPCs

RunOK ==
    /\ toSweep \subseteq Jobs /\ toAbandon \subseteq Jobs
    /\ outcome \in Terminal /\ batch \in 0..Batches /\ localInput \in BOOLEAN

ClientOK ==
    /\ source \in [Jobs -> {"none"} \union SourceKinds]
    /\ posted \in [Jobs -> [Terminal -> 0..2]]
    /\ known \subseteq Jobs
    /\ faults \in 0..MaxFaults
    /\ deleted \subseteq Jobs /\ raced \subseteq Jobs /\ abandoned \subseteq Jobs
    /\ struck \subseteq Jobs \X FaultKinds

\* Every variable has its type, no queued or failed record is ever quiet (each
\* write of a record stamps updated_at, save_job), and a process is at a resting
\* point exactly while it has no job in hand.
TypeOK == StoreOK /\ ProcOK /\ RunOK /\ ClientOK

\* A deleted job's record comes back only if, at the moment of the DELETE, some
\* process was already between its last look at the tombstone and its write:
\* the tombstone (request_cancel) closes every other path.
ResurrectionNeedsRace ==
    \A j \in deleted \ raced : status[j] = "none"

\* A record that says succeeded, and is not due to expire, has its stems on disk
\* (get_stem answers 200), whatever DELETE, the reaper and crashes did, that one
\* window excepted.
StemsOrRaced ==
    \A j \in Jobs : status[j] = "succeeded" /\ ~quiet[j] =>
        out[j] = "stems" \/ j \in raced

Struck(j) == \E kind \in FaultKinds : <<j, kind>> \in struck

\* Its own run may yet fail a job it has just stored as succeeded: the try block
\* of run_separation spans settle, and RQ's timeout or Redis may raise there.
TakenBack(j) ==
    /\ Executing(j) /\ {<<j, "timeout">>, <<j, "outage">>} \intersect struck # {}
    /\ status[j] = "succeeded" /\ status'[j] = "failed"

\* No other process overwrites a settled record: a client that has read a final
\* status never reads another one, only 404 once the record is gone.
TerminalIsFinal ==
    [][\A j \in Jobs : status[j] \in Terminal =>
           status'[j] \in {status[j], "none"} \/ TakenBack(j)]_vars

\* A job failed from outside once its run is gone stays failed, though RQ may
\* hand out what a dead worker had started: abandon_job drops the entry before it
\* settles.  _cancel_rq_job swallows a Redis error, and then RQ has the entry yet.
AbandonedIsFinal ==
    \A j \in abandoned : status[j] \in {"failed", "none"} \/ <<j, "outage">> \in struck

\* No client is told both that a job succeeded and that it failed (_notify),
\* unless RQ's timeout falls between the webhook and the end of the try block.
NoContradictoryCallbacks ==
    \A j \in Jobs : posted[j]["succeeded"] = 0 \/ posted[j]["failed"] = 0
                        \/ <<j, "timeout">> \in struck

\* "POSTs the job to it once" (INTEGRATION.md) holds of every job no fault has
\* struck and no DELETE has raced; a running record that has lost its worker,
\* one of those two ways, may be announced by several settlers.
PostedOnce ==
    \A j \in Jobs : posted[j]["succeeded"] + posted[j]["failed"] <= 1
                        \/ Struck(j) \/ j \in raced

\* No outcome is stored and left unannounced: whoever settled the job has sent
\* the webhook or is about to, unless a fault struck it in between.
SettledIsAnnounced ==
    \A j \in Jobs : status[j] \in Terminal =>
        \/ posted[j][status[j]] > 0
        \/ \E p \in Procs : job[p] = j /\ pc[p] = "notify" /\ Outcome(p) = status[j]
        \/ Struck(j)

\* A queued record that is not being deleted has somebody who will run it, RQ's
\* entry, the worker that popped it or its submitter, unless a fault struck one
\* of them with this very job in hand.
QueuedIsReachable ==
    \A j \in Jobs : status[j] = "queued" /\ ~tomb[j] /\ ~Struck(j) =>
        entry[j] = "queued" \/ Executing(j) \/ Submitting(j)

\* Once a run is over its source audio is gone ("dead weight either way"), but
\* for what a fault cut short, and for a job by URL that has failed: it may have
\* failed in the fetch, whose file local_input does not name yet.
InputGoneAfterRun ==
    \A j \in Jobs : status[j] \in Terminal /\ ~Executing(j) /\ inbox[j] =>
        (source[j] = "url" /\ status[j] = "failed") \/ Struck(j)

\* A running job does not stay running: its run settles it, or the next boot, a
\* poll or the reaper does.  The tombstone of a DELETE, even of one that died
\* half-way, stays everybody's hand for as long as it stands.
RunningSettles ==
    \A j \in Jobs : status[j] = "running" ~> status[j] # "running" \/ tomb[j]

\* A submitted job is eventually settled or deleted, unless a process has died
\* with this very job in hand: one that dies between the save and the enqueue, or
\* between RQ's pop and the first save, leaves a queued record that no code path
\* ever looks for.  The jobs behind it are not held up.
SubmittedSettles ==
    \A j \in Jobs : status[j] = "queued" ~>
        status[j] \in Terminal \/ j \in deleted \/ Struck(j)

\* The next claim is made of this code and does not hold of it; a run that is
\* expected to find a violation checks it alone.

\* jobs.py, request_cancel: a record no longer comes back as succeeded "with
\* every stem 404ing because the files had been removed underneath it".
SucceededHasStems ==
    \A j \in Jobs : status[j] = "succeeded" /\ ~quiet[j] => out[j] = "stems"

-----------------------------------------------------------------------------
(* The promise to clients, JobContract, and how this module keeps it. *)

Phase == [j \in Jobs |->
    IF status[j] # "none" THEN status[j]
    ELSE IF source[j] = "none" \/ (\E h \in Handlers : job[h] = j /\ pc[h] = "create_save")
         THEN "absent" ELSE "gone"]

Announced == [j \in Jobs |-> {o \in Terminal : posted[j][o] > 0}]

Contract == INSTANCE JobContract WITH phase <- Phase, announced <- Announced

ContractSpec == Contract!Spec
=============================================================================
