---------------------------- MODULE JobRecordProofs ---------------------------
(* What becomes of a job's record, for every number of jobs, handlers and       *)
(* faults: that no queued job is lost without a fault (QueuedIsReachable), in   *)
(* every environment Env, and that a final status is final (TerminalIsFinal),   *)
(* in each in which a live run is never silent and RQ hands no entry out twice; *)
(* and, for every number of restarts, what a Redis that goes back to its last   *)
(* snapshot can bring back (StemsUnlessDeleted), in every environment.          *)
EXTENDS JobLifecycleProofs, RedisRestart

USE ProcsAssumption, JobsAssumption, ParametersAssumption
    DEF Procs, ProcsAssumption, JobsAssumption, ParametersAssumption

-----------------------------------------------------------------------------
(* No queued job is lost. *)

\* An id that is not issued, or whose record its submitter has yet to save, is
\* known to nobody else: no record, no entry, no process, no client.
Unsaved(j) ==
    \/ source[j] = "none"
    \/ \E h \in Handlers : job[h] = j /\ pc[h] = "create_save"

Fresh(j) == Unsaved(j) =>
    /\ status[j] = "none" /\ entry[j] = "none"
    /\ j \notin toAbandon /\ j \notin known
    /\ \A p \in Procs : job[p] = j => p \in Handlers /\ pc[p] = "create_save"

\* Whoever has a queued job in hand leaves its entry with RQ, but for a DELETE.
Waiting == {"create_enqueue", "create_respond", "popped", "loaded"} \union DeletePCs

Untouched(j) == status[j] = "queued" =>
    /\ j \notin toAbandon
    /\ \A p \in Procs : job[p] = j => pc[p] \in Waiting

\* Its submitter is about to hand it to RQ, or a DELETE to remove its record.
Held(j) == \E h \in Handlers : job[h] = j /\ pc[h] \in {"create_enqueue", "delete_record"}

Kept(j) == status[j] = "queued" =>
    entry[j] = "queued" \/ Executing(j) \/ Held(j) \/ Struck(j)

Sole(j) == Fresh(j) /\ Untouched(j)

SoleInv == \A j \in Jobs : Sole(j)
KeptInv == \A j \in Jobs : Kept(j)

-----------------------------------------------------------------------------
(* Fresh and queued jobs are in no wrong hand.                               *)

\* What the services do to j, within Frame: they queue nothing, write no record
\* of a job they do not have in hand, and take in hand what is running, what they
\* found running, and what RQ has an entry of.
Gentle(j) ==
    /\ status'[j] = "queued" => status[j] = "queued"
    /\ Unsaved(j) => status'[j] = "none" /\ entry'[j] = "none"
    /\ j \in toAbandon' => j \in toAbandon \/ (status[j] = "running" /\ status'[j] = status[j])
    /\ \A p \in Procs \ Handlers : job'[p] = j =>
           \/ job[p] = j /\ (pc[p] \in Waiting => pc'[p] \in Waiting \/ status'[j] # "queued")
           \/ pc'[p] = "popped" /\ entry[j] # "none"
           \/ status[j] = "running" /\ status'[j] = status[j]
           \/ j \in toAbandon

LEMMA SoleByFrame ==
  ASSUME TypeInv, Frame, NEW j \in Jobs, Sole(j), Gentle(j)
  PROVE  Sole(j)'
<1>1. Unsaved(j)' <=> Unsaved(j) BY DEF Frame, Unsaved, client
<1>2. \A h \in Handlers : pc'[h] = pc[h] /\ job'[h] = job[h] BY DEF Frame
<1>3. Fresh(j)'
  <2> SUFFICES ASSUME Unsaved(j) PROVE Fresh(j)'
    BY <1>1 DEF Fresh
  <2>1. /\ status[j] = "none" /\ entry[j] = "none" /\ j \notin toAbandon /\ j \notin known
        /\ \A p \in Procs : job[p] = j => p \in Handlers /\ pc[p] = "create_save"
    BY DEF Sole, Fresh
  <2>2. status'[j] = "none" /\ entry'[j] = "none" /\ j \notin toAbandon' BY <2>1 DEF Gentle
  <2>3. j \notin known' BY <2>1 DEF Frame, client
  <2>4. \A p \in Procs : job'[p] = j => p \in Handlers /\ pc'[p] = "create_save"
    BY <1>2, <2>1 DEF Gentle
  <2> QED BY <2>2, <2>3, <2>4 DEF Fresh
<1>4. Untouched(j)' BY <1>2 DEF Sole, Untouched, Gentle, Waiting
<1> QED BY <1>3, <1>4 DEF Sole

\* Settling writes a final status, and only of the job in hand.
LEMMA SoleSettle ==
  ASSUME TypeInv, NEW j \in Jobs, Sole(j), NEW p \in Procs, Settle(p)
  PROVE  Sole(j)'
<1> USE DEF Sole, Fresh, Untouched, Unsaved, Waiting, CreatePCs, DeletePCs, SettlePCs, RestPCs, Go, Save,
            Leave, Rest, TypeInv, TypeOK, ProcOK, StoreOK, RunOK,
            records, disk, control, lists, run, client, history, marks
<1>1. CASE Repudiate(p) BY <1>1 DEF Repudiate
<1>2. CASE SettleCheck(p) BY <1>2 DEF SettleCheck
<1>3. CASE SettleSave(p)
  <2>1. Outcome(p) \in Terminal BY DEF Outcome, Terminal
  <2> QED BY <1>3, <2>1 DEF SettleSave, Terminal
<1>4. CASE Notify(p) BY <1>4 DEF Notify, Post
<1> QED BY <1>1, <1>2, <1>3, <1>4 DEF Settle

LEMMA SoleRequest ==
  ASSUME TypeInv, SubmitInv, NEW j \in Jobs, Sole(j), NEW h \in Handlers, Request(h)
  PROVE  Sole(j)'
<1> USE DEF Sole, Fresh, Untouched, Unsaved, Waiting, CreatePCs, DeletePCs, SettlePCs, RestPCs, Go,
            TypeInv, TypeOK, ProcOK, StoreOK, RunOK, ClientOK,
            records, disk, control, lists, run, client, history, marks
<1>1. ASSUME NEW i \in Jobs, NEW s \in Sources, CreateBegin(h, i, s) PROVE Sole(j)'
  <2>1. CASE i = j
    <3>1. \A p \in Procs : job[p] # j BY <1>1, <2>1 DEF CreateBegin, SubmitInv
    <3> QED BY <1>1, <2>1, <3>1 DEF CreateBegin, AfterSubmit
  <2>2. CASE i # j BY <1>1, <2>2 DEF CreateBegin, AfterSubmit
  <2> QED BY <2>1, <2>2
<1>2. ASSUME NEW i \in Jobs, GetStale(h, i) PROVE Sole(j)' BY <1>2 DEF GetStale, IsStale
<1>3. ASSUME NEW i \in Jobs, DeleteBegin(h, i) PROVE Sole(j)' BY <1>3 DEF DeleteBegin, AfterDelete
<1> QED BY <1>1, <1>2, <1>3 DEF Request

LEMMA SoleHandler ==
  ASSUME TypeInv, SubmitInv, NEW j \in Jobs, Sole(j), NEW h \in Handlers, HandlerStep(h)
  PROVE  Sole(j)'
<1> USE DEF Sole, Fresh, Untouched, Unsaved, Waiting, CreatePCs, DeletePCs, SettlePCs, RestPCs, Go, Save,
            Erase, TypeInv, TypeOK, ProcOK, StoreOK, RunOK, ClientOK,
            records, disk, control, lists, run, client, history, marks
<1>1. CASE CreateSave(h)
  <2>1. CASE job[h] = j
    <3>1. \A p \in Procs \ {h} : job[p] # j BY <1>1, <2>1 DEF CreateSave, SubmitInv
    <3>2. source[j] # "none" BY <1>1, <2>1 DEF CreateSave, SubmitInv
    <3> QED BY <1>1, <2>1, <3>1, <3>2 DEF CreateSave, AfterSubmit
  <2>2. CASE job[h] # j BY <1>1, <2>2 DEF CreateSave, AfterSubmit
  <2> QED BY <2>1, <2>2
<1>2. CASE CreateEnqueue(h) BY <1>2 DEF CreateEnqueue, AfterSubmit
<1>3. CASE CreateRespond(h) BY <1>3 DEF CreateRespond, SubmitInv
<1>4. CASE RequestCancel(h) BY <1>4 DEF RequestCancel, AfterDelete
<1>5. CASE CancelRQ(h) BY <1>5 DEF CancelRQ, CancelledEntry, AfterDelete
<1>6. CASE DeleteRecord(h) BY <1>6 DEF DeleteRecord, AfterDelete
<1>7. CASE RemoveFiles(h) BY <1>7 DEF RemoveFiles
<1>8. CASE RemoveInbox(h) BY <1>8 DEF RemoveInbox
<1>9. CASE Settle(h) BY <1>9, SoleSettle
<1> QED BY <1>1, <1>2, <1>3, <1>4, <1>5, <1>6, <1>7, <1>8, <1>9 DEF HandlerStep

LEMMA SoleServices ==
  ASSUME TypeInv, NEW j \in Jobs, Sole(j), ReaperStep \/ BooterStep
  PROVE  Sole(j)'
<1> USE DEF TypeInv, TypeOK, ProcOK, StoreOK, RunOK, Go, RestPCs, Waiting, DeletePCs,
            records, disk, control, lists, run
<1> SUFFICES ASSUME ~Settle(Reaper), ~Settle(Booter) PROVE Gentle(j)
  BY SoleSettle, SoleByFrame, FrameServices
<1>1. CASE SweepBegin \/ SweepFiles
  BY <1>1 DEF SweepBegin, SweepFiles, Gentle, Sole, Fresh
<1>2. ASSUME NEW i \in Jobs, SweepOne(i) PROVE Gentle(j)
  BY <1>2 DEF SweepOne, IsStale, Gentle, Sole, Fresh
<1>3. CASE Boot BY <1>3 DEF Boot, BootOrphans, Gentle, Sole, Fresh
<1>4. CASE BootDone
  <2>1. job[Worker] = NoJob BY <1>4 DEF BootDone, BootOK, RestPCs
  <2> QED BY <1>4, <2>1 DEF BootDone, Gentle, Sole, Fresh, RestPCs
<1>5. ASSUME NEW i \in Jobs, BootOne(i) PROVE Gentle(j)
  BY <1>5 DEF BootOne, Gentle, Sole, Fresh
<1> QED BY <1>1, <1>2, <1>3, <1>4, <1>5 DEF ReaperStep, BooterStep

LEMMA SoleWorker ==
  ASSUME TypeInv, NEW j \in Jobs, Sole(j), WorkerStep \/ FetchHeartbeat
  PROVE  Sole(j)'
<1> USE DEF TypeInv, TypeOK, ProcOK, StoreOK, RunOK, Go, Save, RunEnds, RestPCs, BodyPCs, Waiting,
            DeletePCs, records, disk, control, lists, run, Gentle, Sole, Fresh
<1> SUFFICES ASSUME ~Settle(Worker) PROVE Gentle(j)
  BY SoleSettle, SoleByFrame, FrameServices
<1>1. ASSUME NEW i \in Jobs, Dequeue(i) PROVE Gentle(j) BY <1>1 DEF Dequeue
<1>2. CASE LoadRecord BY <1>2 DEF LoadRecord
<1>3. CASE StartRun BY <1>3 DEF StartRun
<1>4. CASE FetchOpen \/ FetchHeartbeat \/ FetchEnds
  BY <1>4 DEF FetchOpen, FetchHeartbeat, FetchEnds, FetchDone, FetchTooLarge
<1>5. CASE BodyRaises \/ MakeOutputDir \/ Decode BY <1>5 DEF BodyRaises, MakeOutputDir, Decode
<1>6. CASE ProgressCheck \/ ProgressSave BY <1>6 DEF ProgressCheck, ProgressSave
<1>7. CASE Stamp \/ CancelCleanup \/ Finish BY <1>7 DEF Stamp, CancelCleanup, Finish
<1> QED BY <1>1, <1>2, <1>3, <1>4, <1>5, <1>6, <1>7 DEF WorkerStep, Settle

LEMMA SoleTime ==
  ASSUME TypeInv, NEW j \in Jobs, Sole(j), TimePasses \/ \E i \in Jobs : Redispatch(i)
  PROVE  Sole(j)'
<1> USE DEF TypeInv, TypeOK, ProcOK, StoreOK, Go, Erase, RestPCs, records, disk, control, lists, run,
            Gentle, Sole, Fresh
<1>1. ASSUME NEW i \in Jobs, GoesQuiet(i) PROVE Sole(j)'
  BY <1>1, SoleByFrame, FrameTime DEF GoesQuiet
<1>2. ASSUME NEW i \in Jobs, Expire(i) PROVE Sole(j)'
  <2>1. Gentle(j) BY <1>2 DEF Expire
  <2> QED BY <1>2, <2>1, SoleByFrame, FrameTime
<1>3. ASSUME NEW i \in Jobs, Redispatch(i) PROVE Sole(j)'
  BY <1>3, SoleByFrame, FrameTime DEF Redispatch
<1>4. ASSUME NEW i \in Jobs, TombExpires(i) PROVE Sole(j)'
  BY <1>4 DEF TombExpires, Untouched, Unsaved, client
<1> QED BY <1>1, <1>2, <1>3, <1>4 DEF TimePasses

LEMMA SoleFaults ==
  ASSUME TypeInv, SubmitInv, NEW j \in Jobs, Sole(j), Faults
  PROVE  Sole(j)'
<1> USE DEF TypeInv, TypeOK, ProcOK, StoreOK, RunOK, Go, Save, RestPCs, BodyPCs, Waiting, CreatePCs,
            SettlePCs, DeletePCs, records, disk, control, lists, run, client, history, marks,
            Sole, Fresh
<1>1. ASSUME NEW p \in Procs \ Handlers, MaybeWritten(p), pc[p] \notin RestPCs
      PROVE  /\ status'[j] = "queued" => status[j] = "queued"
             /\ Unsaved(j) => status'[j] = "none"
  <2>1. Outcome(p) \in Terminal BY DEF Outcome, Terminal
  <2>2. pc[p] # "create_save" BY <1>1 DEF ReaperPCs, BooterPCs, WorkerPCs
  <2> QED BY <1>1, <2>1, <2>2 DEF MaybeWritten, Terminal
<1>2. CASE ServiceFault
  <2> SUFFICES Gentle(j) BY <1>2, SoleByFrame, FrameFaults
  <2> USE DEF Gentle
  <2>1. CASE WorkerCrash BY <2>1 DEF WorkerCrash
  <2>2. CASE ReaperCrash BY <2>2 DEF ReaperCrash, ReaperStops
  <2>3. CASE Timeout BY <2>3 DEF Timeout, RunInterrupted
  <2>4. CASE TimeoutAtEnd BY <2>4 DEF TimeoutAtEnd, RunEnds
  <2>5. CASE ReaperOutage
    <3>1. CASE pc[Reaper] = "scan"
      <4>1. UNCHANGED records BY <2>5, <3>1 DEF ReaperOutage, MaybeWritten
      <4> QED BY <2>5, <4>1 DEF ReaperOutage, ReaperStops
    <3>2. CASE pc[Reaper] # "scan" BY <1>1, <2>5, <3>2 DEF ReaperOutage, ReaperStops
    <3> QED BY <3>1, <3>2
  <2>6. CASE BooterOutage BY <1>1, <2>6 DEF BooterOutage
  <2>7. CASE WorkerOutage
    <3>1. /\ status'[j] = "queued" => status[j] = "queued"
          /\ Unsaved(j) => status'[j] = "none"
      BY <1>1, <2>7 DEF WorkerOutage
    <3>2. CASE RunEnds BY <2>7, <3>1, <3>2 DEF WorkerOutage, RunEnds
    <3>3. CASE RunInterrupted /\ UNCHANGED entry /\ pc[Worker] \notin {"popped", "loaded"}
      BY <2>7, <3>1, <3>3 DEF WorkerOutage, RunInterrupted
    <3> QED BY <2>7, <3>2, <3>3 DEF WorkerOutage
  <2>8. ASSUME NEW p \in Procs \ Handlers, CancelSwallowed(p) PROVE Gentle(j)
    BY <2>8 DEF CancelSwallowed, ReaperPCs, BooterPCs, WorkerPCs
  <2> QED BY <1>2, <2>1, <2>2, <2>3, <2>4, <2>5, <2>6, <2>7, <2>8 DEF ServiceFault
<1>3. CASE ApiCrash BY <1>3 DEF ApiCrash, Untouched, Unsaved
<1>4. ASSUME NEW h \in Handlers, HandlerOutage(h) PROVE Sole(j)'
  <2>1. CASE job[h] = j /\ pc[h] = "create_save"
    <3>1. \A p \in Procs \ {h} : job[p] # j BY <2>1 DEF SubmitInv, Unsaved
    <3>2. source[j] # "none" BY <2>1 DEF SubmitInv
    <3>3. \A p \in Procs : job'[p] # j BY <1>4, <3>1 DEF HandlerOutage
    <3>4. ~Unsaved(j)' BY <1>4, <3>2, <3>3 DEF HandlerOutage, Unsaved
    <3>5. j \notin toAbandon' BY <1>4, <2>1 DEF HandlerOutage, Unsaved
    <3> QED BY <3>3, <3>4, <3>5 DEF Untouched
  <2>2. CASE ~(job[h] = j /\ pc[h] = "create_save")
    <3>1. Outcome(h) = "failed" BY DEF Outcome
    <3>2. /\ status'[j] = "queued" => status[j] = "queued"
          /\ Unsaved(j) => status'[j] = "none"
      BY <1>4, <2>2, <3>1 DEF HandlerOutage, MaybeWritten
    <3>3. Unsaved(j)' => Unsaved(j) BY <1>4 DEF HandlerOutage, Unsaved
    <3> QED BY <1>4, <3>2, <3>3 DEF HandlerOutage, Untouched
  <2> QED BY <2>1, <2>2
<1>5. ASSUME NEW h \in Handlers, CancelSwallowed(h) PROVE Sole(j)'
  BY <1>5 DEF CancelSwallowed, AfterDelete, Untouched, Unsaved
<1> QED BY <1>2, <1>3, <1>4, <1>5 DEF Faults, ServiceFault

LEMMA SoleNext ==
  ASSUME TypeInv, SubmitInv, SoleInv, [Next]_vars
  PROVE  SoleInv'
<1> SUFFICES ASSUME NEW j \in Jobs, Sole(j) PROVE Sole(j)'
  BY DEF SoleInv
<1>1. CASE UNCHANGED vars
  BY <1>1 DEF vars, Sole, Fresh, Untouched, Unsaved, records, control, lists, client
<1>2. ASSUME NEW h \in Handlers, Request(h) \/ HandlerStep(h) PROVE Sole(j)'
  BY <1>2, SoleRequest, SoleHandler
<1>3. CASE Steps
  BY <1>2, <1>3, SoleServices, SoleWorker, SoleFaults, SoleTime DEF Steps
<1>4. CASE TimePasses BY <1>4, SoleTime
<1> QED BY <1>1, <1>3, <1>4 DEF Next

-----------------------------------------------------------------------------
(* And in some right one.                                                    *)

\* What every step but a submission's leaves true of j: it is not queued anew,
\* its entry stays until the worker has it, and nobody lets go of it, unless
\* struck with it in hand.
KeepsHold(j) ==
    /\ struck \subseteq struck'
    /\ status'[j] = "queued" => status[j] = "queued" \/ StruckNow(j)
    /\ status'[j] = "queued" =>
         /\ entry[j] = "queued" => entry'[j] = "queued" \/ job'[Worker] = j \/ StruckNow(j)
         /\ job[Worker] = j => job'[Worker] = j \/ StruckNow(j)
         /\ \A h \in Handlers : job[h] = j /\ pc[h] \in {"create_enqueue", "delete_record"} =>
                (job'[h] = j /\ pc'[h] = pc[h]) \/ entry'[j] = "queued" \/ StruckNow(j)

LEMMA KeptByHold ==
  ASSUME NEW j \in Jobs, Kept(j), KeepsHold(j)
  PROVE  Kept(j)'
<1> SUFFICES ASSUME status'[j] = "queued", ~StruckNow(j)
    PROVE  entry'[j] = "queued" \/ job'[Worker] = j \/ Held(j)'
  BY DEF Kept, Executing, Struck, StruckNow
<1>1. status[j] = "queued" /\ ~Struck(j) BY DEF KeepsHold, Struck, StruckNow
<1>2. CASE entry[j] = "queued" \/ job[Worker] = j BY <1>2 DEF KeepsHold
<1>3. ASSUME NEW h \in Handlers, job[h] = j, pc[h] \in {"create_enqueue", "delete_record"}
      PROVE  entry'[j] = "queued" \/ Held(j)'
  BY <1>3 DEF KeepsHold, Held
<1> QED BY <1>1, <1>2, <1>3 DEF Kept, Executing, Held

\* Who settles j has not found it queued.
LEMMA HoldSettle ==
  ASSUME TypeInv, NEW j \in Jobs, Sole(j), NEW p \in Procs, Settle(p)
  PROVE  KeepsHold(j)
<1> USE DEF KeepsHold, Sole, Untouched, Waiting, CreatePCs, DeletePCs, SettlePCs, RestPCs, Go, Save,
            Leave, Rest, TypeInv, TypeOK, ProcOK, StoreOK, RunOK,
            records, disk, control, lists, run, client, history, marks
<1>1. CASE Repudiate(p)
  <2>1. status[j] = "queued" => job[p] # j BY <1>1 DEF Repudiate
  <2> QED BY <1>1, <2>1 DEF Repudiate
<1>2. CASE SettleCheck(p) BY <1>2 DEF SettleCheck
<1>3. CASE SettleSave(p)
  <2>1. Outcome(p) \in Terminal BY DEF Outcome, Terminal
  <2> QED BY <1>3, <2>1 DEF SettleSave, Terminal
<1>4. CASE Notify(p) BY <1>4 DEF Notify, Post
<1> QED BY <1>1, <1>2, <1>3, <1>4 DEF Settle

LEMMA KeptHandler ==
  ASSUME TypeInv, NEW j \in Jobs, Sole(j), Kept(j), NEW h \in Handlers,
         Request(h) \/ HandlerStep(h)
  PROVE  Kept(j)'
<1> USE DEF CreatePCs, DeletePCs, RestPCs, Go, Save, Erase, TypeInv, TypeOK, ProcOK, StoreOK,
            records, lists, history, marks
<1>1. CASE Request(h)
  <2>1. KeepsHold(j) BY <1>1 DEF Request, CreateBegin, GetStale, DeleteBegin, KeepsHold
  <2> QED BY <2>1, KeptByHold
<1>2. CASE CreateSave(h)
  <2>1. CASE job[h] = j
    <3>1. job'[h] = j /\ pc'[h] = "create_enqueue" BY <1>2, <2>1 DEF CreateSave, AfterSubmit
    <3> QED BY <3>1 DEF Kept, Held
  <2>2. CASE job[h] # j
    <3>1. KeepsHold(j) BY <1>2, <2>2 DEF CreateSave, KeepsHold
    <3> QED BY <3>1, KeptByHold
  <2> QED BY <2>1, <2>2
<1>3. CASE CreateEnqueue(h) \/ CreateRespond(h)
  <2>1. KeepsHold(j) BY <1>3 DEF CreateEnqueue, CreateRespond, KeepsHold
  <2> QED BY <2>1, KeptByHold
<1>4. CASE CancelRQ(h)
  <2>1. CASE job[h] = j
    <3>1. job'[h] = j /\ pc'[h] = "delete_record" BY <1>4, <2>1 DEF CancelRQ, AfterDelete
    <3> QED BY <3>1 DEF Kept, Held
  <2>2. CASE job[h] # j
    <3>1. KeepsHold(j) BY <1>4, <2>2 DEF CancelRQ, KeepsHold
    <3> QED BY <3>1, KeptByHold
  <2> QED BY <2>1, <2>2
<1>5. CASE RequestCancel(h) \/ RemoveFiles(h) \/ RemoveInbox(h)
  <2>1. KeepsHold(j) BY <1>5 DEF RequestCancel, RemoveFiles, RemoveInbox, KeepsHold
  <2> QED BY <2>1, KeptByHold
<1>6. CASE DeleteRecord(h)
  <2>1. KeepsHold(j) BY <1>6 DEF DeleteRecord, KeepsHold
  <2> QED BY <2>1, KeptByHold
<1>7. CASE Settle(h) BY <1>7, HoldSettle, KeptByHold
<1> QED BY <1>1, <1>2, <1>3, <1>4, <1>5, <1>6, <1>7 DEF HandlerStep

LEMMA HoldServices ==
  ASSUME TypeInv, NEW j \in Jobs, Sole(j),
         ReaperStep \/ BooterStep \/ TimePasses \/ \E i \in Jobs : Redispatch(i)
  PROVE  KeepsHold(j)
<1> USE DEF KeepsHold, TypeInv, TypeOK, ProcOK, StoreOK, RestPCs, Go, Erase, BootOK,
            records, control, lists, history, marks
<1>1. CASE SweepBegin \/ SweepFiles BY <1>1 DEF SweepBegin, SweepFiles
<1>2. CASE Boot \/ BootDone BY <1>2 DEF Boot, BootDone
<1>3. ASSUME NEW i \in Jobs, SweepOne(i) PROVE KeepsHold(j) BY <1>3 DEF SweepOne
<1>4. ASSUME NEW i \in Jobs, BootOne(i) PROVE KeepsHold(j) BY <1>4 DEF BootOne
<1>5. ASSUME NEW i \in Jobs, GoesQuiet(i) \/ TombExpires(i) PROVE KeepsHold(j)
  BY <1>5 DEF GoesQuiet, TombExpires
<1>6. ASSUME NEW i \in Jobs, Expire(i) PROVE KeepsHold(j) BY <1>6 DEF Expire
<1>7. ASSUME NEW i \in Jobs, Redispatch(i) PROVE KeepsHold(j) BY <1>7 DEF Redispatch
<1> QED BY <1>1, <1>2, <1>3, <1>4, <1>5, <1>6, <1>7, HoldSettle
        DEF ReaperStep, BooterStep, TimePasses

LEMMA HoldWorker ==
  ASSUME TypeInv, NEW j \in Jobs, Sole(j), WorkerStep \/ FetchHeartbeat
  PROVE  KeepsHold(j)
<1> USE DEF KeepsHold, TypeInv, TypeOK, ProcOK, StoreOK, RunOK, Go, Save, RunEnds, RestPCs, BodyPCs,
            records, control, lists, run, history, marks
<1>1. ASSUME NEW i \in Jobs, Dequeue(i) PROVE KeepsHold(j) BY <1>1 DEF Dequeue
<1>2. CASE LoadRecord BY <1>2 DEF LoadRecord
<1>3. CASE StartRun BY <1>3 DEF StartRun
<1>4. CASE FetchOpen \/ FetchHeartbeat \/ FetchEnds
  BY <1>4 DEF FetchOpen, FetchHeartbeat, FetchEnds, FetchDone, FetchTooLarge
<1>5. CASE BodyRaises \/ MakeOutputDir \/ Decode BY <1>5 DEF BodyRaises, MakeOutputDir, Decode
<1>6. CASE ProgressCheck \/ ProgressSave BY <1>6 DEF ProgressCheck, ProgressSave
<1>7. CASE Stamp \/ CancelCleanup BY <1>7 DEF Stamp, CancelCleanup
<1>8. CASE Finish
  <2>1. status[j] = "queued" => job[Worker] # j
    BY <1>8 DEF Finish, Sole, Untouched, Waiting, DeletePCs
  <2> QED BY <1>8, <2>1 DEF Finish
<1> QED BY <1>1, <1>2, <1>3, <1>4, <1>5, <1>6, <1>7, <1>8, HoldSettle DEF WorkerStep, Settle

\* A fault loosens the hold of the processes it strikes.
LEMMA HoldFaults ==
  ASSUME TypeInv, NEW j \in Jobs, Sole(j), Faults
  PROVE  KeepsHold(j)
<1> USE DEF TypeInv, TypeOK, ProcOK, StoreOK
<1>1. ASSUME NEW kind \in FaultKinds, NEW P \in SUBSET Procs, Fault(kind, P),
             status' = status \/ \E p \in P : MaybeWritten(p) /\ pc[p] \notin RestPCs,
             entry[j] = "queued" => entry'[j] = "queued" \/ \E p \in P : job[p] = j,
             \A p \in Procs \ P : pc'[p] = pc[p] /\ job'[p] = job[p]
      PROVE  KeepsHold(j)
  <2>1. struck \subseteq struck' /\ \A p \in P : pc[p] \notin RestPCs => StruckNow(job[p])
    BY <1>1, FaultStrikes
  <2>2. \A p \in P : job[p] = j => StruckNow(j) BY <2>1
  <2>3. status'[j] = status[j] \/ StruckNow(j)
    <3>1. ASSUME NEW p \in P, MaybeWritten(p), pc[p] \notin RestPCs, job[p] # j
          PROVE  status'[j] = status[j]
      <4>1. job[p] \in Jobs BY <3>1
      <4> QED BY <3>1, <4>1 DEF MaybeWritten, Save, records
    <3> QED BY <1>1, <2>2, <3>1
  <2> QED BY <1>1, <2>1, <2>2, <2>3 DEF KeepsHold
<1>2. CASE WorkerCrash
  <2>1. Fault("crash", {Worker, Booter}) /\ UNCHANGED <<status, entry>>
    BY <1>2 DEF WorkerCrash, records
  <2>2. \A p \in Procs \ {Worker, Booter} : pc'[p] = pc[p] /\ job'[p] = job[p]
    BY <1>2 DEF WorkerCrash
  <2> QED BY <2>1, <2>2, <1>1 DEF FaultKinds
<1>3. CASE ApiCrash
  <2>1. Fault("crash", Handlers) /\ UNCHANGED <<status, entry>> BY <1>3 DEF ApiCrash, records
  <2>2. \A p \in Procs \ Handlers : pc'[p] = pc[p] /\ job'[p] = job[p] BY <1>3 DEF ApiCrash
  <2> QED BY <2>1, <2>2, <1>1 DEF FaultKinds
<1>4. CASE ReaperCrash
  <2>1. Fault("crash", {Reaper}) /\ UNCHANGED <<status, entry>> BY <1>4 DEF ReaperCrash, records
  <2>2. \A p \in Procs \ {Reaper} : pc'[p] = pc[p] /\ job'[p] = job[p]
    BY <1>4 DEF ReaperCrash, ReaperStops
  <2> QED BY <2>1, <2>2, <1>1 DEF FaultKinds
<1>5. CASE Timeout \/ TimeoutAtEnd
  <2>1. Fault("timeout", {Worker}) /\ UNCHANGED status BY <1>5 DEF Timeout, TimeoutAtEnd, records
  <2>2. \A p \in Procs \ {Worker} : pc'[p] = pc[p] /\ job'[p] = job[p]
    BY <1>5 DEF Timeout, TimeoutAtEnd, RunInterrupted, RunEnds, Go
  <2>3. entry[j] = "queued" => entry'[j] = "queued"
    BY <1>5 DEF Timeout, TimeoutAtEnd, RunEnds
  <2> QED BY <2>1, <2>2, <2>3, <1>1 DEF FaultKinds
<1>6. ASSUME NEW h \in Handlers, HandlerOutage(h) PROVE KeepsHold(j)
  <2>1. Fault("outage", {h}) /\ MaybeWritten(h) /\ UNCHANGED entry BY <1>6 DEF HandlerOutage
  <2>2. pc[h] \notin RestPCs BY <1>6 DEF HandlerOutage, CreatePCs, RestPCs
  <2>3. \A p \in Procs \ {h} : pc'[p] = pc[p] /\ job'[p] = job[p] BY <1>6 DEF HandlerOutage, Go
  <2> QED BY <2>1, <2>2, <2>3, <1>1 DEF FaultKinds
<1>7. CASE ReaperOutage
  <2>1. Fault("outage", {Reaper}) /\ MaybeWritten(Reaper) /\ UNCHANGED entry
    BY <1>7 DEF ReaperOutage
  <2>2. pc[Reaper] \notin RestPCs \/ UNCHANGED status
    BY <1>7 DEF ReaperOutage, MaybeWritten, RestPCs, records
  <2>3. \A p \in Procs \ {Reaper} : pc'[p] = pc[p] /\ job'[p] = job[p]
    BY <1>7 DEF ReaperOutage, ReaperStops
  <2> QED BY <2>1, <2>2, <2>3, <1>1 DEF FaultKinds
<1>8. CASE BooterOutage
  <2>1. Fault("outage", {Booter}) /\ MaybeWritten(Booter) /\ UNCHANGED entry
    BY <1>8 DEF BooterOutage
  <2>2. pc[Booter] \notin RestPCs BY <1>8 DEF BooterOutage, RestPCs
  <2>3. \A p \in Procs \ {Booter} : pc'[p] = pc[p] /\ job'[p] = job[p]
    BY <1>8 DEF BooterOutage, Go
  <2> QED BY <2>1, <2>2, <2>3, <1>1 DEF FaultKinds
<1>9. CASE WorkerOutage
  <2>1. Fault("outage", {Worker}) /\ MaybeWritten(Worker) BY <1>9 DEF WorkerOutage
  <2>2. pc[Worker] \notin RestPCs BY <1>9 DEF WorkerOutage, RestPCs
  <2>3. \A p \in Procs \ {Worker} : pc'[p] = pc[p] /\ job'[p] = job[p]
    BY <1>9 DEF WorkerOutage, RunEnds, RunInterrupted, Go
  <2>4. entry[j] = "queued" => entry'[j] = "queued" BY <1>9 DEF WorkerOutage, RunEnds
  <2> QED BY <2>1, <2>2, <2>3, <2>4, <1>1 DEF FaultKinds
<1>10. ASSUME NEW p \in Procs, CancelSwallowed(p) PROVE KeepsHold(j)
  <2>1. Fault("outage", {p}) /\ UNCHANGED <<status, entry>> BY <1>10 DEF CancelSwallowed, records
  <2>2. \A q \in Procs \ {p} : pc'[q] = pc[q] /\ job'[q] = job[q] BY <1>10 DEF CancelSwallowed, Go
  <2> QED BY <2>1, <2>2, <1>1 DEF FaultKinds
<1> QED BY <1>2, <1>3, <1>4, <1>5, <1>6, <1>7, <1>8, <1>9, <1>10 DEF Faults

LEMMA KeptNext ==
  ASSUME TypeInv, SoleInv, KeptInv, [Next]_vars
  PROVE  KeptInv'
<1> SUFFICES ASSUME NEW j \in Jobs, Sole(j), Kept(j) PROVE Kept(j)'
  BY DEF SoleInv, KeptInv
<1>1. CASE UNCHANGED vars
  BY <1>1 DEF vars, Kept, Held, Executing, Struck, records, control, history
<1>2. ASSUME NEW h \in Handlers, Request(h) \/ HandlerStep(h) PROVE Kept(j)'
  BY <1>2, KeptHandler
<1>3. CASE ReaperStep \/ BooterStep \/ TimePasses \/ \E i \in Jobs : Redispatch(i)
  BY <1>3, HoldServices, KeptByHold
<1>4. CASE WorkerStep \/ FetchHeartbeat BY <1>4, HoldWorker, KeptByHold
<1>5. CASE Faults BY <1>5, HoldFaults, KeptByHold
<1> QED BY <1>1, <1>2, <1>3, <1>4, <1>5 DEF Next, Steps

-----------------------------------------------------------------------------
ReachInv == SoleInv /\ KeptInv

LEMMA ReachInit == Init => ReachInv
<1> SUFFICES ASSUME Init, NEW j \in Jobs PROVE Sole(j) /\ Kept(j)
  BY DEF ReachInv, SoleInv, KeptInv
<1>1. \A p \in Procs : job[p] = NoJob BY DEF Init
<1>2. status[j] = "none" /\ entry[j] = "none" /\ toAbandon = {} /\ known = {} BY DEF Init
<1> QED BY <1>1, <1>2 DEF Sole, Fresh, Untouched, Kept

\* A queued record that no DELETE is at always has somebody who will run it (RQ,
\* the worker, its submitter), unless a fault struck one of them with this very
\* job in hand: create_job saves before it enqueues, RQ's entry is dropped by a
\* DELETE and by who settles a running job, and by nobody else.
THEOREM QueuedIsNeverLost == Spec => []QueuedIsReachable
<1>1. Init => ReachInv BY ReachInit
<1>2. TypeInv /\ SubmitInv /\ ReachInv /\ [Next]_vars => ReachInv'
  BY SoleNext, KeptNext DEF ReachInv
<1>3. DeleteInv /\ ReachInv => QueuedIsReachable
  <2> SUFFICES ASSUME DeleteInv, ReachInv, NEW j \in Jobs,
                      status[j] = "queued", ~tomb[j], ~Struck(j)
               PROVE  entry[j] = "queued" \/ Executing(j) \/ Submitting(j)
    BY DEF QueuedIsReachable
  <2>1. entry[j] = "queued" \/ Executing(j) \/ Held(j) BY DEF ReachInv, KeptInv, Kept
  <2>2. ASSUME NEW h \in Handlers, job[h] = j, pc[h] \in {"create_enqueue", "delete_record"}
        PROVE  Submitting(j)
    <3>1. pc[h] # "delete_record" BY <2>2 DEF DeleteInv, DeletePCs
    <3> QED BY <2>2, <3>1 DEF Submitting, CreatePCs
  <2> QED BY <2>1, <2>2 DEF Held
<1>4. IInv => TypeInv /\ SubmitInv /\ DeleteInv BY DEF IInv
<1> QED BY <1>1, <1>2, <1>3, <1>4, Invariant, PTL DEF Spec

-----------------------------------------------------------------------------
(* A final status is final. *)

\* Without these two, whoever fails a job from outside knows its run to be over.
Orderly == "silence" \notin Env /\ "redispatch" \notin Env

\* Nobody runs j, nobody will, and it has not succeeded.
Lost(j) ==
    /\ ~Executing(j) /\ entry[j] # "queued"
    /\ status[j] \in {"running", "failed", "none"}

\* Only a lost job is failed from outside.
LostInv(j) ==
    /\ j \in toAbandon => Lost(j)
    /\ \A p \in Procs \ {Worker} : job[p] = j /\ pc[p] \in SettlePCs => Lost(j)

CutOff(j) == {<<j, "timeout">>, <<j, "outage">>} \intersect struck # {}

\* The run finds the record as it has left it, or none, until it has settled.
RunInv(j) == Executing(j) =>
    /\ entry[j] # "queued" /\ ~quiet[j]
    /\ pc[Worker] \in {"popped", "loaded"} => status[j] \in {"queued", "none"}
    /\ pc[Worker] \in BodyPCs \union {"cleanup"} => status[j] \in {"running", "none"}
    /\ pc[Worker] \in {"check", "save"} =>
           status[j] \in {"running", "none"} \/ (outcome = "failed" /\ CutOff(j))

\* What RQ has yet to hand out has not been run, and what it has yet to get is
\* its submitter's alone.
QueueInv(j) ==
    /\ entry[j] = "queued" => status[j] \in {"queued", "none"}
    /\ \A h \in Handlers : job[h] = j /\ pc[h] = "create_enqueue" =>
           /\ status[j] = "queued" /\ entry[j] # "queued" /\ j \notin toAbandon
           /\ \A p \in Procs \ {h} : job[p] # j

Owned(j) == LostInv(j) /\ RunInv(j) /\ QueueInv(j)
OwnedInv == \A j \in Jobs : Owned(j)

-----------------------------------------------------------------------------
(* Who is lost stays lost.                                                   *)

Creating(j) == \E h \in Handlers : job[h] = j /\ pc[h] \in {"create_save", "create_enqueue"}

LEMMA LostStays ==
  ASSUME TypeInv, Orderly, NEW j \in Jobs, Lost(j), ~Creating(j), [Next]_vars
  PROVE  Lost(j)'
<1> USE DEF Lost, Executing, TypeInv, TypeOK, ProcOK, StoreOK, RunOK, RestPCs, Go, Save, Erase,
            records, control, lists, run
<1>1. CASE UNCHANGED vars BY <1>1 DEF vars
<1>2. ASSUME NEW p \in Procs, Settle(p) PROVE Lost(j)'
  <2>1. CASE Repudiate(p) BY <2>1 DEF Repudiate, CancelledEntry
  <2>2. CASE SettleCheck(p) BY <2>2 DEF SettleCheck, Leave
  <2>3. CASE SettleSave(p)
    <3>1. job[p] = j => Outcome(p) = "failed" BY DEF Outcome
    <3> QED BY <2>3, <3>1 DEF SettleSave
  <2>4. CASE Notify(p) BY <2>4 DEF Notify, Leave
  <2> QED BY <1>2, <2>1, <2>2, <2>3, <2>4 DEF Settle
<1>3. ASSUME NEW h \in Handlers, Request(h) PROVE Lost(j)'
  BY <1>3 DEF Request, CreateBegin, GetStale, DeleteBegin
<1>4. ASSUME NEW h \in Handlers, HandlerStep(h), ~Settle(h) PROVE Lost(j)'
  <2>1. CASE CreateSave(h) BY <2>1 DEF CreateSave, Creating
  <2>2. CASE CreateEnqueue(h) BY <2>2 DEF CreateEnqueue, Creating
  <2>3. CASE CreateRespond(h) BY <2>3 DEF CreateRespond
  <2>4. CASE RequestCancel(h) \/ RemoveFiles(h) \/ RemoveInbox(h)
    BY <2>4 DEF RequestCancel, RemoveFiles, RemoveInbox
  <2>5. CASE CancelRQ(h) BY <2>5 DEF CancelRQ, CancelledEntry
  <2>6. CASE DeleteRecord(h) BY <2>6 DEF DeleteRecord
  <2> QED BY <1>4, <2>1, <2>2, <2>3, <2>4, <2>5, <2>6 DEF HandlerStep
<1>5. CASE ReaperStep \/ BooterStep
  <2>1. CASE SweepBegin \/ SweepFiles BY <2>1 DEF SweepBegin, SweepFiles
  <2>2. ASSUME NEW i \in Jobs, SweepOne(i) PROVE Lost(j)' BY <2>2 DEF SweepOne
  <2>3. CASE Boot \/ BootDone BY <2>3 DEF Boot, BootDone
  <2>4. ASSUME NEW i \in Jobs, BootOne(i) PROVE Lost(j)' BY <2>4 DEF BootOne
  <2> QED BY <1>2, <1>5, <2>1, <2>2, <2>3, <2>4 DEF ReaperStep, BooterStep
<1>6. CASE WorkerStep \/ FetchHeartbeat
  <2>1. ASSUME NEW i \in Jobs, Dequeue(i) PROVE Lost(j)' BY <2>1 DEF Dequeue
  <2>2. CASE LoadRecord \/ Finish BY <2>2 DEF LoadRecord, Finish, RunEnds
  <2>3. CASE StartRun \/ ProgressSave \/ FetchHeartbeat
    BY <2>3 DEF StartRun, ProgressSave, FetchHeartbeat
  <2>4. CASE FetchOpen \/ FetchEnds \/ BodyRaises \/ MakeOutputDir \/ Decode
    BY <2>4 DEF FetchOpen, FetchEnds, FetchDone, FetchTooLarge, BodyRaises, MakeOutputDir, Decode
  <2>5. CASE ProgressCheck \/ Stamp \/ CancelCleanup
    BY <2>5 DEF ProgressCheck, Stamp, CancelCleanup
  <2> QED BY <1>2, <1>6, <2>1, <2>2, <2>3, <2>4, <2>5 DEF WorkerStep, Settle
<1>7. CASE Faults
  <2>1. ASSUME NEW p \in Procs, MaybeWritten(p), pc[p] \notin RestPCs,
               p \in Handlers \/ pc[p] # "create_save"
        PROVE  status'[j] \in {status[j], "failed"}
    <3>1. job[p] = j => p # Worker OBVIOUS
    <3>2. job[p] = j => Outcome(p) = "failed" BY <3>1 DEF Outcome
    <3>3. job[p] = j => ~(pc[p] = "create_save" /\ p \in Handlers) BY DEF Creating
    <3>4. job[p] = j => pc[p] \notin {"loaded", "download", "report"}
      BY <3>1 DEF HandlerPCs, ReaperPCs, BooterPCs, CreatePCs, DeletePCs, SettlePCs
    <3> QED BY <2>1, <3>2, <3>3, <3>4 DEF MaybeWritten
  <2>2. CASE WorkerCrash \/ ApiCrash \/ ReaperCrash
    BY <2>2 DEF WorkerCrash, ApiCrash, ReaperCrash, ReaperStops
  <2>3. CASE Timeout \/ TimeoutAtEnd BY <2>3 DEF Timeout, TimeoutAtEnd, RunInterrupted, RunEnds
  <2>4. ASSUME NEW h \in Handlers, HandlerOutage(h) PROVE Lost(j)'
    BY <2>1, <2>4 DEF HandlerOutage, CreatePCs
  <2>5. CASE ReaperOutage
    <3>1. status'[j] \in {status[j], "failed"}
      BY <2>1, <2>5 DEF ReaperOutage, MaybeWritten
    <3> QED BY <2>5, <3>1 DEF ReaperOutage, ReaperStops
  <2>6. CASE BooterOutage BY <2>1, <2>6 DEF BooterOutage
  <2>7. CASE WorkerOutage
    <3>1. status'[j] \in {status[j], "failed"} BY <2>1, <2>7 DEF WorkerOutage
    <3> QED BY <2>7, <3>1 DEF WorkerOutage, RunEnds, RunInterrupted
  <2>8. ASSUME NEW p \in Procs, CancelSwallowed(p) PROVE Lost(j)' BY <2>8 DEF CancelSwallowed
  <2> QED BY <1>7, <2>2, <2>3, <2>4, <2>5, <2>6, <2>7, <2>8 DEF Faults
<1>8. CASE TimePasses \/ \E i \in Jobs : Redispatch(i)
  BY <1>8 DEF TimePasses, GoesQuiet, Expire, TombExpires, Redispatch, Orderly
<1> QED BY <1>1, <1>2, <1>3, <1>4, <1>5, <1>6, <1>7, <1>8 DEF Next, Steps
-----------------------------------------------------------------------------
(* Only what is lost is taken in hand to be failed.                          *)

\* Why a process other than the run itself may come to fail j.
Judged(j) ==
    \/ j \in toAbandon
    \/ \E p \in Procs \ {Worker} : job[p] = j /\ pc[p] \in SettlePCs
    \/ status[j] = "running" /\ (quiet[j] \/ pc[Worker] = "down")

LEMMA JudgedIsLost ==
  ASSUME TypeInv, NEW j \in Jobs, Sole(j), Owned(j), Judged(j)
  PROVE  Lost(j) /\ ~Creating(j)
<1> USE DEF Owned, Judged
<1>1. Lost(j)
  <2>1. CASE status[j] = "running" /\ (quiet[j] \/ pc[Worker] = "down")
    <3>1. ~Executing(j)
      BY <2>1 DEF RunInv, Executing, TypeInv, TypeOK, ProcOK, RestPCs
    <3> QED BY <2>1, <3>1 DEF QueueInv, Lost
  <2> QED BY <2>1 DEF LostInv
<1>2. ASSUME NEW h \in Handlers, job[h] = j, pc[h] = "create_save" PROVE FALSE
  BY <1>2 DEF Sole, Fresh, Unsaved, SettlePCs
<1>3. ASSUME NEW h \in Handlers, job[h] = j, pc[h] = "create_enqueue" PROVE FALSE
  BY <1>3 DEF QueueInv, SettlePCs
<1> QED BY <1>1, <1>2, <1>3 DEF Creating

\* Who has j in hand to fail it, or will, has had it judged before.
LEMMA JudgedBefore ==
  ASSUME TypeInv, NEW j \in Jobs, [Next]_vars,
         \/ j \in toAbandon'
         \/ \E p \in Procs \ {Worker} : job'[p] = j /\ pc'[p] \in SettlePCs
  PROVE  Judged(j)
<1> USE DEF Judged, TypeInv, TypeOK, ProcOK, Go, records, control, lists
<1>1. CASE UNCHANGED vars BY <1>1 DEF vars
<1>2. ASSUME NEW p \in Procs, Settle(p) PROVE Judged(j) BY <1>2, SettleMoves
<1>3. ASSUME NEW h \in Handlers, Request(h) PROVE Judged(j)
  BY <1>3 DEF Request, CreateBegin, GetStale, DeleteBegin, IsStale, AfterSubmit, AfterDelete,
            SettlePCs
<1>4. ASSUME NEW h \in Handlers, HandlerStep(h), ~Settle(h) PROVE Judged(j)
  <2> USE DEF AfterSubmit, AfterDelete, SettlePCs
  <2>1. CASE CreateSave(h) \/ CreateEnqueue(h) \/ CreateRespond(h)
    BY <2>1 DEF CreateSave, CreateEnqueue, CreateRespond
  <2>2. CASE RequestCancel(h) \/ CancelRQ(h) \/ DeleteRecord(h) \/ RemoveFiles(h) \/ RemoveInbox(h)
    BY <2>2 DEF RequestCancel, CancelRQ, DeleteRecord, RemoveFiles, RemoveInbox
  <2> QED BY <1>4, <2>1, <2>2 DEF HandlerStep
<1>5. CASE ReaperStep \/ BooterStep
  <2>1. CASE SweepBegin \/ SweepFiles BY <2>1 DEF SweepBegin, SweepFiles, SettlePCs
  <2>2. ASSUME NEW i \in Jobs, SweepOne(i) PROVE Judged(j) BY <2>2 DEF SweepOne, IsStale
  <2>3. CASE Boot BY <2>3 DEF Boot, BootOrphans, SettlePCs
  <2>4. CASE BootDone BY <2>4 DEF BootDone, SettlePCs
  <2>5. ASSUME NEW i \in Jobs, BootOne(i) PROVE Judged(j) BY <2>5 DEF BootOne
  <2> QED BY <1>2, <1>5, <2>1, <2>2, <2>3, <2>4, <2>5 DEF ReaperStep, BooterStep
<1>6. CASE WorkerStep \/ FetchHeartbeat \/ \E i \in Jobs : Redispatch(i)
  <2> SUFFICES ASSUME ~Settle(Worker)
               PROVE  /\ UNCHANGED lists
                      /\ \A p \in Procs \ {Worker} : pc'[p] = pc[p] /\ job'[p] = job[p]
    BY <1>2
  <2>1. ASSUME NEW i \in Jobs, Dequeue(i) \/ Redispatch(i)
        PROVE  /\ UNCHANGED lists
               /\ \A p \in Procs \ {Worker} : pc'[p] = pc[p] /\ job'[p] = job[p]
    BY <2>1 DEF Dequeue, Redispatch
  <2>2. CASE LoadRecord \/ Finish BY <2>2 DEF LoadRecord, Finish, RunEnds
  <2>3. CASE StartRun \/ ProgressSave \/ FetchHeartbeat
    BY <2>3 DEF StartRun, ProgressSave, FetchHeartbeat
  <2>4. CASE FetchOpen \/ FetchEnds \/ BodyRaises \/ MakeOutputDir \/ Decode
    BY <2>4 DEF FetchOpen, FetchEnds, FetchDone, FetchTooLarge, BodyRaises, MakeOutputDir, Decode
  <2>5. CASE ProgressCheck \/ Stamp \/ CancelCleanup
    BY <2>5 DEF ProgressCheck, Stamp, CancelCleanup
  <2> QED BY <1>6, <2>1, <2>2, <2>3, <2>4, <2>5 DEF WorkerStep, Settle
<1>7. CASE Faults
  <2>1. CASE WorkerCrash \/ ApiCrash \/ ReaperCrash
    BY <2>1 DEF WorkerCrash, ApiCrash, ReaperCrash, ReaperStops, SettlePCs
  <2>2. CASE Timeout \/ TimeoutAtEnd
    BY <2>2 DEF Timeout, TimeoutAtEnd, RunInterrupted, RunEnds
  <2>3. ASSUME NEW h \in Handlers, HandlerOutage(h) PROVE Judged(j)
    BY <2>3 DEF HandlerOutage, SettlePCs
  <2>4. CASE ReaperOutage \/ BooterOutage
    BY <2>4 DEF ReaperOutage, ReaperStops, BooterOutage, SettlePCs
  <2>5. CASE WorkerOutage BY <2>5 DEF WorkerOutage, RunInterrupted, RunEnds
  <2>6. ASSUME NEW p \in Procs, CancelSwallowed(p) PROVE Judged(j)
    BY <2>6 DEF CancelSwallowed, AfterDelete, SettlePCs
  <2> QED BY <1>7, <2>1, <2>2, <2>3, <2>4, <2>5, <2>6 DEF Faults
<1>8. CASE TimePasses
  BY <1>8 DEF TimePasses, GoesQuiet, Expire, TombExpires
<1> QED BY <1>1, <1>2, <1>3, <1>4, <1>5, <1>6, <1>7, <1>8 DEF Next, Steps

LEMMA LostNext ==
  ASSUME TypeInv, Orderly, NEW j \in Jobs, Sole(j), Owned(j), [Next]_vars
  PROVE  LostInv(j)'
<1> SUFFICES ASSUME \/ j \in toAbandon'
                    \/ \E p \in Procs \ {Worker} : job'[p] = j /\ pc'[p] \in SettlePCs
             PROVE  Lost(j)'
  BY DEF LostInv
<1> QED BY JudgedBefore, JudgedIsLost, LostStays
-----------------------------------------------------------------------------
(* The run and the queue keep what is theirs.                                *)

LEMMA OwnSettle ==
  ASSUME TypeInv, NEW j \in Jobs, Sole(j), Owned(j), NEW p \in Procs, Settle(p)
  PROVE  RunInv(j)' /\ QueueInv(j)'
<1> USE DEF TypeInv, TypeOK, ProcOK, StoreOK, RunOK, Go, Save, Leave, Rest, SettlePCs, BodyPCs,
            Executing,
            Owned, RunInv, QueueInv, CutOff, records, control, lists, run, history, marks
<1>1. CASE p = Worker
  <2>1. CASE Repudiate(p) BY <1>1, <2>1 DEF Repudiate, WorkerPCs
  <2>2. CASE SettleCheck(p) BY <1>1, <2>2 DEF SettleCheck
  <2>3. CASE SettleSave(p) BY <1>1, <2>3 DEF SettleSave, Outcome
  <2>4. CASE Notify(p) BY <1>1, <2>4 DEF Notify
  <2> QED BY <2>1, <2>2, <2>3, <2>4 DEF Settle
<1>2. CASE p # Worker
  <2>1. job[p] = j => Lost(j) /\ ~Creating(j)
    BY <1>2, SettleMoves, JudgedIsLost DEF Judged
  <2> USE DEF Lost, Creating
  <2>2. CASE Repudiate(p) BY <1>2, <2>1, <2>2 DEF Repudiate, CancelledEntry
  <2>3. CASE SettleCheck(p) BY <1>2, <2>1, <2>3 DEF SettleCheck
  <2>4. CASE SettleSave(p) BY <1>2, <2>1, <2>4 DEF SettleSave
  <2>5. CASE Notify(p) BY <1>2, <2>1, <2>5 DEF Notify
  <2> QED BY <2>2, <2>3, <2>4, <2>5 DEF Settle
<1> QED BY <1>1, <1>2

LEMMA OwnRequest ==
  ASSUME TypeInv, SubmitInv, NEW j \in Jobs, Sole(j), Owned(j), NEW h \in Handlers, Request(h)
  PROVE  RunInv(j)' /\ QueueInv(j)'
<1> USE DEF TypeInv, TypeOK, ProcOK, Go, Executing, Owned, RunInv, QueueInv, CutOff, SubmitInv,
            CreatePCs,
            records, lists, run, client, history
<1>1. ASSUME NEW i \in Jobs, NEW s \in Sources, CreateBegin(h, i, s) PROVE RunInv(j)' /\ QueueInv(j)'
  <2>1. i = j => \A p \in Procs : job[p] # j
    BY <1>1 DEF CreateBegin, Sole, Fresh, Unsaved
  <2> QED BY <1>1, <2>1 DEF CreateBegin, AfterSubmit
<1>2. ASSUME NEW i \in Jobs, GetStale(h, i) PROVE RunInv(j)' /\ QueueInv(j)'
  BY <1>2 DEF GetStale
<1>3. ASSUME NEW i \in Jobs, DeleteBegin(h, i) PROVE RunInv(j)' /\ QueueInv(j)'
  BY <1>3 DEF DeleteBegin, AfterDelete
<1> QED BY <1>1, <1>2, <1>3 DEF Request

LEMMA OwnHandler ==
  ASSUME TypeInv, SubmitInv, NEW j \in Jobs, Sole(j), Owned(j), NEW h \in Handlers, HandlerStep(h)
  PROVE  RunInv(j)' /\ QueueInv(j)'
<1> USE DEF TypeInv, TypeOK, ProcOK, StoreOK, Go, Save, Erase, Executing, Owned, RunInv,
            QueueInv, CutOff,
            AfterSubmit, AfterDelete, records, control, lists, run, client, history, marks
<1>1. CASE CreateSave(h)
  <2>1. CASE job[h] = j
    <3>1. \A p \in Procs \ {h} : job[p] # j
      BY <1>1, <2>1 DEF CreateSave, Sole, Fresh, Unsaved, SubmitInv, CreatePCs
    <3>2. entry[j] = "none" /\ j \notin toAbandon
      BY <1>1, <2>1 DEF CreateSave, Sole, Fresh, Unsaved
    <3> QED BY <1>1, <2>1, <3>1, <3>2 DEF CreateSave
  <2>2. CASE job[h] # j BY <1>1, <2>2 DEF CreateSave
  <2> QED BY <2>1, <2>2
<1>2. CASE CreateEnqueue(h)
  <2>1. CASE job[h] = j BY <1>2, <2>1 DEF CreateEnqueue
  <2>2. CASE job[h] # j BY <1>2, <2>2 DEF CreateEnqueue
  <2> QED BY <2>1, <2>2
<1>3. CASE CreateRespond(h) BY <1>3 DEF CreateRespond
<1>4. CASE RequestCancel(h) \/ RemoveFiles(h) \/ RemoveInbox(h)
  BY <1>4 DEF RequestCancel, RemoveFiles, RemoveInbox
<1>5. CASE CancelRQ(h) BY <1>5 DEF CancelRQ, CancelledEntry
<1>6. CASE DeleteRecord(h) BY <1>6 DEF DeleteRecord
<1>7. CASE Settle(h) BY <1>7, OwnSettle
<1> QED BY <1>1, <1>2, <1>3, <1>4, <1>5, <1>6, <1>7 DEF HandlerStep

LEMMA OwnServices ==
  ASSUME TypeInv, NEW j \in Jobs, Sole(j), Owned(j), ReaperStep \/ BooterStep
  PROVE  RunInv(j)' /\ QueueInv(j)'
<1> USE DEF TypeInv, TypeOK, ProcOK, StoreOK, Go, Executing, Owned, RunInv, QueueInv, CutOff,
            RestPCs,
            records, control, lists, run, client, history, marks
<1>1. CASE SweepBegin \/ SweepFiles BY <1>1 DEF SweepBegin, SweepFiles
<1>2. ASSUME NEW i \in Jobs, SweepOne(i) PROVE RunInv(j)' /\ QueueInv(j)'
  BY <1>2 DEF SweepOne, IsStale
<1>3. CASE Boot BY <1>3 DEF Boot, BootOrphans
<1>4. CASE BootDone BY <1>4 DEF BootDone, BootOK
<1>5. ASSUME NEW i \in Jobs, BootOne(i) PROVE RunInv(j)' /\ QueueInv(j)' BY <1>5 DEF BootOne
<1> QED BY <1>1, <1>2, <1>3, <1>4, <1>5, OwnSettle DEF ReaperStep, BooterStep

LEMMA OwnWorker ==
  ASSUME TypeInv, NEW j \in Jobs, Sole(j), Owned(j), WorkerStep \/ FetchHeartbeat
  PROVE  RunInv(j)' /\ QueueInv(j)'
<1> USE DEF TypeInv, TypeOK, ProcOK, StoreOK, RunOK, Go, Save, Executing, Owned, RunInv,
            QueueInv, CutOff,
            RestPCs, BodyPCs, records, control, lists, run, client, history, marks
<1>1. ASSUME NEW i \in Jobs, Dequeue(i) PROVE RunInv(j)' /\ QueueInv(j)' BY <1>1 DEF Dequeue
<1>2. CASE LoadRecord \/ Finish BY <1>2 DEF LoadRecord, Finish, RunEnds
<1>3. CASE StartRun BY <1>3 DEF StartRun
<1>4. CASE ProgressSave \/ FetchHeartbeat BY <1>4 DEF ProgressSave, FetchHeartbeat
<1>5. CASE FetchOpen \/ FetchEnds BY <1>5 DEF FetchOpen, FetchEnds, FetchDone, FetchTooLarge
<1>6. CASE BodyRaises \/ MakeOutputDir \/ Decode BY <1>6 DEF BodyRaises, MakeOutputDir, Decode
<1>7. CASE ProgressCheck \/ Stamp \/ CancelCleanup
  BY <1>7 DEF ProgressCheck, Stamp, CancelCleanup
<1> QED BY <1>1, <1>2, <1>3, <1>4, <1>5, <1>6, <1>7, OwnSettle DEF WorkerStep, Settle

LEMMA OwnTime ==
  ASSUME TypeInv, Orderly, NEW j \in Jobs, Sole(j), Owned(j),
         TimePasses \/ \E i \in Jobs : Redispatch(i)
  PROVE  RunInv(j)' /\ QueueInv(j)'
<1> USE DEF TypeInv, TypeOK, ProcOK, StoreOK, Erase, Executing, Owned, RunInv, QueueInv, CutOff,
            records, control, lists, run, client, history, marks
<1>1. ASSUME NEW i \in Jobs, GoesQuiet(i) PROVE RunInv(j)' /\ QueueInv(j)'
  <2>1. ~Executing(i) BY <1>1 DEF GoesQuiet, Orderly, InFlight
  <2>2. quiet' = [quiet EXCEPT ![i] = TRUE]
        /\ UNCHANGED <<status, entry, control, lists, run, history>>
    BY <1>1 DEF GoesQuiet
  <2> QED BY <2>1, <2>2
<1>2. ASSUME NEW i \in Jobs, Expire(i) PROVE RunInv(j)' /\ QueueInv(j)'
  BY <1>2 DEF Expire, InFlight
<1>3. ASSUME NEW i \in Jobs, TombExpires(i) PROVE RunInv(j)' /\ QueueInv(j)'
  BY <1>3 DEF TombExpires
<1> QED BY <1>1, <1>2, <1>3 DEF TimePasses, Redispatch, Orderly

LEMMA OwnFaults ==
  ASSUME TypeInv, SubmitInv, NEW j \in Jobs, Sole(j), Owned(j), Faults
  PROVE  RunInv(j)' /\ QueueInv(j)'
<1> USE DEF TypeInv, TypeOK, ProcOK, StoreOK, RunOK, Go, Save, Executing, Owned, RunInv,
            QueueInv, CutOff,
            RestPCs, BodyPCs, records, control, lists, run, client, history, marks
<1>1. CASE WorkerCrash \/ ApiCrash \/ ReaperCrash
  BY <1>1 DEF WorkerCrash, ApiCrash, ReaperCrash, ReaperStops, Fault
<1>2. CASE Timeout
  <2>1. struck \subseteq struck' /\ (job[Worker] = j => <<j, "timeout">> \in struck')
    BY <1>2 DEF Timeout, Fault
  <2>2. UNCHANGED <<records, entry, lists, job>> BY <1>2 DEF Timeout, RunInterrupted
  <2>3. \A p \in Procs \ {Worker} : pc'[p] = pc[p] BY <1>2 DEF Timeout, RunInterrupted
  <2>4. pc'[Worker] = "finally" \/ (pc'[Worker] = "check" /\ outcome' = "failed")
    BY <1>2 DEF Timeout, RunInterrupted
  <2>5. RunInv(j)' BY <1>2, <2>1, <2>2, <2>3, <2>4 DEF Timeout, InTry
  <2>6. QueueInv(j)' BY <2>2, <2>3
  <2> QED BY <2>5, <2>6
<1>3. CASE TimeoutAtEnd BY <1>3 DEF TimeoutAtEnd, RunEnds, Fault
<1>4. CASE WorkerOutage
  <2>1. job[Worker] # j => UNCHANGED <<status[j], entry[j], quiet[j]>>
    BY <1>4 DEF WorkerOutage, MaybeWritten, RunEnds
  <2>2. CASE pc[Worker] \in {"popped", "loaded"} /\ RunEnds
    BY <1>4, <2>1, <2>2 DEF WorkerOutage, MaybeWritten, RunEnds
  <2>3. CASE RunInterrupted /\ UNCHANGED entry /\ pc[Worker] \in {"download", "infer", "report"}
    BY <1>4, <2>1, <2>3 DEF WorkerOutage, MaybeWritten, RunInterrupted, InTry
  <2>4. CASE RunInterrupted /\ UNCHANGED entry /\ pc[Worker] \in {"check", "save"}
    <3>1. job[Worker] = j => <<j, "outage">> \in struck'
      BY <1>4 DEF WorkerOutage, Fault
    <3> QED BY <1>4, <2>1, <2>4, <3>1 DEF WorkerOutage, MaybeWritten, RunInterrupted, InTry
  <2> QED BY <1>4, <2>2, <2>3, <2>4 DEF WorkerOutage
<1>5. ASSUME NEW p \in Procs \ {Worker}, MaybeWritten(p), UNCHANGED entry, pc[p] \notin RestPCs,
             p \notin Handlers => pc[p] \in {"check", "save"},
             struck \subseteq struck', toAbandon' \subseteq toAbandon,
             UNCHANGED outcome, job'[p] = NoJob, pc'[p] \in RestPCs,
             \A q \in Procs \ {p} : pc'[q] = pc[q] /\ job'[q] = job[q],
             p \in Handlers => pc[p] \in CreatePCs \union {"request_cancel", "delete_record",
            "check", "save"}
      PROVE  RunInv(j)' /\ QueueInv(j)'
  <2>1. CASE job[p] = j /\ pc[p] = "create_save"
    <3>1. p \in Handlers BY <1>5, <2>1
    <3>2. entry[j] = "none" /\ \A q \in Procs \ {p} : job[q] # j
      BY <2>1, <3>1 DEF Sole, Fresh, Unsaved, SubmitInv, CreatePCs
    <3> QED BY <1>5, <2>1, <3>2
  <2>2. CASE job[p] = j /\ pc[p] \in SettlePCs
    <3>1. Lost(j) /\ ~Creating(j) BY <2>2, JudgedIsLost DEF Judged
    <3> QED BY <1>5, <2>2, <3>1 DEF MaybeWritten, Lost, Creating, SettlePCs
  <2>3. CASE job[p] # j \/ pc[p] \notin {"create_save"} \union SettlePCs
    <3>1. status'[j] = status[j] /\ quiet'[j] = quiet[j]
      BY <1>5, <2>3 DEF MaybeWritten, CreatePCs, SettlePCs
    <3> QED BY <1>5, <3>1
  <2> QED BY <2>1, <2>2, <2>3
<1>6. ASSUME NEW h \in Handlers, HandlerOutage(h) PROVE RunInv(j)' /\ QueueInv(j)'
  <2>1. pc[h] \notin RestPCs BY <1>6 DEF HandlerOutage, CreatePCs
  <2>2. struck \subseteq struck' BY <1>6 DEF HandlerOutage, Fault
  <2> QED BY <1>5, <1>6, <2>1, <2>2 DEF HandlerOutage
<1>7. CASE ReaperOutage
  <2>1. struck \subseteq struck' BY <1>7 DEF ReaperOutage, Fault
  <2>2. CASE pc[Reaper] = "scan"
    <3>1. UNCHANGED records BY <1>7, <2>2 DEF ReaperOutage, MaybeWritten
    <3> QED BY <1>7, <2>1, <2>2, <3>1 DEF ReaperOutage, ReaperStops
  <2>3. CASE pc[Reaper] # "scan"
    BY <1>5, <1>7, <2>1, <2>3 DEF ReaperOutage, ReaperStops
  <2> QED BY <2>2, <2>3
<1>8. CASE BooterOutage
  <2>1. struck \subseteq struck' BY <1>8 DEF BooterOutage, Fault
  <2> QED BY <1>5, <1>8, <2>1 DEF BooterOutage
<1>9. ASSUME NEW p \in Procs, CancelSwallowed(p) PROVE RunInv(j)' /\ QueueInv(j)'
  BY <1>9 DEF CancelSwallowed, AfterDelete, Fault, WorkerPCs, SettlePCs
<1> QED BY <1>1, <1>2, <1>3, <1>4, <1>6, <1>7, <1>8, <1>9 DEF Faults

LEMMA OwnedNext ==
  ASSUME TypeInv, SubmitInv, Orderly, SoleInv, OwnedInv, [Next]_vars
  PROVE  OwnedInv'
<1> SUFFICES ASSUME NEW j \in Jobs, Sole(j), Owned(j) PROVE RunInv(j)' /\ QueueInv(j)'
  BY LostNext DEF SoleInv, OwnedInv, Owned
<1>1. CASE UNCHANGED vars
  BY <1>1 DEF vars, Owned, RunInv, QueueInv, CutOff, Executing, records, control, lists, run,
            history
<1>2. ASSUME NEW h \in Handlers, Request(h) \/ HandlerStep(h) PROVE RunInv(j)' /\ QueueInv(j)'
  BY <1>2, OwnRequest, OwnHandler
<1> QED BY <1>1, <1>2, OwnServices, OwnWorker, OwnFaults, OwnTime DEF Next, Steps

-----------------------------------------------------------------------------
(* No step changes a final status but into none.                             *)

\* p stands right before a write of its job's record.
Writes(p) ==
    \/ pc[p] = "save"
    \/ p \in Handlers /\ pc[p] = "create_save"
    \/ p = Worker /\ pc[p] \in {"loaded", "download", "report"}

\* A step leaves j's record alone, removes it, or is the write of a process that
\* has j in hand.
WriteStep(j) ==
    \/ status'[j] \in {status[j], "none"}
    \/ \E p \in Procs : /\ job[p] = j /\ Writes(p)
                        /\ pc[p] = "save" => status'[j] = Outcome(p)

LEMMA OnlyHoldersWrite ==
  ASSUME TypeInv, NEW j \in Jobs, [Next]_vars
  PROVE  WriteStep(j)
<1> USE DEF TypeInv, TypeOK, ProcOK, StoreOK, records, WriteStep
<1>1. CASE UNCHANGED status BY <1>1
<1>2. ASSUME NEW p \in Procs, Settle(p) PROVE WriteStep(j)
  BY <1>2 DEF Settle, Repudiate, SettleCheck, SettleSave, Notify, Save, Writes
<1>3. ASSUME NEW p \in Procs, MaybeWritten(p),
             pc[p] = "create_save" => p \in Handlers,
             pc[p] \in {"loaded", "download", "report"} => p = Worker
      PROVE  WriteStep(j)
  BY <1>3 DEF MaybeWritten, Save, Writes
<1>4. ASSUME NEW h \in Handlers, Request(h) PROVE WriteStep(j)
  BY <1>4 DEF Request, CreateBegin, GetStale, DeleteBegin
<1>5. ASSUME NEW h \in Handlers, HandlerStep(h) PROVE WriteStep(j)
  <2>1. CASE CreateSave(h) BY <2>1 DEF CreateSave, Save, Writes
  <2>2. CASE DeleteRecord(h) BY <2>2 DEF DeleteRecord, Erase
  <2>3. CASE CreateEnqueue(h) \/ CreateRespond(h) \/ RequestCancel(h) \/ CancelRQ(h)
                \/ RemoveFiles(h) \/ RemoveInbox(h)
    BY <2>3 DEF CreateEnqueue, CreateRespond, RequestCancel, CancelRQ, RemoveFiles, RemoveInbox
  <2> QED BY <1>2, <1>5, <2>1, <2>2, <2>3 DEF HandlerStep
<1>6. CASE ReaperStep \/ BooterStep
  BY <1>2, <1>6 DEF ReaperStep, BooterStep, SweepBegin, SweepFiles, SweepOne, Boot, BootDone, BootOne
<1>7. CASE WorkerStep \/ FetchHeartbeat
  <2>1. CASE StartRun \/ ProgressSave \/ FetchHeartbeat
    BY <2>1 DEF StartRun, ProgressSave, FetchHeartbeat, Save, Writes
  <2>2. ASSUME NEW i \in Jobs, Dequeue(i) PROVE WriteStep(j) BY <2>2 DEF Dequeue
  <2>3. CASE LoadRecord \/ Finish \/ FetchOpen \/ FetchEnds \/ BodyRaises
    BY <2>3 DEF LoadRecord, Finish, FetchOpen, FetchEnds, FetchDone, FetchTooLarge, BodyRaises
  <2>4. CASE MakeOutputDir \/ Decode \/ ProgressCheck \/ Stamp \/ CancelCleanup
    BY <2>4 DEF MakeOutputDir, Decode, ProgressCheck, Stamp, CancelCleanup
  <2> QED BY <1>2, <1>7, <2>1, <2>2, <2>3, <2>4 DEF WorkerStep, Settle
<1>8. CASE Faults
  <2>1. CASE WorkerCrash \/ ApiCrash \/ ReaperCrash \/ Timeout \/ TimeoutAtEnd
    BY <2>1 DEF WorkerCrash, ApiCrash, ReaperCrash, Timeout, TimeoutAtEnd
  <2>2. ASSUME NEW h \in Handlers, HandlerOutage(h) PROVE WriteStep(j)
    BY <1>3, <2>2 DEF HandlerOutage, HandlerPCs, CreatePCs, DeletePCs, SettlePCs
  <2>3. CASE ReaperOutage BY <1>3, <2>3 DEF ReaperOutage
  <2>4. CASE BooterOutage BY <1>3, <2>4 DEF BooterOutage
  <2>5. CASE WorkerOutage BY <1>3, <2>5 DEF WorkerOutage
  <2>6. ASSUME NEW p \in Procs, CancelSwallowed(p) PROVE WriteStep(j) BY <2>6 DEF CancelSwallowed
  <2> QED BY <1>8, <2>1, <2>2, <2>3, <2>4, <2>5, <2>6 DEF Faults
<1>9. CASE TimePasses \/ \E i \in Jobs : Redispatch(i)
  BY <1>9 DEF TimePasses, GoesQuiet, Expire, Erase, TombExpires, Redispatch
<1> QED BY <1>1, <1>2, <1>4, <1>5, <1>6, <1>7, <1>8, <1>9 DEF Next, Steps, vars

FinalStep(j) == status[j] \in Terminal => status'[j] \in {status[j], "none"} \/ TakenBack(j)

LEMMA FinalNext ==
  ASSUME TypeInv, NEW j \in Jobs, Sole(j), Owned(j), [Next]_vars
  PROVE  FinalStep(j)
<1> USE DEF Owned, Terminal, FinalStep
<1> SUFFICES ASSUME NEW p \in Procs, job[p] = j, Writes(p),
                    pc[p] = "save" => status'[j] = Outcome(p)
             PROVE  FinalStep(j)
  BY OnlyHoldersWrite DEF WriteStep
<1>1. CASE p \in Handlers /\ pc[p] = "create_save" BY <1>1 DEF Sole, Fresh, Unsaved
<1>2. CASE p = Worker /\ pc[p] \in {"loaded", "download", "report"}
  BY <1>2 DEF RunInv, Executing, BodyPCs
<1>3. CASE pc[p] = "save" /\ p = Worker
  BY <1>3 DEF RunInv, CutOff, Outcome, TakenBack, Executing, TypeInv, TypeOK, RunOK
<1>4. CASE pc[p] = "save" /\ p # Worker
  <2>1. status[j] \in {"running", "failed", "none"} BY <1>4 DEF LostInv, Lost, SettlePCs
  <2> QED BY <1>4, <2>1 DEF Outcome
<1> QED BY <1>1, <1>2, <1>3, <1>4 DEF Writes

-----------------------------------------------------------------------------
LEMMA OwnedInit == Init => OwnedInv
<1> SUFFICES ASSUME Init, NEW j \in Jobs PROVE Owned(j)
  BY DEF OwnedInv
<1>1. \A p \in Procs : job[p] = NoJob BY DEF Init
<1>2. entry[j] = "none" /\ toAbandon = {} BY DEF Init
<1> QED BY <1>1, <1>2 DEF Owned, LostInv, RunInv, QueueInv, Executing

\* A final status is final: where no live run falls silent and RQ hands no entry
\* out twice, whoever writes a settled record writes what it says already, but
\* for a run that RQ's timeout or Redis has cut off right after its final write.
THEOREM FinalIsFinal == Orderly => (Spec => TerminalIsFinal)
<1> SUFFICES ASSUME Orderly PROVE Spec => TerminalIsFinal
  OBVIOUS
<1>1. Init => SoleInv /\ OwnedInv BY ReachInit, OwnedInit DEF ReachInv
<1>2. TypeInv /\ SubmitInv /\ SoleInv /\ OwnedInv /\ [Next]_vars => SoleInv' /\ OwnedInv'
  BY SoleNext, OwnedNext
<1>3. TypeInv /\ SoleInv /\ OwnedInv /\ [Next]_vars =>
          [\A j \in Jobs : status[j] \in Terminal =>
               status'[j] \in {status[j], "none"} \/ TakenBack(j)]_vars
  BY FinalNext DEF SoleInv, OwnedInv, FinalStep
<1>4. IInv => TypeInv /\ SubmitInv BY DEF IInv
<1> QED BY <1>1, <1>2, <1>3, <1>4, Invariant, PTL DEF Spec, TerminalIsFinal

-----------------------------------------------------------------------------
(* What a restart of Redis can bring back (RedisRestart). *)

\* The stems of j are there, or a DELETE has had its hand on them.
StemsKept(j) == out[j] = "stems" \/ j \in doomed

\* A snapshot holds what records, tombstones and entries can be.
SnapTypes(s) ==
    /\ s.status \in [Jobs -> {"none"} \union Unsettled \union Terminal]
    /\ s.quiet \in [Jobs -> BOOLEAN]
    /\ \A j \in Jobs : s.quiet[j] => s.status[j] \in {"running", "succeeded"}
    /\ s.tomb \in [Jobs -> BOOLEAN]
    /\ s.entry \in [Jobs -> {"none", "queued", "started", "canceled"}]

\* Whoever takes a job's files away has seen a tombstone for it, now or in the
\* Redis there was before the restart.
DoomInv ==
    /\ \A j \in Jobs : tomb[j] => j \in doomed
    /\ \A h \in Handlers :
           pc[h] \in {"cancel_rq", "delete_record", "remove_files"} => job[h] \in doomed
    /\ pc[Worker] = "cleanup" => job[Worker] \in doomed

\* A run about to report success has its stems.
MadeInv ==
    /\ pc[Worker] \in BodyPCs => outcome = "failed"
    /\ pc[Worker] \in {"infer", "report", "stamp"} => StemsKept(job[Worker])
    /\ pc[Worker] \in {"check", "save"} /\ outcome = "succeeded" => StemsKept(job[Worker])
    /\ \A j \in Jobs : status[j] = "succeeded" /\ ~quiet[j] => StemsKept(j)

SnapInv == \A s \in rdb :
    /\ SnapTypes(s)
    /\ \A j \in Jobs : /\ s.tomb[j] => j \in doomed
                       /\ s.status[j] = "succeeded" /\ ~s.quiet[j] => StemsKept(j)

RestartInv == TypeInv /\ DoomInv /\ MadeInv /\ SnapInv

\* A tombstone dooms its job.
Dooms == doomed \subseteq doomed' /\ \A j \in Jobs : tomb'[j] => j \in doomed'

LEMMA DoomHandlers ==
  ASSUME TypeInv, DoomInv, Next, Dooms
  PROVE  \A h \in Handlers : pc'[h] \in {"cancel_rq", "delete_record", "remove_files"} =>
             job'[h] \in doomed'
<1> USE DEF DoomInv, Dooms, TypeInv, TypeOK, ProcOK, StoreOK, Go
<1>1. CASE Frame BY <1>1 DEF Frame
<1>2. ASSUME NEW h \in Handlers, Request(h) \/ HandlerStep(h) \/ HandlerOutage(h) \/ CancelSwallowed(h),
             NEW g \in Handlers, pc'[g] \in {"cancel_rq", "delete_record", "remove_files"}
      PROVE  job'[g] \in doomed'
  <2>1. CASE Request(h)
    BY <1>2, <2>1 DEF Request, CreateBegin, GetStale, DeleteBegin, AfterSubmit, AfterDelete
  <2>2. CASE CreateSave(h) \/ CreateEnqueue(h) \/ CreateRespond(h)
    BY <1>2, <2>2 DEF CreateSave, CreateEnqueue, CreateRespond, AfterSubmit
  <2>3. CASE RequestCancel(h)
    <3>1. job[h] \in Jobs /\ job' = job BY <2>3 DEF RequestCancel, RestPCs
    <3>2. tomb'[job[h]] BY <2>3, <3>1 DEF RequestCancel
    <3>3. g # h => pc'[g] = pc[g] BY <2>3 DEF RequestCancel
    <3> QED BY <1>2, <3>1, <3>2, <3>3
  <2>4. CASE CancelRQ(h) \/ DeleteRecord(h) \/ RemoveFiles(h) \/ RemoveInbox(h)
    BY <1>2, <2>4, ZenonT(40) DEF CancelRQ, DeleteRecord, RemoveFiles, RemoveInbox, AfterDelete
  <2>5. CASE Settle(h) BY <1>2, <2>5, SettleMoves DEF Rest
  <2>6. CASE HandlerOutage(h) BY <1>2, <2>6 DEF HandlerOutage
  <2>7. CASE CancelSwallowed(h) BY <1>2, <2>7 DEF CancelSwallowed, AfterDelete
  <2> QED BY <1>2, <2>1, <2>2, <2>3, <2>4, <2>5, <2>6, <2>7 DEF HandlerStep
<1>3. CASE ApiCrash BY <1>3 DEF ApiCrash
<1>4. ASSUME NEW j \in Jobs, TombExpires(j) PROVE UNCHANGED control
  BY <1>4 DEF TombExpires
<1>5. CASE UNCHANGED control BY <1>5 DEF control
<1> QED BY <1>1, <1>2, <1>3, <1>4, <1>5, NextByActor

\* The run clears up only after it has met the tombstone.
LEMMA DoomCleanup ==
  ASSUME TypeInv, DoomInv, Next, Dooms
  PROVE  pc'[Worker] = "cleanup" => job'[Worker] \in doomed'
<1> USE DEF DoomInv, Dooms, TypeInv, TypeOK, ProcOK, StoreOK, Go
<1>1. CASE pc'[Worker] = pc[Worker] /\ job'[Worker] = job[Worker] BY <1>1
<1>2. ASSUME NEW h \in Handlers, Request(h) \/ HandlerStep(h), ~RemoveFiles(h)
      PROVE  pc'[Worker] = pc[Worker] /\ job'[Worker] = job[Worker]
  BY <1>2, StemsHandler DEF StemsFrame
<1>3. ASSUME NEW h \in Handlers, RemoveFiles(h)
      PROVE  pc'[Worker] = pc[Worker] /\ job'[Worker] = job[Worker]
  BY <1>3 DEF RemoveFiles
<1>4. CASE SweepFiles BY <1>1, <1>4 DEF SweepFiles
<1>5. CASE (ReaperStep \/ BooterStep) /\ ~SweepFiles /\ ~BootDone
  BY <1>1, <1>5, StemsServices DEF StemsFrame
<1>6. CASE BootDone BY <1>6 DEF BootDone
<1>7. CASE WorkerStep \/ FetchHeartbeat
  <2>1. CASE ProgressCheck
    <3>1. job[Worker] \in Jobs /\ job' = job /\ tomb' = tomb BY <2>1 DEF ProgressCheck, RestPCs
    <3>2. pc'[Worker] = "cleanup" => tomb[job[Worker]]
      BY <2>1 DEF ProgressCheck, IsCancelled
    <3> QED BY <3>1, <3>2
  <2>2. CASE Settle(Worker) BY <2>2, SettleMoves DEF Rest
  <2>3. CASE LoadRecord BY <2>3 DEF LoadRecord, RunEnds
  <2>4. CASE StartRun \/ ProgressSave \/ Decode BY <2>4 DEF StartRun, ProgressSave, Decode
  <2> QED BY <1>7, <2>1, <2>2, <2>3, <2>4
          DEF WorkerStep, Settle, Dequeue, FetchOpen, FetchHeartbeat, FetchEnds, FetchDone,
              FetchTooLarge, BodyRaises, MakeOutputDir, Stamp, CancelCleanup, Finish, RunEnds, control
<1>8. CASE Faults
  <2>1. CASE ~WorkerCrash /\ ~Timeout /\ ~TimeoutAtEnd /\ ~WorkerOutage
    BY <1>1, <1>8, <2>1, StemsFaults DEF StemsFrame
  <2>2. CASE WorkerCrash BY <2>2 DEF WorkerCrash
  <2>3. CASE Timeout BY <2>3 DEF Timeout, RunInterrupted
  <2>4. CASE TimeoutAtEnd BY <2>4 DEF TimeoutAtEnd, RunEnds
  <2>5. CASE WorkerOutage BY <2>5 DEF WorkerOutage, RunEnds, RunInterrupted
  <2> QED BY <2>1, <2>2, <2>3, <2>4, <2>5
<1>9. CASE TimePasses BY <1>1, <1>9, StemsTime DEF TimePasses, StemsFrame
<1>10. ASSUME NEW j \in Jobs, Redispatch(j) PROVE pc'[Worker] # "cleanup"
  BY <1>10 DEF Redispatch
<1> QED BY <1>1, <1>2, <1>3, <1>4, <1>5, <1>6, <1>7, <1>8, <1>9, <1>10 DEF Next, Steps

LEMMA DoomNext ==
  ASSUME TypeInv, DoomInv, Next, Dooms
  PROVE  DoomInv'
BY DoomHandlers, DoomCleanup DEF DoomInv, Dooms

\* A step that leaves the run and the outputs alone.
LEMMA MadeByFrame ==
  ASSUME TypeInv, MadeInv, StemsFrame, doomed \subseteq doomed'
  PROVE  MadeInv'
BY DEF TypeInv, TypeOK, ProcOK, MadeInv, StemsFrame, StemsKept, RestPCs, BodyPCs

\* The files go from under a record that does not say succeeded, or is due to
\* expire, or doomed.
LEMMA MadeRemoved ==
  ASSUME TypeInv, DoomInv, MadeInv, Dooms, SweepFiles \/ \E h \in Handlers : RemoveFiles(h)
  PROVE  MadeInv'
<1> USE DEF MadeInv, StemsKept, Dooms, TypeInv, TypeOK, StoreOK, ProcOK, RestPCs, BodyPCs, Go,
            records, disk, control, run
<1>1. CASE SweepFiles BY <1>1 DEF SweepFiles, SweepableOut, Executing
<1>2. ASSUME NEW h \in Handlers, RemoveFiles(h) PROVE MadeInv'
  <2>1. job[h] \in doomed BY <1>2 DEF RemoveFiles, DoomInv
  <2> QED BY <1>2, <2>1 DEF RemoveFiles
<1> QED BY <1>1, <1>2

\* The run reports what it has made.
LEMMA MadeWorker ==
  ASSUME TypeInv, DoomInv, MadeInv, Dooms, WorkerStep \/ FetchHeartbeat
  PROVE  MadeInv'
<1> USE DEF MadeInv, StemsKept, Dooms, TypeInv, TypeOK, StoreOK, ProcOK, RestPCs, BodyPCs, Go, Save,
            records, disk, control, run
<1>1. ASSUME NEW i \in Jobs, Dequeue(i) PROVE MadeInv' BY <1>1 DEF Dequeue
<1>2. CASE LoadRecord BY <1>2 DEF LoadRecord, RunEnds
<1>3. CASE StartRun BY <1>3 DEF StartRun
<1>4. CASE FetchOpen BY <1>4 DEF FetchOpen
<1>5. CASE FetchHeartbeat BY <1>5 DEF FetchHeartbeat
<1>6. CASE FetchDone BY <1>6 DEF FetchDone
<1>7. CASE FetchTooLarge BY <1>7 DEF FetchTooLarge
<1>8. CASE BodyRaises BY <1>8 DEF BodyRaises
<1>9. CASE MakeOutputDir BY <1>9 DEF MakeOutputDir
<1>10. CASE Decode BY <1>10 DEF Decode
<1>11. CASE ProgressCheck BY <1>11 DEF ProgressCheck
<1>12. CASE ProgressSave BY <1>12 DEF ProgressSave
<1>13. CASE Stamp BY <1>13 DEF Stamp
<1>14. CASE CancelCleanup BY <1>14 DEF CancelCleanup, DoomInv
<1>15. CASE Finish BY <1>15 DEF Finish, RunEnds
<1>16. CASE SettleCheck(Worker) BY <1>16 DEF SettleCheck, Leave, Rest
<1>17. CASE SettleSave(Worker) BY <1>17 DEF SettleSave, Outcome
<1>18. CASE Notify(Worker) BY <1>18 DEF Notify, Post, Leave, Rest
<1> QED BY <1>1, <1>2, <1>3, <1>4, <1>5, <1>6, <1>7, <1>8, <1>9, <1>10, <1>11, <1>12, <1>13,
           <1>14, <1>15, <1>16, <1>17, <1>18
        DEF WorkerStep, FetchEnds

\* A run that is interrupted, lost or begun anew has nothing to report yet.
LEMMA MadeInterrupted ==
  ASSUME TypeInv, MadeInv, Dooms,
         WorkerCrash \/ Timeout \/ TimeoutAtEnd \/ WorkerOutage \/ BootDone \/ \E j \in Jobs : Redispatch(j)
  PROVE  MadeInv'
<1> USE DEF MadeInv, StemsKept, Dooms, TypeInv, TypeOK, StoreOK, ProcOK, RestPCs, BodyPCs, Go, Save,
            records, disk, control, run
<1>1. CASE WorkerCrash BY <1>1 DEF WorkerCrash
<1>2. CASE Timeout BY <1>2 DEF Timeout, RunInterrupted
<1>3. CASE TimeoutAtEnd BY <1>3 DEF TimeoutAtEnd, RunEnds
<1>4. CASE WorkerOutage
  <2>1. UNCHANGED out BY <1>4 DEF WorkerOutage
  <2>2. \A j \in Jobs : status'[j] = "succeeded" /\ ~quiet'[j] => StemsKept(j)
    <3>1. CASE UNCHANGED records BY <3>1
    <3>2. CASE pc[Worker] \in {"loaded", "download", "report"} /\ Save(job[Worker], "running")
      BY <3>2
    <3>3. CASE pc[Worker] = "save" /\ Save(job[Worker], Outcome(Worker))
      BY <3>3 DEF Outcome
    <3>4. pc[Worker] # "create_save" BY DEF WorkerPCs, SettlePCs
    <3> QED BY <1>4, <3>1, <3>2, <3>3, <3>4 DEF WorkerOutage, MaybeWritten
  <2>3. CASE RunEnds BY <2>1, <2>2, <2>3 DEF RunEnds
  <2>4. CASE RunInterrupted BY <2>1, <2>2, <2>4 DEF RunInterrupted
  <2> QED BY <1>4, <2>3, <2>4 DEF WorkerOutage
<1>5. CASE BootDone BY <1>5 DEF BootDone
<1>6. ASSUME NEW j \in Jobs, Redispatch(j) PROVE MadeInv' BY <1>6 DEF Redispatch
<1> QED BY <1>1, <1>2, <1>3, <1>4, <1>5, <1>6

LEMMA MadeNext ==
  ASSUME TypeInv, DoomInv, MadeInv, Dooms, Next
  PROVE  MadeInv'
<1> USE DEF Dooms
<1>1. ASSUME NEW h \in Handlers, Request(h) \/ HandlerStep(h) PROVE MadeInv'
  BY <1>1, StemsHandler, MadeByFrame, MadeRemoved
<1>2. CASE ReaperStep \/ BooterStep
  BY <1>2, StemsServices, MadeByFrame, MadeRemoved, MadeInterrupted
<1>3. CASE WorkerStep \/ FetchHeartbeat BY <1>3, MadeWorker
<1>4. CASE Faults BY <1>4, StemsFaults, MadeByFrame, MadeInterrupted
<1>5. CASE TimePasses BY <1>5, StemsTime, MadeByFrame DEF TimePasses
<1>6. ASSUME NEW j \in Jobs, Redispatch(j) PROVE MadeInv' BY <1>6, MadeInterrupted
<1> QED BY <1>1, <1>2, <1>3, <1>4, <1>5, <1>6 DEF Next, Steps

\* Stems stay where a snapshot expects them: they go with a doomed job's, or
\* with an age limit, and then Redis has saved again.
LEMMA OutputsStay ==
  ASSUME TypeInv, DoomInv, Steps, Dooms, NEW j \in Jobs, StemsKept(j)
  PROVE  StemsKept(j)' \/ AgedFilesGo
<1> USE DEF StemsKept, Dooms, TypeInv, TypeOK, StoreOK, ProcOK, Go, records, disk, control, run
<1>1. CASE out'[j] = out[j] BY <1>1
<1>2. ASSUME NEW h \in Handlers, Request(h) \/ HandlerStep(h) PROVE StemsKept(j)'
  <2>1. CASE RemoveFiles(h)
    <3>1. job[h] \in doomed BY <2>1 DEF RemoveFiles, DoomInv
    <3> QED BY <2>1, <3>1 DEF RemoveFiles
  <2> QED BY <1>1, <1>2, <2>1, StemsHandler DEF StemsFrame
<1>3. CASE SweepFiles
  <2>1. pc[Reaper] = "scan" /\ pc'[Reaper] = "sleep" BY <1>3 DEF SweepFiles
  <2> QED BY <1>1, <2>1 DEF AgedFilesGo
<1>4. CASE BootDone BY <1>1, <1>4 DEF BootDone
<1>5. CASE (ReaperStep \/ BooterStep) /\ ~SweepFiles /\ ~BootDone
  BY <1>1, <1>5, StemsServices DEF StemsFrame
<1>6. CASE WorkerStep \/ FetchHeartbeat
  <2>1. CASE MakeOutputDir BY <2>1 DEF MakeOutputDir
  <2>2. CASE Decode BY <2>2 DEF Decode
  <2>3. CASE CancelCleanup BY <2>3 DEF CancelCleanup, DoomInv
  <2>4. CASE Settle(Worker) BY <1>1, <2>4, SettleMoves
  <2> QED BY <1>1, <1>6, <2>1, <2>2, <2>3, <2>4
          DEF WorkerStep, Settle, Dequeue, LoadRecord, StartRun, FetchOpen, FetchHeartbeat, FetchEnds,
              FetchDone, FetchTooLarge, BodyRaises, ProgressCheck, ProgressSave, Stamp, Finish
<1>7. CASE Faults
  <2>1. CASE ~WorkerCrash /\ ~Timeout /\ ~TimeoutAtEnd /\ ~WorkerOutage
    BY <1>1, <1>7, <2>1, StemsFaults DEF StemsFrame
  <2> QED BY <1>1, <1>7, <2>1 DEF WorkerCrash, Timeout, TimeoutAtEnd, WorkerOutage
<1>8. ASSUME NEW i \in Jobs, Redispatch(i) PROVE out' = out BY <1>8 DEF Redispatch
<1> QED BY <1>1, <1>2, <1>3, <1>4, <1>5, <1>6, <1>7, <1>8 DEF Steps

LEMMA RestartInvInit == RestartInit => RestartInv
<1> SUFFICES ASSUME RestartInit PROVE RestartInv
  OBVIOUS
<1>1. TypeInv BY TypeInit DEF RestartInit
<1>2. DoomInv BY DEF RestartInit, Init, DoomInv, Procs
<1>3. MadeInv BY DEF RestartInit, Init, MadeInv, BodyPCs, Procs
<1>4. SnapInv BY DEF RestartInit, SnapInv
<1> QED BY <1>1, <1>2, <1>3, <1>4 DEF RestartInv

LEMMA RestartInvNext == RestartInv /\ [RestartNext]_restartVars => RestartInv'
<1> SUFFICES ASSUME RestartInv, [RestartNext]_restartVars PROVE RestartInv'
  OBVIOUS
<1> USE DEF RestartInv
<1>1. CASE Steps /\ rdb' = (IF AgedFilesGo THEN {} ELSE rdb) /\ doomed' = doomed \union {j \in Jobs : tomb'[j]}
  <2>1. Next BY <1>1 DEF Next
  <2>2. Dooms BY <1>1 DEF Dooms
  <2>3. TypeInv' BY <2>1, TypeNext
  <2>4. DoomInv' BY <2>1, <2>2, DoomNext
  <2>5. MadeInv' BY <2>1, <2>2, MadeNext
  <2>6. SnapInv'
    <3>1. CASE AgedFilesGo BY <1>1, <3>1 DEF SnapInv
    <3>2. CASE ~AgedFilesGo
      <4>1. \A j \in Jobs : StemsKept(j) => StemsKept(j)' BY <1>1, <2>2, <3>2, OutputsStay
      <4>2. rdb' = rdb /\ doomed \subseteq doomed' BY <1>1, <3>2
      <4> QED BY <4>1, <4>2 DEF SnapInv, SnapTypes
    <3> QED BY <3>1, <3>2
  <2> QED BY <2>3, <2>4, <2>5, <2>6
<1>2. CASE TimePasses /\ rdb' = {} /\ doomed' = doomed
  <2>1. Next BY <1>2 DEF Next
  <2>2. TypeInv' BY <2>1, TypeNext
  <2>3. tomb' \in [Jobs -> BOOLEAN] /\ \A j \in Jobs : tomb'[j] => tomb[j]
    BY <1>2 DEF TimePasses, GoesQuiet, Expire, TombExpires, TypeInv, TypeOK, StoreOK
  <2>4. Dooms BY <1>2, <2>3 DEF Dooms, DoomInv
  <2>5. DoomInv' BY <2>1, <2>4, DoomNext
  <2>6. MadeInv' BY <2>1, <2>4, MadeNext
  <2>7. SnapInv' BY <1>2 DEF SnapInv
  <2> QED BY <2>2, <2>5, <2>6, <2>7
<1>3. CASE BackgroundSave \/ UNCHANGED restartVars
  <2> USE <1>3 DEF BackgroundSave, restartVars, vars, records, disk, control, lists, run, client, history
  <2>1. UNCHANGED <<vars, doomed>> BY DEF vars
  <2>2. TypeInv' BY <2>1, TypeNext
  <2>3. DoomInv' BY <2>1 DEF DoomInv
  <2>4. MadeInv' BY <2>1 DEF MadeInv, StemsKept
  <2>5. SnapInv'
    <3>1. rdb' \subseteq rdb \union {Keys} BY DEF BackgroundSave, restartVars
    <3>2. SnapTypes(Keys) BY DEF SnapTypes, Keys, TypeInv, TypeOK, StoreOK
    <3>3. \A j \in Jobs : /\ Keys.tomb[j] => j \in doomed
                          /\ Keys.status[j] = "succeeded" /\ ~Keys.quiet[j] => StemsKept(j)
      BY DEF Keys, DoomInv, MadeInv
    <3>4. UNCHANGED <<out, doomed>> BY <2>1 DEF vars, disk
    <3> QED BY <3>1, <3>2, <3>3, <3>4 DEF SnapInv, SnapTypes, StemsKept
  <2> QED BY <2>2, <2>3, <2>4, <2>5
<1>4. CASE Restart
  <2>1. PICK s \in rdb :
          /\ status' = s.status /\ quiet' = s.quiet /\ tomb' = s.tomb /\ entry' = s.entry
          /\ rdb' = {}
          /\ UNCHANGED <<disk, control, lists, run, client, posted, faults, history, doomed>>
    BY <1>4 DEF Restart
  <2>2. /\ SnapTypes(s)
        /\ \A j \in Jobs : /\ s.tomb[j] => j \in doomed
                           /\ s.status[j] = "succeeded" /\ ~s.quiet[j] => StemsKept(j)
    BY DEF SnapInv
  <2> USE <2>1, <2>2 DEF disk, control, lists, run, client, history, marks
  <2>3. TypeInv'
    <3>1. StoreOK' BY DEF SnapTypes, TypeInv, TypeOK, StoreOK
    <3>2. ProcOK' /\ RunOK' /\ ClientOK'
      BY DEF TypeInv, TypeOK, ProcOK, RunOK, ClientOK
    <3>3. BatchOK' /\ BootOK' BY DEF TypeInv, BatchOK, BootOK
    <3> QED BY <3>1, <3>2, <3>3 DEF TypeInv, TypeOK
  <2>4. DoomInv' BY DEF DoomInv
  <2>5. MadeInv' BY DEF MadeInv, StemsKept
  <2>6. SnapInv' BY DEF SnapInv
  <2> QED BY <2>3, <2>4, <2>5, <2>6
<1> QED BY <1>1, <1>2, <1>3, <1>4 DEF RestartNext

\* A Redis that forgets brings back no succeeded record without its stems, but
\* of a job that some DELETE had planted a tombstone for (Restart; settle's
\* order of stems before record, reaper.sweep_artifacts), however often it
\* restarts and in every environment.
THEOREM RestartBringsBackStems == RestartSpec => []StemsUnlessDeleted
<1>1. RestartInv => StemsUnlessDeleted
  BY DEF RestartInv, MadeInv, StemsKept, StemsUnlessDeleted
<1> QED BY RestartInvInit, RestartInvNext, <1>1, PTL DEF RestartSpec
=============================================================================
