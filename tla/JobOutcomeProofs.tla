--------------------------- MODULE JobOutcomeProofs ---------------------------
(* What becomes of a job failed from outside its run (AbandonedIsFinal) and of  *)
(* its input (InputGoneAfterRun), in every environment; what webhooks tell      *)
(* (NoContradictoryCallbacks, PostedOnce), where no live run is silent and RQ   *)
(* hands no entry out twice; and that the service implements JobContract where  *)
(* processes die and backlogs grow, but nobody deletes.                         *)
EXTENDS JobRecordProofs

USE ProcsAssumption, JobsAssumption, ParametersAssumption
    DEF Procs, ProcsAssumption, JobsAssumption, ParametersAssumption

CutByOutage(j) == <<j, "outage">> \in struck

\* RQ has nothing of j to hand out.
Dropped(j) == entry[j] \in {"none", "canceled"}

\* Until its enqueue, a saved job is its submitter's alone.
Alone(j) == \A h \in Handlers : job[h] = j /\ pc[h] = "create_enqueue" =>
    /\ status[j] = "queued" /\ Dropped(j) /\ j \notin toAbandon
    /\ \A p \in Procs \ {h} : job[p] # j

\* Who fails j from outside has dropped its entry first.
DropInv(j) == \A p \in Procs \ {Worker} :
    job[p] = j /\ pc[p] \in {"check", "save"} => Dropped(j) \/ CutByOutage(j)

Over(j) == /\ Dropped(j) /\ ~Executing(j) /\ status[j] \in {"failed", "none"}
           /\ ~Unsaved(j) /\ ~Creating(j)

OverInv(j) == j \in abandoned => Over(j) \/ CutByOutage(j)

Ended(j) == Alone(j) /\ DropInv(j) /\ OverInv(j)
EndedInv == \A j \in Jobs : Ended(j)

-----------------------------------------------------------------------------
LEMMA EndedSettle ==
  ASSUME TypeInv, NEW j \in Jobs, Sole(j), Ended(j), NEW p \in Procs, Settle(p)
  PROVE  Ended(j)'
<1> USE DEF TypeInv, TypeOK, ProcOK, StoreOK, RunOK, Go, Save, Leave, Rest, Executing,
            Ended, Alone, DropInv, OverInv, Over, Dropped, CutByOutage, Unsaved, Creating,
            records, control, lists, run, client, history, marks
<1>1. CASE Repudiate(p) BY <1>1 DEF Repudiate, CancelledEntry, WorkerPCs, SettlePCs
<1>2. CASE SettleCheck(p) BY <1>2 DEF SettleCheck
<1>3. CASE SettleSave(p)
  <2>1. Alone(j)' BY <1>3 DEF SettleSave
  <2>2. DropInv(j)' BY <1>3 DEF SettleSave
  <2>3. OverInv(j)'
    <3>1. CASE job[p] # j BY <1>3, <3>1 DEF SettleSave
    <3>2. CASE job[p] = j /\ p = Worker BY <1>3, <3>2 DEF SettleSave
    <3>3. CASE job[p] = j /\ p # Worker
      <4>1. ~Unsaved(j) /\ ~Creating(j) BY <1>3, <3>3 DEF SettleSave, Sole, Fresh
      <4>2. status'[j] = "failed" BY <1>3, <3>3 DEF SettleSave, Outcome
      <4> QED BY <1>3, <3>3, <4>1, <4>2 DEF SettleSave
    <3> QED BY <3>1, <3>2, <3>3
  <2> QED BY <2>1, <2>2, <2>3
<1>4. CASE Notify(p) BY <1>4 DEF Notify
<1> QED BY <1>1, <1>2, <1>3, <1>4 DEF Settle

LEMMA EndedHandler ==
  ASSUME TypeInv, SubmitInv, NEW j \in Jobs, Sole(j), Ended(j), NEW h \in Handlers,
         Request(h) \/ HandlerStep(h)
  PROVE  Ended(j)'
<1> USE DEF TypeInv, TypeOK, ProcOK, StoreOK, RunOK, Go, Save, Erase, Executing,
            Ended, Alone, DropInv, OverInv, Over, Dropped, CutByOutage, Unsaved, Creating,
            AfterSubmit, AfterDelete, CreatePCs,
            records, control, lists, run, client, history, marks
<1>1. ASSUME NEW i \in Jobs, NEW s \in Sources, CreateBegin(h, i, s) PROVE Ended(j)'
  <2>1. i = j => \A p \in Procs : job[p] # j BY <1>1 DEF CreateBegin, SubmitInv, Sole, Fresh
  <2> QED BY <1>1, <2>1 DEF CreateBegin
<1>2. ASSUME NEW i \in Jobs, GetStale(h, i) PROVE Ended(j)' BY <1>2 DEF GetStale, SubmitInv
<1>3. ASSUME NEW i \in Jobs, DeleteBegin(h, i) PROVE Ended(j)' BY <1>3 DEF DeleteBegin, SubmitInv
<1>4. CASE CreateSave(h)
  <2>1. CASE job[h] = j
    <3>1. j \notin abandoned \/ CutByOutage(j) BY <1>4, <2>1 DEF CreateSave
    <3>2. \A p \in Procs \ {h} : job[p] # j
      BY <1>4, <2>1 DEF CreateSave, Sole, Fresh, SubmitInv
    <3>3. j \notin toAbandon /\ entry[j] = "none" BY <1>4, <2>1 DEF CreateSave, Sole, Fresh
    <3> QED BY <1>4, <2>1, <3>1, <3>2, <3>3 DEF CreateSave
  <2>2. CASE job[h] # j BY <1>4, <2>2 DEF CreateSave
  <2> QED BY <2>1, <2>2
<1>5. CASE CreateEnqueue(h) BY <1>5 DEF CreateEnqueue
<1>6. CASE CreateRespond(h) BY <1>6 DEF CreateRespond
<1>7. CASE RequestCancel(h) \/ RemoveFiles(h) \/ RemoveInbox(h)
  BY <1>7 DEF RequestCancel, RemoveFiles, RemoveInbox
<1>8. CASE CancelRQ(h) BY <1>8 DEF CancelRQ, CancelledEntry
<1>9. CASE DeleteRecord(h) BY <1>9 DEF DeleteRecord
<1> QED BY <1>1, <1>2, <1>3, <1>4, <1>5, <1>6, <1>7, <1>8, <1>9, EndedSettle
        DEF Request, HandlerStep

LEMMA EndedServices ==
  ASSUME TypeInv, NEW j \in Jobs, Sole(j), Ended(j),
         ReaperStep \/ BooterStep \/ TimePasses \/ \E i \in Jobs : Redispatch(i)
  PROVE  Ended(j)'
<1> USE DEF TypeInv, TypeOK, ProcOK, StoreOK, RunOK, Go, Erase, Executing, RestPCs,
            Ended, Alone, DropInv, OverInv, Over, Dropped, CutByOutage, Unsaved, Creating,
            records, control, lists, run, client, history, marks
<1>1. CASE SweepBegin \/ SweepFiles BY <1>1 DEF SweepBegin, SweepFiles
<1>2. ASSUME NEW i \in Jobs, SweepOne(i) PROVE Ended(j)' BY <1>2 DEF SweepOne, IsStale
<1>3. CASE Boot BY <1>3 DEF Boot, BootOrphans
<1>4. CASE BootDone BY <1>4 DEF BootDone, BootOK
<1>5. ASSUME NEW i \in Jobs, BootOne(i) PROVE Ended(j)' BY <1>5 DEF BootOne
<1>6. ASSUME NEW i \in Jobs, GoesQuiet(i) \/ TombExpires(i) PROVE Ended(j)'
  BY <1>6 DEF GoesQuiet, TombExpires
<1>7. ASSUME NEW i \in Jobs, Expire(i) PROVE Ended(j)' BY <1>7 DEF Expire, InFlight
<1>8. ASSUME NEW i \in Jobs, Redispatch(i) PROVE Ended(j)' BY <1>8 DEF Redispatch
<1> QED BY <1>1, <1>2, <1>3, <1>4, <1>5, <1>6, <1>7, <1>8, EndedSettle
        DEF ReaperStep, BooterStep, TimePasses

LEMMA EndedWorker ==
  ASSUME TypeInv, NEW j \in Jobs, Sole(j), Ended(j), WorkerStep \/ FetchHeartbeat
  PROVE  Ended(j)'
<1> USE DEF TypeInv, TypeOK, ProcOK, StoreOK, RunOK, Go, Save, RunEnds, Executing, RestPCs, BodyPCs,
            Ended, Alone, DropInv, OverInv, Over, Dropped, CutByOutage, Unsaved, Creating,
            records, control, lists, run, client, history, marks
<1>1. ASSUME NEW i \in Jobs, Dequeue(i) PROVE Ended(j)' BY <1>1 DEF Dequeue
<1>2. CASE LoadRecord \/ Finish BY <1>2 DEF LoadRecord, Finish
<1>3. CASE StartRun \/ ProgressSave \/ FetchHeartbeat
  BY <1>3 DEF StartRun, ProgressSave, FetchHeartbeat
<1>4. CASE FetchOpen \/ FetchEnds \/ BodyRaises
  BY <1>4 DEF FetchOpen, FetchEnds, FetchDone, FetchTooLarge, BodyRaises
<1>5. CASE MakeOutputDir \/ Decode \/ ProgressCheck \/ Stamp \/ CancelCleanup
  BY <1>5 DEF MakeOutputDir, Decode, ProgressCheck, Stamp, CancelCleanup
<1> QED BY <1>1, <1>2, <1>3, <1>4, <1>5, EndedSettle DEF WorkerStep, Settle

LEMMA EndedFaults ==
  ASSUME TypeInv, SubmitInv, NEW j \in Jobs, Sole(j), Ended(j), Faults
  PROVE  Ended(j)'
<1> USE DEF TypeInv, TypeOK, ProcOK, StoreOK, RunOK, Go, Save, Executing, RestPCs, BodyPCs,
            Ended, Alone, DropInv, OverInv, Over, Dropped, CutByOutage, Unsaved, Creating,
            records, control, lists, run, client, history, marks
<1>1. CASE WorkerCrash \/ ApiCrash \/ ReaperCrash
  BY <1>1 DEF WorkerCrash, ApiCrash, ReaperCrash, ReaperStops, Fault
<1>2. CASE Timeout \/ TimeoutAtEnd
  BY <1>2 DEF Timeout, TimeoutAtEnd, RunInterrupted, RunEnds, Fault
<1>3. ASSUME NEW p \in Procs, Fault("outage", {p}), MaybeWritten(p) \/ UNCHANGED records,
             job[p] # j => UNCHANGED entry[j],
             job[p] = j => \/ entry'[j] = entry[j]
                           \/ Dropped(j)',
             toAbandon' \subseteq toAbandon, UNCHANGED <<source, abandoned>>,
             pc[p] = "create_save" => p \in Handlers,
             pc[p] \in RestPCs => UNCHANGED records,
             job'[p] \in {job[p], NoJob}, pc'[p] # "create_enqueue", pc'[p] # "create_save",
             \A q \in Procs \ {p} : pc'[q] = pc[q] /\ job'[q] = job[q]
      PROVE  Ended(j)'
  <2>1. struck \subseteq struck' /\ (job[p] = j => <<j, "outage">> \in struck') BY <1>3 DEF Fault
  <2>2. CASE job[p] = j
    <3>1. CutByOutage(j)' BY <2>1, <2>2
    <3>2. Alone(j)' BY <1>3, <2>2
    <3> QED BY <3>1, <3>2
  <2>3. CASE job[p] # j
    <3>1. status'[j] = status[j] BY <1>3, <2>3 DEF MaybeWritten
    <3> QED BY <1>3, <2>1, <2>3, <3>1
  <2> QED BY <2>2, <2>3
<1>4. ASSUME NEW h \in Handlers, HandlerOutage(h) PROVE Ended(j)'
  <2>1. pc[h] \notin RestPCs BY <1>4 DEF HandlerOutage, CreatePCs
  <2>2. /\ Fault("outage", {h}) /\ MaybeWritten(h)
        /\ UNCHANGED <<entry, toAbandon, source, abandoned>>
        /\ job'[h] = NoJob /\ pc'[h] = "idle"
        /\ \A q \in Procs \ {h} : pc'[q] = pc[q] /\ job'[q] = job[q]
    BY <1>4 DEF HandlerOutage
  <2> QED BY <1>3, <2>1, <2>2
<1>5. CASE ReaperOutage
  <2>1. pc[Reaper] = "scan" => UNCHANGED records BY <1>5 DEF ReaperOutage, MaybeWritten
  <2> QED BY <1>3, <1>5, <2>1 DEF ReaperOutage, ReaperStops
<1>6. CASE BooterOutage BY <1>3, <1>6 DEF BooterOutage
<1>7. CASE WorkerOutage
  BY <1>3, <1>7 DEF WorkerOutage, RunEnds, RunInterrupted
<1>8. ASSUME NEW p \in Procs, CancelSwallowed(p) PROVE Ended(j)'
  BY <1>3, <1>8 DEF CancelSwallowed, AfterDelete
<1> QED BY <1>1, <1>2, <1>4, <1>5, <1>6, <1>7, <1>8 DEF Faults

LEMMA EndedNext ==
  ASSUME TypeInv, SubmitInv, SoleInv, EndedInv, [Next]_vars
  PROVE  EndedInv'
<1> SUFFICES ASSUME NEW j \in Jobs, Sole(j), Ended(j) PROVE Ended(j)'
  BY DEF SoleInv, EndedInv
<1>1. CASE UNCHANGED vars
  BY <1>1 DEF vars, Ended, Alone, DropInv, OverInv, Over, Dropped, CutByOutage, Unsaved, Creating,
              Executing, records, control, lists, client, history, marks
<1>2. ASSUME NEW h \in Handlers, Request(h) \/ HandlerStep(h) PROVE Ended(j)'
  BY <1>2, EndedHandler
<1> QED BY <1>1, <1>2, EndedServices, EndedWorker, EndedFaults DEF Next, Steps

LEMMA EndedInit == Init => EndedInv
<1> SUFFICES ASSUME Init, NEW j \in Jobs PROVE Ended(j)
  BY DEF EndedInv
<1>1. \A p \in Procs : job[p] = NoJob BY DEF Init
<1>2. abandoned = {} BY DEF Init
<1> QED BY <1>1, <1>2 DEF Ended, Alone, DropInv, OverInv

\* A job failed from outside its run stays failed in every environment, although
\* RQ may hand out again what a dead worker had started: abandon_job drops the
\* entry first, and only a Redis error that _cancel_rq_job swallows leaves it.
THEOREM AbandonedStaysFailed == Spec => []AbandonedIsFinal
<1>1. Init => SoleInv /\ EndedInv BY ReachInit, EndedInit DEF ReachInv
<1>2. TypeInv /\ SubmitInv /\ SoleInv /\ EndedInv /\ [Next]_vars => SoleInv' /\ EndedInv'
  BY SoleNext, EndedNext
<1>3. TypeInv /\ EndedInv => AbandonedIsFinal
  BY DEF EndedInv, Ended, OverInv, Over, CutByOutage, AbandonedIsFinal, TypeInv, TypeOK, ClientOK
<1>4. IInv => TypeInv /\ SubmitInv BY DEF IInv
<1> QED BY <1>1, <1>2, <1>3, <1>4, Invariant, PTL DEF Spec

-----------------------------------------------------------------------------
(* What clients have been told.                                              *)

Hurried(j) == <<j, "timeout">> \in struck

\* No run of j is under way but for its finally block, and none will be.
Done(j) ==
    /\ entry[j] # "queued" /\ ~Unsaved(j) /\ ~Creating(j)
    /\ Executing(j) => pc[Worker] = "finally"

Settling(j) == j \in toAbandon \/ \E p \in Procs \ {Worker} : job[p] = j /\ pc[p] \in SettlePCs

\* It has ended well, and nobody means to fail it.
Succeeded(j) == Done(j) /\ status[j] \in {"succeeded", "none"} /\ ~Settling(j)

Told(j) ==
    /\ Executing(j) /\ pc[Worker] = "notify" => status[j] \in {outcome, "none"}
    /\ Hurried(j) \/ /\ posted[j]["failed"] > 0 => Done(j) /\ posted[j]["succeeded"] = 0
                     /\ posted[j]["succeeded"] > 0 => Succeeded(j)

ToldInv == \A j \in Jobs : Told(j)

LEMMA DoneStays ==
  ASSUME TypeInv, SubmitInv, Orderly, NEW j \in Jobs, Done(j), [Next]_vars
  PROVE  Done(j)'
<1> USE DEF Done, Unsaved, Creating, Executing, TypeInv, TypeOK, ProcOK, StoreOK, RunOK, RestPCs,
            Go, records, control, lists, run, client
<1>1. CASE UNCHANGED vars BY <1>1 DEF vars
<1>2. ASSUME NEW p \in Procs, Settle(p) PROVE Done(j)'
  <2>1. CASE Repudiate(p) BY <2>1 DEF Repudiate, CancelledEntry
  <2>2. CASE SettleCheck(p) BY <2>2 DEF SettleCheck, Leave, Rest
  <2>3. CASE SettleSave(p) BY <2>3 DEF SettleSave
  <2>4. CASE Notify(p) BY <2>4 DEF Notify, Leave, Rest
  <2> QED BY <1>2, <2>1, <2>2, <2>3, <2>4 DEF Settle
<1>3. ASSUME NEW h \in Handlers, Request(h) PROVE Done(j)'
  <2>1. ASSUME NEW i \in Jobs, NEW s \in Sources, CreateBegin(h, i, s) PROVE Done(j)'
    <3>1. i # j BY <2>1 DEF CreateBegin
    <3> QED BY <2>1, <3>1 DEF CreateBegin
  <2>2. ASSUME NEW i \in Jobs, GetStale(h, i) \/ DeleteBegin(h, i) PROVE Done(j)'
    BY <2>2 DEF GetStale, DeleteBegin, AfterDelete
  <2> QED BY <1>3, <2>1, <2>2 DEF Request
<1>4. ASSUME NEW h \in Handlers, HandlerStep(h), ~Settle(h) PROVE Done(j)'
  <2> USE DEF AfterSubmit, AfterDelete
  <2>1. CASE CreateSave(h) \/ CreateEnqueue(h) \/ CreateRespond(h)
    BY <2>1 DEF CreateSave, CreateEnqueue, CreateRespond
  <2>2. CASE RequestCancel(h) \/ CancelRQ(h) \/ DeleteRecord(h) \/ RemoveFiles(h) \/ RemoveInbox(h)
    BY <2>2 DEF RequestCancel, CancelRQ, CancelledEntry, DeleteRecord, RemoveFiles, RemoveInbox
  <2> QED BY <1>4, <2>1, <2>2 DEF HandlerStep
<1>5. CASE ReaperStep \/ BooterStep
  <2>1. CASE SweepBegin \/ SweepFiles BY <2>1 DEF SweepBegin, SweepFiles
  <2>2. ASSUME NEW i \in Jobs, SweepOne(i) PROVE Done(j)' BY <2>2 DEF SweepOne
  <2>3. CASE Boot \/ BootDone BY <2>3 DEF Boot, BootDone, BootOK
  <2>4. ASSUME NEW i \in Jobs, BootOne(i) PROVE Done(j)' BY <2>4 DEF BootOne
  <2> QED BY <1>2, <1>5, <2>1, <2>2, <2>3, <2>4 DEF ReaperStep, BooterStep
<1>6. CASE WorkerStep \/ FetchHeartbeat
  <2>1. ASSUME NEW i \in Jobs, Dequeue(i) PROVE Done(j)' BY <2>1 DEF Dequeue
  <2>2. CASE LoadRecord \/ Finish BY <2>2 DEF LoadRecord, Finish, RunEnds
  <2>3. CASE StartRun \/ ProgressSave \/ FetchHeartbeat
    BY <2>3 DEF StartRun, ProgressSave, FetchHeartbeat
  <2>4. CASE FetchOpen \/ FetchEnds \/ BodyRaises \/ MakeOutputDir \/ Decode
    BY <2>4 DEF FetchOpen, FetchEnds, FetchDone, FetchTooLarge, BodyRaises, MakeOutputDir, Decode,
                BodyPCs
  <2>5. CASE ProgressCheck \/ Stamp \/ CancelCleanup
    BY <2>5 DEF ProgressCheck, Stamp, CancelCleanup
  <2> QED BY <1>2, <1>6, <2>1, <2>2, <2>3, <2>4, <2>5 DEF WorkerStep, Settle
<1>7. CASE Faults
  <2>1. CASE WorkerCrash \/ ApiCrash \/ ReaperCrash
    BY <2>1 DEF WorkerCrash, ApiCrash, ReaperCrash, ReaperStops
  <2>2. CASE Timeout \/ TimeoutAtEnd
    BY <2>2 DEF Timeout, TimeoutAtEnd, RunInterrupted, RunEnds, BodyPCs
  <2>3. ASSUME NEW h \in Handlers, HandlerOutage(h) PROVE Done(j)' BY <2>3 DEF HandlerOutage
  <2>4. CASE ReaperOutage \/ BooterOutage
    BY <2>4 DEF ReaperOutage, ReaperStops, BooterOutage
  <2>5. CASE WorkerOutage BY <2>5 DEF WorkerOutage, RunInterrupted, RunEnds
  <2>6. ASSUME NEW p \in Procs, CancelSwallowed(p) PROVE Done(j)'
    BY <2>6 DEF CancelSwallowed, AfterDelete
  <2> QED BY <1>7, <2>1, <2>2, <2>3, <2>4, <2>5, <2>6 DEF Faults
<1>8. CASE TimePasses \/ \E i \in Jobs : Redispatch(i)
  BY <1>8 DEF TimePasses, GoesQuiet, Expire, TombExpires, Redispatch, Orderly
<1> QED BY <1>1, <1>2, <1>3, <1>4, <1>5, <1>6, <1>7, <1>8 DEF Next, Steps

LEMMA SucceededStays ==
  ASSUME TypeInv, SubmitInv, Orderly, NEW j \in Jobs, Succeeded(j), [Next]_vars
  PROVE  Succeeded(j)'
<1>1. Done(j)' BY DoneStays DEF Succeeded
<1>2. ~Settling(j)'
  <2>1. ~Judged(j) BY DEF Succeeded, Settling, Judged
  <2> QED BY <2>1, JudgedBefore DEF Settling
<1>3. status'[j] \in {"succeeded", "none"}
  <2>1. \A p \in Procs : job[p] = j => ~Writes(p)
    BY DEF Succeeded, Done, Settling, Executing, Unsaved, Writes, SettlePCs
  <2> QED BY <2>1, OnlyHoldersWrite DEF WriteStep, Succeeded
<1> QED BY <1>1, <1>2, <1>3 DEF Succeeded

\* Where nothing is posted of j, what has been told of it stays right.
LEMMA ToldUnposted ==
  ASSUME TypeInv, SubmitInv, Orderly, NEW j \in Jobs, Told(j), [Next]_vars,
         posted'[j] = posted[j], Hurried(j) => Hurried(j)',
         Executing(j)' /\ pc'[Worker] = "notify" => status'[j] \in {outcome', "none"}
  PROVE  Told(j)'
BY DoneStays, SucceededStays DEF Told

\* Only settling is announced, and by who has the job in hand.
LEMMA ToldNotify ==
  ASSUME TypeInv, SubmitInv, Orderly, NEW j \in Jobs, Sole(j), Owned(j), Told(j),
         NEW p \in Procs, Notify(p), Next
  PROVE  Told(j)'
<1> USE DEF TypeInv, TypeOK, ProcOK, RunOK, ClientOK, Leave, Rest, Go, Post, Terminal,
            records, lists, run, history, marks
<1>1. CASE job[p] # j
  BY <1>1, ToldUnposted DEF Notify, Told, Hurried, Executing
<1>2. CASE job[p] = j /\ p # Worker
  <2>1. Judged(j) BY <1>2 DEF Notify, Judged, SettlePCs
  <2>2. Lost(j) /\ ~Creating(j) /\ ~Unsaved(j)
    BY <1>2, <2>1, JudgedIsLost DEF Notify, Sole, Fresh
  <2>3. Done(j) BY <2>2 DEF Done, Lost
  <2>4. Done(j)' BY <2>3, DoneStays
  <2>5. Settling(j) BY <1>2 DEF Notify, Settling, SettlePCs
  <2>6. posted'[j]["succeeded"] = posted[j]["succeeded"] BY <1>2 DEF Notify, Outcome
  <2> QED BY <1>2, <2>2, <2>4, <2>5, <2>6, DoneStays
        DEF Notify, Told, Succeeded, Hurried, Lost, Executing
<1>3. CASE job[p] = j /\ p = Worker
  <2>1. ~Done(j) BY <1>3 DEF Notify, Done, Executing
  <2>2. Hurried(j) \/ (posted[j]["failed"] = 0 /\ posted[j]["succeeded"] = 0)
    BY <2>1 DEF Told, Succeeded
  <2>3. Done(j)' /\ ~Settling(j)'
    <3>1. entry[j] # "queued" /\ ~Settling(j)
      BY <1>3 DEF Owned, RunInv, LostInv, Lost, Executing, Settling
    <3>2. ~Unsaved(j) /\ ~Creating(j)
      BY <1>3 DEF Sole, Fresh, Owned, QueueInv, Creating, Unsaved
    <3> QED BY <1>3, <3>1, <3>2 DEF Notify, Done, Settling, Unsaved, Creating, Executing, client
  <2>4. status'[j] \in {outcome, "none"} BY <1>3 DEF Told, Notify, Executing
  <2>5. \A o \in Terminal \ {outcome} : posted'[j][o] = posted[j][o]
    BY <1>3 DEF Notify, Outcome
  <2> QED BY <1>3, <2>2, <2>3, <2>4, <2>5 DEF Notify, Told, Succeeded, Hurried
<1> QED BY <1>1, <1>2, <1>3

\* Nothing is posted, no fault is forgotten, and the run is not newly at its webhook.
Calm ==
    /\ UNCHANGED posted /\ struck \subseteq struck'
    /\ pc'[Worker] = "notify" =>
           pc[Worker] = "notify" /\ job'[Worker] = job[Worker] /\ outcome' = outcome

LEMMA CalmNext ==
  ASSUME TypeInv, [Next]_vars
  PROVE  Calm \/ SettleSave(Worker) \/ Timeout \/ \E p \in Procs : Notify(p)
<1> USE DEF Calm, TypeInv, TypeOK, ProcOK, Go, lists, run, control, history, marks
<1>1. CASE UNCHANGED vars BY <1>1 DEF vars
<1>2. ASSUME NEW p \in Procs, Settle(p)
      PROVE  Calm \/ (SettleSave(p) /\ p = Worker) \/ Notify(p)
  <2>1. CASE Repudiate(p) BY <2>1 DEF Repudiate
  <2>2. CASE SettleCheck(p) BY <2>2 DEF SettleCheck, Leave, Rest
  <2>3. CASE SettleSave(p) BY <2>3 DEF SettleSave
  <2> QED BY <1>2, <2>1, <2>2, <2>3 DEF Settle
<1>3. ASSUME NEW h \in Handlers, Request(h) PROVE Calm
  BY <1>3 DEF Request, CreateBegin, GetStale, DeleteBegin
<1>4. ASSUME NEW h \in Handlers, HandlerStep(h), ~Settle(h) PROVE Calm
  <2>1. CASE CreateSave(h) \/ CreateEnqueue(h) \/ CreateRespond(h)
    BY <2>1 DEF CreateSave, CreateEnqueue, CreateRespond
  <2>2. CASE RequestCancel(h) \/ CancelRQ(h) \/ DeleteRecord(h) \/ RemoveFiles(h) \/ RemoveInbox(h)
    BY <2>2 DEF RequestCancel, CancelRQ, DeleteRecord, RemoveFiles, RemoveInbox
  <2> QED BY <1>4, <2>1, <2>2 DEF HandlerStep
<1>5. CASE ReaperStep \/ BooterStep
  <2>1. CASE SweepBegin \/ SweepFiles BY <2>1 DEF SweepBegin, SweepFiles
  <2>2. ASSUME NEW i \in Jobs, SweepOne(i) \/ BootOne(i) PROVE Calm
    BY <2>2 DEF SweepOne, BootOne
  <2>3. CASE Boot \/ BootDone BY <2>3 DEF Boot, BootDone
  <2> QED BY <1>2, <1>5, <2>1, <2>2, <2>3 DEF ReaperStep, BooterStep
<1>6. CASE WorkerStep \/ FetchHeartbeat
  <2>1. ASSUME NEW i \in Jobs, Dequeue(i) PROVE Calm BY <2>1 DEF Dequeue
  <2>2. CASE LoadRecord \/ Finish BY <2>2 DEF LoadRecord, Finish, RunEnds
  <2>3. CASE StartRun \/ ProgressSave \/ FetchHeartbeat
    BY <2>3 DEF StartRun, ProgressSave, FetchHeartbeat
  <2>4. CASE FetchOpen \/ FetchEnds \/ BodyRaises \/ MakeOutputDir \/ Decode
    BY <2>4 DEF FetchOpen, FetchEnds, FetchDone, FetchTooLarge, BodyRaises, MakeOutputDir, Decode
  <2>5. CASE ProgressCheck \/ Stamp \/ CancelCleanup
    BY <2>5 DEF ProgressCheck, Stamp, CancelCleanup
  <2> QED BY <1>2, <1>6, <2>1, <2>2, <2>3, <2>4, <2>5 DEF WorkerStep, Settle
<1>7. CASE Faults /\ ~Timeout
  <2> USE DEF Fault
  <2>1. CASE WorkerCrash \/ ApiCrash \/ ReaperCrash
    BY <2>1 DEF WorkerCrash, ApiCrash, ReaperCrash, ReaperStops
  <2>2. CASE TimeoutAtEnd BY <2>2 DEF TimeoutAtEnd, RunEnds
  <2>3. ASSUME NEW h \in Handlers, HandlerOutage(h) PROVE Calm BY <2>3 DEF HandlerOutage
  <2>4. CASE ReaperOutage \/ BooterOutage
    BY <2>4 DEF ReaperOutage, ReaperStops, BooterOutage
  <2>5. CASE WorkerOutage BY <2>5 DEF WorkerOutage, RunInterrupted, RunEnds
  <2>6. ASSUME NEW p \in Procs, CancelSwallowed(p) PROVE Calm
    BY <2>6 DEF CancelSwallowed, AfterDelete
  <2> QED BY <1>7, <2>1, <2>2, <2>3, <2>4, <2>5, <2>6 DEF Faults
<1>8. CASE TimePasses \/ \E i \in Jobs : Redispatch(i)
  BY <1>8 DEF TimePasses, GoesQuiet, Expire, TombExpires, Redispatch
<1> QED BY <1>1, <1>2, <1>3, <1>4, <1>5, <1>6, <1>7, <1>8 DEF Next, Steps

LEMMA ToldNext ==
  ASSUME TypeInv, SubmitInv, Orderly, SoleInv, OwnedInv, ToldInv, [Next]_vars
  PROVE  ToldInv'
<1> SUFFICES ASSUME NEW j \in Jobs, Sole(j), Owned(j), Told(j) PROVE Told(j)'
  BY DEF SoleInv, OwnedInv, ToldInv
<1>1. CASE Calm
  <2>1. ASSUME job[Worker] = j, pc[Worker] = "notify"
        PROVE  status'[j] \in {status[j], "none"}
    <3>1. ASSUME NEW p \in Procs, job[p] = j, Writes(p) PROVE FALSE
      <4>1. pc[p] # "create_save" \/ p \notin Handlers BY <2>1, <3>1 DEF Sole, Fresh, Unsaved
      <4>2. p # Worker BY <2>1, <3>1 DEF Writes
      <4>3. pc[p] = "save" BY <3>1, <4>1, <4>2 DEF Writes
      <4> QED BY <2>1, <3>1, <4>2, <4>3 DEF Owned, LostInv, Lost, Executing, SettlePCs
    <3> QED BY <3>1, OnlyHoldersWrite DEF WriteStep
  <2>2. Executing(j)' /\ pc'[Worker] = "notify" => status'[j] \in {outcome', "none"}
    BY <1>1, <2>1 DEF Calm, Told, Executing
  <2> QED BY <1>1, <2>2, ToldUnposted DEF Calm, Hurried
<1>2. CASE SettleSave(Worker)
  <2>1. Executing(j)' => status'[j] \in {outcome', "none"}
    BY <1>2 DEF SettleSave, Save, Outcome, Executing, run, TypeInv, TypeOK, StoreOK
  <2> QED BY <1>2, <2>1, ToldUnposted DEF SettleSave, Hurried
<1>3. CASE Timeout
  <2>1. struck \subseteq struck' /\ (job[Worker] = j => <<j, "timeout">> \in struck')
    BY <1>3 DEF Timeout, Fault, TypeInv, TypeOK, ProcOK
  <2>2. pc'[Worker] # "notify"
    BY <1>3 DEF Timeout, RunInterrupted, Go, TypeInv, TypeOK, ProcOK
  <2>3. job[Worker] # j => posted'[j] = posted[j]
    BY <1>3 DEF Timeout, Post, TypeInv, TypeOK, ClientOK
  <2> QED BY <2>1, <2>2, <2>3, ToldUnposted DEF Told, Hurried
<1>4. ASSUME NEW p \in Procs, Notify(p) PROVE Told(j)'
  <2>1. Next \/ UNCHANGED vars OBVIOUS
  <2>2. CASE Next BY <1>4, <2>2, ToldNotify
  <2>3. CASE UNCHANGED vars
    <3>1. FALSE BY <1>4, <2>3
          DEF vars, Notify, Leave, Rest, Go, control, TypeInv, TypeOK, ProcOK
    <3> QED BY <3>1
  <2> QED BY <2>1, <2>2, <2>3
<1> QED BY <1>1, <1>2, <1>3, <1>4, CalmNext

LEMMA ToldInit == Init => ToldInv
<1> SUFFICES ASSUME Init, NEW j \in Jobs PROVE Told(j)
  BY DEF ToldInv
<1>1. ~Executing(j) BY DEF Init, Executing
<1>2. posted[j]["succeeded"] = 0 /\ posted[j]["failed"] = 0 BY DEF Init, Terminal
<1> QED BY <1>1, <1>2 DEF Told

\* Where no live run falls silent and RQ hands no entry out twice, no client is
\* told both outcomes of a job, however many settlers, crashes and outages there
\* are, unless RQ's timeout struck the run: who announces a failure has found the
\* run over and unsuccessful, and it stays so; who announces a success is the run,
\* and nobody else has the job in hand.
THEOREM CallbacksAgree == Orderly => (Spec => []NoContradictoryCallbacks)
<1> SUFFICES ASSUME Orderly PROVE Spec => []NoContradictoryCallbacks
  OBVIOUS
<1>1. Init => SoleInv /\ OwnedInv /\ ToldInv BY ReachInit, OwnedInit, ToldInit DEF ReachInv
<1>2. TypeInv /\ SubmitInv /\ SoleInv /\ OwnedInv /\ ToldInv /\ [Next]_vars
          => SoleInv' /\ OwnedInv' /\ ToldInv'
  BY SoleNext, OwnedNext, ToldNext
<1>3. TypeInv /\ ToldInv => NoContradictoryCallbacks
  <2> SUFFICES ASSUME TypeInv, NEW j \in Jobs, Told(j)
               PROVE  posted[j]["succeeded"] = 0 \/ posted[j]["failed"] = 0 \/ Hurried(j)
    BY DEF ToldInv, NoContradictoryCallbacks, Hurried
  <2>1. posted[j]["failed"] \in 0..2 BY DEF TypeInv, TypeOK, ClientOK, Terminal
  <2> QED BY <2>1 DEF Told
<1>4. IInv => TypeInv /\ SubmitInv BY DEF IInv
<1> QED BY <1>1, <1>2, <1>3, <1>4, Invariant, PTL DEF Spec

-----------------------------------------------------------------------------
(* What becomes of the input.                                                *)

\* The run has yet to make its first write.
Beginning == pc[Worker] \in {"popped", "loaded"}

\* No run of it has written the record yet, and nobody means to fail it.
Unrun(j) == status[j] \in {"queued", "none"} /\ ~Settling(j)

Unstarted(j) == entry[j] = "queued" \/ Creating(j) \/ (Executing(j) /\ Beginning)

\* Past the fetch, local_input names the file that finally will unlink.
NamesInput(j) == Executing(j) /\ ~Beginning =>
    /\ source[j] = "file" => localInput
    /\ pc[Worker] \in BodyPCs \ {"fetch", "download"} => localInput
    /\ outcome = "succeeded" \/ status[j] = "succeeded" => localInput

\* A job is run once, and an input nobody runs is yet to be run, or was fetched
\* by a run that failed.
RunOnce(j) ==
    /\ entry[j] = "started" => Executing(j)
    /\ Executing(j) => entry[j] # "queued"
    /\ Unstarted(j) => Unrun(j)
    /\ inbox[j] /\ ~Executing(j) => \/ source[j] = "url" /\ status[j] # "succeeded"
                                    \/ source[j] = "file" /\ Unrun(j)

Input(j) == NamesInput(j) /\ (Struck(j) \/ RunOnce(j))
InputInv == \A j \in Jobs : Input(j)

\* Somebody else than the run is about to fail j.
Failing(j) == \E p \in Procs \ {Worker} : job[p] = j /\ pc[p] = "save"

\* What a step does to j that is neither its submission nor its run's.
Steady(j) ==
    /\ \/ ~Executing(j) /\ ~Executing(j)'
       \/ job'[Worker] = job[Worker] /\ pc'[Worker] = pc[Worker] /\ UNCHANGED run
    /\ source'[j] = source[j]
    /\ entry'[j] \in {entry[j], "none", "canceled"}
    /\ inbox'[j] => inbox[j]
    /\ \/ status'[j] \in {status[j], "queued", "none"}
       \/ status'[j] = "failed" /\ Failing(j)
    /\ struck \subseteq struck'

LEMMA UnrunStays ==
  ASSUME TypeInv, NEW j \in Jobs, [Next]_vars, Unrun(j), status'[j] \in {"queued", "none"}
  PROVE  Unrun(j)'
<1>1. ~Judged(j) BY DEF Unrun, Settling, Judged
<1> QED BY <1>1, JudgedBefore DEF Unrun, Settling

LEMMA CreatingOnly ==
  ASSUME TypeInv, NEW j \in Jobs, [Next]_vars, source'[j] = source[j], Creating(j)'
  PROVE  Creating(j)
<1> USE DEF Creating, TypeInv, TypeOK, ProcOK, ClientOK, Go, Rest
<1>1. CASE Frame BY <1>1 DEF Frame
<1>2. ASSUME NEW h \in Handlers, Request(h) PROVE Creating(j)
  BY <1>2 DEF Request, CreateBegin, GetStale, DeleteBegin, AfterDelete, SourceKinds
<1>3. ASSUME NEW h \in Handlers, HandlerStep(h) PROVE Creating(j)
  <2> USE DEF AfterSubmit, AfterDelete
  <2>1. CASE CreateSave(h) BY <2>1 DEF CreateSave
  <2>2. CASE CreateEnqueue(h) \/ CreateRespond(h) BY <2>2 DEF CreateEnqueue, CreateRespond
  <2>3. CASE RequestCancel(h) \/ CancelRQ(h) BY <2>3 DEF RequestCancel, CancelRQ
  <2>4. CASE DeleteRecord(h) \/ RemoveFiles(h) \/ RemoveInbox(h)
    BY <2>4 DEF DeleteRecord, RemoveFiles, RemoveInbox
  <2>5. CASE Settle(h) BY <2>5, SettleMoves
  <2> QED BY <1>3, <2>1, <2>2, <2>3, <2>4, <2>5 DEF HandlerStep
<1>4. ASSUME NEW h \in Handlers, HandlerOutage(h) \/ CancelSwallowed(h) PROVE Creating(j)
  BY <1>4 DEF HandlerOutage, CancelSwallowed, AfterDelete
<1>5. CASE ApiCrash BY <1>5 DEF ApiCrash
<1>6. ASSUME NEW i \in Jobs, TombExpires(i) PROVE Creating(j) BY <1>6 DEF TombExpires, control
<1> QED BY <1>1, <1>2, <1>3, <1>4, <1>5, <1>6, NextByActor

LEMMA InputSteady ==
  ASSUME TypeInv, NEW j \in Jobs, Sole(j), [Next]_vars, Input(j), Steady(j)
  PROVE  Input(j)'
<1>1. NamesInput(j)'
  BY DEF Input, NamesInput, Steady, Executing, Beginning, run
<1>2. Struck(j) => Struck(j)' BY DEF Struck, Steady
<1>3. ASSUME RunOnce(j) PROVE RunOnce(j)'
  <2>1. Unrun(j) => Unrun(j)'
    <3>1. Failing(j) => Settling(j) BY DEF Failing, Settling, SettlePCs
    <3> QED BY <3>1, UnrunStays DEF Steady, Unrun
  <2>2. Executing(j)' <=> Executing(j) BY DEF Steady, Executing
  <2>3. Executing(j) => (Beginning' <=> Beginning) BY DEF Steady, Beginning
  <2>4. Creating(j)' => Creating(j) BY CreatingOnly DEF Steady
  <2>5. Unstarted(j)' => Unstarted(j)
    BY <2>2, <2>3, <2>4 DEF Unstarted, Steady
  <2>6. inbox'[j] /\ ~Executing(j)' =>
            \/ source'[j] = "url" /\ status'[j] # "succeeded"
            \/ source'[j] = "file" /\ Unrun(j)'
    BY <1>3, <2>1, <2>2 DEF RunOnce, Steady
  <2> QED BY <1>3, <2>1, <2>2, <2>5, <2>6 DEF RunOnce, Steady
<1> QED BY <1>1, <1>2, <1>3 DEF Input

LEMMA SteadySettle ==
  ASSUME TypeInv, NEW j \in Jobs, NEW p \in Procs \ {Worker}, Settle(p)
  PROVE  Steady(j)
<1> USE DEF TypeInv, TypeOK, ProcOK, StoreOK, RunOK, Go, Save, Leave, Executing, Steady,
            records, disk, control, lists, run, client, history, marks
<1>1. CASE Repudiate(p) BY <1>1 DEF Repudiate, CancelledEntry
<1>2. CASE SettleCheck(p) BY <1>2 DEF SettleCheck
<1>3. CASE SettleSave(p)
  <2>1. job[p] = j => Failing(j) BY <1>3 DEF SettleSave, Failing
  <2> QED BY <1>3, <2>1 DEF SettleSave, Outcome
<1>4. CASE Notify(p) BY <1>4 DEF Notify
<1> QED BY <1>1, <1>2, <1>3, <1>4 DEF Settle

LEMMA SteadyHandler ==
  ASSUME TypeInv, NEW j \in Jobs, NEW h \in Handlers, Request(h) \/ HandlerStep(h)
  PROVE  \/ Steady(j)
         \/ \E s \in Sources : CreateBegin(h, j, s)
         \/ CreateEnqueue(h) /\ job[h] = j
<1> USE DEF TypeInv, TypeOK, ProcOK, StoreOK, RunOK, Go, Save, Erase, Executing, Steady,
            AfterSubmit, AfterDelete,
            records, disk, control, lists, run, client, history, marks
<1>1. ASSUME NEW i \in Jobs, NEW s \in Sources, CreateBegin(h, i, s), i # j PROVE Steady(j)
  BY <1>1 DEF CreateBegin
<1>2. ASSUME NEW i \in Jobs, GetStale(h, i) \/ DeleteBegin(h, i) PROVE Steady(j)
  BY <1>2 DEF GetStale, DeleteBegin
<1>3. CASE CreateEnqueue(h) BY <1>3 DEF CreateEnqueue
<1>4. CASE CreateSave(h) BY <1>4 DEF CreateSave
<1>5. CASE CreateRespond(h) BY <1>5 DEF CreateRespond
<1>6. CASE RequestCancel(h) BY <1>6 DEF RequestCancel
<1>7. CASE CancelRQ(h) BY <1>7 DEF CancelRQ, CancelledEntry
<1>8. CASE DeleteRecord(h) BY <1>8 DEF DeleteRecord
<1>9. CASE RemoveFiles(h) \/ RemoveInbox(h) BY <1>9 DEF RemoveFiles, RemoveInbox
<1> QED BY <1>1, <1>2, <1>3, <1>4, <1>5, <1>6, <1>7, <1>8, <1>9, SteadySettle
        DEF Request, HandlerStep

LEMMA InputHandler ==
  ASSUME TypeInv, SubmitInv, NEW j \in Jobs, Sole(j), Ended(j), Input(j), NEW h \in Handlers,
         Request(h) \/ HandlerStep(h), Next
  PROVE  Input(j)'
<1> USE DEF TypeInv, TypeOK, ProcOK, StoreOK, Go, Executing, AfterSubmit,
            records, disk, lists, client, history
<1>1. ASSUME NEW s \in Sources, CreateBegin(h, j, s) PROVE Input(j)'
  <2>1. /\ status[j] = "none" /\ entry[j] = "none" /\ j \notin toAbandon
        /\ \A p \in Procs : job[p] # j
    BY <1>1 DEF CreateBegin, Sole, Fresh, Unsaved, SubmitInv, CreatePCs
  <2>2. Unrun(j)'
    <3>1. Unrun(j) BY <2>1 DEF Unrun, Settling
    <3> QED BY <1>1, <2>1, <3>1, UnrunStays DEF CreateBegin
  <2>3. ~Executing(j)' /\ entry'[j] = "none" /\ source'[j] = s /\ inbox'[j] = (s = "file")
    BY <1>1, <2>1 DEF CreateBegin, ClientOK
  <2>4. s \in {"file", "url"} /\ status'[j] = "none" BY <1>1, <2>1 DEF SourceKinds, CreateBegin
  <2> QED BY <2>2, <2>3, <2>4 DEF Input, NamesInput, RunOnce
<1>2. CASE CreateEnqueue(h) /\ job[h] = j
  <2>1. ~Executing(j) /\ ~Executing(j)' BY <1>2 DEF CreateEnqueue, Ended, Alone
  <2>2. Unstarted(j) BY <1>2 DEF Unstarted, Creating, CreateEnqueue
  <2>3. UNCHANGED <<status, source, inbox, struck>> BY <1>2 DEF CreateEnqueue
  <2>4. Unrun(j) => Unrun(j)' BY <2>3, UnrunStays DEF Unrun
  <2>5. entry'[j] = "queued" BY <1>2 DEF CreateEnqueue
  <2> QED BY <2>1, <2>2, <2>3, <2>4, <2>5 DEF Input, NamesInput, RunOnce, Struck
<1> QED BY <1>1, <1>2, SteadyHandler, InputSteady

LEMMA SteadyServices ==
  ASSUME TypeInv, NEW j \in Jobs, ReaperStep \/ BooterStep \/ TimePasses
  PROVE  Steady(j)
<1> USE DEF TypeInv, TypeOK, ProcOK, StoreOK, RunOK, Go, Erase, Executing, RestPCs, Steady,
            records, disk, control, lists, run, client, history, marks
<1>1. CASE SweepBegin \/ SweepFiles BY <1>1 DEF SweepBegin, SweepFiles
<1>2. ASSUME NEW i \in Jobs, SweepOne(i) PROVE Steady(j) BY <1>2 DEF SweepOne
<1>3. CASE Boot BY <1>3 DEF Boot
<1>4. CASE BootDone BY <1>4 DEF BootDone, BootOK
<1>5. ASSUME NEW i \in Jobs, BootOne(i) PROVE Steady(j) BY <1>5 DEF BootOne
<1>6. ASSUME NEW i \in Jobs, GoesQuiet(i) \/ TombExpires(i) PROVE Steady(j)
  BY <1>6 DEF GoesQuiet, TombExpires
<1>7. ASSUME NEW i \in Jobs, Expire(i) PROVE Steady(j) BY <1>7 DEF Expire
<1> QED BY <1>1, <1>2, <1>3, <1>4, <1>5, <1>6, <1>7, SteadySettle
        DEF ReaperStep, BooterStep, TimePasses

\* What the worker does while it has another job in hand, or none.
LEMMA SteadyWorker ==
  ASSUME TypeInv, NEW j \in Jobs, job[Worker] # j, job'[Worker] # j,
         WorkerStep \/ FetchHeartbeat \/ \E i \in Jobs : Redispatch(i)
  PROVE  Steady(j)
<1> USE DEF Steady, TypeInv, TypeOK, ProcOK, StoreOK, RunOK, ClientOK, Go, Save, Executing,
            RestPCs, BodyPCs, SettlePCs, records, disk, control, lists, run, client, history, marks
<1>1. ASSUME NEW i \in Jobs, Dequeue(i) \/ Redispatch(i) PROVE Steady(j)
  BY <1>1 DEF Dequeue, Redispatch
<1>2. CASE LoadRecord \/ Finish BY <1>2 DEF LoadRecord, Finish, RunEnds, InputAfterRun
<1>3. CASE StartRun \/ ProgressSave \/ FetchHeartbeat
  BY <1>3 DEF StartRun, ProgressSave, FetchHeartbeat
<1>4. CASE FetchOpen \/ FetchEnds \/ BodyRaises
  BY <1>4 DEF FetchOpen, FetchEnds, FetchDone, FetchTooLarge, BodyRaises
<1>5. CASE MakeOutputDir \/ Decode \/ ProgressCheck \/ Stamp \/ CancelCleanup
  BY <1>5 DEF MakeOutputDir, Decode, ProgressCheck, Stamp, CancelCleanup
<1>6. CASE SettleCheck(Worker) \/ SettleSave(Worker) \/ Notify(Worker)
  BY <1>6 DEF SettleCheck, SettleSave, Notify, Leave, Rest
<1> QED BY <1>1, <1>2, <1>3, <1>4, <1>5, <1>6 DEF WorkerStep

LEMMA TakesUp ==
  ASSUME TypeInv, NEW j \in Jobs, job[Worker] # j, job'[Worker] = j,
         WorkerStep \/ FetchHeartbeat \/ \E i \in Jobs : Redispatch(i)
  PROVE  Dequeue(j) \/ Redispatch(j)
<1> USE DEF TypeInv, TypeOK, ProcOK, StoreOK, RunOK, ClientOK, Go, Save, Executing, RestPCs, BodyPCs,
            SettlePCs, records, disk, control, lists, run, client, history, marks
<1>1. ASSUME NEW i \in Jobs, Dequeue(i) \/ Redispatch(i) PROVE i = j
  BY <1>1 DEF Dequeue, Redispatch
<1>2. CASE LoadRecord \/ StartRun \/ FetchOpen \/ FetchEnds \/ BodyRaises
  BY <1>2 DEF LoadRecord, RunEnds, StartRun, FetchOpen, FetchEnds, FetchDone,
                    FetchTooLarge, BodyRaises
<1>3. CASE MakeOutputDir \/ Decode \/ ProgressCheck \/ ProgressSave \/ Stamp
  BY <1>3 DEF MakeOutputDir, Decode, ProgressCheck, ProgressSave, Stamp
<1>4. CASE CancelCleanup \/ Finish \/ FetchHeartbeat
  BY <1>4 DEF CancelCleanup, Finish, RunEnds, FetchHeartbeat
<1>5. CASE SettleCheck(Worker) \/ SettleSave(Worker) \/ Notify(Worker)
  BY <1>5 DEF SettleCheck, SettleSave, Notify, Leave
<1> QED BY <1>1, <1>2, <1>3, <1>4, <1>5 DEF WorkerStep

\* The run itself.
LEMMA InputWorker ==
  ASSUME TypeInv, NEW j \in Jobs, Sole(j), Ended(j), Input(j),
         WorkerStep \/ FetchHeartbeat \/ \E i \in Jobs : Redispatch(i), Next
  PROVE  Input(j)'
<1> USE DEF TypeInv, TypeOK, ProcOK, StoreOK, RunOK, ClientOK, Go, Save, Executing, RestPCs, BodyPCs,
            SettlePCs, records, disk, control, lists, run, client, history, marks
<1>1. CASE job[Worker] # j /\ job'[Worker] # j BY <1>1, SteadyWorker, InputSteady
<1>2. ASSUME Dequeue(j) PROVE Input(j)'
  <2>1. /\ entry[j] = "queued" /\ entry'[j] = "started" /\ job'[Worker] = j
        /\ pc'[Worker] = "popped" /\ UNCHANGED <<status, struck>>
    BY <1>2 DEF Dequeue
  <2>2. Unrun(j) => Unrun(j)' BY <2>1, UnrunStays DEF Unrun
  <2> QED BY <2>1, <2>2 DEF Input, NamesInput, Beginning, RunOnce, Unstarted, Struck
<1>3. ASSUME Redispatch(j) PROVE Input(j)'
  <2>1. /\ entry[j] = "started" /\ job[Worker] # j /\ job'[Worker] = j
        /\ pc'[Worker] = "popped" /\ UNCHANGED struck
    BY <1>3 DEF Redispatch
  <2> QED BY <2>1 DEF Input, NamesInput, Beginning, RunOnce, Struck
<1>4. CASE job[Worker] = j
  <2>1. source[j] \in {"file", "url"} /\ ~Creating(j)
    BY <1>4 DEF Sole, Fresh, Unsaved, Ended, Alone, Creating, SourceKinds
  <2>2. UNCHANGED <<source, struck>>
    <3>1. CASE LoadRecord \/ StartRun \/ FetchOpen \/ FetchEnds \/ BodyRaises
      BY <3>1 DEF LoadRecord, StartRun, FetchOpen, FetchEnds, FetchDone, FetchTooLarge, BodyRaises
    <3>2. CASE MakeOutputDir \/ Decode \/ ProgressCheck \/ ProgressSave \/ Stamp
      BY <3>2 DEF MakeOutputDir, Decode, ProgressCheck, ProgressSave, Stamp
    <3>3. CASE CancelCleanup \/ Finish \/ FetchHeartbeat
      BY <3>3 DEF CancelCleanup, Finish, FetchHeartbeat
    <3>4. CASE SettleCheck(Worker) \/ SettleSave(Worker) \/ Notify(Worker)
      BY <3>4 DEF SettleCheck, SettleSave, Notify
    <3> QED BY <1>4, <3>1, <3>2, <3>3, <3>4 DEF WorkerStep, Dequeue, Redispatch
  <2>3. ~Creating(j)' BY <2>1, <2>2, CreatingOnly
  <2>4. status'[j] \in {"queued", "none"} /\ Unrun(j) => Unrun(j)' BY UnrunStays
  <2>5. ASSUME job'[Worker] = j, entry'[j] = entry[j], ~Beginning', NamesInput(j)'
        PROVE  Input(j)'
    <3>1. RunOnce(j) => RunOnce(j)' BY <1>4, <2>3, <2>5 DEF RunOnce, Unstarted
    <3> QED BY <2>2, <2>5, <3>1 DEF Input, Struck
  <2>6. ASSUME RunEnds, UNCHANGED status, inbox'[j] => inbox[j],
               RunOnce(j) /\ inbox'[j] =>
                   IF source[j] = "url" THEN status[j] # "succeeded" ELSE Unrun(j)
        PROVE  Input(j)'
    <3>1. ~Executing(j)' BY <2>6 DEF RunEnds
    <3>2. Unrun(j) => Unrun(j)' BY <2>4, <2>6 DEF Unrun
    <3>3. RunOnce(j) => entry'[j] = "none" BY <1>4, <2>6 DEF RunEnds, RunOnce
    <3>4. RunOnce(j) => RunOnce(j)'
      BY <2>1, <2>2, <2>3, <2>6, <3>1, <3>2, <3>3 DEF RunOnce, Unstarted
    <3> QED BY <2>2, <3>1, <3>4 DEF Input, NamesInput, Struck
  <2>7. CASE LoadRecord
    <3>1. CASE status[j] = "none"
      <4>1. RunEnds /\ UNCHANGED <<status, inbox>> BY <1>4, <2>7, <3>1 DEF LoadRecord
      <4>2. RunOnce(j) => Unrun(j)
        BY <1>4, <2>7 DEF LoadRecord, RunOnce, Unstarted, Beginning
      <4> QED BY <2>6, <3>1, <4>1, <4>2
    <3>2. CASE status[j] # "none"
      <4>1. /\ pc[Worker] = "popped" /\ pc'[Worker] = "loaded" /\ job'[Worker] = j
            /\ UNCHANGED <<status, entry>>
        BY <1>4, <2>7, <3>2 DEF LoadRecord
      <4>2. RunOnce(j) => RunOnce(j)'
        BY <1>4, <2>4, <4>1 DEF RunOnce, Unstarted, Beginning, Unrun
      <4> QED BY <2>2, <4>1, <4>2 DEF Input, NamesInput, Beginning, Struck
    <3> QED BY <3>1, <3>2
  <2>8. CASE Finish
    <3>1. inbox'[j] => inbox[j] /\ ~localInput BY <1>4, <2>8 DEF Finish, InputAfterRun
    <3>2. ~localInput => source[j] = "url" /\ status[j] # "succeeded"
      BY <1>4, <2>1, <2>8 DEF Finish, Input, NamesInput, Beginning
    <3> QED BY <2>6, <2>8, <3>1, <3>2 DEF Finish
  <2>9. CASE StartRun
    <3>1. /\ job'[Worker] = j /\ UNCHANGED entry /\ ~Beginning'
          /\ localInput' = (source[j] = "file") /\ outcome' = "failed"
          /\ pc'[Worker] = IF source[j] = "url" THEN "fetch" ELSE "prepare"
          /\ status'[j] = "running"
      BY <1>4, <2>9 DEF StartRun, Beginning
    <3>2. NamesInput(j)' BY <2>1, <2>2, <3>1 DEF NamesInput
    <3> QED BY <2>5, <3>1, <3>2
  <2>10. ASSUME job'[Worker] = j, UNCHANGED entry, ~Beginning, ~Beginning',
                localInput => localInput',
                pc'[Worker] \in BodyPCs \ {"fetch", "download"} =>
                    localInput' \/ pc[Worker] \in BodyPCs \ {"fetch", "download"},
                outcome' = "succeeded" => outcome = "succeeded" \/ localInput,
                status'[j] = "succeeded" => "succeeded" \in {status[j], outcome}
         PROVE  Input(j)'
    <3>1. NamesInput(j)' BY <1>4, <2>2, <2>10 DEF Input, NamesInput
    <3> QED BY <2>5, <2>10, <3>1
  <2>11. CASE FetchOpen \/ FetchHeartbeat \/ FetchDone \/ FetchTooLarge
    BY <1>4, <2>10, <2>11 DEF FetchOpen, FetchHeartbeat, FetchDone, FetchTooLarge, Beginning
  <2>12. CASE BodyRaises \/ MakeOutputDir \/ Decode \/ CancelCleanup
    BY <1>4, <2>10, <2>12 DEF BodyRaises, MakeOutputDir, Decode, CancelCleanup, Beginning
  <2>13. CASE ProgressCheck \/ ProgressSave
    BY <1>4, <2>10, <2>13 DEF ProgressCheck, ProgressSave, Beginning
  <2>14. CASE Stamp
    <3>1. localInput BY <1>4, <2>14 DEF Stamp, Input, NamesInput, Beginning
    <3> QED BY <1>4, <2>10, <2>14, <3>1 DEF Stamp, Beginning
  <2>15. CASE SettleCheck(Worker) BY <1>4, <2>10, <2>15 DEF SettleCheck, Leave, Rest, Beginning
  <2>16. CASE SettleSave(Worker) BY <1>4, <2>10, <2>16 DEF SettleSave, Outcome, Beginning
  <2>17. CASE Notify(Worker) BY <1>4, <2>10, <2>17 DEF Notify, Leave, Rest, Beginning
  <2> QED BY <1>4, <2>7, <2>8, <2>9, <2>11, <2>12, <2>13, <2>14, <2>15, <2>16, <2>17
          DEF WorkerStep, FetchEnds, Dequeue, Redispatch
<1>5. CASE job[Worker] # j /\ job'[Worker] = j BY <1>2, <1>3, <1>5, TakesUp
<1> QED BY <1>1, <1>4, <1>5

WorkerFault == WorkerCrash \/ Timeout \/ TimeoutAtEnd \/ WorkerOutage

LEMMA SteadyFaults ==
  ASSUME TypeInv, NEW j \in Jobs, Faults
  PROVE  Steady(j) \/ (Executing(j) /\ WorkerFault /\ Struck(j)')
<1> USE DEF TypeInv, TypeOK, ProcOK, StoreOK, RunOK, Go, Save, Executing, RestPCs, Steady,
            records, disk, control, lists, run, client, history, marks
<1>1. ASSUME NEW p \in Procs \ {Worker}, MaybeWritten(p),
             pc[p] \in {"loaded", "download", "report"} => pc[p] \in RestPCs
      PROVE  status'[j] \in {status[j], "queued", "none"} \/ (status'[j] = "failed" /\ Failing(j))
  <2>1. job[p] = j /\ pc[p] = "save" => Failing(j) BY DEF Failing
  <2> QED BY <1>1, <2>1 DEF MaybeWritten, Outcome
<1>2. CASE ApiCrash \/ ReaperCrash BY <1>2 DEF ApiCrash, ReaperCrash, ReaperStops, Fault
<1>3. ASSUME NEW h \in Handlers, HandlerOutage(h) PROVE Steady(j)
  <2>1. status'[j] \in {status[j], "queued", "none"} \/ (status'[j] = "failed" /\ Failing(j))
    BY <1>1, <1>3 DEF HandlerOutage, CreatePCs
  <2> QED BY <1>3, <2>1 DEF HandlerOutage, Fault
<1>4. CASE ReaperOutage
  <2>1. status'[j] \in {status[j], "queued", "none"} \/ (status'[j] = "failed" /\ Failing(j))
    BY <1>1, <1>4 DEF ReaperOutage
  <2> QED BY <1>4, <2>1 DEF ReaperOutage, ReaperStops, Fault
<1>5. CASE BooterOutage
  <2>1. status'[j] \in {status[j], "queued", "none"} \/ (status'[j] = "failed" /\ Failing(j))
    BY <1>1, <1>5 DEF BooterOutage
  <2> QED BY <1>5, <2>1 DEF BooterOutage, Fault
<1>6. ASSUME NEW p \in Procs, CancelSwallowed(p) PROVE Steady(j)
  <2>1. p # Worker BY <1>6 DEF CancelSwallowed, WorkerPCs, BodyPCs, SettlePCs
  <2> QED BY <1>6, <2>1 DEF CancelSwallowed, Fault
<1>7. CASE WorkerFault /\ job[Worker] = j
  <2>1. ASSUME NEW kind \in FaultKinds, NEW P, Worker \in P, Fault(kind, P) PROVE Struck(j)'
    BY <1>7, <2>1 DEF Fault, Struck
  <2> QED BY <1>7, <2>1 DEF WorkerFault, WorkerCrash, Timeout, TimeoutAtEnd, WorkerOutage, FaultKinds
<1>8. CASE WorkerFault /\ job[Worker] # j
  <2>1. CASE WorkerCrash BY <1>8, <2>1 DEF WorkerCrash, Fault
  <2>2. CASE Timeout BY <1>8, <2>2 DEF Timeout, RunInterrupted, Fault
  <2>3. CASE TimeoutAtEnd BY <1>8, <2>3 DEF TimeoutAtEnd, RunEnds, Fault
  <2>4. CASE WorkerOutage
    <3>1. status'[j] = status[j] BY <1>8, <2>4 DEF WorkerOutage, MaybeWritten
    <3>2. struck \subseteq struck' /\ UNCHANGED <<inbox, source>> BY <2>4 DEF WorkerOutage, Fault
    <3>3. job'[Worker] # j /\ entry'[j] = entry[j]
      BY <1>8, <2>4 DEF WorkerOutage, RunEnds, RunInterrupted
    <3> QED BY <1>8, <3>1, <3>2, <3>3
  <2> QED BY <1>8, <2>1, <2>2, <2>3, <2>4 DEF WorkerFault
<1> QED BY <1>2, <1>3, <1>4, <1>5, <1>6, <1>7, <1>8 DEF Faults, WorkerFault

LEMMA InputFaults ==
  ASSUME TypeInv, NEW j \in Jobs, Sole(j), Input(j), Faults, Next
  PROVE  Input(j)'
<1> USE DEF TypeInv, TypeOK, ProcOK, StoreOK, RunOK, Go, Save, Executing,
            records, disk, run, client
<1>1. CASE ~(Executing(j) /\ WorkerFault /\ Struck(j)') BY <1>1, SteadyFaults, InputSteady
<1>2. CASE Executing(j) /\ WorkerFault /\ Struck(j)'
  <2> USE DEF WorkerFault
  <2>1. CASE ~Executing(j)' BY <1>2, <2>1 DEF Input, NamesInput
  <2>2. CASE Executing(j)'
    <3>1. /\ pc'[Worker] \in {"check", "finally"} /\ outcome' = "failed"
          /\ UNCHANGED <<localInput, source>>
          /\ pc[Worker] \notin {"popped", "loaded"}
      BY <1>2, <2>2 DEF WorkerCrash, Timeout, TimeoutAtEnd, WorkerOutage, RunEnds, RunInterrupted,
                        BodyPCs
    <3>2. status'[j] = "succeeded" => "succeeded" \in {status[j], outcome}
      BY <1>2 DEF WorkerCrash, Timeout, TimeoutAtEnd, WorkerOutage, MaybeWritten, Outcome
    <3>3. NamesInput(j)' BY <1>2, <3>1, <3>2 DEF Input, NamesInput, Beginning, BodyPCs
    <3> QED BY <1>2, <3>3 DEF Input
  <2> QED BY <2>1, <2>2
<1> QED BY <1>1, <1>2

LEMMA InputNext ==
  ASSUME TypeInv, SubmitInv, SoleInv, EndedInv, InputInv, [Next]_vars
  PROVE  InputInv'
<1> SUFFICES ASSUME NEW j \in Jobs, Sole(j), Ended(j), Input(j) PROVE Input(j)'
  BY DEF SoleInv, EndedInv, InputInv
<1>1. CASE UNCHANGED vars
  <2>1. Steady(j)
    BY <1>1 DEF vars, Steady, Executing, records, disk, control, run, client, history
  <2> QED BY <2>1, InputSteady
<1>2. CASE Next
  <2>1. ASSUME NEW h \in Handlers, Request(h) \/ HandlerStep(h) PROVE Input(j)'
    BY <1>2, <2>1, InputHandler
  <2>2. CASE ReaperStep \/ BooterStep \/ TimePasses BY <2>2, SteadyServices, InputSteady
  <2>3. CASE WorkerStep \/ FetchHeartbeat \/ \E i \in Jobs : Redispatch(i)
    BY <1>2, <2>3, InputWorker
  <2>4. CASE Faults BY <1>2, <2>4, InputFaults
  <2> QED BY <1>2, <2>1, <2>2, <2>3, <2>4 DEF Next, Steps
<1> QED BY <1>1, <1>2

LEMMA InputInit == Init => InputInv
<1> SUFFICES ASSUME Init, NEW j \in Jobs PROVE Input(j)
  BY DEF InputInv
<1>1. \A p \in Procs : job[p] = NoJob BY DEF Init
<1>2. entry[j] = "none" /\ ~inbox[j] BY DEF Init
<1>3. ~Executing(j) /\ ~Creating(j) BY <1>1 DEF Executing, Creating
<1> QED BY <1>2, <1>3 DEF Input, NamesInput, RunOnce, Unstarted

\* Once a run is over its source audio is gone, in every environment, unless a fault
\* struck the job or it was one by URL that failed: past the
\* fetch local_input names the file that the finally block unlinks, an upload from
\* the start, and without a fault of its own no job is run twice or failed before
\* its run.
THEOREM InputGoesWithItsRun == Spec => []InputGoneAfterRun
<1>1. Init => SoleInv /\ EndedInv /\ InputInv BY ReachInit, EndedInit, InputInit DEF ReachInv
<1>2. TypeInv /\ SubmitInv /\ SoleInv /\ EndedInv /\ InputInv /\ [Next]_vars
          => SoleInv' /\ EndedInv' /\ InputInv'
  BY SoleNext, EndedNext, InputNext
<1>3. TypeInv /\ InputInv => InputGoneAfterRun
  BY DEF InputInv, Input, RunOnce, Unrun, InputGoneAfterRun, TypeInv, TypeOK, StoreOK, Terminal,
         Unsettled
<1>4. IInv => TypeInv /\ SubmitInv BY DEF IInv
<1> QED BY <1>1, <1>2, <1>3, <1>4, Invariant, PTL DEF Spec

-----------------------------------------------------------------------------
(* Why an outcome is posted once.                                            *)

\* A DELETE stands between its tombstone and the end of the record.
Deleting(j) == \E h \in Handlers : job[h] = j /\ pc[h] \in {"cancel_rq", "delete_record"}

\* A tombstone stands for a DELETE that is under way or complete.
Mourned(j) == tomb[j] => j \in deleted \/ Deleting(j)

\* Its run is over, or has nothing more to do than to leave.
Parted(j) == Executing(j) => pc[Worker] \in {"cleanup", "finally"}

\* A running record that has lost its run has met a DELETE: whoever wants to
\* fail it finds the tombstone, and leaves.
Spared(j) ==
    /\ status[j] = "running" /\ Parted(j) => tomb[j]
    /\ Settling(j) => tomb[j]
    /\ \A p \in Procs \ {Worker} : job[p] = j => pc[p] \notin {"save", "notify"}

Posts(j) == posted[j]["succeeded"] + posted[j]["failed"]

Single(j) == Struck(j) \/ j \in raced \/ (Mourned(j) /\ Spared(j) /\ Posts(j) <= 1)
SingleInv == \A j \in Jobs : Single(j)

LEMMA MournedNext ==
  ASSUME TypeInv, NEW j \in Jobs, Mourned(j), [Next]_vars, ~Struck(j)'
  PROVE  Mourned(j)'
<1> USE DEF Mourned, Deleting, TypeInv, TypeOK, ProcOK, ClientOK, StoreOK, Go, Rest, AfterDelete,
            AfterSubmit, client, history, marks
<1>1. CASE Frame BY <1>1 DEF Frame
<1>2. ASSUME NEW h \in Handlers, Request(h) PROVE Mourned(j)'
  BY <1>2, ZenonT(40) DEF Request, CreateBegin, GetStale, DeleteBegin
<1>3. ASSUME NEW h \in Handlers, HandlerStep(h) PROVE Mourned(j)'
  <2>1. CASE CreateSave(h) BY <2>1 DEF CreateSave
  <2>2. CASE CreateEnqueue(h) \/ CreateRespond(h) BY <2>2 DEF CreateEnqueue, CreateRespond
  <2>3. CASE RequestCancel(h) BY <2>3 DEF RequestCancel
  <2>4. CASE CancelRQ(h) BY <2>4 DEF CancelRQ
  <2>5. CASE DeleteRecord(h) BY <2>5 DEF DeleteRecord
  <2>6. CASE RemoveFiles(h) \/ RemoveInbox(h) BY <2>6 DEF RemoveFiles, RemoveInbox
  <2>7. CASE Settle(h) BY <2>7, SettleMoves, SMTT(30) DEF SettlePCs
  <2> QED BY <1>3, <2>1, <2>2, <2>3, <2>4, <2>5, <2>6, <2>7 DEF HandlerStep
<1>4. ASSUME NEW h \in Handlers, HandlerOutage(h) \/ CancelSwallowed(h) PROVE Mourned(j)'
  <2>1. job[h] # j BY <1>4 DEF HandlerOutage, CancelSwallowed, Fault, Struck, FaultKinds
  <2> QED BY <1>4, <2>1 DEF HandlerOutage, CancelSwallowed
<1>5. CASE ApiCrash
  <2>1. \A h \in Handlers : job[h] # j BY <1>5 DEF ApiCrash, Fault, Struck, FaultKinds
  <2> QED BY <1>5, <2>1 DEF ApiCrash
<1>6. ASSUME NEW i \in Jobs, TombExpires(i) PROVE Mourned(j)' BY <1>6 DEF TombExpires, control
<1> QED BY <1>1, <1>2, <1>3, <1>4, <1>5, <1>6, NextByActor

\* A tombstone goes only when nobody has the job in hand.
LEMMA TombStays ==
  ASSUME TypeInv, NEW j \in Jobs, [Next]_vars, tomb[j], ~tomb'[j]
  PROVE  ~InFlight(j) /\ UNCHANGED <<records, control, lists>>
<1> USE DEF TypeInv, TypeOK, StoreOK
<1>1. CASE Frame BY <1>1 DEF Frame
<1>2. ASSUME NEW h \in Handlers, Request(h) PROVE FALSE
  BY <1>2 DEF Request, CreateBegin, GetStale, DeleteBegin
<1>3. ASSUME NEW h \in Handlers, HandlerStep(h), ~Settle(h) PROVE FALSE
  BY <1>3 DEF HandlerStep, CreateSave, CreateEnqueue, CreateRespond, RequestCancel, CancelRQ,
              DeleteRecord, RemoveFiles, RemoveInbox
<1>4. ASSUME NEW h \in Handlers, Settle(h) PROVE FALSE BY <1>4, SettleMoves
<1>5. ASSUME NEW h \in Handlers, HandlerOutage(h) \/ CancelSwallowed(h) PROVE FALSE
  BY <1>5 DEF HandlerOutage, CancelSwallowed
<1>6. CASE ApiCrash BY <1>6 DEF ApiCrash
<1>7. ASSUME NEW i \in Jobs, TombExpires(i) PROVE ~InFlight(j) /\ UNCHANGED <<records, control, lists>>
  BY <1>7 DEF TombExpires
<1> QED BY <1>1, <1>2, <1>3, <1>4, <1>5, <1>6, <1>7, NextByActor

\* A running record newly without a run has met the tombstone, or a fault.
LEMMA PartedNext ==
  ASSUME TypeInv, NEW j \in Jobs, Sole(j), Told(j), [Next]_vars, ~Struck(j)',
         status'[j] = "running", Parted(j)'
  PROVE  status[j] = "running" /\ (Parted(j) \/ tomb'[j])
<1> USE DEF Parted, Executing, TypeInv, TypeOK, ProcOK, StoreOK, RunOK, Go, Save, BodyPCs,
            records, control, run, RestPCs
<1>1. CASE Steady(j) BY <1>1 DEF Steady
<1>2. CASE UNCHANGED vars BY <1>2 DEF vars
<1>3. ASSUME NEW h \in Handlers, Request(h) \/ HandlerStep(h)
      PROVE  status[j] = "running" /\ (Parted(j) \/ tomb'[j])
  <2>1. ASSUME NEW s \in Sources, CreateBegin(h, j, s) PROVE FALSE
    BY <2>1 DEF CreateBegin, Sole, Fresh, Unsaved
  <2>2. CASE CreateEnqueue(h) BY <2>2 DEF CreateEnqueue
  <2> QED BY <1>1, <1>3, <2>1, <2>2, SteadyHandler
<1>4. CASE ReaperStep \/ BooterStep \/ TimePasses BY <1>1, <1>4, SteadyServices
<1>5. CASE Faults BY <1>1, <1>5, SteadyFaults
<1>6. CASE WorkerStep \/ FetchHeartbeat \/ \E i \in Jobs : Redispatch(i)
  <2>1. CASE job[Worker] # j /\ job'[Worker] # j BY <1>1, <1>6, <2>1, SteadyWorker
  <2>2. CASE job[Worker] # j /\ job'[Worker] = j
    BY <1>6, <2>2, TakesUp DEF Dequeue, Redispatch
  <2>3. CASE job[Worker] = j
    <3>1. CASE LoadRecord BY <2>3, <3>1 DEF LoadRecord, RunEnds
    <3>2. CASE StartRun \/ ProgressSave \/ FetchHeartbeat
      BY <2>3, <3>2 DEF StartRun, ProgressSave, FetchHeartbeat
    <3>3. CASE FetchOpen \/ FetchEnds \/ BodyRaises \/ MakeOutputDir \/ Decode
      BY <2>3, <3>3
         DEF FetchOpen, FetchEnds, FetchDone, FetchTooLarge, BodyRaises, MakeOutputDir, Decode
    <3>4. CASE ProgressCheck BY <2>3, <3>4 DEF ProgressCheck, IsCancelled
    <3>5. CASE Stamp BY <2>3, <3>5 DEF Stamp
    <3>6. CASE CancelCleanup \/ Finish BY <2>3, <3>6 DEF CancelCleanup, Finish, RunEnds
    <3>7. CASE SettleCheck(Worker) BY <2>3, <3>7 DEF SettleCheck, IsCancelled, Leave, Rest
    <3>8. CASE SettleSave(Worker) BY <2>3, <3>8 DEF SettleSave
    <3>9. CASE Notify(Worker)
      <4>1. status[j] \in {outcome, "none"} BY <2>3, <3>9 DEF Told, Notify
      <4> QED BY <3>9, <4>1 DEF Notify, Terminal
    <3>10. ASSUME NEW i \in Jobs, Dequeue(i) \/ Redispatch(i) PROVE FALSE
      BY <2>3, <3>10 DEF Dequeue, Redispatch
    <3> QED BY <1>6, <3>1, <3>2, <3>3, <3>4, <3>5, <3>6, <3>7, <3>8, <3>9, <3>10 DEF WorkerStep
  <2> QED BY <2>1, <2>2, <2>3
<1> QED BY <1>2, <1>3, <1>4, <1>5, <1>6 DEF Next, Steps

\* Who stands at its write, or past it, has found no tombstone.
LEMMA ComesToSave ==
  ASSUME TypeInv, NEW j \in Jobs, NEW p \in Procs \ {Worker}, [Next]_vars,
         job'[p] = j, pc'[p] \in {"save", "notify"}
  PROVE  job[p] = j /\ (pc[p] \in {"save", "notify"} \/ (pc[p] = "check" /\ ~tomb[j]))
<1> DEFINE P == job[p] = j /\ (pc[p] \in {"save", "notify"} \/ (pc[p] = "check" /\ ~tomb[j]))
<1> USE DEF TypeInv, TypeOK, ProcOK, Go, control
<1>1. CASE UNCHANGED vars BY <1>1 DEF vars
<1>2. ASSUME NEW q \in Procs, Settle(q) PROVE P
  <2>1. CASE q # p BY <1>2, <2>1, SettleMoves
  <2>2. CASE q = p
    <3>1. CASE Repudiate(p) BY <3>1 DEF Repudiate
    <3>2. CASE SettleCheck(p) BY <3>2 DEF SettleCheck, Leave, Rest, IsCancelled
    <3>3. CASE SettleSave(p) BY <3>3 DEF SettleSave
    <3>4. CASE Notify(p) BY <3>4 DEF Notify, Leave, Rest
    <3> QED BY <1>2, <2>2, <3>1, <3>2, <3>3, <3>4 DEF Settle
  <2> QED BY <2>1, <2>2
<1>3. ASSUME NEW h \in Handlers, Request(h) PROVE P
  BY <1>3 DEF Request, CreateBegin, GetStale, DeleteBegin, AfterSubmit, AfterDelete
<1>4. ASSUME NEW h \in Handlers, HandlerStep(h), ~Settle(h) PROVE P
  <2> USE DEF AfterSubmit, AfterDelete
  <2>1. CASE CreateSave(h) \/ CreateEnqueue(h) \/ CreateRespond(h)
    BY <2>1 DEF CreateSave, CreateEnqueue, CreateRespond
  <2>2. CASE RequestCancel(h) BY <2>2 DEF RequestCancel
  <2>3. CASE CancelRQ(h) BY <2>3 DEF CancelRQ
  <2>4. CASE DeleteRecord(h) \/ RemoveFiles(h) \/ RemoveInbox(h)
    BY <2>4 DEF DeleteRecord, RemoveFiles, RemoveInbox
  <2> QED BY <1>4, <2>1, <2>2, <2>3, <2>4 DEF HandlerStep
<1>5. CASE ReaperStep \/ BooterStep
  <2>1. CASE SweepBegin \/ SweepFiles BY <2>1 DEF SweepBegin, SweepFiles
  <2>2. ASSUME NEW i \in Jobs, SweepOne(i) \/ BootOne(i) PROVE P BY <2>2 DEF SweepOne, BootOne
  <2>3. CASE Boot \/ BootDone BY <2>3 DEF Boot, BootDone
  <2> QED BY <1>2, <1>5, <2>1, <2>2, <2>3 DEF ReaperStep, BooterStep
<1>6. ASSUME \A q \in Procs \ {Worker} : pc'[q] = pc[q] /\ job'[q] = job[q] PROVE P BY <1>6
<1>7. CASE WorkerStep \/ FetchHeartbeat \/ \E i \in Jobs : Redispatch(i)
  <2>1. ASSUME NEW i \in Jobs, Dequeue(i) \/ Redispatch(i) PROVE P
    BY <1>6, <2>1 DEF Dequeue, Redispatch
  <2>2. CASE LoadRecord \/ Finish BY <1>6, <2>2 DEF LoadRecord, Finish, RunEnds
  <2>3. CASE StartRun \/ ProgressSave \/ FetchHeartbeat
    BY <1>6, <2>3 DEF StartRun, ProgressSave, FetchHeartbeat
  <2>4. CASE FetchOpen \/ FetchEnds \/ BodyRaises \/ MakeOutputDir \/ Decode
    BY <1>6, <2>4
       DEF FetchOpen, FetchEnds, FetchDone, FetchTooLarge, BodyRaises, MakeOutputDir, Decode
  <2>5. CASE ProgressCheck \/ Stamp \/ CancelCleanup
    BY <1>6, <2>5 DEF ProgressCheck, Stamp, CancelCleanup
  <2> QED BY <1>2, <1>7, <2>1, <2>2, <2>3, <2>4, <2>5 DEF WorkerStep, Settle
<1>8. CASE Faults
  <2>1. CASE WorkerCrash \/ ApiCrash \/ ReaperCrash
    BY <2>1 DEF WorkerCrash, ApiCrash, ReaperCrash, ReaperStops
  <2>2. CASE Timeout \/ TimeoutAtEnd \/ WorkerOutage
    BY <1>6, <2>2 DEF Timeout, TimeoutAtEnd, WorkerOutage, RunInterrupted, RunEnds
  <2>3. ASSUME NEW h \in Handlers, HandlerOutage(h) PROVE P BY <2>3 DEF HandlerOutage
  <2>4. CASE ReaperOutage \/ BooterOutage
    BY <2>4 DEF ReaperOutage, ReaperStops, BooterOutage
  <2>5. ASSUME NEW q \in Procs, CancelSwallowed(q) PROVE P
    BY <2>5 DEF CancelSwallowed, AfterDelete
  <2> QED BY <1>8, <2>1, <2>2, <2>3, <2>4, <2>5 DEF Faults
<1>9. CASE TimePasses BY <1>9 DEF TimePasses, GoesQuiet, Expire, TombExpires
<1> QED BY <1>1, <1>2, <1>3, <1>4, <1>5, <1>7, <1>8, <1>9 DEF Next, Steps

LEMMA SparedNext ==
  ASSUME TypeInv, TombInv, NEW j \in Jobs, Sole(j), Owned(j), Told(j), [Next]_vars,
         ~Struck(j)', j \notin raced, Mourned(j), Spared(j)
  PROVE  Spared(j)'
<1>1. Judged(j) => tomb[j]
  <2>1. Judged(j) => Parted(j)
    BY JudgedIsLost DEF Lost, Parted
  <2> QED BY <2>1 DEF Judged, Spared, Settling
<1>2. ASSUME ~tomb[j] \/ tomb'[j] PROVE Spared(j)'
  <2>1. status'[j] = "running" /\ Parted(j)' => tomb'[j] BY <1>2, PartedNext DEF Spared
  <2>2. Settling(j)' => tomb'[j] BY <1>1, <1>2, JudgedBefore DEF Settling
  <2>3. ASSUME NEW p \in Procs \ {Worker}, job'[p] = j, pc'[p] \in {"save", "notify"}
        PROVE  FALSE
    <3>1. job[p] = j /\ pc[p] = "check" /\ ~tomb[j] BY <2>3, ComesToSave DEF Spared
    <3> QED BY <3>1 DEF Spared, Settling, SettlePCs
  <2> QED BY <2>1, <2>2, <2>3 DEF Spared
<1>3. ASSUME tomb[j], ~tomb'[j] PROVE Spared(j)'
  <2>1. ~InFlight(j) /\ UNCHANGED <<records, control, lists>> BY <1>3, TombStays
  <2>2. ~Deleting(j) BY <2>1 DEF InFlight, Deleting
  <2>3. j \in deleted BY <1>3, <2>2 DEF Mourned
  <2>4. status[j] = "none" BY <2>3 DEF TombInv, Buried
  <2>5. \A p \in Procs : job'[p] # j BY <2>1 DEF InFlight, control
  <2>6. status'[j] = "none" /\ j \notin toAbandon'
    BY <2>1, <2>4 DEF InFlight, records, lists
  <2> QED BY <2>5, <2>6 DEF Spared, Settling
<1> QED BY <1>2, <1>3 DEF TypeInv, TypeOK, StoreOK

\* Only the run itself announces j, and nothing has been announced before.
LEMMA PostsNext ==
  ASSUME TypeInv, NEW j \in Jobs, Told(j), [Next]_vars,
         ~Struck(j)', Spared(j), Posts(j) <= 1
  PROVE  Posts(j)' <= 1
<1> USE DEF TypeInv, TypeOK, ProcOK, RunOK, ClientOK, Terminal
<1>1. CASE UNCHANGED posted BY <1>1 DEF Posts
<1>2. CASE Timeout
  <2>1. job[Worker] # j BY <1>2 DEF Timeout, Fault, Struck, FaultKinds
  <2>2. posted'[j] = posted[j] BY <1>2, <2>1 DEF Timeout, Post
  <2> QED BY <2>2 DEF Posts
<1>3. ASSUME NEW p \in Procs, Notify(p), job[p] # j PROVE Posts(j)' <= 1
  <2>1. posted'[j] = posted[j] BY <1>3 DEF Notify, Post
  <2> QED BY <2>1 DEF Posts
<1>4. ASSUME NEW p \in Procs, Notify(p), job[p] = j PROVE Posts(j)' <= 1
  <2>1. p = Worker BY <1>4 DEF Notify, Spared
  <2>2. ~Hurried(j)
    <3>1. struck' = struck BY <1>4 DEF Notify, history
    <3> QED BY <3>1 DEF Hurried, Struck, FaultKinds
  <2>3. ~Done(j) BY <1>4, <2>1 DEF Notify, Done, Executing
  <2>4. posted[j]["succeeded"] = 0 /\ posted[j]["failed"] = 0
    BY <2>2, <2>3 DEF Told, Succeeded
  <2>5. outcome \in Terminal /\ posted' = [posted EXCEPT ![j][outcome] = IF @ < 2 THEN @ + 1 ELSE @]
    BY <1>4, <2>1 DEF Notify, Post, Outcome
  <2>6. CASE outcome = "succeeded"
    <3>1. posted'[j]["succeeded"] = 1 /\ posted'[j]["failed"] = 0 BY <2>4, <2>5, <2>6
    <3> QED BY <3>1 DEF Posts
  <2>7. CASE outcome = "failed"
    <3>1. posted'[j]["succeeded"] = 0 /\ posted'[j]["failed"] = 1 BY <2>4, <2>5, <2>7
    <3> QED BY <3>1 DEF Posts
  <2> QED BY <2>5, <2>6, <2>7
<1>5. CASE SettleSave(Worker) BY <1>1, <1>5 DEF SettleSave
<1> QED BY <1>1, <1>2, <1>3, <1>4, <1>5, CalmNext DEF Calm

LEMMA HistoryGrows ==
  ASSUME TypeInv, NEW j \in Jobs, [Next]_vars
  PROVE  (Struck(j) => Struck(j)') /\ (j \in raced => j \in raced')
<1>1. struck \subseteq struck'
  <2>1. CASE SettleSave(Worker) BY <2>1 DEF SettleSave
  <2>2. CASE Timeout BY <2>2 DEF Timeout, Fault
  <2>3. ASSUME NEW p \in Procs, Notify(p) PROVE struck \subseteq struck'
    BY <2>3 DEF Notify, history
  <2> QED BY <2>1, <2>2, <2>3, CalmNext DEF Calm
<1>2. raced \subseteq raced' BY DeletedBy DEF DeleteRecord
<1> QED BY <1>1, <1>2 DEF Struck

LEMMA SingleNext ==
  ASSUME TypeInv, TombInv, SoleInv, OwnedInv, ToldInv, SingleInv, [Next]_vars
  PROVE  SingleInv'
<1> SUFFICES ASSUME NEW j \in Jobs, Sole(j), Owned(j), Told(j), Single(j),
                    ~Struck(j)', j \notin raced'
             PROVE  Mourned(j)' /\ Spared(j)' /\ Posts(j)' <= 1
  BY DEF SoleInv, OwnedInv, ToldInv, SingleInv, Single
<1>1. ~Struck(j) /\ j \notin raced BY HistoryGrows
<1>2. Mourned(j) /\ Spared(j) /\ Posts(j) <= 1 BY <1>1 DEF Single
<1> QED BY <1>1, <1>2, MournedNext, SparedNext, PostsNext

LEMMA SingleInit == Init => SingleInv
<1> SUFFICES ASSUME Init, NEW j \in Jobs PROVE Mourned(j) /\ Spared(j) /\ Posts(j) <= 1
  BY DEF SingleInv, Single
<1>1. \A p \in Procs : job[p] = NoJob BY DEF Init
<1>2. ~tomb[j] /\ status[j] = "none" /\ toAbandon = {} BY DEF Init
<1>3. posted[j]["succeeded"] = 0 /\ posted[j]["failed"] = 0 BY DEF Init, Terminal
<1> QED BY <1>1, <1>2, <1>3 DEF Mourned, Spared, Settling, Posts

\* Where no live run falls silent and RQ hands no entry out twice, the webhook of a
\* job that no fault has struck and no DELETE has raced is sent at most once: a
\* running record loses its run only to the tombstone of a DELETE, which keeps
\* everybody else from failing it for as long as somebody may still try.
THEOREM WebhookOnce == Orderly => (Spec => []PostedOnce)
<1> SUFFICES ASSUME Orderly PROVE Spec => []PostedOnce
  OBVIOUS
<1> DEFINE I == SoleInv /\ OwnedInv /\ ToldInv /\ SingleInv
<1>1. Init => I BY ReachInit, OwnedInit, ToldInit, SingleInit DEF ReachInv
<1>2. TypeInv /\ SubmitInv /\ TombInv /\ I /\ [Next]_vars => I'
  BY SoleNext, OwnedNext, ToldNext, SingleNext
<1>3. I => PostedOnce BY DEF SingleInv, Single, Posts, PostedOnce
<1>4. IInv => TypeInv /\ SubmitInv /\ TombInv BY DEF IInv
<1> QED BY <1>1, <1>2, <1>3, <1>4, Invariant, PTL DEF Spec

-----------------------------------------------------------------------------
(* The contract with clients, where nobody deletes and only processes fail.  *)

Peaceful == Env \subseteq {"crash", "backlog"}

\* The steps there are then.
PeacefulStep ==
    \/ \E p \in Procs : Settle(p)
    \/ \E h \in Handlers : \/ CreateSave(h) \/ CreateEnqueue(h) \/ CreateRespond(h)
                           \/ \E j \in Jobs : GetStale(h, j) \/ \E s \in Sources : CreateBegin(h, j, s)
    \/ SweepBegin \/ SweepFiles \/ Boot \/ BootDone
    \/ \E j \in Jobs : SweepOne(j) \/ BootOne(j) \/ Dequeue(j)
    \/ LoadRecord \/ StartRun \/ FetchOpen \/ FetchEnds \/ BodyRaises \/ MakeOutputDir \/ Decode
    \/ ProgressCheck \/ ProgressSave \/ Stamp \/ CancelCleanup \/ Finish \/ FetchHeartbeat
    \/ WorkerCrash \/ ApiCrash \/ ReaperCrash
    \/ TimePasses

NoDelete == \A h \in Handlers : pc[h] \notin DeletePCs

\* A record that somebody will write is there, and a failure about to be
\* announced is stored.
Present(j) ==
    /\ status[j] = "none" => ~Settling(j) /\ (Executing(j) => pc[Worker] = "popped")
    /\ \A p \in Procs \ {Worker} : job[p] = j /\ pc[p] = "notify" => status[j] = "failed"

PeaceInv == NoDelete /\ struck \subseteq Jobs \X {"crash"} /\ \A j \in Jobs : Present(j)

LEMMA PeacefulNext ==
  ASSUME TypeInv, Peaceful, NoDelete, Next
  PROVE  PeacefulStep
<1>1. "delete" \notin Env /\ "timeout" \notin Env /\ "outage" \notin Env /\ "redispatch" \notin Env
  BY DEF Peaceful
<1>2. ASSUME NEW h \in Handlers, Request(h) \/ HandlerStep(h) PROVE PeacefulStep
  <2>1. ~(\E j \in Jobs : DeleteBegin(h, j)) BY <1>1 DEF DeleteBegin
  <2>2. ~(RequestCancel(h) \/ CancelRQ(h) \/ DeleteRecord(h) \/ RemoveFiles(h) \/ RemoveInbox(h))
    BY DEF RequestCancel, CancelRQ, DeleteRecord, RemoveFiles, RemoveInbox, NoDelete, DeletePCs
  <2> QED BY <1>2, <2>1, <2>2 DEF Request, HandlerStep, PeacefulStep
<1>3. CASE ReaperStep \/ BooterStep BY <1>3 DEF ReaperStep, BooterStep, PeacefulStep
<1>4. CASE WorkerStep \/ FetchHeartbeat
  <2>1. SettleCheck(Worker) \/ SettleSave(Worker) \/ Notify(Worker) => Settle(Worker) BY DEF Settle
  <2> QED BY <1>4, <2>1 DEF WorkerStep, PeacefulStep
<1>5. CASE Faults
  <2>1. WorkerCrash \/ ApiCrash \/ ReaperCrash
    BY <1>1, <1>5 DEF Faults, Fault, Timeout, TimeoutAtEnd, HandlerOutage, ReaperOutage, BooterOutage,
                      WorkerOutage, CancelSwallowed
  <2> QED BY <2>1 DEF PeacefulStep
<1>6. CASE TimePasses BY <1>6 DEF PeacefulStep
<1>7. ~(\E j \in Jobs : Redispatch(j)) BY <1>1 DEF Redispatch
<1> QED BY <1>2, <1>3, <1>4, <1>5, <1>6, <1>7 DEF Next, Steps

\* How what Present speaks of can come about.
Footing(j) ==
    /\ status'[j] = "none" => status[j] = "none" \/ Expire(j)
    /\ job'[Worker] = j /\ pc'[Worker] # "popped" =>
           job[Worker] = j /\ (pc[Worker] = "popped" => status[j] # "none")
    /\ \A p \in Procs \ {Worker} : job'[p] = j /\ pc'[p] = "notify" =>
           job[p] = j /\ (pc[p] = "notify" \/ (pc[p] = "save" /\ status'[j] = "failed"))

LEMMA PeaceStep ==
  ASSUME TypeInv, NoDelete, struck \subseteq Jobs \X {"crash"}, PeacefulStep
  PROVE  NoDelete' /\ struck' \subseteq Jobs \X {"crash"} /\ \A j \in Jobs : Footing(j)
<1> USE DEF Footing, NoDelete, DeletePCs, TypeInv, TypeOK, ProcOK, StoreOK, RunOK, RestPCs, Go, Save,
            records, control, lists, run, history, marks
<1> DEFINE Goal == NoDelete' /\ struck' \subseteq Jobs \X {"crash"} /\ \A j \in Jobs : Footing(j)
<1>1. ASSUME NEW p \in Procs, Settle(p) PROVE Goal
  <2>1. CASE Repudiate(p) BY <2>1 DEF Repudiate
  <2>2. CASE SettleCheck(p) BY <2>2 DEF SettleCheck, Leave, Rest
  <2>3. CASE SettleSave(p)
    <3>1. Outcome(p) # "none" /\ (p # Worker => Outcome(p) = "failed") BY DEF Outcome, Terminal
    <3> QED BY <2>3, <3>1 DEF SettleSave
  <2>4. CASE Notify(p) BY <2>4 DEF Notify, Leave, Rest
  <2> QED BY <1>1, <2>1, <2>2, <2>3, <2>4 DEF Settle
<1>2. ASSUME NEW h \in Handlers, CreateSave(h) \/ CreateEnqueue(h) \/ CreateRespond(h) PROVE Goal
  BY <1>2 DEF CreateSave, CreateEnqueue, CreateRespond, AfterSubmit
<1>3. ASSUME NEW h \in Handlers, NEW i \in Jobs, GetStale(h, i) PROVE Goal BY <1>3 DEF GetStale
<1>4. ASSUME NEW h \in Handlers, NEW i \in Jobs, NEW s \in Sources, CreateBegin(h, i, s) PROVE Goal
  BY <1>4 DEF CreateBegin, AfterSubmit
<1>5. CASE SweepBegin \/ SweepFiles \/ Boot \/ BootDone
  <2>1. CASE SweepBegin BY <2>1 DEF SweepBegin
  <2>2. CASE SweepFiles BY <2>2 DEF SweepFiles
  <2>3. CASE Boot BY <2>3 DEF Boot
  <2>4. CASE BootDone BY <2>4 DEF BootDone, BootOK
  <2> QED BY <1>5, <2>1, <2>2, <2>3, <2>4
<1>6. ASSUME NEW i \in Jobs, SweepOne(i) \/ BootOne(i) \/ Dequeue(i) PROVE Goal
  <2>1. CASE SweepOne(i) BY <2>1 DEF SweepOne
  <2>2. CASE BootOne(i) BY <2>2 DEF BootOne
  <2>3. CASE Dequeue(i) BY <2>3 DEF Dequeue
  <2> QED BY <1>6, <2>1, <2>2, <2>3
<1>7. CASE LoadRecord \/ Finish BY <1>7 DEF LoadRecord, Finish, RunEnds
<1>8. CASE StartRun BY <1>8 DEF StartRun
<1>9. CASE ProgressSave \/ FetchHeartbeat BY <1>9 DEF ProgressSave, FetchHeartbeat
<1>10. CASE FetchOpen \/ FetchEnds \/ BodyRaises \/ MakeOutputDir \/ Decode
  BY <1>10 DEF FetchOpen, FetchEnds, FetchDone, FetchTooLarge, BodyRaises, MakeOutputDir, Decode,
               BodyPCs
<1>11. CASE ProgressCheck \/ Stamp \/ CancelCleanup
  BY <1>11 DEF ProgressCheck, Stamp, CancelCleanup
<1>12. CASE WorkerCrash \/ ApiCrash \/ ReaperCrash
  <2>1. struck' \subseteq Jobs \X {"crash"}
    BY <1>12 DEF WorkerCrash, ApiCrash, ReaperCrash, Fault
  <2>2. UNCHANGED status BY <1>12 DEF WorkerCrash, ApiCrash, ReaperCrash
  <2>3. CASE WorkerCrash BY <2>1, <2>2, <2>3 DEF WorkerCrash
  <2>4. CASE ApiCrash BY <2>1, <2>2, <2>4 DEF ApiCrash
  <2>5. CASE ReaperCrash BY <2>1, <2>2, <2>5 DEF ReaperCrash, ReaperStops
  <2> QED BY <1>12, <2>3, <2>4, <2>5
<1>13. ASSUME NEW i \in Jobs, GoesQuiet(i) \/ Expire(i) \/ TombExpires(i) PROVE Goal
  BY <1>13 DEF GoesQuiet, Expire, Erase, TombExpires
<1> QED BY <1>1, <1>2, <1>3, <1>4, <1>5, <1>6, <1>7, <1>8, <1>9, <1>10, <1>11, <1>12, <1>13
        DEF PeacefulStep, TimePasses

LEMMA PeaceNext ==
  ASSUME TypeInv, Peaceful, SoleInv, OwnedInv, PeaceInv, [Next]_vars
  PROVE  PeaceInv'
<1>1. CASE UNCHANGED vars
  BY <1>1 DEF vars, PeaceInv, NoDelete, Present, Settling, Executing, records, control, lists, history
<1>2. CASE Next
  <2>1. NoDelete' /\ struck' \subseteq Jobs \X {"crash"} /\ \A j \in Jobs : Footing(j)
    <3>1. PeacefulStep BY <1>2, PeacefulNext DEF PeaceInv
    <3> QED BY <3>1, PeaceStep DEF PeaceInv
  <2> SUFFICES ASSUME NEW j \in Jobs PROVE Present(j)'
    BY <2>1 DEF PeaceInv
  <2>2. Sole(j) /\ Owned(j) /\ Present(j) /\ Footing(j) BY <2>1 DEF SoleInv, OwnedInv, PeaceInv
  <2>3. ASSUME status'[j] = "none"
        PROVE  ~Settling(j)' /\ (Executing(j)' => pc'[Worker] = "popped")
    <3>1. CASE Expire(j)
      BY <3>1 DEF Expire, InFlight, Settling, Executing, control, lists
    <3>2. CASE status[j] = "none"
      <4>1. ~Judged(j) BY <2>2, <3>2 DEF Present, Settling, Judged
      <4>2. ~Settling(j)' BY <4>1, JudgedBefore DEF Settling
      <4> QED BY <2>2, <3>2, <4>2 DEF Footing, Present, Executing
    <3> QED BY <2>2, <2>3, <3>1, <3>2 DEF Footing
  <2>4. ASSUME NEW p \in Procs \ {Worker}, job'[p] = j, pc'[p] = "notify"
        PROVE  status'[j] = "failed"
    <3>1. job[p] = j /\ (pc[p] = "notify" \/ (pc[p] = "save" /\ status'[j] = "failed"))
      BY <2>2, <2>4 DEF Footing
    <3>2. CASE pc[p] = "notify"
      <4>1. status[j] = "failed" /\ ~Executing(j) BY <2>2, <3>1, <3>2
            DEF Present, Owned, LostInv, Lost, SettlePCs
      <4>2. status'[j] # "none" BY <2>2, <2>4, <4>1, <3>1 DEF Footing, Expire, InFlight
      <4>3. ASSUME NEW q \in Procs, job[q] = j, Writes(q) PROVE q # Worker /\ pc[q] = "save"
        BY <2>2, <3>1, <3>2, <4>1, <4>3 DEF Writes, Executing, Sole, Fresh, Unsaved
      <4> QED BY <4>1, <4>2, <4>3, OnlyHoldersWrite DEF WriteStep, Outcome
    <3> QED BY <3>1, <3>2
  <2> QED BY <2>3, <2>4 DEF Present
<1> QED BY <1>1, <1>2

\* What a poll of j would answer: the refinement mapping, job by job.
PhaseOf(j) == IF status[j] # "none" THEN status[j] ELSE IF Unsaved(j) THEN "absent" ELSE "gone"

LEMMA PhaseIs ==
  /\ Phase = [j \in Jobs |-> PhaseOf(j)]
  /\ Phase' = [j \in Jobs |-> PhaseOf(j)']
BY DEF Phase, PhaseOf, Unsaved

Stutters == Phase' = Phase /\ Announced' = Announced

Moves(j, to) == Phase' = [Phase EXCEPT ![j] = to] /\ Announced' = Announced

LEMMA StutterBy ==
  ASSUME \A j \in Jobs : PhaseOf(j)' = PhaseOf(j), posted' = posted
  PROVE  Stutters
<1>1. Phase' = Phase BY PhaseIs
<1>2. Announced' = Announced BY DEF Announced
<1> QED BY <1>1, <1>2 DEF Stutters

LEMMA MoveBy ==
  ASSUME NEW j \in Jobs, NEW to, PhaseOf(j)' = to,
         \A i \in Jobs \ {j} : PhaseOf(i)' = PhaseOf(i), posted' = posted
  PROVE  Moves(j, to)
<1>1. Phase' = [Phase EXCEPT ![j] = to] BY PhaseIs
<1>2. Announced' = Announced BY DEF Announced
<1> QED BY <1>1, <1>2 DEF Moves

\* A step that neither writes a record nor moves a submitter is nothing to a client.
LEMMA StutterSteps ==
  ASSUME TypeInv, SoleInv, PeacefulStep,
         ~(\E p \in Procs : SettleSave(p) \/ Notify(p)),
         ~(\E h \in Handlers : CreateSave(h)), ~StartRun, ~ProgressSave, ~FetchHeartbeat, ~ApiCrash,
         ~(\E j \in Jobs : Expire(j))
  PROVE  Stutters
<1> USE DEF TypeInv, TypeOK, ProcOK, Go, PhaseOf, Unsaved, RestPCs, SettlePCs,
            records, control, client, lists, run
<1>1. ASSUME NEW p \in Procs, Repudiate(p) \/ SettleCheck(p) PROVE Stutters
  <2>1. \A j \in Jobs : PhaseOf(j)' = PhaseOf(j) BY <1>1, ZenonT(40) DEF Repudiate, SettleCheck, Leave, Rest
  <2> QED BY <1>1, <2>1, StutterBy DEF Repudiate, SettleCheck
<1>2. ASSUME NEW h \in Handlers, CreateEnqueue(h) \/ CreateRespond(h) PROVE Stutters
  <2>1. \A j \in Jobs : PhaseOf(j)' = PhaseOf(j)
    BY <1>2 DEF CreateEnqueue, CreateRespond, AfterSubmit
  <2> QED BY <1>2, <2>1, StutterBy DEF CreateEnqueue, CreateRespond
<1>3. ASSUME NEW h \in Handlers, NEW i \in Jobs, GetStale(h, i) PROVE Stutters
  <2>1. \A j \in Jobs : PhaseOf(j)' = PhaseOf(j) BY <1>3 DEF GetStale
  <2> QED BY <1>3, <2>1, StutterBy DEF GetStale
<1>4. ASSUME NEW h \in Handlers, NEW i \in Jobs, NEW s \in Sources, CreateBegin(h, i, s)
      PROVE  Stutters
  <2>1. PhaseOf(i)' = PhaseOf(i)
    <3>1. Unsaved(i)' BY <1>4 DEF CreateBegin, AfterSubmit
    <3>2. Unsaved(i) /\ status[i] = "none" /\ status'[i] = "none"
      BY <1>4 DEF CreateBegin, SoleInv, Sole, Fresh
    <3> QED BY <3>1, <3>2
  <2>2. ASSUME NEW j \in Jobs, j # i PROVE PhaseOf(j)' = PhaseOf(j)
    BY <1>4, <2>2 DEF CreateBegin, AfterSubmit
  <2> QED BY <1>4, <2>1, <2>2, StutterBy DEF CreateBegin
<1>5. ASSUME Frame, UNCHANGED <<status, posted>> PROVE Stutters
  <2>1. \A j \in Jobs : PhaseOf(j)' = PhaseOf(j) BY <1>5 DEF Frame
  <2> QED BY <1>5, <2>1, StutterBy
<1>6. CASE ReaperStep \/ BooterStep
  <2>1. UNCHANGED <<status, posted>>
    BY <1>6 DEF ReaperStep, BooterStep, Settle, Repudiate, SettleCheck, SweepBegin, SweepFiles,
                SweepOne, Boot, BootDone, BootOne
  <2> QED BY <1>5, <1>6, <2>1, FrameServices
<1>7. CASE WorkerStep
  <2>1. CASE \E j \in Jobs : Dequeue(j)
    <3>1. UNCHANGED <<status, posted>> BY <2>1 DEF Dequeue
    <3> QED BY <1>5, <1>7, <3>1, FrameServices
  <2>2. CASE LoadRecord \/ Finish \/ FetchOpen \/ FetchEnds \/ BodyRaises
    <3>1. UNCHANGED <<status, posted>>
      BY <2>2 DEF LoadRecord, Finish, FetchOpen, FetchEnds, FetchDone, FetchTooLarge, BodyRaises
    <3> QED BY <1>5, <1>7, <3>1, FrameServices
  <2>3. CASE MakeOutputDir \/ Decode \/ ProgressCheck \/ Stamp \/ CancelCleanup
    <3>1. UNCHANGED <<status, posted>>
      BY <2>3 DEF MakeOutputDir, Decode, ProgressCheck, Stamp, CancelCleanup
    <3> QED BY <1>5, <1>7, <3>1, FrameServices
  <2>4. CASE SettleCheck(Worker) BY <1>1, <2>4
  <2> QED BY <1>7, <2>1, <2>2, <2>3, <2>4 DEF WorkerStep
<1>8. CASE WorkerCrash \/ ReaperCrash
  <2>1. UNCHANGED <<status, posted>> BY <1>8 DEF WorkerCrash, ReaperCrash
  <2> QED BY <1>5, <1>8, <2>1, FrameFaults DEF ServiceFault
<1>9. ASSUME NEW i \in Jobs, GoesQuiet(i) \/ TombExpires(i) PROVE Stutters
  <2>1. \A j \in Jobs : PhaseOf(j)' = PhaseOf(j) BY <1>9 DEF GoesQuiet, TombExpires
  <2> QED BY <1>9, <2>1, StutterBy DEF GoesQuiet, TombExpires
<1> QED BY <1>1, <1>2, <1>3, <1>4, <1>6, <1>7, <1>8, <1>9
        DEF PeacefulStep, Settle, ReaperStep, BooterStep, WorkerStep, TimePasses

\* A write of j's record, by who has it in hand.
LEMMA RefineSave ==
  ASSUME TypeInv, PeaceInv, SoleInv, OwnedInv, NEW p \in Procs,
         NEW j \in Jobs, job[p] = j, NEW s, Save(j, s),
         Writes(p), UNCHANGED posted,
         \/ pc[p] = "save" /\ s = Outcome(p)
         \/ pc[p] \in {"loaded", "download", "report"} /\ s = "running",
         \A h \in Handlers \ {p} : pc'[h] = pc[h] /\ job'[h] = job[h],
         p \in Handlers => pc'[p] # "create_save", UNCHANGED source
  PROVE  Contract!Next \/ Stutters
<1> USE DEF TypeInv, TypeOK, ProcOK, StoreOK, RestPCs
<1>2. pc[p] # "create_save" OBVIOUS
<1>3. status' = [status EXCEPT ![j] = s] BY DEF Save
<1>4. s # "none" BY DEF Outcome, RunOK, Terminal
<1>5. PhaseOf(j)' = s BY <1>3, <1>4 DEF PhaseOf
<1>6. ASSUME NEW i \in Jobs \ {j} PROVE PhaseOf(i)' = PhaseOf(i)
  <2>1. Unsaved(i)' <=> Unsaved(i) BY <1>2 DEF Unsaved
  <2> QED BY <1>3, <2>1 DEF PhaseOf
<1>7. Moves(j, s) BY <1>5, <1>6, MoveBy
<1>8. /\ Sole(j) /\ Owned(j) /\ Present(j)
      /\ ~CutOff(j)
  BY DEF SoleInv, OwnedInv, PeaceInv, CutOff
<1>9. status[j] # "none" => Phase[j] = status[j] BY PhaseIs DEF PhaseOf
<1>10. CASE pc[p] = "save" /\ p # Worker
  <2>1. status[j] \in {"running", "failed"}
    BY <1>8, <1>10 DEF Owned, LostInv, Lost, Present, Settling, SettlePCs
  <2>2. s = "failed" BY <1>10 DEF Outcome
  <2>3. CASE status[j] = "failed"
    <3>1. PhaseOf(j)' = PhaseOf(j) BY <1>5, <2>2, <2>3 DEF PhaseOf
    <3> QED BY <1>6, <3>1, StutterBy
  <2>4. CASE status[j] = "running"
    <3>1. Contract!Finish(j, s)
      BY <1>7, <1>9, <2>2, <2>4 DEF Contract!Finish, Contract!Move, Contract!Outcomes, Moves
    <3> QED BY <2>2, <3>1 DEF Contract!Next, Contract!Outcomes
  <2> QED BY <2>1, <2>3, <2>4
<1>11. CASE pc[p] = "save" /\ p = Worker
  <2>1. status[j] = "running"
    BY <1>8, <1>11 DEF Owned, RunInv, Present, Executing
  <2>2. s \in {"succeeded", "failed"} BY <1>11 DEF Outcome, RunOK, Terminal
  <2>3. Contract!Finish(j, s)
    BY <1>7, <1>9, <2>1, <2>2 DEF Contract!Finish, Contract!Move, Contract!Outcomes, Moves
  <2> QED BY <2>2, <2>3 DEF Contract!Next, Contract!Outcomes
<1>12. CASE p = Worker /\ pc[p] = "loaded"
  <2>1. status[j] = "queued" BY <1>8, <1>12 DEF Owned, RunInv, Present, Executing
  <2>2. Contract!Start(j) BY <1>7, <1>9, <1>12, <2>1 DEF Contract!Start, Contract!Move, Moves
  <2> QED BY <2>2 DEF Contract!Next
<1>13. CASE p = Worker /\ pc[p] \in {"download", "report"}
  <2>1. status[j] = "running" BY <1>8, <1>13 DEF Owned, RunInv, Present, Executing, BodyPCs
  <2>2. PhaseOf(j)' = PhaseOf(j) BY <1>5, <1>13, <2>1 DEF PhaseOf
  <2> QED BY <1>6, <2>2, StutterBy
<1> QED BY <1>2, <1>10, <1>11, <1>12, <1>13 DEF Writes

\* A webhook says what the record says.
LEMMA RefineNotify ==
  ASSUME TypeInv, PeaceInv, OwnedInv, ToldInv, NEW p \in Procs, Notify(p),
         NEW j \in Jobs, job[p] = j, NEW o \in Terminal, o = Outcome(p)
  PROVE  Contract!Next
<1> USE DEF TypeInv, TypeOK, ProcOK, StoreOK, RestPCs, Terminal
<1>1. pc[p] = "notify" BY DEF Notify
<1>3. Owned(j) /\ Told(j) /\ Present(j) /\ ~Hurried(j)
  BY <1>1 DEF OwnedInv, ToldInv, PeaceInv, Hurried
<1>4. status[j] = o /\ \A other \in Terminal \ {o} : ~(posted[j][other] > 0)
  <2>1. CASE p = Worker
    <3>1. ~Done(j) BY <1>1, <2>1 DEF Done, Executing
    <3>2. status[j] = outcome BY <1>1, <1>3, <2>1 DEF Told, Present, Executing
    <3> QED BY <1>3, <2>1, <3>1, <3>2 DEF Told, Succeeded, Outcome
  <2>2. CASE p # Worker
    <3>1. status[j] = "failed" BY <1>1, <1>3, <2>2 DEF Present
    <3>2. Settling(j) BY <1>1, <2>2 DEF Settling, SettlePCs
    <3> QED BY <1>3, <2>2, <3>1, <3>2 DEF Told, Succeeded, Outcome
  <2> QED BY <2>1, <2>2
<1>5. Phase' = Phase
  <2>1. UNCHANGED <<status, source>> BY DEF Notify, records, client
  <2>2. \A h \in Handlers : (pc'[h] = "create_save" /\ job'[h] \in Jobs)
                               => pc'[h] = pc[h] /\ job'[h] = job[h]
    BY <1>1 DEF Notify, Leave, Rest, Go
  <2>3. \A h \in Handlers : pc[h] = "create_save" => pc'[h] = pc[h] /\ job'[h] = job[h]
    BY <1>1 DEF Notify, Leave, Rest, Go
  <2>4. \A i \in Jobs : Unsaved(i)' <=> Unsaved(i) BY <2>1, <2>2, <2>3 DEF Unsaved
  <2>5. \A i \in Jobs : PhaseOf(i)' = PhaseOf(i) BY <2>1, <2>4 DEF PhaseOf
  <2> QED BY <2>5, PhaseIs
<1>6. Announced' = [Announced EXCEPT ![j] = {o}]
  <2>1. posted'[j][o] > 0 BY <1>1, PostCounts DEF Notify
  <2>2. posted' = [posted EXCEPT ![j][o] = posted'[j][o]]
    BY <1>1 DEF Notify, Post, ClientOK
  <2>3. \A i \in Jobs \ {j} : posted'[i] = posted[i] BY <1>1, <2>2 DEF ClientOK
  <2>4. \A other \in Terminal \ {o} : posted'[j][other] = posted[j][other]
    BY <1>1, <2>2 DEF ClientOK
  <2>5. {x \in Terminal : posted'[j][x] > 0} = {o} BY <1>4, <2>1, <2>4
  <2>6. \A i \in Jobs \ {j} : {x \in Terminal : posted'[i][x] > 0} = Announced[i]
    BY <2>3 DEF Announced
  <2>7. Announced' = [i \in Jobs |-> IF i = j THEN {o} ELSE Announced[i]]
    BY <2>5, <2>6 DEF Announced
  <2> QED BY <2>7 DEF Announced
<1>7. Phase[j] = o BY <1>1, <1>4, PhaseIs DEF PhaseOf
<1>8. Announced[j] \subseteq {o} BY <1>1, <1>4 DEF Announced
<1>9. Contract!Announce(j, o) BY <1>5, <1>6, <1>7, <1>8 DEF Contract!Announce
<1> QED BY <1>1, <1>9 DEF Contract!Next, Contract!Outcomes

\* The record is saved, and the job is there for clients.
LEMMA RefineSubmit ==
  ASSUME TypeInv, SoleInv, NEW h \in Handlers, CreateSave(h), NEW j \in Jobs, job[h] = j
  PROVE  Contract!Next
<1> USE DEF TypeInv, TypeOK, ProcOK, StoreOK, CreateSave, Save, Go, AfterSubmit, Unsaved, client
<1>1. Unsaved(j) /\ status[j] = "none" BY DEF SoleInv, Sole, Fresh
<1>2. Phase[j] = "absent" BY <1>1, PhaseIs DEF PhaseOf
<1>3. PhaseOf(j)' = "queued" BY DEF PhaseOf
<1>4. ASSUME NEW i \in Jobs \ {j} PROVE PhaseOf(i)' = PhaseOf(i) BY DEF PhaseOf
<1>5. Moves(j, "queued") BY <1>3, <1>4, MoveBy
<1>6. Contract!Submit(j) BY <1>2, <1>5 DEF Contract!Submit, Contract!Move, Moves
<1> QED BY <1>6 DEF Contract!Next

\* The API dies with submissions whose records it has not saved.
LEMMA RefineAbort ==
  ASSUME TypeInv, SubmitInv, SoleInv, ApiCrash
  PROVE  Contract!Next
<1> USE DEF TypeInv, TypeOK, ProcOK, StoreOK, ApiCrash, Unsaved, client, records
<1> DEFINE Dying == {j \in Jobs : \E h \in Handlers : job[h] = j /\ pc[h] = "create_save"}
<1>1. PICK J \in SUBSET Jobs : J = Dying OBVIOUS
<1>2. ASSUME NEW j \in J PROVE Phase[j] = "absent" /\ PhaseOf(j)' = "gone"
  <2>1. Unsaved(j) /\ status[j] = "none" /\ source[j] # "none"
    BY <1>1, <1>2 DEF SoleInv, Sole, Fresh, SubmitInv, CreatePCs
  <2>2. status'[j] = "none" /\ ~Unsaved(j)' BY <2>1
  <2> QED BY <1>1, <2>1, <2>2, PhaseIs DEF PhaseOf
<1>3. ASSUME NEW j \in Jobs \ J PROVE PhaseOf(j)' = Phase[j]
  <2>1. Unsaved(j)' <=> Unsaved(j) BY <1>1
  <2> QED BY <2>1, PhaseIs DEF PhaseOf
<1>4. Phase' = [j \in Jobs |-> IF j \in J THEN "gone" ELSE Phase[j]] BY <1>2, <1>3, PhaseIs
<1>5. Announced' = Announced BY DEF Announced
<1>6. Contract!Abort(J) BY <1>2, <1>4, <1>5 DEF Contract!Abort
<1> QED BY <1>6 DEF Contract!Next

\* A record that expires was queued or settled.
LEMMA RefineForget ==
  ASSUME TypeInv, SoleInv, NEW j \in Jobs, Expire(j)
  PROVE  Contract!Next
<1> USE DEF TypeInv, TypeOK, ProcOK, StoreOK, Expire, Erase, Unsaved, client, control
<1>1. status[j] \in {"queued", "succeeded", "failed"} BY DEF Terminal
<1>2. ~Unsaved(j) /\ Phase[j] = status[j] BY <1>1, PhaseIs DEF SoleInv, Sole, Fresh, PhaseOf
<1>3. PhaseOf(j)' = "gone" BY <1>2 DEF PhaseOf
<1>4. ASSUME NEW i \in Jobs \ {j} PROVE PhaseOf(i)' = PhaseOf(i) BY DEF PhaseOf
<1>5. Moves(j, "gone") BY <1>3, <1>4, MoveBy
<1>6. Contract!Forget(j)
  BY <1>1, <1>2, <1>5 DEF Contract!Forget, Contract!Move, Contract!Outcomes, Moves
<1> QED BY <1>6 DEF Contract!Next

LEMMA RefineNext ==
  ASSUME TypeInv, SubmitInv, Peaceful, SoleInv, OwnedInv, ToldInv, PeaceInv, [Next]_vars
  PROVE  Contract!Next \/ Stutters
<1> USE DEF TypeInv, TypeOK, ProcOK, StoreOK, RestPCs, Go
<1>1. CASE UNCHANGED vars
  <2>1. \A j \in Jobs : PhaseOf(j)' = PhaseOf(j)
    BY <1>1 DEF vars, PhaseOf, Unsaved, records, client, control
  <2> QED BY <1>1, <2>1, StutterBy DEF vars
<1>2. ASSUME NEW p \in Procs, SettleSave(p) PROVE Contract!Next \/ Stutters
  <2>1. PICK j \in Jobs : j = job[p] BY <1>2 DEF SettleSave
  <2>2. PICK s : s = Outcome(p) OBVIOUS
  <2> QED BY <1>2, <2>1, <2>2, RefineSave DEF SettleSave, Writes, client
<1>3. ASSUME NEW p \in Procs, Notify(p) PROVE Contract!Next
  <2>1. PICK j \in Jobs : j = job[p] BY <1>3 DEF Notify
  <2>2. PICK o \in Terminal : o = Outcome(p) BY DEF Outcome, RunOK, Terminal
  <2> QED BY <1>3, <2>1, <2>2, RefineNotify
<1>4. ASSUME NEW h \in Handlers, CreateSave(h) PROVE Contract!Next
  <2>1. PICK j \in Jobs : j = job[h] BY <1>4 DEF CreateSave
  <2> QED BY <1>4, <2>1, RefineSubmit
<1>5. CASE StartRun \/ ProgressSave \/ FetchHeartbeat
  <2>1. PICK j \in Jobs : j = job[Worker] BY <1>5 DEF StartRun, ProgressSave, FetchHeartbeat
  <2>2. Save(j, "running") /\ UNCHANGED posted /\ UNCHANGED source
    BY <1>5, <2>1 DEF StartRun, ProgressSave, FetchHeartbeat, client
  <2>3. pc[Worker] \in {"loaded", "download", "report"}
    BY <1>5 DEF StartRun, ProgressSave, FetchHeartbeat
  <2>4. \A h \in Handlers : pc'[h] = pc[h] /\ job'[h] = job[h]
    BY <1>5 DEF StartRun, ProgressSave, FetchHeartbeat, control
  <2> QED BY <2>1, <2>2, <2>3, <2>4, RefineSave DEF Writes
<1>6. CASE ApiCrash BY <1>6, RefineAbort
<1>7. ASSUME NEW j \in Jobs, Expire(j) PROVE Contract!Next BY <1>7, RefineForget
<1> QED
  <2>1. PeacefulStep \/ UNCHANGED vars BY PeacefulNext DEF PeaceInv
  <2> QED BY <1>1, <1>2, <1>3, <1>4, <1>5, <1>6, <1>7, <2>1, StutterSteps

LEMMA PeaceInit == Init => PeaceInv
<1> SUFFICES ASSUME Init PROVE PeaceInv
  OBVIOUS
<1>1. \A p \in Procs : job[p] = NoJob BY DEF Init
<1>2. NoDelete BY DEF Init, NoDelete, DeletePCs
<1>3. struck = {} BY DEF Init
<1>4. toAbandon = {} /\ \A j \in Jobs, p \in Procs : job[p] # j BY <1>1 DEF Init
<1>5. \A j \in Jobs : Present(j) BY <1>4 DEF Present, Settling, Executing
<1> QED BY <1>2, <1>3, <1>5 DEF PeaceInv

LEMMA RefineInit == Init => Contract!Init
<1> SUFFICES ASSUME Init PROVE Contract!Init
  OBVIOUS
<1>1. \A j \in Jobs : status[j] = "none" /\ source[j] = "none" BY DEF Init
<1>2. Phase = [j \in Jobs |-> "absent"] BY <1>1, PhaseIs DEF PhaseOf, Unsaved
<1>3. \A j \in Jobs, o \in Terminal : posted[j][o] = 0 BY DEF Init
<1>4. Announced = [j \in Jobs |-> {}] BY <1>3 DEF Announced
<1> QED BY <1>2, <1>4 DEF Contract!Init

\* JobLifecycle implements JobContract where no client deletes and the only
\* faults are processes that die: whatever the API, the reaper, the booting and
\* the working worker and their deaths do to a record and its webhooks is, for a
\* client that polls, a step of the contract or nothing at all.
THEOREM ContractKept == Peaceful => (Spec => ContractSpec)
<1> SUFFICES ASSUME Peaceful PROVE Spec => ContractSpec
  OBVIOUS
<1>1. Orderly BY DEF Peaceful, Orderly
<1>2. Init => SoleInv /\ OwnedInv /\ ToldInv /\ PeaceInv
  BY ReachInit, OwnedInit, ToldInit, PeaceInit DEF ReachInv
<1>3. TypeInv /\ SubmitInv /\ SoleInv /\ OwnedInv /\ ToldInv /\ PeaceInv /\ [Next]_vars
          => SoleInv' /\ OwnedInv' /\ ToldInv' /\ PeaceInv'
  BY <1>1, SoleNext, OwnedNext, ToldNext, PeaceNext
<1>4. TypeInv /\ SubmitInv /\ SoleInv /\ OwnedInv /\ ToldInv /\ PeaceInv /\ [Next]_vars
          => [Contract!Next]_(Contract!vars)
  BY RefineNext DEF Stutters, Contract!vars
<1>5. IInv => TypeInv /\ SubmitInv BY DEF IInv
<1> QED BY <1>2, <1>3, <1>4, <1>5, RefineInit, Invariant, PTL DEF Spec, ContractSpec, Contract!Spec
=============================================================================
