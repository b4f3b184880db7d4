-------------------------- MODULE JobLifecycleProofs --------------------------
(* Theorems about JobLifecycle, for every number of jobs, handlers, batches and *)
(* faults and for every environment Env.                                        *)
EXTENDS JobLifecycle, TLAPS

USE ProcsAssumption, JobsAssumption, ParametersAssumption
    DEF Procs, ProcsAssumption, JobsAssumption, ParametersAssumption

\* The progress count stays below Batches until the last report.
BatchOK == pc[Worker] \in BodyPCs \ {"stamp"} => batch < Batches

\* The worker stays down until the boot is over.
BootOK == pc[Booter] # "off" => pc[Worker] = "down"

TypeInv == TypeOK /\ BatchOK /\ BootOK

\* What every step below knows about the bounds.
LEMMA Bounds == Batches \in Nat /\ Batches > 0 /\ 0 \in 0..Batches
<1>1. Batches \in Nat /\ Batches > 0 OBVIOUS
<1> QED BY <1>1

\* A write whose reply is lost leaves well-typed records.
LEMMA TypeMaybeWritten ==
  ASSUME StoreOK, RunOK, NEW p \in Procs, MaybeWritten(p)
  PROVE  /\ status' \in [Jobs -> {"none"} \union Unsettled \union Terminal]
         /\ quiet' \in [Jobs -> BOOLEAN]
         /\ \A j \in Jobs : quiet'[j] => status'[j] \in {"running", "succeeded"}
<1> USE DEF StoreOK, Save, records, Unsettled, Terminal
<1>1. CASE UNCHANGED records BY <1>1
<1>2. CASE Save(job[p], "queued") BY <1>2
<1>3. CASE Save(job[p], "running") BY <1>3
<1>4. CASE Save(job[p], Outcome(p)) BY <1>4 DEF RunOK, Outcome
<1> QED BY <1>1, <1>2, <1>3, <1>4 DEF MaybeWritten

LEMMA TypeInit == Init => TypeInv
<1> SUFFICES ASSUME Init PROVE TypeInv
  OBVIOUS
<1>1. StoreOK BY DEF Init, StoreOK, Unsettled, Terminal
<1>2. ProcOK
  <2>1. /\ \A h \in Handlers : pc[h] = "idle"
        /\ pc[Reaper] = "sleep" /\ pc[Booter] = "off" /\ pc[Worker] = "down"
        /\ pc = [p \in Procs |-> pc[p]]
    BY DEF Init
  <2>2. \A p \in Procs : pc[p] \in RestPCs \intersect AllPCs
    BY <2>1 DEF RestPCs, AllPCs, HandlerPCs, ReaperPCs, BooterPCs, WorkerPCs
  <2>3. pc \in [Procs -> AllPCs] BY <2>1, <2>2
  <2>4. job \in [Procs -> Jobs \union {NoJob}] /\ \A p \in Procs : job[p] = NoJob
    BY DEF Init
  <2>5. \A h \in Handlers : pc[h] \in HandlerPCs BY <2>1 DEF HandlerPCs
  <2>6. pc[Reaper] \in ReaperPCs /\ pc[Booter] \in BooterPCs /\ pc[Worker] \in WorkerPCs
    BY <2>1 DEF ReaperPCs, BooterPCs, WorkerPCs
  <2>7. \A p \in Procs : job[p] = NoJob <=> pc[p] \in RestPCs
    BY <2>2, <2>4
  <2> QED BY <2>3, <2>4, <2>5, <2>6, <2>7 DEF ProcOK
<1>3. RunOK
  <2>1. Batches \in Nat OBVIOUS
  <2>2. 0 \in 0..Batches BY <2>1
  <2> QED BY <2>2 DEF Init, RunOK, Terminal
<1>4. ClientOK BY DEF Init, ClientOK, Terminal
<1>5. BatchOK /\ BootOK BY DEF Init, BatchOK, BootOK, BodyPCs
<1> QED BY <1>1, <1>2, <1>3, <1>4, <1>5 DEF TypeInv, TypeOK

\* A request arrives.
LEMMA TypeRequest ==
  ASSUME TypeInv, NEW h \in Handlers, NEW j \in Jobs,
         (\E s \in Sources : CreateBegin(h, j, s)) \/ GetStale(h, j) \/ DeleteBegin(h, j)
  PROVE  TypeInv'
<1> USE DEF TypeInv, BootOK, TypeOK, StoreOK, ProcOK, RunOK, ClientOK, BatchOK,
           AllPCs, HandlerPCs, ReaperPCs, BooterPCs, WorkerPCs, BodyPCs, CreatePCs,
           DeletePCs, SettlePCs, RestPCs, Terminal, Unsettled, Go, Save, Erase, Leave, Rest, Outcome,
           records, disk, control, lists, run, client, history, marks
<1>1. ASSUME NEW s \in Sources, CreateBegin(h, j, s) PROVE TypeInv' BY <1>1 DEF CreateBegin, AfterSubmit, SourceKinds
<1>2. CASE GetStale(h, j) BY <1>2 DEF GetStale
<1>3. CASE DeleteBegin(h, j) BY <1>3 DEF DeleteBegin, AfterDelete
<1> HIDE DEF TypeInv
<1> QED BY <1>1, <1>2, <1>3

\* A job is submitted.
LEMMA TypeCreate ==
  ASSUME TypeInv, NEW h \in Handlers,
         CreateSave(h) \/ CreateEnqueue(h) \/ CreateRespond(h)
  PROVE  TypeInv'
<1> USE DEF TypeInv, BootOK, TypeOK, StoreOK, ProcOK, RunOK, ClientOK, BatchOK,
           AllPCs, HandlerPCs, ReaperPCs, BooterPCs, WorkerPCs, BodyPCs, CreatePCs,
           DeletePCs, SettlePCs, RestPCs, Terminal, Unsettled, Go, Save, Erase, Leave, Rest, Outcome,
           records, disk, control, lists, run, client, history, marks
<1>1. CASE CreateSave(h) BY <1>1 DEF CreateSave, AfterSubmit
<1>2. CASE CreateEnqueue(h) BY <1>2 DEF CreateEnqueue, AfterSubmit
<1>3. CASE CreateRespond(h) BY <1>3 DEF CreateRespond, AfterSubmit
<1> HIDE DEF TypeInv
<1> QED BY <1>1, <1>2, <1>3

\* A job is settled, from inside or outside its run.
LEMMA TypeSettle ==
  ASSUME TypeInv, NEW p \in Procs, Settle(p)
  PROVE  TypeInv'
<1> USE DEF TypeInv, BootOK, TypeOK, StoreOK, ProcOK, RunOK, ClientOK, BatchOK,
           AllPCs, HandlerPCs, ReaperPCs, BooterPCs, WorkerPCs, BodyPCs, CreatePCs,
           DeletePCs, SettlePCs, RestPCs, Terminal, Unsettled, Go, Save, Erase, Leave, Rest, Outcome,
           records, disk, control, lists, run, client, history, marks
<1>1. CASE Repudiate(p) BY <1>1 DEF Repudiate, CancelledEntry
<1>2. CASE SettleCheck(p)
  <2>1. StoreOK' BY <1>2 DEF SettleCheck
  <2>2. ProcOK'
    <3>1. CASE Leave(p) /\ pc[p] = "check" BY <3>1
    <3>2. CASE Go(p, "save") /\ UNCHANGED job /\ pc[p] = "check" BY <3>2
    <3> HIDE DEF Leave, Go
    <3> QED BY <1>2, <3>1, <3>2 DEF SettleCheck
  <2>3. RunOK' BY <1>2 DEF SettleCheck
  <2>4. ClientOK' BY <1>2 DEF SettleCheck
  <2>5. BatchOK' /\ BootOK' BY <1>2 DEF SettleCheck
  <2> QED BY <2>1, <2>2, <2>3, <2>4, <2>5
<1>3. CASE SettleSave(p) BY <1>3 DEF SettleSave
<1>4. CASE Notify(p) BY <1>4 DEF Notify, Post
<1> HIDE DEF TypeInv
<1> QED BY <1>1, <1>2, <1>3, <1>4 DEF Settle

\* A job is deleted.
LEMMA TypeDelete ==
  ASSUME TypeInv, NEW h \in Handlers,
         RequestCancel(h) \/ CancelRQ(h) \/ DeleteRecord(h) \/ RemoveFiles(h) \/ RemoveInbox(h)
  PROVE  TypeInv'
<1> USE DEF TypeInv, BootOK, TypeOK, StoreOK, ProcOK, RunOK, ClientOK, BatchOK,
           AllPCs, HandlerPCs, ReaperPCs, BooterPCs, WorkerPCs, BodyPCs, CreatePCs,
           DeletePCs, SettlePCs, RestPCs, Terminal, Unsettled, Go, Save, Erase, Leave, Rest, Outcome,
           records, disk, control, lists, run, client, history, marks
<1>1. CASE RequestCancel(h) BY <1>1 DEF RequestCancel, AfterDelete
<1>2. CASE CancelRQ(h) BY <1>2 DEF CancelRQ, CancelledEntry, AfterDelete
<1>3. CASE DeleteRecord(h) BY <1>3 DEF DeleteRecord, AfterDelete
<1>4. CASE RemoveFiles(h) BY <1>4 DEF RemoveFiles
<1>5. CASE RemoveInbox(h) BY <1>5 DEF RemoveInbox
<1> HIDE DEF TypeInv
<1> QED BY <1>1, <1>2, <1>3, <1>4, <1>5

\* The reaper sweeps.
LEMMA TypeReaper ==
  ASSUME TypeInv, SweepBegin \/ SweepFiles \/ (\E j \in Jobs : SweepOne(j))
  PROVE  TypeInv'
<1> USE DEF TypeInv, BootOK, TypeOK, StoreOK, ProcOK, RunOK, ClientOK, BatchOK,
           AllPCs, HandlerPCs, ReaperPCs, BooterPCs, WorkerPCs, BodyPCs, CreatePCs,
           DeletePCs, SettlePCs, RestPCs, Terminal, Unsettled, Go, Save, Erase, Leave, Rest, Outcome,
           records, disk, control, lists, run, client, history, marks
<1>1. CASE SweepBegin BY <1>1 DEF SweepBegin
<1>2. CASE SweepFiles BY <1>2 DEF SweepFiles
<1>3. ASSUME NEW j \in Jobs, SweepOne(j) PROVE TypeInv'
  <2>1. CASE Go(Reaper, "repudiate") /\ job' = [job EXCEPT ![Reaper] = j]
    BY <1>3, <2>1 DEF SweepOne
  <2>2. CASE UNCHANGED control BY <1>3, <2>2 DEF SweepOne
  <2> HIDE DEF TypeInv, Go, control
  <2> QED BY <1>3, <2>1, <2>2 DEF SweepOne
<1> HIDE DEF TypeInv
<1> QED BY <1>1, <1>2, <1>3

\* The worker boots.
LEMMA TypeBooter ==
  ASSUME TypeInv, Boot \/ BootDone \/ (\E j \in Jobs : BootOne(j))
  PROVE  TypeInv'
<1> USE DEF TypeInv, BootOK, TypeOK, StoreOK, ProcOK, RunOK, ClientOK, BatchOK,
           AllPCs, HandlerPCs, ReaperPCs, BooterPCs, WorkerPCs, BodyPCs, CreatePCs,
           DeletePCs, SettlePCs, RestPCs, Terminal, Unsettled, Go, Save, Erase, Leave, Rest, Outcome,
           records, disk, control, lists, run, client, history, marks
<1>1. CASE Boot BY <1>1 DEF Boot, BootOrphans
<1>2. CASE BootDone
  <2>1. StoreOK' BY <1>2 DEF BootDone
  <2>2. ProcOK'
    <3>1. job[Worker] = NoJob /\ job[Booter] = NoJob BY <1>2 DEF BootDone, BootOK
    <3> QED BY <1>2, <3>1 DEF BootDone
  <2>3. RunOK' BY <1>2 DEF BootDone
  <2>4. ClientOK' BY <1>2 DEF BootDone
  <2>5. BatchOK' /\ BootOK' BY <1>2 DEF BootDone
  <2> QED BY <2>1, <2>2, <2>3, <2>4, <2>5
<1>3. ASSUME NEW j \in Jobs, BootOne(j) PROVE TypeInv' BY <1>3 DEF BootOne
<1> HIDE DEF TypeInv
<1> QED BY <1>1, <1>2, <1>3

\* The worker runs a job.
LEMMA TypeWorker ==
  ASSUME TypeInv, (\E j \in Jobs : Dequeue(j)) \/ LoadRecord \/ StartRun \/ FetchOpen
           \/ FetchHeartbeat \/ FetchEnds \/ BodyRaises \/ MakeOutputDir \/ Decode
           \/ ProgressCheck \/ ProgressSave \/ Stamp \/ CancelCleanup \/ Finish
  PROVE  TypeInv'
<1> USE DEF TypeInv, BootOK, TypeOK, StoreOK, ProcOK, RunOK, ClientOK, BatchOK,
           AllPCs, HandlerPCs, ReaperPCs, BooterPCs, WorkerPCs, BodyPCs, CreatePCs,
           DeletePCs, SettlePCs, RestPCs, Terminal, Unsettled, Go, Save, Erase, Leave, Rest, Outcome,
           records, disk, control, lists, run, client, history, marks
<1>1. ASSUME NEW j \in Jobs, Dequeue(j) PROVE TypeInv' BY <1>1 DEF Dequeue
<1>2. CASE LoadRecord
  <2>1. StoreOK' BY <1>2, SMTT(30) DEF LoadRecord, RunEnds
  <2>2. ProcOK' BY <1>2 DEF LoadRecord, RunEnds
  <2>3. RunOK' BY <1>2, Bounds, ZenonT(40) DEF LoadRecord, RunEnds
  <2>4. ClientOK' BY <1>2 DEF LoadRecord, RunEnds
  <2>5. BatchOK' /\ BootOK' BY <1>2 DEF LoadRecord, RunEnds
  <2> QED BY <2>1, <2>2, <2>3, <2>4, <2>5
<1>3. CASE StartRun BY <1>3 DEF StartRun
<1>4. CASE FetchOpen BY <1>4 DEF FetchOpen
<1>5. CASE FetchHeartbeat BY <1>5 DEF FetchHeartbeat
<1>6. CASE FetchDone BY <1>6 DEF FetchDone
<1>7. CASE FetchTooLarge BY <1>7 DEF FetchTooLarge
<1>8. CASE BodyRaises BY <1>8 DEF BodyRaises
<1>9. CASE MakeOutputDir BY <1>9 DEF MakeOutputDir
<1>10. CASE Decode BY <1>10 DEF Decode
<1>11. CASE ProgressCheck BY <1>11 DEF ProgressCheck
<1>12. CASE ProgressSave BY <1>12 DEF ProgressSave
<1>13. CASE Stamp BY <1>13 DEF Stamp
<1>14. CASE CancelCleanup BY <1>14 DEF CancelCleanup
<1>15. CASE Finish
  <2>1. StoreOK'
    <3>1. InputAfterRun(job[Worker]) \in BOOLEAN BY DEF InputAfterRun
    <3> QED BY <1>15, <3>1 DEF Finish, RunEnds
  <2>2. ProcOK' BY <1>15 DEF Finish, RunEnds
  <2>3. RunOK' BY <1>15, Bounds DEF Finish, RunEnds
  <2>4. ClientOK' BY <1>15 DEF Finish, RunEnds
  <2>5. BatchOK' /\ BootOK' BY <1>15 DEF Finish, RunEnds
  <2> QED BY <2>1, <2>2, <2>3, <2>4, <2>5
<1> HIDE DEF TypeInv
<1> QED BY <1>1, <1>2, <1>3, <1>4, <1>5, <1>6, <1>7, <1>8, <1>9, <1>10, <1>11, <1>12, <1>13, <1>14, <1>15 DEF FetchEnds

\* A fault is counted, and noted with the jobs it strikes.
LEMMA TypeFault ==
  ASSUME ProcOK, ClientOK, NEW kind \in FaultKinds, NEW P \in SUBSET Procs, Fault(kind, P)
  PROVE  faults' \in 0..MaxFaults /\ struck' \subseteq Jobs \X FaultKinds
<1>1. faults' \in 0..MaxFaults BY DEF Fault, ClientOK
<1>2. \A p \in P : job[p] # NoJob => job[p] \in Jobs BY DEF ProcOK
<1>3. {<<job[p], kind>> : p \in {q \in P : job[q] # NoJob}} \subseteq Jobs \X FaultKinds
  BY <1>2
<1> QED BY <1>1, <1>3 DEF Fault, ClientOK

\* A fault strikes.
LEMMA TypeFaults ==
  ASSUME TypeInv, Faults
  PROVE  TypeInv'
<1> USE DEF TypeInv, BootOK, TypeOK, StoreOK, ProcOK, RunOK, BatchOK,
           AllPCs, HandlerPCs, ReaperPCs, BooterPCs, WorkerPCs, BodyPCs, CreatePCs,
           DeletePCs, SettlePCs, RestPCs, Terminal, Unsettled, Go, Save, Erase, Leave, Rest, Outcome,
           records, disk, control, lists, run, client, marks
<1>1. CASE WorkerCrash
  <2>1. StoreOK' BY <1>1 DEF WorkerCrash
  <2>2. ProcOK' BY <1>1 DEF WorkerCrash
  <2>3. RunOK' BY <1>1, Bounds DEF WorkerCrash
  <2>4. Fault("crash", {Worker, Booter}) BY <1>1 DEF WorkerCrash
  <2>5. faults' \in 0..MaxFaults /\ struck' \subseteq Jobs \X FaultKinds
    BY <2>4, TypeFault DEF FaultKinds
  <2>6. ClientOK' BY <1>1, <2>5 DEF WorkerCrash, ClientOK
  <2>7. BatchOK' /\ BootOK' BY <1>1 DEF WorkerCrash
  <2> QED BY <2>1, <2>2, <2>3, <2>6, <2>7
<1>2. CASE ApiCrash
  <2>1. StoreOK' BY <1>2 DEF ApiCrash
  <2>2. ProcOK' BY <1>2 DEF ApiCrash
  <2>3. RunOK' BY <1>2 DEF ApiCrash
  <2>4. Fault("crash", Handlers) BY <1>2 DEF ApiCrash
  <2>5. faults' \in 0..MaxFaults /\ struck' \subseteq Jobs \X FaultKinds
    BY <2>4, TypeFault DEF FaultKinds
  <2>6. ClientOK' BY <1>2, <2>5 DEF ApiCrash, ClientOK
  <2>7. BatchOK' /\ BootOK' BY <1>2 DEF ApiCrash
  <2> QED BY <2>1, <2>2, <2>3, <2>6, <2>7
<1>3. CASE ReaperCrash
  <2>1. StoreOK' BY <1>3 DEF ReaperCrash, ReaperStops
  <2>2. ProcOK' BY <1>3 DEF ReaperCrash, ReaperStops
  <2>3. RunOK' BY <1>3 DEF ReaperCrash, ReaperStops
  <2>4. Fault("crash", {Reaper}) BY <1>3 DEF ReaperCrash
  <2>5. faults' \in 0..MaxFaults /\ struck' \subseteq Jobs \X FaultKinds
    BY <2>4, TypeFault DEF FaultKinds
  <2>6. ClientOK' BY <1>3, <2>5 DEF ReaperCrash, ReaperStops, ClientOK
  <2>7. BatchOK' /\ BootOK' BY <1>3 DEF ReaperCrash, ReaperStops
  <2> QED BY <2>1, <2>2, <2>3, <2>6, <2>7
<1>4. CASE Timeout
  <2>1. StoreOK' BY <1>4 DEF Timeout, RunInterrupted, InTry
  <2>2. ProcOK' BY <1>4, SMTT(30) DEF Timeout, RunInterrupted, InTry
  <2>3. RunOK' BY <1>4 DEF Timeout, RunInterrupted, InTry
  <2>4. Fault("timeout", {Worker}) BY <1>4 DEF Timeout
  <2>5. faults' \in 0..MaxFaults /\ struck' \subseteq Jobs \X FaultKinds
    BY <2>4, TypeFault DEF FaultKinds
  <2>8. posted' \in [Jobs -> [Terminal -> 0..2]] BY <1>4, SMTT(30) DEF Timeout, Post, ClientOK
  <2>6. ClientOK' BY <1>4, <2>5, <2>8 DEF Timeout, ClientOK
  <2>7. BatchOK' /\ BootOK' BY <1>4 DEF Timeout, RunInterrupted, InTry
  <2> QED BY <2>1, <2>2, <2>3, <2>6, <2>7
<1>5. ASSUME NEW h \in Handlers, HandlerOutage(h) PROVE TypeInv'
  <2>1. StoreOK' BY <1>5, TypeMaybeWritten DEF HandlerOutage
  <2>2. ProcOK' BY <1>5 DEF HandlerOutage, MaybeWritten
  <2>3. RunOK' BY <1>5 DEF HandlerOutage, MaybeWritten
  <2>4. Fault("outage", {h}) BY <1>5 DEF HandlerOutage
  <2>5. faults' \in 0..MaxFaults /\ struck' \subseteq Jobs \X FaultKinds
    BY <2>4, TypeFault DEF FaultKinds
  <2>6. ClientOK' BY <1>5, <2>5 DEF HandlerOutage, MaybeWritten, ClientOK
  <2>7. BatchOK' /\ BootOK' BY <1>5 DEF HandlerOutage, MaybeWritten
  <2> QED BY <2>1, <2>2, <2>3, <2>6, <2>7
<1>6. CASE ReaperOutage
  <2>1. StoreOK' BY <1>6, TypeMaybeWritten DEF ReaperOutage
  <2>2. ProcOK' BY <1>6 DEF ReaperOutage, MaybeWritten, ReaperStops
  <2>3. RunOK' BY <1>6 DEF ReaperOutage, MaybeWritten, ReaperStops
  <2>4. Fault("outage", {Reaper}) BY <1>6 DEF ReaperOutage
  <2>5. faults' \in 0..MaxFaults /\ struck' \subseteq Jobs \X FaultKinds
    BY <2>4, TypeFault DEF FaultKinds
  <2>6. ClientOK' BY <1>6, <2>5 DEF ReaperOutage, MaybeWritten, ReaperStops, ClientOK
  <2>7. BatchOK' /\ BootOK' BY <1>6 DEF ReaperOutage, MaybeWritten, ReaperStops
  <2> QED BY <2>1, <2>2, <2>3, <2>6, <2>7
<1>7. CASE BooterOutage
  <2>1. StoreOK' BY <1>7, TypeMaybeWritten DEF BooterOutage
  <2>2. ProcOK' BY <1>7 DEF BooterOutage, MaybeWritten
  <2>3. RunOK' BY <1>7 DEF BooterOutage, MaybeWritten
  <2>4. Fault("outage", {Booter}) BY <1>7 DEF BooterOutage
  <2>5. faults' \in 0..MaxFaults /\ struck' \subseteq Jobs \X FaultKinds
    BY <2>4, TypeFault DEF FaultKinds
  <2>6. ClientOK' BY <1>7, <2>5 DEF BooterOutage, MaybeWritten, ClientOK
  <2>7. BatchOK' /\ BootOK' BY <1>7 DEF BooterOutage, MaybeWritten
  <2> QED BY <2>1, <2>2, <2>3, <2>6, <2>7
<1>8. CASE WorkerOutage
  <2>1. StoreOK'
    <3>1. MaybeWritten(Worker) /\ UNCHANGED <<tomb, disk>> BY <1>8 DEF WorkerOutage
    <3>2. entry' \in [Jobs -> {"none", "queued", "started", "canceled"}]
      BY <1>8 DEF WorkerOutage, RunEnds
    <3> QED BY <3>1, <3>2, TypeMaybeWritten
  <2>2. ProcOK'
    <3>1. CASE RunEnds BY <1>8, <3>1 DEF WorkerOutage, RunEnds
    <3>2. CASE RunInterrupted /\ pc[Worker] \notin {"popped", "loaded"}
      BY <1>8, <3>2 DEF WorkerOutage, RunInterrupted
    <3> QED BY <1>8, <3>1, <3>2 DEF WorkerOutage
  <2>3. RunOK' BY <1>8, Bounds DEF WorkerOutage, RunEnds, RunInterrupted, InTry
  <2>4. Fault("outage", {Worker}) BY <1>8 DEF WorkerOutage
  <2>5. faults' \in 0..MaxFaults /\ struck' \subseteq Jobs \X FaultKinds
    BY <2>4, TypeFault DEF FaultKinds
  <2>6. ClientOK' BY <1>8, <2>5 DEF WorkerOutage, RunEnds, RunInterrupted, InTry, ClientOK
  <2>7. BatchOK' /\ BootOK' BY <1>8 DEF WorkerOutage, RunEnds, RunInterrupted, InTry
  <2> QED BY <2>1, <2>2, <2>3, <2>6, <2>7
<1>9. ASSUME NEW p \in Procs, CancelSwallowed(p) PROVE TypeInv'
  <2>1. StoreOK' BY <1>9 DEF CancelSwallowed, AfterDelete
  <2>2. ProcOK' BY <1>9 DEF CancelSwallowed, AfterDelete
  <2>3. RunOK' BY <1>9 DEF CancelSwallowed, AfterDelete
  <2>4. Fault("outage", {p}) BY <1>9 DEF CancelSwallowed
  <2>5. faults' \in 0..MaxFaults /\ struck' \subseteq Jobs \X FaultKinds
    BY <2>4, TypeFault DEF FaultKinds
  <2>6. ClientOK' BY <1>9, <2>5 DEF CancelSwallowed, AfterDelete, ClientOK
  <2>7. BatchOK' /\ BootOK' BY <1>9 DEF CancelSwallowed, AfterDelete
  <2> QED BY <2>1, <2>2, <2>3, <2>6, <2>7
<1>10. CASE TimeoutAtEnd
  <2>1. StoreOK' BY <1>10 DEF TimeoutAtEnd, RunEnds
  <2>2. ProcOK' BY <1>10 DEF TimeoutAtEnd, RunEnds
  <2>3. RunOK' BY <1>10, Bounds DEF TimeoutAtEnd, RunEnds
  <2>4. Fault("timeout", {Worker}) BY <1>10 DEF TimeoutAtEnd
  <2>5. faults' \in 0..MaxFaults /\ struck' \subseteq Jobs \X FaultKinds
    BY <2>4, TypeFault DEF FaultKinds
  <2>6. ClientOK' BY <1>10, <2>5 DEF TimeoutAtEnd, RunEnds, ClientOK
  <2>7. BatchOK' /\ BootOK' BY <1>10 DEF TimeoutAtEnd, RunEnds
  <2> QED BY <2>1, <2>2, <2>3, <2>6, <2>7
<1> HIDE DEF TypeInv
<1> QED BY <1>1, <1>2, <1>3, <1>4, <1>5, <1>6, <1>7, <1>8, <1>9, <1>10 DEF Faults

\* Time passes.
LEMMA TypeTime ==
  ASSUME TypeInv, TimePasses \/ \E j \in Jobs : Redispatch(j)
  PROVE  TypeInv'
<1> USE DEF TypeInv, BootOK, TypeOK, StoreOK, ProcOK, RunOK, ClientOK, BatchOK,
           AllPCs, HandlerPCs, ReaperPCs, BooterPCs, WorkerPCs, BodyPCs, CreatePCs,
           DeletePCs, SettlePCs, RestPCs, Terminal, Unsettled, Go, Save, Erase, Leave, Rest, Outcome,
           records, disk, control, lists, run, client, history, marks
<1>1. ASSUME NEW j \in Jobs, GoesQuiet(j) PROVE TypeInv' BY <1>1 DEF GoesQuiet
<1>2. ASSUME NEW j \in Jobs, Expire(j) PROVE TypeInv' BY <1>2 DEF Expire
<1>3. ASSUME NEW j \in Jobs, TombExpires(j) PROVE TypeInv' BY <1>3 DEF TombExpires
<1>4. ASSUME NEW j \in Jobs, Redispatch(j) PROVE TypeInv' BY <1>4 DEF Redispatch
<1> HIDE DEF TypeInv
<1> QED BY <1>1, <1>2, <1>3, <1>4 DEF TimePasses

LEMMA TypeNext == TypeInv /\ [Next]_vars => TypeInv'
<1> SUFFICES ASSUME TypeInv, [Next]_vars PROVE TypeInv'
  OBVIOUS
<1>1. CASE UNCHANGED vars
  BY <1>1 DEF TypeInv, TypeOK, StoreOK, ProcOK, RunOK, ClientOK, BatchOK, BootOK,
              vars, records, disk, control, lists, run, client, history, marks
<1>2. ASSUME NEW h \in Handlers, Request(h) PROVE TypeInv'
  BY <1>2, TypeRequest DEF Request
<1>3. ASSUME NEW h \in Handlers, HandlerStep(h) PROVE TypeInv'
  BY <1>3, TypeCreate, TypeDelete, TypeSettle DEF HandlerStep
<1>4. CASE ReaperStep BY <1>4, TypeReaper, TypeSettle DEF ReaperStep
<1>5. CASE BooterStep BY <1>5, TypeBooter, TypeSettle DEF BooterStep
<1>6. CASE WorkerStep \/ FetchHeartbeat
  <2>1. CASE Settle(Worker) BY <2>1, TypeSettle
  <2> QED BY <1>6, <2>1, TypeWorker DEF WorkerStep, Settle
<1>7. CASE Faults BY <1>7, TypeFaults
<1>8. CASE TimePasses \/ \E j \in Jobs : Redispatch(j) BY <1>8, TypeTime
<1> QED BY <1>1, <1>2, <1>3, <1>4, <1>5, <1>6, <1>7, <1>8 DEF Next, Steps

LEMMA TypeInvariant == Spec => []TypeInv
BY TypeInit, TypeNext, PTL DEF Spec

\* Every reachable state is well-typed, and a record that is quiet is running.
THEOREM TypeCorrect == Spec => []TypeOK
BY TypeInvariant, PTL DEF TypeInv

-----------------------------------------------------------------------------
(* The inductive invariant behind ResurrectionNeedsRace and StemsOrRaced.     *)

\* An id being submitted is its submitter's alone: no client has it yet.
SubmitInv ==
    /\ \A h \in Handlers : pc[h] \in CreatePCs =>
           job[h] \notin known /\ source[job[h]] # "none"
    /\ \A h, i \in Handlers :
           pc[h] \in CreatePCs /\ pc[i] \in CreatePCs /\ job[h] = job[i] => h = i
    /\ \A j \in known : source[j] # "none"

\* A DELETE works on a known id, behind the tombstone it has planted.
DeleteInv ==
    /\ deleted \subseteq known
    /\ \A h \in Handlers :
           /\ pc[h] \in DeletePCs => job[h] \in known
           /\ pc[h] \in DeletePCs \ {"request_cancel"} => tomb[job[h]]
           /\ pc[h] = "remove_files" => job[h] \in deleted

\* Whoever has a deleted job in hand meets the tombstone, or no record.
Buried(j) ==
    /\ status[j] = "none"
    /\ \A p \in Procs : job[p] = j =>
           /\ pc[p] \notin CommittedToWrite \union CreatePCs
           /\ pc[p] \in {"popped"} \union DeletePCs \/ tomb[j]
    /\ j \in toAbandon => tomb[j]

TombInv == \A j \in deleted \ raced : Buried(j)

\* A run about to report success has its stems, unless a DELETE took them.
StemsInv ==
    /\ pc[Worker] \in BodyPCs => outcome = "failed"
    /\ pc[Worker] \in {"infer", "report", "stamp"} => out[job[Worker]] # "dir"
    /\ pc[Worker] \in {"check", "save"} /\ outcome = "succeeded" =>
           out[job[Worker]] = "stems" \/ job[Worker] \in deleted
    /\ pc[Worker] \in BodyPCs \union {"cleanup"} => status[job[Worker]] # "succeeded"
    /\ StemsOrRaced

IInv == TypeInv /\ SubmitInv /\ DeleteInv /\ TombInv /\ StemsInv

\* Settling moves one process, and no tombstone, client or deletion.
LEMMA SettleMoves ==
  ASSUME TypeInv, NEW p \in Procs, Settle(p)
  PROVE  /\ pc[p] \in SettlePCs
         /\ pc'[p] \in {"check", "save", "notify", Rest(p)}
         /\ \A q \in Procs \ {p} : pc'[q] = pc[q] /\ job'[q] = job[q]
         /\ job'[p] \in {job[p], NoJob}
         /\ UNCHANGED <<client, tomb, deleted, raced, lists, outcome, out>>
<1> USE DEF TypeInv, TypeOK, ProcOK, SettlePCs, Go, Leave, client, history, marks, lists, run, disk
<1>1. CASE Repudiate(p) BY <1>1 DEF Repudiate
<1>2. CASE SettleCheck(p) BY <1>2 DEF SettleCheck
<1>3. CASE SettleSave(p) BY <1>3 DEF SettleSave
<1>4. CASE Notify(p) BY <1>4 DEF Notify, Post
<1> QED BY <1>1, <1>2, <1>3, <1>4 DEF Settle

\* What the services leave alone: the handlers' control points, what clients
\* have been told, and every tombstone.
Frame ==
    /\ \A h \in Handlers : pc'[h] = pc[h] /\ job'[h] = job[h]
    /\ UNCHANGED <<client, tomb, deleted, raced>>

LEMMA FrameSettle ==
  ASSUME TypeInv, NEW p \in Procs, p \notin Handlers, Settle(p)
  PROVE  Frame
BY SettleMoves DEF Frame

LEMMA FrameServices ==
  ASSUME TypeInv, ReaperStep \/ BooterStep \/ WorkerStep \/ FetchHeartbeat
  PROVE  Frame
<1>1. CASE ReaperStep
  <2> USE DEF Frame, TypeInv, TypeOK, ProcOK, Go, client, control, history, marks
  <2>1. CASE SweepBegin BY <2>1 DEF SweepBegin
  <2>2. CASE SweepFiles BY <2>2 DEF SweepFiles
  <2>3. ASSUME NEW j \in Jobs, SweepOne(j) PROVE Frame BY <2>3 DEF SweepOne
  <2> QED BY <1>1, <2>1, <2>2, <2>3, FrameSettle DEF ReaperStep
<1>2. CASE BooterStep
  <2> USE DEF Frame, TypeInv, TypeOK, ProcOK, Go, client, history, marks
  <2>1. CASE Boot BY <2>1 DEF Boot
  <2>2. CASE BootDone BY <2>2 DEF BootDone
  <2>3. ASSUME NEW j \in Jobs, BootOne(j) PROVE Frame BY <2>3 DEF BootOne
  <2> QED BY <1>2, <2>1, <2>2, <2>3, FrameSettle DEF BooterStep
<1>3. CASE WorkerStep \/ FetchHeartbeat
  <2> USE DEF Frame, TypeInv, TypeOK, ProcOK, Go, RunEnds, client, control, history, marks
  <2>1. ASSUME NEW j \in Jobs, Dequeue(j) PROVE Frame BY <2>1 DEF Dequeue
  <2>2. CASE LoadRecord BY <2>2 DEF LoadRecord
  <2>3. CASE StartRun BY <2>3 DEF StartRun
  <2>4. CASE FetchOpen \/ FetchHeartbeat \/ FetchEnds
    BY <2>4 DEF FetchOpen, FetchHeartbeat, FetchEnds, FetchDone, FetchTooLarge
  <2>5. CASE BodyRaises BY <2>5 DEF BodyRaises
  <2>6. CASE MakeOutputDir \/ Decode BY <2>6 DEF MakeOutputDir, Decode
  <2>7. CASE ProgressCheck \/ ProgressSave BY <2>7 DEF ProgressCheck, ProgressSave
  <2>8. CASE Stamp BY <2>8 DEF Stamp
  <2>9. CASE CancelCleanup \/ Finish BY <2>9 DEF CancelCleanup, Finish
  <2>10. CASE Settle(Worker) BY <2>10, FrameSettle
  <2> QED BY <1>3, <2>1, <2>2, <2>3, <2>4, <2>5, <2>6, <2>7, <2>8, <2>9, <2>10
          DEF WorkerStep, Settle
<1> QED BY <1>1, <1>2, <1>3

\* Faults that strike a service.
ServiceFault ==
    \/ WorkerCrash \/ ReaperCrash \/ Timeout \/ TimeoutAtEnd \/ ReaperOutage \/ BooterOutage \/ WorkerOutage
    \/ \E p \in Procs \ Handlers : CancelSwallowed(p)

LEMMA FrameFaults ==
  ASSUME TypeInv, ServiceFault
  PROVE  Frame
<1> USE DEF Frame, TypeInv, TypeOK, ProcOK, Go, ReaperStops, RunInterrupted, RunEnds,
            client, history, marks
<1>1. CASE WorkerCrash BY <1>1 DEF WorkerCrash
<1>2. CASE ReaperCrash BY <1>2 DEF ReaperCrash
<1>3. CASE Timeout \/ TimeoutAtEnd BY <1>3 DEF Timeout, TimeoutAtEnd
<1>4. CASE ReaperOutage BY <1>4 DEF ReaperOutage
<1>5. CASE BooterOutage BY <1>5 DEF BooterOutage
<1>6. CASE WorkerOutage BY <1>6 DEF WorkerOutage
<1>7. ASSUME NEW p \in Procs \ Handlers, CancelSwallowed(p) PROVE Frame
  BY <1>7 DEF CancelSwallowed
<1> QED BY <1>1, <1>2, <1>3, <1>4, <1>5, <1>6, <1>7 DEF ServiceFault

LEMMA FrameTime ==
  ASSUME TypeInv, NEW j \in Jobs, GoesQuiet(j) \/ Expire(j) \/ Redispatch(j)
  PROVE  Frame
<1> USE DEF Frame, TypeInv, TypeOK, ProcOK, Go, client, control, history, marks
<1>1. CASE GoesQuiet(j) BY <1>1 DEF GoesQuiet
<1>2. CASE Expire(j) BY <1>2 DEF Expire
<1>3. CASE Redispatch(j) BY <1>3 DEF Redispatch
<1> QED BY <1>1, <1>2, <1>3

\* Every step is a request handler's, a fault of the API, a tombstone running
\* out, or within the frame.
LEMMA NextByActor ==
  ASSUME TypeInv, [Next]_vars
  PROVE  \/ Frame
         \/ \E h \in Handlers : Request(h) \/ HandlerStep(h) \/ HandlerOutage(h)
                                 \/ CancelSwallowed(h)
         \/ ApiCrash
         \/ \E j \in Jobs : TombExpires(j)
<1>1. CASE UNCHANGED vars BY <1>1 DEF vars, Frame, control, client, history, marks
<1>2. CASE ReaperStep \/ BooterStep \/ WorkerStep \/ FetchHeartbeat
  BY <1>2, FrameServices
<1>3. CASE Faults BY <1>3, FrameFaults DEF Faults, ServiceFault
<1>4. CASE TimePasses \/ \E j \in Jobs : Redispatch(j) BY <1>4, FrameTime DEF TimePasses
<1> QED BY <1>1, <1>2, <1>3, <1>4 DEF Next, Steps

LEMMA SubmitNext ==
  ASSUME TypeInv, SubmitInv, [Next]_vars
  PROVE  SubmitInv'
<1> USE DEF SubmitInv, TypeInv, TypeOK, ProcOK, ClientOK, CreatePCs, DeletePCs, SettlePCs,
            RestPCs, Go, client
<1>1. CASE Frame BY <1>1 DEF Frame
<1>2. ASSUME NEW h \in Handlers, Request(h) PROVE SubmitInv'
  <2>1. ASSUME NEW j \in Jobs, NEW s \in Sources, CreateBegin(h, j, s) PROVE SubmitInv'
    <3>1. s # "none" BY DEF SourceKinds
    <3>2. \A i \in Handlers : pc[i] \in CreatePCs => job[i] # j BY <2>1 DEF CreateBegin
    <3>3. j \notin known BY <2>1 DEF CreateBegin
    <3> QED BY <2>1, <3>1, <3>2, <3>3 DEF CreateBegin, AfterSubmit
  <2>2. ASSUME NEW j \in Jobs, GetStale(h, j) PROVE SubmitInv' BY <2>2 DEF GetStale
  <2>3. ASSUME NEW j \in Jobs, DeleteBegin(h, j) PROVE SubmitInv'
    BY <2>3 DEF DeleteBegin, AfterDelete
  <2> QED BY <1>2, <2>1, <2>2, <2>3 DEF Request
<1>3. ASSUME NEW h \in Handlers, HandlerStep(h) PROVE SubmitInv'
  <2>1. CASE CreateSave(h) BY <2>1 DEF CreateSave, AfterSubmit
  <2>2. CASE CreateEnqueue(h) BY <2>2 DEF CreateEnqueue, AfterSubmit
  <2>3. CASE CreateRespond(h) BY <2>3 DEF CreateRespond
  <2>4. CASE RequestCancel(h) BY <2>4 DEF RequestCancel, AfterDelete
  <2>5. CASE CancelRQ(h) BY <2>5 DEF CancelRQ, AfterDelete
  <2>6. CASE DeleteRecord(h) BY <2>6 DEF DeleteRecord, AfterDelete
  <2>7. CASE RemoveFiles(h) \/ RemoveInbox(h) BY <2>7 DEF RemoveFiles, RemoveInbox
  <2>8. CASE Settle(h) BY <2>8, SettleMoves DEF Rest
  <2> QED BY <1>3, <2>1, <2>2, <2>3, <2>4, <2>5, <2>6, <2>7, <2>8 DEF HandlerStep
<1>4. ASSUME NEW h \in Handlers, HandlerOutage(h) \/ CancelSwallowed(h) PROVE SubmitInv'
  BY <1>4 DEF HandlerOutage, CancelSwallowed, AfterDelete
<1>5. CASE ApiCrash BY <1>5 DEF ApiCrash
<1>6. ASSUME NEW j \in Jobs, TombExpires(j) PROVE SubmitInv'
  BY <1>6 DEF TombExpires, control
<1> QED BY <1>1, <1>2, <1>3, <1>4, <1>5, <1>6, NextByActor

LEMMA DeleteNext ==
  ASSUME TypeInv, SubmitInv, DeleteInv, [Next]_vars
  PROVE  DeleteInv'
<1> USE DEF DeleteInv, TypeInv, TypeOK, ProcOK, StoreOK, ClientOK, CreatePCs, DeletePCs, SettlePCs,
            RestPCs, Go, client, history, marks
<1>1. CASE Frame BY <1>1 DEF Frame
<1>2. ASSUME NEW h \in Handlers, Request(h) PROVE DeleteInv'
  <2>1. ASSUME NEW j \in Jobs, NEW s \in Sources, CreateBegin(h, j, s) PROVE DeleteInv'
    BY <2>1 DEF CreateBegin, AfterSubmit
  <2>2. ASSUME NEW j \in Jobs, GetStale(h, j) PROVE DeleteInv' BY <2>2 DEF GetStale
  <2>3. ASSUME NEW j \in Jobs, DeleteBegin(h, j) PROVE DeleteInv'
    BY <2>3 DEF DeleteBegin, AfterDelete
  <2> QED BY <1>2, <2>1, <2>2, <2>3 DEF Request
<1>3. ASSUME NEW h \in Handlers, HandlerStep(h) PROVE DeleteInv'
  <2>1. CASE CreateSave(h) BY <2>1 DEF CreateSave, AfterSubmit
  <2>2. CASE CreateEnqueue(h) BY <2>2 DEF CreateEnqueue, AfterSubmit
  <2>3. CASE CreateRespond(h) BY <2>3 DEF CreateRespond
  <2>4. CASE RequestCancel(h) BY <2>4 DEF RequestCancel, AfterDelete
  <2>5. CASE CancelRQ(h) BY <2>5 DEF CancelRQ, AfterDelete
  <2>6. CASE DeleteRecord(h) BY <2>6 DEF DeleteRecord, AfterDelete
  <2>7. CASE RemoveFiles(h) \/ RemoveInbox(h) BY <2>7 DEF RemoveFiles, RemoveInbox
  <2>8. CASE Settle(h) BY <2>8, SettleMoves DEF Rest
  <2> QED BY <1>3, <2>1, <2>2, <2>3, <2>4, <2>5, <2>6, <2>7, <2>8 DEF HandlerStep
<1>4. ASSUME NEW h \in Handlers, HandlerOutage(h) \/ CancelSwallowed(h) PROVE DeleteInv'
  BY <1>4 DEF HandlerOutage, CancelSwallowed, AfterDelete
<1>5. CASE ApiCrash BY <1>5 DEF ApiCrash
<1>6. ASSUME NEW j \in Jobs, TombExpires(j) PROVE DeleteInv'
  BY <1>6 DEF TombExpires, InFlight, control
<1> QED BY <1>1, <1>2, <1>3, <1>4, <1>5, <1>6, NextByActor

\* A process that has a buried job in hand stays away from its record.
LEMMA BuriedRequest ==
  ASSUME TypeInv, SubmitInv, DeleteInv, NEW j \in deleted, Buried(j),
         NEW h \in Handlers, Request(h)
  PROVE  Buried(j)'
<1> USE DEF Buried, CommittedToWrite, CreatePCs, DeletePCs, SettlePCs, RestPCs, Go, Save, Erase,
            Leave, Rest, TypeInv, TypeOK, ProcOK, StoreOK, RunOK,
            records, disk, control, lists, run, client, history, marks
<1>1. ASSUME NEW i \in Jobs, NEW s \in Sources, CreateBegin(h, i, s) PROVE Buried(j)'
  <2>1. i # j BY <1>1 DEF CreateBegin, SubmitInv, DeleteInv
  <2> QED BY <1>1, <2>1 DEF CreateBegin
<1>2. ASSUME NEW i \in Jobs, GetStale(h, i) PROVE Buried(j)'
  <2>1. i # j BY <1>2 DEF GetStale, IsStale
  <2> QED BY <1>2, <2>1 DEF GetStale
<1>3. ASSUME NEW i \in Jobs, DeleteBegin(h, i) PROVE Buried(j)'
  BY <1>3 DEF DeleteBegin, AfterDelete
<1> QED BY <1>1, <1>2, <1>3 DEF Request

LEMMA BuriedSettle ==
  ASSUME TypeInv, NEW j \in Jobs, Buried(j), NEW p \in Procs, Settle(p)
  PROVE  Buried(j)'
<1> USE DEF Buried, CommittedToWrite, CreatePCs, DeletePCs, SettlePCs, RestPCs, Go, Save, Erase,
            Leave, Rest, TypeInv, TypeOK, ProcOK, StoreOK, RunOK,
            records, disk, control, lists, run, client, history, marks
<1>1. CASE Repudiate(p) BY <1>1 DEF Repudiate
<1>2. CASE SettleCheck(p)
  <2>1. CASE job[p] = j
    <3>1. tomb[j] /\ pc[p] = "check" BY <1>2, <2>1 DEF SettleCheck
    <3>2. Leave(p) BY <1>2, <2>1, <3>1 DEF SettleCheck, IsCancelled
    <3>3. UNCHANGED <<status, tomb, toAbandon>> BY <1>2 DEF SettleCheck
    <3> QED BY <2>1, <3>1, <3>2, <3>3
  <2>2. CASE job[p] # j BY <1>2, <2>2 DEF SettleCheck
  <2> QED BY <2>1, <2>2
<1>3. CASE SettleSave(p) BY <1>3 DEF SettleSave
<1>4. CASE Notify(p) BY <1>4 DEF Notify, Post
<1> QED BY <1>1, <1>2, <1>3, <1>4 DEF Settle

LEMMA BuriedHandler ==
  ASSUME TypeInv, SubmitInv, DeleteInv, NEW j \in deleted, Buried(j),
         NEW h \in Handlers, HandlerStep(h)
  PROVE  Buried(j)'
<1> USE DEF Buried, CommittedToWrite, CreatePCs, DeletePCs, SettlePCs, RestPCs, Go, Save, Erase,
            Leave, Rest, TypeInv, TypeOK, ProcOK, StoreOK, RunOK,
            records, disk, control, lists, run, client, history, marks
<1>1. CASE CreateSave(h) BY <1>1 DEF CreateSave, AfterSubmit, ClientOK
<1>2. CASE CreateEnqueue(h) BY <1>2 DEF CreateEnqueue, AfterSubmit, ClientOK
<1>3. CASE CreateRespond(h) BY <1>3 DEF CreateRespond, ClientOK
<1>4. CASE RequestCancel(h) BY <1>4 DEF RequestCancel, AfterDelete, ClientOK
<1>5. CASE CancelRQ(h) BY <1>5 DEF CancelRQ, AfterDelete, ClientOK
<1>6. CASE DeleteRecord(h) BY <1>6 DEF DeleteRecord, AfterDelete, ClientOK
<1>7. CASE RemoveFiles(h) BY <1>7 DEF RemoveFiles, ClientOK
<1>9. CASE RemoveInbox(h) BY <1>9 DEF RemoveInbox, ClientOK
<1>8. CASE Settle(h) BY <1>8, BuriedSettle DEF ClientOK
<1> QED BY <1>1, <1>2, <1>3, <1>4, <1>5, <1>6, <1>7, <1>8, <1>9 DEF HandlerStep

\* The DELETE that finds nobody committed to a write buries its job.
LEMMA DeleteBuries ==
  ASSUME TypeInv, SubmitInv, DeleteInv, NEW h \in Handlers, DeleteRecord(h),
         NEW j, j = job[h], j \notin raced'
  PROVE  Buried(j)'
<1> USE DEF Buried, CommittedToWrite, CreatePCs, DeletePCs, SettlePCs, RestPCs, Go, Save, Erase,
            Leave, Rest, TypeInv, TypeOK, ProcOK, StoreOK, RunOK,
            records, disk, control, lists, run, client, history, marks
<1>1. j \in Jobs /\ tomb[j] /\ j \in known
  BY DEF DeleteRecord, DeleteInv
<1>2. \A q \in Procs : job[q] = j => pc[q] \notin CommittedToWrite
  BY DEF DeleteRecord
<1>3. \A q \in Procs : job[q] = j => pc[q] \notin CreatePCs
  BY <1>1 DEF SubmitInv, HandlerPCs, ReaperPCs, BooterPCs, WorkerPCs, BodyPCs
<1> QED BY <1>1, <1>2, <1>3 DEF DeleteRecord, AfterDelete

LEMMA BuriedWorker ==
  ASSUME TypeInv, NEW j \in Jobs, Buried(j), WorkerStep \/ FetchHeartbeat
  PROVE  Buried(j)'
<1> USE DEF Buried, CommittedToWrite, CreatePCs, DeletePCs, SettlePCs, RestPCs, BodyPCs, Go, Save,
            Erase, TypeInv, TypeOK, ProcOK, StoreOK, RunOK,
            records, disk, control, lists, run, client, history, marks
<1>1. ASSUME NEW i \in Jobs, Dequeue(i) PROVE Buried(j)' BY <1>1 DEF Dequeue
<1>2. CASE LoadRecord BY <1>2 DEF LoadRecord, RunEnds
<1>3. CASE StartRun BY <1>3 DEF StartRun
<1>4. CASE FetchOpen BY <1>4 DEF FetchOpen
<1>5. CASE FetchHeartbeat BY <1>5 DEF FetchHeartbeat
<1>6. CASE FetchDone BY <1>6 DEF FetchDone
<1>7. CASE FetchTooLarge BY <1>7 DEF FetchTooLarge
<1>8. CASE BodyRaises BY <1>8 DEF BodyRaises
<1>9. CASE MakeOutputDir BY <1>9 DEF MakeOutputDir
<1>10. CASE Decode BY <1>10 DEF Decode
<1>11. CASE ProgressCheck BY <1>11 DEF ProgressCheck, IsCancelled
<1>12. CASE ProgressSave BY <1>12 DEF ProgressSave
<1>13. CASE Stamp BY <1>13 DEF Stamp
<1>14. CASE CancelCleanup BY <1>14 DEF CancelCleanup
<1>15. CASE Finish BY <1>15 DEF Finish, RunEnds
<1>16. CASE Settle(Worker) BY <1>16, BuriedSettle
<1> QED BY <1>1, <1>2, <1>3, <1>4, <1>5, <1>6, <1>7, <1>8, <1>9, <1>10, <1>11, <1>12, <1>13, <1>14, <1>15, <1>16
        DEF WorkerStep, FetchEnds, Settle

LEMMA BuriedServices ==
  ASSUME TypeInv, NEW j \in Jobs, Buried(j), ReaperStep \/ BooterStep
  PROVE  Buried(j)'
<1> USE DEF Buried, CommittedToWrite, CreatePCs, DeletePCs, SettlePCs, RestPCs, BodyPCs, Go, Save,
            Erase, TypeInv, TypeOK, ProcOK, StoreOK, RunOK,
            records, disk, control, lists, run, client, history, marks
<1>1. CASE SweepBegin BY <1>1 DEF SweepBegin
<1>2. CASE SweepFiles BY <1>2 DEF SweepFiles
<1>3. ASSUME NEW i \in Jobs, SweepOne(i) PROVE Buried(j)'
  <2>1. CASE IsStale(i)
    <3>1. i # j BY <2>1 DEF IsStale
    <3> QED BY <1>3, <2>1, <3>1 DEF SweepOne
  <2>2. CASE ~IsStale(i) BY <1>3, <2>2 DEF SweepOne
  <2> QED BY <2>1, <2>2
<1>4. CASE Boot BY <1>4 DEF Boot, BootOrphans
<1>5. CASE BootDone
  <2>1. job[Worker] = NoJob /\ job[Booter] = NoJob BY <1>5 DEF BootDone, BootOK
  <2>2. j # NoJob OBVIOUS
  <2> QED BY <1>5, <2>1, <2>2 DEF BootDone
<1>6. ASSUME NEW i \in Jobs, BootOne(i) PROVE Buried(j)' BY <1>6 DEF BootOne
<1> QED BY <1>1, <1>2, <1>3, <1>4, <1>5, <1>6, BuriedSettle DEF ReaperStep, BooterStep

LEMMA BuriedTime ==
  ASSUME TypeInv, NEW j \in Jobs, Buried(j), TimePasses \/ \E i \in Jobs : Redispatch(i)
  PROVE  Buried(j)'
<1> USE DEF Buried, CommittedToWrite, CreatePCs, DeletePCs, SettlePCs, RestPCs, BodyPCs, Go, Save,
            Erase, TypeInv, TypeOK, ProcOK, StoreOK, RunOK,
            records, disk, control, lists, run, client, history, marks
<1>1. ASSUME NEW i \in Jobs, GoesQuiet(i) PROVE Buried(j)' BY <1>1 DEF GoesQuiet
<1>2. ASSUME NEW i \in Jobs, Expire(i) PROVE Buried(j)' BY <1>2 DEF Expire
<1>3. ASSUME NEW i \in Jobs, TombExpires(i) PROVE Buried(j)'
  BY <1>3 DEF TombExpires, InFlight
<1>4. ASSUME NEW i \in Jobs, Redispatch(i) PROVE Buried(j)' BY <1>4 DEF Redispatch
<1> QED BY <1>1, <1>2, <1>3, <1>4 DEF TimePasses

LEMMA BuriedFaults ==
  ASSUME TypeInv, SubmitInv, DeleteInv, NEW j \in deleted, Buried(j), Faults
  PROVE  Buried(j)'
<1> USE DEF Buried, CommittedToWrite, CreatePCs, DeletePCs, SettlePCs, RestPCs, BodyPCs, Go, Save,
            Erase, TypeInv, TypeOK, ProcOK, StoreOK, RunOK, ClientOK,
            records, disk, control, lists, run, client, history, marks
<1>1. CASE WorkerCrash BY <1>1 DEF WorkerCrash
<1>2. CASE ApiCrash BY <1>2 DEF ApiCrash
<1>3. CASE ReaperCrash BY <1>3 DEF ReaperCrash, ReaperStops
<1>4. CASE Timeout BY <1>4 DEF Timeout, RunInterrupted
<1>11. CASE TimeoutAtEnd BY <1>11 DEF TimeoutAtEnd, RunEnds
<1>5. ASSUME NEW p \in Procs, MaybeWritten(p), pc[p] \notin RestPCs PROVE status'[j] = "none"
  BY <1>5 DEF MaybeWritten
<1>6. ASSUME NEW h \in Handlers, HandlerOutage(h) PROVE Buried(j)'
  BY <1>5, <1>6, SMTT(30) DEF HandlerOutage
<1>7. CASE ReaperOutage
  <2>1. status'[j] = "none" BY <1>7 DEF ReaperOutage, MaybeWritten
  <2> QED BY <1>7, <2>1 DEF ReaperOutage, ReaperStops
<1>8. CASE BooterOutage BY <1>5, <1>8 DEF BooterOutage
<1>9. CASE WorkerOutage
  <2>1. status'[j] = "none" BY <1>5, <1>9 DEF WorkerOutage
  <2>2. UNCHANGED <<tomb, toAbandon>> BY <1>9 DEF WorkerOutage
  <2>3. CASE RunEnds BY <2>1, <2>2, <2>3 DEF RunEnds
  <2>4. CASE RunInterrupted /\ pc[Worker] # "popped"
    BY <2>1, <2>2, <2>4 DEF RunInterrupted, WorkerPCs
  <2> QED BY <1>9, <2>3, <2>4 DEF WorkerOutage
<1>10. ASSUME NEW p \in Procs, CancelSwallowed(p) PROVE Buried(j)'
  BY <1>10 DEF CancelSwallowed, AfterDelete
<1> QED BY <1>1, <1>2, <1>3, <1>4, <1>6, <1>7, <1>8, <1>9, <1>10, <1>11 DEF Faults

\* Deletions are a DELETE's alone, and none is forgotten.
LEMMA DeletedBy ==
  ASSUME TypeInv, [Next]_vars
  PROVE  \/ deleted' = deleted /\ raced' = raced
         \/ \E h \in Handlers : DeleteRecord(h)
<1> USE DEF history, marks, client
<1>1. CASE Frame BY <1>1 DEF Frame
<1>2. ASSUME NEW h \in Handlers, Request(h) PROVE deleted' = deleted /\ raced' = raced
  BY <1>2 DEF Request, CreateBegin, GetStale, DeleteBegin
<1>3. ASSUME NEW h \in Handlers, HandlerStep(h), ~DeleteRecord(h)
      PROVE  deleted' = deleted /\ raced' = raced
  <2>1. CASE Settle(h) BY <2>1, SettleMoves
  <2> QED BY <1>3, <2>1 DEF HandlerStep, CreateSave, CreateEnqueue, CreateRespond,
                RequestCancel, CancelRQ, RemoveFiles, RemoveInbox
<1>4. ASSUME NEW h \in Handlers, HandlerOutage(h) \/ CancelSwallowed(h)
      PROVE  deleted' = deleted /\ raced' = raced
  BY <1>4 DEF HandlerOutage, CancelSwallowed
<1>5. CASE ApiCrash BY <1>5 DEF ApiCrash
<1>6. ASSUME NEW j \in Jobs, TombExpires(j) PROVE deleted' = deleted /\ raced' = raced
  BY <1>6 DEF TombExpires
<1> QED BY <1>1, <1>2, <1>3, <1>4, <1>5, <1>6, NextByActor

LEMMA TombNext ==
  ASSUME TypeInv, SubmitInv, DeleteInv, TombInv, [Next]_vars
  PROVE  TombInv'
<1>1. SUFFICES ASSUME NEW j \in deleted' \ raced' PROVE Buried(j)'
  BY DEF TombInv
<1>2. ASSUME NEW h \in Handlers, DeleteRecord(h), j = job[h] PROVE Buried(j)'
  BY <1>1, <1>2, DeleteBuries
<1>3. ASSUME ~(\E h \in Handlers : DeleteRecord(h) /\ j = job[h]) PROVE Buried(j)'
  <2>1. j \in deleted /\ Buried(j)
    BY <1>1, <1>3, DeletedBy DEF TombInv, DeleteRecord
  <2>2. j \in Jobs BY <2>1 DEF TypeInv, TypeOK, ClientOK
  <2>3. CASE UNCHANGED vars BY <2>1, <2>3 DEF Buried, vars, records, control, lists
  <2> QED BY <2>1, <2>2, <2>3, BuriedRequest, BuriedHandler, BuriedWorker, BuriedServices,
             BuriedTime, BuriedFaults DEF Next, Steps
<1> QED BY <1>2, <1>3

-----------------------------------------------------------------------------
(* The stems of a succeeded job.                                             *)

\* A step that leaves the run and the outputs alone, forgets no deletion and
\* makes no record say succeeded, nor one that did any younger.
StemsFrame ==
    /\ pc'[Worker] = pc[Worker] /\ job'[Worker] = job[Worker]
    /\ UNCHANGED <<outcome, out>>
    /\ deleted \subseteq deleted' /\ raced \subseteq raced'
    /\ \A j \in Jobs : status'[j] = "succeeded" =>
           status[j] = "succeeded" /\ (quiet[j] => quiet'[j])

LEMMA StemsByFrame ==
  ASSUME TypeInv, StemsInv, StemsFrame
  PROVE  StemsInv'
<1>1. StemsOrRaced' BY DEF StemsInv, StemsFrame, StemsOrRaced
<1>2. pc'[Worker] = pc[Worker] /\ job'[Worker] = job[Worker] /\ outcome' = outcome /\ out' = out
  BY DEF StemsFrame
<1>3. deleted \subseteq deleted' BY DEF StemsFrame
<1>4. \A j \in Jobs : status'[j] = "succeeded" => status[j] = "succeeded" BY DEF StemsFrame
<1> HIDE DEF StemsFrame, StemsOrRaced
<1> QED BY <1>1, <1>2, <1>3, <1>4 DEF TypeInv, TypeOK, ProcOK, StemsInv, RestPCs, BodyPCs

LEMMA StemsHandler ==
  ASSUME TypeInv, NEW h \in Handlers, Request(h) \/ HandlerStep(h), ~RemoveFiles(h)
  PROVE  StemsFrame
<1> USE DEF StemsFrame, TypeInv, TypeOK, StoreOK, ProcOK, Go, Save, Erase, records,
            disk, run, history, marks
<1>1. CASE Request(h) BY <1>1 DEF Request, CreateBegin, GetStale, DeleteBegin
<1>2. CASE CreateSave(h) BY <1>2 DEF CreateSave
<1>3. CASE CreateEnqueue(h) \/ CreateRespond(h) BY <1>3 DEF CreateEnqueue, CreateRespond
<1>4. CASE RequestCancel(h) \/ CancelRQ(h) BY <1>4 DEF RequestCancel, CancelRQ
<1>5. CASE DeleteRecord(h) BY <1>5 DEF DeleteRecord
<1>6. CASE Repudiate(h) \/ SettleCheck(h) BY <1>6 DEF Repudiate, SettleCheck, Leave
<1>7. CASE SettleSave(h) BY <1>7 DEF SettleSave, Outcome
<1>8. CASE Notify(h) BY <1>8 DEF Notify, Post, Leave
<1>9. CASE RemoveInbox(h) BY <1>9 DEF RemoveInbox
<1> QED BY <1>1, <1>2, <1>3, <1>4, <1>5, <1>6, <1>7, <1>8, <1>9 DEF HandlerStep, Settle

LEMMA StemsServices ==
  ASSUME TypeInv, ReaperStep \/ BooterStep, ~SweepFiles, ~BootDone
  PROVE  StemsFrame
<1> USE DEF StemsFrame, TypeInv, TypeOK, StoreOK, ProcOK, Go, Save, records,
            disk, control, run, history, marks
<1>1. ASSUME NEW p \in {Reaper, Booter}, Settle(p) PROVE StemsFrame
  <2>1. CASE Repudiate(p) \/ SettleCheck(p) BY <2>1 DEF Repudiate, SettleCheck, Leave
  <2>2. CASE SettleSave(p) BY <2>2 DEF SettleSave, Outcome
  <2>3. CASE Notify(p) BY <2>3 DEF Notify, Post, Leave
  <2> QED BY <1>1, <2>1, <2>2, <2>3 DEF Settle
<1>2. CASE SweepBegin BY <1>2 DEF SweepBegin
<1>3. ASSUME NEW j \in Jobs, SweepOne(j) PROVE StemsFrame BY <1>3 DEF SweepOne
<1>4. CASE Boot BY <1>4 DEF Boot
<1>5. ASSUME NEW j \in Jobs, BootOne(j) PROVE StemsFrame BY <1>5 DEF BootOne
<1> QED BY <1>1, <1>2, <1>3, <1>4, <1>5 DEF ReaperStep, BooterStep

LEMMA StemsFaults ==
  ASSUME TypeInv, Faults, ~WorkerCrash, ~Timeout, ~TimeoutAtEnd, ~WorkerOutage
  PROVE  StemsFrame
<1> USE DEF StemsFrame, TypeInv, TypeOK, StoreOK, ProcOK, Go, Save, records,
            disk, run, history, marks
<1>1. ASSUME NEW p \in Procs \ {Worker}, MaybeWritten(p), pc[p] \notin {"loaded"}
      PROVE  \A j \in Jobs : status'[j] = "succeeded" =>
                 status[j] = "succeeded" /\ (quiet[j] => quiet'[j])
  BY <1>1 DEF MaybeWritten, Outcome
<1>2. CASE ApiCrash BY <1>2 DEF ApiCrash
<1>3. CASE ReaperCrash BY <1>3 DEF ReaperCrash, ReaperStops
<1>4. ASSUME NEW h \in Handlers, HandlerOutage(h) PROVE StemsFrame
  BY <1>1, <1>4 DEF HandlerOutage, CreatePCs
<1>5. CASE ReaperOutage BY <1>1, <1>5 DEF ReaperOutage, ReaperStops
<1>6. CASE BooterOutage BY <1>1, <1>6 DEF BooterOutage
<1>7. ASSUME NEW p \in Procs, CancelSwallowed(p) PROVE StemsFrame
  <2>1. p # Worker BY <1>7 DEF CancelSwallowed, WorkerPCs, BodyPCs, SettlePCs
  <2> QED BY <1>7, <2>1 DEF CancelSwallowed
<1> QED BY <1>2, <1>3, <1>4, <1>5, <1>6, <1>7 DEF Faults

LEMMA StemsTime ==
  ASSUME TypeInv, NEW j \in Jobs, GoesQuiet(j) \/ Expire(j) \/ TombExpires(j)
  PROVE  StemsFrame
<1> USE DEF StemsFrame, TypeInv, TypeOK, StoreOK, ProcOK, Erase, records, disk, control, run, history, marks
<1>1. CASE GoesQuiet(j) BY <1>1 DEF GoesQuiet
<1>2. CASE Expire(j) BY <1>2 DEF Expire
<1>3. CASE TombExpires(j) BY <1>3 DEF TombExpires
<1> QED BY <1>1, <1>2, <1>3

\* The files go only from under a record that does not say succeeded, or is due to
\* expire.
LEMMA StemsRemoved ==
  ASSUME TypeInv, DeleteInv, TombInv, StemsInv,
         SweepFiles \/ \E h \in Handlers : RemoveFiles(h)
  PROVE  StemsInv'
<1> USE DEF StemsInv, StemsOrRaced, TypeInv, TypeOK, StoreOK, ProcOK, RestPCs, BodyPCs, Go,
            records, disk, control, run, history, marks
<1>1. CASE SweepFiles BY <1>1 DEF SweepFiles, SweepableOut, Executing
<1>2. ASSUME NEW h \in Handlers, RemoveFiles(h) PROVE StemsInv'
  <2>1. job[h] \in deleted /\ (job[h] \notin raced => status[job[h]] = "none")
    BY <1>2 DEF RemoveFiles, DeleteInv, TombInv, Buried
  <2> QED BY <1>2, <2>1 DEF RemoveFiles
<1> QED BY <1>1, <1>2

\* The run itself: what it is about to report, it has.
LEMMA StemsWorker ==
  ASSUME TypeInv, TombInv, StemsInv, WorkerStep \/ FetchHeartbeat
  PROVE  StemsInv'
<1> USE DEF StemsInv, StemsOrRaced, TypeInv, TypeOK, StoreOK, ProcOK, RestPCs, BodyPCs, Go, Save,
            records, disk, control, run, history, marks
<1>1. ASSUME NEW i \in Jobs, Dequeue(i) PROVE StemsInv' BY <1>1 DEF Dequeue
<1>2. CASE LoadRecord BY <1>2 DEF LoadRecord, RunEnds
<1>3. CASE StartRun BY <1>3 DEF StartRun
<1>4. CASE FetchOpen BY <1>4 DEF FetchOpen
<1>5. CASE FetchHeartbeat BY <1>5 DEF FetchHeartbeat
<1>6. CASE FetchDone BY <1>6 DEF FetchDone
<1>7. CASE FetchTooLarge BY <1>7 DEF FetchTooLarge
<1>8. CASE BodyRaises BY <1>8 DEF BodyRaises
<1>9. CASE MakeOutputDir BY <1>9 DEF MakeOutputDir
<1>10. CASE Decode BY <1>10 DEF Decode
<1>11. CASE ProgressCheck BY <1>11 DEF ProgressCheck
<1>12. CASE ProgressSave BY <1>12 DEF ProgressSave
<1>13. CASE Stamp BY <1>13 DEF Stamp
<1>14. CASE CancelCleanup BY <1>14 DEF CancelCleanup
<1>15. CASE Finish BY <1>15 DEF Finish, RunEnds
<1>16. CASE SettleCheck(Worker) BY <1>16 DEF SettleCheck, Leave, Rest
<1>17. CASE SettleSave(Worker)
  <2>1. job[Worker] \in deleted => job[Worker] \in raced
    BY <1>17 DEF SettleSave, TombInv, Buried, CommittedToWrite
  <2> QED BY <1>17, <2>1 DEF SettleSave, Outcome
<1>18. CASE Notify(Worker) BY <1>18 DEF Notify, Post, Leave, Rest
<1> QED BY <1>1, <1>2, <1>3, <1>4, <1>5, <1>6, <1>7, <1>8, <1>9, <1>10, <1>11, <1>12, <1>13, <1>14, <1>15, <1>16, <1>17, <1>18
        DEF WorkerStep, FetchEnds

\* A run that is interrupted, lost or begun anew has nothing to report yet.
LEMMA StemsInterrupted ==
  ASSUME TypeInv, TombInv, StemsInv,
         WorkerCrash \/ Timeout \/ TimeoutAtEnd \/ WorkerOutage \/ BootDone \/ \E j \in Jobs : Redispatch(j)
  PROVE  StemsInv'
<1> USE DEF StemsInv, StemsOrRaced, TypeInv, TypeOK, StoreOK, ProcOK, RestPCs, BodyPCs, Go, Save,
            records, disk, control, run, history, marks
<1>1. CASE WorkerCrash BY <1>1 DEF WorkerCrash
<1>2. CASE Timeout BY <1>2 DEF Timeout, RunInterrupted
<1>6. CASE TimeoutAtEnd BY <1>6 DEF TimeoutAtEnd, RunEnds
<1>3. CASE WorkerOutage
  <2>1. UNCHANGED <<out, deleted, raced>> BY <1>3 DEF WorkerOutage
  <2>2. \A j \in Jobs : status'[j] = "succeeded" /\ ~quiet'[j] =>
           (status[j] = "succeeded" /\ ~quiet[j]) \/ out[j] = "stems" \/ j \in raced
    <3>1. CASE UNCHANGED records BY <3>1
    <3>2. CASE pc[Worker] \in {"loaded", "download", "report"} /\ Save(job[Worker], "running")
      BY <3>2
    <3>3. CASE pc[Worker] = "save" /\ Save(job[Worker], Outcome(Worker))
      BY <3>3 DEF Outcome, TombInv, Buried, CommittedToWrite
    <3>4. pc[Worker] # "create_save" BY DEF WorkerPCs, SettlePCs
    <3> QED BY <1>3, <3>1, <3>2, <3>3, <3>4 DEF WorkerOutage, MaybeWritten
  <2>3. CASE RunEnds BY <2>1, <2>2, <2>3 DEF RunEnds
  <2>4. CASE RunInterrupted BY <2>1, <2>2, <2>4 DEF RunInterrupted
  <2> QED BY <1>3, <2>3, <2>4 DEF WorkerOutage
<1>4. CASE BootDone BY <1>4 DEF BootDone
<1>5. ASSUME NEW j \in Jobs, Redispatch(j) PROVE StemsInv' BY <1>5 DEF Redispatch
<1> QED BY <1>1, <1>2, <1>3, <1>4, <1>5, <1>6

LEMMA StemsNext ==
  ASSUME TypeInv, DeleteInv, TombInv, StemsInv, [Next]_vars
  PROVE  StemsInv'
<1>1. CASE UNCHANGED vars
  BY <1>1, StemsByFrame DEF StemsFrame, vars, records, disk, control, run, history, marks
<1>2. ASSUME NEW h \in Handlers, Request(h) \/ HandlerStep(h) PROVE StemsInv'
  BY <1>2, StemsHandler, StemsByFrame, StemsRemoved
<1>3. CASE ReaperStep \/ BooterStep
  BY <1>3, StemsServices, StemsByFrame, StemsRemoved, StemsInterrupted
<1>4. CASE WorkerStep \/ FetchHeartbeat BY <1>4, StemsWorker
<1>5. CASE Faults BY <1>5, StemsFaults, StemsByFrame, StemsInterrupted
<1>6. CASE TimePasses BY <1>6, StemsTime, StemsByFrame DEF TimePasses
<1>7. ASSUME NEW j \in Jobs, Redispatch(j) PROVE StemsInv' BY <1>7, StemsInterrupted
<1> QED BY <1>1, <1>2, <1>3, <1>4, <1>5, <1>6, <1>7 DEF Next, Steps

-----------------------------------------------------------------------------
(* The announcement of a settled job.                                        *)

\* Struck(j) after the step, for the j of before it.
StruckNow(j) == \E kind \in FaultKinds : <<j, kind>> \in struck'

\* What every step but settle's write leaves true of outcomes and webhooks: no
\* outcome is stored anew, and who was about to announce one still is, has done
\* so, or has been struck.
AnnounceFrame ==
    /\ struck \subseteq struck'
    /\ \A j \in Jobs, o \in Terminal : posted[j][o] > 0 => posted'[j][o] > 0
    /\ \A j \in Jobs : status'[j] \in Terminal => status'[j] = status[j] \/ StruckNow(j)
    /\ \A p \in Procs : pc[p] = "notify" =>
           \/ pc'[p] = "notify" /\ job'[p] = job[p] /\ Outcome(p)' = Outcome(p)
           \/ StruckNow(job[p])
           \/ posted'[job[p]][Outcome(p)] > 0

LEMMA AnnouncedByFrame ==
  ASSUME TypeInv, SettledIsAnnounced, AnnounceFrame
  PROVE  SettledIsAnnounced'
<1> SUFFICES ASSUME NEW j \in Jobs, status'[j] \in Terminal, ~StruckNow(j)
    PROVE  \/ posted'[j][status'[j]] > 0
           \/ \E p \in Procs : job'[p] = j /\ pc'[p] = "notify" /\ Outcome(p)' = status'[j]
  BY DEF SettledIsAnnounced, Struck, StruckNow
<1>1. status'[j] = status[j] BY DEF AnnounceFrame
<1>2. ~Struck(j) BY DEF AnnounceFrame, Struck, StruckNow
<1>3. CASE posted[j][status[j]] > 0 BY <1>1, <1>3 DEF AnnounceFrame
<1>4. ASSUME NEW p \in Procs, job[p] = j, pc[p] = "notify", Outcome(p) = status[j]
      PROVE  \/ posted'[j][status'[j]] > 0
             \/ job'[p] = j /\ pc'[p] = "notify" /\ Outcome(p)' = status'[j]
  BY <1>1, <1>4 DEF AnnounceFrame
<1> QED BY <1>1, <1>2, <1>3, <1>4 DEF SettledIsAnnounced

\* One more webhook, and none taken back.
LEMMA PostCounts ==
  ASSUME ClientOK, ProcOK, RunOK, NEW p \in Procs, pc[p] = "notify", Post(p)
  PROVE  /\ \A j \in Jobs, o \in Terminal : posted[j][o] > 0 => posted'[j][o] > 0
         /\ posted'[job[p]][Outcome(p)] > 0
<1>1. job[p] \in Jobs BY DEF ProcOK, RestPCs
<1>2. Outcome(p) \in Terminal BY DEF Outcome, RunOK, Terminal
<1>3. posted \in [Jobs -> [Terminal -> 0..2]] BY DEF ClientOK
<1> DEFINE new == IF posted[job[p]][Outcome(p)] < 2 THEN posted[job[p]][Outcome(p)] + 1
                                                    ELSE posted[job[p]][Outcome(p)]
<1>4. new > 0 BY <1>1, <1>2, <1>3
<1>5. posted' = [posted EXCEPT ![job[p]][Outcome(p)] = new] BY DEF Post
<1> HIDE DEF new
<1> QED BY <1>1, <1>2, <1>3, <1>4, <1>5

\* A fault strikes what its processes have in hand.
LEMMA FaultStrikes ==
  ASSUME ProcOK, NEW kind \in FaultKinds, NEW P \in SUBSET Procs, Fault(kind, P)
  PROVE  /\ struck \subseteq struck'
         /\ \A p \in P : pc[p] \notin RestPCs => StruckNow(job[p])
<1>1. \A p \in P : pc[p] \notin RestPCs => <<job[p], kind>> \in struck'
  BY DEF Fault, ProcOK
<1> QED BY <1>1 DEF Fault, StruckNow

\* Whoever settles, writes last and announces next.
LEMMA AnnouncedSettle ==
  ASSUME TypeInv, SettledIsAnnounced, NEW p \in Procs, Settle(p)
  PROVE  SettledIsAnnounced'
<1> USE DEF TypeInv, TypeOK, ProcOK, StoreOK, SettlePCs, RestPCs, Go, records, disk, control, lists,
            run, client, history, marks
<1>1. CASE SettleSave(p)
  <2>1. job[p] \in Jobs /\ job'[p] = job[p] /\ pc'[p] = "notify" /\ Outcome(p)' = Outcome(p)
    BY <1>1 DEF SettleSave, Outcome
  <2>2. status' = [status EXCEPT ![job[p]] = Outcome(p)] BY <1>1 DEF SettleSave, Save
  <2>3. \A q \in Procs : pc[q] = "notify" => pc'[q] = "notify" /\ job'[q] = job[q]
                                              /\ Outcome(q)' = Outcome(q)
    BY <1>1 DEF SettleSave, Outcome
  <2>4. UNCHANGED <<posted, struck>> BY <1>1 DEF SettleSave
  <2>5. SUFFICES ASSUME NEW j \in Jobs, status'[j] \in Terminal, ~StruckNow(j)
        PROVE  \/ posted'[j][status'[j]] > 0
               \/ \E q \in Procs : job'[q] = j /\ pc'[q] = "notify" /\ Outcome(q)' = status'[j]
    BY DEF SettledIsAnnounced, Struck, StruckNow
  <2>6. CASE j = job[p] BY <2>1, <2>2, <2>6
  <2>7. CASE j # job[p]
    <3>1. status'[j] = status[j] BY <2>2, <2>7
    <3>2. ~Struck(j) BY <2>4, <2>5 DEF Struck, StruckNow
    <3>3. status[j] \in Terminal BY <2>5, <3>1
    <3>4. CASE posted[j][status[j]] > 0 BY <2>4, <3>1, <3>4
    <3>5. ASSUME NEW q \in Procs, job[q] = j, pc[q] = "notify", Outcome(q) = status[j]
          PROVE  job'[q] = j /\ pc'[q] = "notify" /\ Outcome(q)' = status'[j]
      BY <2>3, <3>1, <3>5
    <3> QED BY <3>2, <3>3, <3>4, <3>5 DEF SettledIsAnnounced
  <2> QED BY <2>6, <2>7
<1>2. CASE Repudiate(p) \/ SettleCheck(p)
  <2>1. AnnounceFrame BY <1>2 DEF Repudiate, SettleCheck, Leave, AnnounceFrame, Outcome
  <2> QED BY <2>1, AnnouncedByFrame
<1>3. CASE Notify(p)
  <2>1. pc[p] = "notify" /\ Post(p) /\ Leave(p) BY <1>3 DEF Notify
  <2>2. UNCHANGED <<status, struck, outcome>> BY <1>3 DEF Notify
  <2>3. \A q \in Procs \ {p} : pc'[q] = pc[q] /\ job'[q] = job[q] BY <2>1 DEF Leave
  <2>4. \A q \in Procs : Outcome(q)' = Outcome(q) BY <2>2 DEF Outcome
  <2>5. AnnounceFrame BY <2>1, <2>2, <2>3, <2>4, PostCounts DEF AnnounceFrame
  <2> QED BY <2>5, AnnouncedByFrame
<1> QED BY <1>1, <1>2, <1>3 DEF Settle

LEMMA AnnouncedHandler ==
  ASSUME TypeInv, NEW h \in Handlers, Request(h) \/ HandlerStep(h), ~Settle(h)
  PROVE  AnnounceFrame
<1> USE DEF AnnounceFrame, TypeInv, TypeOK, ProcOK, StoreOK, CreatePCs, DeletePCs, SettlePCs, RestPCs,
            Terminal, Go, Save, Erase, Outcome, records, lists, run, history, marks
<1>1. CASE Request(h) BY <1>1 DEF Request, CreateBegin, GetStale, DeleteBegin
<1>2. CASE CreateSave(h) BY <1>2 DEF CreateSave
<1>3. CASE CreateEnqueue(h) \/ CreateRespond(h) BY <1>3 DEF CreateEnqueue, CreateRespond
<1>4. CASE RequestCancel(h) \/ CancelRQ(h) BY <1>4 DEF RequestCancel, CancelRQ
<1>5. CASE DeleteRecord(h) BY <1>5 DEF DeleteRecord
<1>6. CASE RemoveFiles(h) \/ RemoveInbox(h) BY <1>6 DEF RemoveFiles, RemoveInbox
<1> QED BY <1>1, <1>2, <1>3, <1>4, <1>5, <1>6 DEF HandlerStep

LEMMA AnnouncedServices ==
  ASSUME TypeInv,
         \/ SweepBegin \/ SweepFiles \/ Boot \/ BootDone
         \/ \E j \in Jobs : SweepOne(j) \/ BootOne(j) \/ GoesQuiet(j) \/ Expire(j)
                            \/ TombExpires(j) \/ Redispatch(j)
  PROVE  AnnounceFrame
<1> USE DEF AnnounceFrame, TypeInv, TypeOK, ProcOK, StoreOK, BootOK, SettlePCs, RestPCs,
            Terminal, Go, Erase, Outcome, records, control, lists, run, history, marks
<1>1. CASE SweepBegin \/ SweepFiles BY <1>1 DEF SweepBegin, SweepFiles
<1>2. CASE Boot \/ BootDone BY <1>2 DEF Boot, BootDone
<1>3. ASSUME NEW j \in Jobs, SweepOne(j) PROVE AnnounceFrame BY <1>3 DEF SweepOne
<1>4. ASSUME NEW j \in Jobs, BootOne(j) PROVE AnnounceFrame BY <1>4 DEF BootOne
<1>5. ASSUME NEW j \in Jobs, GoesQuiet(j) PROVE AnnounceFrame BY <1>5 DEF GoesQuiet
<1>6. ASSUME NEW j \in Jobs, Expire(j) PROVE AnnounceFrame BY <1>6 DEF Expire
<1>7. ASSUME NEW j \in Jobs, TombExpires(j) \/ Redispatch(j) PROVE AnnounceFrame
  BY <1>7 DEF TombExpires, Redispatch
<1> QED BY <1>1, <1>2, <1>3, <1>4, <1>5, <1>6, <1>7

LEMMA AnnouncedWorker ==
  ASSUME TypeInv, WorkerStep \/ FetchHeartbeat, ~Settle(Worker)
  PROVE  AnnounceFrame
<1> USE DEF AnnounceFrame, TypeInv, TypeOK, ProcOK, StoreOK, SettlePCs, RestPCs, BodyPCs,
            Terminal, Go, Save, Outcome, RunEnds, records, control, lists, run, history, marks
<1>1. ASSUME NEW i \in Jobs, Dequeue(i) PROVE AnnounceFrame BY <1>1 DEF Dequeue
<1>2. CASE LoadRecord BY <1>2 DEF LoadRecord
<1>3. CASE StartRun BY <1>3 DEF StartRun
<1>4. CASE FetchOpen \/ FetchHeartbeat \/ FetchEnds
  BY <1>4 DEF FetchOpen, FetchHeartbeat, FetchEnds, FetchDone, FetchTooLarge
<1>5. CASE BodyRaises \/ MakeOutputDir \/ Decode BY <1>5 DEF BodyRaises, MakeOutputDir, Decode
<1>6. CASE ProgressCheck \/ ProgressSave BY <1>6 DEF ProgressCheck, ProgressSave
<1>7. CASE Stamp \/ CancelCleanup \/ Finish BY <1>7 DEF Stamp, CancelCleanup, Finish
<1> QED BY <1>1, <1>2, <1>3, <1>4, <1>5, <1>6, <1>7 DEF WorkerStep, Settle

\* A fault may store an outcome, or cut its announcement short, only for a job it strikes.
LEMMA AnnouncedFaults ==
  ASSUME TypeInv, Faults
  PROVE  AnnounceFrame
<1> USE DEF TypeInv, TypeOK, ProcOK, StoreOK
<1>1. ASSUME NEW kind \in FaultKinds, NEW P \in SUBSET Procs, Fault(kind, P),
             UNCHANGED <<status, posted>>,
             \A p \in Procs \ P : pc'[p] = pc[p] /\ job'[p] = job[p] /\ Outcome(p)' = Outcome(p)
      PROVE  AnnounceFrame
  <2>1. struck \subseteq struck' /\ \A p \in P : pc[p] \notin RestPCs => StruckNow(job[p])
    BY <1>1, FaultStrikes
  <2> QED BY <1>1, <2>1 DEF AnnounceFrame, RestPCs
<1>2. ASSUME NEW p \in Procs, Fault("outage", {p}), MaybeWritten(p), UNCHANGED posted,
             pc[p] \notin RestPCs,
             \A q \in Procs \ {p} : pc'[q] = pc[q] /\ job'[q] = job[q] /\ Outcome(q)' = Outcome(q)
      PROVE  AnnounceFrame
  <2>1. struck \subseteq struck' /\ StruckNow(job[p])
    BY <1>2, FaultStrikes DEF FaultKinds
  <2>2. job[p] \in Jobs BY <1>2
  <2>3. \A j \in Jobs \ {job[p]} : status'[j] = status[j]
    BY <1>2, <2>2 DEF MaybeWritten, Save, records
  <2>4. \A q \in Procs \ {p} : pc'[q] = pc[q] /\ job'[q] = job[q] /\ Outcome(q)' = Outcome(q)
    BY <1>2
  <2>5. UNCHANGED posted BY <1>2
  <2> QED BY <2>1, <2>3, <2>4, <2>5 DEF AnnounceFrame
<1>3. CASE WorkerCrash
  <2>1. Fault("crash", {Worker, Booter}) BY <1>3 DEF WorkerCrash
  <2>2. \A p \in Procs \ {Worker, Booter} : pc'[p] = pc[p] /\ job'[p] = job[p] /\ Outcome(p)' = Outcome(p)
    BY <1>3 DEF WorkerCrash, Outcome
  <2>3. UNCHANGED <<status, posted>> BY <1>3 DEF WorkerCrash, records
  <2> QED BY <2>1, <2>2, <2>3, <1>1, Bounds DEF FaultKinds
<1>4. CASE ApiCrash
  <2>1. Fault("crash", Handlers) BY <1>4 DEF ApiCrash
  <2>2. \A p \in Procs \ Handlers : pc'[p] = pc[p] /\ job'[p] = job[p] /\ Outcome(p)' = Outcome(p)
    BY <1>4 DEF ApiCrash, Outcome, run
  <2>3. UNCHANGED <<status, posted>> BY <1>4 DEF ApiCrash, records
  <2> QED BY <2>1, <2>2, <2>3, <1>1 DEF FaultKinds
<1>5. CASE ReaperCrash
  <2>1. Fault("crash", {Reaper}) BY <1>5 DEF ReaperCrash
  <2>2. \A p \in Procs \ {Reaper} : pc'[p] = pc[p] /\ job'[p] = job[p] /\ Outcome(p)' = Outcome(p)
    BY <1>5 DEF ReaperCrash, ReaperStops, Outcome, run
  <2>3. UNCHANGED <<status, posted>> BY <1>5 DEF ReaperCrash, records
  <2> QED BY <2>1, <2>2, <2>3, <1>1 DEF FaultKinds
<1>6. CASE Timeout \/ TimeoutAtEnd
  <2>1. Fault("timeout", {Worker}) BY <1>6 DEF Timeout, TimeoutAtEnd
  <2>2. \A p \in Procs \ {Worker} : pc'[p] = pc[p] /\ job'[p] = job[p] /\ Outcome(p)' = Outcome(p)
    BY <1>6 DEF Timeout, TimeoutAtEnd, RunInterrupted, RunEnds, Go, Outcome
  <2>3. status' = status BY <1>6 DEF Timeout, TimeoutAtEnd, records
  <2>4. posted' = posted \/ (pc[Worker] = "notify" /\ Post(Worker))
    BY <1>6 DEF Timeout, TimeoutAtEnd
  <2>5. \A j \in Jobs, o \in Terminal : posted[j][o] > 0 => posted'[j][o] > 0
    BY <2>4, PostCounts
  <2>6. struck \subseteq struck' /\ (pc[Worker] \notin RestPCs => StruckNow(job[Worker]))
    BY <2>1, FaultStrikes DEF FaultKinds
  <2> QED BY <2>2, <2>3, <2>5, <2>6 DEF AnnounceFrame, RestPCs
<1>7. ASSUME NEW h \in Handlers, HandlerOutage(h) PROVE AnnounceFrame
  <2>1. Fault("outage", {h}) /\ MaybeWritten(h) /\ UNCHANGED posted BY <1>7 DEF HandlerOutage
  <2>2. pc[h] \notin RestPCs BY <1>7 DEF HandlerOutage, CreatePCs, RestPCs
  <2>3. \A q \in Procs \ {h} : pc'[q] = pc[q] /\ job'[q] = job[q] /\ Outcome(q)' = Outcome(q)
    BY <1>7 DEF HandlerOutage, Go, Outcome, run
  <2> QED BY <2>1, <2>2, <2>3, <1>2
<1>8. CASE ReaperOutage /\ pc[Reaper] # "scan"
  <2>1. Fault("outage", {Reaper}) /\ MaybeWritten(Reaper) /\ UNCHANGED posted BY <1>8 DEF ReaperOutage
  <2>2. pc[Reaper] \notin RestPCs BY <1>8 DEF ReaperOutage, RestPCs
  <2>3. \A q \in Procs \ {Reaper} : pc'[q] = pc[q] /\ job'[q] = job[q] /\ Outcome(q)' = Outcome(q)
    BY <1>8 DEF ReaperOutage, ReaperStops, Outcome, run
  <2> QED BY <2>1, <2>2, <2>3, <1>2
<1>9. CASE ReaperOutage /\ pc[Reaper] = "scan"
  <2>1. Fault("outage", {Reaper}) BY <1>9 DEF ReaperOutage
  <2>2. \A p \in Procs \ {Reaper} : pc'[p] = pc[p] /\ job'[p] = job[p] /\ Outcome(p)' = Outcome(p)
    BY <1>9 DEF ReaperOutage, ReaperStops, Outcome, run
  <2>3. UNCHANGED <<status, posted>> BY <1>9 DEF ReaperOutage, MaybeWritten, records
  <2> QED BY <2>1, <2>2, <2>3, <1>1 DEF FaultKinds
<1>10. CASE BooterOutage
  <2>1. Fault("outage", {Booter}) /\ MaybeWritten(Booter) /\ UNCHANGED posted BY <1>10 DEF BooterOutage
  <2>2. pc[Booter] \notin RestPCs BY <1>10 DEF BooterOutage, RestPCs
  <2>3. \A q \in Procs \ {Booter} : pc'[q] = pc[q] /\ job'[q] = job[q] /\ Outcome(q)' = Outcome(q)
    BY <1>10 DEF BooterOutage, Go, Outcome, run
  <2> QED BY <2>1, <2>2, <2>3, <1>2
<1>11. CASE WorkerOutage
  <2>1. Fault("outage", {Worker}) /\ MaybeWritten(Worker) /\ UNCHANGED posted BY <1>11 DEF WorkerOutage
  <2>2. pc[Worker] \notin RestPCs BY <1>11 DEF WorkerOutage, RestPCs
  <2>3. \A q \in Procs \ {Worker} : pc'[q] = pc[q] /\ job'[q] = job[q] /\ Outcome(q)' = Outcome(q)
    BY <1>11 DEF WorkerOutage, RunEnds, RunInterrupted, Go, Outcome
  <2> QED BY <2>1, <2>2, <2>3, <1>2
<1>12. ASSUME NEW p \in Procs, CancelSwallowed(p) PROVE AnnounceFrame
  <2>1. Fault("outage", {p}) /\ pc[p] # "notify" /\ pc[p] \notin RestPCs
    BY <1>12 DEF CancelSwallowed, RestPCs
  <2>2. \A q \in Procs \ {p} : pc'[q] = pc[q] /\ job'[q] = job[q] /\ Outcome(q)' = Outcome(q)
    BY <1>12 DEF CancelSwallowed, Go, Outcome, run
  <2>3. UNCHANGED <<status, posted>> BY <1>12 DEF CancelSwallowed, records
  <2> QED BY <2>1, <2>2, <2>3, <1>1 DEF FaultKinds
<1> QED BY <1>3, <1>4, <1>5, <1>6, <1>7, <1>8, <1>9, <1>10, <1>11, <1>12 DEF Faults

LEMMA AnnouncedNext ==
  ASSUME TypeInv, SettledIsAnnounced, [Next]_vars
  PROVE  SettledIsAnnounced'
<1>1. CASE UNCHANGED vars
  BY <1>1, AnnouncedByFrame DEF AnnounceFrame, Outcome, vars, records, control, run, history
<1>2. ASSUME NEW p \in Procs, Settle(p) PROVE SettledIsAnnounced' BY <1>2, AnnouncedSettle
<1>3. ASSUME NEW h \in Handlers, Request(h) \/ HandlerStep(h) PROVE SettledIsAnnounced'
  BY <1>3, <1>2, AnnouncedHandler, AnnouncedByFrame DEF Procs
<1>4. CASE ReaperStep \/ BooterStep \/ TimePasses \/ \E j \in Jobs : Redispatch(j)
  BY <1>4, <1>2, AnnouncedServices, AnnouncedByFrame DEF ReaperStep, BooterStep, TimePasses, Procs
<1>5. CASE WorkerStep \/ FetchHeartbeat
  BY <1>5, <1>2, AnnouncedWorker, AnnouncedByFrame DEF Procs
<1>6. CASE Faults BY <1>6, AnnouncedFaults, AnnouncedByFrame
<1> QED BY <1>1, <1>3, <1>4, <1>5, <1>6 DEF Next, Steps

-----------------------------------------------------------------------------
(* The theorems.                                                             *)

LEMMA InvInit == Init => IInv
<1> SUFFICES ASSUME Init PROVE IInv
  OBVIOUS
<1>1. TypeInv BY TypeInit
<1>2. \A h \in Handlers : pc[h] = "idle" BY DEF Init
<1>3. pc[Worker] = "down" BY DEF Init
<1>4. SubmitInv BY <1>2 DEF Init, SubmitInv, CreatePCs
<1>5. DeleteInv BY <1>2 DEF Init, DeleteInv, DeletePCs
<1>6. TombInv BY DEF Init, TombInv
<1>7. \A j \in Jobs : status[j] = "none" BY DEF Init
<1>8. StemsInv BY <1>3, <1>7 DEF StemsInv, StemsOrRaced, BodyPCs
<1> QED BY <1>1, <1>4, <1>5, <1>6, <1>8 DEF IInv

LEMMA InvNext == IInv /\ [Next]_vars => IInv'
BY TypeNext, SubmitNext, DeleteNext, TombNext, StemsNext DEF IInv

LEMMA Invariant == Spec => []IInv
BY InvInit, InvNext, PTL DEF Spec

\* However many requests, faults and jobs: a deleted record comes back only if a
\* process was past its last look at the tombstone when the DELETE removed it.
THEOREM DeletedReturnsOnlyByRace == Spec => []ResurrectionNeedsRace
<1>1. IInv => ResurrectionNeedsRace BY DEF IInv, TombInv, Buried, ResurrectionNeedsRace
<1> QED BY <1>1, Invariant, PTL

\* A record that says succeeded has its stems on disk, that same race excepted.
THEOREM SucceededHasItsStems == Spec => []StemsOrRaced
<1>1. IInv => StemsOrRaced BY DEF IInv, StemsInv
<1> QED BY <1>1, Invariant, PTL

\* No outcome is ever stored and left unannounced, a fault that strikes in
\* between excepted: there is no code path that settles a job in silence.
THEOREM OutcomesAreAnnounced == Spec => []SettledIsAnnounced
<1>1. Init => SettledIsAnnounced BY DEF Init, SettledIsAnnounced, Terminal
<1>2. TypeInv /\ SettledIsAnnounced /\ [Next]_vars => SettledIsAnnounced' BY AnnouncedNext
<1> QED BY <1>1, <1>2, TypeInvariant, PTL DEF Spec
=============================================================================
