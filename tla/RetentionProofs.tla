--------------------------- MODULE RetentionProofs ---------------------------
(***************************************************************************)
(* Retention, for any number of jobs and any limits LimitsAssumption       *)
(* allows: the type invariant, and with one inductive invariant that no    *)
(* age limit strikes while something still depends on what it takes; and   *)
(* with a second one that a queue which fits the TTL loses nobody.         *)
(***************************************************************************)
EXTENDS Retention, FiniteSetTheorems, TLAPS

(* The assumptions on the limits, conjunct by conjunct. *)
LEMMA Limits ==
    /\ ResultTTL \in Nat /\ JobTimeout \in Nat /\ JobTimeout > 0
    /\ JobTimeout < ResultTTL
    /\ StaleAfter \in Nat /\ StaleAfter > 0 /\ Interval \in Nat /\ Interval > 0
    /\ StaleAfter + Interval < ResultTTL + JobTimeout
    /\ Lag \in Nat /\ Lag < JobTimeout /\ MaxCrashes \in Nat
  BY LimitsAssumption

(* One tick of the running record's clocks, in numbers: t its TTL, s its    *)
(* silence, w the time since the reaper's sweep.                            *)
LEMMA ATickOn ==
    ASSUME NEW t \in Nat \ {0}, NEW s \in 0..StaleAfter, NEW w \in Nat,
           s < StaleAfter => t + s = ResultTTL + JobTimeout,
           s = StaleAfter => t + StaleAfter + w > ResultTTL + JobTimeout
    PROVE  LET n == Least(s + 1, StaleAfter)
           IN  /\ n < StaleAfter => (t - 1) + n = ResultTTL + JobTimeout
               /\ n = StaleAfter =>
                      (t - 1) + StaleAfter + (w + 1) > ResultTTL + JobTimeout
  BY Limits DEF Least

-----------------------------------------------------------------------------
(* The inductive invariant. *)

\* A DELETE takes the id out of the queue for good, and its record for as long as
\* the tombstone is there.
DeletedOK ==
    /\ deleted \subseteq used
    /\ \A j \in Jobs : tomb[j] > 0 => j \in deleted /\ status[j] = "none"
    /\ \A j \in deleted : j \notin queue

\* An id waits or runs, not both, and only ids that were issued do or have a record.
QueueInv ==
    /\ queue \subseteq used
    /\ \A j \in Jobs : status[j] # "none" => j \in used
    /\ \A j \in queue : j # runner /\ j \notin loose /\ status[j] \in {"none", "queued"}

\* The record of the run in progress may have been failed by the reaper, have
\* expired after that, or been deleted.
RunInv == runner # NoJob =>
    up /\ runner \in used /\ status[runner] \in {"none", "running", "failed"}

\* Until its time is out a run that was deleted finds the tombstone; what catches
\* its timeout has no time left.
TombInv ==
    /\ runner \in deleted => left <= tomb[runner]
    /\ runner \in loose => left = 0

\* How old a running record is: once stale it lasts until the next sweep.
AgeInv == \A j \in Jobs : status[j] = "running" =>
    /\ silent[j] < StaleAfter => ttl[j] + silent[j] = ResultTTL + JobTimeout
    /\ silent[j] = StaleAfter => ttl[j] + StaleAfter + swept > ResultTTL + JobTimeout

\* The directory is no older than the run that made it, and neither is ffmpeg's
\* file.
OutputInv == runner # NoJob /\ runner \notin loose =>
    /\ phase = "ffmpeg" => scratch[runner] # Gone /\ scratch[runner] + left <= JobTimeout
    /\ runner \notin deleted => out[runner] # Gone /\ out[runner] + left <= JobTimeout

\* Between os.utime and the save the directory is new, or a DELETE has just taken it
\* and left the tombstone.
StampInv == phase = "settle" =>
    IF out[runner] = Gone THEN tomb[runner] + lag >= JobTimeout ELSE out[runner] <= lag

\* Stems and record of a success age together.
ServeInv == \A j \in Jobs : status[j] = "succeeded" =>
    IF out[j] = Gone THEN ttl[j] <= Lag ELSE out[j] + ttl[j] <= ResultTTL + Lag

IInv ==
    /\ TypeOK
    /\ DeletedOK /\ QueueInv /\ RunInv /\ TombInv /\ AgeInv
    /\ OutputInv /\ StampInv /\ ServeInv

LEMMA SubmitKeeps ==
    ASSUME IInv, NEW j \in Jobs, Submit(j)
    PROVE  IInv'
<1> USE NoJobAssumption, Limits DEF IInv, TypeOK, Submit, Save, RecordTTL, worker
<1>1. TypeOK'
  BY DEF Unsettled, Terminal, Gone
<1>2. DeletedOK'
  BY DEF DeletedOK
<1>3. QueueInv'
  BY DEF QueueInv, RunInv, DeletedOK
<1>4. RunInv'
  BY DEF RunInv
<1>5. TombInv'
  BY DEF TombInv
<1>6. AgeInv'
  BY DEF AgeInv
<1>7. OutputInv'
  BY DEF OutputInv
<1>8. StampInv'
  BY DEF StampInv
<1>9. ServeInv'
  BY DEF ServeInv
<1> QED
  BY <1>1, <1>2, <1>3, <1>4, <1>5, <1>6, <1>7, <1>8, <1>9

LEMMA DeleteKeeps ==
    ASSUME IInv, NEW j \in Jobs, Delete(j)
    PROVE  IInv'
<1> USE NoJobAssumption, Limits DEF IInv, TypeOK, Delete, TombTTL, worker
<1>1. TypeOK'
  BY DEF Gone
<1>2. DeletedOK'
  BY DEF DeletedOK, QueueInv, RunInv
<1>3. QueueInv'
  BY DEF QueueInv
<1>4. RunInv'
  BY DEF RunInv
<1>5. TombInv'
  BY DEF TombInv, DeletedOK, RunInv, Terminal, Unsettled, Gone
<1>6. AgeInv'
  BY DEF AgeInv
<1>7. OutputInv'
  BY DEF OutputInv
<1>8. StampInv'
  BY DEF StampInv
<1>9. ServeInv'
  BY DEF ServeInv
<1> QED
  BY <1>1, <1>2, <1>3, <1>4, <1>5, <1>6, <1>7, <1>8, <1>9

LEMMA StartKeeps ==
    ASSUME IInv, NEW j \in Jobs, Start(j)
    PROVE  IInv'
<1> USE NoJobAssumption, Limits DEF IInv, TypeOK, Start, Save, RecordTTL, store, files, worker, others
<1>1. TypeOK'
  BY DEF Unsettled, Terminal, Gone
<1>2. DeletedOK'
  BY DEF DeletedOK
<1>3. QueueInv'
  BY DEF QueueInv
<1>4. RunInv'
  BY DEF RunInv, QueueInv
<1>5. TombInv'
  BY DEF TombInv, QueueInv, DeletedOK, RunInv
<1>6. AgeInv'
  BY DEF AgeInv, DeletedOK, Terminal, Unsettled
<1>7. OutputInv'
  BY DEF OutputInv, TombInv, Gone
<1>8. StampInv'
  BY DEF StampInv
<1>9. ServeInv'
  BY DEF ServeInv
<1> QED
  BY <1>1, <1>2, <1>3, <1>4, <1>5, <1>6, <1>7, <1>8, <1>9

LEMMA DecodeKeeps ==
    ASSUME IInv, Decode
    PROVE  IInv'
<1> USE NoJobAssumption, Limits DEF IInv, TypeOK, Decode, store, waiting, others
<1>1. TypeOK'
  BY DEF Gone
<1>2. DeletedOK'
  BY DEF DeletedOK
<1>3. QueueInv'
  BY DEF QueueInv
<1>4. RunInv'
  BY DEF RunInv
<1>5. TombInv'
  BY DEF TombInv
<1>6. AgeInv'
  BY DEF AgeInv
<1>7. OutputInv'
  BY DEF OutputInv, TombInv, Gone
<1>8. StampInv'
  BY DEF StampInv
<1>9. ServeInv'
  BY DEF ServeInv, RunInv, StampInv, DeletedOK
<1> QED
  BY <1>1, <1>2, <1>3, <1>4, <1>5, <1>6, <1>7, <1>8, <1>9

LEMMA NotSoundfileKeeps ==
    ASSUME IInv, NotSoundfile
    PROVE  IInv'
<1> USE NoJobAssumption, Limits DEF IInv, TypeOK, NotSoundfile, StartFfmpeg, store, waiting, others
<1>1. TypeOK'
  BY DEF Gone
<1>2. DeletedOK'
  BY DEF DeletedOK
<1>3. QueueInv'
  BY DEF QueueInv
<1>4. RunInv'
  BY DEF RunInv
<1>5. TombInv'
  BY DEF TombInv
<1>6. AgeInv'
  BY DEF AgeInv
<1>7. OutputInv'
  BY DEF OutputInv, TombInv, Gone
<1>8. StampInv'
  BY DEF StampInv
<1>9. ServeInv'
  BY DEF ServeInv
<1> QED
  BY <1>1, <1>2, <1>3, <1>4, <1>5, <1>6, <1>7, <1>8, <1>9

LEMMA TimeoutSwallowedKeeps ==
    ASSUME IInv, TimeoutSwallowed
    PROVE  IInv'
<1> USE NoJobAssumption, Limits DEF IInv, TypeOK, TimeoutSwallowed, StartFfmpeg, store, waiting, others
<1>1. TypeOK'
  BY DEF RunInv, Gone
<1>2. DeletedOK'
  BY DEF DeletedOK
<1>3. QueueInv'
  BY DEF QueueInv
<1>4. RunInv'
  BY DEF RunInv
<1>5. TombInv'
  BY DEF TombInv
<1>6. AgeInv'
  BY DEF AgeInv
<1>7. OutputInv'
  BY DEF OutputInv
<1>8. StampInv'
  BY DEF StampInv
<1>9. ServeInv'
  BY DEF ServeInv
<1> QED
  BY <1>1, <1>2, <1>3, <1>4, <1>5, <1>6, <1>7, <1>8, <1>9

LEMMA FfmpegWritesKeeps ==
    ASSUME IInv, FfmpegWrites
    PROVE  IInv'
<1> USE NoJobAssumption, Limits DEF IInv, TypeOK, FfmpegWrites, store, waiting, worker, others
<1>1. TypeOK'
  BY DEF Gone
<1>2. DeletedOK'
  BY DEF DeletedOK
<1>3. QueueInv'
  BY DEF QueueInv
<1>4. RunInv'
  BY DEF RunInv
<1>5. TombInv'
  BY DEF TombInv
<1>6. AgeInv'
  BY DEF AgeInv
<1>7. OutputInv'
  BY DEF OutputInv, TombInv, Gone
<1>8. StampInv'
  BY DEF StampInv
<1>9. ServeInv'
  BY DEF ServeInv
<1> QED
  BY <1>1, <1>2, <1>3, <1>4, <1>5, <1>6, <1>7, <1>8, <1>9

LEMMA FfmpegDoneKeeps ==
    ASSUME IInv, FfmpegDone
    PROVE  IInv'
<1> USE NoJobAssumption, Limits DEF IInv, TypeOK, FfmpegDone, store, waiting, others
<1>1. TypeOK'
  BY DEF Gone
<1>2. DeletedOK'
  BY DEF DeletedOK
<1>3. QueueInv'
  BY DEF QueueInv
<1>4. RunInv'
  BY DEF RunInv
<1>5. TombInv'
  BY DEF TombInv
<1>6. AgeInv'
  BY DEF AgeInv
<1>7. OutputInv'
  BY DEF OutputInv, TombInv, Gone
<1>8. StampInv'
  BY DEF StampInv
<1>9. ServeInv'
  BY DEF ServeInv, RunInv, StampInv, DeletedOK
<1> QED
  BY <1>1, <1>2, <1>3, <1>4, <1>5, <1>6, <1>7, <1>8, <1>9

LEMMA ProgressKeeps ==
    ASSUME IInv, Progress
    PROVE  IInv'
<1> USE NoJobAssumption, Limits DEF IInv, TypeOK, Progress, Save, RecordTTL, files, waiting, worker, others
<1>1. TypeOK'
  BY DEF Unsettled, Terminal
<1>2. DeletedOK'
  BY DEF DeletedOK
<1>3. QueueInv'
  BY DEF QueueInv, RunInv, DeletedOK
<1>4. RunInv'
  BY DEF RunInv
<1>5. TombInv'
  BY DEF TombInv
<1>6. AgeInv'
  BY DEF AgeInv, DeletedOK, Terminal, Unsettled
<1>7. OutputInv'
  BY DEF OutputInv
<1>8. StampInv'
  BY DEF StampInv
<1>9. ServeInv'
  BY DEF ServeInv
<1> QED
  BY <1>1, <1>2, <1>3, <1>4, <1>5, <1>6, <1>7, <1>8, <1>9

LEMMA CancelledKeeps ==
    ASSUME IInv, Cancelled
    PROVE  IInv'
<1> USE NoJobAssumption, Limits DEF IInv, TypeOK, Cancelled, Idle, store, waiting, others
<1>1. TypeOK'
  BY DEF Gone
<1>2. DeletedOK'
  BY DEF DeletedOK
<1>3. QueueInv'
  BY DEF QueueInv
<1>4. RunInv'
  BY DEF RunInv
<1>5. TombInv'
  BY DEF TombInv
<1>6. AgeInv'
  BY DEF AgeInv
<1>7. OutputInv'
  BY DEF OutputInv
<1>8. StampInv'
  BY DEF StampInv
<1>9. ServeInv'
  BY DEF ServeInv, RunInv, StampInv, DeletedOK
<1> QED
  BY <1>1, <1>2, <1>3, <1>4, <1>5, <1>6, <1>7, <1>8, <1>9

LEMMA StampKeeps ==
    ASSUME IInv, Stamp
    PROVE  IInv'
<1> USE NoJobAssumption, Limits DEF IInv, TypeOK, Stamp, Restamped, store, waiting, others
<1>1. TypeOK'
  BY DEF Gone
<1>2. DeletedOK'
  BY DEF DeletedOK
<1>3. QueueInv'
  BY DEF QueueInv
<1>4. RunInv'
  BY DEF RunInv
<1>5. TombInv'
  BY DEF TombInv
<1>6. AgeInv'
  BY DEF AgeInv, DeletedOK, Terminal, Unsettled, Gone
<1>7. OutputInv'
  BY DEF OutputInv, TombInv, Gone
<1>8. StampInv'
  BY DEF StampInv, OutputInv, Gone
<1>9. ServeInv'
  BY DEF ServeInv, RunInv, StampInv, DeletedOK
<1> QED
  BY <1>1, <1>2, <1>3, <1>4, <1>5, <1>6, <1>7, <1>8, <1>9

LEMMA SucceedKeeps ==
    ASSUME IInv, Succeed
    PROVE  IInv'
<1> USE NoJobAssumption, Limits DEF IInv, TypeOK, Succeed, Settle, Save, RecordTTL, Idle, waiting, others
<1>1. TypeOK'
  BY DEF Unsettled, Terminal, Gone
<1>2. DeletedOK'
  BY DEF DeletedOK
<1>3. QueueInv'
  BY DEF QueueInv, RunInv, DeletedOK
<1>4. RunInv'
  BY DEF RunInv
<1>5. TombInv'
  BY DEF TombInv
<1>6. AgeInv'
  BY DEF AgeInv
<1>7. OutputInv'
  BY DEF OutputInv
<1>8. StampInv'
  BY DEF StampInv
<1>9. ServeInv'
  BY DEF ServeInv, RunInv, StampInv, DeletedOK, Terminal, Unsettled
<1> QED
  BY <1>1, <1>2, <1>3, <1>4, <1>5, <1>6, <1>7, <1>8, <1>9

LEMMA FailKeeps ==
    ASSUME IInv, Fail
    PROVE  IInv'
<1> USE NoJobAssumption, Limits DEF IInv, TypeOK, Fail, Settle, Save, RecordTTL, Idle, waiting, others
<1>1. TypeOK'
  BY DEF Unsettled, Terminal, Gone
<1>2. DeletedOK'
  BY DEF DeletedOK
<1>3. QueueInv'
  BY DEF QueueInv, RunInv, DeletedOK
<1>4. RunInv'
  BY DEF RunInv
<1>5. TombInv'
  BY DEF TombInv
<1>6. AgeInv'
  BY DEF AgeInv
<1>7. OutputInv'
  BY DEF OutputInv
<1>8. StampInv'
  BY DEF StampInv
<1>9. ServeInv'
  BY DEF ServeInv
<1> QED
  BY <1>1, <1>2, <1>3, <1>4, <1>5, <1>6, <1>7, <1>8, <1>9

LEMMA CrashKeeps ==
    ASSUME IInv, Crash
    PROVE  IInv'
<1> USE NoJobAssumption, Limits DEF IInv, TypeOK, Crash, Idle, store, files, waiting
<1>1. TypeOK'
  <2>1. up' \in BOOLEAN
    BY DEF Crash
  <2>2. crashes' \in 0..MaxCrashes
    BY DEF Crash
  <2> QED
    BY <2>1, <2>2 DEF Unsettled, Terminal, Gone
<1>2. DeletedOK'
  BY DEF DeletedOK
<1>3. QueueInv'
  BY DEF QueueInv
<1>4. RunInv'
  BY DEF RunInv
<1>5. TombInv'
  BY DEF TombInv
<1>6. AgeInv'
  BY DEF AgeInv
<1>7. OutputInv'
  BY DEF OutputInv
<1>8. StampInv'
  BY DEF StampInv
<1>9. ServeInv'
  BY DEF ServeInv
<1> QED
  BY <1>1, <1>2, <1>3, <1>4, <1>5, <1>6, <1>7, <1>8, <1>9

LEMMA RestartKeeps ==
    ASSUME IInv, Restart
    PROVE  IInv'
<1> USE NoJobAssumption, Limits DEF IInv, TypeOK, Restart, Orphaned, files, waiting, worker
<1>1. TypeOK'
  BY DEF Unsettled, Terminal
<1>2. DeletedOK'
  BY DEF DeletedOK
<1>3. QueueInv'
  BY DEF QueueInv
<1>4. RunInv'
  BY DEF RunInv
<1>5. TombInv'
  BY DEF TombInv
<1>6. AgeInv'
  BY DEF AgeInv
<1>7. OutputInv'
  BY DEF OutputInv
<1>8. StampInv'
  BY DEF StampInv
<1>9. ServeInv'
  BY DEF ServeInv
<1> QED
  BY <1>1, <1>2, <1>3, <1>4, <1>5, <1>6, <1>7, <1>8, <1>9

LEMMA SweepKeeps ==
    ASSUME IInv, Sweep
    PROVE  IInv'
<1> USE NoJobAssumption, Limits DEF IInv, TypeOK, Sweep, Stale, Swept, PastCutoff, waiting, worker
<1>1. TypeOK'
  BY DEF Unsettled, Terminal, Gone
<1>2. DeletedOK'
  BY DEF DeletedOK
<1>3. QueueInv'
  BY DEF QueueInv
<1>4. RunInv'
  BY DEF RunInv
<1>5. TombInv'
  BY DEF TombInv
<1>6. AgeInv'
  BY DEF AgeInv, DeletedOK
<1>7. OutputInv'
  BY DEF OutputInv
<1>8. StampInv'
  BY DEF StampInv
<1>9. ServeInv'
  BY DEF ServeInv
<1> QED
  BY <1>1, <1>2, <1>3, <1>4, <1>5, <1>6, <1>7, <1>8, <1>9

LEMMA TickKeeps ==
    ASSUME IInv, Tick
    PROVE  IInv'
<1> USE NoJobAssumption, Limits DEF IInv, TypeOK, Tick, ClockMayRun, Expires, Aged, Least, waiting
<1>1. TypeOK'
  BY DEF Unsettled, Terminal, Gone
<1>2. DeletedOK'
  BY DEF DeletedOK
<1>3. QueueInv'
  BY DEF QueueInv
<1>4. RunInv'
  BY DEF RunInv
<1>5. AgeInv'
  <2> SUFFICES ASSUME NEW j \in Jobs, status'[j] = "running"
               PROVE  /\ silent'[j] < StaleAfter =>
                             ttl'[j] + silent'[j] = ResultTTL + JobTimeout
                      /\ silent'[j] = StaleAfter =>
                             ttl'[j] + StaleAfter + swept' > ResultTTL + JobTimeout
    BY DEF AgeInv
  <2>1. status[j] = "running" /\ ~Expires(j)
    OBVIOUS
  <2>2. ttl[j] \in Nat /\ silent[j] \in 0..StaleAfter /\ swept \in Nat /\ ttl[j] # 0
    BY <2>1
  <2>3. ttl'[j] = ttl[j] - 1 /\ silent'[j] = Least(silent[j] + 1, StaleAfter)
        /\ swept' = swept + 1
    BY <2>1, <2>2
  <2>4. /\ silent[j] < StaleAfter => ttl[j] + silent[j] = ResultTTL + JobTimeout
        /\ silent[j] = StaleAfter => ttl[j] + StaleAfter + swept > ResultTTL + JobTimeout
    BY <2>1 DEF AgeInv
  <2> QED
    BY <2>2, <2>3, <2>4, ATickOn
<1>6. OutputInv'
  BY DEF OutputInv, Gone
<1>7. ServeInv'
  BY DEF ServeInv, Gone
<1>8. TombInv'
  BY DEF TombInv
<1>9. StampInv'
  BY DEF StampInv, Gone
<1> QED
  BY <1>1, <1>2, <1>3, <1>4, <1>5, <1>6, <1>7, <1>8, <1>9

LEMMA InitHolds == Init => IInv
<1> SUFFICES ASSUME Init PROVE IInv
  OBVIOUS
<1> USE NoJobAssumption, Limits DEF Init, Gone
<1>1. TypeOK
  <2>1. up \in BOOLEAN
    OBVIOUS
  <2> QED
    BY <2>1 DEF TypeOK
<1>2. DeletedOK /\ QueueInv /\ RunInv /\ AgeInv /\ OutputInv /\ ServeInv /\ TombInv /\ StampInv
  BY DEF DeletedOK, QueueInv, RunInv, AgeInv, OutputInv, ServeInv, TombInv, StampInv
<1> QED
  BY <1>1, <1>2 DEF IInv

\* A step that changes nothing.
LEMMA StutterKeeps == IInv /\ UNCHANGED vars => IInv'
<1> SUFFICES ASSUME IInv, UNCHANGED vars PROVE IInv'
  OBVIOUS
<1> USE DEF IInv, vars, store, files, waiting, worker, others
<1>1. TypeOK'
  BY DEF TypeOK
<1>2. (DeletedOK /\ QueueInv /\ RunInv /\ AgeInv)'
  BY DEF DeletedOK, QueueInv, RunInv, AgeInv
<1>3. (OutputInv /\ ServeInv /\ TombInv /\ StampInv)'
  BY DEF OutputInv, ServeInv, TombInv, StampInv
<1> QED
  BY <1>1, <1>2, <1>3

LEMMA NextKeeps == IInv /\ [Next]_vars => IInv'
<1> SUFFICES ASSUME IInv, [Next]_vars PROVE IInv'
  OBVIOUS
<1>1. CASE UNCHANGED vars
  BY <1>1, StutterKeeps
<1>2. ASSUME NEW j \in Jobs, Submit(j) \/ Delete(j) \/ Start(j) PROVE IInv'
  BY <1>2, SubmitKeeps, DeleteKeeps, StartKeeps
<1>3. CASE Decoding \/ FfmpegWrites \/ Progress \/ Ending
  BY <1>3, DecodeKeeps, NotSoundfileKeeps, TimeoutSwallowedKeeps, FfmpegWritesKeeps,
     FfmpegDoneKeeps, ProgressKeeps, CancelledKeeps, StampKeeps, SucceedKeeps, FailKeeps
  DEF Decoding, Ending
<1>4. CASE Crash \/ Restart \/ Sweep \/ Tick
  BY <1>4, CrashKeeps, RestartKeeps, SweepKeeps, TickKeeps
<1> QED
  BY <1>1, <1>2, <1>3, <1>4 DEF Next

\* The inductive invariant holds of every reachable state of the store, the files
\* and the worker.
THEOREM Invariant == Spec => []IInv
  BY InitHolds, NextKeeps, PTL DEF Spec

-----------------------------------------------------------------------------
(* What follows from it. *)

\* Types; a record has a TTL exactly while it exists, and a settled one at most
\* the result TTL, as save_job gives it.
THEOREM TypeCorrect == Spec => []TypeOK
<1>1. IInv => TypeOK
  BY DEF IInv
<1> QED
  BY <1>1, Invariant, PTL

\* request_cancel: until RQ's timer is used up, no run writes the record of a job that
\* was deleted, whenever the DELETE came: the tombstone is there to the end.
THEOREM DeletedIsFinal == Spec => DeletedStaysDeleted
<1>1. ASSUME IInv, [Next]_vars, NEW j \in deleted, status[j] = "none", status'[j] # "none"
      PROVE  runner = j /\ left = 0
  <2> USE <1>1, NoJobAssumption, Limits
  <2>1. /\ status \in [Jobs -> {"none"} \union Unsettled \union Terminal]
        /\ j \in Jobs /\ j \in used /\ j \notin queue
    BY DEF IInv, TypeOK, DeletedOK
  <2>2. CASE UNCHANGED vars
    BY <2>2 DEF vars, store
  <2>3. ASSUME NEW i \in Jobs, Submit(i) \/ Delete(i) \/ Start(i) PROVE FALSE
    BY <2>1, <2>3 DEF Submit, Delete, Start, Save, store
  <2>4. CASE Progress \/ Succeed \/ Fail
    <3>1. runner \in Jobs /\ runner = j /\ tomb[j] \in Nat
      BY <2>1, <2>4 DEF Progress, Succeed, Fail, Settle, Save, IInv, TypeOK
    <3>2. ~(tomb[j] > 0)
      BY <2>1, <2>4, <3>1 DEF Progress, Succeed, Fail, Settle
    <3>3. left \in Nat /\ left <= tomb[j]
      BY <3>1 DEF IInv, TypeOK, TombInv
    <3> QED
      BY <3>1, <3>2, <3>3
  <2>5. CASE Decoding \/ FfmpegWrites \/ Cancelled \/ Stamp
    BY <2>5 DEF Decoding, Decode, NotSoundfile, TimeoutSwallowed, StartFfmpeg, FfmpegDone,
                FfmpegWrites, Cancelled, Stamp, store
  <2>6. CASE Crash \/ Restart \/ Sweep \/ Tick
    BY <2>1, <2>6 DEF Crash, Restart, Sweep, Tick, Orphaned, Stale, store
  <2> QED
    BY <2>2, <2>3, <2>4, <2>5, <2>6 DEF Next, Ending
<1>2. IInv /\ [Next]_vars =>
        [\A j \in deleted : status[j] = "none" =>
             status'[j] = "none" \/ (runner = j /\ left = 0)]_vars
  BY <1>1
<1> QED
  BY <1>2, Invariant, PTL DEF Spec, DeletedStaysDeleted

\* sweep_artifacts: the reaper never takes the directory of a run that is still
\* writing into it, as long as RQ ends the run within the job timeout.
THEOREM SweepSparesRun == Spec => []RunKeepsOutput
<1>1. IInv => RunKeepsOutput
  BY DEF IInv, TypeOK, OutputInv, RunKeepsOutput
<1> QED
  BY <1>1, Invariant, PTL

\* run_separation's os.utime: a succeeded record and its stems run out together,
\* but for the time between the os.utime and the save.
THEOREM StemsLastAsLong == Spec => []ServableToTheEnd
<1>1. IInv => ServableToTheEnd
  BY DEF IInv, ServeInv, GetStem, ServableToTheEnd
<1> QED
  BY <1>1, Invariant, PTL

\* save_job and the reaper: no running record reaches the end of its TTL, because
\* once it is stale the next sweep settles it well before.
THEOREM RunningIsSettled == Spec => RunningNeverExpires
<1>1. ASSUME IInv, [Next]_vars, NEW j \in Jobs, status[j] = "running", status'[j] = "none"
      PROVE  j \in deleted'
  <2> USE <1>1, NoJobAssumption, Limits
  <2>1. status \in [Jobs -> {"none"} \union Unsettled \union Terminal]
    BY DEF IInv, TypeOK
  <2>2. CASE UNCHANGED vars
    BY <2>2 DEF vars, store
  <2>3. ASSUME NEW i \in Jobs, Submit(i) \/ Delete(i) \/ Start(i) PROVE j \in deleted'
    BY <2>1, <2>3 DEF Submit, Delete, Start, Save, store
  <2>4. CASE Decoding \/ FfmpegWrites \/ Progress \/ Ending
    BY <2>1, <2>4 DEF Decoding, Decode, NotSoundfile, TimeoutSwallowed, StartFfmpeg, FfmpegDone,
                      FfmpegWrites, Progress, Ending, Cancelled, Stamp, Succeed, Fail, Settle, Save,
                      store
  <2>5. CASE Crash \/ Restart \/ Sweep
    BY <2>1, <2>5 DEF Crash, Restart, Sweep, store
  <2>6. CASE Tick
    <3>1. ttl[j] = 1 /\ swept < Interval /\ swept \in Nat
      BY <2>1, <2>6 DEF IInv, TypeOK, Tick, ClockMayRun, Expires
    <3>2. silent[j] \in 0..StaleAfter
      BY DEF IInv, TypeOK
    <3>3. /\ silent[j] < StaleAfter => 1 + silent[j] = ResultTTL + JobTimeout
          /\ silent[j] = StaleAfter => 1 + StaleAfter + swept > ResultTTL + JobTimeout
      BY <3>1 DEF IInv, AgeInv
    <3> QED
      BY <3>1, <3>2, <3>3
  <2> QED
    BY <2>2, <2>3, <2>4, <2>5, <2>6 DEF Next
<1>2. IInv /\ [Next]_vars =>
        [\A j \in Jobs : status[j] = "running" /\ status'[j] = "none" => j \in deleted']_vars
  BY <1>1
<1> QED
  BY <1>2, Invariant, PTL DEF Spec, RunningNeverExpires

-----------------------------------------------------------------------------
(* How long a job waits for its turn. *)

\* Jobs whose turn comes before j's, and the time they may take between them.
Before(j) == ahead[j] \intersect queue
Turn(j) == left + Cardinality(Before(j)) * JobTimeout
Longest == (Cardinality(Jobs) - 1) * JobTimeout

\* The queue is a line, nobody in it stands behind an id not yet issued, and a
\* worker that has never died is there.
LineInv ==
    /\ \A i, j \in queue : i # j => i \in ahead[j] \/ j \in ahead[i]
    /\ \A j \in queue : ahead[j] \subseteq used
    /\ runner = NoJob => left = 0
    /\ crashes = 0 => up

\* What a job has waited and has yet to wait stays within the longest wait, and
\* the age of its upload is the time it has waited.
WaitInv == crashes = 0 /\ loose = {} => \A j \in queue :
    /\ status[j] = "queued" /\ upload[j] # Gone
    /\ ttl[j] + upload[j] = ResultTTL + JobTimeout
    /\ upload[j] + Turn(j) <= Longest

\* Rounds of JobTimeout each.
LEMMA Rounds ==
    ASSUME NEW m \in Nat, NEW n \in Nat
    PROVE  /\ m * JobTimeout \in Nat
           /\ m <= n => m * JobTimeout <= n * JobTimeout
           /\ (n + 1) * JobTimeout = n * JobTimeout + JobTimeout
<1> DEFINE J == JobTimeout
<1>1. J \in Nat BY Limits
<1> HIDE DEF J
<1>2. m * J \in Nat /\ n * J \in Nat BY <1>1
<1>3. (n + 1) * J = n * J + J BY <1>1
<1>4. ASSUME m <= n PROVE m * J <= n * J
  <2>1. PICK d \in Nat : n = m + d BY <1>4
  <2>2. n * J = m * J + d * J BY <1>1, <2>1
  <2>3. d * J \in Nat BY <1>1
  <2> QED BY <1>2, <2>2, <2>3
<1> QED BY <1>2, <1>3, <1>4 DEF J

\* What is before j is finite where Jobs is.
LEMMA BeforeIsFinite ==
    ASSUME IInv, IsFiniteSet(Jobs)
    PROVE  \A j \in queue : IsFiniteSet(Before(j)) /\ Cardinality(Before(j)) \in Nat
<1> SUFFICES ASSUME NEW j \in queue
             PROVE  IsFiniteSet(Before(j)) /\ Cardinality(Before(j)) \in Nat
  OBVIOUS
<1>1. Before(j) \in SUBSET Jobs BY DEF Before, IInv, TypeOK
<1> QED BY <1>1, FS_Subset, FS_CardinalityType

LEMMA LineNext == IInv /\ LineInv /\ [Next]_vars => LineInv'
<1> SUFFICES ASSUME IInv, LineInv, [Next]_vars PROVE LineInv'
  OBVIOUS
<1> USE NoJobAssumption, Limits DEF IInv, TypeOK, QueueInv, LineInv
<1>1. CASE UNCHANGED vars
  BY <1>1 DEF vars, waiting, worker, others
<1>2. ASSUME NEW i \in Jobs, Submit(i) PROVE LineInv'
  BY <1>2 DEF Submit, worker
<1>3. ASSUME NEW i \in Jobs, Delete(i) PROVE LineInv'
  BY <1>3 DEF Delete, worker
<1>4. ASSUME NEW i \in Jobs, Start(i) PROVE LineInv'
  BY <1>4 DEF Start, worker, others
<1>5. CASE Decoding \/ FfmpegWrites \/ Progress \/ Stamp
  BY <1>5 DEF Decoding, Decode, NotSoundfile, TimeoutSwallowed, StartFfmpeg, FfmpegDone,
              FfmpegWrites, Progress, Stamp, waiting, worker, others
<1>6. CASE Cancelled \/ Succeed \/ Fail \/ Crash
  BY <1>6 DEF Cancelled, Succeed, Fail, Crash, Idle, waiting, others
<1>7. CASE Restart \/ Sweep
  BY <1>7 DEF Restart, Sweep, waiting, worker
<1>8. CASE Tick
  BY <1>8 DEF Tick, waiting
<1> QED
  BY <1>1, <1>2, <1>3, <1>4, <1>5, <1>6, <1>7, <1>8 DEF Next, Ending

\* A step that leaves the line, and those who wait in it, as they are.
LEMMA WaitByFrame ==
    ASSUME IInv, WaitInv, IsFiniteSet(Jobs), UNCHANGED waiting,
           left' \in Nat, left' <= left, crashes' = 0 => crashes = 0, loose' = {} => loose = {},
           \A j \in queue : status'[j] = status[j] /\ ttl'[j] = ttl[j] /\ upload'[j] = upload[j]
    PROVE  WaitInv'
<1> SUFFICES ASSUME crashes' = 0, loose' = {}, NEW j \in queue
             PROVE  /\ status'[j] = "queued" /\ upload'[j] # Gone
                    /\ ttl'[j] + upload'[j] = ResultTTL + JobTimeout
                    /\ upload'[j] + Turn(j)' <= Longest
  BY DEF WaitInv, waiting, Longest
<1> DEFINE c == Cardinality(Before(j)) * JobTimeout
<1>1. Before(j)' = Before(j) BY DEF Before, waiting
<1>2. c \in Nat BY BeforeIsFinite, Rounds
<1>3. Turn(j) = left + c /\ Turn(j)' = left' + c BY <1>1 DEF Turn
<1>4. Longest \in Int
  <2>1. Cardinality(Jobs) \in Nat BY FS_CardinalityType
  <2> QED BY <2>1, Limits DEF Longest
<1>5. upload[j] \in Int /\ left \in Nat BY DEF IInv, TypeOK, Gone
<1> HIDE DEF c
<1> QED BY <1>2, <1>3, <1>4, <1>5 DEF WaitInv

\* The newcomer has everybody before it but itself, and the run in progress.
LEMMA WaitSubmit ==
    ASSUME IInv, LineInv, WaitInv, IsFiniteSet(Jobs), NEW i \in Jobs, Submit(i)
    PROVE  WaitInv'
<1> SUFFICES ASSUME crashes' = 0, loose' = {}, NEW j \in queue'
             PROVE  /\ status'[j] = "queued" /\ upload'[j] # Gone
                    /\ ttl'[j] + upload'[j] = ResultTTL + JobTimeout
                    /\ upload'[j] + Turn(j)' <= Longest
  BY DEF WaitInv, Longest
<1> USE NoJobAssumption, Limits
<1>1. CASE j # i
  <2>1. j \in queue /\ Before(j)' = Before(j)
    BY <1>1 DEF Submit, Before, LineInv, IInv, TypeOK
  <2>2. Turn(j)' = Turn(j) BY <2>1 DEF Turn, Submit, worker
  <2>3. status'[j] = status[j] /\ ttl'[j] = ttl[j] /\ upload'[j] = upload[j]
    BY <1>1, <2>1 DEF Submit, Save, IInv, TypeOK
  <2> QED BY <2>1, <2>2, <2>3 DEF WaitInv, Submit, worker
<1>2. CASE j = i
  <2> DEFINE Others == Jobs \ {i}
             n == Cardinality(Jobs)
             q == Cardinality(queue)
  <2>1. i \notin queue /\ i # runner BY DEF Submit, IInv, QueueInv, RunInv
  <2>2. IsFiniteSet(Others) /\ Cardinality(Others) = n - 1 /\ n \in Nat
    BY FS_RemoveElement, FS_CardinalityType
  <2>3. queue \in SUBSET Others BY <2>1 DEF IInv, TypeOK
  <2>4. IsFiniteSet(queue) /\ q <= n - 1 /\ q \in Nat
    BY <2>2, <2>3, FS_Subset, FS_CardinalityType
  <2>5. Before(i)' = queue BY <2>1 DEF Before, Submit, IInv, TypeOK
  <2>6. Turn(i)' = left + q * JobTimeout BY <2>5 DEF Turn, Submit, worker
  <2>7. status'[i] = "queued" /\ upload'[i] = 0 /\ ttl'[i] = ResultTTL + JobTimeout
    BY DEF Submit, Save, RecordTTL, Terminal, IInv, TypeOK
  <2>8. left + q * JobTimeout <= (n - 1) * JobTimeout
    <3>1. CASE runner = NoJob
      <4>1. left = 0 BY <3>1 DEF LineInv
      <4> QED BY <2>2, <2>4, <4>1, Rounds
    <3>2. CASE runner # NoJob
      <4>1. runner \in Others \ queue BY <2>1, <3>2 DEF IInv, TypeOK, QueueInv
      <4>2. Cardinality(Others \ {runner}) = n - 2 /\ IsFiniteSet(Others \ {runner})
        <5> DEFINE O == Others
        <5>1. IsFiniteSet(O) /\ Cardinality(O) = n - 1 /\ runner \in O BY <2>2, <4>1
        <5> HIDE DEF O
        <5>2. IsFiniteSet(O \ {runner}) /\ Cardinality(O \ {runner}) = Cardinality(O) - 1
          BY <5>1, FS_RemoveElement
        <5> QED BY <2>2, <5>1, <5>2 DEF O
      <4>3. queue \in SUBSET (Others \ {runner}) BY <2>3, <4>1
      <4>4. q <= n - 2 BY <4>2, <4>3, FS_Subset
      <4>5. q + 1 \in Nat /\ n - 1 \in Nat /\ q + 1 <= n - 1 BY <2>2, <2>4, <4>4
      <4>6. (q + 1) * JobTimeout = q * JobTimeout + JobTimeout /\ q * JobTimeout \in Nat
        BY <2>4, Rounds
      <4>7. (q + 1) * JobTimeout <= (n - 1) * JobTimeout BY <4>5, Rounds
      <4>8. (n - 1) * JobTimeout \in Nat BY <4>5, Rounds
      <4>9. left <= JobTimeout /\ left \in Nat BY DEF IInv, TypeOK
      <4> HIDE DEF n, q
      <4> QED BY <4>6, <4>7, <4>8, <4>9
    <3> QED BY <3>1, <3>2
  <2>9. Turn(j)' = left + q * JobTimeout BY <1>2, <2>6 DEF Turn, Before
  <2>10. q * JobTimeout \in Nat /\ left \in Nat BY <2>4, Rounds DEF IInv, TypeOK
  <2> HIDE DEF n, q
  <2>11. 0 + Turn(j)' <= (n - 1) * JobTimeout BY <2>8, <2>9, <2>10
  <2> QED BY <1>2, <2>7, <2>11 DEF Longest, Gone, n
<1> QED BY <1>1, <1>2

\* A DELETE shortens the line.
LEMMA WaitDelete ==
    ASSUME IInv, WaitInv, IsFiniteSet(Jobs), NEW i \in Jobs, Delete(i)
    PROVE  WaitInv'
<1> SUFFICES ASSUME crashes' = 0, loose' = {}, NEW j \in queue'
             PROVE  /\ status'[j] = "queued" /\ upload'[j] # Gone
                    /\ ttl'[j] + upload'[j] = ResultTTL + JobTimeout
                    /\ upload'[j] + Turn(j)' <= Longest
  BY DEF WaitInv, Longest
<1> DEFINE b == Cardinality(Before(j))
           c == Cardinality(Before(j)')
<1>1. j \in queue /\ j # i /\ Before(j)' \in SUBSET Before(j) BY DEF Delete, Before
<1>2. b \in Nat /\ c \in Nat /\ c <= b
  BY <1>1, BeforeIsFinite, FS_Subset, FS_CardinalityType
<1>3. c * JobTimeout <= b * JobTimeout /\ c * JobTimeout \in Nat /\ b * JobTimeout \in Nat
  BY <1>2, Rounds
<1>4. Turn(j) = left + b * JobTimeout /\ Turn(j)' = left + c * JobTimeout
  BY DEF Turn, Delete, worker
<1>5. status'[j] = status[j] /\ ttl'[j] = ttl[j] /\ upload'[j] = upload[j]
  BY <1>1 DEF Delete, IInv, TypeOK
<1>6. Longest \in Int
  <2>1. Cardinality(Jobs) \in Nat BY FS_CardinalityType
  <2> QED BY <2>1, Limits DEF Longest
<1>7. upload[j] \in Int /\ left \in Nat BY <1>1 DEF IInv, TypeOK, Gone
<1>8. crashes = 0 /\ loose = {} BY DEF Delete, worker
<1> HIDE DEF b, c
<1> QED BY <1>1, <1>3, <1>4, <1>5, <1>6, <1>7, <1>8 DEF WaitInv

\* The first in line takes the worker; nobody waits longer for it.
LEMMA WaitStart ==
    ASSUME IInv, LineInv, WaitInv, IsFiniteSet(Jobs), NEW i \in Jobs, Start(i)
    PROVE  WaitInv'
<1> SUFFICES ASSUME crashes' = 0, loose' = {}, NEW j \in queue'
             PROVE  /\ status'[j] = "queued" /\ upload'[j] # Gone
                    /\ ttl'[j] + upload'[j] = ResultTTL + JobTimeout
                    /\ upload'[j] + Turn(j)' <= Longest
  BY DEF WaitInv, Longest
<1> DEFINE b == Cardinality(Before(j))
           c == Cardinality(Before(j)')
<1>1. j \in queue /\ j # i /\ i \in queue BY DEF Start
<1>2. i \in Before(j) /\ Before(j)' = Before(j) \ {i}
  BY <1>1 DEF Start, Before, LineInv, files
<1>3. b \in Nat /\ c = b - 1 /\ c \in Nat
  <2>1. IsFiniteSet(Before(j)) /\ b \in Nat BY <1>1, BeforeIsFinite
  <2>2. IsFiniteSet(Before(j) \ {i}) /\ c = b - 1 BY <1>2, <2>1, FS_RemoveElement
  <2>3. c \in Nat BY <1>2, <2>2, FS_CardinalityType
  <2> QED BY <2>1, <2>2, <2>3
<1>4. b * JobTimeout = c * JobTimeout + JobTimeout /\ c * JobTimeout \in Nat
  <2>1. b = c + 1 BY <1>3
  <2> HIDE DEF b, c
  <2> QED BY <1>3, <2>1, Rounds
<1>5. left = 0 /\ left' <= JobTimeout /\ left' \in Nat
  BY Limits DEF Start, LineInv, worker, IInv, TypeOK
<1>6. Turn(j) = left + b * JobTimeout /\ Turn(j)' = left' + c * JobTimeout
  BY DEF Turn
<1>7. status'[j] = status[j] /\ ttl'[j] = ttl[j] /\ upload'[j] = upload[j]
  BY <1>1 DEF Start, Save, store, files, IInv, TypeOK
<1>8. Longest \in Int
  <2>1. Cardinality(Jobs) \in Nat BY FS_CardinalityType
  <2> QED BY <2>1, Limits DEF Longest
<1>9. upload[j] \in Int /\ crashes = 0 /\ loose = {}
  BY <1>1 DEF IInv, TypeOK, Gone, Start, worker, others
<1> HIDE DEF b, c
<1> QED BY <1>1, <1>4, <1>5, <1>6, <1>7, <1>8, <1>9, Limits DEF WaitInv

\* A tick takes from the run in progress what it adds to everybody's wait.
LEMMA WaitTick ==
    ASSUME IInv, LineInv, WaitInv, IsFiniteSet(Jobs), BacklogFits, Tick
    PROVE  WaitInv'
<1> SUFFICES ASSUME crashes' = 0, loose' = {}, NEW j \in queue'
             PROVE  /\ status'[j] = "queued" /\ upload'[j] # Gone
                    /\ ttl'[j] + upload'[j] = ResultTTL + JobTimeout
                    /\ upload'[j] + Turn(j)' <= Longest
  BY DEF WaitInv, Longest
<1> USE Limits
<1> DEFINE c == Cardinality(Before(j)) * JobTimeout
<1>1. j \in queue /\ queue' = queue /\ crashes = 0 /\ loose = {} BY DEF Tick, waiting
<1>2. runner # NoJob /\ left > 0 /\ left \in Nat
  BY <1>1 DEF Tick, ClockMayRun, LineInv, IInv, TypeOK
<1>3. Before(j)' = Before(j) BY DEF Before, Tick, waiting
<1>4. c \in Nat BY <1>1, BeforeIsFinite, Rounds
<1>5. Turn(j) = left + c /\ Turn(j)' = left - 1 + c
  BY <1>2, <1>3 DEF Turn, Tick
<1>6. Longest \in Int /\ Longest < ResultTTL
  <2>1. Cardinality(Jobs) \in Nat BY FS_CardinalityType
  <2> QED BY <2>1 DEF Longest, BacklogFits
<1>7. /\ status[j] = "queued" /\ upload[j] # Gone
      /\ ttl[j] + upload[j] = ResultTTL + JobTimeout
      /\ upload[j] + Turn(j) <= Longest
  BY <1>1 DEF WaitInv
<1>8. upload[j] \in Gone..ResultTTL /\ ttl[j] \in Nat /\ j \in Jobs BY <1>1 DEF IInv, TypeOK
<1> HIDE DEF c
<1>9. upload[j] \in Nat /\ upload[j] < ResultTTL /\ ttl[j] > 1
  BY <1>2, <1>4, <1>5, <1>6, <1>7, <1>8 DEF Gone
<1>10. status'[j] = "queued" /\ ttl'[j] = ttl[j] - 1 /\ upload'[j] = upload[j] + 1
  BY <1>7, <1>8, <1>9 DEF Tick, Expires, Aged, Least, Gone
<1> QED BY <1>2, <1>4, <1>5, <1>6, <1>7, <1>8, <1>9, <1>10 DEF Gone

LEMMA WaitNext ==
    ASSUME IInv, LineInv, WaitInv, IsFiniteSet(Jobs), BacklogFits, [Next]_vars
    PROVE  WaitInv'
<1> USE NoJobAssumption, Limits
<1>1. CASE UNCHANGED vars
  BY <1>1, WaitByFrame DEF vars, store, files, worker, others, IInv, TypeOK
<1>2. ASSUME NEW i \in Jobs, Submit(i) \/ Delete(i) \/ Start(i) PROVE WaitInv'
  BY <1>2, WaitSubmit, WaitDelete, WaitStart
<1>3. CASE Decoding \/ FfmpegWrites \/ Stamp
  <2>1. UNCHANGED <<store, upload, waiting, left, others>> /\ (loose' = {} => loose = {})
    BY <1>3 DEF Decoding, Decode, NotSoundfile, TimeoutSwallowed, StartFfmpeg, FfmpegDone,
                FfmpegWrites, Stamp, worker
  <2> QED BY <2>1, WaitByFrame DEF store, others, IInv, TypeOK
<1>4. CASE Progress \/ Cancelled \/ Succeed \/ Fail
  <2>1. runner \in Jobs /\ runner \notin queue /\ UNCHANGED <<waiting, crashes, loose>>
    BY <1>4 DEF Progress, Cancelled, Succeed, Fail, Idle, IInv, TypeOK, QueueInv, others, worker
  <2>2. left' \in Nat /\ left' <= left
    BY <1>4 DEF Progress, Cancelled, Succeed, Fail, Idle, worker, IInv, TypeOK
  <2>3. \A j \in Jobs \ {runner} :
           status'[j] = status[j] /\ ttl'[j] = ttl[j] /\ upload'[j] = upload[j]
    BY <1>4 DEF Progress, Cancelled, Succeed, Fail, Settle, Save, store, files, IInv, TypeOK
  <2>4. queue \subseteq Jobs BY DEF IInv, TypeOK
  <2> QED BY <2>1, <2>2, <2>3, <2>4, WaitByFrame
<1>5. CASE Crash
  BY <1>5 DEF Crash, WaitInv, IInv, TypeOK
<1>6. CASE Restart
  BY <1>6 DEF Restart, WaitInv, LineInv
<1>7. CASE Sweep
  <2>1. CASE crashes = 0 /\ loose = {}
    <3>1. ASSUME NEW j \in queue
          PROVE  status'[j] = status[j] /\ ttl'[j] = ttl[j] /\ upload'[j] = upload[j]
      <4>1. j \in Jobs /\ upload[j] \in Int /\ left \in Nat BY DEF IInv, TypeOK, Gone
      <4>2. status[j] = "queued" /\ upload[j] + Turn(j) <= Longest BY <2>1 DEF WaitInv
      <4>3. Cardinality(Before(j)) * JobTimeout \in Nat BY BeforeIsFinite, Rounds
      <4>4. Longest \in Int /\ Longest < ResultTTL
        <5>1. Cardinality(Jobs) \in Nat BY FS_CardinalityType
        <5> QED BY <5>1 DEF Longest, BacklogFits
      <4>5. upload[j] < ResultTTL
        <5> DEFINE c == Cardinality(Before(j)) * JobTimeout
        <5>1. c \in Nat /\ Turn(j) = left + c BY <4>3 DEF Turn
        <5> HIDE DEF c
        <5> QED BY <4>1, <4>2, <4>4, <5>1
      <4> QED BY <1>7, <4>1, <4>2, <4>5 DEF Sweep, Stale, Swept, PastCutoff
    <3>2. UNCHANGED <<waiting, left, crashes, loose>> BY <1>7 DEF Sweep, worker
    <3> QED BY <3>1, <3>2, WaitByFrame DEF IInv, TypeOK
  <2>2. CASE ~(crashes = 0 /\ loose = {}) BY <1>7, <2>2 DEF Sweep, worker, WaitInv
  <2> QED BY <2>1, <2>2
<1>8. CASE Tick BY <1>8, WaitTick
<1> QED
  BY <1>1, <1>2, <1>3, <1>4, <1>5, <1>6, <1>7, <1>8 DEF Next, Ending

\* save_job and sweep_artifacts: for any number of jobs whose runs, one after the
\* other, fit into the result TTL, a job that waits for a worker that has not died
\* keeps its record and its upload until its turn.
THEOREM QueueKeepsItsJobs == IsFiniteSet(Jobs) => (Spec => []QueuedSurvives)
<1>1. CASE IsFiniteSet(Jobs) /\ BacklogFits
  <2>1. Init => LineInv /\ WaitInv BY DEF Init, LineInv, WaitInv
  <2>2. IInv /\ LineInv /\ WaitInv /\ [Next]_vars => LineInv' /\ WaitInv'
    BY <1>1, LineNext, WaitNext
  <2>3. WaitInv => QueuedSurvives BY DEF WaitInv, QueuedSurvives
  <2> QED BY <2>1, <2>2, <2>3, Invariant, PTL DEF Spec
<1>2. CASE ~BacklogFits
  <2>1. QueuedSurvives BY <1>2 DEF QueuedSurvives
  <2> QED BY <2>1, PTL
<1> QED BY <1>1, <1>2
=============================================================================
