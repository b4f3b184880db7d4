---------------------------- MODULE ClientProofs ------------------------------
(***************************************************************************)
(* Client, for any runs over any files, with any bound on jobs, faults and *)
(* Ctrl-C: its types, what the job log keeps, what is lost to it, what     *)
(* lies in data/out, and what stays in the temporary directory.            *)
(***************************************************************************)
EXTENDS Client, TLAPS, FiniteSetTheorems, SequenceTheorems

Labels  == {"next", "extract", "ffmpeg", "upload", "read", "open", "write", "poll",
            "fetch", "return", "raise", "ended"}
Holding == {"read", "open", "write", "poll", "fetch"}
Active  == Holding \union {"extract", "ffmpeg", "upload"}

Record == [pc : Labels, file : Nat, job : Nat, seen : Seq(Ids), stem : Nat,
           scratch : BOOLEAN]

RunOK == run \in [Clients -> Record]

ServerInv ==
    /\ status \in [Ids -> {"absent", "queued", "running", "gone"} \union Server!Outcomes]
    /\ made \in 0..MaxJobs /\ \A id \in Ids : status[id] # "absent" <=> id <= made

RestInv ==
    /\ ok \in [Clients -> SUBSET Files]
    /\ out \in [Dests -> [DOMAIN Stems -> [from : Nat, whole : BOOLEAN]]]
    /\ raced \in BOOLEAN /\ faults \in 0..MaxFaults /\ breaks \in 0..MaxBreaks

\* Who holds a job, and which.
HoldInv ==
    /\ \A c \in Clients :
          /\ run[c].job \in 0..made /\ run[c].file \in 0..Len(Todo[c])
          /\ run[c].pc \in Holding <=> run[c].job # 0
          /\ run[c].pc \in Active => run[c].file > 0
    /\ \A c, d \in Clients : run[c].job = run[d].job /\ run[c].job # 0 => c = d

\* A job is noted once, by its run.
NotedInv ==
    /\ noted \subseteq 1..made
    /\ \A c \in Clients : /\ run[c].pc \in {"read", "open", "write"} => run[c].job \notin noted
                          /\ run[c].pc \in {"poll", "fetch"} => run[c].job \in noted

Sized(jobs) == jobs \in Seq(Ids) /\ Len(jobs) <= Keep

SizeInv == (log = Cut \/ Sized(log)) /\ \A c \in Clients : Len(run[c].seen) <= Keep

Within(id, jobs) == \E k \in DOMAIN jobs : jobs[k] = id

\* What a log has to be, when ids are noted and sure among them are in nobody's way.
Whole(jobs, ids, sure) ==
    /\ Sized(jobs)
    /\ \A id \in sure : Within(id, jobs) \/ Len(jobs) = Keep
    /\ \A k \in DOMAIN jobs : jobs[k] \in ids
    /\ \A k, l \in DOMAIN jobs : k < l => jobs[k] # jobs[l]

Sure == noted \ overlapped

\* What a run has read in remember, and what the log says, has every job that is
\* noted while nobody else is there.
LogInv ==
    /\ \A c \in Clients : InRemember(c) => Whole(run[c].seen, noted, Sure)
    /\ IF log = Cut THEN breaks > 0 \/ raced \/ \E c \in Clients : At(c, "write")
                    ELSE Whole(log, noted, Sure)

Lost == Forgotten \ unread

LostInv == /\ unread \subseteq 1..made
           /\ unread # {} => raced \/ breaks > 0
           /\ Cardinality(Lost) <= faults + breaks

\* A track is litter, or its run holds its path and will remove it.
TrackInv ==
    /\ IsFiniteSet(Litter) /\ Cardinality(Litter) <= breaks
    /\ \A t \in tracks : \E c \in Clients, n \in Nat : t = <<c, n>> /\ n <= run[c].file
    /\ \A c \in Clients :
          /\ run[c].pc \in {"next", "ended", "extract"} => ~run[c].scratch
          /\ run[c].pc = "extract" => Track(c) \notin tracks
          /\ run[c].pc \notin {"next", "ended"} /\ Track(c) \in tracks => run[c].scratch

Fetched(f, k) == out[Dest[f]][k]

\* Stem k of f is there, and it is of this job unless others write there too.
There(f, k, id) ==
    /\ Fetched(f, k).from # 0 /\ (Fetched(f, k).whole \/ faults > 0)
    /\ Shared(f) \/ Fetched(f, k).from = id

\* f is behind run c, at position n of its list.
Behind(c, n) == n < run[c].file \/ (n = run[c].file /\ run[c].pc \notin Active)

FetchInv == \A c \in Clients :
    /\ run[c].pc # "fetch" => run[c].stem = 0
    /\ run[c].stem <= Len(Stems)
    /\ \A k \in 1..run[c].stem : There(Current(c), k, run[c].job)

DoneInv == \A c \in Clients : \A f \in ok[c] :
    /\ \E n \in DOMAIN Todo[c] : f = Todo[c][n] /\ Behind(c, n)
    /\ \E id \in Nat : \A k \in DOMAIN Stems : There(f, k, id)

CInv == /\ ServerInv /\ RunOK /\ RestInv /\ HoldInv /\ NotedInv /\ SizeInv /\ LogInv /\ LostInv
        /\ TrackInv /\ FetchInv /\ DoneInv

-----------------------------------------------------------------------------
(* What each action makes of the record of its run, field by field. *)

Others(c) == \A d \in Clients \ {c} : run'[d] = run[d]

KeepsAllBut(c, fields) ==
    /\ "pc" \in fields \/ run'[c].pc = run[c].pc
    /\ "file" \in fields \/ run'[c].file = run[c].file
    /\ "job" \in fields \/ run'[c].job = run[c].job
    /\ "seen" \in fields \/ run'[c].seen = run[c].seen
    /\ "stem" \in fields \/ run'[c].stem = run[c].stem
    /\ "scratch" \in fields \/ run'[c].scratch = run[c].scratch

Left(c) ==
    /\ run'[c].pc \in {"next", "return", "raise", "ended"} /\ run'[c].file = run[c].file
    /\ run'[c].job = 0 /\ run'[c].seen = <<>> /\ run'[c].stem = 0

From(c, label, next) == run[c].pc = label /\ run'[c].pc = next

Taken == made < MaxJobs /\ made' = made + 1 /\ status' = [status EXCEPT ![made + 1] = "queued"]

Faulty == faults < MaxFaults /\ faults' = faults + 1

Taking(c) ==
    /\ From(c, "next", "extract") /\ run'[c].file = run[c].file + 1
    /\ run[c].file < Len(Todo[c]) /\ KeepsAllBut(c, {"pc", "file"})
    /\ UNCHANGED <<status, made, log, noted, raced, overlapped, unread,
                   ok, out, faults, breaks>>

Stopping(c) ==
    /\ From(c, "next", "ended") /\ KeepsAllBut(c, {"pc"})
    /\ UNCHANGED <<status, made, log, noted, raced, overlapped, unread,
                   ok, out, faults, breaks>>

Extracting(c) ==
    /\ run[c].pc \in {"extract", "ffmpeg"} /\ run'[c].pc \in {"ffmpeg", "upload"}
    /\ KeepsAllBut(c, {"pc", "scratch"})
    /\ UNCHANGED <<status, made, log, noted, raced, overlapped, unread,
                   ok, out, faults, breaks>>

\* The answer of an upload that was heard, lost, or not given.
Heard(c) ==
    /\ From(c, "upload", "read") /\ run'[c].job = made + 1 /\ KeepsAllBut(c, {"pc", "job"})
    /\ Taken
    /\ UNCHANGED <<log, noted, raced, overlapped, unread, ok, out, faults, breaks>>

Unheard(c) ==
    /\ run[c].pc = "upload" /\ Left(c) /\ Taken /\ Faulty
    /\ UNCHANGED <<log, noted, raced, overlapped, unread, ok, out, breaks>>

NotTaken(c) ==
    /\ run[c].pc = "upload" /\ Left(c) /\ Faulty
    /\ UNCHANGED <<status, made, log, noted, raced, overlapped, unread, ok, out, breaks>>

Races == raced' = (raced \/ \E d \in Clients : InRemember(d))

Unread(c) ==
    /\ run[c].pc = "read" /\ log = Cut /\ Left(c) /\ Races
    /\ unread' = unread \union {run[c].job}
    /\ UNCHANGED <<status, made, log, noted, overlapped, ok, out, faults, breaks>>

Reading(c) ==
    /\ log # Cut /\ From(c, "read", "open") /\ run'[c].seen = log
    /\ KeepsAllBut(c, {"pc", "seen"}) /\ Races
    /\ UNCHANGED <<status, made, log, noted, overlapped, unread, ok, out, faults, breaks>>

Opening(c) ==
    /\ From(c, "open", "write") /\ KeepsAllBut(c, {"pc"}) /\ log' = Cut
    /\ UNCHANGED <<status, made, noted, raced, overlapped, unread, ok, out, faults, breaks>>

Writing(c) ==
    /\ From(c, "write", "poll") /\ run'[c].seen = <<>> /\ KeepsAllBut(c, {"pc", "seen"})
    /\ log' = Extended(run[c].seen, run[c].job) \/ (raced /\ log' = Cut)
    /\ noted' = noted \union {run[c].job}
    /\ overlapped' = IF \E d \in Clients \ {c} : InRemember(d)
                        THEN overlapped \union {run[c].job} ELSE overlapped
    /\ UNCHANGED <<status, made, raced, unread, ok, out, faults, breaks>>

Polled(c) ==
    /\ From(c, "poll", "fetch") /\ KeepsAllBut(c, {"pc"})
    /\ UNCHANGED <<status, made, log, noted, raced, overlapped, unread,
                   ok, out, faults, breaks>>

Unpolled(c) ==
    /\ run[c].pc = "poll" /\ Left(c) /\ (UNCHANGED faults \/ Faulty)
    /\ UNCHANGED <<status, made, log, noted, raced, overlapped, unread, ok, out, breaks>>

Fetching(c) ==
    /\ From(c, "fetch", "fetch") /\ ~AllFetched(c)
    /\ run'[c].stem = run[c].stem + 1 /\ KeepsAllBut(c, {"stem"})
    /\ \/ out' = Got(c, TRUE) /\ UNCHANGED faults
       \/ out' = Got(c, FALSE) /\ Faulty
    /\ UNCHANGED <<status, made, log, noted, raced, overlapped, unread, ok, breaks>>

Unfetched(c) ==
    /\ run[c].pc = "fetch" /\ ~AllFetched(c) /\ Left(c)
    /\ \/ UNCHANGED <<out, faults>>
       \/ out' \in {out, Got(c, FALSE)} /\ Faulty
    /\ UNCHANGED <<status, made, log, noted, raced, overlapped, unread, ok, breaks>>

AllDone(c) ==
    /\ run[c].pc = "fetch" /\ AllFetched(c) /\ Left(c)
    /\ ok' = [ok EXCEPT ![c] = @ \union {Current(c)}]
    /\ UNCHANGED <<status, made, log, noted, raced, overlapped, unread, out, faults, breaks>>

Breaks == breaks < MaxBreaks /\ breaks' = breaks + 1

Broken(c) ==
    /\ run[c].pc # "ended" /\ Left(c) /\ Breaks
    /\ UNCHANGED <<status, made, log, noted, raced, overlapped, unread, ok, out, faults>>

Finishing(c) ==
    /\ run[c].pc \in {"return", "raise"} /\ run'[c].pc \in {"next", "ended"}
    /\ KeepsAllBut(c, {"pc", "scratch"})
    /\ UNCHANGED <<status, made, log, noted, raced, overlapped, unread,
                   ok, out, faults, breaks>>

Moves(c) ==
    \/ Taking(c) \/ Stopping(c) \/ Extracting(c) \/ Heard(c) \/ Unheard(c) \/ NotTaken(c)
    \/ Unread(c) \/ Reading(c) \/ Opening(c) \/ Writing(c) \/ Polled(c) \/ Unpolled(c)
    \/ Fetching(c) \/ Unfetched(c) \/ AllDone(c) \/ Broken(c) \/ Finishing(c)

LEMMA GotoDoes ==
    ASSUME RunOK, NEW c \in Clients, NEW label \in Labels, Goto(c, label)
    PROVE  RunOK' /\ Others(c) /\ run'[c].pc = label /\ KeepsAllBut(c, {"pc"})
  BY DEF Goto, Others, KeepsAllBut, RunOK, Record

LEMMA LeaveDoes ==
    ASSUME RunOK, NEW c \in Clients, Returns(c) \/ Raises(c)
    PROVE  RunOK' /\ Others(c) /\ Left(c)
  <1>1. PICK label \in {"next", "return", "raise", "ended"} : Leave(c, label)
    BY DEF Returns, Raises
  <1>2. label \in Labels
    BY DEF Labels
  <1> QED
    BY <1>1, <1>2, EmptySeq DEF Leave, Idle, Others, Left, RunOK, Record

LEMMA NextFileDoes ==
    ASSUME RunOK, NEW c \in Clients, NextFile(c)
    PROVE  RunOK' /\ Others(c) /\ (Taking(c) \/ Stopping(c))
  <1>1. CASE run[c].file < Len(Todo[c])
    <2>1. run' = [run EXCEPT ![c] = [[run[c] EXCEPT !.file = run[c].file + 1]
                                         EXCEPT !.pc = "extract"]]
      BY <1>1 DEF NextFile
    <2>2. run[c].file + 1 \in Nat
      BY DEF RunOK, Record
    <2>3. RunOK' /\ Others(c) /\ KeepsAllBut(c, {"pc", "file"})
          /\ run'[c].pc = "extract" /\ run'[c].file = run[c].file + 1
      BY <2>1, <2>2 DEF Others, KeepsAllBut, RunOK, Record, Labels
    <2> QED
      BY <2>3, <1>1 DEF NextFile, At, Taking, From, server, local
  <1>2. CASE ~(run[c].file < Len(Todo[c]))
    <2>1. Goto(c, "ended")
      BY <1>2 DEF NextFile, Goto
    <2>2. RunOK' /\ Others(c) /\ run'[c].pc = "ended" /\ KeepsAllBut(c, {"pc"})
      BY <2>1, GotoDoes DEF Labels
    <2> QED
      BY <2>2 DEF NextFile, At, Stopping, From, server, local
  <1> QED
    BY <1>1, <1>2

LEMMA ScratchDoes ==
    ASSUME RunOK, NEW c \in Clients, NEW label \in Labels, NEW b \in BOOLEAN,
           run' = [run EXCEPT ![c].pc = label, ![c].scratch = b]
    PROVE  RunOK' /\ Others(c) /\ run'[c].pc = label /\ run'[c].scratch = b
           /\ KeepsAllBut(c, {"pc", "scratch"})
  <1>1. run' = [run EXCEPT ![c] = [[run[c] EXCEPT !.pc = label] EXCEPT !.scratch = b]]
    OBVIOUS
  <1> DEFINE new == [[run[c] EXCEPT !.pc = label] EXCEPT !.scratch = b]
  <1>4. new \in Record
    BY DEF RunOK, Record
  <1>2. RunOK' /\ Others(c)
    BY <1>1, <1>4 DEF Others, RunOK
  <1>3. run'[c].pc = label /\ run'[c].scratch = b /\ KeepsAllBut(c, {"pc", "scratch"})
    BY <1>1 DEF KeepsAllBut, RunOK, Record
  <1> QED
    BY <1>2, <1>3

LEMMA ExtractDoes ==
    ASSUME RunOK, NEW c \in Clients, Extract(c) \/ Ffmpeg(c)
    PROVE  RunOK' /\ Others(c) /\ Extracting(c)
  <1>1. ASSUME Goto(c, "upload")
        PROVE  RunOK' /\ Others(c) /\ run'[c].pc = "upload" /\ KeepsAllBut(c, {"pc"})
    BY <1>1, GotoDoes DEF Labels
  <1>2. ASSUME NEW label \in {"ffmpeg", "upload"}, NEW b \in BOOLEAN,
               run' = [run EXCEPT ![c].pc = label, ![c].scratch = b]
        PROVE  RunOK' /\ Others(c) /\ run'[c].pc = label /\ KeepsAllBut(c, {"pc", "scratch"})
    BY <1>2, ScratchDoes DEF Labels
  <1> QED
    BY <1>1, <1>2 DEF Extract, Ffmpeg, At, Extracting, KeepsAllBut, server, local

LEMMA FinallyDoes ==
    ASSUME RunOK, NEW c \in Clients, Finally(c)
    PROVE  RunOK' /\ Others(c) /\ Finishing(c)
  <1>1. PICK label \in {"next", "ended"} :
           run' = [run EXCEPT ![c].pc = label, ![c].scratch = FALSE]
    BY DEF Finally
  <1>2. RunOK' /\ Others(c) /\ run'[c].pc = label /\ KeepsAllBut(c, {"pc", "scratch"})
    BY <1>1, ScratchDoes DEF Labels
  <1> QED
    BY <1>2 DEF Finally, At, Finishing, server, local

LEMMA TakenDoes ==
    ASSUME made < MaxJobs, made' = made + 1, Server!Submit(made')
    PROVE  Taken
  BY DEF Taken, Server!Submit, Server!Move

LEMMA UploadDoes ==
    ASSUME RunOK, made \in Nat, NEW c \in Clients, Upload(c)
    PROVE  RunOK' /\ Others(c) /\ (Heard(c) \/ Unheard(c) \/ NotTaken(c))
  <1>1. ASSUME run' = [run EXCEPT ![c].pc = Accepted, ![c].job = made'], made' = made + 1
        PROVE  /\ RunOK' /\ Others(c) /\ KeepsAllBut(c, {"pc", "job"})
               /\ run'[c].pc = "read" /\ run'[c].job = made + 1
    <2>1. run' = [run EXCEPT ![c] = [[run[c] EXCEPT !.pc = "read"] EXCEPT !.job = made + 1]]
      BY <1>1 DEF Accepted
    <2>2. made + 1 \in Nat
      OBVIOUS
    <2> QED
      BY <2>1, <2>2 DEF Others, KeepsAllBut, RunOK, Record, Labels
  <1>2. run[c].pc = "upload" /\ UNCHANGED <<log, noted, raced, overlapped, unread, ok, out, breaks>>
    BY DEF Upload, At, local
  <1>3. \/ /\ Taken
           /\ \/ RunOK' /\ Others(c) /\ KeepsAllBut(c, {"pc", "job"})
                 /\ run'[c].pc = "read" /\ run'[c].job = made + 1 /\ UNCHANGED faults
              \/ Fault /\ RunOK' /\ Others(c) /\ Left(c)
        \/ Fault /\ RunOK' /\ Others(c) /\ Left(c) /\ UNCHANGED server
    BY <1>1, TakenDoes, LeaveDoes DEF Upload
  <1> QED
    BY <1>2, <1>3 DEF Heard, Unheard, NotTaken, From, Fault, Faulty, server

LEMMA ReadDoes ==
    ASSUME RunOK, SizeInv, NEW c \in Clients, Read(c)
    PROVE  RunOK' /\ Others(c) /\ (Unread(c) \/ Reading(c))
  <1>1. CASE log = Cut
    BY <1>1, LeaveDoes DEF Read, At, Unread, Races, server
  <1>2. CASE log # Cut
    <2>1. run' = [run EXCEPT ![c] = [[run[c] EXCEPT !.pc = "open"] EXCEPT !.seen = log]]
      BY <1>2 DEF Read
    <2>2. log \in Seq(Ids)
      BY <1>2 DEF SizeInv, Sized
    <2>3. RunOK' /\ Others(c) /\ run'[c].pc = "open" /\ run'[c].seen = log
          /\ KeepsAllBut(c, {"pc", "seen"})
      BY <2>1, <2>2 DEF Others, KeepsAllBut, RunOK, Record, Labels
    <2> QED
      BY <1>2, <2>3 DEF Read, At, Reading, Races, From, server
  <1> QED
    BY <1>1, <1>2

LEMMA OpenDoes ==
    ASSUME RunOK, NEW c \in Clients, Open(c)
    PROVE  RunOK' /\ Others(c) /\ Opening(c)
  BY GotoDoes DEF Open, Labels, At, Opening, From, server

LEMMA WriteDoes ==
    ASSUME RunOK, NEW c \in Clients, Write(c)
    PROVE  RunOK' /\ Others(c) /\ Writing(c)
  <1>1. run' = [run EXCEPT ![c] = [[run[c] EXCEPT !.pc = "poll"] EXCEPT !.seen = <<>>]]
    BY DEF Write
  <1>2. RunOK' /\ Others(c) /\ run'[c].pc = "poll" /\ run'[c].seen = <<>>
        /\ KeepsAllBut(c, {"pc", "seen"})
    BY <1>1, EmptySeq DEF Others, KeepsAllBut, RunOK, Record, Labels
  <1>3. /\ log' = Extended(run[c].seen, run[c].job) \/ (raced /\ log' = Cut)
        /\ noted' = noted \union {run[c].job} /\ run[c].pc = "write"
        /\ overlapped' = IF \E d \in Clients \ {c} : InRemember(d)
                            THEN overlapped \union {run[c].job} ELSE overlapped
        /\ UNCHANGED <<status, made, raced, unread, ok, out, faults, breaks>>
    BY DEF Write, At, server
  <1> QED
    BY <1>2, <1>3 DEF Writing, From

LEMMA PollDoes ==
    ASSUME RunOK, NEW c \in Clients, Poll(c)
    PROVE  RunOK' /\ Others(c) /\ (Polled(c) \/ Unpolled(c))
  <1>1. ASSUME Goto(c, "fetch")
        PROVE  RunOK' /\ Others(c) /\ run'[c].pc = "fetch" /\ KeepsAllBut(c, {"pc"})
    BY <1>1, GotoDoes DEF Labels
  <1> QED
    BY <1>1, LeaveDoes DEF Poll, At, Polled, Unpolled, From, Fault, Faulty, server, local

LEMMA FetchDoes ==
    ASSUME RunOK, NEW c \in Clients, Fetch(c)
    PROVE  RunOK' /\ Others(c) /\ (Fetching(c) \/ Unfetched(c))
  <1>1. ASSUME run' = [run EXCEPT ![c].stem = @ + 1]
        PROVE  RunOK' /\ Others(c) /\ run'[c].stem = run[c].stem + 1
               /\ KeepsAllBut(c, {"stem"})
    <2>1. run[c].stem + 1 \in Nat
      BY DEF RunOK, Record
    <2> QED
      BY <1>1, <2>1 DEF Others, KeepsAllBut, RunOK, Record
  <1>2. \/ /\ run' = [run EXCEPT ![c].stem = @ + 1]
           /\ \/ out' = Got(c, TRUE) /\ UNCHANGED faults
              \/ out' = Got(c, FALSE) /\ Faulty
        \/ Raises(c) /\ UNCHANGED <<out, faults>>
        \/ Raises(c) /\ Faulty /\ out' \in {out, Got(c, FALSE)}
    BY DEF Fetch, Fault, Faulty
  <1>3. run[c].pc = "fetch" /\ ~AllFetched(c)
        /\ UNCHANGED <<status, made, log, noted, raced, overlapped, unread, ok, breaks>>
    BY DEF Fetch, At, server, local
  <1>4. CASE run' = [run EXCEPT ![c].stem = @ + 1]
    BY <1>1, <1>2, <1>3, <1>4, LeaveDoes DEF Fetching, Unfetched, From, KeepsAllBut
  <1>5. CASE Raises(c)
    BY <1>2, <1>3, <1>5, LeaveDoes, <1>1 DEF Fetching, Unfetched, From, KeepsAllBut
  <1> QED
    BY <1>2, <1>4, <1>5

LEMMA DoneDoes ==
    ASSUME RunOK, NEW c \in Clients, Done(c)
    PROVE  RunOK' /\ Others(c) /\ AllDone(c)
  BY LeaveDoes DEF Done, At, AllDone, server, local

LEMMA BreakDoes ==
    ASSUME RunOK, NEW c \in Clients, Break(c)
    PROVE  RunOK' /\ Others(c) /\ Broken(c)
  <1>1. ASSUME run' = [run EXCEPT ![c] = [Idle EXCEPT !.pc = "ended", !.file = run[c].file]]
        PROVE  RunOK' /\ Others(c) /\ Left(c)
    BY <1>1, EmptySeq DEF Idle, Others, Left, RunOK, Record, Labels
  <1> QED
    BY <1>1, LeaveDoes DEF Break, At, Broken, Breaks, server, local

LEMMA Moved ==
    ASSUME RunOK, ServerInv, SizeInv, NEW c \in Clients, Step(c) \/ Break(c)
    PROVE  RunOK' /\ Others(c) /\ Moves(c)
  <1>1. made \in Nat
    BY BoundsAssumption DEF ServerInv
  <1> QED
    BY <1>1, NextFileDoes, ExtractDoes, UploadDoes, ReadDoes, OpenDoes, WriteDoes, PollDoes,
       FetchDoes, DoneDoes, FinallyDoes, BreakDoes DEF Step, Moves

\* A step of the server moves one job that it has, and no job back to absent.
LEMMA AdvanceDoes ==
    ASSUME NEW id \in Ids, Advance(id)
    PROVE  /\ \E s \in {"running", "gone"} \union Server!Outcomes :
                  status' = [status EXCEPT ![id] = s]
           /\ status[id] # "absent"
           /\ UNCHANGED <<made, local, run, ok, out, tracks, faults, breaks>>
  BY DEF Advance, Server!Start, Server!Forget, Server!Finish, Server!Move, Server!Outcomes

-----------------------------------------------------------------------------
(* Types, and who holds which job. *)

LEMMA CurrentIs ==
    ASSUME RunOK, HoldInv, NEW c \in Clients, run[c].pc \in Active
    PROVE  /\ run[c].file \in DOMAIN Todo[c]
           /\ Current(c) \in Files /\ Dest[Current(c)] \in Dests
  <1>1. run[c].file \in Nat /\ run[c].file > 0 /\ run[c].file <= Len(Todo[c])
    BY TodoAssumption DEF HoldInv, RunOK, Record
  <1>2. run[c].file \in DOMAIN Todo[c]
    BY <1>1, TodoAssumption
  <1>3. Current(c) \in Files
    BY <1>2 DEF Current, Files
  <1> QED
    BY <1>2, <1>3 DEF Dests

LEMMA ServerStep ==
    ASSUME ServerInv, NEW c \in Clients, Moves(c)
    PROVE  ServerInv'
  <1> USE BoundsAssumption DEF ServerInv
  <1>1. CASE Taken
    <2>1. made + 1 \in Ids
      BY <1>1 DEF Ids, Taken
    <2>2. status' \in [Ids -> {"absent", "queued", "running", "gone"} \union Server!Outcomes]
      BY <1>1, <2>1 DEF Taken
    <2>3. \A id \in Ids : status'[id] # "absent" <=> id <= made'
      BY <1>1, <2>1 DEF Ids, Taken
    <2>4. made' \in 0..MaxJobs
      BY <1>1 DEF Taken
    <2> QED
      BY <2>2, <2>3, <2>4
  <1>2. CASE UNCHANGED <<status, made>>
    BY <1>2
  <1> QED
    BY <1>1, <1>2 DEF Moves, Taking, Stopping, Extracting, Heard, Unheard, NotTaken, Unread, Reading,
       Opening, Writing, Polled, Unpolled, Fetching, Unfetched, AllDone, Broken, Finishing

LEMMA ServerAdvance ==
    ASSUME ServerInv, NEW id \in Ids, Advance(id)
    PROVE  ServerInv'
  BY AdvanceDoes DEF ServerInv, Server!Outcomes

LEMMA GotShape ==
    ASSUME RestInv, NEW c \in Clients, NEW whole \in BOOLEAN, run[c].job \in Nat
    PROVE  Got(c, whole) \in [Dests -> [DOMAIN Stems -> [from : Nat, whole : BOOLEAN]]]
  BY DEF RestInv, Got

LEMMA RestStep ==
    ASSUME RunOK, RestInv, HoldInv, NEW c \in Clients, Moves(c)
    PROVE  RestInv'
  <1>1. run[c].job \in Nat
    BY DEF RunOK, Record
  <1>2. out' \in [Dests -> [DOMAIN Stems -> [from : Nat, whole : BOOLEAN]]]
    <2>1. CASE Fetching(c) \/ Unfetched(c)
      BY <2>1, <1>1, GotShape DEF RestInv, Fetching, Unfetched
    <2>2. CASE UNCHANGED out
      BY <2>2 DEF RestInv
    <2> QED
      BY <2>1, <2>2 DEF Moves, Taking, Stopping, Extracting, Heard, Unheard, NotTaken, Unread,
         Reading, Opening, Writing, Polled, Unpolled, AllDone, Broken, Finishing
  <1>3. ok' \in [Clients -> SUBSET Files]
    <2>1. CASE AllDone(c)
      BY <2>1, CurrentIs DEF RestInv, Active, Holding, AllDone
    <2>2. CASE UNCHANGED ok
      BY <2>2 DEF RestInv
    <2> QED
      BY <2>1, <2>2 DEF Moves, Taking, Stopping, Extracting, Heard, Unheard, NotTaken, Unread,
         Reading, Opening, Writing, Polled, Unpolled, Fetching, Unfetched, Broken, Finishing
  <1>4. raced' \in BOOLEAN
    BY DEF RestInv, Moves, Taking, Stopping, Extracting, Heard, Unheard, NotTaken, Unread, Races,
       Reading, Opening, Writing, Polled, Unpolled, Fetching, Unfetched, AllDone, Broken, Finishing
  <1>5. UNCHANGED faults \/ Faulty
    BY DEF Moves, Taking, Stopping, Extracting, Heard, Unheard, NotTaken, Unread,
       Reading, Opening, Writing, Polled, Unpolled, Fetching, Unfetched, AllDone, Broken, Finishing
  <1>6. UNCHANGED breaks \/ Breaks
    BY DEF Moves, Taking, Stopping, Extracting, Heard, Unheard, NotTaken, Unread,
       Reading, Opening, Writing, Polled, Unpolled, Fetching, Unfetched, AllDone, Broken, Finishing
  <1>7. faults' \in 0..MaxFaults /\ breaks' \in 0..MaxBreaks
    BY <1>5, <1>6, BoundsAssumption DEF RestInv, Faulty, Breaks
  <1> QED
    BY <1>2, <1>3, <1>4, <1>7 DEF RestInv

LEMMA HoldStep ==
    ASSUME RunOK, ServerInv, HoldInv, NEW c \in Clients, Others(c), Moves(c)
    PROVE  HoldInv'
  <1>1. UNCHANGED made \/ Taken
    BY DEF Moves, Taking, Stopping, Extracting, Heard, Unheard, NotTaken, Unread, Reading, Opening,
           Writing, Polled, Unpolled, Fetching, Unfetched, AllDone, Broken, Finishing
  <1>2. made \in Nat /\ (made' = made \/ made' = made + 1)
    BY <1>1, BoundsAssumption DEF ServerInv, Taken
  <1> DEFINE Holds == /\ run'[c].file \in 0..Len(Todo[c])
                      /\ run'[c].pc \in Holding <=> run'[c].job # 0
                      /\ run'[c].pc \in Active => run'[c].file > 0
                      /\ \/ run'[c].job = 0
                         \/ run'[c].job = run[c].job
                         \/ run'[c].job = made + 1 /\ made' = made + 1
  <1>3. Holds
    <2>1. /\ run[c].job \in 0..made /\ run[c].file \in 0..Len(Todo[c])
          /\ run[c].pc \in Holding <=> run[c].job # 0
          /\ run[c].pc \in Active => run[c].file > 0
          /\ Len(Todo[c]) \in Nat
      BY TodoAssumption DEF HoldInv
    <2>2. CASE Taking(c)
      BY <2>1, <2>2 DEF Taking, From, KeepsAllBut, Holding, Active
    <2>3. CASE Heard(c)
      BY <2>1, <2>3, <1>2 DEF Heard, From, KeepsAllBut, Holding, Active, Taken
    <2>4. CASE Left(c)
      BY <2>1, <2>4 DEF Left, Holding, Active
    <2>5. CASE /\ KeepsAllBut(c, {"pc", "seen", "stem", "scratch"})
               /\ run[c].pc \in Holding <=> run'[c].pc \in Holding
               /\ run'[c].pc \in Active => run[c].pc \in Active
      BY <2>1, <2>5 DEF KeepsAllBut
    <2> QED
      BY <2>2, <2>3, <2>4, <2>5
         DEF Moves, Stopping, Extracting, Unheard, NotTaken, Unread, Reading, Opening, Writing,
             Polled, Unpolled, Fetching, Unfetched, AllDone, Broken, Finishing, KeepsAllBut, From,
             Holding, Active
  <1> HIDE DEF Holds
  <1>4. ASSUME NEW d \in Clients
        PROVE  /\ run'[d].job \in 0..made' /\ run'[d].file \in 0..Len(Todo[d])
               /\ run'[d].pc \in Holding <=> run'[d].job # 0
               /\ run'[d].pc \in Active => run'[d].file > 0
    BY <1>2, <1>3 DEF Holds, HoldInv, Others
  <1>5. ASSUME NEW d \in Clients, NEW e \in Clients, run'[d].job = run'[e].job,
               run'[d].job # 0
        PROVE  d = e
    BY <1>2, <1>3, <1>5 DEF Holds, HoldInv, Others
  <1> QED
    BY <1>4, <1>5 DEF HoldInv

LEMMA NotedStep ==
    ASSUME NotedInv, HoldInv, ServerInv, RunOK, NEW c \in Clients, Others(c), Moves(c)
    PROVE  NotedInv'
  <1> USE DEF Holding
  <1>1. made \in Nat /\ run[c].job \in Nat
    BY BoundsAssumption DEF ServerInv, RunOK, Record
  <1>2. CASE Writing(c)
    <2>1. run[c].job \in 1..made /\ made' = made
      BY <1>1, <1>2 DEF HoldInv, Writing, From
    <2>2. noted' \subseteq 1..made'
      BY <2>1, <1>2 DEF Writing, NotedInv
    <2>3. ASSUME NEW d \in Clients
          PROVE  /\ run'[d].pc \in {"read", "open", "write"} => run'[d].job \notin noted'
                 /\ run'[d].pc \in {"poll", "fetch"} => run'[d].job \in noted'
      <3>1. CASE d = c
        BY <3>1, <1>2 DEF Writing, From, KeepsAllBut
      <3>2. CASE d # c
        <4>1. run'[d] = run[d]
          BY <3>2 DEF Others
        <4>2. run[d].pc \in Holding => run[d].job # run[c].job
          BY <3>2 DEF HoldInv
        <4> QED
          BY <4>1, <4>2, <1>2 DEF Writing, NotedInv
      <3> QED
        BY <3>1, <3>2
    <2> QED
      BY <2>2, <2>3 DEF NotedInv
  <1>3. CASE Heard(c)
    <2>1. made' = made + 1 /\ noted' = noted /\ made + 1 \notin noted
      BY <1>1, <1>3 DEF Heard, Taken, NotedInv
    <2> QED
      BY <2>1, <1>1, <1>3 DEF Heard, NotedInv, Others, From
  <1>4. CASE /\ UNCHANGED noted /\ made' \in {made, made + 1}
             /\ \/ run'[c].pc \notin Holding
                \/ run'[c].job = run[c].job /\ run'[c].pc = run[c].pc
                \/ run'[c].job = run[c].job /\ From(c, "read", "open")
                \/ run'[c].job = run[c].job /\ From(c, "open", "write")
                \/ run'[c].job = run[c].job /\ From(c, "poll", "fetch")
    <2>1. noted' \subseteq 1..made'
      BY <1>1, <1>4 DEF NotedInv
    <2> QED
      BY <2>1, <1>4 DEF NotedInv, Others, From
  <1>5. UNCHANGED made \/ Taken
    BY DEF Moves, Taking, Stopping, Extracting, Heard, Unheard, NotTaken, Unread, Reading, Opening,
           Writing, Polled, Unpolled, Fetching, Unfetched, AllDone, Broken, Finishing
  <1>6. made' \in {made, made + 1}
    BY <1>5 DEF Taken
  <1> QED
    BY <1>2, <1>3, <1>4, <1>6
       DEF Moves, Taking, Stopping, Extracting, Unheard, NotTaken, Unread, Reading, Opening,
           Polled, Unpolled, Fetching, Unfetched, AllDone, Broken, Finishing, KeepsAllBut, Left, From

-----------------------------------------------------------------------------
(* The job log. *)

LEMMA CutIsNoLog == Cut \notin Seq(Ids) /\ ~Sized(Cut)
  <1>1. Cut \notin Seq(Ids)
    <2> SUFFICES ASSUME Cut \in Seq(Ids) PROVE FALSE
      OBVIOUS
    <2>1. Cut[1] \in Ids
      BY DEF Cut
    <2> QED
      BY <2>1 DEF Cut, Ids
  <1> QED
    BY <1>1 DEF Sized

\* The log grows by the job at its end, and once it is full the first one goes.
Longer(seen, id, e) ==
    /\ Len(e) = Len(seen) + 1
    /\ \A k \in 1..Len(seen) : e[k] = seen[k]
    /\ e[Len(seen) + 1] = id

Shifted(seen, id, e) ==
    /\ Len(e) = Len(seen)
    /\ \A k \in 1..Len(seen) - 1 : e[k] = seen[k + 1]
    /\ e[Len(seen)] = id

LEMMA ExtendedIs ==
    ASSUME NEW seen \in Seq(Ids), Len(seen) <= Keep, NEW id \in Ids, NEW e, e = Extended(seen, id)
    PROVE  /\ e \in Seq(Ids)
           /\ \/ Len(seen) < Keep /\ Longer(seen, id, e)
              \/ Len(seen) = Keep /\ Shifted(seen, id, e)
  <1> DEFINE all   == Append(seen, id)
             first == IF Len(all) > Keep THEN Len(all) - Keep + 1 ELSE 1
  <1>1. /\ all \in Seq(Ids) /\ Len(all) = Len(seen) + 1
        /\ \A k \in 1..Len(seen) : all[k] = seen[k]
        /\ all[Len(seen) + 1] = id
    OBVIOUS
  <1>2. Keep \in Nat /\ Keep > 0 /\ Len(seen) \in Nat
    BY BoundsAssumption
  <1>3. e = SubSeq(all, first, Len(seen) + 1)
    BY <1>1 DEF Extended
  <1>4. CASE Len(seen) < Keep
    <2>1. first = 1
      BY <1>1, <1>2, <1>4
    <2> HIDE DEF first
    <2>2. e = SubSeq(all, 1, Len(seen) + 1)
      BY <1>3, <2>1
    <2> HIDE DEF all
    <2>3. e \in Seq(Ids) /\ Len(e) = Len(seen) + 1
      BY <1>1, <1>2, <2>2
    <2>4. \A k \in 1..Len(seen) + 1 : e[k] = all[k]
      BY <1>1, <1>2, <2>2
    <2>5. Longer(seen, id, e)
      BY <2>3, <2>4, <1>1, <1>2 DEF Longer
    <2> QED
      BY <2>3, <2>5, <1>4
  <1>5. CASE Len(seen) = Keep
    <2>1. first = 2
      BY <1>1, <1>2, <1>5
    <2> HIDE DEF first
    <2>2. e = SubSeq(all, 2, Len(seen) + 1)
      BY <1>3, <2>1
    <2> HIDE DEF all
    <2>3. e \in Seq(Ids) /\ Len(e) = Len(seen)
      BY <1>1, <1>2, <2>2
    <2>4. \A k \in 1..Len(seen) : e[k] = all[k + 1]
      BY <1>1, <1>2, <2>2
    <2>5. ASSUME NEW k \in 1..Len(seen) - 1
          PROVE  e[k] = seen[k + 1]
      BY <2>4, <1>1, <1>2
    <2>6. e[Len(seen)] = id
      BY <2>4, <1>1, <1>2, <1>5
    <2>7. Shifted(seen, id, e)
      BY <2>3, <2>5, <2>6 DEF Shifted
    <2> QED
      BY <2>3, <2>7, <1>5
  <1>6. Len(seen) < Keep \/ Len(seen) = Keep
    BY <1>2
  <1> QED
    BY <1>6, <1>4, <1>5

LEMMA WholeExtended ==
    ASSUME NEW ids, NEW sure, NEW seen, Whole(seen, ids, sure), NEW id \in Ids \ ids,
           NEW e, e = Extended(seen, id)
    PROVE  Whole(e, ids \union {id}, sure \union {id})
  <1>1. seen \in Seq(Ids) /\ Len(seen) <= Keep /\ Len(seen) \in Nat /\ Keep \in Nat /\ Keep > 0
    BY BoundsAssumption DEF Whole, Sized
  <1>2. DOMAIN seen = 1..Len(seen)
    BY <1>1
  <1>3. /\ e \in Seq(Ids)
        /\ \/ Len(seen) < Keep /\ Longer(seen, id, e)
           \/ Len(seen) = Keep /\ Shifted(seen, id, e)
    BY <1>1, ExtendedIs
  <1>4. DOMAIN e = 1..Len(e)
    BY <1>3
  <1>5. CASE Len(seen) < Keep /\ Longer(seen, id, e)
    <2>1. /\ Len(e) = Len(seen) + 1 /\ \A k \in 1..Len(seen) : e[k] = seen[k]
          /\ e[Len(seen) + 1] = id
      BY <1>5 DEF Longer
    <2>2. ASSUME NEW i \in sure \union {id} PROVE Within(i, e)
      <3>1. CASE i = id
        BY <3>1, <2>1, <1>1, <1>4 DEF Within
      <3>2. CASE i \in sure
        <4>0. Len(seen) # Keep
          BY <1>1, <1>5
        <4>1. PICK k \in 1..Len(seen) : seen[k] = i
          BY <4>0, <3>2, <1>2 DEF Whole, Within
        <4>2. k \in DOMAIN e /\ e[k] = i
          BY <4>1, <2>1, <1>1, <1>4
        <4> QED
          BY <4>2 DEF Within
      <3> QED
        BY <3>1, <3>2
    <2>3. ASSUME NEW k \in DOMAIN e PROVE e[k] \in ids \union {id}
      <3>1. k \in 1..Len(seen) \/ k = Len(seen) + 1
        BY <2>1, <1>1, <1>4
      <3> QED
        BY <3>1, <2>1, <1>2 DEF Whole
    <2>4. ASSUME NEW k \in DOMAIN e, NEW l \in DOMAIN e, k < l PROVE e[k] # e[l]
      <3>1. k \in 1..Len(seen) /\ (l \in 1..Len(seen) \/ l = Len(seen) + 1)
        BY <2>1, <2>4, <1>1, <1>4
      <3> QED
        BY <3>1, <2>1, <2>4, <1>2 DEF Whole
    <2>5. Sized(e)
      BY <2>1, <1>1, <1>3, <1>5 DEF Sized
    <2> QED
      BY <2>2, <2>3, <2>4, <2>5 DEF Whole
  <1>6. CASE Len(seen) = Keep /\ Shifted(seen, id, e)
    <2>1. /\ Len(e) = Keep /\ \A k \in 1..Keep - 1 : e[k] = seen[k + 1]
          /\ e[Keep] = id
      BY <1>6 DEF Shifted
    <2>2. ASSUME NEW k \in 1..Keep - 1
          PROVE  e[k] = seen[k + 1] /\ k + 1 \in DOMAIN seen
      BY <2>1, <1>1, <1>2, <1>6
    <2>3. ASSUME NEW k \in DOMAIN e PROVE e[k] \in ids \union {id}
      <3>1. k \in 1..Keep - 1 \/ k = Keep
        BY <2>1, <1>1, <1>4
      <3> QED
        BY <3>1, <2>1, <2>2 DEF Whole
    <2>4. ASSUME NEW k \in DOMAIN e, NEW l \in DOMAIN e, k < l PROVE e[k] # e[l]
      <3>1. k \in 1..Keep - 1 /\ (l \in 1..Keep - 1 \/ l = Keep)
        BY <2>1, <2>4, <1>1, <1>4
      <3>2. CASE l = Keep
        BY <3>1, <3>2, <2>1, <2>2 DEF Whole
      <3>3. CASE l \in 1..Keep - 1
        <4>1. k + 1 < l + 1
          BY <3>1, <3>3, <2>4, <1>1
        <4>2. seen[k + 1] # seen[l + 1]
          BY <4>1, <3>1, <3>3, <2>2 DEF Whole
        <4> QED
          BY <4>2, <3>1, <3>3, <2>2
      <3> QED
        BY <3>1, <3>2, <3>3
    <2>5. Sized(e)
      BY <2>1, <1>1, <1>3 DEF Sized
    <2> QED
      BY <2>1, <2>3, <2>4, <2>5 DEF Whole
  <1> QED
    BY <1>3, <1>5, <1>6

LEMMA SizeStep ==
    ASSUME RunOK, ServerInv, HoldInv, SizeInv, NEW c \in Clients, Others(c), Moves(c)
    PROVE  SizeInv'
  <1>0. Keep \in Nat
    BY BoundsAssumption
  <1>1. log' = Cut \/ Sized(log')
    <2>1. CASE Writing(c)
      <3>1. run[c].seen \in Seq(Ids) /\ Len(run[c].seen) <= Keep /\ run[c].job \in Ids
        BY <2>1, BoundsAssumption
           DEF RunOK, Record, SizeInv, HoldInv, ServerInv, Writing, From, Holding, Ids
      <3>2. CASE log' = Extended(run[c].seen, run[c].job)
        <4>1. PICK seen \in Seq(Ids) : seen = run[c].seen
          BY <3>1
        <4>2. /\ log' \in Seq(Ids)
              /\ \/ Len(seen) < Keep /\ Longer(seen, run[c].job, log')
                 \/ Len(seen) = Keep /\ Shifted(seen, run[c].job, log')
          BY <3>1, <3>2, <4>1, ExtendedIs
        <4>3. Len(log') <= Keep
          BY <4>2, <1>0 DEF Longer, Shifted
        <4> QED
          BY <4>2, <4>3 DEF Sized
      <3> QED
        BY <3>2, <2>1 DEF Writing
    <2>2. CASE log' = Cut \/ UNCHANGED log
      BY <2>2 DEF SizeInv, Sized
    <2> QED
      BY <2>1, <2>2
         DEF Moves, Taking, Stopping, Extracting, Heard, Unheard, NotTaken, Unread, Reading, Opening,
             Polled, Unpolled, Fetching, Unfetched, AllDone, Broken, Finishing
  <1>2. Len(run'[c].seen) <= Keep
    <2>1. CASE run'[c].seen = run[c].seen
      BY <2>1 DEF SizeInv
    <2>2. CASE run'[c].seen = <<>>
      BY <2>2, <1>0
    <2>3. CASE Reading(c)
      BY <2>3 DEF Reading, SizeInv, Sized
    <2> QED
      BY <2>1, <2>2, <2>3
         DEF Moves, Taking, Stopping, Extracting, Heard, Unheard, NotTaken, Unread, Opening, Writing,
             Polled, Unpolled, Fetching, Unfetched, AllDone, Broken, Finishing, Left, KeepsAllBut
  <1> QED
    BY <1>1, <1>2 DEF SizeInv, Others, Sized

LEMMA LogStep ==
    ASSUME RunOK, HoldInv, NotedInv, SizeInv, RestInv, LogInv, ServerInv,
           NEW c \in Clients, Others(c), Moves(c)
    PROVE  LogInv'
  <1> DEFINE
        Copied(d) == InRemember(d) => Whole(run[d].seen, noted, Sure)
        Sound     == IF log = Cut THEN breaks > 0 \/ raced \/ \E d \in Clients : At(d, "write")
                                  ELSE Whole(log, noted, Sure)
  <1>1. Sound /\ \A d \in Clients : Copied(d)
    BY DEF LogInv
  <1>2. breaks \in Nat /\ (breaks > 0 => breaks' > 0) /\ (raced => raced')
    <2>1. UNCHANGED breaks \/ Breaks
      BY DEF Moves, Taking, Stopping, Extracting, Heard, Unheard, NotTaken, Unread, Reading,
             Opening, Writing, Polled, Unpolled, Fetching, Unfetched, AllDone, Broken, Finishing
    <2>2. UNCHANGED raced \/ Races
      BY DEF Moves, Taking, Stopping, Extracting, Heard, Unheard, NotTaken, Unread, Reading,
             Opening, Writing, Polled, Unpolled, Fetching, Unfetched, AllDone, Broken, Finishing
    <2> QED
      BY <2>1, <2>2, BoundsAssumption DEF RestInv, Breaks, Races
  <1> SUFFICES Sound' /\ \A d \in Clients : Copied(d)'
    BY DEF LogInv
  <1> USE DEF InRemember, At, From, Sure
  <1>3. CASE /\ UNCHANGED <<log, noted, overlapped>>
             /\ run'[c].pc \notin {"open", "write"}
             /\ run[c].pc # "write" \/ breaks' > 0
    <2>1. Sound'
      BY <1>1, <1>2, <1>3 DEF Others
    <2> QED
      BY <2>1, <1>1, <1>3 DEF Others
  <1>4. CASE Reading(c)
    BY <1>1, <1>2, <1>4 DEF Reading, Others
  <1>5. CASE Opening(c)
    <2>1. Sound'
      BY <1>5 DEF Opening
    <2> QED
      BY <2>1, <1>1, <1>5 DEF Opening, Others, KeepsAllBut
  <1>6. CASE Writing(c)
    <2>1. run[c].job \in Ids \ noted
      BY <1>6, BoundsAssumption
         DEF Writing, HoldInv, NotedInv, ServerInv, RunOK, Record, Ids, Holding
    <2>2. Whole(run[c].seen, noted, Sure)
      BY <1>1, <1>6 DEF Writing
    \* Whoever is in remember has not read of this job, and it is marked for that.
    <2>3. ASSUME NEW d \in Clients, InRemember(d)'
          PROVE  Whole(run'[d].seen, noted', Sure')
      <3>1. d # c /\ InRemember(d) /\ run'[d] = run[d]
        BY <2>3, <1>6 DEF Writing, Others
      <3>2. noted \subseteq noted' /\ Sure' \subseteq Sure
        BY <3>1, <1>6 DEF Writing
      <3> QED
        BY <3>1, <3>2, <1>1 DEF Whole
    <2>4. CASE log' = Extended(run[c].seen, run[c].job)
      <3>1. Whole(log', noted', Sure \union {run[c].job})
        BY <2>1, <2>2, <2>4, <1>6, WholeExtended DEF Writing
      <3>2. Sure' \subseteq Sure \union {run[c].job}
        BY <1>6 DEF Writing
      <3>3. Whole(log', noted', Sure')
        BY <3>1, <3>2 DEF Whole
      <3>4. log' # Cut
        BY <3>3, CutIsNoLog DEF Whole
      <3> QED
        BY <3>3, <3>4, <2>3
    <2>5. CASE raced /\ log' = Cut
      BY <2>5, <2>3, <1>2
    <2> QED
      BY <2>4, <2>5, <1>6 DEF Writing
  <1>7. CASE Broken(c)
    <2>1. breaks' > 0
      BY <1>2, <1>7 DEF Broken, Breaks
    <2> QED
      BY <2>1, <1>3, <1>7 DEF Broken, Left
  <1> QED
    BY <1>3, <1>4, <1>5, <1>6, <1>7
       DEF Moves, Taking, Stopping, Extracting, Heard, Unheard, NotTaken, Unread,
           Polled, Unpolled, Fetching, Unfetched, AllDone, Finishing, Left

-----------------------------------------------------------------------------
(* What is lost. *)

LEMMA OneMoreAtMost ==
    ASSUME NEW S, IsFiniteSet(S), NEW x, NEW T, T \subseteq S \union {x}
    PROVE  Cardinality(T) <= Cardinality(S) + 1
  <1>1. /\ IsFiniteSet(S \union {x}) /\ Cardinality(S) \in Nat
        /\ Cardinality(S \union {x}) <= Cardinality(S) + 1
    <2>1. Cardinality(S) \in Nat
      BY FS_CardinalityType
    <2>2. /\ IsFiniteSet(S \union {x})
          /\ \/ Cardinality(S \union {x}) = Cardinality(S)
             \/ Cardinality(S \union {x}) = Cardinality(S) + 1
      BY FS_AddElement
    <2> QED
      BY <2>1, <2>2
  <1>2. Cardinality(T) <= Cardinality(S \union {x})
    BY <1>1, FS_Subset
  <1>3. Cardinality(T) \in Nat /\ Cardinality(S \union {x}) \in Nat
    BY <1>1, FS_Subset, FS_CardinalityType
  <1> QED
    BY <1>1, <1>2, <1>3

LEMMA LostFinite ==
    ASSUME ServerInv
    PROVE  IsFiniteSet(Lost) /\ Cardinality(Lost) \in Nat
  <1>1. made \in Nat
    BY BoundsAssumption DEF ServerInv
  <1>2. IsFiniteSet(1..made)
    BY <1>1, FS_Interval
  <1>3. Lost \subseteq 1..made
    BY DEF Lost, Forgotten
  <1> QED
    BY <1>2, <1>3, FS_Subset, FS_CardinalityType

LEMMA LostStep ==
    ASSUME RunOK, ServerInv, HoldInv, NotedInv, SizeInv, RestInv, LogInv, LostInv,
           NEW c \in Clients, RunOK', ServerInv', RestInv', Others(c), Moves(c)
    PROVE  Cardinality(Lost') <= faults' + breaks'
  <1>1. Cardinality(Lost) <= faults + breaks
    BY DEF LostInv
  <1>2. /\ faults \in Nat /\ breaks \in Nat /\ faults' \in Nat /\ breaks' \in Nat
        /\ made \in Nat
    BY BoundsAssumption DEF RestInv, ServerInv
  <1>3. IsFiniteSet(Lost) /\ Cardinality(Lost) \in Nat
    BY LostFinite
  <1>4. /\ UNCHANGED faults \/ Faulty
        /\ UNCHANGED breaks \/ Breaks
        /\ UNCHANGED made \/ Taken
        /\ UNCHANGED noted \/ noted' = noted \union {run[c].job}
    BY DEF Moves, Taking, Stopping, Extracting, Heard, Unheard, NotTaken, Unread, Reading, Opening,
           Writing, Polled, Unpolled, Fetching, Unfetched, AllDone, Broken, Finishing
  <1>15. UNCHANGED unread \/ unread' = unread \union {run[c].job}
    BY DEF Moves, Taking, Stopping, Extracting, Heard, Unheard, NotTaken, Unread, Reading, Opening,
           Writing, Polled, Unpolled, Fetching, Unfetched, AllDone, Broken, Finishing
  <1>5. faults' >= faults /\ breaks' >= breaks
    BY <1>2, <1>4 DEF Faulty, Breaks
  <1>6. CASE Lost' \subseteq Lost
    <2>1. Cardinality(Lost') <= Cardinality(Lost) /\ Cardinality(Lost') \in Nat
      BY <1>3, <1>6, FS_Subset, FS_CardinalityType
    <2> QED
      BY <2>1, <1>1, <1>2, <1>3, <1>5
  <1>7. CASE (Faulty \/ Breaks) /\ \E x : Lost' \subseteq Lost \union {x}
    <2>1. PICK x : Lost' \subseteq Lost \union {x}
      BY <1>7
    <2>2. Cardinality(Lost') <= Cardinality(Lost) + 1 /\ Cardinality(Lost') \in Nat
      <3>1. IsFiniteSet(Lost \union {x})
        BY <1>3, FS_AddElement
      <3>2. IsFiniteSet(Lost')
        BY <3>1, <2>1, FS_Subset
      <3> QED
        BY <3>2, <2>1, <1>3, OneMoreAtMost, FS_CardinalityType
    <2>3. CASE Faulty
      BY <2>2, <2>3, <1>1, <1>2, <1>3, <1>5 DEF Faulty
    <2>4. CASE Breaks
      BY <2>2, <2>4, <1>1, <1>2, <1>3, <1>5 DEF Breaks
    <2> QED
      BY <1>7, <2>3, <2>4
  <1>8. \A i \in Lost' : /\ i \in 1..made' /\ i \notin noted' /\ i \notin unread'
                         /\ i \in Lost \/ i = run[c].job \/ (i = made + 1 /\ Taken)
    BY <1>2, <1>4, <1>15 DEF Lost, Forgotten, Others, Taken
  <1>9. CASE run'[c].job = run[c].job /\ UNCHANGED made
    <2>1. \A i \in Lost' : i # run[c].job
      BY <1>9 DEF Lost, Forgotten
    <2> QED
      BY <2>1, <1>2, <1>6, <1>8, <1>9 DEF Taken
  <1>10. CASE run[c].job = 0 \/ run[c].job \in noted
    <2>1. \A i \in Lost' : i # run[c].job
      BY <1>2, <1>4, <1>8, <1>10
    <2>2. CASE UNCHANGED made
      BY <2>1, <2>2, <1>2, <1>6, <1>8 DEF Taken
    <2>3. CASE Heard(c)
      <3>1. \A i \in Lost' : i # made + 1
        BY <2>3 DEF Heard, Lost, Forgotten
      <3> QED
        BY <3>1, <2>1, <1>6, <1>8
    <2>4. CASE Unheard(c)
      BY <2>1, <2>4, <1>7, <1>8 DEF Unheard
    <2> QED
      BY <2>2, <2>3, <2>4
         DEF Moves, Taking, Stopping, Extracting, NotTaken, Unread, Reading, Opening,
             Writing, Polled, Unpolled, Fetching, Unfetched, AllDone, Broken, Finishing
  <1>11. CASE Broken(c)
    <2>1. Lost' \subseteq Lost \union {run[c].job}
      BY <1>2, <1>8, <1>11 DEF Broken, Taken
    <2> QED
      BY <2>1, <1>7, <1>11 DEF Broken
  <1>12. CASE Unread(c)
    <2>1. \A i \in Lost' : i # run[c].job
      BY <1>8, <1>12 DEF Unread
    <2> QED
      BY <2>1, <1>2, <1>6, <1>8, <1>12 DEF Unread, Taken
  <1>13. run[c].pc \notin Holding => run[c].job = 0
    BY DEF HoldInv
  <1>14. run[c].pc \in {"poll", "fetch"} => run[c].job \in noted
    BY DEF NotedInv
  <1> QED
    BY <1>9, <1>10, <1>11, <1>12, <1>13, <1>14
       DEF Moves, Taking, Stopping, Extracting, Heard, Unheard, NotTaken, Reading, Opening,
           Writing, Polled, Unpolled, Fetching, Unfetched, AllDone, Finishing, From, KeepsAllBut, Holding

\* A log that a run cannot read was cut by a Ctrl-C, or somebody is writing it now.
LEMMA UnreadStep ==
    ASSUME RunOK, ServerInv, HoldInv, RestInv, LogInv, LostInv, NEW c \in Clients, Moves(c)
    PROVE  unread' \subseteq 1..made' /\ (unread' # {} => raced' \/ breaks' > 0)
  <1>1. /\ UNCHANGED made \/ Taken
        /\ UNCHANGED breaks \/ Breaks
    BY DEF Moves, Taking, Stopping, Extracting, Heard, Unheard, NotTaken, Unread, Reading, Opening,
           Writing, Polled, Unpolled, Fetching, Unfetched, AllDone, Broken, Finishing
  <1>6. UNCHANGED raced \/ Races
    BY DEF Moves, Taking, Stopping, Extracting, Heard, Unheard, NotTaken, Unread, Reading, Opening,
           Writing, Polled, Unpolled, Fetching, Unfetched, AllDone, Broken, Finishing
  <1>7. UNCHANGED unread \/ Unread(c)
    BY DEF Moves, Taking, Stopping, Extracting, Heard, Unheard, NotTaken, Reading, Opening,
           Writing, Polled, Unpolled, Fetching, Unfetched, AllDone, Broken, Finishing
  <1>2. made \in Nat /\ breaks \in Nat
    BY BoundsAssumption DEF ServerInv, RestInv
  <1>3. 1..made \subseteq 1..made' /\ (breaks > 0 => breaks' > 0) /\ (raced => raced')
    <2>1. made' \in {made, made + 1} /\ breaks' \in {breaks, breaks + 1}
      BY <1>1 DEF Taken, Breaks
    <2>2. 1..made \subseteq 1..made' /\ (breaks > 0 => breaks' > 0)
      BY <2>1, <1>2
    <2>3. raced => raced'
      BY <1>6, Zenon DEF Races
    <2> QED
      BY <2>2, <2>3
  <1>4. CASE UNCHANGED unread
    BY <1>3, <1>4 DEF LostInv
  <1>5. CASE Unread(c)
    <2>1. run[c].job \in 1..made
      BY <1>2, <1>5 DEF Unread, HoldInv, Holding
    <2>2. raced' \/ breaks' > 0
      BY <1>3, <1>5 DEF Unread, LogInv, InRemember, Races
    <2> QED
      BY <2>1, <2>2, <1>3, <1>5 DEF Unread, LostInv
  <1> QED
    BY <1>7, <1>4, <1>5

-----------------------------------------------------------------------------
(* What stays in the temporary directory: what a step does to its run's track. *)

Over == {"next", "ended"}

Follows(c) ==
    /\ run[c].pc \notin Over /\ run'[c].pc \notin Over \union {"extract"}
    /\ KeepsAllBut(c, {"pc", "job", "seen", "stem"}) /\ UNCHANGED tracks

Passes(c) ==
    /\ run[c].pc = "next" /\ run'[c].scratch = run[c].scratch /\ UNCHANGED tracks
    /\ \/ run'[c].pc = "extract" /\ run'[c].file = run[c].file + 1
       \/ run'[c].pc = "ended" /\ run'[c].file = run[c].file

HasNone(c) ==
    /\ ~run[c].scratch /\ run'[c].pc \in Over /\ ~run'[c].scratch
    /\ run'[c].file = run[c].file /\ UNCHANGED tracks

Makes(c) ==
    /\ From(c, "extract", "ffmpeg") /\ run'[c].scratch /\ run'[c].file = run[c].file
    /\ tracks' = tracks \union {Track(c)}

Removes(c) ==
    /\ run[c].pc \notin Over /\ run'[c].pc # "extract" /\ ~run'[c].scratch
    /\ run'[c].file = run[c].file /\ tracks' = tracks \ {Track(c)}

Drops(c) ==
    /\ run'[c].pc = "ended" /\ ~run'[c].scratch /\ run'[c].file = run[c].file
    /\ UNCHANGED tracks /\ Breaks

LEMMA LeaveTracks ==
    ASSUME RunOK, NEW c \in Clients, run[c].pc # "ended", Returns(c) \/ Raises(c), UNCHANGED tracks,
           run[c].pc = "next" => ~run[c].scratch
    PROVE  Follows(c) \/ HasNone(c)
  <1>1. PICK label \in Labels :
           /\ run' = [run EXCEPT ![c] = [Idle EXCEPT !.pc = label, !.file = run[c].file,
                                                     !.scratch = run[c].scratch]]
           /\ label \in IF run[c].scratch THEN {"return", "raise"} ELSE Over
    BY DEF Returns, Raises, Leave, Labels, Over
  <1>2. run'[c].pc = label /\ run'[c].file = run[c].file /\ run'[c].scratch = run[c].scratch
    BY <1>1 DEF RunOK, Record, Idle
  <1> QED
    BY <1>1, <1>2 DEF Follows, HasNone, Over, KeepsAllBut

LEMMA TracksDo ==
    ASSUME RunOK, TrackInv, NEW c \in Clients, Step(c) \/ Break(c)
    PROVE  \/ Follows(c) \/ Passes(c) \/ HasNone(c) \/ Makes(c) \/ Removes(c) \/ Drops(c)
  <1>0. run[c].pc = "next" => ~run[c].scratch
    BY DEF TrackInv
  <1>1. ASSUME NEW label \in Labels, Goto(c, label)
        PROVE  run'[c].pc = label /\ KeepsAllBut(c, {"pc"})
    BY <1>1, GotoDoes
  <1>2. ASSUME NEW label \in Labels, NEW b \in BOOLEAN,
               run' = [run EXCEPT ![c].pc = label, ![c].scratch = b]
        PROVE  /\ run'[c].pc = label /\ run'[c].scratch = b
               /\ KeepsAllBut(c, {"pc", "scratch"})
    BY <1>2, ScratchDoes
  <1>3. CASE NextFile(c)
    BY <1>3, NextFileDoes DEF NextFile, Passes, Taking, Stopping, From, KeepsAllBut
  <1>4. CASE Extract(c)
    <2>1. CASE Goto(c, "upload") /\ UNCHANGED tracks
      BY <2>1, <1>1, <1>4 DEF Extract, At, Follows, KeepsAllBut, Over, Labels
    <2>2. CASE /\ run' = [run EXCEPT ![c].pc = "ffmpeg", ![c].scratch = TRUE]
               /\ tracks' = tracks \union {Track(c)}
      BY <2>2, <1>2, <1>4 DEF Extract, At, Makes, From, KeepsAllBut, Labels
    <2> QED
      BY <1>4, <2>1, <2>2 DEF Extract
  <1>5. CASE Ffmpeg(c)
    <2>1. CASE Goto(c, "upload") /\ UNCHANGED tracks
      BY <2>1, <1>1, <1>5 DEF Ffmpeg, At, Follows, KeepsAllBut, Over, Labels
    <2>2. CASE /\ run' = [run EXCEPT ![c].pc = "upload", ![c].scratch = FALSE]
               /\ tracks' = Unlinked(c)
      BY <2>2, <1>2, <1>5 DEF Ffmpeg, At, Removes, KeepsAllBut, Over, Labels, Unlinked
    <2> QED
      BY <1>5, <2>1, <2>2 DEF Ffmpeg
  <1>6. CASE Finally(c)
    <2>1. PICK label \in {"next", "ended"} :
             run' = [run EXCEPT ![c].pc = label, ![c].scratch = FALSE]
      BY <1>6 DEF Finally
    <2>2. run'[c].pc = label /\ run'[c].scratch = FALSE /\ KeepsAllBut(c, {"pc", "scratch"})
      BY <2>1, <1>2 DEF Labels
    <2> QED
      BY <2>2, <1>6 DEF Finally, At, Removes, KeepsAllBut, Over
  <1>7. CASE Upload(c) \/ Poll(c) \/ Fetch(c) \/ Done(c) \/ Read(c) \/ Open(c) \/ Write(c)
    <2>1. /\ run[c].pc \in {"upload", "read", "open", "write", "poll", "fetch"}
          /\ UNCHANGED tracks
      BY <1>7 DEF Upload, Poll, Fetch, Done, Read, Open, Write, At
    <2>2. CASE Returns(c) \/ Raises(c)
      BY <2>1, <2>2, LeaveTracks
    <2>3. ASSUME run'[c].pc \in Labels \ (Over \union {"extract"}),
                 run'[c].file = run[c].file, run'[c].scratch = run[c].scratch
          PROVE  Follows(c)
      BY <2>1, <2>3 DEF Follows, KeepsAllBut, Over
    <2>4. CASE \/ run' = [run EXCEPT ![c].pc = Accepted, ![c].job = made']
               \/ run' = [run EXCEPT ![c].pc = "open", ![c].seen = log]
               \/ run' = [run EXCEPT ![c].pc = "poll", ![c].seen = <<>>]
               \/ run' = [run EXCEPT ![c].stem = @ + 1]
               \/ run' = [run EXCEPT ![c].pc = "write"]
               \/ run' = [run EXCEPT ![c].pc = "fetch"]
      <3>1. /\ run'[c].pc \in {"read", "open", "write", "poll", "fetch", run[c].pc}
            /\ run'[c].file = run[c].file /\ run'[c].scratch = run[c].scratch
        BY <2>4 DEF Accepted, RunOK, Record
      <3> QED
        BY <3>1, <2>1, <2>3 DEF Labels, Over
    <2> QED
      BY <1>7, <2>2, <2>4 DEF Upload, Poll, Fetch, Done, Read, Open, Write, Goto
  <1>8. CASE Break(c)
    <2>1. CASE Raises(c)
      BY <2>1, <1>0, <1>8, LeaveTracks DEF Break, At
    <2>2. CASE run' = [run EXCEPT ![c] = [Idle EXCEPT !.pc = "ended", !.file = run[c].file]]
      BY <2>2, <1>8 DEF Break, Drops, Breaks, Idle, RunOK, Record
    <2> QED
      BY <1>8, <2>1, <2>2 DEF Break
  <1> QED
    BY <1>3, <1>4, <1>5, <1>6, <1>7, <1>8 DEF Step

LEMMA TrackStep ==
    ASSUME RunOK, RestInv, TrackInv, NEW c \in Clients, Step(c) \/ Break(c),
           RunOK', RestInv', Others(c), UNCHANGED breaks \/ Breaks
    PROVE  TrackInv'
  <1>1. /\ run[c].file \in Nat /\ run[c].scratch \in BOOLEAN /\ run'[c].file \in Nat
        /\ run'[c].scratch \in BOOLEAN
    BY DEF RunOK, Record
  <1>2. \/ Follows(c) \/ Passes(c) \/ HasNone(c) \/ Makes(c) \/ Removes(c) \/ Drops(c)
    BY TracksDo
  <1>3. run'[c].file \in {run[c].file, run[c].file + 1}
        /\ tracks' \subseteq tracks \union {Track(c)}
    BY <1>2 DEF Follows, Passes, HasNone, Makes, Removes, Drops, KeepsAllBut
  <1>4. ASSUME NEW t \in tracks'
        PROVE  \E d \in Clients, n \in Nat : t = <<d, n>> /\ n <= run'[d].file
    <2>1. PICK d \in Clients, n \in Nat : t = <<d, n>> /\ n <= run[d].file
      <3>1. CASE t \in tracks
        BY <3>1 DEF TrackInv
      <3>2. CASE t = Track(c)
        BY <3>2, <1>1 DEF Track
      <3>3. t \in tracks \/ t = Track(c)
        BY <1>3
      <3> QED
        BY <3>1, <3>2, <3>3
    <2>2. run[d].file <= run'[d].file /\ run[d].file \in Nat /\ run'[d].file \in Nat
      <3>1. run[d].file \in Nat
        BY DEF RunOK, Record
      <3>2. run'[d].file \in {run[d].file, run[d].file + 1}
        BY <1>3 DEF Others
      <3> QED
        BY <3>1, <3>2
    <2> QED
      BY <2>1, <2>2
  <1>5. Track(c) \in tracks /\ run[c].pc \notin Over => run[c].scratch
    BY DEF TrackInv, Over
  <1>6. /\ run'[c].pc \in Over \union {"extract"} => ~run'[c].scratch
        /\ run'[c].pc = "extract" => <<c, run'[c].file>> \notin tracks'
        /\ run'[c].pc \notin Over /\ <<c, run'[c].file>> \in tracks' => run'[c].scratch
    <2>1. CASE Follows(c)
      BY <2>1, <1>5 DEF Follows, KeepsAllBut, Track
    <2>2. CASE Passes(c)
      <3>1. <<c, run[c].file + 1>> \notin tracks
        BY <1>1 DEF TrackInv
      <3> QED
        BY <2>2, <3>1 DEF Passes, TrackInv, Over
    <2>3. CASE HasNone(c) \/ Drops(c)
      BY <2>3 DEF HasNone, Drops, Over
    <2>4. CASE Makes(c)
      BY <2>4 DEF Makes, From, Over
    <2>5. CASE Removes(c)
      BY <2>5 DEF Removes, Track
    <2> QED
      BY <1>2, <2>1, <2>2, <2>3, <2>4, <2>5
  <1>7. ASSUME NEW d \in Clients
        PROVE  /\ run'[d].pc \in {"next", "ended", "extract"} => ~run'[d].scratch
               /\ run'[d].pc = "extract" => <<d, run'[d].file>> \notin tracks'
               /\ run'[d].pc \notin {"next", "ended"} /\ <<d, run'[d].file>> \in tracks'
                    => run'[d].scratch
    <2>1. CASE d = c
      BY <2>1, <1>6 DEF Over
    <2>2. CASE d # c
      <3>1. run'[d] = run[d] /\ <<d, run[d].file>> # Track(c)
        BY <2>2 DEF Others, Track
      <3> QED
        BY <3>1, <1>3 DEF TrackInv, Track
    <2> QED
      BY <2>1, <2>2
  <1>8. ASSUME NEW t \in Litter'
        PROVE  t \in Litter \/ (t = Track(c) /\ Drops(c))
    <2>1. t \in tracks' /\ (run'[t[1]].file # t[2] \/ run'[t[1]].pc \in Over)
      BY DEF Litter, Over
    <2>2. PICK d \in Clients, n \in Nat : t = <<d, n>> /\ n <= run'[d].file
      BY <1>4, <2>1
    <2>3. t[1] = d /\ t[2] = n
      BY <2>2
    <2>4. CASE d # c
      <3>1. run'[d] = run[d] /\ t \in tracks
        BY <2>1, <2>2, <2>4, <1>3 DEF Others, Track
      <3> QED
        BY <3>1, <2>1, <2>3 DEF Litter, Over
    <2>5. CASE d = c /\ n # run[c].file
      <3>1. t \in tracks
        BY <2>1, <2>2, <2>5, <1>3 DEF Track
      <3> QED
        BY <3>1, <2>3, <2>5 DEF Litter
    <2>6. CASE d = c /\ n = run[c].file
      <3>1. t = Track(c)
        BY <2>2, <2>6 DEF Track
      <3>2. CASE Drops(c)
        BY <3>1, <3>2
      <3>3. CASE run[c].pc \in Over
        <4>1. t \in tracks
          BY <2>1, <3>1, <3>3, <1>2 DEF Follows, Passes, HasNone, Makes, Removes, Drops, From, Over
        <4> QED
          BY <4>1, <2>3, <2>6, <3>3 DEF Litter, Over
      <3>4. CASE run[c].pc \notin Over /\ ~Drops(c)
        <4>1. run'[c].file = run[c].file /\ t \in tracks' /\ run'[c].pc \in Over
          BY <2>1, <2>3, <2>6, <3>4, <1>2
             DEF Follows, Passes, HasNone, Makes, Removes, KeepsAllBut, Over
        <4>2. HasNone(c) /\ t \in tracks
          BY <4>1, <3>1, <3>4, <1>2 DEF Follows, Passes, HasNone, Makes, Removes, From, Over
        <4> QED
          BY <4>2, <3>1, <3>4, <1>5 DEF HasNone
      <3> QED
        BY <3>2, <3>3, <3>4
    <2> QED
      BY <2>4, <2>5, <2>6
  <1>9. breaks \in Nat /\ breaks' \in Nat /\ breaks' >= breaks
    BY BoundsAssumption DEF RestInv, Breaks
  <1>10. IsFiniteSet(Litter) /\ Cardinality(Litter) \in Nat /\ Cardinality(Litter) <= breaks
    BY FS_CardinalityType DEF TrackInv
  <1>11. IsFiniteSet(Litter') /\ Cardinality(Litter') <= breaks'
    <2>1. CASE Drops(c)
      <3>1. Litter' \subseteq Litter \union {Track(c)}
        BY <1>8
      <3>2. IsFiniteSet(Litter \union {Track(c)})
        BY <1>10, FS_AddElement
      <3>3. IsFiniteSet(Litter') /\ Cardinality(Litter') \in Nat
        BY <3>1, <3>2, FS_Subset, FS_CardinalityType
      <3>4. Cardinality(Litter') <= Cardinality(Litter) + 1
        BY <3>1, <1>10, OneMoreAtMost
      <3>5. breaks' = breaks + 1
        BY <2>1 DEF Drops, Breaks
      <3> QED
        BY <3>3, <3>4, <3>5, <1>9, <1>10
    <2>2. CASE ~Drops(c)
      <3>1. Litter' \subseteq Litter
        BY <1>8, <2>2
      <3>2. IsFiniteSet(Litter') /\ Cardinality(Litter') <= Cardinality(Litter)
        BY <3>1, <1>10, FS_Subset
      <3>3. Cardinality(Litter') \in Nat
        BY <3>2, FS_CardinalityType
      <3> QED
        BY <3>2, <3>3, <1>9, <1>10
    <2> QED
      BY <2>1, <2>2
  <1> QED
    BY <1>4, <1>7, <1>11 DEF TrackInv, Track

-----------------------------------------------------------------------------
(* What lies in data/out. *)

\* A step writes at most the next stem of the file at hand, and half of it only
\* when a connection breaks off.
Puts(c, whole) ==
    /\ run[c].pc = "fetch" /\ run[c].stem < Len(Stems) /\ run[c].job # 0
    /\ out' = Got(c, whole)
    /\ whole \/ faults' > 0

LEMMA PutsOrNot ==
    ASSUME RunOK, HoldInv, RestInv, NEW c \in Clients, Moves(c)
    PROVE  /\ UNCHANGED out \/ Puts(c, TRUE) \/ Puts(c, FALSE)
           /\ faults > 0 => faults' > 0
  <1>1. run[c].pc = "fetch" => run[c].job # 0
    BY DEF HoldInv, Holding
  <1>2. faults \in Nat /\ run[c].stem \in Nat /\ Len(Stems) \in Nat
    BY BoundsAssumption DEF RestInv, RunOK, Record
  <1>3. ~AllFetched(c) => run[c].stem < Len(Stems)
    BY <1>2 DEF AllFetched
  <1>4. UNCHANGED faults \/ Faulty
    BY DEF Moves, Taking, Stopping, Extracting, Heard, Unheard, NotTaken, Unread,
       Reading, Opening, Writing, Polled, Unpolled, Fetching, Unfetched, AllDone, Broken, Finishing
  <1>5. (Faulty => faults' > 0) /\ (faults > 0 => faults' > 0)
    BY <1>2, <1>4 DEF Faulty
  <1>6. UNCHANGED out \/ Fetching(c) \/ Unfetched(c)
    BY DEF Moves, Taking, Stopping, Extracting, Heard, Unheard, NotTaken, Unread,
       Reading, Opening, Writing, Polled, Unpolled, AllDone, Broken, Finishing
  <1> QED
    BY <1>1, <1>3, <1>5, <1>6 DEF Puts, Fetching, Unfetched, From

\* What is there stays there, but for a stem that is written anew, and that one is
\* there too when others share the directory.
LEMMA StaysThere ==
    ASSUME RunOK, HoldInv, RestInv, NEW c \in Clients, Moves(c),
           NEW f \in Files, NEW k \in DOMAIN Stems, NEW id, There(f, k, id),
           \/ run[c].pc # "fetch"
           \/ Dest[f] # Dest[Current(c)]
           \/ k # run[c].stem + 1
           \/ Shared(f)
    PROVE  There(f, k, id)'
  <1>1. /\ UNCHANGED out \/ Puts(c, TRUE) \/ Puts(c, FALSE)
        /\ faults > 0 => faults' > 0
    BY PutsOrNot
  <1>2. Dest[f] \in Dests
    BY DEF Dests
  <1>3. CASE UNCHANGED out
    BY <1>1, <1>3 DEF There, Fetched
  <1>4. ASSUME NEW whole \in BOOLEAN, Puts(c, whole)
        PROVE  There(f, k, id)'
    <2> DEFINE put == [from |-> run[c].job, whole |-> whole]
    <2>1. \/ out'[Dest[f]][k] = out[Dest[f]][k]
          \/ /\ out'[Dest[f]][k] = put /\ Dest[f] = Dest[Current(c)] /\ k = run[c].stem + 1
             /\ run[c].pc = "fetch"
      BY <1>2, <1>4 DEF Puts, Got, RestInv
    <2>2. CASE out'[Dest[f]][k] = out[Dest[f]][k]
      BY <2>2, <1>1 DEF There, Fetched
    <2>3. CASE /\ out'[Dest[f]][k] = put /\ Dest[f] = Dest[Current(c)] /\ k = run[c].stem + 1
               /\ run[c].pc = "fetch"
      BY <2>3, <1>4 DEF There, Fetched, Puts
    <2> QED
      BY <2>1, <2>2, <2>3
  <1> QED
    BY <1>1, <1>3, <1>4

\* Two files at different places that go to one directory share it.
LEMMA SharedBy ==
    ASSUME NEW c \in Clients, NEW d \in Clients, NEW k \in DOMAIN Todo[c],
           NEW l \in DOMAIN Todo[d], c # d \/ k # l, Dest[Todo[c][k]] = Dest[Todo[d][l]]
    PROVE  Shared(Todo[c][k]) /\ Shared(Todo[d][l])
  <1>1. <<c, k>> # <<d, l>>
    OBVIOUS
  <1> QED
    BY <1>1 DEF Shared

LEMMA FetchStep ==
    ASSUME RunOK, HoldInv, RestInv, FetchInv, NEW c \in Clients, Others(c), Moves(c), RunOK'
    PROVE  FetchInv'
  <1>1. Len(Stems) \in Nat /\ DOMAIN Stems = 1..Len(Stems)
    BY BoundsAssumption
  <1>2. ASSUME NEW d \in Clients \ {c}
        PROVE  /\ run'[d].pc # "fetch" => run'[d].stem = 0
               /\ run'[d].stem <= Len(Stems)
               /\ \A k \in 1..run'[d].stem : There(Current(d), k, run[d].job)'
    <2>1. run'[d] = run[d] /\ run[d].stem \in Nat /\ run[d].stem <= Len(Stems)
      BY DEF Others, RunOK, Record, FetchInv
    <2>2. ASSUME NEW k \in 1..run[d].stem
          PROVE  There(Current(d), k, run[d].job)'
      <3>1. run[d].pc = "fetch" /\ k \in DOMAIN Stems /\ There(Current(d), k, run[d].job)
        BY <2>1, <1>1 DEF FetchInv
      <3>2. /\ run[d].file \in DOMAIN Todo[d] /\ Current(d) = Todo[d][run[d].file]
            /\ Current(d) \in Files
        BY <3>1, CurrentIs DEF Current, Active, Holding
      <3>3. run[c].pc = "fetch" => /\ run[c].file \in DOMAIN Todo[c]
                                   /\ Current(c) = Todo[c][run[c].file]
        BY CurrentIs DEF Current, Active, Holding
      <3>4. run[c].pc = "fetch" /\ Dest[Current(d)] = Dest[Current(c)] => Shared(Current(d))
        BY <3>2, <3>3, SharedBy
      <3>5. PICK f \in Files, id \in Nat : f = Current(d) /\ id = run[d].job
        BY <3>2 DEF RunOK, Record
      <3>6. There(f, k, id)'
        BY <3>1, <3>4, <3>5, StaysThere
      <3>7. Current(d)' = f /\ run'[d].job = id
        BY <2>1, <3>5 DEF Current
      <3> QED
        BY <3>6, <3>7, <2>1, <3>5 DEF There, Fetched
    <2> QED
      BY <2>1, <2>2 DEF FetchInv
  <1>3. /\ run'[c].pc # "fetch" => run'[c].stem = 0
        /\ run'[c].stem <= Len(Stems)
        /\ \A k \in 1..run'[c].stem : There(Current(c), k, run[c].job)'
    <2>1. CASE run'[c].stem = 0
      BY <2>1, <1>1
    <2>2. CASE Fetching(c)
      <3>1. /\ run[c].stem \in Nat /\ run[c].stem < Len(Stems) /\ run'[c].stem = run[c].stem + 1
            /\ run'[c].pc = "fetch" /\ run[c].pc = "fetch" /\ run'[c].job = run[c].job
            /\ run'[c].file = run[c].file
        BY <2>2, <1>1 DEF Fetching, From, KeepsAllBut, AllFetched, RunOK, Record
      <3>2. Current(c) \in Files /\ Dest[Current(c)] \in Dests /\ run[c].job # 0
        BY <3>1, CurrentIs DEF Active, Holding, HoldInv
      <3>3. PICK f \in Files, id \in Nat, s \in Nat :
               f = Current(c) /\ id = run[c].job /\ s = run[c].stem
        BY <3>1, <3>2 DEF RunOK, Record
      <3>4. Current(c)' = f /\ run'[c].job = id
        BY <3>1, <3>3 DEF Current
      <3>5. ASSUME NEW k \in 1..s
            PROVE  There(f, k, id)'
        <4>1. k \in DOMAIN Stems /\ k # run[c].stem + 1 /\ There(f, k, id)
          BY <3>1, <3>3, <1>1 DEF FetchInv
        <4> QED
          BY <4>1, StaysThere
      <3>6. There(f, s + 1, id)'
        <4>1. PICK whole \in BOOLEAN : out' = Got(c, whole) /\ (whole \/ Faulty)
          BY <2>2 DEF Fetching
        <4>2. whole \/ faults' > 0
          BY <4>1, BoundsAssumption DEF RestInv, Faulty
        <4>3. out'[Dest[f]][s + 1] = [from |-> id, whole |-> whole]
          BY <4>1, <3>1, <3>2, <3>3, <1>1 DEF Got, RestInv
        <4> QED
          BY <4>2, <4>3, <3>2, <3>3 DEF There, Fetched
      <3>7. ASSUME NEW k \in 1..s + 1
            PROVE  There(f, k, id)'
        <4>1. CASE k = s + 1
          BY <4>1, <3>6
        <4>2. CASE k # s + 1
          BY <4>2, <3>5
        <4> QED
          BY <4>1, <4>2
      <3> QED
        BY <3>1, <3>3, <3>4, <3>7, <1>1 DEF There, Fetched
    <2>3. run[c].pc # "fetch" => run[c].stem = 0
      BY DEF FetchInv
    <2> QED
      BY <2>1, <2>2, <2>3
         DEF Moves, Taking, Stopping, Extracting, Heard, Unheard, NotTaken, Unread, Reading, Opening,
             Writing, Polled, Unpolled, Unfetched, AllDone, Broken, Finishing, From, KeepsAllBut, Left
  <1> QED
    BY <1>2, <1>3 DEF FetchInv

LEMMA DoneStep ==
    ASSUME RunOK, HoldInv, RestInv, FetchInv, DoneInv, NEW c \in Clients, Others(c), Moves(c),
           RunOK'
    PROVE  DoneInv'
  <1>1. Len(Stems) \in Nat /\ DOMAIN Stems = 1..Len(Stems)
    BY BoundsAssumption
  <1>2. run[c].file \in Nat /\ run'[c].file \in Nat
    BY DEF RunOK, Record
  \* What is behind a run stays there.
  <1>3. ASSUME NEW d \in Clients, NEW n \in Nat, Behind(d, n)
        PROVE  Behind(d, n)'
    <2>1. CASE d # c
      BY <2>1, <1>3 DEF Others, Behind
    <2>2. CASE d = c
      <3>1. CASE run'[c].file = run[c].file /\ (run'[c].pc \in Active => run[c].pc \in Active)
        BY <3>1, <2>2, <1>3 DEF Behind
      <3>2. CASE run'[c].file = run[c].file + 1
        BY <3>2, <2>2, <1>2, <1>3 DEF Behind
      <3> QED
        BY <3>1, <3>2
           DEF Moves, Taking, Stopping, Extracting, Heard, Unheard, NotTaken, Unread, Reading,
               Opening, Writing, Polled, Unpolled, Fetching, Unfetched, AllDone, Broken, Finishing,
               From, KeepsAllBut, Left, Active, Holding
    <2> QED
      BY <2>1, <2>2
  \* A file that was done before.
  <1>4. ASSUME NEW d \in Clients, NEW f \in ok[d]
        PROVE  /\ \E n \in DOMAIN Todo[d] : f = Todo[d][n] /\ Behind(d, n)'
               /\ \E id \in Nat : \A k \in DOMAIN Stems : There(f, k, id)'
    <2>1. PICK n \in DOMAIN Todo[d] : f = Todo[d][n] /\ Behind(d, n)
      BY DEF DoneInv
    <2>2. PICK id \in Nat : \A k \in DOMAIN Stems : There(f, k, id)
      BY DEF DoneInv
    <2>3. f \in Files /\ n \in Nat
      <3>1. f \in Files
        BY DEF RestInv
      <3>2. n \in Nat
        BY TodoAssumption
      <3> QED
        BY <3>1, <3>2
    <2>4. run[c].pc = "fetch" /\ Dest[f] = Dest[Current(c)] => Shared(f)
      <3> SUFFICES ASSUME run[c].pc = "fetch", Dest[f] = Dest[Current(c)]
                   PROVE  Shared(f)
        OBVIOUS
      <3>1. run[c].file \in DOMAIN Todo[c] /\ Current(c) = Todo[c][run[c].file]
        BY CurrentIs DEF Current, Active, Holding
      <3>2. d # c \/ n # run[c].file
        BY <2>1, <2>3, <1>2 DEF Behind, Active, Holding
      <3> QED
        BY <3>1, <3>2, <2>1, SharedBy
    <2>5. \A k \in DOMAIN Stems : There(f, k, id)'
      BY <2>2, <2>3, <2>4, StaysThere
    <2>6. Behind(d, n)'
      BY <2>1, <2>3, <1>3
    <2> QED
      BY <2>1, <2>5, <2>6
  <1>5. CASE UNCHANGED ok
    BY <1>4, <1>5 DEF DoneInv
  <1>6. CASE AllDone(c)
    <2>1. /\ run[c].pc = "fetch" /\ run'[c].pc \notin Active /\ run'[c].file = run[c].file
          /\ UNCHANGED <<out, faults>>
      BY <1>6 DEF AllDone, Left, Active, Holding
    <2>2. /\ run[c].file \in DOMAIN Todo[c] /\ Current(c) = Todo[c][run[c].file]
      BY <2>1, CurrentIs DEF Current, Active, Holding
    <2>4. run[c].stem = Len(Stems)
      BY <1>1, <1>6 DEF AllDone, AllFetched, FetchInv, RunOK, Record
    <2>5. \A k \in DOMAIN Stems : There(Current(c), k, run[c].job)
      BY <2>4, <1>1 DEF FetchInv
    <2>6. PICK f \in Files, id \in Nat : f = Current(c) /\ id = run[c].job
      BY <2>1, CurrentIs DEF RunOK, Record, Active, Holding
    <2>7. /\ \E n \in DOMAIN Todo[c] : f = Todo[c][n] /\ Behind(c, n)'
          /\ \A k \in DOMAIN Stems : There(f, k, id)'
      <3>1. \A k \in DOMAIN Stems : There(f, k, id)'
        BY <2>1, <2>5, <2>6 DEF There, Fetched
      <3>2. PICK n \in DOMAIN Todo[c] : n = run[c].file
        BY <2>2
      <3>3. f = Todo[c][n] /\ Behind(c, n)'
        BY <3>2, <2>1, <2>2, <2>6 DEF Behind
      <3> QED
        BY <3>1, <3>3
    <2>8. ok' = [ok EXCEPT ![c] = @ \union {f}]
      BY <1>6, <2>6 DEF AllDone
    <2>9. \A d \in Clients : \A g \in ok'[d] : g \in ok[d] \/ (d = c /\ g = f)
      BY <2>8 DEF RestInv
    <2> QED
      BY <1>4, <2>7, <2>9 DEF DoneInv
  <1> QED
    BY <1>5, <1>6
       DEF Moves, Taking, Stopping, Extracting, Heard, Unheard, NotTaken, Unread, Reading, Opening,
           Writing, Polled, Unpolled, Fetching, Unfetched, Broken, Finishing

-----------------------------------------------------------------------------
(* The invariant holds of the specification. *)

LEMMA CInit == Init => CInv
  <1> SUFFICES ASSUME Init PROVE CInv
    OBVIOUS
  <1> USE BoundsAssumption, TodoAssumption
  <1>1. ServerInv
    BY DEF Init, Server!Init, ServerInv, Ids
  <1>2. RunOK /\ \A c \in Clients : run[c] = Idle
    BY EmptySeq DEF Init, RunOK, Record, Idle, Labels
  <1>3. RestInv
    <2>1. out \in [Dests -> [DOMAIN Stems -> [from : Nat, whole : BOOLEAN]]]
      <3>1. Nothing \in [from : Nat, whole : BOOLEAN]
        BY DEF Nothing
      <3> QED
        BY <3>1 DEF Init
    <2>2. ok \in [Clients -> SUBSET Files]
      <3>1. ok = [c \in Clients |-> {}] /\ {} \in SUBSET Files
        BY Zenon DEF Init
      <3> QED
        BY <3>1
    <2>3. faults \in 0..MaxFaults /\ breaks \in 0..MaxBreaks
      BY DEF Init
    <2>4. raced \in BOOLEAN
      BY Zenon DEF Init
    <2> QED
      BY <2>1, <2>2, <2>3, <2>4 DEF RestInv
  <1>4. HoldInv
    <2>1. \A c \in Clients : Len(Todo[c]) \in Nat
      OBVIOUS
    <2> QED
      BY <2>1, <1>2 DEF Init, HoldInv, Idle, Holding, Active
  <1>5. NotedInv
    BY <1>2 DEF Init, NotedInv, Idle
  <1>6. Sized(log) /\ log = <<>> /\ DOMAIN log = {}
    BY EmptySeq DEF Init, Sized
  <1>7. SizeInv
    BY <1>2, <1>6, EmptySeq DEF SizeInv, Idle
  <1>8. Whole(log, noted, Sure) /\ log # Cut
    BY <1>6, CutIsNoLog DEF Init, Whole, Sure
  <1>9. LogInv
    BY <1>2, <1>8 DEF LogInv, InRemember, At, Idle
  <1>10. LostInv
    <2>1. Lost = {} /\ faults + breaks = 0 /\ unread = {}
      BY DEF Init, Lost, Forgotten
    <2> QED
      BY <2>1, FS_EmptySet DEF LostInv
  <1>11. FetchInv
    BY <1>2 DEF FetchInv, Idle
  <1>12. DoneInv
    BY DEF Init, DoneInv
  <1>13. TrackInv
    <2>1. Litter = {} /\ breaks = 0
      BY DEF Init, Litter
    <2> QED
      BY <2>1, <1>2, FS_EmptySet DEF Init, TrackInv, Idle
  <1> QED
    BY <1>1, <1>2, <1>3, <1>4, <1>5, <1>7, <1>9, <1>10, <1>11, <1>12, <1>13 DEF CInv

\* Whatever leaves the runs alone changes nothing but the server's records.
LEMMA CQuiet ==
    ASSUME CInv, ServerInv', UNCHANGED <<made, local, run, ok, out, tracks, faults, breaks>>
    PROVE  CInv'
  <1> USE DEF local
  <1>1. RunOK' /\ RestInv' /\ HoldInv' /\ NotedInv' /\ SizeInv'
    BY DEF CInv, RunOK, RestInv, HoldInv, NotedInv, SizeInv
  <1>2. LogInv'
    BY DEF CInv, LogInv, InRemember, At, Sure
  <1>3. LostInv'
    BY DEF CInv, LostInv, Lost, Forgotten
  <1>4. FetchInv'
    BY DEF CInv, FetchInv, Current, There, Fetched
  <1>5. DoneInv'
    BY DEF CInv, DoneInv, Behind, There, Fetched
  <1>6. TrackInv'
    BY DEF CInv, TrackInv, Track, Litter
  <1> QED
    BY <1>1, <1>2, <1>3, <1>4, <1>5, <1>6 DEF CInv

LEMMA CStep == CInv /\ [Next]_vars => CInv'
  <1> SUFFICES ASSUME CInv, [Next]_vars PROVE CInv'
    OBVIOUS
  <1>1. ASSUME NEW c \in Clients, Step(c) \/ Break(c)
        PROVE  CInv'
    <2>1. RunOK' /\ Others(c) /\ Moves(c)
      BY <1>1, Moved DEF CInv
    <2>2. ServerInv' /\ RestInv' /\ HoldInv'
      BY <2>1, ServerStep, RestStep, HoldStep DEF CInv
    <2>3. NotedInv' /\ SizeInv'
      BY <2>1, NotedStep, SizeStep DEF CInv
    <2>4. LogInv' /\ LostInv'
      BY <2>1, <2>2, LogStep, LostStep, UnreadStep DEF CInv, LostInv
    <2>6. TrackInv'
      <3>1. UNCHANGED breaks \/ Breaks
        BY <2>1 DEF Moves, Taking, Stopping, Extracting, Heard, Unheard, NotTaken, Unread, Reading,
           Opening, Writing, Polled, Unpolled, Fetching, Unfetched, AllDone, Broken, Finishing
      <3> QED
        BY <3>1, <1>1, <2>1, <2>2, TrackStep DEF CInv
    <2>5. FetchInv' /\ DoneInv'
      BY <2>1, FetchStep, DoneStep DEF CInv
    <2> QED
      BY <2>1, <2>2, <2>3, <2>4, <2>5, <2>6 DEF CInv
  <1>2. ASSUME NEW id \in Ids, Advance(id)
        PROVE  CInv'
    BY <1>2, ServerAdvance, AdvanceDoes, CQuiet DEF CInv
  <1>3. CASE UNCHANGED vars
    BY <1>3, CQuiet DEF vars, server, local, CInv, ServerInv
  <1> QED
    BY <1>1, <1>2, <1>3 DEF Next

LEMMA CAlways == Spec => []CInv
  BY CInit, CStep, PTL DEF Spec

LEMMA CTypes == CInv => TypeOK
  <1> SUFFICES ASSUME CInv PROVE TypeOK
    OBVIOUS
  <1>1. made \in Nat
    BY BoundsAssumption DEF CInv, ServerInv
  <1>2. ASSUME NEW c \in Clients
        PROVE  /\ run[c].pc \in {"next", "extract", "ffmpeg", "upload", "read", "open", "write",
                                 "poll", "fetch", "return", "raise", "ended"}
               /\ run[c].stem \in 0..Len(Stems)
               /\ run[c].job \in 0..made /\ run[c].file \in 0..Len(Todo[c])
               /\ run[c].pc \in {"read", "open", "write", "poll", "fetch"} <=> run[c].job # 0
               /\ ok[c] \subseteq Files
    <2>1. run[c].stem \in 0..Len(Stems)
      BY BoundsAssumption DEF CInv, RunOK, Record, FetchInv
    <2> QED
      BY <2>1 DEF CInv, RunOK, Record, Labels, HoldInv, Holding, RestInv
  <1>3. noted \subseteq Ids /\ unread \subseteq Ids
    BY <1>1, BoundsAssumption DEF CInv, NotedInv, LostInv, ServerInv, Ids
  <1>4. log = Cut \/ (log \in Seq(Ids) /\ Len(log) <= Keep)
    BY DEF CInv, SizeInv, Sized
  <1> QED
    BY <1>2, <1>3, <1>4 DEF TypeOK, CInv, ServerInv, RestInv

\* Types: a run holds a job exactly from the server's answer to the end of the file,
\* one the server has accepted, and the log never outgrows its bound.
THEOREM ClientTypes == Spec => []TypeOK
  BY CAlways, CTypes, PTL

\* bandit --jobs keeps the last jobs of this machine, however many runs write the log
\* at once: whenever it parses, a job noted while no other run was in remember is
\* missing from a full log only, and no job is in it twice.
THEOREM TheLogKeepsNoted == Spec => []LogKeepsNoted
  <1>1. CInv => LogKeepsNoted
    BY DEF CInv, LogInv, LogKeepsNoted, Whole, Within, Sure
  <1> QED
    BY CAlways, <1>1, PTL

\* "The job continues on the server; see ./bandit --jobs": the accepted jobs that no
\* run follows and the log has never had are no more than the Ctrl-Cs and errors, but
\* for those whose run could not read the log, after a Ctrl-C or beside another run.
THEOREM AcceptedJobsAreNoted == Spec => []AcceptedIsNoted
  <1>1. CInv => AcceptedIsNoted
    BY DEF CInv, LostInv, Lost, AcceptedIsNoted
  <1> QED
    BY CAlways, <1>1, PTL

LEMMA CThere == CInv => SucceededIsThere
  <1> SUFFICES ASSUME CInv, NEW c \in Clients, NEW f \in ok[c]
               PROVE  LET stems == {out[Dest[f]][k] : k \in DOMAIN Stems}
                      IN  /\ \A s \in stems : s.from # 0 /\ (s.whole \/ faults > 0)
                          /\ Shared(f) \/ \A s, t \in stems : s.from = t.from
    BY DEF SucceededIsThere
  <1>1. PICK id \in Nat : \A k \in DOMAIN Stems : There(f, k, id)
    BY DEF CInv, DoneInv
  <1> QED
    BY <1>1 DEF There, Fetched

\* A file that counts as succeeded has all its stems in data/out, whole unless a
\* connection broke off, and of one job unless another file writes there.
THEOREM SucceededFilesAreThere == Spec => []SucceededIsThere
  BY CAlways, CThere, PTL

\* extract_audio and separate_one leave a temporary file behind only at the cost of a
\* Ctrl-C each.
THEOREM LitterIsPaidFor == Spec => []LitterCostsABreak
  <1>1. CInv => LitterCostsABreak
    BY DEF CInv, TrackInv, LitterCostsABreak
  <1> QED
    BY CAlways, <1>1, PTL
=============================================================================
