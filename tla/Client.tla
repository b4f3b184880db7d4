------------------------------- MODULE Client --------------------------------
(***************************************************************************)
(* The command-line client (bandit): each run takes its files one by one,  *)
(* strips a video, uploads, notes the job in data/.jobs.json, polls until  *)
(* the job is settled and fetches the stems.  Several runs may be at work  *)
(* in one checkout; they share the job log and data/out.  Ctrl-C ends one  *)
(* anywhere.  The server is JobContract, which JobLifecycle implements.    *)
(***************************************************************************)
EXTENDS Naturals, Sequences, FiniteSets

CONSTANTS
    Clients,
    Todo,       \* Todo[c]: the files of run c, in order
    Videos,     \* the files with a video suffix
    Dest,       \* Dest[f]: the directory of data/out f goes to, its name without suffix
    Stems,      \* the stems of a job, in order
    Keep,       \* jobs the log keeps: the last 200
    MaxJobs,    \* bound on the jobs of all runs together
    MaxFaults,  \* bound on errors of network and server
    MaxBreaks   \* bound on Ctrl-C

Files == UNION {{Todo[c][k] : k \in DOMAIN Todo[c]} : c \in Clients}
Dests == {Dest[f] : f \in Files}
Ids   == 1..MaxJobs

ASSUME TodoAssumption == \A c \in Clients : Todo[c] \in Seq(Files) /\ Len(Todo[c]) > 0
ASSUME BoundsAssumption == /\ Stems \in Seq({Stems[k] : k \in DOMAIN Stems})
                           /\ Len(Stems) > 0 /\ Keep \in Nat \ {0}
                           /\ MaxJobs \in Nat /\ MaxFaults \in Nat /\ MaxBreaks \in Nat

VARIABLES
    status,    \* status[id] on the server: JobContract's phase
    made,      \* jobs the server has accepted
    log,       \* .jobs.json: a sequence of ids, or Cut
    run,       \* run[c]: pc, the files taken, the job held (0: none), the log as read,
               \* the stems fetched, whether it has the path of an extracted track
    ok,        \* ok[c]: the files counted as succeeded
    out,       \* out[d][k]: which job stem k in data/out/d is from, and whether whole
    tracks,    \* bandit-*.mka in the temp directory, by run and number of the file
    noted,     \* jobs that remember has written
    raced,     \* two runs were in remember at a time
    overlapped,  \* jobs noted while another run was in remember
    unread,    \* jobs whose run found a log there that does not parse
    faults, breaks

server == <<status, made>>
local  == <<log, noted, raced, overlapped, unread>>
vars   == <<server, local, run, ok, out, tracks, faults, breaks>>

Cut     == <<0>>   \* the log opened for writing and not written yet: no JSON
Nothing == [from |-> 0, whole |-> FALSE]
Idle    == [pc |-> "next", file |-> 0, job |-> 0, seen |-> <<>>, stem |-> 0,
            scratch |-> FALSE]

\* What the service promises; webhooks go elsewhere.
Server == INSTANCE JobContract
              WITH Jobs <- Ids, phase <- status, announced <- [id \in Ids |-> {}]

Current(c) == Todo[c][run[c].file]
At(c, label) == run[c].pc = label

Init ==
    /\ Server!Init /\ made = 0
    /\ log = <<>> /\ noted = {} /\ raced = FALSE /\ overlapped = {} /\ unread = {}
    /\ run = [c \in Clients |-> Idle]
    /\ ok = [c \in Clients |-> {}]
    /\ out = [d \in Dests |-> [k \in DOMAIN Stems |-> Nothing]]
    /\ tracks = {} /\ faults = 0 /\ breaks = 0

Goto(c, label) == run' = [run EXCEPT ![c].pc = label]

Fault == faults < MaxFaults /\ faults' = faults + 1

\* _submit_and_collect is left, for the finally block if it has a track to remove.
Leave(c, label) ==
    run' = [run EXCEPT ![c] = [Idle EXCEPT !.pc = label, !.file = run[c].file,
                                           !.scratch = run[c].scratch]]

\* It returns, or raises, which ends the whole run.
Returns(c) == Leave(c, IF run[c].scratch THEN "return" ELSE "next")
Raises(c)  == Leave(c, IF run[c].scratch THEN "raise" ELSE "ended")

-----------------------------------------------------------------------------
(* The server: a job is run and settled, or forgotten, whoever looks. *)

Advance(id) ==
    /\ \/ Server!Start(id) \/ Server!Forget(id)
       \/ \E o \in Server!Outcomes : Server!Finish(id, o)
    /\ UNCHANGED <<made, local, run, ok, out, tracks, faults, breaks>>

-----------------------------------------------------------------------------
(* One run. *)

\* main: the next file, or the end.
NextFile(c) ==
    /\ At(c, "next")
    /\ run' = IF run[c].file < Len(Todo[c])
                 THEN [run EXCEPT ![c].file = @ + 1, ![c].pc = "extract"]
                 ELSE [run EXCEPT ![c].pc = "ended"]
    /\ UNCHANGED <<server, local, ok, out, tracks, faults, breaks>>

Track(c) == <<c, run[c].file>>

\* extract_audio for a video: mkstemp.  Without ffmpeg the whole file goes.
Extract(c) ==
    /\ At(c, "extract")
    /\ \/ Goto(c, "upload") /\ UNCHANGED tracks
       \/ /\ Current(c) \in Videos
          /\ run' = [run EXCEPT ![c].pc = "ffmpeg", ![c].scratch = TRUE]
          /\ tracks' = tracks \union {Track(c)}
    /\ UNCHANGED <<server, local, ok, out, faults, breaks>>

\* Mutant: what mkstemp made stays when ffmpeg finds no audio.
EmptyFileStays(c) == tracks

\* out.unlink
Unlinked(c) == tracks \ {Track(c)}

\* The rest of extract_audio: with no audio found the whole file goes.
Ffmpeg(c) ==
    /\ At(c, "ffmpeg")
    /\ \/ Goto(c, "upload") /\ UNCHANGED tracks
       \/ /\ run' = [run EXCEPT ![c].pc = "upload", ![c].scratch = FALSE]
          /\ tracks' = Unlinked(c)
    /\ UNCHANGED <<server, local, ok, out, faults, breaks>>

\* Mutant: the job is followed and never noted.
NotNoted == "poll"

\* 202: remember comes before the first poll.
Accepted == "read"

\* upload: the server takes the job or not, and the client hears of it or not.
Upload(c) ==
    /\ At(c, "upload")
    /\ \/ /\ made < MaxJobs
          /\ made' = made + 1 /\ Server!Submit(made')
          /\ \/ /\ run' = [run EXCEPT ![c].pc = Accepted, ![c].job = made']
                /\ UNCHANGED faults
             \/ Fault /\ (Returns(c) \/ Raises(c))
       \/ Fault /\ (Returns(c) \/ Raises(c)) /\ UNCHANGED server
    /\ UNCHANGED <<local, ok, out, tracks, breaks>>

InRemember(c) == At(c, "open") \/ At(c, "write")

\* remember reads the log; half a log does not parse, and what it raises ends the
\* run although the job is accepted.
Read(c) ==
    /\ At(c, "read")
    /\ raced' = (raced \/ \E d \in Clients : InRemember(d))
    /\ IF log = Cut
          THEN Raises(c) /\ unread' = unread \union {run[c].job}
          ELSE run' = [run EXCEPT ![c].pc = "open", ![c].seen = log] /\ UNCHANGED unread
    /\ UNCHANGED <<server, log, noted, overlapped, ok, out, tracks, faults, breaks>>

\* write_text, first half: opening the file empties it.
Open(c) ==
    /\ At(c, "open")
    /\ log' = Cut
    /\ Goto(c, "write")
    /\ UNCHANGED <<server, noted, raced, overlapped, unread, ok, out, tracks, faults, breaks>>

\* Mutant: the new job alone.
JobAlone(jobs, id) == <<id>>

\* Mutant: off by one, the log grows one too long.
OneMore(jobs, id) ==
    LET all == Append(jobs, id)
    IN  SubSeq(all, IF Len(all) > Keep THEN Len(all) - Keep ELSE 1, Len(all))

\* jobs[-200:]
Extended(jobs, id) ==
    LET all == Append(jobs, id)
    IN  SubSeq(all, IF Len(all) > Keep THEN Len(all) - Keep + 1 ELSE 1, Len(all))

\* write_text, second half.  Two runs that write at a time may leave a tail of
\* the longer text behind the shorter one.
Write(c) ==
    /\ At(c, "write")
    /\ \/ log' = Extended(run[c].seen, run[c].job)
       \/ raced /\ log' = Cut
    /\ noted' = noted \union {run[c].job}
    /\ overlapped' = IF \E d \in Clients \ {c} : InRemember(d)
                        THEN overlapped \union {run[c].job} ELSE overlapped
    /\ run' = [run EXCEPT ![c].pc = "poll", ![c].seen = <<>>]
    /\ UNCHANGED <<server, raced, unread, ok, out, tracks, faults, breaks>>

\* Anything but 200 counts as a lost job; what api_get raises ends the run.
Poll(c) ==
    /\ At(c, "poll")
    /\ \/ status[run[c].job] = "succeeded" /\ Goto(c, "fetch") /\ UNCHANGED faults
       \/ status[run[c].job] \in {"failed", "gone"} /\ Returns(c) /\ UNCHANGED faults
       \/ Fault /\ (Returns(c) \/ Raises(c))
    /\ UNCHANGED <<server, local, ok, out, tracks, breaks>>

\* Mutant: the last stem is taken as fetched.
AllButOne(c) == run[c].stem + 2 > Len(Stems)

AllFetched(c) == run[c].stem >= Len(Stems)

Got(c, whole) == [out EXCEPT ![Dest[Current(c)]][run[c].stem + 1] =
                                 [from |-> run[c].job, whole |-> whole]]

\* download: a connection that ends early looks like the end of the file; 404 and
\* errors raise, with the target already made when the body breaks off.
Fetch(c) ==
    /\ At(c, "fetch") /\ ~AllFetched(c)
    /\ \/ /\ status[run[c].job] = "succeeded"
          /\ \/ out' = Got(c, TRUE) /\ UNCHANGED faults
             \/ out' = Got(c, FALSE) /\ Fault
          /\ run' = [run EXCEPT ![c].stem = @ + 1]
       \/ status[run[c].job] = "gone" /\ Raises(c) /\ UNCHANGED <<out, faults>>
       \/ Fault /\ Raises(c) /\ out' \in {out, Got(c, FALSE)}
    /\ UNCHANGED <<server, local, ok, tracks, breaks>>

\* return True
Done(c) ==
    /\ At(c, "fetch") /\ AllFetched(c)
    /\ ok' = [ok EXCEPT ![c] = @ \union {Current(c)}]
    /\ Returns(c)
    /\ UNCHANGED <<server, local, out, tracks, faults, breaks>>

\* finally: scratch.unlink
Finally(c) ==
    /\ At(c, "return") \/ At(c, "raise")
    /\ run' = [run EXCEPT ![c].pc = IF At(c, "return") THEN "next" ELSE "ended",
                          ![c].scratch = FALSE]
    /\ tracks' = tracks \ {Track(c)}
    /\ UNCHANGED <<server, local, ok, out, faults, breaks>>

\* Ctrl-C.  Before the try begins, and in the finally block, nobody removes the
\* track any more.
Break(c) ==
    /\ ~At(c, "ended") /\ breaks < MaxBreaks
    /\ breaks' = breaks + 1
    /\ \/ Raises(c) /\ ~\E label \in {"ffmpeg", "return", "raise"} : At(c, label)
       \/ /\ \E label \in {"ffmpeg", "upload", "return", "raise"} : At(c, label)
          /\ run' = [run EXCEPT ![c] = [Idle EXCEPT !.pc = "ended", !.file = run[c].file]]
    /\ UNCHANGED <<server, local, ok, out, tracks, faults>>

Step(c) == \/ NextFile(c) \/ Extract(c) \/ Ffmpeg(c) \/ Upload(c) \/ Read(c) \/ Open(c)
           \/ Write(c) \/ Poll(c) \/ Fetch(c) \/ Done(c) \/ Finally(c)

Next == \/ \E c \in Clients : Step(c) \/ Break(c)
        \/ \E id \in Ids : Advance(id)

Spec == Init /\ [][Next]_vars

-----------------------------------------------------------------------------
(* Properties. *)

\* Types; a run holds a job exactly from the server's answer to the end of the
\* file, one the server has accepted; and the log never outgrows its bound.
TypeOK ==
    /\ status \in [Ids -> {"absent", "queued", "running", "gone"} \union Server!Outcomes]
    /\ made \in 0..MaxJobs /\ \A id \in Ids : status[id] # "absent" <=> id <= made
    /\ log = Cut \/ (log \in Seq(Ids) /\ Len(log) <= Keep)
    /\ \A c \in Clients :
          /\ run[c].pc \in {"next", "extract", "ffmpeg", "upload", "read", "open", "write",
                            "poll", "fetch", "return", "raise", "ended"}
          /\ run[c].job \in 0..made /\ run[c].file \in 0..Len(Todo[c])
          /\ run[c].stem \in 0..Len(Stems)
          /\ run[c].pc \in {"read", "open", "write", "poll", "fetch"} <=> run[c].job # 0
          /\ ok[c] \subseteq Files
    /\ noted \subseteq Ids /\ unread \subseteq Ids /\ raced \in BOOLEAN
    /\ faults \in 0..MaxFaults /\ breaks \in 0..MaxBreaks

\* The log of the jobs submitted from this machine (bandit --jobs) keeps the last
\* of them.  It does not parse only while a run writes it, after a Ctrl-C, or after
\* two runs were in remember at a time.  When it parses, a job is missing only from
\* a full log, pushed out by later ones, or if another run was in remember when it
\* was noted, and may have read the log before; no job is in it twice.
LogKeepsNoted ==
    IF log = Cut
    THEN breaks > 0 \/ raced \/ \E c \in Clients : At(c, "write")
    ELSE /\ \A id \in noted \ overlapped : \/ \E k \in DOMAIN log : log[k] = id
                                           \/ Len(log) = Keep
         /\ \A k, l \in DOMAIN log : k < l => log[k] # log[l]

\* Jobs the server has accepted that no run follows and the log has never had.
Forgotten == {id \in 1..made : id \notin noted /\ \A c \in Clients : run[c].job # id}

\* "The job continues on the server; see ./bandit --jobs" (main): each job for
\* which that is not so has cost a Ctrl-C or an error of its own (the answer to the
\* upload was lost, or a Ctrl-C came before remember had written), or its run found
\* a log that does not parse, which takes a Ctrl-C or two runs in remember at a time.
AcceptedIsNoted ==
    /\ Cardinality(Forgotten \ unread) <= faults + breaks
    /\ unread # {} => raced \/ breaks > 0

\* Some other file of these runs has the same name but for its suffix.
Shared(f) ==
    \E c, d \in Clients : \E k \in DOMAIN Todo[c], l \in DOMAIN Todo[d] :
        <<c, k>> # <<d, l>> /\ Dest[Todo[c][k]] = Dest[f] /\ Dest[Todo[d][l]] = Dest[f]

\* A file counts as succeeded only with all its stems in data/out, whole unless a
\* connection broke off, and of one job unless another file writes to the same
\* directory: nothing a client does in between, no record that expires while it
\* fetches, leaves a stem out.
SucceededIsThere ==
    \A c \in Clients : \A f \in ok[c] :
        LET stems == {out[Dest[f]][k] : k \in DOMAIN Stems}
        IN  /\ \A s \in stems : s.from # 0 /\ (s.whole \/ faults > 0)
            /\ Shared(f) \/ \A s, t \in stems : s.from = t.from

\* Tracks whose run is past their file.
Litter == {t \in tracks : \/ run[t[1]].file # t[2]
                          \/ run[t[1]].pc \in {"next", "ended"}}

\* An audio track extracted from a video outlives its file only by a Ctrl-C, one
\* each: whichever way extract_audio and separate_one are left otherwise, by
\* return or by error, their temporary file goes.
LitterCostsABreak == Cardinality(Litter) <= breaks
=============================================================================
