----------------------------- MODULE JobContract -----------------------------
(***************************************************************************)
(* What the service promises a client about one job id, without queue,     *)
(* files or processes: a job moves forward only, is settled at most once,  *)
(* never returns once its record is gone, and a webhook announces no       *)
(* outcome but the one the record was settled with.                        *)
(***************************************************************************)
CONSTANT Jobs

VARIABLES
    phase,      \* phase[j]: what a poll of j would answer
    announced   \* announced[j]: the outcomes webhooks have reported for j

vars == <<phase, announced>>

Outcomes == {"succeeded", "failed"}

Init ==
    /\ phase = [j \in Jobs |-> "absent"]
    /\ announced = [j \in Jobs |-> {}]

Move(j, from, to) ==
    /\ phase[j] \in from
    /\ phase' = [phase EXCEPT ![j] = to]
    /\ UNCHANGED announced

Submit(j) == Move(j, {"absent"}, "queued")

\* Submissions that died before their jobs existed, as many as died at once.
Abort(J) ==
    /\ \A j \in J : phase[j] = "absent"
    /\ phase' = [j \in Jobs |-> IF j \in J THEN "gone" ELSE phase[j]]
    /\ UNCHANGED announced

Start(j) == Move(j, {"queued"}, "running")

Finish(j, o) == o \in Outcomes /\ Move(j, {"running"}, o)

\* Records expire; a running job has to be settled first.
Forget(j) == Move(j, {"queued"} \union Outcomes, "gone")

\* The webhook may come after the record has gone again, and more than once.
Announce(j, o) ==
    /\ phase[j] \in {o, "gone"}
    /\ announced[j] \subseteq {o}
    /\ announced' = [announced EXCEPT ![j] = {o}]
    /\ UNCHANGED phase

Next ==
    \/ \E j \in Jobs : \/ Submit(j) \/ Start(j) \/ Forget(j)
                       \/ \E o \in Outcomes : Finish(j, o) \/ Announce(j, o)
    \/ \E J \in SUBSET Jobs : Abort(J)

Spec == Init /\ [][Next]_vars
=============================================================================
