---------------------------- MODULE BootSupervisor ----------------------------
(***************************************************************************)
(* scripts/bandit-boot.sh, the script that brings the stack up after a     *)
(* boot of the host and then watches that the api container publishes its  *)
(* port, next to the two daemons it waits for.  The port is bound to the   *)
(* tailnet address, which tailscaled may assign long after dockerd has     *)
(* restored the containers, and which may go again.  A `docker compose`    *)
(* call is one step; logging is left out.                                  *)
(***************************************************************************)
EXTENDS Naturals

CONSTANTS
    AddrTries,    \* looks for the tailnet address before the script goes on (300)
    DockerTries,  \* looks for dockerd before the script goes on (30)
    MaxStops,     \* bound on stops of dockerd, reboots included
    MaxDrops,     \* bound on losses of the tailnet address
    MaxFailures   \* bound on compose failures that are nobody's fault here

ASSUME BoundsAssumption ==
    /\ AddrTries \in Nat \ {0} /\ DockerTries \in Nat \ {0}
    /\ MaxStops \in Nat /\ MaxDrops \in Nat /\ MaxFailures \in Nat

VARIABLES
    pc,         \* what the script does next
    tries,      \* failed looks of the waiting loop it is in
    addr,       \* tailscale0 has its address
    docker,     \* dockerd accepts connections
    api,        \* the api container, see Containers
    stops, drops, failures,
    recreated   \* times the loop has recreated the container, with success

counters == <<stops, drops, failures>>
vars == <<pc, tries, addr, docker, api, counters, recreated>>

Containers ==
    { "absent",
      "stopped",      \* could not bind its address; no restart policy retries that
      "down",         \* was running when dockerd stopped
      "unpublished",  \* running and healthy, with its port bindings dropped
      "published" }

\* Mutant: the loop recreates whenever there is an address.
NeverPublished == FALSE

\* `docker port bandit-api-1` prints something.
Published == docker /\ api = "published"

\* Mutant: one check and one repair, then sleep infinity.
Once == "over"

\* Where a round of the supervision ends: before the next one.
NextRound == "look"

Init ==
    /\ pc = "wait_addr" /\ tries = 0
    /\ addr = FALSE /\ docker = FALSE
    /\ api \in {"absent", "stopped", "down"}
    /\ stops = 0 /\ drops = 0 /\ failures = 0 /\ recreated = 0

-----------------------------------------------------------------------------
(* The script. *)

\* A bounded wait, which falls through when it is over.
Wait(label, ready, bound, next) ==
    /\ pc = label
    /\ IF ready \/ tries + 1 = bound THEN pc' = next /\ tries' = 0
                                     ELSE tries' = tries + 1 /\ UNCHANGED pc
    /\ UNCHANGED <<addr, docker, api, counters, recreated>>

WaitAddr   == Wait("wait_addr", addr, AddrTries, "wait_docker")
WaitDocker == Wait("wait_docker", docker, DockerTries, "enter")

\* cd "$REPO"; a checkout that is missing strands the script for good.
Enter ==
    /\ pc = "enter"
    /\ pc' \in {"up", "stranded"}
    /\ UNCHANGED <<tries, addr, docker, api, counters, recreated>>

\* Starting the container binds the address, or leaves it stopped; compose may
\* also fail over something else, with the container there or not.
Started ==
    \/ api' = (IF addr THEN "published" ELSE "stopped") /\ UNCHANGED failures
    \/ failures < MaxFailures /\ failures' = failures + 1 /\ api' \in {api, "stopped"}

\* up -d: a running container whose configuration matches is left alone.
Up ==
    /\ pc = "up"
    /\ IF docker /\ api \in {"absent", "stopped"} THEN Started ELSE UNCHANGED <<api, failures>>
    /\ pc' = "look"
    /\ UNCHANGED <<tries, addr, docker, stops, drops, recreated>>

\* No published port: has the address come?
Look ==
    /\ pc = "look"
    /\ pc' = IF Published THEN NextRound ELSE "look_addr"
    /\ UNCHANGED <<tries, addr, docker, api, counters, recreated>>

LookAddr ==
    /\ pc = "look_addr"
    /\ pc' = IF addr THEN "recreate" ELSE NextRound
    /\ UNCHANGED <<tries, addr, docker, api, counters, recreated>>

\* up -d --force-recreate api: replaces what is there, whatever it is by now.
Recreate ==
    /\ pc = "recreate"
    /\ IF docker
          THEN /\ Started
               /\ recreated' = IF failures' = failures /\ addr THEN recreated + 1 ELSE recreated
          ELSE UNCHANGED <<api, failures, recreated>>
    /\ pc' = NextRound
    /\ UNCHANGED <<tries, addr, docker, stops, drops>>

Script == WaitAddr \/ WaitDocker \/ Enter \/ Up \/ Look \/ LookAddr \/ Recreate

-----------------------------------------------------------------------------
(* The host. *)

AddrComes ==
    /\ ~addr /\ addr' = TRUE
    /\ UNCHANGED <<pc, tries, docker, api, counters, recreated>>

AddrGoes ==
    /\ addr /\ drops < MaxDrops
    /\ addr' = FALSE /\ drops' = drops + 1
    /\ UNCHANGED <<pc, tries, docker, api, stops, failures, recreated>>

\* restart: unless-stopped brings back what was running, and drops the bindings
\* of an address that is not there.
DockerStarts ==
    /\ ~docker /\ docker' = TRUE
    /\ api' = IF api # "down" THEN api ELSE IF addr THEN "published" ELSE "unpublished"
    /\ UNCHANGED <<pc, tries, addr, counters, recreated>>

Stopped == IF api \in {"unpublished", "published"} THEN "down" ELSE api

DockerStops ==
    /\ docker /\ stops < MaxStops
    /\ docker' = FALSE /\ api' = Stopped /\ stops' = stops + 1
    /\ UNCHANGED <<pc, tries, addr, drops, failures, recreated>>

\* Logon starts the script anew; a reboot may find it anywhere.
Reboot ==
    /\ stops < MaxStops /\ stops' = stops + 1
    /\ docker' = FALSE /\ api' = Stopped
    /\ addr' = FALSE /\ pc' = "wait_addr" /\ tries' = 0
    /\ UNCHANGED <<drops, failures, recreated>>

Host == AddrComes \/ AddrGoes \/ DockerStarts \/ DockerStops \/ Reboot

Next == Script \/ Host

Spec == Init /\ [][Next]_vars

\* The script runs, and systemd starts dockerd.  Nothing obliges tailscaled to
\* assign an address.
FairSpec == Spec /\ WF_vars(Script) /\ WF_vars(DockerStarts)

-----------------------------------------------------------------------------
(* Properties. *)

\* Types, and the waiting loops stay within their bounds.
TypeOK ==
    /\ pc \in {"wait_addr", "wait_docker", "enter", "up", "look", "look_addr", "recreate",
               "stranded"}
    /\ tries \in 0..(AddrTries + DockerTries)
    /\ pc = "wait_addr" => tries < AddrTries
    /\ pc = "wait_docker" => tries < DockerTries
    /\ addr \in BOOLEAN /\ docker \in BOOLEAN /\ api \in Containers
    /\ stops \in 0..MaxStops /\ drops \in 0..MaxDrops /\ failures \in 0..MaxFailures
    /\ recreated \in Nat

\* Once the address is there to stay the api is published and stays so, whenever
\* it came and whatever failed before: "nothing tried again for three days" is
\* over.  Only a checkout that is missing leaves the api to itself.
RepairedForGood ==
    <>[]addr => <>[](Published \/ pc = "stranded")

\* Recreating the api breaks what it serves, so a repair must not repeat itself:
\* the loop does it at most once for the boot and once for every stop of dockerd,
\* the look that found dockerd down and the address that came in between included.
OneRepairPerStop == recreated <= stops + 1
=============================================================================
