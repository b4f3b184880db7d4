------------------------- MODULE BootSupervisorProofs -------------------------
(* Theorems about BootSupervisor, for any length of its waits and any number of *)
(* stops, losses of the address and compose failures.                           *)
EXTENDS BootSupervisor, TLAPS

\* Once the repairs have caught up with the stops, the api is published and the
\* loop is back at its check, which leaves it alone.
CaughtUp ==
    recreated = stops + 1 => Published /\ pc = "look"

IInv == TypeOK /\ OneRepairPerStop /\ CaughtUp

LEMMA InitHolds == Init => IInv
<1> SUFFICES ASSUME Init PROVE IInv
  OBVIOUS
<1>1. TypeOK
  <2>1. addr \in BOOLEAN /\ docker \in BOOLEAN BY DEF Init
  <2>2. tries = 0 /\ stops = 0 /\ drops = 0 /\ failures = 0 /\ recreated = 0 BY DEF Init
  <2>3. pc = "wait_addr" /\ api \in Containers BY DEF Init, Containers
  <2> QED BY <2>1, <2>2, <2>3, BoundsAssumption DEF TypeOK
<1>2. recreated = 0 /\ stops = 0 BY DEF Init
<1> QED BY <1>1, <1>2 DEF IInv, OneRepairPerStop, CaughtUp

\* The script waits, and brings the stack up: nothing is recreated.
LEMMA StartKeeps ==
  ASSUME IInv, WaitAddr \/ WaitDocker \/ Enter \/ Up
  PROVE  IInv'
<1> USE BoundsAssumption DEF IInv, TypeOK, counters
<1>1. TypeOK'
  <2>1. CASE WaitAddr BY <2>1 DEF WaitAddr, Wait
  <2>2. CASE WaitDocker BY <2>2 DEF WaitDocker, Wait
  <2>3. CASE Enter BY <2>3 DEF Enter
  <2>4. CASE Up BY <2>4 DEF Up, Started, Containers
  <2> QED BY <2>1, <2>2, <2>3, <2>4
<1>2. UNCHANGED <<recreated, stops>> /\ pc # "look"
  BY DEF WaitAddr, WaitDocker, Wait, Enter, Up
<1> QED BY <1>1, <1>2 DEF OneRepairPerStop, CaughtUp

\* One round of the supervision.
LEMMA RoundKeeps ==
  ASSUME IInv, Look \/ LookAddr \/ Recreate
  PROVE  IInv'
<1> USE BoundsAssumption DEF IInv, TypeOK, counters, NextRound
<1>1. CASE Look \/ LookAddr
  <2>1. TypeOK' BY <1>1 DEF Look, LookAddr
  <2>2. UNCHANGED <<recreated, stops, docker, api>> BY <1>1 DEF Look, LookAddr
  <2>3. CaughtUp' BY <1>1, <2>2 DEF Look, LookAddr, CaughtUp, Published
  <2> QED BY <2>1, <2>2, <2>3 DEF OneRepairPerStop
<1>2. CASE Recreate
  <2>1. TypeOK' BY <1>2 DEF Recreate, Started, Containers
  <2>2. recreated < stops + 1 /\ stops' = stops
    BY <1>2 DEF Recreate, CaughtUp, OneRepairPerStop
  <2>3. recreated' = recreated \/ (recreated' = recreated + 1 /\ Published' /\ pc' = "look")
    BY <1>2 DEF Recreate, Started, Published
  <2> QED BY <2>1, <2>2, <2>3 DEF OneRepairPerStop, CaughtUp
<1> QED BY <1>1, <1>2

\* A stop of dockerd may cost one more repair.
LEMMA HostKeeps ==
  ASSUME IInv, Host
  PROVE  IInv'
<1> USE BoundsAssumption DEF IInv, counters
<1>1. addr' \in BOOLEAN /\ docker' \in BOOLEAN
  <2>1. addr' \in {addr, TRUE, FALSE} /\ docker' \in {docker, TRUE, FALSE}
    BY DEF Host, AddrComes, AddrGoes, DockerStarts, DockerStops, Reboot
  <2> QED BY <2>1 DEF TypeOK
<1>2. api' \in Containers
  BY DEF Host, AddrComes, AddrGoes, DockerStarts, DockerStops, Reboot, Stopped, TypeOK, Containers
<1>3. stops' \in 0..MaxStops /\ drops' \in 0..MaxDrops
  BY DEF Host, AddrComes, AddrGoes, DockerStarts, DockerStops, Reboot, TypeOK
<1>4. UNCHANGED <<failures, recreated>>
  BY DEF Host, AddrComes, AddrGoes, DockerStarts, DockerStops, Reboot
<1>5. UNCHANGED <<pc, tries>> \/ (pc' = "wait_addr" /\ tries' = 0)
  BY DEF Host, AddrComes, AddrGoes, DockerStarts, DockerStops, Reboot
<1>6. TypeOK' BY <1>1, <1>2, <1>3, <1>4, <1>5 DEF TypeOK
<1>7. CASE stops' = stops + 1 BY <1>4, <1>6, <1>7 DEF TypeOK, OneRepairPerStop, CaughtUp
<1>8. CASE UNCHANGED <<stops, pc>> /\ (Published => Published')
  BY <1>4, <1>6, <1>8 DEF TypeOK, OneRepairPerStop, CaughtUp
<1>9. stops' = stops + 1 \/ (UNCHANGED <<stops, pc>> /\ (Published => Published'))
  BY DEF Host, AddrComes, AddrGoes, DockerStarts, DockerStops, Reboot, Published
<1> QED BY <1>7, <1>8, <1>9

LEMMA NextKeeps == IInv /\ [Next]_vars => IInv'
<1> SUFFICES ASSUME IInv, [Next]_vars PROVE IInv'
  OBVIOUS
<1>1. CASE UNCHANGED vars
  BY <1>1 DEF IInv, TypeOK, OneRepairPerStop, CaughtUp, Published, vars, counters
<1>2. CASE Script BY <1>2, StartKeeps, RoundKeeps DEF Script
<1>3. CASE Host BY <1>3, HostKeeps
<1> QED BY <1>1, <1>2, <1>3 DEF Next

LEMMA Invariant == Spec => []IInv
  BY InitHolds, NextKeeps, PTL DEF Spec

\* The supervision loop recreates the api container at most once for the boot and
\* once for every stop of dockerd, however the address comes and goes.
THEOREM RepairsAreBounded == Spec => []OneRepairPerStop
<1>1. IInv => OneRepairPerStop BY DEF IInv
<1> QED BY <1>1, Invariant, PTL

\* Both waits end within their bounds, and the script's state stays well-typed.
THEOREM WaitsAreBounded == Spec => []TypeOK
<1>1. IInv => TypeOK BY DEF IInv
<1> QED BY <1>1, Invariant, PTL
=============================================================================
