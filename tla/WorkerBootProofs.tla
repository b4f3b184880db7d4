-------------------------- MODULE WorkerBootProofs ---------------------------
(***************************************************************************)
(* WorkerBoot for any key TTL, sleep and lateness that BeatAssumption      *)
(* allows and any number of crashes and failures: what the liveness key    *)
(* says is true within its TTL, in both directions; and that no restart    *)
(* fetches the weights a second time, nor comes to serve from others.      *)
(***************************************************************************)
EXTENDS WorkerBoot, TLAPS

\* A heartbeat is at most this long after the one before it.
Gap == Period + Late

LEMMA Numbers ==
    /\ AliveTTL \in Nat /\ AliveTTL > 0 /\ Late \in Nat
    /\ Period \in Nat /\ Period > 0 /\ Period <= AliveTTL /\ 2 * Gap < AliveTTL
<1>1. AliveTTL \in Nat /\ MinPeriod \in Nat /\ MinPeriod > 0 /\ Late \in Nat
      /\ 2 * Gap < AliveTTL
  BY BeatFits DEF BeatAssumption, Gap, Period
<1>2. AliveTTL \div 3 \in Nat
  BY <1>1
<1>3. Period \in Nat /\ Period > 0
  BY <1>1, <1>2 DEF Period
<1> QED
  BY <1>1, <1>3 DEF Gap

(* The inductive invariant: a process that serves is not gone, and the time    *)
(* since the key was last written is no more than what the missed heartbeats  *)
(* have cost.                                                                 *)

PulseInv == pc = "serve" =>
    /\ gone = 0
    /\ beaten /\ missed = 0 => alive >= AliveTTL - (Period - beatIn)
    /\ beaten /\ missed = 1 => alive >= AliveTTL - Gap - (Period - beatIn)

IInv == TypeOK /\ PulseInv /\ DeadIsNoticed

\* TypeOK without the Booleans, which the provers take one at a time.
Kinds ==
    /\ pc \in {"down", "serve"} \union Booting
    /\ part \in {"none", "partial", "whole"}
    /\ ckpt \in {"none", "whole", "damaged"}
    /\ bare \in {"none", "partial", "whole", "foreign"}
    /\ pc = "serve" => bare = "whole"
    /\ alive \in 0..AliveTTL /\ beatIn \in (-Late)..Period /\ gone \in 0..AliveTTL
    /\ missed \in 0..2
    /\ crashes \in 0..MaxCrashes /\ failures \in 0..MaxFailures

Flags == beaten \in BOOLEAN /\ served \in BOOLEAN /\ reachable \in BOOLEAN

LEMMA KindsAndFlags == TypeOK <=> Kinds /\ Flags
  BY DEF TypeOK, Kinds, Flags

LEMMA InitHolds == Init => IInv
<1> SUFFICES ASSUME Init PROVE IInv
  OBVIOUS
<1>1. TypeOK
  <2>1. Kinds
    BY Numbers, FaultsAssumption DEF Init, Kinds
  <2>2. Flags
    BY DEF Init, Flags
  <2> QED
    BY <2>1, <2>2, KindsAndFlags
<1>2. PulseInv /\ DeadIsNoticed
  BY Numbers DEF Init, PulseInv, DeadIsNoticed
<1> QED
  BY <1>1, <1>2 DEF IInv

\* Redis comes and goes, and the key with its clocks does not notice.
LEMMA RedisKeeps ==
    ASSUME IInv, RedisGoes \/ RedisBack
    PROVE  IInv'
<1>1. UNCHANGED <<pc, disk, pulse, served, crashes>>
  BY DEF RedisGoes, RedisBack, history
<1>2. failures' \in 0..MaxFailures
  BY FaultsAssumption DEF IInv, TypeOK, RedisGoes, RedisBack, Fault, history
<1>3. reachable' \in BOOLEAN
  BY DEF RedisGoes, RedisBack
<1>4. TypeOK'
  BY <1>1, <1>2, <1>3 DEF IInv, TypeOK, disk, pulse
<1> QED
  BY <1>1, <1>4 DEF IInv, PulseInv, DeadIsNoticed, pulse

\* No step of fetch and boot, and no crash, touches the key or the clocks.
LEMMA BootKeeps ==
    ASSUME IInv, \/ Start \/ Check \/ Verify \/ Transfer \/ Md5 \/ Convert \/ Save
                 \/ Unlink \/ Boot \/ Crash
    PROVE  IInv'
<1> USE DEF Booting, Fetching
<1>1. pc' # "serve" /\ pc' \in {"down"} \union Booting
  BY DEF Start, Check, AfterCheck, Verify, Transfer, Md5, Convert, Save, Unlink, Boot,
         Crash, Exits
<1>2. UNCHANGED <<reachable, pulse>>
  BY DEF Start, Check, Verify, Transfer, Md5, Convert, Save, Unlink, Boot, Crash
<1>3. alive + gone <= AliveTTL
  BY Numbers DEF IInv, PulseInv, DeadIsNoticed, TypeOK
<1>4. /\ part' \in {"none", "partial", "whole"} /\ ckpt' \in {"none", "whole", "damaged"}
      /\ bare' \in {"none", "partial", "whole", "foreign"} /\ served' \in BOOLEAN
      /\ crashes' \in 0..MaxCrashes /\ failures' \in 0..MaxFailures
  <2> USE DEF disk, history, IInv, TypeOK
  <2>1. CASE Start \/ Check \/ Verify
    BY <2>1 DEF Start, Check, Verify
  <2>2. CASE Transfer
    BY <2>2, FaultsAssumption DEF Transfer, Fault
  <2>3. CASE Md5 \/ Convert \/ Unlink
    BY <2>3 DEF Md5, Convert, Unlink
  <2>4. CASE Save \/ Boot
    BY <2>4, FaultsAssumption DEF Save, Boot, Fault
  <2>5. CASE Crash
    BY <2>5, FaultsAssumption DEF Crash
  <2> QED
    BY <2>1, <2>2, <2>3, <2>4, <2>5
<1>5. TypeOK'
  BY <1>1, <1>2, <1>4 DEF IInv, TypeOK, pulse
<1> QED
  BY <1>1, <1>2, <1>3, <1>5 DEF IInv, PulseInv, DeadIsNoticed, pulse

\* A new life has not asserted its liveness yet.
LEMMA LoadKeeps ==
    ASSUME IInv, Load
    PROVE  IInv'
<1>1. TypeOK'
  <2>1. Kinds /\ Flags
    BY KindsAndFlags DEF IInv
  <2>2. Kinds'
    BY <2>1, Numbers DEF Kinds, Load, Loadable, Exits, disk, Booting, Fetching
  <2>3. Flags'
    BY <2>1 DEF Load, Flags
  <2> QED
    BY <2>2, <2>3 DEF Kinds, Flags, TypeOK
<1>2. PulseInv' /\ DeadIsNoticed'
  BY Numbers DEF IInv, TypeOK, PulseInv, DeadIsNoticed, Load, Loadable, Exits
<1> QED
  BY <1>1, <1>2 DEF IInv

\* A heartbeat that comes through fills the key up; one that is lost costs a gap.
LEMMA BeatKeeps ==
    ASSUME IInv, Beat
    PROVE  IInv'
<1>1. TypeOK'
  <2>1. Kinds /\ Flags
    BY KindsAndFlags DEF IInv
  <2>2. Kinds'
    BY <2>1, Numbers, FaultsAssumption DEF Kinds, Beat, Fault, disk
  <2>3. Flags'
    BY <2>1 DEF Beat, Flags
  <2> QED
    BY <2>2, <2>3 DEF Kinds, Flags, TypeOK
<1>2. PulseInv'
  BY Numbers DEF IInv, TypeOK, PulseInv, Beat, Gap
<1>3. DeadIsNoticed'
  BY DEF DeadIsNoticed, Beat
<1> QED
  BY <1>1, <1>2, <1>3 DEF IInv

\* The key and the sleep lose a tick together, a dead process gains one.
LEMMA TickKeeps ==
    ASSUME IInv, Tick
    PROVE  IInv'
<1>1. TypeOK'
  BY Numbers DEF IInv, TypeOK, Tick, Shorter, disk, history
<1>2. PulseInv'
  BY Numbers DEF IInv, TypeOK, PulseInv, Tick, Shorter, Gap
<1>3. DeadIsNoticed'
  BY Numbers DEF IInv, TypeOK, DeadIsNoticed, Tick, Shorter
<1> QED
  BY <1>1, <1>2, <1>3 DEF IInv

LEMMA NextKeeps == IInv /\ [Next]_vars => IInv'
<1> SUFFICES ASSUME IInv, [Next]_vars PROVE IInv'
  OBVIOUS
<1>1. CASE UNCHANGED vars
  BY <1>1 DEF vars, disk, pulse, history, IInv, TypeOK, PulseInv, DeadIsNoticed
<1> QED
  BY <1>1, BootKeeps, RedisKeeps, LoadKeeps, BeatKeeps, TickKeeps DEF Next, Work

\* The inductive invariant holds throughout: the liveness key's time left bounds the beats
\* of the worker's thread that are still due (worker.py).
THEOREM Invariant == Spec => []IInv
  BY InitHolds, NextKeeps, PTL DEF Spec

-----------------------------------------------------------------------------
(* Results. *)

\* Whatever the TTL of the liveness key, if two sleeps of the heartbeat fit
\* into it with their lateness, a worker that runs never looks dead to /readyz
\* and to the container's probe because of one lost heartbeat, as long as these reach
\* Redis themselves.
THEOREM AliveWhileServing == Spec => []HealthyLooksAlive
<1>1. IInv => HealthyLooksAlive
  BY Numbers DEF IInv, TypeOK, PulseInv, HealthyLooksAlive, CheckWorker, WorkerIsLive, Gap
<1> QED
  BY Invariant, <1>1, PTL

\* However often the container is restarted meanwhile, a worker that is gone
\* looks alive for no longer than the TTL.
THEOREM DeadWithinTTL == Spec => []DeadIsNoticed
<1>1. IInv => DeadIsNoticed
  BY DEF IInv
<1> QED
  BY Invariant, <1>1, PTL

\* No interrupted download, conversion or boot makes a worker serve from
\* weights that are not all there, and no foreign file from weights of its own.
THEOREM TypeCorrect == Spec => []TypeOK
<1>1. IInv => TypeOK
  BY DEF IInv
<1> QED
  BY Invariant, <1>1, PTL

-----------------------------------------------------------------------------
(* The weights. *)

\* Once a life has served, the converted checkpoint is whole, and no process is
\* anywhere on the way to fetching or making it again.
KeptInv == served => bare = "whole" /\ pc \in {"down", "check", "boot", "load", "serve"}

LEMMA KeptNext == TypeOK /\ KeptInv /\ [Next]_vars => KeptInv' /\ (served => pc' # "transfer")
<1> SUFFICES ASSUME TypeOK, KeptInv, [Next]_vars
             PROVE  KeptInv' /\ (served => pc' # "transfer")
  OBVIOUS
<1> USE DEF KeptInv
<1>1. CASE UNCHANGED vars
  BY <1>1 DEF vars, disk, history
<1>2. CASE Start \/ Check \/ Verify
  BY <1>2 DEF Start, Check, AfterCheck, IsUsable, Verify, disk, history
<1>3. CASE Transfer \/ Md5 \/ Convert \/ Save \/ Unlink
  BY <1>3 DEF Transfer, Md5, Convert, Save, Unlink, history
<1>4. CASE Boot \/ Crash
  BY <1>4 DEF Boot, Crash, Exits, disk
<1>5. CASE Load
  BY <1>5 DEF Load, Loadable, Exits, disk
<1>6. CASE Beat \/ Tick \/ RedisGoes \/ RedisBack
  BY <1>6 DEF Beat, Tick, RedisGoes, RedisBack, disk, history
<1> QED
  BY <1>1, <1>2, <1>3, <1>4, <1>5, <1>6 DEF Next, Work

\* fetch_weights.main is idempotent: after a first boot that came to serve no
\* restart downloads the weights again, whatever crashed or failed before and
\* however often the container goes down.
THEOREM NeverFetchedAgain == Spec => FetchedOnce
<1>1. Init => KeptInv
  BY DEF Init, KeptInv
<1>2. TypeOK /\ KeptInv /\ [Next]_vars => [served => pc' # "transfer"]_vars
  BY KeptNext
<1> QED
  BY <1>1, <1>2, KeptNext, TypeCorrect, PTL DEF Spec, FetchedOnce
=============================================================================
