-------------------------- MODULE SharedKeys_proofs --------------------------
(***************************************************************************)
(* Two protocols that workers keep to on shared keys of Redis, for any     *)
(* number of workers.  CircuitBreaker: the types, and that probes exclude  *)
(* each other, for any thresholds and durations in which a call ends       *)
(* before a cooldown.  ReadThroughCache: the types, that what was          *)
(* announced is read, and that one request computes under a key.           *)
(***************************************************************************)
EXTENDS CircuitBreaker, ReadThroughCache, FiniteSetTheorems, WellFoundedInduction,
        TLAPS

\* The lock of a probe outlives what is left of its call.
LockCovers(c) == caller[c].lock = "held" => probe > caller[c].left

OneHolder ==
    \A c, d \in Callers :
        c # d => ~(caller[c].lock = "held" /\ caller[d].lock = "held")

ProbesCovered ==
    /\ \A c \in Callers : caller[c].lock # "expired" /\ LockCovers(c)
    /\ OneHolder

BreakerInv == BreakerTypeOK /\ ProbesCovered
-----------------------------------------------------------------------------
LEMMA Constants ==
    /\ Threshold \in Nat \ {0} /\ Window \in Nat \ {0}
    /\ OpenFor \in Nat \ {0} /\ ReopenFor \in Nat \ {0}
    /\ CallTime \in Nat /\ CallTime < OpenFor
    /\ LongAgo \in Nat /\ OpenFor <= LongAgo /\ ReopenFor <= LongAgo
    /\ ProbeTtl = LongAgo
    /\ MaxCrashes \in Nat
BY BreakerAssumption DEF LongAgo, ProbeTtl

LEMMA Less1Range ==
    ASSUME NEW b \in Nat, NEW n \in 0..b
    PROVE  Less1(n) \in 0..b
BY DEF Less1

LEMMA LeastRange ==
    ASSUME NEW b \in Nat, NEW n \in Nat
    PROVE  Least(n, b) \in 0..b
BY DEF Least

LEMMA IdleType == Idle \in Caller
BY Constants DEF Idle, Caller, Stages

LEMMA CallingType ==
    ASSUME NEW lock \in {"none", "held"}
    PROVE  /\ Calling(lock) \in Caller
           /\ Calling(lock).at = "calling"
           /\ Calling(lock).lock = lock
           /\ Calling(lock).left = CallTime
<1>1. CallTime \in 0..CallTime
  BY Constants
<1> QED
  BY <1>1, IdleType DEF Calling, Caller, Stages

\* A caller that moves on to a stage where it carries no lock.
LEMMA MoveOn ==
    ASSUME BreakerInv, NEW c \in Callers, NEW r \in Caller, r.lock = "none",
           caller' = [caller EXCEPT ![c] = r],
           probe' = probe
    PROVE  /\ caller' \in [Callers -> Caller]
           /\ \A d \in Callers : caller'[d].lock # "none" => caller'[d].at = "calling"
           /\ ProbesCovered'
<1>1. caller' \in [Callers -> Caller]
  BY DEF BreakerInv, BreakerTypeOK
<1>2. \A d \in Callers : caller'[d] = IF d = c THEN r ELSE caller[d]
  BY DEF BreakerInv, BreakerTypeOK
<1>3. \A d \in Callers : caller'[d].lock # "none" => caller'[d].at = "calling"
  BY <1>2 DEF BreakerInv, BreakerTypeOK
<1>4. \A d \in Callers : caller'[d].lock # "expired" /\ LockCovers(d)'
  BY <1>2 DEF BreakerInv, ProbesCovered, LockCovers
<1>5. OneHolder'
  BY <1>2 DEF BreakerInv, ProbesCovered, OneHolder
<1> QED
  BY <1>1, <1>3, <1>4, <1>5 DEF ProbesCovered

\* A deletion of the lock leaves nobody who holds it.
LEMMA Deleted ==
    ASSUME BreakerInv, NEW c \in Callers, NEW r \in Caller, r.lock = "none",
           caller' = WithoutLock([caller EXCEPT ![c] = r])
    PROVE  /\ caller' \in [Callers -> Caller]
           /\ \A d \in Callers : caller'[d].lock # "none" => caller'[d].at = "calling"
           /\ ProbesCovered'
<1> DEFINE f == [caller EXCEPT ![c] = r]
<1>1. /\ f \in [Callers -> Caller]
      /\ \A d \in Callers : f[d] = IF d = c THEN r ELSE caller[d]
  BY DEF BreakerInv, BreakerTypeOK
<1>2. \A d \in Callers : f[d].lock # "expired" /\ (f[d].lock # "none" => f[d].at = "calling")
  BY <1>1 DEF BreakerInv, BreakerTypeOK, ProbesCovered
<1>3. \A d \in Callers : caller'[d] = IF f[d].lock = "held"
                                     THEN [f[d] EXCEPT !.lock = "lost"] ELSE f[d]
  BY DEF WithoutLock
<1>4. ASSUME NEW d \in Callers
      PROVE  /\ caller'[d] \in Caller
             /\ caller'[d].lock \notin {"held", "expired"}
             /\ caller'[d].lock # "none" => caller'[d].at = "calling"
  <2>1. f[d] \in Caller
    BY <1>1
  <2>2. CASE f[d].lock = "held"
    <3>1. caller'[d] = [f[d] EXCEPT !.lock = "lost"]
      BY <1>3, <2>2
    <3>2. f[d].at = "calling"
      BY <1>2, <2>2
    <3> HIDE DEF f
    <3> QED
      BY <2>1, <3>1, <3>2 DEF Caller
  <2>3. CASE f[d].lock # "held"
    BY <1>2, <1>3, <2>1, <2>3
  <2> QED
    BY <2>2, <2>3
<1>5. caller' \in [Callers -> Caller]
  <2>1. caller' = [d \in Callers |-> caller'[d]]
    BY DEF WithoutLock
  <2> QED
    BY <1>4, <2>1
<1>6. ProbesCovered'
  BY <1>4 DEF ProbesCovered, LockCovers, OneHolder
<1> QED
  BY <1>4, <1>5, <1>6
-----------------------------------------------------------------------------
LEMMA InitIInv == BreakerInit => BreakerInv
<1> SUFFICES ASSUME BreakerInit PROVE BreakerInv
  OBVIOUS
<1>1. \A c \in Callers : caller[c] = Idle /\ Idle.lock = "none"
  BY DEF BreakerInit, Idle
<1>2. BreakerTypeOK
  BY <1>1, Constants, IdleType DEF BreakerInit, BreakerTypeOK
<1>3. ProbesCovered
  BY <1>1 DEF ProbesCovered, LockCovers, OneHolder
<1> QED
  BY <1>2, <1>3 DEF BreakerInv

LEMMA StepIInv == BreakerInv /\ [BreakerNext]_breakerVars => BreakerInv'
<1> SUFFICES ASSUME BreakerInv, [BreakerNext]_breakerVars PROVE BreakerInv'
  OBVIOUS
<1> USE Constants
<1>t. /\ BreakerTypeOK /\ ProbesCovered
      /\ tripped \in Nat /\ since \in Nat /\ probe \in Nat /\ windowAge \in Nat
      /\ probe <= LongAgo /\ tripped <= LongAgo + Window
  BY DEF BreakerInv, BreakerTypeOK
<1>c. ASSUME NEW c \in Callers
      PROVE  /\ caller[c] \in Caller
             /\ caller[c].at # "calling" => caller[c].lock = "none"
  BY <1>t DEF BreakerTypeOK
<1>1. CASE Tick
  <2>1. \A c \in Callers : caller[c].lock = "held" => probe > 1 /\ caller[c].left > 0
    <3> SUFFICES ASSUME NEW c \in Callers, caller[c].lock = "held"
                 PROVE  probe > 1 /\ caller[c].left > 0
      OBVIOUS
    <3>1. caller[c].at = "calling" /\ caller[c].left \in Nat
      BY <1>c DEF Caller
    <3>2. caller[c].left > 0
      BY <1>1, <3>1 DEF Tick
    <3>3. probe > caller[c].left
      BY <1>t DEF ProbesCovered, LockCovers
    <3> QED
      BY <1>t, <3>1, <3>2, <3>3
  <2>2. ASSUME NEW c \in Callers
        PROVE  /\ caller'[c] \in Caller
               /\ caller'[c].at = caller[c].at /\ caller'[c].lock = caller[c].lock
               /\ caller'[c].left = Less1(caller[c].left)
    <3> DEFINE lock == IF caller[c].lock = "held" /\ probe = 1 THEN "expired"
                       ELSE caller[c].lock
               start == IF caller[c].at = "storing"
                        THEN Least(caller[c].start + 1, Window) ELSE caller[c].start
               left == Less1(caller[c].left)
    <3>1. caller'[c] = [caller[c] EXCEPT !.left = left, !.lock = lock, !.start = start]
      BY <1>1 DEF Tick
    <3>2. lock = caller[c].lock
      BY <1>t, <2>1
    <3>3. caller[c].start \in Nat /\ caller[c].left \in 0..CallTime /\ caller[c].start \in 0..Window
      BY <1>c DEF Caller
    <3>4. start \in 0..Window /\ left \in 0..CallTime
      BY <3>3, Less1Range DEF Least
    <3> HIDE DEF lock, start, left
    <3>5. caller'[c] \in Caller
      BY <1>c, <3>1, <3>2, <3>4 DEF Caller
    <3>6. /\ caller'[c].at = caller[c].at /\ caller'[c].lock = caller[c].lock
          /\ caller'[c].left = left
      BY <1>c, <3>1, <3>2 DEF Caller
    <3> QED
      BY <3>5, <3>6 DEF left
  <2>3. caller' \in [Callers -> Caller]
    <3>1. caller' = [c \in Callers |-> caller'[c]]
      BY <1>1 DEF Tick
    <3> QED
      BY <2>2, <3>1
  <2>4. BreakerTypeOK'
    <3>1. /\ tripped' \in 0..(LongAgo + Window) /\ probe' \in 0..ProbeTtl
          /\ since' \in 0..LongAgo /\ windowAge' \in 0..Window
      <4>1. /\ tripped' = Less1(tripped) /\ probe' = Less1(probe)
            /\ since' = Least(since + 1, LongAgo) /\ windowAge' = Least(windowAge + 1, Window)
        BY <1>1 DEF Tick
      <4> QED
        BY <1>t, <4>1 DEF Less1, Least
    <3>2. \A c \in Callers : caller'[c].lock # "none" => caller'[c].at = "calling"
      BY <2>2 DEF BreakerInv, BreakerTypeOK
    <3> QED
      BY <1>1, <1>t, <2>3, <3>1, <3>2 DEF Tick, world, BreakerTypeOK
  <2>5. ASSUME NEW c \in Callers, caller'[c].lock = "held"
        PROVE  probe' > caller'[c].left
    <3>1. probe > 1 /\ caller[c].left > 0 /\ probe > caller[c].left
      BY <1>t, <2>1, <2>2, <2>5 DEF ProbesCovered, LockCovers
    <3>2. caller[c].left \in Nat
      BY <1>c DEF Caller
    <3>3. probe' = probe - 1 /\ caller'[c].left = caller[c].left - 1
      <4>1. probe' = Less1(probe) /\ caller'[c].left = Less1(caller[c].left)
        BY <1>1, <2>2 DEF Tick
      <4> QED
        BY <1>t, <3>1, <3>2, <4>1 DEF Less1
    <3> QED
      BY <1>t, <3>1, <3>2, <3>3
  <2>6. ProbesCovered'
    BY <1>t, <2>2, <2>5 DEF ProbesCovered, LockCovers, OneHolder
  <2> QED
    BY <2>4, <2>6 DEF BreakerInv
<1>2. CASE Change
  BY <1>2, <1>t DEF Change, keys, BreakerInv, BreakerTypeOK, ProbesCovered, LockCovers, OneHolder
<1>3. ASSUME NEW c \in Callers, Ask(c) PROVE BreakerInv'
  <2>1. CASE caller' = [caller EXCEPT ![c] = Calling("none")]
    <3>1. /\ caller' \in [Callers -> Caller]
          /\ \A d \in Callers : caller'[d].lock # "none" => caller'[d].at = "calling"
          /\ ProbesCovered'
      BY <1>3, <2>1, MoveOn, CallingType DEF Ask, keys
    <3> QED
      BY <1>3, <1>t, <3>1 DEF Ask, keys, world, BreakerInv, BreakerTypeOK
  <2>2. CASE caller' = [caller EXCEPT ![c].at = "probing"] /\ caller[c].at = "idle"
    <3> DEFINE r == [caller[c] EXCEPT !.at = "probing"]
    <3>1. r \in Caller /\ r.lock = "none" /\ caller' = [caller EXCEPT ![c] = r]
      BY <1>c, <2>2 DEF Caller, Stages
    <3> HIDE DEF r
    <3>2. /\ caller' \in [Callers -> Caller]
          /\ \A d \in Callers : caller'[d].lock # "none" => caller'[d].at = "calling"
          /\ ProbesCovered'
      BY <1>3, <3>1, MoveOn DEF Ask, keys
    <3> QED
      BY <1>3, <1>t, <3>2 DEF Ask, keys, world, BreakerInv, BreakerTypeOK
  <2> QED
    BY <1>3, <2>1, <2>2 DEF Ask
<1>4. ASSUME NEW c \in Callers, TakeProbe(c) PROVE BreakerInv'
  <2>1. CASE probe = 0
    <3>1. \A d \in Callers : caller[d].lock # "held"
      <4> SUFFICES ASSUME NEW d \in Callers, caller[d].lock = "held" PROVE FALSE
        OBVIOUS
      <4>1. caller[d].left \in Nat /\ probe > caller[d].left
        BY <1>c, <1>t DEF Caller, ProbesCovered, LockCovers
      <4> QED
        BY <2>1, <4>1
    <3>2. probe' = ProbeTtl /\ caller' = [caller EXCEPT ![c] = Calling("held")]
      BY <1>4, <2>1 DEF TakeProbe
    <3>3. \A d \in Callers : caller'[d] = IF d = c THEN Calling("held") ELSE caller[d]
      BY <3>2, <1>t DEF BreakerTypeOK
    <3>4. ProbesCovered'
      <4>1. probe' > CallTime
        BY <3>2
      <4>2. \A d \in Callers : /\ caller'[d].lock # "expired"
                               /\ caller'[d].lock = "held" => d = c /\ caller'[d].left = CallTime
        BY <3>1, <3>3, <1>t, CallingType DEF ProbesCovered
      <4> QED
        BY <4>1, <4>2 DEF ProbesCovered, LockCovers, OneHolder
    <3>5. /\ caller' \in [Callers -> Caller]
          /\ \A d \in Callers : caller'[d].lock # "none" => caller'[d].at = "calling"
      BY <3>2, <3>3, <1>t, CallingType DEF BreakerTypeOK
    <3> QED
      BY <1>4, <1>t, <3>2, <3>4, <3>5 DEF TakeProbe, world, BreakerInv, BreakerTypeOK
  <2>2. CASE probe # 0
    <3>1. probe' = probe /\ caller' = [caller EXCEPT ![c] = Idle]
      BY <1>4, <2>2 DEF TakeProbe
    <3>2. /\ caller' \in [Callers -> Caller]
          /\ \A d \in Callers : caller'[d].lock # "none" => caller'[d].at = "calling"
          /\ ProbesCovered'
      BY <3>1, IdleType, MoveOn DEF Idle
    <3> QED
      BY <1>4, <1>t, <3>1, <3>2 DEF TakeProbe, world, BreakerInv, BreakerTypeOK
  <2> QED
    BY <2>1, <2>2
<1>5. ASSUME NEW c \in Callers, AllowBlindly(c) PROVE BreakerInv'
  <2>1. /\ caller' \in [Callers -> Caller]
        /\ \A d \in Callers : caller'[d].lock # "none" => caller'[d].at = "calling"
        /\ ProbesCovered'
    BY <1>5, MoveOn, CallingType DEF AllowBlindly, keys
  <2> QED
    BY <1>5, <1>t, <2>1 DEF AllowBlindly, keys, world, BreakerInv, BreakerTypeOK
<1>6. ASSUME NEW c \in Callers, EndCall(c) PROVE BreakerInv'
  <2> DEFINE r == CASE ia = "up"     -> [Idle EXCEPT !.at = "succeeded"]
                    [] ia = "down"   -> [Idle EXCEPT !.at = "failed"]
                    [] ia = "broken" -> Idle
  <2>1. r \in Caller /\ r.lock = "none" /\ caller' = [caller EXCEPT ![c] = r]
    <3>1. caller' = [caller EXCEPT ![c] = r]
      BY <1>6 DEF EndCall
    <3>2. ia \in {"up", "down", "broken"}
      BY <1>t DEF BreakerTypeOK
    <3> QED
      BY <3>1, <3>2, IdleType DEF Idle, Caller, Stages
  <2> HIDE DEF r
  <2>2. /\ caller' \in [Callers -> Caller]
        /\ \A d \in Callers : caller'[d].lock # "none" => caller'[d].at = "calling"
        /\ ProbesCovered'
    BY <1>6, <2>1, MoveOn DEF EndCall, keys
  <2> QED
    BY <1>6, <1>t, <2>2 DEF EndCall, keys, world, BreakerInv, BreakerTypeOK
<1>7. ASSUME NEW c \in Callers, Report(c) PROVE BreakerInv'
  <2>1. CASE RecordSuccess(c)
    <3>1. /\ caller' \in [Callers -> Caller]
          /\ \A d \in Callers : caller'[d].lock # "none" => caller'[d].at = "calling"
          /\ ProbesCovered'
      BY <2>1, IdleType, Deleted DEF RecordSuccess, Idle
    <3>2. /\ tripped' \in 0..(LongAgo + Window) /\ since' \in 0..LongAgo
          /\ probe' \in 0..ProbeTtl /\ failures' \in 0..Threshold
          /\ windowAge' \in 0..Window /\ cooldown' = 0
      BY <2>1 DEF RecordSuccess
    <3> QED
      BY <2>1, <1>t, <3>1, <3>2 DEF RecordSuccess, world, BreakerInv, BreakerTypeOK
  <2>2. CASE ReadState(c)
    <3> DEFINE r == [caller[c] EXCEPT !.at =
                        CASE probe > 0                 -> "releasing"
                          [] probe = 0 /\ tripped > 0  -> "idle"
                          [] OTHER                     -> "counting"]
    <3>1. r \in Caller /\ r.lock = "none" /\ caller' = [caller EXCEPT ![c] = r]
      BY <2>2, <1>c DEF ReadState, Caller, Stages
    <3> HIDE DEF r
    <3>2. /\ caller' \in [Callers -> Caller]
          /\ \A d \in Callers : caller'[d].lock # "none" => caller'[d].at = "calling"
          /\ ProbesCovered'
      BY <2>2, <3>1, MoveOn DEF ReadState, keys
    <3> QED
      BY <2>2, <1>t, <3>2 DEF ReadState, keys, world, BreakerInv, BreakerTypeOK
  <2>3. CASE ReleaseProbe(c)
    <3> DEFINE r == [Idle EXCEPT !.at = "opening", !.duration = ReopenFor]
    <3>1. r \in Caller /\ r.lock = "none"
      BY IdleType DEF Idle, Caller, Stages
    <3>2. caller' = WithoutLock([caller EXCEPT ![c] = r])
      BY <2>3 DEF ReleaseProbe
    <3> HIDE DEF r
    <3>3. /\ caller' \in [Callers -> Caller]
          /\ \A d \in Callers : caller'[d].lock # "none" => caller'[d].at = "calling"
          /\ ProbesCovered'
      BY <3>1, <3>2, Deleted
    <3>4. probe' \in 0..ProbeTtl
      BY <2>3 DEF ReleaseProbe
    <3> QED
      BY <2>3, <1>t, <3>3, <3>4 DEF ReleaseProbe, world, BreakerInv, BreakerTypeOK
  <2>4. CASE Count(c)
    <3> DEFINE count == IF windowAge < Window THEN Least(failures + 1, Threshold) ELSE 1
               start == IF windowAge < Window THEN windowAge ELSE 0
               r == [caller[c] EXCEPT !.at = "storing", !.count = count, !.start = start]
    <3>1. count \in 0..Threshold /\ start \in 0..Window
      <4>1. failures \in Nat /\ windowAge \in 0..Window
        BY <1>t DEF BreakerTypeOK
      <4> QED
        BY <4>1, LeastRange
    <3>2. caller' = [caller EXCEPT ![c] = r] /\ caller[c].at = "counting"
      BY <2>4 DEF Count
    <3> HIDE DEF count, start
    <3>3. r \in Caller /\ r.lock = "none"
      BY <1>c, <3>1, <3>2 DEF Caller, Stages
    <3> HIDE DEF r
    <3>4. /\ caller' \in [Callers -> Caller]
          /\ \A d \in Callers : caller'[d].lock # "none" => caller'[d].at = "calling"
          /\ ProbesCovered'
      BY <2>4, <3>2, <3>3, MoveOn DEF Count, keys
    <3> QED
      BY <2>4, <1>t, <3>4 DEF Count, keys, world, BreakerInv, BreakerTypeOK
  <2>5. CASE StoreWindow(c)
    <3> DEFINE r == IF caller[c].count >= Threshold
                    THEN [Idle EXCEPT !.at = "opening", !.duration = OpenFor] ELSE Idle
    <3>1. r \in Caller /\ r.lock = "none"
      BY IdleType DEF Idle, Caller, Stages
    <3>2. caller' = [caller EXCEPT ![c] = r]
      BY <2>5 DEF StoreWindow
    <3> HIDE DEF r
    <3>3. /\ caller' \in [Callers -> Caller]
          /\ \A d \in Callers : caller'[d].lock # "none" => caller'[d].at = "calling"
          /\ ProbesCovered'
      BY <2>5, <3>1, <3>2, MoveOn DEF StoreWindow
    <3>4. failures' \in 0..Threshold /\ windowAge' \in 0..Window
      BY <2>5, <1>c DEF StoreWindow, Caller
    <3> QED
      BY <2>5, <1>t, <3>3, <3>4 DEF StoreWindow, world, BreakerInv, BreakerTypeOK
  <2>6. CASE SetOpenedAt(c)
    <3> DEFINE r == [caller[c] EXCEPT !.at = "timing"]
    <3>1. r \in Caller /\ r.lock = "none" /\ caller' = [caller EXCEPT ![c] = r]
      BY <2>6, <1>c DEF SetOpenedAt, Caller, Stages
    <3> HIDE DEF r
    <3>2. /\ caller' \in [Callers -> Caller]
          /\ \A d \in Callers : caller'[d].lock # "none" => caller'[d].at = "calling"
          /\ ProbesCovered'
      BY <2>6, <3>1, MoveOn DEF SetOpenedAt
    <3> QED
      BY <2>6, <1>t, <3>2 DEF SetOpenedAt, world, BreakerInv, BreakerTypeOK
  <2>7. CASE SetDuration(c)
    <3> DEFINE r == [caller[c] EXCEPT !.at = "tripping"]
    <3>1. r \in Caller /\ r.lock = "none" /\ caller' = [caller EXCEPT ![c] = r]
      BY <2>7, <1>c DEF SetDuration, Caller, Stages
    <3> HIDE DEF r
    <3>2. /\ caller' \in [Callers -> Caller]
          /\ \A d \in Callers : caller'[d].lock # "none" => caller'[d].at = "calling"
          /\ ProbesCovered'
      BY <2>7, <3>1, MoveOn DEF SetDuration
    <3>3. cooldown' \in {0, OpenFor, ReopenFor}
      BY <2>7, <1>c DEF SetDuration, Caller
    <3> QED
      BY <2>7, <1>t, <3>2, <3>3 DEF SetDuration, world, BreakerInv, BreakerTypeOK
  <2>8. CASE SetState(c)
    <3>1. /\ caller' \in [Callers -> Caller]
          /\ \A d \in Callers : caller'[d].lock # "none" => caller'[d].at = "calling"
          /\ ProbesCovered'
      BY <2>8, IdleType, MoveOn DEF SetState, Idle
    <3>2. tripped' \in 0..(LongAgo + Window)
      BY <2>8, <1>c DEF SetState, Caller
    <3> QED
      BY <2>8, <1>t, <3>1, <3>2 DEF SetState, world, BreakerInv, BreakerTypeOK
  <2>9. CASE DropReport(c)
    <3>1. /\ caller' \in [Callers -> Caller]
          /\ \A d \in Callers : caller'[d].lock # "none" => caller'[d].at = "calling"
          /\ ProbesCovered'
      BY <2>9, IdleType, MoveOn DEF DropReport, keys, Idle
    <3> QED
      BY <2>9, <1>t, <3>1 DEF DropReport, keys, world, BreakerInv, BreakerTypeOK
  <2> QED
    BY <1>7, <2>1, <2>2, <2>3, <2>4, <2>5, <2>6, <2>7, <2>8, <2>9 DEF Report
<1>8. ASSUME NEW c \in Callers, Crash(c) PROVE BreakerInv'
  <2>1. /\ caller' \in [Callers -> Caller]
        /\ \A d \in Callers : caller'[d].lock # "none" => caller'[d].at = "calling"
        /\ ProbesCovered'
    BY <1>8, IdleType, MoveOn DEF Crash, keys, Idle
  <2>2. crashes' \in 0..MaxCrashes
    BY <1>8, <1>t, BreakerAssumption DEF Crash, BreakerTypeOK
  <2> QED
    BY <1>8, <1>t, <2>1, <2>2 DEF Crash, keys, BreakerInv, BreakerTypeOK
<1>9. CASE UNCHANGED breakerVars
  BY <1>9, <1>t DEF breakerVars, keys, world, BreakerInv, BreakerTypeOK, ProbesCovered, LockCovers,
                    OneHolder
<1> QED
  BY <1>1, <1>2, <1>3, <1>4, <1>5, <1>6, <1>7, <1>8, <1>9 DEF BreakerNext, Work
-----------------------------------------------------------------------------
LEMMA SpecIInv == BreakerSpec => []BreakerInv
  BY InitIInv, StepIInv, PTL DEF BreakerSpec

\* The Redis keys and what the workers remember of them keep their types.
THEOREM TypeCorrect == BreakerSpec => []BreakerTypeOK
<1>1. BreakerInv => BreakerTypeOK
  BY DEF BreakerInv
<1> QED
  BY <1>1, SpecIInv, PTL

\* For every timing in which a call ends before a cooldown, two workers are in
\* the IA as probes only if somebody deleted the lock of one of them, and no
\* lock expires under its probe (beforeCall, probeTtlMs).
THEOREM ProbesExclude == BreakerSpec => []ProbesAreExclusive
<1>1. BreakerInv => ProbesAreExclusive
  BY DEF BreakerInv, ProbesCovered, OneHolder, ProbesAreExclusive
<1> QED
  BY <1>1, SpecIInv, PTL
-----------------------------------------------------------------------------
(* The read-through caches: types *)

KeyOrNone == [Scopes -> Nat] \cup {None}
Seen == UNION {[T -> Nat] : T \in SUBSET Scopes}

ReadStages == {"idle", "versions", "lookup", "lock", "poll", "compute", "store",
               "unlock", "done"}

Request == [at: ReadStages, key: KeyOrNone, read: Seen, rules: Nat, leader: BOOLEAN,
            polls: 0..FollowAttempts, asked: [Scopes -> Nat] \cup {Nothing},
            askedRules: Nat]
ChangeRecord == [at: {"idle", "bump", "signal"}, left: SUBSET Scopes, of: SUBSET Scopes,
           rules: BOOLEAN, gen: Nat]
Announcement == [of: SUBSET Scopes, rules: BOOLEAN, gen: Nat]
Entry == [key: KeyOrNone, read: [Scopes -> Nat], rules: Nat]

CacheTypeOK ==
    /\ kind \in Kinds
    /\ db \in [Scopes -> Nat] /\ rules \in Nat
    /\ version \in [Scopes -> Nat]
    /\ cached \subseteq Entry /\ locked \subseteq KeyOrNone
    /\ req \in [Requests -> Request]
    /\ change \in [Writers -> ChangeRecord]
    /\ pending \subseteq Announcement
    /\ told \in [scopes: [Scopes -> Nat], rules: Nat]
    /\ unbumped \subseteq Scopes /\ slack \subseteq KeyOrNone
    /\ changes \in 0..MaxChanges /\ faults \in 0..MaxFaults
-----------------------------------------------------------------------------
(* The inductive invariant *)

\* What clients know of a scope, or will; and what is behind its version.
Written(s) ==
    {told.scopes[s]}
        \cup {n.gen : n \in {m \in pending : ~m.rules /\ s \in m.of}}
        \cup {change[w].gen : w \in {v \in Writers : ~change[v].rules
                                           /\ s \in change[v].of}}
Bumped(s) ==
    {told.scopes[s]}
        \cup {n.gen : n \in {m \in pending : ~m.rules /\ s \in m.of}}
        \cup {change[w].gen : w \in {v \in Writers : ~change[v].rules
                                           /\ s \in change[v].of \ change[v].left}}
WrittenRules ==
    {told.rules}
        \cup {n.gen : n \in {m \in pending : m.rules}}
        \cup {change[w].gen : w \in {v \in Writers : change[v].rules}}

\* Nobody is told of a change that was not made.
NewsIsTrue ==
    /\ \A s \in Scopes : \A n \in Written(s) : n <= db[s]
    /\ \A n \in WrittenRules : n <= rules

Changing ==
    \A w \in Writers : /\ change[w].left \subseteq change[w].of
                       /\ change[w].at = "signal" => change[w].left = {}
                       /\ change[w].at = "idle" => change[w].of = {}

Bears(x, s) == s \in DOMAIN x.key /\ s \in DOMAIN x.read

\* A result, kept or being computed, was begun at a version that was.
Begun(x) == \A s \in DOMAIN x.key : x.key[s] <= version[s]

\* What is read behind the present version has every change that was bumped.
Current(x) ==
    \A s \in Scopes \ unbumped :
        Bears(x, s) /\ x.key[s] = version[s] => \A n \in Bumped(s) : n <= x.read[s]

\* A result under the key of a request has what the request was told of,
Answers(x, q) ==
    \A s \in Scopes \ unbumped :
        Bears(x, s) /\ s \in DOMAIN q.key /\ x.key[s] = q.key[s]
            => q.asked[s] <= x.read[s]

\* and so has what the request reads itself.
Informed(q) ==
    \A s \in Scopes \ unbumped : s \in DOMAIN q.read => q.asked[s] <= q.read[s]

\* What a request has in its hands at each stage.
Staged(q) ==
    /\ q.at = "idle" => q.key = None /\ q.read = Nothing
    /\ q.at # "idle" => /\ q.asked \in [Scopes -> Nat]
                        /\ \A s \in Scopes : q.asked[s] <= told.scopes[s]
    /\ q.at = "versions" => q.key = None /\ q.read = Nothing
    /\ q.at \in {"lookup", "lock", "poll"} => q.key \in [Scopes -> Nat] /\ q.read = Nothing
    /\ q.at = "store" => q.key # None /\ DOMAIN q.read = Scopes
    /\ q.at = "done" => q.key = None /\ DOMAIN q.read = Scopes

EntriesFit ==
    \A e \in cached : /\ e.key # None
                      /\ Begun(e) /\ Current(e)
                      /\ \A q \in Requests : Answers(e, req[q])

RequestsFit ==
    \A r \in Requests : /\ Staged(req[r]) /\ Begun(req[r])
                        /\ Current(req[r]) /\ Informed(req[r])
                        /\ \A q \in Requests : Answers(req[r], req[q])

\* The requests that have the lock of their key, or should.
Flying(q) == /\ q.at \in {"compute", "store", "unlock"}
             /\ q.key # None /\ q.key \notin slack

Flights ==
    kind = "report" => \A r \in Requests :
        Flying(req[r]) =>
            /\ req[r].leader /\ req[r].key \in locked
            /\ \A q \in Requests : Flying(req[q]) /\ req[q].key = req[r].key => q = r

CacheInv == CacheTypeOK /\ NewsIsTrue /\ Changing /\ EntriesFit /\ RequestsFit /\ Flights
-----------------------------------------------------------------------------
(* The last number *)

\* A set of natural numbers has a least element, and one with a bound has a
\* greatest.
LEMMA LeastOf ==
    ASSUME NEW T \in SUBSET Nat, T # {}
    PROVE  \E x \in T : \A y \in T : x <= y
<1>1. PICK x \in T : \A y \in T : ~ (<<y, x>> \in OpToRel(<, Nat))
  BY NatLessThanWellFounded, WFMin
<1>2. \A y \in T : ~ (y < x)
  BY <1>1 DEF OpToRel
<1> QED
  BY <1>2

LEMMA GreatestOf ==
    ASSUME NEW n \in Nat, NEW T \in SUBSET Nat, T # {}, \A i \in T : i <= n
    PROVE  \E i \in T : \A j \in T : j <= i
<1> DEFINE U == {n - i : i \in T}
<1>1. U \in SUBSET Nat /\ U # {}
  <2>1. \A i \in T : i \in Nat /\ n - i \in Nat
    OBVIOUS
  <2> QED
    BY <2>1
<1>2. PICK k \in U : \A y \in U : k <= y
  BY <1>1, LeastOf
<1>3. PICK i \in T : k = n - i
  BY <1>2
<1>4. ASSUME NEW j \in T PROVE j <= i
  <2>1. n - i <= n - j
    BY <1>2, <1>3
  <2> HIDE DEF U
  <2> QED
    BY <2>1
<1> QED
  BY <1>4

LEMMA NewestIsOne ==
    ASSUME NEW n \in Nat, NEW known \in Nat, NEW gens \in SUBSET Nat,
           \A g \in gens \cup {known} : g <= n
    PROVE  /\ Newest(known, gens) \in gens \cup {known}
           /\ \A g \in gens \cup {known} : g <= Newest(known, gens)
<1>1. \E i \in gens \cup {known} : \A j \in gens \cup {known} : j <= i
  BY GreatestOf, gens \cup {known} \in SUBSET Nat
<1> QED
  BY <1>1 DEF Newest
-----------------------------------------------------------------------------
(* A request moves on *)

LEMMA NoneIsEmpty == None \in KeyOrNone /\ DOMAIN None = {} /\ None \in Seen /\ Nothing = None
<1>1. None \in [{} -> Nat]
  BY DEF None
<1>2. [{} -> Nat] \in {[T -> Nat] : T \in SUBSET Scopes}
  OBVIOUS
<1> QED
  BY <1>1, <1>2 DEF None, Nothing, KeyOrNone, Seen

LEMMA KeyDomain ==
    ASSUME NEW key \in KeyOrNone
    PROVE  /\ DOMAIN key \subseteq Scopes
           /\ \A s \in DOMAIN key : key[s] \in Nat
BY NoneIsEmpty DEF KeyOrNone

LEMMA SeenDomain ==
    ASSUME NEW read \in Seen
    PROVE  /\ DOMAIN read \subseteq Scopes
           /\ \A s \in DOMAIN read : read[s] \in Nat
BY DEF Seen

LEMMA NoPolls == 0 \in 0..FollowAttempts
BY CacheAssumption

LEMMA IdleRequest == /\ NoRequest \in Request
                     /\ NoRequest.at = "idle" /\ NoRequest.key = None
                     /\ NoRequest.read = Nothing
BY NoPolls, NoneIsEmpty DEF NoRequest, Request, ReadStages

\* What makes a record fit in beside the others.
Fits(q) ==
    /\ Begun(q) /\ Current(q) /\ Informed(q)
    /\ \A e \in cached : Answers(e, q)
    /\ \A p \in Requests : Answers(req[p], q) /\ Answers(q, req[p])
    /\ Answers(q, q)

\* It does if it has no key, and reads nothing new;
LEMMA WithoutKeyFits ==
    ASSUME NEW q, q.key = None, Informed(q)
    PROVE  Fits(q)
BY NoneIsEmpty DEF Fits, Begun, Current, Answers, Bears

\* if it has what it had, except perhaps for its key;
LEMMA SameFits ==
    ASSUME CacheInv, NEW r \in Requests, NEW q,
           q.read = req[r].read, q.asked = req[r].asked,
           q.key \in {req[r].key, None}
    PROVE  Fits(q)
<1>1. Informed(q)
  BY DEF CacheInv, RequestsFit, Informed
<1>2. CASE q.key = None
  BY <1>1, <1>2, WithoutKeyFits
<1>3. CASE q.key = req[r].key
  <2>1. Begun(q) /\ Current(q)
    BY <1>3 DEF CacheInv, RequestsFit, Begun, Current, Bears
  <2>2. \A e \in cached : Answers(e, q)
    BY <1>3 DEF CacheInv, EntriesFit, Answers, Bears
  <2>3. \A p \in Requests : Answers(req[p], q) /\ Answers(q, req[p])
    BY <1>3 DEF CacheInv, RequestsFit, Answers, Bears
  <2>4. Answers(q, q)
    BY <1>3 DEF CacheInv, RequestsFit, Answers, Bears
  <2> QED
    BY <1>1, <2>1, <2>2, <2>3, <2>4 DEF Fits
<1> QED
  BY <1>2, <1>3

LEMMA RequestStep ==
    ASSUME CacheInv, NEW r \in Requests, NEW q \in Request,
           req' = [req EXCEPT ![r] = q],
           UNCHANGED <<store, version, change, news, changes>>,
           Fits(q), Staged(q), Flights',
           cached' \subseteq Entry,
           \A e \in cached' : \/ e \in cached
                              \/ /\ req[r].at = "store"
                                 /\ e.key = req[r].key /\ e.read = req[r].read,
           locked' \subseteq KeyOrNone, slack' \subseteq KeyOrNone,
           faults' \in 0..MaxFaults
    PROVE  CacheInv'
<1>1. CacheTypeOK'
  <2>1. req' \in [Requests -> Request]
    BY DEF CacheInv, CacheTypeOK
  <2> QED
    BY <2>1 DEF CacheInv, CacheTypeOK, store, news
<1>2. NewsIsTrue'
  BY DEF CacheInv, NewsIsTrue, Written, WrittenRules, store, news
<1>3. Changing'
  BY DEF CacheInv, Changing
<1>a. \A s \in Scopes : Bumped(s)' = Bumped(s)
  BY DEF Bumped, news
<1>b. unbumped' = unbumped /\ version' = version /\ told' = told
  BY DEF news
<1>c. \A p \in Requests : req'[p] = IF p = r THEN q ELSE req[p]
  BY DEF CacheInv, CacheTypeOK
<1>4. EntriesFit'
  <2> SUFFICES ASSUME NEW e \in cached'
               PROVE  /\ e.key # None
                      /\ Begun(e)' /\ Current(e)'
                      /\ \A p \in Requests : Answers(e, req[p])'
    BY DEF EntriesFit
  <2>1. /\ e.key # None
        /\ Begun(e) /\ Current(e)
        /\ \A p \in Requests : Answers(e, req[p])
        /\ Answers(e, q)
    <3>1. CASE e \in cached
      BY <3>1 DEF CacheInv, EntriesFit, Fits
    <3>2. CASE /\ req[r].at = "store"
               /\ e.key = req[r].key /\ e.read = req[r].read
      <4>1. e.key # None
        BY <3>2 DEF CacheInv, RequestsFit, Staged
      <4>2. Begun(e) /\ Current(e)
        BY <3>2 DEF CacheInv, RequestsFit, Begun, Current, Bears
      <4>3. \A p \in Requests : Answers(e, req[p])
        BY <3>2 DEF CacheInv, RequestsFit, Answers, Bears
      <4>4. Answers(e, q)
        BY <3>2 DEF Fits, Answers, Bears
      <4> QED
        BY <4>1, <4>2, <4>3, <4>4
    <3> QED
      BY <3>1, <3>2
  <2>2. Begun(e)'
    BY <2>1, <1>b DEF Begun
  <2>3. Current(e)'
    BY <2>1, <1>a, <1>b DEF Current, Bears
  <2>4. ASSUME NEW p \in Requests PROVE Answers(e, req[p])'
    <3>1. CASE p = r
      BY <3>1, <2>1, <1>b, <1>c DEF Answers, Bears
    <3>2. CASE p # r
      BY <3>2, <2>1, <1>b, <1>c DEF Answers, Bears
    <3> QED
      BY <3>1, <3>2
  <2> QED
    BY <2>1, <2>2, <2>3, <2>4
<1>5. RequestsFit'
  <2> SUFFICES ASSUME NEW p \in Requests
               PROVE  /\ Staged(req[p])' /\ Begun(req[p])'
                      /\ Current(req[p])' /\ Informed(req[p])'
                      /\ \A o \in Requests : Answers(req[p], req[o])'
    BY DEF RequestsFit
  <2> DEFINE x == IF p = r THEN q ELSE req[p]
  <2>1. PICK y : y = x
    OBVIOUS
  <2>2. req'[p] = y
    BY <2>1, <1>c
  <2>3. /\ Staged(y) /\ Begun(y) /\ Current(y) /\ Informed(y)
        /\ \A o \in Requests : Answers(y, req[o])
        /\ Answers(y, q)
    <3>1. CASE p = r
      BY <3>1, <2>1 DEF Fits
    <3>2. CASE p # r
      <4>1. y = req[p]
        BY <3>2, <2>1
      <4> QED
        BY <4>1 DEF CacheInv, RequestsFit, Fits
    <3> QED
      BY <3>1, <3>2
  <2>4. Staged(req[p])'
    BY <2>2, <2>3, <1>b DEF Staged
  <2>5. Begun(req[p])'
    BY <2>2, <2>3, <1>b DEF Begun
  <2>6. Current(req[p])'
    BY <2>2, <2>3, <1>a, <1>b DEF Current, Bears
  <2>7. Informed(req[p])'
    BY <2>2, <2>3, <1>b DEF Informed
  <2>8. ASSUME NEW o \in Requests PROVE Answers(req[p], req[o])'
    <3>1. CASE o = r
      BY <3>1, <2>2, <2>3, <1>b, <1>c DEF Answers, Bears
    <3>2. CASE o # r
      BY <3>2, <2>2, <2>3, <1>b, <1>c DEF Answers, Bears
    <3> QED
      BY <3>1, <3>2
  <2> QED
    BY <2>4, <2>5, <2>6, <2>7, <2>8
<1> QED
  BY <1>1, <1>2, <1>3, <1>4, <1>5 DEF CacheInv
-----------------------------------------------------------------------------
(* One computes *)

\* A request that does not compute, or behind a lock that keeps nobody out.
LEMMA NotFlying ==
    ASSUME CacheInv, NEW r \in Requests, NEW q,
           req' = [req EXCEPT ![r] = q], kind' = kind,
           locked \subseteq locked', slack \subseteq slack',
           \/ q.at \notin {"compute", "store", "unlock"}
           \/ q.key = None \/ q.key \in slack'
    PROVE  Flights'
<1>1. \A p \in Requests : req'[p] = IF p = r THEN q ELSE req[p]
  BY DEF CacheInv, CacheTypeOK
<1>2. ASSUME NEW p \in Requests, Flying(req[p])'
      PROVE  p # r /\ req'[p] = req[p] /\ Flying(req[p])
  BY <1>1, <1>2 DEF Flying
<1> QED
  BY <1>2 DEF CacheInv, Flights

\* One that goes on with what it began.
LEMMA FliesOn ==
    ASSUME CacheInv, NEW r \in Requests, NEW q,
           req' = [req EXCEPT ![r] = q], kind' = kind,
           locked' = locked, slack' = slack,
           req[r].at \in {"compute", "store"},
           q.key \in {req[r].key, None}, q.leader = req[r].leader
    PROVE  Flights'
<1>1. \A p \in Requests : req'[p] = IF p = r THEN q ELSE req[p]
  BY DEF CacheInv, CacheTypeOK
<1>2. ASSUME NEW p \in Requests, Flying(req[p])'
      PROVE  /\ Flying(req[p])
             /\ req'[p].key = req[p].key
             /\ req'[p].leader = req[p].leader
  BY <1>1, <1>2 DEF Flying
<1> QED
  BY <1>2 DEF CacheInv, Flights
-----------------------------------------------------------------------------
(* The steps of a request *)

\* What Goto makes of a request.
LEMMA GotoShape ==
    ASSUME CacheInv, NEW r \in Requests, NEW at \in ReadStages, Goto(r, at)
    PROVE  \E q \in Request :
              /\ req' = [req EXCEPT ![r] = q]
              /\ q.at = at
              /\ at = "idle" => q = NoRequest
              /\ at = "done" => q.key = None /\ q.leader = FALSE
              /\ at \notin {"idle", "done"} => q.key = req[r].key /\ q.leader = req[r].leader
              /\ at # "idle" => /\ q.read = req[r].read /\ q.asked = req[r].asked
<1>1. req[r] \in Request
  BY DEF CacheInv, CacheTypeOK
<1>2. CASE at = "idle"
  <2>1. req' = [req EXCEPT ![r] = NoRequest]
    BY <1>2 DEF Goto
  <2> QED
    BY <1>2, <2>1, IdleRequest
<1>3. CASE at = "done"
  <2>1. PICK q : q = [req[r] EXCEPT !.at = at, !.key = None, !.leader = FALSE, !.polls = 0]
    OBVIOUS
  <2>2. req' = [req EXCEPT ![r] = q]
    BY <1>3, <2>1 DEF Goto
  <2>3. q \in Request /\ q.at = at /\ q.key = None /\ q.leader = FALSE
        /\ q.read = req[r].read /\ q.asked = req[r].asked
    BY <1>1, <2>1, NoneIsEmpty, NoPolls DEF Request
  <2> QED
    BY <1>3, <2>2, <2>3
<1>4. CASE at \notin {"idle", "done"}
  <2>1. PICK q : q = [req[r] EXCEPT !.at = at]
    OBVIOUS
  <2>2. req' = [req EXCEPT ![r] = q]
    BY <1>4, <2>1 DEF Goto
  <2>3. q \in Request /\ q.at = at /\ q.key = req[r].key /\ q.leader = req[r].leader
        /\ q.read = req[r].read /\ q.asked = req[r].asked
    BY <1>1, <2>1 DEF Request
  <2> QED
    BY <1>4, <2>2, <2>3
<1> QED
  BY <1>2, <1>3, <1>4

LEMMA OnwardShape ==
    ASSUME CacheInv, NEW r \in Requests, NEW at \in {"lock", "poll", "compute", "unlock"},
           Goto(r, at)
    PROVE  \E q \in Request :
              /\ req' = [req EXCEPT ![r] = q]
              /\ q.at = at
              /\ q.key = req[r].key /\ q.leader = req[r].leader
              /\ q.read = req[r].read /\ q.asked = req[r].asked
<1>1. at \in ReadStages /\ at \notin {"idle", "done"}
  BY DEF ReadStages
<1>2. PICK q \in Request :
              /\ req' = [req EXCEPT ![r] = q]
              /\ q.at = at
              /\ at = "idle" => q = NoRequest
              /\ at = "done" => q.key = None /\ q.leader = FALSE
              /\ at \notin {"idle", "done"} => q.key = req[r].key /\ q.leader = req[r].leader
              /\ at # "idle" => /\ q.read = req[r].read /\ q.asked = req[r].asked
  BY <1>1, GotoShape
<1> QED
  BY <1>1, <1>2

LEMMA FaultInBounds ==
    ASSUME CacheInv
    PROVE  (faults' = faults \/ Fault) => faults' \in 0..MaxFaults
<1>1. faults \in 0..MaxFaults
  BY DEF CacheInv, CacheTypeOK
<1> QED
  BY <1>1, CacheAssumption DEF Fault

\* A request that goes to a stage where it does not compute.
LEMMA LeaveStep ==
    ASSUME CacheInv, NEW r \in Requests, NEW at \in {"idle", "done"},
           Goto(r, at),
           at = "done" => /\ DOMAIN req[r].read = Scopes
                          /\ req[r].asked \in [Scopes -> Nat]
                          /\ \A s \in Scopes : req[r].asked[s] <= told.scopes[s],
           UNCHANGED <<store, version, change, news, changes>>,
           cached' \subseteq Entry,
           \A e \in cached' : \/ e \in cached
                              \/ /\ req[r].at = "store"
                                 /\ e.key = req[r].key /\ e.read = req[r].read,
           Flights',
           locked' \subseteq KeyOrNone, slack' = slack,
           faults' = faults \/ Fault
    PROVE  CacheInv'
<1>0. at \in ReadStages
  BY DEF ReadStages
<1>1. PICK q \in Request :
              /\ req' = [req EXCEPT ![r] = q]
              /\ q.at = at
              /\ at = "idle" => q = NoRequest
              /\ at = "done" => q.key = None /\ q.leader = FALSE
              /\ at \notin {"idle", "done"} => q.key = req[r].key /\ q.leader = req[r].leader
              /\ at # "idle" => /\ q.read = req[r].read /\ q.asked = req[r].asked
  BY <1>0, GotoShape
<1>2. Fits(q)
  <2>1. CASE at = "idle"
    BY <1>1, <2>1, IdleRequest, NoneIsEmpty, WithoutKeyFits DEF Informed
  <2>2. CASE at = "done"
    BY <1>1, <2>2, SameFits
  <2> QED
    BY <2>1, <2>2
<1>3. Staged(q)
  BY <1>1, IdleRequest DEF Staged
<1>4. slack' \subseteq KeyOrNone
  BY DEF CacheInv, CacheTypeOK
<1> QED
  BY <1>1, <1>2, <1>3, <1>4, FaultInBounds, RequestStep DEF store, news

LEMMA LeaveFlights ==
    ASSUME CacheInv, NEW r \in Requests, NEW at \in {"idle", "done"},
           Goto(r, at), kind' = kind, locked' = locked, slack' = slack
    PROVE  Flights'
<1>0. at \in ReadStages
  BY DEF ReadStages
<1>1. PICK q \in Request : req' = [req EXCEPT ![r] = q] /\ q.at = at
  BY <1>0, GotoShape
<1> QED
  BY <1>1, NotFlying

\* Goto of a stage in between.
LEMMA MoveStep ==
    ASSUME CacheInv, NEW r \in Requests, NEW q \in Request,
           req' = [req EXCEPT ![r] = q],
           q.read = req[r].read, q.asked = req[r].asked,
           q.key \in {req[r].key, None}, 
           Staged(q), Flights',
           UNCHANGED <<store, version, change, news, changes>>,
           cached' \subseteq Entry,
           \A e \in cached' : \/ e \in cached
                              \/ /\ req[r].at = "store"
                                 /\ e.key = req[r].key /\ e.read = req[r].read,
           locked' \subseteq KeyOrNone, slack' \subseteq KeyOrNone,
           faults' = faults \/ Fault
    PROVE  CacheInv'
BY SameFits, FaultInBounds, RequestStep

LEMMA Facts ==
    ASSUME CacheInv, NEW r \in Requests
    PROVE  /\ req[r] \in Request /\ Staged(req[r])
           /\ cached \subseteq Entry
           /\ locked \subseteq KeyOrNone /\ slack \subseteq KeyOrNone
           /\ req[r].key \in KeyOrNone
           /\ told.scopes \in [Scopes -> Nat]
           /\ version \in KeyOrNone
BY DEF CacheInv, CacheTypeOK, RequestsFit, Request, KeyOrNone

LEMMA ReadRulesStep ==
    ASSUME CacheInv, NEW r \in Requests, ReadRules(r)
    PROVE  CacheInv'
<1>1. PICK q : q = [NoRequest EXCEPT !.at = "versions", !.rules = rules,
                                     !.asked = told.scopes, !.askedRules = told.rules]
  OBVIOUS
<1>2. req' = [req EXCEPT ![r] = q]
  BY <1>1 DEF ReadRules
<1>3. /\ q \in Request /\ q.at = "versions" /\ q.key = None /\ q.read = Nothing
      /\ q.asked = told.scopes
  <2>1. rules \in Nat /\ told.rules \in Nat /\ told.scopes \in [Scopes -> Nat]
    BY DEF CacheInv, CacheTypeOK
  <2> QED
    BY <1>1, <2>1, IdleRequest DEF Request, ReadStages
<1>4. Fits(q)
  BY <1>3, WithoutKeyFits, NoneIsEmpty DEF Informed
<1>5. Staged(q)
  BY <1>3, Facts DEF Staged
<1>6. Flights'
  BY <1>2, <1>3, NotFlying DEF ReadRules, store, redis, news
<1> QED
  BY <1>2, <1>3, <1>4, <1>5, <1>6, Facts, FaultInBounds, RequestStep
     DEF ReadRules, store, redis, news, bounds

LEMMA ReadVersionsStep ==
    ASSUME CacheInv, NEW r \in Requests, ReadVersions(r)
    PROVE  CacheInv'
<1>1. PICK q : q = [req[r] EXCEPT !.at = "lookup", !.key = version]
  OBVIOUS
<1>2. req' = [req EXCEPT ![r] = q]
  BY <1>1, Zenon DEF ReadVersions
<1>3. /\ q \in Request /\ q.at = "lookup" /\ q.key = version /\ q.read = Nothing
      /\ q.asked = req[r].asked
  BY <1>1, Facts DEF Request, ReadStages, ReadVersions, Staged
<1>4. Staged(q)
  BY <1>3, Facts DEF Staged, ReadVersions, CacheInv, CacheTypeOK
<1>5. Fits(q)
  <2>0. version \in [Scopes -> Nat] /\ told.scopes \in [Scopes -> Nat]
    BY DEF CacheInv, CacheTypeOK
  <2>1. Begun(q)
    BY <1>3, <2>0 DEF Begun
  <2>2. Current(q) /\ Informed(q) /\ Answers(q, q) /\ \A p \in Requests : Answers(q, req[p])
    BY <1>3, NoneIsEmpty DEF Current, Informed, Answers, Bears
  <2>3. ASSUME NEW s \in Scopes PROVE q.asked[s] <= told.scopes[s] /\ q.asked[s] \in Nat
    BY <1>3, <1>4 DEF Staged
  <2>4. \A s \in Scopes : told.scopes[s] \in Bumped(s)
    BY DEF Bumped
  <2>5. ASSUME NEW x, Current(x), \A s \in DOMAIN x.read : x.read[s] \in Nat
        PROVE  Answers(x, q)
    <3> SUFFICES ASSUME NEW s \in Scopes \ unbumped,
                        Bears(x, s), x.key[s] = version[s]
                 PROVE  q.asked[s] <= x.read[s]
      BY <1>3 DEF Answers
    <3>1. told.scopes[s] <= x.read[s]
      BY <2>5, <2>4 DEF Current
    <3>2. x.read[s] \in Nat /\ told.scopes[s] \in Nat
      BY <2>5, <2>0 DEF Bears
    <3> QED
      BY <2>3, <3>1, <3>2
  <2>6. \A e \in cached : Answers(e, q)
    BY <2>5, Facts DEF CacheInv, EntriesFit, Entry
  <2>7. \A p \in Requests : Answers(req[p], q)
    BY <2>5, Facts, SeenDomain DEF CacheInv, RequestsFit, Request
  <2> QED
    BY <2>1, <2>2, <2>6, <2>7 DEF Fits
<1>6. Flights'
  BY <1>2, <1>3, NotFlying DEF ReadVersions, store, redis, news
<1> QED
  BY <1>2, <1>3, <1>4, <1>5, <1>6, Facts, FaultInBounds, RequestStep
     DEF ReadVersions, store, redis, news, bounds

\* A result is found under the key.
LEMMA HitStep ==
    ASSUME CacheInv, NEW r \in Requests, req[r].at \in {"lookup", "poll"},
           NEW e \in Under(req[r].key),
           req' = [req EXCEPT ![r] = [@ EXCEPT !.at = "done", !.key = None, !.polls = 0,
                                               !.read = e.read, !.rules = e.rules]],
           UNCHANGED <<store, redis, change, news, slack, bounds>>
    PROVE  CacheInv'
<1>0. e \in cached /\ e.key = req[r].key /\ e \in Entry
  BY Facts DEF Under
<1>a. e.read \in Seen /\ DOMAIN e.read = Scopes /\ e.rules \in Nat
  BY <1>0 DEF Entry, Seen
<1>1. PICK q : q = [req[r] EXCEPT !.at = "done", !.key = None, !.polls = 0,
                                  !.read = e.read, !.rules = e.rules]
  OBVIOUS
<1>2. req' = [req EXCEPT ![r] = q]
  BY <1>1, Zenon
<1>3. /\ q \in Request /\ q.at = "done" /\ q.key = None /\ q.read = e.read
      /\ q.asked = req[r].asked
  BY <1>1, <1>a, Facts, NoneIsEmpty, NoPolls DEF Request, ReadStages
<1>4. Staged(q)
  BY <1>3, <1>a, Facts DEF Staged
<1>5. Informed(q)
  <2>1. Answers(e, req[r])
    BY <1>0 DEF CacheInv, EntriesFit
  <2>2. DOMAIN req[r].key = Scopes
    BY Facts DEF Staged
  <2> QED
    BY <1>0, <1>3, <1>a, <2>1, <2>2 DEF Informed, Answers, Bears
<1>6. Flights'
  BY <1>2, <1>3, NotFlying DEF store, redis, news
<1> QED
  BY <1>2, <1>3, <1>4, <1>5, <1>6, WithoutKeyFits, Facts, FaultInBounds, RequestStep
     DEF store, redis, news, bounds

\* A request with a stage in between before it goes on as it is.
LEMMA LookupStep ==
    ASSUME CacheInv, NEW r \in Requests, Lookup(r)
    PROVE  CacheInv'
<1>1. CASE \E e \in Under(req[r].key) :
          req' = [req EXCEPT ![r] = [@ EXCEPT !.at = "done", !.key = None, !.polls = 0,
                                              !.read = e.read, !.rules = e.rules]]
  BY <1>1, HitStep DEF Lookup
<1>2. CASE Goto(r, IF kind = "report" THEN "lock" ELSE "compute")
  <2> DEFINE at == IF kind = "report" THEN "lock" ELSE "compute"
  <2>1. PICK to : to = at
    OBVIOUS
  <2>2. to \in {"lock", "compute"} /\ Goto(r, to)
    BY <1>2, <2>1
  <2>3. PICK q \in Request :
              /\ req' = [req EXCEPT ![r] = q]
              /\ q.at = to
              /\ q.key = req[r].key /\ q.leader = req[r].leader
              /\ q.read = req[r].read /\ q.asked = req[r].asked
    BY <2>2, OnwardShape
  <2>4. Staged(q)
    BY <2>2, <2>3, Facts DEF Staged, Lookup
  <2>5. Flights'
    <3>1. CASE kind = "report"
      <4>1. to = "lock"
        BY <2>1, <3>1
      <4> QED
        BY <2>3, <4>1, NotFlying DEF Lookup, store, redis, news
    <3>2. CASE kind # "report"
      BY <3>2 DEF Flights, Lookup, store
    <3> QED
      BY <3>1, <3>2
  <2> QED
    BY <2>2, <2>3, <2>4, <2>5, Facts, MoveStep DEF Lookup, store, redis, news, bounds
<1> QED
  BY <1>1, <1>2, Zenon DEF Lookup, Hit

LEMMA LookupFailsStep ==
    ASSUME CacheInv, NEW r \in Requests, LookupFails(r)
    PROVE  CacheInv'
<1>1. PICK q : q = [req[r] EXCEPT !.at = "compute", !.key = None]
  OBVIOUS
<1>2. req' = [req EXCEPT ![r] = q]
  BY <1>1, Zenon DEF LookupFails
<1>3. /\ q \in Request /\ q.at = "compute" /\ q.key = None /\ q.read = req[r].read
      /\ q.asked = req[r].asked
  BY <1>1, Facts, NoneIsEmpty DEF Request, ReadStages
<1>4. Staged(q)
  BY <1>3, Facts DEF Staged, LookupFails
<1>5. Flights'
  BY <1>2, <1>3, NotFlying DEF LookupFails, store, redis, news
<1> QED
  BY <1>2, <1>3, <1>4, <1>5, Facts, MoveStep DEF LookupFails, store, redis, news

LEMMA TakeLockStep ==
    ASSUME CacheInv, NEW r \in Requests, TakeLock(r)
    PROVE  CacheInv'
<1>1. CASE req[r].key \in locked
  <2>1. Goto(r, "poll") /\ UNCHANGED locked
    BY <1>1 DEF TakeLock, ReadStages
  <2>2. PICK q \in Request :
              /\ req' = [req EXCEPT ![r] = q]
              /\ q.at = "poll"
              /\ q.key = req[r].key /\ q.leader = req[r].leader
              /\ q.read = req[r].read /\ q.asked = req[r].asked
    BY <2>1, OnwardShape
  <2>3. Staged(q)
    BY <2>2, Facts DEF Staged, TakeLock
  <2>4. Flights'
    BY <2>1, <2>2, NotFlying DEF TakeLock, store, news
  <2> QED
    BY <2>1, <2>2, <2>3, <2>4, Facts, MoveStep DEF TakeLock, store, news, bounds
<1>2. CASE req[r].key \notin locked
  <2>1. PICK q : q = [req[r] EXCEPT !.at = "compute", !.leader = TRUE]
    OBVIOUS
  <2>2. req' = [req EXCEPT ![r] = q] /\ locked' = locked \cup {req[r].key}
    BY <1>2, <2>1, Zenon DEF TakeLock
  <2>3. /\ q \in Request /\ q.at = "compute" /\ q.key = req[r].key /\ q.read = req[r].read
        /\ q.asked = req[r].asked /\ q.leader = TRUE
    BY <2>1, Facts DEF Request, ReadStages
  <2>4. Staged(q)
    BY <2>3, Facts DEF Staged, TakeLock
  <2>5. Flights'
    <3>1. \A p \in Requests : req'[p] = IF p = r THEN q ELSE req[p]
      BY <2>2 DEF CacheInv, CacheTypeOK
    <3>2. slack' = slack /\ kind' = kind
      BY DEF TakeLock, news, store
    <3>3. ASSUME NEW p \in Requests, p # r, Flying(req[p])', kind = "report"
          PROVE  req[p].key # req[r].key
      BY <1>2, <3>1, <3>2, <3>3 DEF CacheInv, Flights, Flying
    <3>4. ASSUME NEW p \in Requests, p # r, Flying(req[p])'
          PROVE  Flying(req[p]) /\ req'[p] = req[p]
      BY <3>1, <3>2, <3>4 DEF Flying
    <3> SUFFICES ASSUME kind = "report", NEW p \in Requests, Flying(req[p])'
                 PROVE  /\ req'[p].leader /\ req'[p].key \in locked'
                        /\ \A o \in Requests :
                              Flying(req[o])' /\ req'[o].key = req'[p].key => o = p
      BY <3>2 DEF Flights
    <3>5. CASE p = r
      BY <3>1, <3>3, <3>5, <2>2, <2>3
    <3>6. CASE p # r
      <4>1. Flying(req[p]) /\ req'[p] = req[p] /\ req[p].key # req[r].key
        BY <3>3, <3>4, <3>6
      <4>2. /\ req[p].leader /\ req[p].key \in locked
            /\ \A o \in Requests : Flying(req[o]) /\ req[o].key = req[p].key => o = p
        BY <4>1 DEF CacheInv, Flights
      <4> QED
        BY <3>1, <3>4, <4>1, <4>2, <2>2, <2>3
    <3> QED
      BY <3>5, <3>6
  <2>6. locked' \subseteq KeyOrNone
    BY <2>2, Facts
  <2> QED
    BY <2>2, <2>3, <2>4, <2>5, <2>6, Facts, MoveStep DEF TakeLock, store, news, bounds
<1> QED
  BY <1>1, <1>2

LEMMA LeadBlindlyStep ==
    ASSUME CacheInv, NEW r \in Requests, LeadBlindly(r)
    PROVE  CacheInv'
<1>1. PICK q : q = [req[r] EXCEPT !.at = "compute", !.leader = TRUE]
  OBVIOUS
<1>2. req' = [req EXCEPT ![r] = q] /\ slack' = slack \cup {req[r].key}
  BY <1>1, Zenon DEF LeadBlindly
<1>3. /\ q \in Request /\ q.at = "compute" /\ q.key = req[r].key /\ q.read = req[r].read
      /\ q.asked = req[r].asked
  BY <1>1, Facts DEF Request, ReadStages
<1>4. Staged(q)
  BY <1>3, Facts DEF Staged, LeadBlindly
<1>5. Flights'
  BY <1>2, <1>3, NotFlying DEF LeadBlindly, store, redis, news
<1>6. slack' \subseteq KeyOrNone
  BY <1>2, Facts
<1> QED
  BY <1>2, <1>3, <1>4, <1>5, <1>6, Facts, MoveStep DEF LeadBlindly, store, redis, news

LEMMA PollStep ==
    ASSUME CacheInv, NEW r \in Requests, Poll(r)
    PROVE  CacheInv'
<1>1. CASE req[r].polls >= FollowAttempts
  <2>1. Goto(r, "compute") /\ slack' = slack \cup {req[r].key}
    BY <1>1 DEF Poll, ReadStages
  <2>2. PICK q \in Request :
              /\ req' = [req EXCEPT ![r] = q]
              /\ q.at = "compute"
              /\ q.key = req[r].key /\ q.leader = req[r].leader
              /\ q.read = req[r].read /\ q.asked = req[r].asked
    BY <2>1, OnwardShape
  <2>3. Staged(q)
    BY <2>2, Facts DEF Staged, Poll
  <2>4. Flights'
    BY <2>1, <2>2, NotFlying DEF Poll, store, redis, news
  <2>5. slack' \subseteq KeyOrNone
    BY <2>1, Facts
  <2> QED
    BY <2>1, <2>2, <2>3, <2>4, <2>5, Facts, MoveStep DEF Poll, store, redis, news, bounds
<1>2. CASE ~(req[r].polls >= FollowAttempts)
  <2>0. slack' = slack
    BY <1>2 DEF Poll
  <2>1. CASE \E e \in Under(req[r].key) :
          req' = [req EXCEPT ![r] = [@ EXCEPT !.at = "done", !.key = None, !.polls = 0,
                                              !.read = e.read, !.rules = e.rules]]
    BY <2>0, <2>1, HitStep DEF Poll
  <2>2. CASE req' = [req EXCEPT ![r].polls = @ + 1]
    <3>1. PICK q : q = [req[r] EXCEPT !.polls = @ + 1]
      OBVIOUS
    <3>2. req' = [req EXCEPT ![r] = q]
      BY <2>2, <3>1, Zenon
    <3>3. req[r].polls \in 0..FollowAttempts /\ req[r].polls + 1 \in 0..FollowAttempts
      BY <1>2, Facts, CacheAssumption DEF Request
    <3>4. /\ q \in Request /\ q.at = "poll" /\ q.key = req[r].key /\ q.read = req[r].read
          /\ q.asked = req[r].asked
      BY <3>1, <3>3, Facts DEF Request, Poll
    <3>5. Staged(q)
      BY <3>4, Facts DEF Staged, Poll
    <3>6. Flights'
      BY <2>0, <3>2, <3>4, NotFlying DEF Poll, store, redis, news
    <3> QED
      BY <2>0, <3>2, <3>4, <3>5, <3>6, Facts, MoveStep DEF Poll, store, redis, news, bounds
  <2> QED
    BY <1>2, <2>1, <2>2, Zenon DEF Poll, Hit
<1> QED
  BY <1>1, <1>2

\* What a query returns has all that was announced.
LEMMA QueriesAreNew ==
    ASSUME CacheInv, NEW s \in Scopes
    PROVE  /\ db[s] \in Nat
           /\ \A n \in Bumped(s) : n <= db[s]
           /\ \A p \in Requests : req[p].at # "idle" => req[p].asked[s] <= db[s]
<1>1. db[s] \in Nat /\ told.scopes[s] \in Nat
  BY DEF CacheInv, CacheTypeOK
<1>2. \A n \in Written(s) : n <= db[s]
  BY DEF CacheInv, NewsIsTrue
<1>3. Bumped(s) \subseteq Written(s)
  BY DEF Bumped, Written
<1>4. told.scopes[s] <= db[s]
  BY <1>2 DEF Written
<1>5. ASSUME NEW p \in Requests, req[p].at # "idle" PROVE req[p].asked[s] <= db[s]
  <2>1. req[p].asked[s] \in Nat /\ req[p].asked[s] <= told.scopes[s]
    BY <1>5, Facts DEF Staged
  <2> QED
    BY <1>1, <1>4, <2>1
<1> QED
  BY <1>1, <1>2, <1>3, <1>5

LEMMA QueryStep ==
    ASSUME CacheInv, NEW r \in Requests, NEW s \in Scopes, Query(r, s)
    PROVE  CacheInv'
<1> DEFINE seen == DOMAIN req[r].read \cup {s}
           stage == IF seen = Scopes THEN Finish(r) ELSE "compute"
<1>0. PICK read, at : /\ read = [t \in seen |-> IF t = s THEN db[s] ELSE req[r].read[t]]
                      /\ at = stage
  OBVIOUS
<1>1. PICK q : q = [req[r] EXCEPT !.read = read, !.at = at]
  OBVIOUS
<1>2. req' = [req EXCEPT ![r] = q]
  BY <1>0, <1>1, Zenon DEF Query
<1>a. /\ req[r] \in Request /\ req[r].at = "compute"
      /\ DOMAIN req[r].read \subseteq Scopes
      /\ \A t \in DOMAIN req[r].read : req[r].read[t] \in Nat
      /\ req[r].asked \in [Scopes -> Nat]
      /\ \A t \in Scopes : req[r].asked[t] <= told.scopes[t]
  <2>1. req[r] \in Request /\ req[r].at = "compute" /\ req[r].read \in Seen
    BY Facts DEF Query, Request
  <2> QED
    BY <2>1, Facts, SeenDomain DEF Staged
<1>b. db[s] \in Nat
  BY QueriesAreNew
<1>c. /\ seen \subseteq Scopes /\ DOMAIN read = seen
      /\ read[s] = db[s]
      /\ \A t \in DOMAIN req[r].read : t # s => read[t] = req[r].read[t]
  BY <1>a, <1>0
<1>d. read \in Seen
  <2>1. read \in [seen -> Nat]
    BY <1>a, <1>b, <1>0
  <2> HIDE DEF seen
  <2> QED
    BY <1>c, <2>1 DEF Seen
<1>e. at \in {"compute", "store", "done"}
  BY <1>0 DEF Finish
<1>3. /\ q \in Request /\ q.at = at /\ q.key = req[r].key /\ q.read = read
      /\ q.asked = req[r].asked /\ q.leader = req[r].leader
  BY <1>1, <1>a, <1>d, <1>e DEF Request, ReadStages
<1>4. Staged(q)
  <2>1. at = "store" => req[r].key # None /\ seen = Scopes
    BY <1>0 DEF Finish
  <2>2. at = "done" => req[r].key = None /\ seen = Scopes
    BY <1>0 DEF Finish
  <2> HIDE DEF seen
  <2> QED
    BY <1>a, <1>c, <1>e, <1>3, <2>1, <2>2 DEF Staged
<1>f. \A t \in DOMAIN read : \/ t = s /\ read[t] = db[s]
                             \/ t \in DOMAIN req[r].read /\ read[t] = req[r].read[t]
  BY <1>c
<1>5. Fits(q)
  <2> HIDE DEF seen
  <2>1. Begun(q)
    BY <1>3 DEF CacheInv, RequestsFit, Begun
  <2>2. Informed(q)
    <3> SUFFICES ASSUME NEW t \in Scopes \ unbumped, t \in DOMAIN read
                 PROVE  req[r].asked[t] <= read[t]
      BY <1>3 DEF Informed
    <3>1. CASE t = s /\ read[t] = db[s]
      BY <3>1, <1>a, QueriesAreNew
    <3>2. CASE t \in DOMAIN req[r].read /\ read[t] = req[r].read[t]
      BY <3>2 DEF CacheInv, RequestsFit, Informed
    <3> QED
      BY <1>f, <3>1, <3>2
  <2>3. Current(q)
    <3> SUFFICES ASSUME NEW t \in Scopes \ unbumped, t \in DOMAIN read, t \in DOMAIN q.key,
                        q.key[t] = version[t], NEW n \in Bumped(t)
                 PROVE  n <= read[t]
      BY <1>3 DEF Current, Bears
    <3>1. CASE t = s /\ read[t] = db[s]
      BY <3>1, QueriesAreNew
    <3>2. CASE t \in DOMAIN req[r].read /\ read[t] = req[r].read[t]
      BY <3>2, <1>3 DEF CacheInv, RequestsFit, Current, Bears
    <3> QED
      BY <1>f, <3>1, <3>2
  <2>4. \A e \in cached : Answers(e, q)
    BY <1>3 DEF CacheInv, EntriesFit, Answers, Bears
  <2>5. \A p \in Requests : Answers(req[p], q)
    BY <1>3 DEF CacheInv, RequestsFit, Answers, Bears
  <2>6. ASSUME NEW p \in Requests PROVE Answers(q, req[p])
    <3> SUFFICES ASSUME NEW t \in Scopes \ unbumped, t \in DOMAIN read, t \in DOMAIN q.key,
                        t \in DOMAIN req[p].key, q.key[t] = req[p].key[t]
                 PROVE  req[p].asked[t] <= read[t]
      BY <1>3 DEF Answers, Bears
    <3>1. CASE t = s /\ read[t] = db[s]
      <4>1. req[p].at # "idle"
        BY Facts, NoneIsEmpty DEF Staged
      <4> QED
        BY <3>1, <4>1, QueriesAreNew
    <3>2. CASE t \in DOMAIN req[r].read /\ read[t] = req[r].read[t]
      BY <3>2, <1>3 DEF CacheInv, RequestsFit, Answers, Bears
    <3> QED
      BY <1>f, <3>1, <3>2
  <2>7. Answers(q, q)
    BY <1>3, <2>2 DEF Informed, Answers, Bears
  <2> QED
    BY <2>1, <2>2, <2>3, <2>4, <2>5, <2>6, <2>7 DEF Fits
<1>6. Flights'
  BY <1>2, <1>3, <1>a, FliesOn DEF Query, store, redis, news
<1> QED
  BY <1>2, <1>3, <1>4, <1>5, <1>6, Facts, FaultInBounds, RequestStep
     DEF Query, store, redis, news, bounds

\* A request that lets go of the lock is next, or one that is over.
LEMMA UnlockNextStep ==
    ASSUME CacheInv, NEW r \in Requests, Goto(r, "unlock"),
           req[r].at \in {"compute", "store"},
           UNCHANGED <<store, version, locked, change, news, slack, changes>>,
           cached' \subseteq Entry,
           \A e \in cached' : \/ e \in cached
                              \/ /\ req[r].at = "store"
                                 /\ e.key = req[r].key /\ e.read = req[r].read,
           faults' = faults \/ Fault
    PROVE  CacheInv'
<1>1. PICK q \in Request :
              /\ req' = [req EXCEPT ![r] = q]
              /\ q.at = "unlock"
              /\ q.key = req[r].key /\ q.leader = req[r].leader
              /\ q.read = req[r].read /\ q.asked = req[r].asked
  BY OnwardShape
<1>2. Staged(q)
  BY <1>1, Facts DEF Staged
<1>3. Flights'
  BY <1>1, FliesOn DEF store, news
<1> QED
  BY <1>1, <1>2, <1>3, Facts, MoveStep DEF store, news

LEMMA QueryFailsStep ==
    ASSUME CacheInv, NEW r \in Requests, QueryFails(r)
    PROVE  CacheInv'
<1>1. CASE req[r].leader
  BY <1>1, Facts, UnlockNextStep DEF QueryFails, store, redis, news
<1>2. CASE ~req[r].leader
  BY <1>2, Facts, LeaveFlights, LeaveStep DEF QueryFails, store, redis, news
<1> QED
  BY <1>1, <1>2

LEMMA StoreStep ==
    ASSUME CacheInv, NEW r \in Requests, Store(r)
    PROVE  CacheInv'
<1>1. PICK e : e = [key |-> req[r].key, read |-> req[r].read, rules |-> req[r].rules]
  OBVIOUS
<1>2. cached' = (cached \ Under(req[r].key)) \cup {e}
  BY <1>1 DEF Store
<1>3. /\ DOMAIN req[r].read = Scopes /\ req[r].at = "store"
      /\ req[r].asked \in [Scopes -> Nat]
      /\ \A s \in Scopes : req[r].asked[s] <= told.scopes[s]
  BY Facts DEF Store, Staged
<1>4. e \in Entry /\ e.key = req[r].key /\ e.read = req[r].read
  <2>1. req[r].key \in KeyOrNone /\ req[r].rules \in Nat /\ req[r].read \in Seen
    BY Facts DEF Request
  <2>2. req[r].read \in [Scopes -> Nat]
    BY <1>3, <2>1 DEF Seen
  <2> QED
    BY <1>1, <2>1, <2>2 DEF Entry
<1>5. cached' \subseteq Entry /\ \A x \in cached' : x \in cached \/ x = e
  BY <1>2, <1>4, Facts
<1>6. CASE req[r].leader
  BY <1>3, <1>4, <1>5, <1>6, UnlockNextStep DEF Store, store, news, bounds
<1>7. CASE ~req[r].leader
  BY <1>3, <1>4, <1>5, <1>7, Facts, LeaveFlights, LeaveStep DEF Store, store, news, bounds
<1> QED
  BY <1>6, <1>7

LEMMA StoreFailsStep ==
    ASSUME CacheInv, NEW r \in Requests, StoreFails(r)
    PROVE  CacheInv'
<1>1. /\ DOMAIN req[r].read = Scopes /\ req[r].at = "store"
      /\ req[r].asked \in [Scopes -> Nat]
      /\ \A s \in Scopes : req[r].asked[s] <= told.scopes[s]
  BY Facts DEF StoreFails, Staged
<1>2. CASE req[r].leader
  BY <1>1, <1>2, Facts, UnlockNextStep DEF StoreFails, store, redis, news
<1>3. CASE ~req[r].leader
  BY <1>1, <1>3, Facts, LeaveFlights, LeaveStep DEF StoreFails, store, redis, news
<1> QED
  BY <1>2, <1>3

\* Where a request goes that is through.
LEMMA AnsweredIsOver ==
    ASSUME CacheInv, NEW r \in Requests, req[r].at = "unlock"
    PROVE  /\ Answered(r) \in {"idle", "done"}
           /\ Answered(r) = "done" => /\ DOMAIN req[r].read = Scopes
                                      /\ req[r].asked \in [Scopes -> Nat]
                                      /\ \A s \in Scopes : req[r].asked[s] <= told.scopes[s]
BY Facts DEF Answered, Staged

LEMMA UnlockStep ==
    ASSUME CacheInv, NEW r \in Requests, Unlock(r)
    PROVE  CacheInv'
<1>1. PICK at : at = Answered(r)
  OBVIOUS
<1>2. /\ at \in {"idle", "done"} /\ Goto(r, at)
      /\ at = "done" => /\ DOMAIN req[r].read = Scopes
                        /\ req[r].asked \in [Scopes -> Nat]
                        /\ \A s \in Scopes : req[r].asked[s] <= told.scopes[s]
  BY <1>1, AnsweredIsOver DEF Unlock
<1>3. at \in ReadStages
  BY <1>2 DEF ReadStages
<1>4. PICK q \in Request :
              /\ req' = [req EXCEPT ![r] = q]
              /\ q.at = at
              /\ at = "idle" => q = NoRequest
              /\ at = "done" => q.key = None /\ q.leader = FALSE
              /\ at \notin {"idle", "done"} => q.key = req[r].key /\ q.leader = req[r].leader
              /\ at # "idle" => /\ q.read = req[r].read /\ q.asked = req[r].asked
  BY <1>2, <1>3, GotoShape
<1>5. Flights'
  <2>1. \A p \in Requests : req'[p] = IF p = r THEN q ELSE req[p]
    BY <1>4 DEF CacheInv, CacheTypeOK
  <2>2. slack' = slack /\ kind' = kind /\ locked' = locked \ {req[r].key}
    BY DEF Unlock, news, store
  <2>3. ASSUME NEW p \in Requests, Flying(req[p])'
        PROVE  p # r /\ Flying(req[p]) /\ req'[p] = req[p]
    BY <1>2, <1>4, <2>1, <2>2, <2>3 DEF Flying
  <2>4. ASSUME kind = "report", NEW p \in Requests, Flying(req[p])'
        PROVE  req[p].key # req[r].key
    <3>1. p # r /\ Flying(req[p])
      BY <2>3, <2>4
    <3>2. req[p].key = req[r].key => Flying(req[r])
      BY <3>1 DEF Flying, Unlock
    <3> QED
      BY <2>4, <3>1, <3>2 DEF CacheInv, Flights
  <2> QED
    BY <2>2, <2>3, <2>4 DEF CacheInv, Flights
<1>6. locked' \subseteq KeyOrNone
  BY Facts DEF Unlock
<1> QED
  BY <1>2, <1>5, <1>6, Facts, LeaveStep DEF Unlock, store, news, bounds

LEMMA UnlockFailsStep ==
    ASSUME CacheInv, NEW r \in Requests, UnlockFails(r)
    PROVE  CacheInv'
<1>1. PICK at : at = Answered(r)
  OBVIOUS
<1>2. /\ at \in {"idle", "done"} /\ Goto(r, at)
      /\ at = "done" => /\ DOMAIN req[r].read = Scopes
                        /\ req[r].asked \in [Scopes -> Nat]
                        /\ \A s \in Scopes : req[r].asked[s] <= told.scopes[s]
  BY <1>1, AnsweredIsOver DEF UnlockFails
<1> QED
  BY <1>2, Facts, LeaveFlights, LeaveStep DEF UnlockFails, store, redis, news

LEMMA ReturnStep ==
    ASSUME CacheInv, NEW r \in Requests, Respond(r)
    PROVE  CacheInv'
BY Facts, LeaveFlights, LeaveStep DEF Respond, store, redis, news, bounds

LEMMA DieStep ==
    ASSUME CacheInv, NEW r \in Requests, Die(r)
    PROVE  CacheInv'
BY Facts, LeaveFlights, LeaveStep DEF Die, store, redis, news
-----------------------------------------------------------------------------
(* The steps of a change *)

\* Nothing that was read is out of date by a change that is not bumped.
LEMMA NewsStep ==
    ASSUME CacheInv, UNCHANGED <<kind, redis, req, slack>>,
           unbumped \subseteq unbumped',
           told' \in [scopes: [Scopes -> Nat], rules: Nat],
           \A s \in Scopes : told.scopes[s] <= told'.scopes[s],
           \A s \in Scopes \ unbumped' : \A n \in Bumped(s)' : n \in Bumped(s)
    PROVE  EntriesFit' /\ RequestsFit' /\ Flights'
<1>1. version' = version /\ cached' = cached /\ req' = req /\ locked' = locked
  BY DEF redis
<1>2. \A x : Begun(x)' <=> Begun(x)
  BY <1>1 DEF Begun
<1>3. \A x : Current(x) => Current(x)'
  BY <1>1 DEF Current, Bears
<1>4. \A x, q : Answers(x, q) => Answers(x, q)'
  BY DEF Answers, Bears
<1>5. \A q : Informed(q) => Informed(q)'
  BY DEF Informed
<1>6. ASSUME NEW r \in Requests PROVE Staged(req[r])'
  <2>1. told.scopes \in [Scopes -> Nat] /\ told'.scopes \in [Scopes -> Nat]
    BY Facts
  <2>2. Staged(req[r])
    BY Facts
  <2>3. ASSUME req[r].at # "idle", NEW s \in Scopes PROVE req[r].asked[s] <= told'.scopes[s]
    <3>1. req[r].asked[s] \in Nat /\ req[r].asked[s] <= told.scopes[s]
      BY <2>2, <2>3 DEF Staged
    <3>2. told.scopes[s] \in Nat /\ told'.scopes[s] \in Nat
      BY <2>1
    <3> QED
      BY <3>1, <3>2
  <2> QED
    BY <1>1, <2>2, <2>3 DEF Staged
<1>7. EntriesFit'
  <2> SUFFICES ASSUME NEW e \in cached
               PROVE  /\ e.key # None
                      /\ Begun(e)' /\ Current(e)'
                      /\ \A q \in Requests : Answers(e, req[q])'
    BY <1>1 DEF EntriesFit
  <2>1. /\ e.key # None /\ Begun(e) /\ Current(e)
        /\ \A q \in Requests : Answers(e, req[q])
    BY DEF CacheInv, EntriesFit
  <2>2. ASSUME NEW q \in Requests PROVE Answers(e, req[q])'
    BY <2>1, <1>1 DEF Answers, Bears
  <2> QED
    BY <2>1, <2>2, <1>2, <1>3
<1>8. RequestsFit'
  <2> SUFFICES ASSUME NEW r \in Requests
               PROVE  /\ Staged(req[r])' /\ Begun(req[r])'
                      /\ Current(req[r])' /\ Informed(req[r])'
                      /\ \A q \in Requests : Answers(req[r], req[q])'
    BY DEF RequestsFit
  <2>1. /\ Begun(req[r]) /\ Current(req[r]) /\ Informed(req[r])
        /\ \A q \in Requests : Answers(req[r], req[q])
    BY DEF CacheInv, RequestsFit
  <2>2. Begun(req[r])'
    BY <2>1, <1>1 DEF Begun
  <2>3. Current(req[r])'
    BY <2>1, <1>1 DEF Current, Bears
  <2>4. Informed(req[r])'
    BY <2>1, <1>1 DEF Informed
  <2>5. ASSUME NEW q \in Requests PROVE Answers(req[r], req[q])'
    BY <2>1, <1>1 DEF Answers, Bears
  <2> QED
    BY <1>6, <2>2, <2>3, <2>4, <2>5
<1>9. Flights'
  BY <1>1 DEF CacheInv, Flights, Flying
<1> QED
  BY <1>7, <1>8, <1>9

LEMMA ChangeFacts ==
    ASSUME CacheInv, NEW w \in Writers
    PROVE  /\ change[w] \in ChangeRecord
           /\ change \in [Writers -> ChangeRecord]
           /\ change[w].left \subseteq change[w].of
           /\ change[w].at = "signal" => change[w].left = {}
           /\ change[w].at = "idle" => change[w].of = {}
BY DEF CacheInv, CacheTypeOK, Changing

LEMMA SameNews ==
    ASSUME CacheInv, told' = told
    PROVE  /\ told' \in [scopes: [Scopes -> Nat], rules: Nat]
           /\ \A s \in Scopes : told.scopes[s] <= told'.scopes[s]
BY DEF CacheInv, CacheTypeOK

LEMMA WriteDataStep ==
    ASSUME CacheInv, NEW w \in Writers, NEW s \in Scopes, WriteData(w, s)
    PROVE  CacheInv'
<1>1. PICK c : c = [at |-> "bump", left |-> {s}, of |-> {s}, rules |-> FALSE, gen |-> db[s] + 1]
  OBVIOUS
<1>2. /\ change' = [change EXCEPT ![w] = c]
      /\ db' = [db EXCEPT ![s] = @ + 1]
      /\ db \in [Scopes -> Nat] /\ db' \in [Scopes -> Nat]
      /\ db'[s] = db[s] + 1 /\ \A t \in Scopes : t # s => db'[t] = db[t]
      /\ changes' \in 0..MaxChanges
  <2>1. db \in [Scopes -> Nat] /\ changes \in 0..MaxChanges
    BY DEF CacheInv, CacheTypeOK
  <2>2. db' = [db EXCEPT ![s] = @ + 1]
    BY DEF WriteData
  <2>3. changes' \in 0..MaxChanges
    BY <2>1, CacheAssumption DEF WriteData
  <2> QED
    BY <1>1, <2>1, <2>2, <2>3 DEF WriteData
<1>3. c \in ChangeRecord /\ c.left = {s} /\ c.of = {s} /\ ~c.rules /\ c.gen = db'[s] /\ c.at = "bump"
  BY <1>1, <1>2 DEF ChangeRecord
<1>4. /\ change' \in [Writers -> ChangeRecord] /\ change'[w] = c
      /\ \A v \in Writers : v # w => change'[v] = change[v]
      /\ change[w].of = {}
  BY <1>2, <1>3, ChangeFacts DEF WriteData
<1>5. CacheTypeOK'
  BY <1>2, <1>4 DEF CacheInv, CacheTypeOK, WriteData, redis, news
<1>6. NewsIsTrue'
  <2>1. ASSUME NEW t \in Scopes, NEW n \in Written(t)' PROVE n \in Written(t) \/ n = db'[t]
    BY <1>3, <1>4 DEF Written, WriteData, news
  <2>2. ASSUME NEW t \in Scopes PROVE db[t] <= db'[t] /\ db[t] \in Nat /\ db'[t] \in Nat
    BY <1>2
  <2>3. ASSUME NEW t \in Scopes, NEW n \in Written(t) PROVE n \in Nat /\ n <= db[t]
    <3>1. n \in Nat
      BY DEF Written, CacheInv, CacheTypeOK, Announcement, ChangeRecord
    <3> QED
      BY <3>1 DEF CacheInv, NewsIsTrue
  <2>4. ASSUME NEW t \in Scopes, NEW n \in Written(t)' PROVE n <= db'[t]
    BY <2>1, <2>2, <2>3
  <2>5. \A n \in WrittenRules' : n \in WrittenRules
    BY <1>3, <1>4 DEF WrittenRules, WriteData, news
  <2>6. rules' = rules
    BY DEF WriteData
  <2> QED
    BY <2>4, <2>5, <2>6 DEF CacheInv, NewsIsTrue
<1>7. Changing'
  BY <1>3, <1>4 DEF CacheInv, Changing
<1>8. \A t \in Scopes : \A n \in Bumped(t)' : n \in Bumped(t)
  BY <1>3, <1>4 DEF Bumped, WriteData, news
<1> QED
  BY <1>5, <1>6, <1>7, <1>8, NewsStep, SameNews DEF CacheInv, WriteData, news

LEMMA WriteRulesStep ==
    ASSUME CacheInv, NEW w \in Writers, WriteRules(w)
    PROVE  CacheInv'
<1>1. PICK c : c = [at |-> "bump", left |-> RuleScopes, of |-> RuleScopes, rules |-> TRUE,
                    gen |-> rules + 1]
  OBVIOUS
<1>2. /\ change' = [change EXCEPT ![w] = c]
      /\ rules \in Nat /\ rules' = rules + 1
      /\ changes' \in 0..MaxChanges
  <2>1. rules \in Nat /\ changes \in 0..MaxChanges
    BY DEF CacheInv, CacheTypeOK
  <2>2. changes' \in 0..MaxChanges
    BY <2>1, CacheAssumption DEF WriteRules
  <2> QED
    BY <1>1, <2>1, <2>2 DEF WriteRules
<1>3. /\ c \in ChangeRecord /\ c.left = RuleScopes /\ c.of = RuleScopes /\ c.rules
      /\ c.gen = rules' /\ c.at = "bump"
  BY <1>1, <1>2, CacheAssumption DEF ChangeRecord
<1>4. /\ change' \in [Writers -> ChangeRecord] /\ change'[w] = c
      /\ \A v \in Writers : v # w => change'[v] = change[v]
      /\ change[w].of = {}
  BY <1>2, <1>3, ChangeFacts DEF WriteRules
<1>5. CacheTypeOK'
  BY <1>2, <1>4 DEF CacheInv, CacheTypeOK, WriteRules, redis, news
<1>6. NewsIsTrue'
  <2>1. \A t \in Scopes : \A n \in Written(t)' : n \in Written(t)
    BY <1>3, <1>4 DEF Written, WriteRules, news
  <2>2. db' = db
    BY DEF WriteRules
  <2>3. ASSUME NEW n \in WrittenRules' PROVE n \in WrittenRules \/ n = rules'
    BY <1>3, <1>4 DEF WrittenRules, WriteRules, news
  <2>4. ASSUME NEW n \in WrittenRules PROVE n \in Nat /\ n <= rules
    <3>1. n \in Nat
      BY DEF WrittenRules, CacheInv, CacheTypeOK, Announcement, ChangeRecord
    <3> QED
      BY <3>1 DEF CacheInv, NewsIsTrue
  <2>5. ASSUME NEW n \in WrittenRules' PROVE n <= rules'
    BY <2>3, <2>4, <1>2
  <2> QED
    BY <2>1, <2>2, <2>5 DEF CacheInv, NewsIsTrue
<1>7. Changing'
  BY <1>3, <1>4 DEF CacheInv, Changing
<1>8. \A t \in Scopes : \A n \in Bumped(t)' : n \in Bumped(t)
  BY <1>3, <1>4 DEF Bumped, WriteRules, news
<1> QED
  BY <1>5, <1>6, <1>7, <1>8, NewsStep, SameNews DEF CacheInv, WriteRules, news

LEMMA BumpStep ==
    ASSUME CacheInv, NEW w \in Writers, NEW s \in Scopes, Bump(w, s)
    PROVE  CacheInv'
<1>1. PICK at : at = IF change[w].left = {s} THEN "signal" ELSE "bump"
  OBVIOUS
<1>2. PICK c : c = [change[w] EXCEPT !.left = @ \ {s}, !.at = at]
  OBVIOUS
<1>3. change' = [change EXCEPT ![w] = c]
  BY <1>1, <1>2, Zenon DEF Bump
<1>4. /\ c \in ChangeRecord /\ c.left = change[w].left \ {s} /\ c.of = change[w].of
      /\ c.rules = change[w].rules /\ c.gen = change[w].gen /\ c.at = at
  BY <1>1, <1>2, ChangeFacts DEF ChangeRecord
<1>5. /\ change' \in [Writers -> ChangeRecord] /\ change'[w] = c
      /\ \A v \in Writers : v # w => change'[v] = change[v]
  BY <1>3, <1>4, ChangeFacts
<1>6. /\ version \in [Scopes -> Nat] /\ version' \in [Scopes -> Nat]
      /\ version'[s] = version[s] + 1
      /\ \A t \in Scopes : t # s => version'[t] = version[t]
  BY DEF CacheInv, CacheTypeOK, Bump
<1>7. /\ UNCHANGED <<store, cached, locked, req, pending, told, unbumped, slack, bounds>>
  BY DEF Bump, news
<1>8. CacheTypeOK'
  BY <1>5, <1>6, <1>7 DEF CacheInv, CacheTypeOK, store, bounds
<1>9. NewsIsTrue'
  <2>1. \A t \in Scopes : \A n \in Written(t)' : n \in Written(t)
    BY <1>4, <1>5, <1>7 DEF Written
  <2>2. \A n \in WrittenRules' : n \in WrittenRules
    BY <1>4, <1>5, <1>7 DEF WrittenRules
  <2> QED
    BY <2>1, <2>2, <1>7 DEF CacheInv, NewsIsTrue, store
<1>10. Changing'
  <2>1. c.left \subseteq c.of
    BY <1>4, ChangeFacts
  <2>2. c.at = "signal" => c.left = {}
    BY <1>1, <1>4
  <2>3. c.at # "idle"
    BY <1>1, <1>4
  <2> QED
    BY <1>5, <2>1, <2>2, <2>3 DEF CacheInv, Changing
<1>11. ASSUME NEW t \in Scopes, t # s, NEW n \in Bumped(t)' PROVE n \in Bumped(t)
  BY <1>4, <1>5, <1>7, <1>11 DEF Bumped
<1>12. ASSUME NEW x, Begun(x), x.key \in KeyOrNone PROVE Begun(x)'
  <2> SUFFICES ASSUME NEW t \in DOMAIN x.key PROVE x.key[t] <= version'[t]
    BY DEF Begun
  <2>1. x.key[t] \in Nat /\ t \in Scopes /\ x.key[t] <= version[t]
    BY <1>12, KeyDomain DEF Begun
  <2> QED
    BY <2>1, <1>6
<1>13. ASSUME NEW x, Begun(x), x.key \in KeyOrNone, Current(x) PROVE Current(x)'
  <2> SUFFICES ASSUME NEW t \in Scopes \ unbumped, Bears(x, t), x.key[t] = version'[t],
                      NEW n \in Bumped(t)'
               PROVE  n <= x.read[t]
    BY <1>7 DEF Current, Bears
  <2>1. t # s
    <3>1. x.key[t] \in Nat /\ x.key[t] <= version[t]
      BY <1>13, KeyDomain DEF Begun, Bears
    <3> QED
      BY <3>1, <1>6
  <2>2. n \in Bumped(t) /\ x.key[t] = version[t]
    BY <2>1, <1>6, <1>11
  <2> QED
    BY <2>2, <1>13 DEF Current
<1>14. EntriesFit'
  <2> SUFFICES ASSUME NEW e \in cached
               PROVE  /\ e.key # None /\ Begun(e)' /\ Current(e)'
                      /\ \A q \in Requests : Answers(e, req[q])'
    BY <1>7 DEF EntriesFit
  <2>1. /\ e.key # None /\ Begun(e) /\ Current(e) /\ e.key \in KeyOrNone
        /\ \A q \in Requests : Answers(e, req[q])
    BY DEF CacheInv, EntriesFit, CacheTypeOK, Entry
  <2>2. ASSUME NEW q \in Requests PROVE Answers(e, req[q])'
    BY <2>1, <1>7 DEF Answers, Bears
  <2> QED
    BY <2>1, <2>2, <1>12, <1>13
<1>15. RequestsFit'
  <2> SUFFICES ASSUME NEW r \in Requests
               PROVE  /\ Staged(req[r])' /\ Begun(req[r])'
                      /\ Current(req[r])' /\ Informed(req[r])'
                      /\ \A q \in Requests : Answers(req[r], req[q])'
    BY DEF RequestsFit
  <2>1. PICK q : q = req[r]
    OBVIOUS
  <2>2. /\ Begun(q) /\ Current(q) /\ Informed(q) /\ Staged(q) /\ q.key \in KeyOrNone
        /\ \A p \in Requests : Answers(q, req[p])
    BY <2>1, Facts DEF CacheInv, RequestsFit
  <2>3. Begun(q)' /\ Current(q)'
    BY <2>2, <1>12, <1>13
  <2>4. Informed(q)' /\ Staged(q)'
    BY <2>2, <1>7 DEF Informed, Staged
  <2>5. ASSUME NEW p \in Requests PROVE Answers(q, req[p])'
    BY <2>2, <1>7 DEF Answers, Bears
  <2>6. req'[r] = q
    BY <2>1, <1>7
  <2> QED
    BY <2>3, <2>4, <2>5, <2>6 DEF Begun, Current, Informed, Staged, Answers, Bears
<1>16. Flights'
  BY <1>7 DEF CacheInv, Flights, Flying, store
<1> QED
  BY <1>8, <1>9, <1>10, <1>14, <1>15, <1>16 DEF CacheInv

LEMMA BumpFailsStep ==
    ASSUME CacheInv, NEW w \in Writers, BumpFails(w)
    PROVE  CacheInv'
<1>1. PICK c : c = [change[w] EXCEPT !.left = {}, !.at = "signal"]
  OBVIOUS
<1>2. change' = [change EXCEPT ![w] = c]
  BY <1>1, Zenon DEF BumpFails
<1>3. /\ c \in ChangeRecord /\ c.left = {} /\ c.of = change[w].of
      /\ c.rules = change[w].rules /\ c.gen = change[w].gen /\ c.at = "signal"
  BY <1>1, ChangeFacts DEF ChangeRecord
<1>4. /\ change' \in [Writers -> ChangeRecord] /\ change'[w] = c
      /\ \A v \in Writers : v # w => change'[v] = change[v]
  BY <1>2, <1>3, ChangeFacts
<1>5. unbumped' = unbumped \cup change[w].left /\ unbumped' \subseteq Scopes
  BY ChangeFacts DEF BumpFails, CacheInv, CacheTypeOK, ChangeRecord
<1>6. CacheTypeOK'
  BY <1>4, <1>5, FaultInBounds DEF CacheInv, CacheTypeOK, BumpFails, store, redis
<1>7. NewsIsTrue'
  <2>1. \A t \in Scopes : \A n \in Written(t)' : n \in Written(t)
    BY <1>3, <1>4 DEF Written, BumpFails
  <2>2. \A n \in WrittenRules' : n \in WrittenRules
    BY <1>3, <1>4 DEF WrittenRules, BumpFails
  <2> QED
    BY <2>1, <2>2 DEF CacheInv, NewsIsTrue, BumpFails, store
<1>8. Changing'
  BY <1>3, <1>4 DEF CacheInv, Changing
<1>9. ASSUME NEW t \in Scopes \ unbumped', NEW n \in Bumped(t)' PROVE n \in Bumped(t)
  BY <1>3, <1>4, <1>5 DEF Bumped, BumpFails
<1> QED
  BY <1>5, <1>6, <1>7, <1>8, <1>9, NewsStep, SameNews DEF CacheInv, BumpFails, store

LEMMA SignalStep ==
    ASSUME CacheInv, NEW w \in Writers, Signal(w)
    PROVE  CacheInv'
<1>1. PICK n : n = [of |-> change[w].of, rules |-> change[w].rules, gen |-> change[w].gen]
  OBVIOUS
<1>2. pending' = pending \cup {n} /\ change' = [change EXCEPT ![w] = NoChange]
  BY <1>1 DEF Signal
<1>3. /\ n \in Announcement /\ n.of = change[w].of /\ n.rules = change[w].rules
      /\ n.gen = change[w].gen
  BY <1>1, ChangeFacts DEF Announcement, ChangeRecord
<1>4. NoChange \in ChangeRecord /\ NoChange.of = {} /\ NoChange.left = {} /\ ~NoChange.rules
      /\ NoChange.gen = 0
  BY DEF NoChange, ChangeRecord
<1>5. /\ change' \in [Writers -> ChangeRecord] /\ change'[w] = NoChange
      /\ \A v \in Writers : v # w => change'[v] = change[v]
      /\ change[w].left = {}
  BY <1>2, <1>4, ChangeFacts DEF Signal
<1>6. CacheTypeOK'
  BY <1>2, <1>3, <1>5 DEF CacheInv, CacheTypeOK, Signal, store, redis, bounds
<1>7. NewsIsTrue'
  <2>1. ASSUME NEW t \in Scopes, NEW g \in Written(t)' PROVE g \in Written(t)
    BY <1>2, <1>3, <1>4, <1>5 DEF Written, Signal
  <2>2. ASSUME NEW g \in WrittenRules' PROVE g \in WrittenRules
    BY <1>2, <1>3, <1>4, <1>5 DEF WrittenRules, Signal
  <2> QED
    BY <2>1, <2>2 DEF CacheInv, NewsIsTrue, Signal, store
<1>8. Changing'
  BY <1>4, <1>5 DEF CacheInv, Changing
<1>9. ASSUME NEW t \in Scopes, NEW g \in Bumped(t)' PROVE g \in Bumped(t)
  BY <1>2, <1>3, <1>4, <1>5 DEF Bumped, Signal
<1> QED
  BY <1>6, <1>7, <1>8, <1>9, NewsStep, SameNews DEF CacheInv, Signal, store

LEMMA FlushStep ==
    ASSUME CacheInv, Flush
    PROVE  CacheInv'
<1> DEFINE Gens(s) == {n.gen : n \in {m \in pending : ~m.rules /\ s \in m.of}}
           RuleGens == {n.gen : n \in {m \in pending : m.rules}}
<1>1. told' = [scopes |-> [s \in Scopes |-> Newest(told.scopes[s], Gens(s))],
               rules  |-> Newest(told.rules, RuleGens)]
  BY DEF Flush
<1>2. /\ told.scopes \in [Scopes -> Nat] /\ told.rules \in Nat
      /\ db \in [Scopes -> Nat] /\ rules \in Nat
      /\ \A m \in pending : m.gen \in Nat
  BY DEF CacheInv, CacheTypeOK, Announcement
<1>3. ASSUME NEW s \in Scopes
      PROVE  /\ Newest(told.scopes[s], Gens(s)) \in Gens(s) \cup {told.scopes[s]}
             /\ told.scopes[s] <= Newest(told.scopes[s], Gens(s))
             /\ Newest(told.scopes[s], Gens(s)) \in Nat
  <2>1. Gens(s) \in SUBSET Nat
    BY <1>2
  <2>2. \A g \in Gens(s) \cup {told.scopes[s]} : g <= db[s]
    BY DEF CacheInv, NewsIsTrue, Written
  <2>3. told.scopes[s] \in Nat /\ db[s] \in Nat
    BY <1>2
  <2> HIDE DEF Gens
  <2>4. /\ Newest(told.scopes[s], Gens(s)) \in Gens(s) \cup {told.scopes[s]}
        /\ \A g \in Gens(s) \cup {told.scopes[s]} : g <= Newest(told.scopes[s], Gens(s))
    BY <2>1, <2>2, <2>3, NewestIsOne
  <2> QED
    BY <2>1, <2>3, <2>4
<1>4. /\ Newest(told.rules, RuleGens) \in RuleGens \cup {told.rules}
      /\ Newest(told.rules, RuleGens) \in Nat
  <2>1. RuleGens \in SUBSET Nat
    BY <1>2
  <2>2. \A g \in RuleGens \cup {told.rules} : g <= rules
    BY DEF CacheInv, NewsIsTrue, WrittenRules
  <2> HIDE DEF RuleGens
  <2>3. Newest(told.rules, RuleGens) \in RuleGens \cup {told.rules}
    BY <1>2, <2>1, <2>2, NewestIsOne
  <2> QED
    BY <1>2, <2>1, <2>3
<1>5. /\ told' \in [scopes: [Scopes -> Nat], rules: Nat]
      /\ \A s \in Scopes : told'.scopes[s] \in Gens(s) \cup {told.scopes[s]}
      /\ \A s \in Scopes : told.scopes[s] <= told'.scopes[s]
      /\ told'.rules \in RuleGens \cup {told.rules}
  <2> HIDE DEF Gens, RuleGens
  <2> QED
    BY <1>1, <1>3, <1>4
<1>6. pending' = {} /\ UNCHANGED <<store, redis, req, change, unbumped, slack, bounds>>
  BY DEF Flush
<1>7. CacheTypeOK'
  BY <1>5, <1>6 DEF CacheInv, CacheTypeOK, store, redis, bounds
<1>8. \A t \in Scopes : \A n \in Written(t)' : n \in Written(t)
  BY <1>5, <1>6 DEF Written
<1>9. \A n \in WrittenRules' : n \in WrittenRules
  BY <1>5, <1>6 DEF WrittenRules
<1>10. NewsIsTrue'
  BY <1>6, <1>8, <1>9 DEF CacheInv, NewsIsTrue, store
<1>11. Changing'
  BY <1>6 DEF CacheInv, Changing
<1>12. \A t \in Scopes : \A n \in Bumped(t)' : n \in Bumped(t)
  BY <1>5, <1>6 DEF Bumped
<1> HIDE DEF Gens, RuleGens
<1> QED
  BY <1>5, <1>6, <1>7, <1>10, <1>11, <1>12, NewsStep DEF CacheInv, store
-----------------------------------------------------------------------------
(* Time, and the theorems *)

LEMMA ExpireStep ==
    ASSUME CacheInv, NEW e \in cached, Expire(e)
    PROVE  CacheInv'
<1>1. /\ cached' \subseteq cached
      /\ UNCHANGED <<store, version, locked, req, change, news, slack, changes>>
      /\ faults' \in 0..MaxFaults
  BY FaultInBounds DEF Expire
<1>2. CacheTypeOK'
  BY <1>1 DEF CacheInv, CacheTypeOK, store, news
<1>3. NewsIsTrue' /\ Changing'
  BY <1>1 DEF CacheInv, NewsIsTrue, Changing, Written, WrittenRules, store, news
<1>4. EntriesFit' /\ RequestsFit'
  BY <1>1 DEF CacheInv, EntriesFit, RequestsFit, Staged, Begun, Current, Informed, Answers,
              Bears, Bumped, news
<1>5. Flights'
  BY <1>1 DEF CacheInv, Flights, Flying, store
<1> QED
  BY <1>2, <1>3, <1>4, <1>5 DEF CacheInv

LEMMA ExpireLockStep ==
    ASSUME CacheInv, NEW key \in locked, ExpireLock(key)
    PROVE  CacheInv'
<1>1. /\ locked' = locked \ {key} /\ slack' = slack \cup {key}
      /\ UNCHANGED <<store, version, cached, req, change, news, changes>>
      /\ faults' \in 0..MaxFaults
  BY FaultInBounds DEF ExpireLock
<1>2. CacheTypeOK'
  BY <1>1 DEF CacheInv, CacheTypeOK, store, news
<1>3. NewsIsTrue' /\ Changing'
  BY <1>1 DEF CacheInv, NewsIsTrue, Changing, Written, WrittenRules, store, news
<1>4. EntriesFit' /\ RequestsFit'
  BY <1>1 DEF CacheInv, EntriesFit, RequestsFit, Staged, Begun, Current, Informed, Answers,
              Bears, Bumped, news
<1>5. Flights'
  BY <1>1 DEF CacheInv, Flights, Flying, store
<1> QED
  BY <1>2, <1>3, <1>4, <1>5 DEF CacheInv

LEMMA IdleStep == CacheInv /\ UNCHANGED vars => CacheInv'
BY DEF vars, store, redis, news, bounds, CacheInv, CacheTypeOK, NewsIsTrue, Changing,
       EntriesFit, RequestsFit, Flights, Flying, Staged, Begun, Current, Informed, Answers,
       Bears, Bumped, Written, WrittenRules

LEMMA InitCacheInv == Init => CacheInv
<1> SUFFICES ASSUME Init PROVE CacheInv
  OBVIOUS
<1>1. /\ \A r \in Requests : req[r] = NoRequest
      /\ \A w \in Writers : change[w] = NoChange
      /\ cached = {} /\ pending = {}
      /\ \A s \in Scopes : told.scopes[s] = 0 /\ db[s] = 0
      /\ told.rules = 0 /\ rules = 0
  BY DEF Init
<1>2. NoChange \in ChangeRecord /\ NoChange.of = {} /\ NoChange.left = {} /\ NoChange.gen = 0
      /\ NoChange.rules = FALSE /\ NoChange.at = "idle"
  BY DEF NoChange, ChangeRecord
<1>3. CacheTypeOK
  <2>1. 0 \in 0..MaxChanges /\ 0 \in 0..MaxFaults
    BY CacheAssumption
  <2> QED
    BY <1>2, <2>1, IdleRequest DEF Init, CacheTypeOK
<1>4. NewsIsTrue
  <2>1. \A s \in Scopes : \A n \in Written(s) : n = 0
    BY <1>1, <1>2 DEF Written
  <2>2. \A n \in WrittenRules : n = 0
    BY <1>1, <1>2 DEF WrittenRules
  <2> QED
    BY <1>1, <2>1, <2>2 DEF NewsIsTrue
<1>5. Changing
  BY <1>1, <1>2 DEF Changing
<1>6. EntriesFit
  BY <1>1 DEF EntriesFit
<1>7. RequestsFit
  BY <1>1, IdleRequest, NoneIsEmpty
     DEF RequestsFit, Staged, Begun, Current, Informed, Answers, Bears
<1>8. Flights
  BY <1>1, IdleRequest DEF Flights, Flying
<1> QED
  BY <1>3, <1>4, <1>5, <1>6, <1>7, <1>8 DEF CacheInv

LEMMA StepCacheInv == CacheInv /\ [Next]_vars => CacheInv'
<1> SUFFICES ASSUME CacheInv, [Next]_vars PROVE CacheInv'
  OBVIOUS
<1>1. ASSUME NEW w \in Writers,
             \/ WriteRules(w) \/ BumpFails(w) \/ Signal(w)
             \/ \E s \in Scopes : WriteData(w, s) \/ Bump(w, s)
      PROVE  CacheInv'
  BY <1>1, WriteRulesStep, BumpFailsStep, SignalStep, WriteDataStep, BumpStep
<1>2. ASSUME NEW r \in Requests, ReadRules(r) PROVE CacheInv'
  BY <1>2, ReadRulesStep
<1>3. ASSUME NEW r \in Requests, Read(r) PROVE CacheInv'
  BY <1>3, ReadVersionsStep, LookupStep, TakeLockStep, PollStep, QueryStep, StoreStep,
     UnlockStep, ReturnStep DEF Read
<1>4. ASSUME NEW r \in Requests, Fail(r) PROVE CacheInv'
  BY <1>4, LookupFailsStep, LeadBlindlyStep, QueryFailsStep, StoreFailsStep,
     UnlockFailsStep, DieStep DEF Fail
<1>5. ASSUME NEW e \in cached, Expire(e) PROVE CacheInv'
  BY <1>5, ExpireStep
<1>6. ASSUME NEW key \in locked, ExpireLock(key) PROVE CacheInv'
  BY <1>6, ExpireLockStep
<1>7. CASE Flush
  BY <1>7, FlushStep
<1>8. CASE UNCHANGED vars
  BY <1>8, IdleStep
<1> QED
  BY <1>1, <1>2, <1>3, <1>4, <1>5, <1>6, <1>7, <1>8 DEF Next

\* The caches keep their types: what Redis holds, what a request and a change
\* have in their hands at each stage, and what clients were told.
THEOREM CacheTypes == Spec => []CacheTypeOK
<1>1. CacheInv => CacheTypeOK
  BY DEF CacheInv
<1> QED
  BY <1>1, InitCacheInv, StepCacheInv, PTL DEF Spec

\* AnalyticsCacheService: whoever asks after a change was announced is given a
\* result that has it, however many requests, changes and scopes there are.
THEOREM StaleIsNeverRead == Spec => []AnnouncedChangesAreRead
<1>1. CacheInv => AnnouncedChangesAreRead
  <2> SUFFICES ASSUME CacheInv, NEW r \in Requests, req[r].at = "done",
                      NEW s \in Scopes \ unbumped
               PROVE  req[r].read[s] >= req[r].asked[s]
    BY DEF AnnouncedChangesAreRead
  <2>1. DOMAIN req[r].read = Scopes /\ req[r].read \in Seen
    BY Facts DEF Staged, Request
  <2>2. req[r].asked[s] <= req[r].read[s]
    BY <2>1 DEF CacheInv, RequestsFit, Informed
  <2>3. req[r].asked[s] \in Nat /\ req[r].read[s] \in Nat
    BY <2>1, Facts, SeenDomain DEF Staged
  <2> QED
    BY <2>2, <2>3
<1> QED
  BY <1>1, InitCacheInv, StepCacheInv, PTL DEF Spec

\* AnalyticsCacheService.wrap: one request computes under a key, unless its
\* lock had run out, a follower had polled in vain, or Redis failed.
THEOREM OneComputes == Spec => []OneFlight
<1>1. CacheInv => OneFlight
  BY DEF CacheInv, Flights, Flying, OneFlight
<1> QED
  BY <1>1, InitCacheInv, StepCacheInv, PTL DEF Spec
=============================================================================
