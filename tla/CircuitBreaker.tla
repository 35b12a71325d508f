---------------------------- MODULE CircuitBreaker ----------------------------
(***************************************************************************)
(* The circuit breaker around the calls to the IA (CircuitBreakerService). *)
(* Its state is six Redis keys shared by every worker of every process,    *)
(* read with MGET and written key by key, so each command is a step and    *)
(* the other workers act between two of them.  Only the half-open probe is *)
(* taken atomically (SET NX PX).  Redis may be down: every operation then  *)
(* falls back (`safely`): the gate lets the call through, a report is      *)
(* dropped where it was.                                                   *)
(*                                                                         *)
(* Time is kept as what is left of a TTL and as what has passed since a    *)
(* timestamp, both saturating, so that no bound on the clock is needed.    *)
(* The keys of one opening are taken to expire together.  ia:cb:failures   *)
(* and ia:cb:windowStart outlive the window they count in, so their TTL    *)
(* is never observed.  The announcements of `announce` are left out.       *)
(***************************************************************************)
EXTENDS Naturals

CONSTANTS
    Callers,    \* workers that call the IA
    Threshold,  \* failures of one window that trip the breaker
    Window,     \* failureWindowMs
    OpenFor,    \* openDurationMs
    ReopenFor,  \* reopenDurationMs
    CallTime,   \* longest call to the IA: the client's timeout
    MaxCrashes  \* bound: workers that die in the middle of a job

ASSUME BreakerAssumption ==
    /\ {Threshold, Window, OpenFor, ReopenFor} \subseteq Nat \ {0}
    /\ CallTime \in Nat
    /\ CallTime < OpenFor
    /\ MaxCrashes \in Nat

VARIABLES
    tripped,    \* ia:cb:state: what is left of its TTL, 0 when absent
    since,      \* time since ia:cb:openedAt
    cooldown,   \* ia:cb:openDuration, 0 when absent
    probe,      \* ia:cb:probe: what is left of its TTL, 0 when absent
    failures,   \* ia:cb:failures
    windowAge,  \* time since ia:cb:windowStart
    caller,     \* what each worker is doing
    ia,         \* the IA: answering, unreachable, or answering nonsense
    redisUp,
    crashes

keys == <<tripped, since, cooldown, probe, failures, windowAge>>
world == <<ia, redisUp, crashes>>
breakerVars == <<keys, caller, world>>

Least(a, b) == IF a < b THEN a ELSE b
Less1(n) == IF n = 0 THEN 0 ELSE n - 1

\* Longest cooldown: an opening at least this old lets a probe through, and
\* so does a missing openedAt, which reads as the year 1970.
LongAgo == IF OpenFor < ReopenFor THEN ReopenFor ELSE OpenFor

ProbeTtl == LongAgo

Stages == {"idle", "probing", "calling", "succeeded", "failed", "releasing",
           "counting", "storing", "opening", "timing", "tripping"}

\* `lock` is an observer: the caller was let through by the probe lock, which
\* is still there, was deleted by another caller, or expired under it.
Caller == [at: Stages, left: 0..CallTime, lock: {"none", "held", "lost", "expired"},
           count: 0..Threshold, start: 0..Window, duration: {0, OpenFor, ReopenFor}]

Idle == [at |-> "idle", left |-> 0, lock |-> "none",
         count |-> 0, start |-> 0, duration |-> 0]

BreakerInit ==
    /\ tripped = 0 /\ since = LongAgo /\ cooldown = 0
    /\ probe = 0
    /\ failures = 0 /\ windowAge = Window
    /\ caller = [c \in Callers |-> Idle]
    /\ ia = "up" /\ redisUp = TRUE /\ crashes = 0

Calling(lock) == [Idle EXCEPT !.at = "calling", !.left = CallTime, !.lock = lock]

-----------------------------------------------------------------------------
(* beforeCall: a caller that is refused goes away and asks again later.     *)

Ask(c) ==
    /\ caller[c].at = "idle"
    /\ redisUp
    /\ probe = 0
    /\ \/ /\ tripped = 0
          /\ caller' = [caller EXCEPT ![c] = Calling("none")]
       \/ /\ tripped > 0
          /\ since >= cooldown
          /\ caller' = [caller EXCEPT ![c].at = "probing"]
    /\ UNCHANGED <<keys, world>>

TakeProbeTwice(c) ==
    /\ caller[c].at = "probing"
    /\ redisUp
    /\ probe' = ProbeTtl
    /\ caller' = [caller EXCEPT ![c] = Calling("held")]
    /\ UNCHANGED <<tripped, since, cooldown, failures, windowAge, world>>

\* SET ia:cb:probe NX PX: the keys read by Ask may have changed since.
TakeProbe(c) ==
    /\ caller[c].at = "probing"
    /\ redisUp
    /\ IF probe = 0
       THEN /\ probe' = ProbeTtl
            /\ caller' = [caller EXCEPT ![c] = Calling("held")]
       ELSE /\ probe' = probe
            /\ caller' = [caller EXCEPT ![c] = Idle]
    /\ UNCHANGED <<tripped, since, cooldown, failures, windowAge, world>>

\* Redis does not answer: the call is allowed.
AllowBlindly(c) ==
    /\ caller[c].at \in {"idle", "probing"}
    /\ ~redisUp
    /\ caller' = [caller EXCEPT ![c] = Calling("none")]
    /\ UNCHANGED <<keys, world>>

\* SentimentService: a valid answer reports a success, unavailability reports
\* a failure, and a broken answer reports nothing.
EndCall(c) ==
    /\ caller[c].at = "calling"
    /\ caller' = [caller EXCEPT ![c] =
            CASE ia = "up"     -> [Idle EXCEPT !.at = "succeeded"]
              [] ia = "down"   -> [Idle EXCEPT !.at = "failed"]
              [] ia = "broken" -> Idle]
    /\ UNCHANGED <<keys, world>>

-----------------------------------------------------------------------------
(* recordSuccess and recordFailure.                                         *)

\* A deletion of the probe lock seen by the callers that hold it.
WithoutLock(callers) ==
    [c \in Callers |-> IF callers[c].lock = "held"
                       THEN [callers[c] EXCEPT !.lock = "lost"]
                       ELSE callers[c]]

\* The six keys go in one DEL; the state read before it is only logged.
RecordSuccess(c) ==
    /\ caller[c].at = "succeeded"
    /\ redisUp
    /\ tripped' = 0 /\ since' = LongAgo /\ cooldown' = 0
    /\ probe' = 0
    /\ failures' = 0 /\ windowAge' = Window
    /\ caller' = WithoutLock([caller EXCEPT ![c] = Idle])
    /\ UNCHANGED world

\* recordFailure reads the state: half-open, open or closed.
ReadState(c) ==
    /\ caller[c].at = "failed"
    /\ redisUp
    /\ caller' = [caller EXCEPT ![c].at =
            CASE probe > 0                 -> "releasing"
              [] probe = 0 /\ tripped > 0  -> "idle"
              [] OTHER                     -> "counting"]
    /\ UNCHANGED <<keys, world>>

ReleaseProbe(c) ==
    /\ caller[c].at = "releasing"
    /\ redisUp
    /\ probe' = 0
    /\ caller' = WithoutLock([caller EXCEPT
            ![c] = [Idle EXCEPT !.at = "opening", !.duration = ReopenFor]])
    /\ UNCHANGED <<tripped, since, cooldown, failures, windowAge, world>>

\* Counts one failure in the window it reads, or in a new one.
Count(c) ==
    /\ caller[c].at = "counting"
    /\ redisUp
    /\ LET within == windowAge < Window IN
       caller' = [caller EXCEPT ![c].at = "storing",
                    ![c].count = IF within THEN Least(failures + 1, Threshold) ELSE 1,
                    ![c].start = IF within THEN windowAge ELSE 0]
    /\ UNCHANGED <<keys, world>>

\* The two SETs of the window are one step: the count is only read with the
\* start that follows it, and both starts give the same count.
StoreWindow(c) ==
    /\ caller[c].at = "storing"
    /\ redisUp
    /\ failures' = caller[c].count
    /\ windowAge' = caller[c].start
    /\ caller' = [caller EXCEPT ![c] =
            IF caller[c].count >= Threshold
            THEN [Idle EXCEPT !.at = "opening", !.duration = OpenFor]
            ELSE Idle]
    /\ UNCHANGED <<tripped, since, cooldown, probe, world>>

\* open: three SETs.
SetOpenedAt(c) ==
    /\ caller[c].at = "opening"
    /\ redisUp
    /\ since' = 0
    /\ caller' = [caller EXCEPT ![c].at = "timing"]
    /\ UNCHANGED <<tripped, cooldown, probe, failures, windowAge, world>>

SetDuration(c) ==
    /\ caller[c].at = "timing"
    /\ redisUp
    /\ cooldown' = caller[c].duration
    /\ caller' = [caller EXCEPT ![c].at = "tripping"]
    /\ UNCHANGED <<tripped, since, probe, failures, windowAge, world>>

SetState(c) ==
    /\ caller[c].at = "tripping"
    /\ redisUp
    /\ tripped' = caller[c].duration + Window
    /\ caller' = [caller EXCEPT ![c] = Idle]
    /\ UNCHANGED <<since, cooldown, probe, failures, windowAge, world>>

\* Redis does not answer in the middle of a report: the rest is dropped.
DropReport(c) ==
    /\ caller[c].at \notin {"idle", "probing", "calling"}
    /\ ~redisUp
    /\ caller' = [caller EXCEPT ![c] = Idle]
    /\ UNCHANGED <<keys, world>>

-----------------------------------------------------------------------------
(* Time and the world.                                                      *)

TickWithoutProbeTtl ==
    /\ \A c \in Callers : caller[c].at = "calling" => caller[c].left > 0
    /\ tripped' = Less1(tripped)
    /\ since' = Least(since + 1, LongAgo)
    /\ windowAge' = Least(windowAge + 1, Window)
    /\ caller' = [c \in Callers |-> [caller[c] EXCEPT !.left = Less1(caller[c].left)]]
    /\ UNCHANGED <<probe, cooldown, failures, world>>

\* The keys expire, and a call does not outlast the client's timeout.
Tick ==
    /\ \A c \in Callers : caller[c].at = "calling" => caller[c].left > 0
    /\ tripped' = Less1(tripped)
    /\ probe' = Less1(probe)
    /\ since' = Least(since + 1, LongAgo)
    /\ windowAge' = Least(windowAge + 1, Window)
    /\ caller' = [c \in Callers |->
            [caller[c] EXCEPT
                !.left = Less1(caller[c].left),
                !.lock = IF caller[c].lock = "held" /\ probe = 1 THEN "expired"
                         ELSE caller[c].lock,
                !.start = IF caller[c].at = "storing"
                          THEN Least(caller[c].start + 1, Window)
                          ELSE caller[c].start]]
    /\ UNCHANGED <<cooldown, failures, world>>

Change ==
    /\ ia' \in {"up", "down", "broken"}
    /\ redisUp' \in BOOLEAN
    /\ <<ia, redisUp>>' # <<ia, redisUp>>
    /\ UNCHANGED <<keys, caller, crashes>>

\* The process dies: whatever the worker was doing is never finished.
Crash(c) ==
    /\ caller[c].at # "idle"
    /\ crashes < MaxCrashes
    /\ crashes' = crashes + 1
    /\ caller' = [caller EXCEPT ![c] = Idle]
    /\ UNCHANGED <<keys, ia, redisUp>>

Report(c) ==
    \/ RecordSuccess(c) \/ ReadState(c) \/ ReleaseProbe(c) \/ Count(c)
    \/ StoreWindow(c) \/ SetOpenedAt(c) \/ SetDuration(c) \/ SetState(c)
    \/ DropReport(c)

Work(c) ==
    \/ Ask(c) \/ TakeProbe(c) \/ AllowBlindly(c) \/ EndCall(c) \/ Report(c)

BreakerNext ==
    \/ Tick
    \/ Change
    \/ \E c \in Callers : Work(c) \/ Crash(c)

\* Analyses keep coming, a worker that can go on does, and time passes.
BreakerFairness ==
    /\ WF_breakerVars(Tick)
    /\ \A c \in Callers : WF_breakerVars(Work(c))

BreakerSpec == BreakerInit /\ [][BreakerNext]_breakerVars /\ BreakerFairness

-----------------------------------------------------------------------------
(* The keys are well formed, and only a caller inside the IA call carries   *)
(* a probe lock (circuit-breaker.service.ts, CB_*_KEY).                     *)
BreakerTypeOK ==
    /\ tripped \in 0..(LongAgo + Window)
    /\ since \in 0..LongAgo
    /\ cooldown \in {0, OpenFor, ReopenFor}
    /\ probe \in 0..ProbeTtl
    /\ failures \in 0..Threshold
    /\ windowAge \in 0..Window
    /\ caller \in [Callers -> Caller]
    /\ \A c \in Callers : caller[c].lock # "none" => caller[c].at = "calling"
    /\ ia \in {"up", "down", "broken"}
    /\ redisUp \in BOOLEAN
    /\ crashes \in 0..MaxCrashes

(* Two calls are in the IA as probes only if a third party deleted the lock *)
(* of one of them: the TTL of the lock covers the call, and SET NX lets one *)
(* caller in (beforeCall).  The deletion is real: a call that began before  *)
(* the breaker tripped reports while the probe runs, and takes it for its   *)
(* own.                                                                     *)
ProbesAreExclusive ==
    /\ \A c \in Callers : caller[c].lock # "expired"
    /\ \A c, d \in Callers :
            c # d => ~(caller[c].lock = "held" /\ caller[d].lock = "held")

(* However calls, crashes and Redis outages fall, the breaker always lets   *)
(* another call through: a probe lock left behind by a crash, by a broken   *)
(* answer or by an outage expires (probeTtlMs), and so does the cooldown.   *)
NeverShutForGood == []<>(\E c \in Callers : caller[c].at = "calling")

=============================================================================
