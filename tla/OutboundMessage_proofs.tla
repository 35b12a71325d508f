------------------------ MODULE OutboundMessage_proofs ------------------------
(***************************************************************************)
(* Type correctness of the outbound pipeline, that message_status_events   *)
(* is the path of messages.status, and that the pipeline implements the    *)
(* documented life cycle; that a lock has one holder, so that no run ever  *)
(* sees an attempt made; then who may own a provider call, how many copies *)
(* the provider may accept, that a failed row was not delivered, how many  *)
(* pending rows are left without a run, and that no stored send vanishes:  *)
(* for every number of clients, jobs, workers, webhook requests and wamids *)
(* and every bound on the faults.                                          *)
(***************************************************************************)
EXTENDS OutboundMessage, FiniteSetTheorems, TLAPS

RowOK == /\ row \in [Clients -> RowRecords]
         /\ history \in [Clients -> Seq(Statuses)]
RestOK == /\ accepted \in [Clients -> SUBSET Wamids]
          /\ reported \in SUBSET Ticks
          /\ consumed \in SUBSET Ticks
          /\ hook \in [Hooks -> HookRecords \cup {None}]
          /\ {crashes, late, replays} \subseteq Nat
          /\ Faults <= MaxFaults
          /\ throws \in 0..MaxThrows
          /\ lost \in 0..MaxLost

\* A job keeps a client once it has one.
ClientsKept == \A j \in Jobs : job[j].client \in Clients => job'[j].client \in Clients

LEMMA TypeParts == TypeOK <=> RowOK /\ JobOK /\ RunOK /\ RestOK
BY DEF TypeOK, RowOK, RestOK

LEMMA TypePartsNext == TypeOK' <=> RowOK' /\ JobOK' /\ RunOK' /\ RestOK'
BY DEF TypeOK, RowOK, RestOK

LEMMA IdleType == Idle \in RunRecords /\ Idle.at = "idle" /\ ~Idle.locked
BY DEF Idle, RunRecords, Points, RowStates

\* At(w, at) is a record of the run's job, if `at` needs no more than that.
LEMMA AtType ==
    ASSUME RunOK, NEW w \in Workers, NEW at \in Points
    PROVE  /\ At(w, at) \in RunRecords
           /\ At(w, at).at = at
           /\ At(w, at).job = run[w].job
           /\ At(w, at).wamid = None
BY IdleType DEF RunOK, At, Idle, RunRecords

\* Replacing one worker's record by a good one keeps RunOK.
LEMMA RunUpdate ==
    ASSUME RunOK, ClientsKept, NEW w \in Workers, NEW r \in RunRecords,
           run' = [run EXCEPT ![w] = r],
           r.at # "idle" => r.job \in Jobs /\ job'[r.job].client \in Clients,
           r.at = "answered" => r.wamid \in Wamids,
           r.locked => r.at # "idle"
    PROVE  RunOK'
BY DEF RunOK, ClientsKept, RunRecords

LEMMA Gone ==
    ASSUME RunOK, ClientsKept, NEW w \in Workers, run' = [run EXCEPT ![w] = Idle]
    PROVE  RunOK'
BY RunUpdate, IdleType

\* Moving a run under way to a point that needs no wamid.
LEMMA Moved ==
    ASSUME RunOK, UNCHANGED job, NEW w \in Workers, run[w].at # "idle",
           NEW at \in Points \ {"answered", "idle"},
           run' = [run EXCEPT ![w] = At(w, at)]
    PROVE  RunOK'
<1>1. ClientsKept
  BY DEF ClientsKept
<1>2. run[w].job \in Jobs /\ job'[run[w].job].client \in Clients
  BY DEF RunOK
<1> QED
  BY <1>1, <1>2, AtType, RunUpdate

LEMMA FinishType ==
    ASSUME JobOK, RunOK, NEW w \in Workers, run[w].at # "idle",
           NEW s \in JobStates, Finish(w, s)
    PROVE  JobOK' /\ ClientsKept /\ RunOK'
<1>1. run[w].job \in Jobs
  BY DEF RunOK
<1>2. job[run[w].job].client \in Clients
  BY DEF RunOK
<1>3. JobOK' /\ ClientsKept
  BY <1>1, <1>2 DEF JobOK, JobRecords, ClientsKept, Finish
<1> QED
  BY <1>3, Gone DEF Finish

LEMMA StalledType ==
    ASSUME JobOK, NEW j \in Jobs, job[j].client \in Clients, Stalled(j)
    PROVE  JobOK' /\ ClientsKept
BY BoundsAssumption DEF JobOK, JobRecords, JobStates, ClientsKept, Stalled

LEMMA CompareAndSetType ==
    ASSUME RowOK, NEW c \in Clients, NEW from, NEW to \in Statuses,
           NEW ext \in Wamids \cup {None}, CompareAndSet(c, from, to, ext)
    PROVE  RowOK'
<1>1. CASE row[c].status \notin from
  BY <1>1 DEF RowOK, CompareAndSet
<1>2. CASE row[c].status \in from
  <2>1. [status |-> to, ext |-> ext] \in RowRecords
    BY DEF RowRecords, RowStates
  <2>2. row' \in [Clients -> RowRecords]
    BY <1>2, <2>1 DEF RowOK, CompareAndSet
  <2>3. Append(history[c], to) \in Seq(Statuses)
    BY DEF RowOK
  <2>4. history' \in [Clients -> Seq(Statuses)]
    BY <1>2, <2>3 DEF RowOK, CompareAndSet
  <2> QED
    BY <2>2, <2>4 DEF RowOK
<1> QED
  BY <1>1, <1>2

LEMMA TypeInit == Init => TypeOK
<1> SUFFICES ASSUME Init PROVE TypeOK
  OBVIOUS
<1>1. RowOK
  BY DEF Init, RowOK, RowRecords, RowStates
<1>2. JobOK
  BY DEF Init, JobOK, JobRecords, JobStates
<1>3. RunOK
  BY IdleType DEF Init, RunOK, Idle
<1>4. RestOK
  BY BoundsAssumption DEF Init, RestOK, Faults
<1> QED
  BY <1>1, <1>2, <1>3, <1>4, TypeParts

\* What every step of a run under way starts from.
LEMMA UnderWay ==
    ASSUME TypeOK, NEW w \in Workers, run[w].at # "idle"
    PROVE  /\ RowOK /\ JobOK /\ RunOK /\ RestOK
           /\ run[w] \in RunRecords
           /\ run[w].job \in Jobs
           /\ ClientOf(w) \in Clients
           /\ row[ClientOf(w)].status \in RowStates
           /\ row[ClientOf(w)].ext \in Wamids \cup {None}
<1>1. RowOK /\ JobOK /\ RunOK /\ RestOK
  BY TypeParts
<1> QED
  BY <1>1 DEF RunOK, ClientOf, RowOK, RowRecords

\* A run that goes on within its own record, to no answer.
LEMMA GoesOn ==
    ASSUME RunOK, UNCHANGED job, NEW w \in Workers, run[w].at # "idle",
           NEW r \in RunRecords, r.at \notin {"answered", "idle"}, r.job = run[w].job,
           run' = [run EXCEPT ![w] = r]
    PROVE  RunOK'
<1>1. ClientsKept
  BY DEF ClientsKept
<1>2. run[w].job \in Jobs /\ job'[run[w].job].client \in Clients
  BY DEF RunOK
<1> QED
  BY <1>1, <1>2, RunUpdate

LEMMA GotoType ==
    ASSUME TypeOK, UNCHANGED job, NEW w \in Workers, run[w].at # "idle",
           NEW at \in Points \ {"answered", "idle"}, Goto(w, at)
    PROVE  RunOK'
<1> DEFINE r == [run[w] EXCEPT !.at = at]
<1>1. r \in RunRecords /\ r.at = at /\ r.job = run[w].job
  BY UnderWay DEF RunRecords
<1>2. run' = [run EXCEPT ![w] = r]
  BY UnderWay DEF Goto, RunOK, RunRecords
<1> HIDE DEF r
<1> QED
  BY <1>1, <1>2, UnderWay, GoesOn
-----------------------------------------------------------------------------
LEMMA SaveType ==
    ASSUME TypeOK, NEW w \in Workers, Save(w)
    PROVE  TypeOK'
<1>1. run[w].at \in {"lookup", "refind", "insert"}
  BY DEF Save, FindExisting, FindNothing, Insert, InsertLoses
<1>2. RestOK'
  BY UnderWay, <1>1 DEF RestOK, Save, FindExisting, FindNothing, Insert,
              InsertLoses, provider, ticks, budget, Faults
<1>3. CASE FindExisting(w)
  <2> DEFINE r == [run[w] EXCEPT !.at = "claim", !.tries = 0,
                                 !.seen = row[ClientOf(w)].status]
  <2>1. r \in RunRecords /\ r.at = "claim" /\ r.job = run[w].job
    BY UnderWay, <1>1 DEF RunRecords, Points
  <2>2. run' = [run EXCEPT ![w] = r]
    BY UnderWay, <1>1, <1>3 DEF FindExisting, RunOK, RunRecords
  <2> HIDE DEF r
  <2>3. UNCHANGED <<job, row, history>>
    BY <1>3 DEF FindExisting
  <2>4. RunOK'
    BY UnderWay, <1>1, <2>1, <2>2, <2>3, GoesOn
  <2> QED
    BY UnderWay, <1>1, <1>2, <2>3, <2>4, TypePartsNext DEF RowOK, JobOK
<1>4. CASE FindNothing(w)
  <2>1. UNCHANGED <<row, history>>
    BY <1>4 DEF FindNothing
  <2>2. CASE Goto(w, "insert") /\ UNCHANGED job
    <3>1. RunOK'
      BY <2>2, <1>1, GotoType DEF Points
    <3> QED
      BY UnderWay, <1>1, <1>2, <2>1, <2>2, <3>1, TypePartsNext DEF RowOK, JobOK
  <2>3. CASE Finish(w, "failed")
    <3>1. JobOK' /\ RunOK'
      BY UnderWay, <1>1, <2>3, FinishType DEF JobStates
    <3> QED
      BY UnderWay, <1>1, <1>2, <2>1, <3>1, TypePartsNext DEF RowOK
  <2> QED
    BY <1>4, <2>2, <2>3 DEF FindNothing
<1>5. CASE Insert(w)
  <2> DEFINE r == [run[w] EXCEPT !.at = "claim", !.tries = 0,
                                 !.created = TRUE, !.seen = "pending"]
  <2>1. r \in RunRecords /\ r.at = "claim" /\ r.job = run[w].job
    BY UnderWay, <1>1 DEF RunRecords, Points, RowStates, Statuses
  <2>2. run' = [run EXCEPT ![w] = r]
    BY UnderWay, <1>1, <1>5 DEF Insert, RunOK, RunRecords
  <2> HIDE DEF r
  <2>3. UNCHANGED <<job, history>>
    BY <1>5 DEF Insert
  <2>4. RunOK'
    BY UnderWay, <1>1, <2>1, <2>2, <2>3, GoesOn
  <2>5. row' \in [Clients -> RowRecords]
    BY UnderWay, <1>1, <1>5 DEF Insert, RowOK, RowRecords, RowStates, Statuses
  <2> QED
    BY UnderWay, <1>1, <1>2, <2>3, <2>4, <2>5, TypePartsNext DEF RowOK, JobOK
<1>6. CASE InsertLoses(w)
  <2> DEFINE r == [run[w] EXCEPT !.at = "refind", !.tries = run[w].tries + 1]
  <2>1. r \in RunRecords /\ r.at = "refind" /\ r.job = run[w].job
    <3>1. run[w].tries + 1 \in Nat
      BY UnderWay, <1>1 DEF RunRecords
    <3> QED
      BY UnderWay, <1>1, <3>1 DEF RunRecords, Points
  <2>2. run' = [run EXCEPT ![w] = r]
    BY UnderWay, <1>1, <1>6 DEF InsertLoses, RunOK, RunRecords
  <2> HIDE DEF r
  <2>3. UNCHANGED <<job, row, history>>
    BY <1>6 DEF InsertLoses
  <2>4. RunOK'
    BY UnderWay, <1>1, <2>1, <2>2, <2>3, GoesOn
  <2> QED
    BY UnderWay, <1>1, <1>2, <2>3, <2>4, TypePartsNext DEF RowOK, JobOK
<1> QED
  BY <1>3, <1>4, <1>5, <1>6 DEF Save

LEMMA ClaimType ==
    ASSUME TypeOK, NEW w \in Workers, Claim(w)
    PROVE  TypeOK'
<1>1. run[w].at = "claim"
  BY DEF Claim, ClaimCreated, ClaimRetry, ClaimExisting
<1>2. RestOK'
  BY UnderWay, <1>1 DEF RestOK, Claim, ClaimCreated, ClaimRetry, ClaimExisting,
              provider, ticks, budget, Faults
<1>3. RowOK'
  <2>1. CASE ClaimRetry(w)
    BY UnderWay, <1>1, <2>1, CompareAndSetType DEF ClaimRetry, Statuses
  <2>2. CASE ~ClaimRetry(w)
    BY UnderWay, <1>1, <2>2 DEF Claim, ClaimCreated, ClaimExisting,
                                RowOK
  <2> QED
    BY <2>1, <2>2
<1>4. (Own(w) /\ UNCHANGED job) \/ Return(w)
  BY DEF Claim, ClaimCreated, ClaimRetry, ClaimExisting
<1>5. CASE Own(w) /\ UNCHANGED job
  <2>1. RunOK'
    BY UnderWay, <1>1, <1>5, Moved DEF Own, Points
  <2> QED
    BY UnderWay, <1>1, <1>2, <1>3, <1>5, <2>1, TypePartsNext DEF JobOK
<1>6. CASE Return(w)
  BY UnderWay, <1>1, <1>2, <1>3, <1>6, FinishType, TypePartsNext DEF Return, JobStates
<1> QED
  BY <1>4, <1>5, <1>6

LEMMA NextTryType ==
    ASSUME TypeOK, NEW w \in Workers, run[w].at = "calling", NextTry(w),
           UNCHANGED job
    PROVE  RunOK'
<1>1. CASE run' = [run EXCEPT ![w] = At(w, "rejected")]
  BY <1>1, UnderWay, Moved DEF Points
<1>2. CASE run' = [run EXCEPT ![w].tries = @ + 1]
  <2> DEFINE r == [run[w] EXCEPT !.tries = run[w].tries + 1]
  <2>1. r \in RunRecords /\ r.at = "calling" /\ r.job = run[w].job
    BY UnderWay DEF RunRecords
  <2>2. run' = [run EXCEPT ![w] = r]
    BY <1>2, UnderWay DEF RunOK, RunRecords
  <2> HIDE DEF r
  <2> QED
    BY UnderWay, <2>1, <2>2, GoesOn
<1> QED
  BY <1>1, <1>2 DEF NextTry

LEMMA CallType ==
    ASSUME TypeOK, NEW w \in Workers, Call(w)
    PROVE  TypeOK'
<1>1. run[w].at \in {"owned", "calling"}
  BY DEF Call, RefuseSend, CallProvider, ProviderAnswers, AnswerLost, Accept,
         ProviderFaults, ProviderRejects
<1>2. UNCHANGED <<row, history, job, reported, consumed, hook, crashes, late, replays, throws>>
  BY DEF Call, RefuseSend, CallProvider, ProviderAnswers, AnswerLost, Accept,
         ProviderFaults, ProviderRejects, provider, ticks, budget
<1>3. RestOK'
  <2>1. accepted' \in [Clients -> SUBSET Wamids]
    BY UnderWay, <1>1 DEF RestOK, Call, RefuseSend, CallProvider,
       ProviderAnswers, AnswerLost, Accept, FreshWamids, ProviderFaults,
       ProviderRejects, provider
  <2>2. lost' \in 0..MaxLost
    BY UnderWay, <1>1, BoundsAssumption DEF RestOK, Call, RefuseSend,
       CallProvider, ProviderAnswers, AnswerLost, ProviderFaults,
       ProviderRejects, budget
  <2> QED
    BY UnderWay, <1>1, <1>2, <2>1, <2>2 DEF RestOK, Faults
<1>4. RunOK'
  <2>1. CASE RefuseSend(w)
    BY <2>1, <1>1, <1>2, GotoType DEF RefuseSend, Points
  <2>2. CASE CallProvider(w)
    <3> DEFINE r == [run[w] EXCEPT !.at = "calling", !.tries = 1]
    <3>1. r \in RunRecords /\ r.at = "calling" /\ r.job = run[w].job
      BY UnderWay, <1>1 DEF RunRecords, Points
    <3>2. run' = [run EXCEPT ![w] = r]
      BY UnderWay, <1>1, <2>2 DEF CallProvider, RunOK, RunRecords
    <3> HIDE DEF r
    <3> QED
      BY UnderWay, <1>1, <1>2, <3>1, <3>2, GoesOn
  <2>3. ASSUME NEW x \in Wamids, ProviderAnswers(w, x) PROVE RunOK'
    <3> DEFINE r == [At(w, "answered") EXCEPT !.wamid = x]
    <3>1. /\ r \in RunRecords
          /\ r.at = "answered" /\ r.wamid = x /\ r.job = run[w].job
      BY UnderWay, <1>1, AtType DEF RunRecords, Points
    <3>2. run' = [run EXCEPT ![w] = r]
      BY <2>3 DEF ProviderAnswers
    <3>3. ClientsKept /\ run[w].job \in Jobs
          /\ job'[run[w].job].client \in Clients
      BY UnderWay, <1>1, <1>2 DEF ClientsKept, RunOK
    <3> HIDE DEF r
    <3> QED
      BY UnderWay, <1>1, <3>1, <3>2, <3>3, RunUpdate
  <2>4. ASSUME NEW x \in Wamids, AnswerLost(w, x) PROVE RunOK'
    <3>1. run[w].at = "calling"
      BY <2>4 DEF AnswerLost, Accept
    <3> QED
      BY <2>4, <3>1, <1>2, UnderWay, NextTryType, Moved DEF AnswerLost, Points
  <2>5. CASE ProviderFaults(w)
    BY <2>5, <1>2, NextTryType DEF ProviderFaults
  <2>6. CASE ProviderRejects(w)
    BY <2>6, <1>1, <1>2, UnderWay, Moved DEF ProviderRejects, Points
  <2> QED
    BY <2>1, <2>2, <2>3, <2>4, <2>5, <2>6 DEF Call
<1> QED
  BY UnderWay, <1>1, <1>2, <1>3, <1>4, TypePartsNext DEF RowOK, JobOK

LEMMA SettleType ==
    ASSUME TypeOK, NEW w \in Workers, Settle(w)
    PROVE  TypeOK'
<1>1. run[w].at \in {"answered", "rejected"} /\ Return(w)
  BY DEF Settle, MarkSent, MarkSendFailed
<1>2. RestOK'
  BY UnderWay, <1>1 DEF RestOK, Settle, MarkSent, MarkSendFailed, provider,
     ticks, budget, Faults
<1>3. RowOK'
  <2>1. CASE MarkSent(w)
    BY UnderWay, <2>1, <1>1, CompareAndSetType DEF MarkSent, Statuses, RunRecords
  <2>2. CASE MarkSendFailed(w)
    BY UnderWay, <2>2, <1>1, CompareAndSetType DEF MarkSendFailed, Statuses
  <2> QED
    BY <2>1, <2>2 DEF Settle
<1>4. JobOK' /\ RunOK'
  BY UnderWay, <1>1, FinishType DEF Return, JobStates
<1> QED
  BY <1>2, <1>3, <1>4, TypePartsNext

LEMMA QueueType ==
    ASSUME TypeOK, NEW j \in Jobs,
           \/ \E c \in Clients : Submit(j, c)
           \/ \E w \in Workers : PickUp(w, j)
    PROVE  TypeOK'
<1>0. RowOK /\ JobOK /\ RunOK /\ RestOK
  BY TypeParts
<1>1. CASE \E c \in Clients : Submit(j, c)
  <2> PICK c \in Clients : Submit(j, c)
    BY <1>1
  <2> DEFINE r == [job[j] EXCEPT !.state = "waiting", !.client = c]
  <2>0. r \in JobRecords /\ r.client = c
    BY <1>0 DEF JobOK, JobRecords, JobStates
  <2>00. job' = [job EXCEPT ![j] = r]
    BY <1>0 DEF Submit, JobOK, JobRecords
  <2> HIDE DEF r
  <2>1. JobOK' /\ ClientsKept
    BY <1>0, <2>0, <2>00 DEF JobOK, ClientsKept
  <2>2. RowOK' /\ RestOK' /\ run' = run
    BY <1>0 DEF Submit, RowOK, RestOK, provider, ticks, budget, Faults
  <2>3. RunOK'
    BY <1>0, <2>1, <2>2 DEF RunOK, ClientsKept
  <2> QED
    BY <2>1, <2>2, <2>3, TypePartsNext
<1>2. ASSUME NEW w \in Workers, PickUp(w, j) PROVE TypeOK'
  <2>1. JobOK' /\ ClientsKept
    BY <1>0, <1>2 DEF JobOK, JobRecords, JobStates, ClientsKept, PickUp
  <2>2. RowOK' /\ RestOK'
    BY <1>0, <1>2 DEF PickUp, RowOK, RestOK, provider, ticks, budget, Faults
  <2> DEFINE r == [Idle EXCEPT !.at = "lookup", !.job = j, !.locked = TRUE,
                               !.attemptsMade = job[j].attemptsMade]
  <2>3. r \in RunRecords /\ r.at = "lookup" /\ r.job = j
    BY <1>0, IdleType DEF RunRecords, Idle, Points, JobOK, JobRecords
  <2>4. run' = [run EXCEPT ![w] = r]
    BY <1>2 DEF PickUp
  <2>5. job'[j].client \in Clients
    BY <1>0, <1>2 DEF PickUp, JobOK, JobRecords
  <2> HIDE DEF r
  <2>6. RunOK'
    BY <1>0, <2>1, <2>3, <2>4, <2>5, RunUpdate
  <2> QED
    BY <2>1, <2>2, <2>6, TypePartsNext
<1> QED
  BY <1>1, <1>2

LEMMA FaultType ==
    ASSUME TypeOK, NEW w \in Workers, Throw(w) \/ Crash(w) \/ LoseLock(w)
    PROVE  TypeOK'
<1>0. RunOK /\ RestOK
  BY TypeParts
<1>1. UNCHANGED <<row, history, accepted, reported, consumed, hook, lost>>
  BY DEF Throw, Crash, LoseLock, provider, ticks
<1>2. RowOK'
  BY TypeParts, <1>1 DEF RowOK
<1>3. RestOK'
  BY <1>0, <1>1, BoundsAssumption DEF RestOK, Faults, Throw, Crash, LoseLock
<1>4. CASE Throw(w)
  BY <1>2, <1>3, <1>4, UnderWay, FinishType, TypePartsNext DEF Throw, JobStates
<1>5. CASE Crash(w)
  <2>1. run[w].at # "idle" /\ run' = [run EXCEPT ![w] = Idle]
    BY <1>5 DEF Crash
  <2>2. JobOK' /\ ClientsKept
    <3>1. CASE run[w].locked
      <4>1. Stalled(run[w].job)
        BY <3>1, <1>5 DEF Crash
      <4> QED
        BY <2>1, <4>1, UnderWay, StalledType DEF ClientOf
    <3>2. CASE ~run[w].locked
      <4>1. UNCHANGED job
        BY <3>2, <1>5 DEF Crash
      <4> QED
        BY <2>1, <4>1, UnderWay DEF JobOK, ClientsKept
    <3> QED
      BY <3>1, <3>2
  <2> QED
    BY <1>0, <1>2, <1>3, <2>1, <2>2, Gone, TypePartsNext
<1>6. CASE LoseLock(w)
  <2>1. run[w].at # "idle"
    BY <1>0, <1>6 DEF LoseLock, RunOK
  <2>2. JobOK' /\ ClientsKept
    BY <1>6, <2>1, UnderWay, StalledType DEF LoseLock, ClientOf
  <2> DEFINE r == [run[w] EXCEPT !.locked = FALSE]
  <2>3. r \in RunRecords /\ r.at = run[w].at /\ r.job = run[w].job
        /\ r.wamid = run[w].wamid
    BY <2>1, UnderWay DEF RunRecords
  <2>4. run' = [run EXCEPT ![w] = r]
    BY <1>0, <1>6 DEF LoseLock, RunOK, RunRecords
  <2>5. job'[r.job].client \in Clients /\ r.job \in Jobs
        /\ (r.at = "answered" => r.wamid \in Wamids)
    BY <1>0, <2>1, <2>2, <2>3 DEF RunOK, ClientsKept
  <2> HIDE DEF r
  <2>6. RunOK'
    BY <1>0, <2>1, <2>2, <2>3, <2>4, <2>5, RunUpdate
  <2> QED
    BY <1>2, <1>3, <2>2, <2>6, TypePartsNext
<1> QED
  BY <1>4, <1>5, <1>6

LEMMA HookType ==
    ASSUME TypeOK, NEW h \in Hooks, HookStep(h) \/ HookCrash(h)
    PROVE  TypeOK'
<1>0. RowOK /\ JobOK /\ RunOK /\ RestOK
  BY TypeParts
<1>1. UNCHANGED <<job, run, accepted, reported, throws, lost>>
  BY DEF HookStep, ReadTick, ApplyTick, ConsumeTick, HookCrash, provider, budget
<1>2. JobOK' /\ RunOK'
  BY <1>0, <1>1 DEF JobOK, RunOK
<1>3. ASSUME NEW t \in Ticks, ReadTick(h, t) PROVE TypeOK'
  <2>1. hook' \in [Hooks -> HookRecords \cup {None}]
    BY <1>0, <1>3 DEF ReadTick, RestOK, HookRecords, RowsWithWamid
  <2>2. {crashes', late', replays'} \subseteq Nat /\ Faults' <= MaxFaults
    BY <1>0, <1>3, BoundsAssumption DEF ReadTick, RestOK, Faults
  <2> QED
    BY <1>0, <1>1, <1>2, <1>3, <2>1, <2>2, TypePartsNext DEF ReadTick, RowOK, RestOK
<1>4. CASE ApplyTick(h)
  <2>1. hook[h] \in HookRecords /\ hook[h].client \in Clients
        /\ hook[h].tick[2] \in Statuses
    BY <1>0, <1>4 DEF ApplyTick, RestOK, HookRecords, Ticks, DeliveryStatuses
  <2>2. row[hook[h].client].ext \in Wamids \cup {None}
    BY <1>0, <2>1 DEF RowOK, RowRecords
  <2>3. RowOK'
    BY <1>0, <1>4, <2>1, <2>2, CompareAndSetType DEF ApplyTick
  <2>4. hook' \in [Hooks -> HookRecords \cup {None}]
    BY <1>0, <1>4, <2>1 DEF ApplyTick, RestOK, HookRecords
  <2> QED
    BY <1>0, <1>1, <1>2, <1>4, <2>3, <2>4, TypePartsNext DEF ApplyTick, RestOK, Faults, budget
<1>5. CASE ConsumeTick(h)
  <2>1. hook[h] \in HookRecords
    BY <1>0, <1>5 DEF ConsumeTick, RestOK
  <2> QED
    BY <1>0, <1>1, <1>2, <1>5, <2>1, TypePartsNext DEF ConsumeTick, HookRecords,
       RowOK, RestOK, Faults, budget
<1>6. CASE HookCrash(h)
  BY <1>0, <1>1, <1>2, <1>6, BoundsAssumption, TypePartsNext DEF HookCrash,
     RowOK, RestOK, Faults
<1> QED
  BY <1>3, <1>4, <1>5, <1>6 DEF HookStep

LEMMA ReportType ==
    ASSUME TypeOK, NEW x \in Wamids, NEW s \in Reports, Report(x, s)
    PROVE  TypeOK'
<1>1. <<x, s>> \in Ticks
  BY ReportsAssumption DEF Ticks
<1> QED
  BY <1>1, TypeParts, TypePartsNext DEF Report, RowOK, JobOK, RunOK, RestOK,
     Faults, ticks, budget

LEMMA TypeStep == TypeOK /\ [Next]_vars => TypeOK'
<1> SUFFICES ASSUME TypeOK, [Next]_vars PROVE TypeOK'
  OBVIOUS
<1>1. CASE UNCHANGED vars
  BY <1>1, TypeParts, TypePartsNext DEF vars, provider, ticks, budget, RowOK,
     JobOK, RunOK, RestOK, Faults
<1>2. CASE Next
  BY <1>2, QueueType, SaveType, ClaimType, CallType, SettleType, FaultType,
     ReportType, HookType DEF Next, WorkerStep
<1> QED
  BY <1>1, <1>2

\* Type correctness: every run under way has its job and client, and one
\* about to mark a row sent has the wamid of the provider's answer.
THEOREM TypeCorrect == Spec => []TypeOK
<1> QED
  BY TypeInit, TypeStep, PTL DEF Spec
-----------------------------------------------------------------------------
(* The row and its history move along the documented life cycle. *)

LEMMA Ranks ==
    /\ "pending" \in AllowedFrom("sent")
    /\ "pending" \in AllowedFrom("failed")
    /\ {"sent", "failed"} \subseteq DeliveryStatuses
    /\ DeliveryStatuses \subseteq Statuses
    /\ "none" \notin Statuses
BY DEF AllowedFrom, IsStatusAdvance, StatusRank, Statuses, DeliveryStatuses

LifecycleStep == [Lifecycle!Next]_(Lifecycle!vars)

LEMMA RowUntouched ==
    ASSUME UNCHANGED <<row, history>> PROVE LifecycleStep
BY DEF LifecycleStep, Lifecycle!vars

\* A conditional update from statuses the new one may follow is a step of
\* the life cycle, and one that loses its race leaves no trace.
LEMMA UpdateAdvances ==
    ASSUME TypeOK, NEW c \in Clients, NEW s \in DeliveryStatuses,
           NEW from \in SUBSET AllowedFrom(s), NEW ext,
           CompareAndSet(c, from, s, ext)
    PROVE  LifecycleStep
<1>1. CASE row[c].status \in from
  <2>1. row' = [row EXCEPT ![c] = [status |-> s, ext |-> ext]]
        /\ history' = [history EXCEPT ![c] = Append(@, s)]
    BY <1>1 DEF CompareAndSet
  <2>2. [d \in Clients |-> row'[d].status]
           = [[d \in Clients |-> row[d].status] EXCEPT ![c] = s]
    BY <2>1, TypeParts DEF RowOK
  <2>3. Lifecycle!Advance(c, s)
    BY <1>1, <2>1, <2>2 DEF Lifecycle!Advance, Lifecycle!AllowedFrom, AllowedFrom,
       IsStatusAdvance, Lifecycle!IsStatusAdvance, StatusRank, Lifecycle!StatusRank,
       Statuses, Lifecycle!Statuses
  <2> QED
    BY <2>3 DEF LifecycleStep, Lifecycle!Next, Lifecycle!DeliveryStatuses, DeliveryStatuses,
      Lifecycle!Statuses, Statuses
<1>2. CASE row[c].status \notin from
  BY <1>2, RowUntouched DEF CompareAndSet
<1> QED
  BY <1>1, <1>2

LEMMA InsertSaves ==
    ASSUME TypeOK, NEW w \in Workers, Insert(w)
    PROVE  LifecycleStep
<1>0. PICK k \in Clients : k = ClientOf(w)
  BY UnderWay DEF Insert
<1>1. row[k].status = "none" /\ UNCHANGED history
  BY <1>0 DEF Insert
<1>2. row' = [row EXCEPT ![k].status = "pending"]
  BY <1>0 DEF Insert
<1>3. [d \in Clients |-> row'[d].status]
         = [[d \in Clients |-> row[d].status] EXCEPT ![k] = "pending"]
  BY <1>1, <1>2, TypeParts DEF RowOK, RowRecords
<1>4. Lifecycle!Save(k)
  BY <1>1, <1>3 DEF Lifecycle!Save
<1> QED
  BY <1>1, <1>4 DEF LifecycleStep, Lifecycle!Next

LEMMA ClaimRetries ==
    ASSUME TypeOK, NEW w \in Workers, ClaimRetry(w)
    PROVE  LifecycleStep
<1>0. PICK k \in Clients : k = ClientOf(w)
  BY UnderWay DEF ClaimRetry
<1>1. \/ row[k].status \in {"failed"}
         /\ row' = [row EXCEPT ![k] = [status |-> "pending", ext |-> row[k].ext]]
         /\ history' = [history EXCEPT ![k] = Append(@, "pending")]
      \/ row[k].status \notin {"failed"} /\ UNCHANGED <<row, history>>
  BY <1>0 DEF ClaimRetry, CompareAndSet
<1>2. CASE row[k].status = "failed"
  <2>1. row' = [row EXCEPT ![k] = [status |-> "pending", ext |-> row[k].ext]]
        /\ history' = [history EXCEPT ![k] = Append(@, "pending")]
    BY <1>1, <1>2
  <2>2. [d \in Clients |-> row'[d].status]
           = [[d \in Clients |-> row[d].status] EXCEPT ![k] = "pending"]
    BY <1>1, <2>1, TypeParts DEF RowOK
  <2>3. Lifecycle!Retry(k)
    BY <1>1, <1>2, <2>1, <2>2 DEF Lifecycle!Retry
  <2> QED
    BY <1>1, <2>3 DEF LifecycleStep, Lifecycle!Next
<1>3. CASE row[k].status # "failed"
  BY <1>1, <1>3, RowUntouched
<1> QED
  BY <1>2, <1>3

LEMMA SettleAdvances ==
    ASSUME TypeOK, NEW w \in Workers, Settle(w)
    PROVE  LifecycleStep
<1>1. ClientOf(w) \in Clients
  BY UnderWay DEF Settle, MarkSent, MarkSendFailed
<1> QED
  BY <1>1, Ranks, UpdateAdvances DEF Settle, MarkSent, MarkSendFailed

LEMMA TickAdvances ==
    ASSUME TypeOK, NEW h \in Hooks, ApplyTick(h)
    PROVE  LifecycleStep
<1>1. hook[h] \in HookRecords /\ hook[h].client \in Clients
      /\ hook[h].tick[2] \in DeliveryStatuses
  BY TypeParts DEF ApplyTick, RestOK, HookRecords, Ticks
<1> QED
  BY <1>1, UpdateAdvances DEF ApplyTick

LEMMA Refines == TypeOK /\ [Next]_vars => LifecycleStep
<1> SUFFICES ASSUME TypeOK, [Next]_vars PROVE LifecycleStep
  OBVIOUS
<1>1. CASE UNCHANGED vars
  BY <1>1, RowUntouched DEF vars
<1>2. ASSUME NEW w \in Workers, Save(w) PROVE LifecycleStep
  BY <1>2, InsertSaves, RowUntouched DEF Save, FindExisting, FindNothing, InsertLoses
<1>3. ASSUME NEW w \in Workers, Claim(w) PROVE LifecycleStep
  BY <1>3, ClaimRetries, RowUntouched DEF Claim, ClaimCreated, ClaimExisting
<1>4. ASSUME NEW w \in Workers, Call(w) PROVE LifecycleStep
  BY <1>4, RowUntouched DEF Call, RefuseSend, CallProvider, ProviderAnswers,
     AnswerLost, ProviderFaults, ProviderRejects
<1>5. ASSUME NEW w \in Workers, Throw(w) \/ Crash(w) \/ LoseLock(w)
      PROVE  LifecycleStep
  BY <1>5, RowUntouched DEF Throw, Crash, LoseLock
<1>6. ASSUME NEW j \in Jobs, \/ \E c \in Clients : Submit(j, c)
                             \/ \E w \in Workers : PickUp(w, j)
      PROVE  LifecycleStep
  BY <1>6, RowUntouched DEF Submit, PickUp
<1>7. ASSUME NEW x, NEW s, Report(x, s) PROVE LifecycleStep
  BY <1>7, RowUntouched DEF Report
<1>8. ASSUME NEW h \in Hooks, HookStep(h) \/ HookCrash(h) PROVE LifecycleStep
  BY <1>8, TickAdvances, RowUntouched DEF HookStep, ReadTick, ConsumeTick, HookCrash
<1>9. CASE Next
  BY <1>9, <1>2, <1>3, <1>4, <1>5, <1>6, <1>7, <1>8, SettleAdvances DEF Next, WorkerStep
<1> QED
  BY <1>1, <1>9

LEMMA RefinesInit == Init => Lifecycle!Init
BY DEF Init, Lifecycle!Init

\* The pipeline, with its retries, races, crashes and ticks in any order,
\* implements the documented life cycle of the row (docs/database).
THEOREM LifecycleImplemented == Spec => ImplementsLifecycle
<1>1. TypeOK /\ [Next]_vars => [Lifecycle!Next]_(Lifecycle!vars)
  BY Refines DEF LifecycleStep
<1> QED
  BY TypeCorrect, RefinesInit, <1>1, PTL DEF Spec, ImplementsLifecycle,
     Lifecycle!Spec

LEMMA HistoryStep ==
    ASSUME TypeOK, TypeOK', HistoryIsThePath, LifecycleStep
    PROVE  HistoryIsThePath'
<1>0. history \in [Clients -> Seq(Statuses)] /\ row \in [Clients -> RowRecords]
      /\ history' \in [Clients -> Seq(Statuses)] /\ row' \in [Clients -> RowRecords]
  BY TypeParts, TypePartsNext DEF RowOK
<1> SUFFICES ASSUME NEW c \in Clients PROVE Lifecycle!HistoryOf(c)'
  BY DEF HistoryIsThePath
<1>1. Lifecycle!HistoryOf(c)
  BY DEF HistoryIsThePath
<1>2. CASE row'[c].status = row[c].status /\ history'[c] = history[c]
  BY <1>0, <1>1, <1>2 DEF Lifecycle!HistoryOf
<1>3. CASE row[c].status = "none" /\ row'[c].status = "pending"
           /\ history'[c] = history[c]
  BY <1>0, <1>1, <1>3 DEF Lifecycle!HistoryOf, Lifecycle!LastOf
<1>4. ASSUME NEW s \in Statuses, row'[c].status = s,
             row[c].status # "none",
             Lifecycle!LegalStep(row[c].status, s),
             history'[c] = Append(history[c], s)
      PROVE  Lifecycle!HistoryOf(c)'
  <2> DEFINE h == history[c]
  <2>1. h \in Seq(Statuses) /\ Lifecycle!LastOf(h) = row[c].status
    BY <1>0, <1>1, <1>4 DEF Lifecycle!HistoryOf
  <2>2. Len(Append(h, s)) = Len(h) + 1 /\ Append(h, s)[Len(h) + 1] = s
        /\ \A i \in 1..Len(h) : Append(h, s)[i] = h[i]
    BY <2>1
  <2>3. \A i \in 1..Len(h) :
           Lifecycle!LegalStep(IF i = 1 THEN "pending" ELSE h[i-1], h[i])
    BY <1>1 DEF Lifecycle!HistoryOf
  <2>4. Lifecycle!LastOf(Append(h, s)) = s
    <3>1. Append(h, s) # <<>> /\ Len(Append(h, s)) = Len(h) + 1
      BY <2>1, <2>2
    <3> QED
      BY <2>2, <3>1 DEF Lifecycle!LastOf
  <2>5. ASSUME NEW i \in 1..Len(Append(h, s))
        PROVE  Lifecycle!LegalStep(IF i = 1 THEN "pending" ELSE Append(h, s)[i-1],
                                   Append(h, s)[i])
    <3>1. CASE i \in 1..Len(h)
      BY <2>1, <2>2, <2>3, <3>1
    <3>2. CASE i = Len(h) + 1
      <4>1. (IF i = 1 THEN "pending" ELSE Append(h, s)[i-1]) = row[c].status
        BY <2>1, <2>2, <3>2 DEF Lifecycle!LastOf
      <4> QED
        BY <1>4, <2>2, <3>2, <4>1
    <3> QED
      BY <2>1, <2>2, <3>1, <3>2
  <2> HIDE DEF h
  <2> QED
    BY <1>4, <2>4, <2>5, Ranks DEF Lifecycle!HistoryOf, h
<1>5. ASSUME NEW d \in Clients, Lifecycle!Save(d)
      PROVE  Lifecycle!HistoryOf(c)'
  <2>1. /\ row[d].status = "none" /\ row'[d].status = "pending"
        /\ history' = history
        /\ c # d => row'[c].status = row[c].status
    <3>1. [e \in Clients |-> row'[e].status]
             = [[e \in Clients |-> row[e].status] EXCEPT ![d] = "pending"]
      BY <1>5 DEF Lifecycle!Save
    <3> DEFINE was == [e \in Clients |-> row[e].status]
               is  == [e \in Clients |-> row'[e].status]
    <3>2. /\ was[d] = row[d].status /\ is[d] = row'[d].status
          /\ was[c] = row[c].status /\ is[c] = row'[c].status
      OBVIOUS
    <3>3. is[d] = "pending" /\ (c # d => is[c] = was[c])
      BY <3>1
    <3> HIDE DEF was, is
    <3> QED
      BY <1>5, <3>2, <3>3 DEF Lifecycle!Save
  <2> QED
    BY <1>2, <1>3, <2>1
<1>6. ASSUME NEW d \in Clients, NEW s \in Statuses,
             row[d].status # "none",
             Lifecycle!LegalStep(row[d].status, s),
             [e \in Clients |-> row'[e].status]
                 = [[e \in Clients |-> row[e].status] EXCEPT ![d] = s],
             history' = [history EXCEPT ![d] = Append(@, s)]
      PROVE  Lifecycle!HistoryOf(c)'
  <2> DEFINE was == [e \in Clients |-> row[e].status]
             is  == [e \in Clients |-> row'[e].status]
  <2>1. /\ is[d] = row'[d].status
        /\ was[c] = row[c].status /\ is[c] = row'[c].status
    OBVIOUS
  <2>2. is[d] = s /\ (c # d => is[c] = was[c])
    BY <1>6
  <2> HIDE DEF was, is
  <2>3. CASE c = d
    BY <1>0, <1>4, <1>6, <2>1, <2>2, <2>3
  <2>4. CASE c # d
    BY <1>0, <1>2, <1>6, <2>1, <2>2, <2>4
  <2> QED
    BY <2>3, <2>4
<1>7. ASSUME NEW d \in Clients, NEW s \in Lifecycle!DeliveryStatuses,
             Lifecycle!Advance(d, s)
      PROVE  Lifecycle!HistoryOf(c)'
  <2>1. s \in Statuses
    BY <1>7 DEF Lifecycle!DeliveryStatuses, Lifecycle!Statuses, Statuses
  <2>2. row[d].status \in Lifecycle!AllowedFrom(s)
    BY <1>7 DEF Lifecycle!Advance
  <2>3. row[d].status # "none"
    BY <2>2 DEF Lifecycle!AllowedFrom, Lifecycle!Statuses
  <2> QED
    BY <1>6, <1>7, <2>1, <2>2, <2>3 DEF Lifecycle!Advance, Lifecycle!LegalStep
<1>8. ASSUME NEW d \in Clients, Lifecycle!Retry(d)
      PROVE  Lifecycle!HistoryOf(c)'
  <2>1. row[d].status = "failed"
    BY <1>8 DEF Lifecycle!Retry
  <2>2. "pending" \in Statuses
    BY DEF Statuses
  <2> QED
    BY <1>6, <1>8, <2>1, <2>2 DEF Lifecycle!Retry, Lifecycle!LegalStep
<1>9. CASE UNCHANGED Lifecycle!vars
  <2> DEFINE was == [e \in Clients |-> row[e].status]
             is  == [e \in Clients |-> row'[e].status]
  <2>1. was[c] = row[c].status /\ is[c] = row'[c].status
    OBVIOUS
  <2>2. is = was /\ history' = history
    BY <1>9 DEF Lifecycle!vars
  <2> HIDE DEF was, is
  <2> QED
    BY <1>2, <2>1, <2>2
<1> QED
  BY <1>5, <1>7, <1>8, <1>9 DEF LifecycleStep, Lifecycle!Next

LEMMA HistoryInit == Init => HistoryIsThePath
BY DEF Init, HistoryIsThePath, Lifecycle!HistoryOf

\* message_status_events is always the path messages.status walked, for any
\* number of runs, retries and ticks racing on the row.
THEOREM HistoryCorrect == Spec => []HistoryIsThePath
<1>1. TypeOK /\ TypeOK' /\ HistoryIsThePath /\ [Next]_vars => HistoryIsThePath'
  BY Refines, HistoryStep
<1> QED
  BY TypeCorrect, HistoryInit, <1>1, PTL DEF Spec
-----------------------------------------------------------------------------
(***************************************************************************)
(* What the queue keeps of its jobs: who holds a lock, and that no attempt *)
(* is made before a job is over.                                           *)
(***************************************************************************)
Open == {"unused", "waiting", "active"}

\* A lock is held by one run, and its job is taken; a job that is not over has
\* no attempt made, so that no run sees one; and before the first crash or lost
\* lock no run is without its lock and no job has stalled.
LocksHold ==
    /\ \A w \in Workers : run[w].locked => job[run[w].job].state = "active"
    /\ \A v, w \in Workers :
          run[v].locked /\ run[w].locked /\ run[v].job = run[w].job => v = w
    /\ \A w \in Workers : run[w].attemptsMade = 0
    /\ \A j \in Jobs : job[j].state \in Open => job[j].attemptsMade = 0
    /\ crashes = 0 /\ late = 0 => /\ \A w \in Workers : run[w].at # "idle" => run[w].locked
                                  /\ \A j \in Jobs : job[j].stalls = 0

\* A step of run w alone, which goes on, or ends and leaves its job finished.
GoesOnAlone(w) ==
    /\ \A v \in Workers \ {w} : run'[v] = run[v]
    /\ run[w].at # "idle" /\ run'[w].at # "idle"
    /\ run'[w].job = run[w].job /\ run'[w].locked = run[w].locked
    /\ run'[w].attemptsMade \in {0, run[w].attemptsMade}
    /\ UNCHANGED job

Ends(w) == run[w].at # "idle" /\ \E s \in {"completed", "failed"} : Finish(w, s)

LEMMA AtKeeps ==
    ASSUME TypeOK, NEW w \in Workers, run[w].at # "idle", NEW at \in Points \ {"idle"},
           run' = [run EXCEPT ![w] = At(w, at)], UNCHANGED job
    PROVE  GoesOnAlone(w) /\ run'[w].at = at
<1>1. run'[w] = At(w, at) /\ \A v \in Workers \ {w} : run'[v] = run[v]
  BY UnderWay DEF RunOK
<1>2. At(w, at).at = at /\ At(w, at).job = run[w].job /\ At(w, at).locked = run[w].locked
      /\ At(w, at).attemptsMade = 0
  BY DEF At, Idle
<1> QED
  BY <1>1, <1>2 DEF GoesOnAlone

\* What the steps of a live run do to it, to its job and to its row.
LEMMA SaveMoves ==
    ASSUME TypeOK, NEW w \in Workers, Save(w)
    PROVE  /\ GoesOnAlone(w) \/ Ends(w)
           /\ UNCHANGED <<crashes, late, throws>>
           /\ \A c \in Clients \ {ClientOf(w)} : row'[c] = row[c]
           /\ row'[ClientOf(w)].status = "pending" =>
                 \/ GoesOnAlone(w) /\ run'[w].at = "claim" /\ run'[w].created
                 \/ row[ClientOf(w)].status = "pending"
<1>1. run[w].at \in {"lookup", "insert", "refind"}
  BY DEF Save, FindExisting, FindNothing, Insert, InsertLoses
<1>2. /\ run \in [Workers -> RunRecords] /\ run[w] \in RunRecords
      /\ row \in [Clients -> RowRecords] /\ ClientOf(w) \in Clients
  BY <1>1, UnderWay DEF RunOK, RowOK
<1>3. UNCHANGED <<crashes, late, throws>>
  BY DEF Save, FindExisting, FindNothing, Insert, InsertLoses, budget
<1>4. CASE FindExisting(w)
  BY <1>1, <1>2, <1>3, <1>4 DEF FindExisting, GoesOnAlone, RunRecords
<1>5. CASE FindNothing(w)
  <2>1. row' = row /\ row[ClientOf(w)].status = "none"
    BY <1>5 DEF FindNothing
  <2>2. CASE Goto(w, "insert") /\ UNCHANGED job
    BY <1>1, <1>2, <1>3, <2>1, <2>2 DEF Goto, GoesOnAlone, RunRecords
  <2>3. CASE Finish(w, "failed")
    BY <1>1, <1>3, <2>1, <2>3 DEF Ends
  <2> QED
    BY <1>5, <2>2, <2>3 DEF FindNothing
<1>6. CASE Insert(w)
  BY <1>1, <1>2, <1>3, <1>6 DEF Insert, GoesOnAlone, RunRecords
<1>7. CASE InsertLoses(w)
  BY <1>1, <1>2, <1>3, <1>7 DEF InsertLoses, GoesOnAlone, RunRecords
<1> QED
  BY <1>4, <1>5, <1>6, <1>7 DEF Save

LEMMA ClaimMoves ==
    ASSUME TypeOK, NEW w \in Workers, Claim(w)
    PROVE  /\ run[w].at = "claim"
           /\ UNCHANGED <<crashes, late, throws>>
           /\ \A c \in Clients \ {ClientOf(w)} : row'[c] = row[c]
           /\ \/ GoesOnAlone(w) /\ run'[w].at = "owned"
              \/ Ends(w) /\ row' = row /\ ~run[w].created
<1>1. run[w].at = "claim" /\ UNCHANGED <<crashes, late, throws>>
  BY DEF Claim, ClaimCreated, ClaimRetry, ClaimExisting, budget
<1>2. row \in [Clients -> RowRecords] /\ ClientOf(w) \in Clients
  BY <1>1, UnderWay DEF RowOK
<1>3. \A c \in Clients \ {ClientOf(w)} : row'[c] = row[c]
  BY <1>2 DEF Claim, ClaimCreated, ClaimRetry, ClaimExisting, CompareAndSet
<1>4. ASSUME Own(w), UNCHANGED job PROVE GoesOnAlone(w) /\ run'[w].at = "owned"
  BY <1>1, <1>4, AtKeeps DEF Own, Points
<1>5. Return(w) => Ends(w)
  BY <1>1 DEF Return, Ends
<1> QED
  BY <1>1, <1>3, <1>4, <1>5
  DEF Claim, ClaimCreated, ClaimRetry, ClaimExisting, CompareAndSet

LEMMA CallMoves ==
    ASSUME TypeOK, NEW w \in Workers, Call(w)
    PROVE  /\ GoesOnAlone(w) /\ run'[w].at \in Owning
           /\ UNCHANGED <<row, crashes, late, throws>>
<1>1. run[w].at \in {"owned", "calling"} /\ UNCHANGED <<row, crashes, late, throws, job>>
  BY DEF Call, RefuseSend, CallProvider, ProviderAnswers, AnswerLost, Accept,
         ProviderFaults, ProviderRejects, budget
<1>2. run \in [Workers -> RunRecords] /\ run[w] \in RunRecords
  BY <1>1, UnderWay DEF RunOK
<1>3. CASE run' = [run EXCEPT ![w] = At(w, "rejected")]
  BY <1>1, <1>3, AtKeeps DEF Points, Owning
<1>4. CASE NextTry(w)
  <2>1. CASE run' = [run EXCEPT ![w].tries = @ + 1] /\ run[w].at = "calling"
    BY <1>1, <1>2, <2>1 DEF GoesOnAlone, Owning, RunRecords
  <2>2. CASE run' = [run EXCEPT ![w].tries = @ + 1] /\ run[w].at = "owned"
    BY <1>1, <1>2, <2>2 DEF GoesOnAlone, Owning, RunRecords
  <2> QED
    BY <1>1, <1>3, <1>4, <2>1, <2>2 DEF NextTry
<1>5. CASE RefuseSend(w) \/ CallProvider(w)
  BY <1>1, <1>2, <1>5 DEF RefuseSend, CallProvider, Goto, GoesOnAlone, Owning, RunRecords
<1>6. ASSUME NEW x \in Wamids, ProviderAnswers(w, x)
      PROVE  GoesOnAlone(w) /\ run'[w].at \in Owning
  <2>1. run'[w] = [At(w, "answered") EXCEPT !.wamid = x]
        /\ \A v \in Workers \ {w} : run'[v] = run[v]
    BY <1>2, <1>6 DEF ProviderAnswers
  <2>2. run'[w].at = "answered" /\ run'[w].job = run[w].job
        /\ run'[w].locked = run[w].locked /\ run'[w].attemptsMade = 0
    BY <2>1 DEF At, Idle
  <2> QED
    BY <1>1, <2>1, <2>2 DEF GoesOnAlone, Owning
<1> QED
  BY <1>1, <1>3, <1>4, <1>5, <1>6
  DEF Call, AnswerLost, ProviderFaults, ProviderRejects

LEMMA SettleMoves ==
    ASSUME TypeOK, NEW w \in Workers, Settle(w)
    PROVE  /\ Ends(w)
           /\ UNCHANGED <<crashes, late, throws>>
           /\ \A c \in Clients \ {ClientOf(w)} : row'[c] = row[c]
           /\ row'[ClientOf(w)].status # "pending"
<1>1. run[w].at # "idle" /\ UNCHANGED <<crashes, late, throws>> /\ Return(w)
  BY DEF Settle, MarkSent, MarkSendFailed, budget
<1>2. row \in [Clients -> RowRecords] /\ ClientOf(w) \in Clients
  BY <1>1, UnderWay DEF RowOK
<1> QED
  BY <1>1, <1>2 DEF Settle, MarkSent, MarkSendFailed, CompareAndSet, Return, Ends

\* Seen from the locks: a run goes on with its lock, its job as it was.
LEMMA LocksGoOn ==
    ASSUME TypeOK, LocksHold, NEW w \in Workers, GoesOnAlone(w), UNCHANGED <<crashes, late>>
    PROVE  LocksHold'
<1>1. \A v \in Workers : /\ run'[v].locked = run[v].locked /\ run'[v].job = run[v].job
                         /\ run'[v].at = "idle" <=> run[v].at = "idle"
                         /\ run'[v].attemptsMade = 0
  BY DEF GoesOnAlone, LocksHold
<1> QED
  BY <1>1 DEF LocksHold, GoesOnAlone

\* A run that ends gives its lock back; its job is over, unless it stalled.
LEMMA LocksEnd ==
    ASSUME TypeOK, LocksHold, NEW w \in Workers, run[w].at # "idle",
           run' = [run EXCEPT ![w] = Idle],
           \/ UNCHANGED job
           \/ /\ run[w].locked
              /\ \A j \in Jobs \ {run[w].job} : job'[j] = job[j]
              /\ \/ job'[run[w].job].state \in {"completed", "failed"}
                 \/ job'[run[w].job].attemptsMade = job[run[w].job].attemptsMade
              /\ \/ ~(crashes' = 0 /\ late' = 0)
                 \/ job'[run[w].job].stalls = job[run[w].job].stalls,
           crashes' = 0 /\ late' = 0 => crashes = 0 /\ late = 0
    PROVE  LocksHold'
<1>1. run'[w] = Idle /\ ~run'[w].locked /\ run'[w].at = "idle" /\ run'[w].attemptsMade = 0
      /\ \A v \in Workers \ {w} : run'[v] = run[v]
  BY IdleType DEF TypeOK, RunOK, Idle
<1>2. \A v \in Workers : run[v].locked => run[v].job \in Jobs
  BY DEF TypeOK, RunOK
<1>3. ASSUME NEW v \in Workers, run'[v].locked
      PROVE  job'[run'[v].job].state = "active"
  BY <1>1, <1>2, <1>3 DEF LocksHold
<1>4. ASSUME NEW u \in Workers, NEW v \in Workers, run'[u].locked, run'[v].locked,
             run'[u].job = run'[v].job
      PROVE  u = v
  BY <1>1, <1>4 DEF LocksHold
<1>5. \A v \in Workers : run'[v].attemptsMade = 0
  BY <1>1 DEF LocksHold
<1>6. ASSUME NEW j \in Jobs, job'[j].state \in Open PROVE job'[j].attemptsMade = 0
  <2>1. CASE job'[j] = job[j]
    BY <1>6, <2>1 DEF LocksHold
  <2>2. CASE /\ run[w].locked /\ j = run[w].job
             /\ job'[j].attemptsMade = job[j].attemptsMade
    BY <2>2 DEF LocksHold, Open
  <2> QED
    BY <1>2, <1>6, <2>1, <2>2 DEF Open
<1>7. ASSUME crashes' = 0 /\ late' = 0
      PROVE  /\ \A v \in Workers : run'[v].at # "idle" => run'[v].locked
             /\ \A j \in Jobs : job'[j].stalls = 0
  BY <1>1, <1>2, <1>7 DEF LocksHold
<1> QED
  BY <1>3, <1>4, <1>5, <1>6, <1>7 DEF LocksHold

LEMMA LocksStep ==
    ASSUME TypeOK, LocksHold, [Next]_vars
    PROVE  LocksHold'
<1>0. /\ run \in [Workers -> RunRecords] /\ job \in [Jobs -> JobRecords]
      /\ \A v \in Workers : run[v].locked => run[v].job \in Jobs /\ run[v].at # "idle"
      /\ crashes \in Nat /\ late \in Nat
  BY DEF TypeOK, RunOK, JobOK
<1>1. ASSUME NEW w \in Workers, Ends(w), UNCHANGED <<crashes, late>> PROVE LocksHold'
  <2>1. run' = [run EXCEPT ![w] = Idle]
    BY <1>1 DEF Ends, Finish
  <2>2. \/ UNCHANGED job
        \/ /\ run[w].locked
           /\ \A j \in Jobs \ {run[w].job} : job'[j] = job[j]
           /\ job'[run[w].job].state \in {"completed", "failed"}
           /\ job'[run[w].job].stalls = job[run[w].job].stalls
    BY <1>0, <1>1 DEF Ends, Finish, JobRecords
  <2> QED
    BY <1>1, <2>1, <2>2, LocksEnd DEF Ends
<1>2. ASSUME NEW w \in Workers, Save(w) \/ Claim(w) \/ Call(w) \/ Settle(w) PROVE LocksHold'
  BY <1>1, <1>2, SaveMoves, ClaimMoves, CallMoves, SettleMoves, LocksGoOn
<1>3. ASSUME NEW w \in Workers, Throw(w) PROVE LocksHold'
  BY <1>1, <1>3 DEF Throw, Ends
<1>4. ASSUME NEW w \in Workers, NEW j \in Jobs, PickUp(w, j) PROVE LocksHold'
  <2>1. /\ run'[w].job = j /\ run'[w].at = "lookup" /\ run'[w].locked
        /\ run'[w].attemptsMade = job[j].attemptsMade
        /\ \A v \in Workers \ {w} : run'[v] = run[v]
        /\ job[j].state = "waiting" /\ job'[j].state = "active"
        /\ job'[j].attemptsMade = job[j].attemptsMade
        /\ job'[j].stalls = job[j].stalls
        /\ \A i \in Jobs \ {j} : job'[i] = job[i]
        /\ UNCHANGED <<crashes, late>>
    BY <1>0, <1>4 DEF PickUp, Idle, JobRecords, budget
  <2>2. \A v \in Workers : run[v].locked => run[v].job # j
    BY <2>1 DEF LocksHold
  <2>3. job[j].attemptsMade = 0
    BY <2>1 DEF LocksHold, Open
  <2> QED
    BY <1>0, <2>1, <2>2, <2>3 DEF LocksHold
<1>5. ASSUME NEW j \in Jobs, NEW c \in Clients, Submit(j, c) PROVE LocksHold'
  <2>1. /\ job[j].state = "unused" /\ job'[j].attemptsMade = job[j].attemptsMade
        /\ job'[j].stalls = job[j].stalls
        /\ \A i \in Jobs \ {j} : job'[i] = job[i]
        /\ UNCHANGED <<run, crashes, late>>
    BY <1>0, <1>5 DEF Submit, JobRecords, budget
  <2>2. \A v \in Workers : run[v].locked => run[v].job # j
    BY <2>1 DEF LocksHold
  <2>3. job[j].attemptsMade = 0
    BY <2>1 DEF LocksHold, Open
  <2> QED
    BY <1>0, <2>1, <2>2, <2>3 DEF LocksHold
<1>6. ASSUME NEW w \in Workers, Crash(w) PROVE LocksHold'
  <2>1. /\ run[w].at # "idle" /\ run' = [run EXCEPT ![w] = Idle]
        /\ ~(crashes' = 0 /\ late' = 0)
        /\ \/ UNCHANGED job
           \/ /\ run[w].locked /\ \A j \in Jobs \ {run[w].job} : job'[j] = job[j]
              /\ job'[run[w].job].attemptsMade = job[run[w].job].attemptsMade
    BY <1>0, <1>6 DEF Crash, Stalled, JobRecords
  <2> QED
    BY <2>1, LocksEnd
<1>7. ASSUME NEW w \in Workers, LoseLock(w) PROVE LocksHold'
  <2>1. /\ run[w].locked /\ ~run'[w].locked /\ run'[w].job = run[w].job
        /\ run'[w].attemptsMade = run[w].attemptsMade
        /\ \A v \in Workers \ {w} : run'[v] = run[v]
        /\ \A j \in Jobs \ {run[w].job} : job'[j] = job[j]
        /\ job'[run[w].job].attemptsMade = job[run[w].job].attemptsMade
        /\ ~(crashes' = 0 /\ late' = 0)
    BY <1>0, <1>7 DEF LoseLock, Stalled, RunRecords, JobRecords
  <2>2. job[run[w].job].attemptsMade = 0
    BY <1>0, <2>1 DEF LocksHold, Open
  <2> QED
    BY <1>0, <2>1, <2>2 DEF LocksHold
<1>8. ASSUME UNCHANGED <<run, job, crashes, late>> PROVE LocksHold'
  BY <1>8 DEF LocksHold
<1>9. CASE UNCHANGED vars
  BY <1>8, <1>9 DEF vars, budget
<1>10. ASSUME NEW x \in Wamids, NEW s \in Reports, Report(x, s) PROVE LocksHold'
  BY <1>8, <1>10 DEF Report, budget
<1>11. ASSUME NEW h \in Hooks, HookStep(h) \/ HookCrash(h) PROVE LocksHold'
  BY <1>8, <1>11 DEF HookStep, ReadTick, ApplyTick, ConsumeTick, HookCrash, budget
<1> QED
  BY <1>2, <1>3, <1>4, <1>5, <1>6, <1>7, <1>9, <1>10, <1>11 DEF Next, WorkerStep

LEMMA LocksInit == Init => LocksHold
BY DEF Init, LocksHold, Idle

LEMMA LocksInv == Spec => [](TypeOK /\ LocksHold)
<1>1. TypeOK /\ LocksHold /\ [Next]_vars => LocksHold'
  BY LocksStep
<1> QED
  BY TypeCorrect, LocksInit, <1>1, PTL DEF Spec

\* No run ever sees an attempt made: the queue hands a job out again only
\* where it stalled, and a stall is no attempt, so that the branch of claimSend
\* that takes over the pending row of a dead attempt is never entered.
THEOREM NoRunTakesOver == Spec => [](\A w \in Workers : run[w].attemptsMade = 0)
<1>1. LocksHold => \A w \in Workers : run[w].attemptsMade = 0
  BY DEF LocksHold
<1> QED
  BY LocksInv, <1>1, PTL
-----------------------------------------------------------------------------
(***************************************************************************)
(* Counting owners and copies.  What may still become a provider call of a *)
(* client's row is a set of tokens: each step hands a token on, drops it,  *)
(* or adds one that a repeated tick, a lost answer or a retry pays for.    *)
(***************************************************************************)

\* A set after a step: smaller, with one member handed on, or with one more.
Kept(S, T)   == T \subseteq S
Passed(S, T) == \E a \in S : \E b : T \subseteq (S \ {a}) \cup {b}
Gained(S, T) == \E b : T \subseteq S \cup {b}

AtMost(S, n) == IsFiniteSet(S) /\ Cardinality(S) <= n

LEMMA KeptBound ==
    ASSUME NEW S, NEW T, NEW n \in Nat, AtMost(S, n), Kept(S, T)
    PROVE  AtMost(T, n)
<1>1. IsFiniteSet(S) /\ T \in SUBSET S
  BY DEF AtMost, Kept
<1>2. IsFiniteSet(T) /\ Cardinality(T) <= Cardinality(S)
  BY <1>1, FS_Subset
<1> QED
  BY <1>1, <1>2, FS_CardinalityType DEF AtMost

LEMMA GainedBound ==
    ASSUME NEW S, NEW T, NEW n \in Nat, AtMost(S, n), Gained(S, T)
    PROVE  AtMost(T, n + 1)
<1>1. PICK b : T \subseteq S \cup {b}
  BY DEF Gained
<1>2. IsFiniteSet(S) /\ Cardinality(S) \in Nat /\ Cardinality(S) <= n
  BY FS_CardinalityType DEF AtMost
<1>3. IsFiniteSet(S \cup {b}) /\ Cardinality(S \cup {b}) <= n + 1
  BY <1>2, FS_AddElement
<1> QED
  BY <1>1, <1>3, KeptBound DEF AtMost, Kept

LEMMA PassedBound ==
    ASSUME NEW S, NEW T, NEW n \in Nat, AtMost(S, n), Passed(S, T)
    PROVE  AtMost(T, n)
<1>1. PICK a \in S : \E b : T \subseteq (S \ {a}) \cup {b}
  BY DEF Passed
<1>2. IsFiniteSet(S) /\ Cardinality(S) \in Nat /\ Cardinality(S) <= n
  BY FS_CardinalityType DEF AtMost
<1>3. Cardinality(S) # 0
  BY <1>1, <1>2, FS_EmptySet
<1>4. IsFiniteSet(S \ {a}) /\ Cardinality(S \ {a}) = Cardinality(S) - 1
  BY <1>1, <1>2, FS_RemoveElement
<1>5. AtMost(S \ {a}, n - 1) /\ n - 1 \in Nat
  BY <1>2, <1>3, <1>4 DEF AtMost
<1>6. AtMost(T, n - 1 + 1)
  BY <1>1, <1>5, GainedBound DEF Gained
<1> QED
  BY <1>6

\* The members of one kind are no more than all of them.
LEMMA TaggedBound ==
    ASSUME NEW S, NEW T, NEW tag, NEW n \in Nat, AtMost(T, n), {tag} \X S \subseteq T
    PROVE  AtMost(S, n)
<1> DEFINE D == {tag} \X S
           f == [p \in D |-> p[2]]
<1>1. AtMost(D, n)
  BY KeptBound DEF Kept
<1>2. f \in Surjection(D, S)
  <2>1. f \in [D -> S]
    OBVIOUS
  <2>2. ASSUME NEW s \in S PROVE \E d \in D : f[d] = s
    <3>1. <<tag, s>> \in D /\ f[<<tag, s>>] = s
      OBVIOUS
    <3> QED
      BY <3>1
  <2> HIDE DEF f, D
  <2> QED
    BY <2>1, <2>2 DEF Surjection
<1>3. IsFiniteSet(S) /\ Cardinality(S) <= Cardinality(D)
  BY <1>1, <1>2, FS_Surjection DEF AtMost
<1> QED
  BY <1>1, <1>3, FS_CardinalityType DEF AtMost
-----------------------------------------------------------------------------
Works(w, c) == run[w].at # "idle" /\ ClientOf(w) = c

\* A run that owns the call of its row, or is about to.
MayOwn(w) == run[w].at \in Owning \/ run[w].created

\* A run that may still have a copy accepted.
MayCall(w) == \/ run[w].at \in {"owned", "calling"}
              \/ run[w].at \notin Owning /\ run[w].created

OwningRuns(c)  == {w \in Workers : Works(w, c) /\ MayOwn(w)}
CallingRuns(c) == {w \in Workers : Works(w, c) /\ MayCall(w)}

\* The failure of the copy a row stands for, on its way or still to come: it
\* takes the row to failed, and a retry may follow.
Failure(c) == <<row[c].ext, "failed">>
FailingHooks(c) == {h \in Hooks : /\ hook[h] # None
                                  /\ hook[h].client = c
                                  /\ hook[h].tick[2] = "failed"}
MayFail(c) == {d \in {c} : /\ row[c].ext # None
                           /\ Failure(c) \notin consumed
                           /\ ~InFlight(Failure(c))}

\* A row that a run may take: not inserted, or failed.
FreeRow(c)   == {d \in {c} : row[c].status \in {"none", "failed"}}
UnsavedRow(c) == {d \in {c} : row[c].status = "none"}

Tokens(c) ==
    ({"run"} \X OwningRuns(c)) \cup ({"hook"} \X FailingHooks(c))
        \cup ({"tick"} \X MayFail(c)) \cup ({"row"} \X FreeRow(c))

CopyTokens(c) ==
    ({"run"} \X CallingRuns(c)) \cup ({"copy"} \X Copies(c))
        \cup ({"row"} \X UnsavedRow(c))

\* No run works on a job that was not submitted, and the ticks being applied
\* were reported.
JobsNamed ==
    /\ \A w \in Workers : run[w].at # "idle" => job[run[w].job].state # "unused"
    /\ \A h \in Hooks : hook[h] # None => hook[h].tick \in reported

LEMMA JobsNamedInit == Init => JobsNamed
BY DEF Init, JobsNamed, Idle

\* A submitted job stays submitted and keeps its client.
JobsKept ==
    \A j \in Jobs : job[j].state # "unused" =>
        job'[j].state # "unused" /\ job'[j].client = job[j].client

LEMMA FinishKeeps ==
    ASSUME TypeOK, JobsNamed, NEW w \in Workers, run[w].at # "idle",
           NEW s \in {"completed", "failed"}, Finish(w, s)
    PROVE  /\ JobsKept
           /\ run' = [run EXCEPT ![w] = Idle]
BY UnderWay DEF Finish, JobsKept, JobsNamed, JobOK, JobRecords

LEMMA StalledKeeps ==
    ASSUME TypeOK, JobsNamed, NEW w \in Workers, run[w].at # "idle", Stalled(run[w].job)
    PROVE  /\ JobsKept
           /\ \A j \in Jobs \ {run[w].job} : job'[j] = job[j]
           /\ job'[run[w].job].state \in {"waiting", "failed"}
BY UnderWay DEF Stalled, JobsKept, JobsNamed, JobOK, JobRecords
-----------------------------------------------------------------------------
\* Only run w moves, and it gains no right to a call.
Quietly(w) ==
    /\ \A v \in Workers \ {w} : run'[v] = run[v]
    /\ \/ run'[w].at = "idle"
       \/ /\ run'[w].job = run[w].job
          /\ run[w].at # "idle"
          /\ MayOwn(w)' => MayOwn(w)
          /\ MayCall(w)' => MayCall(w)

LEMMA OtherRuns ==
    ASSUME TypeOK, JobsNamed, JobsKept, NEW c, NEW v \in Workers, run'[v] = run[v]
    PROVE  /\ v \in OwningRuns(c)' <=> v \in OwningRuns(c)
           /\ v \in CallingRuns(c)' <=> v \in CallingRuns(c)
BY UnderWay DEF OwningRuns, CallingRuns, Works, ClientOf, MayOwn, MayCall,
                JobsKept, JobsNamed

LEMMA QuietRuns ==
    ASSUME TypeOK, JobsNamed, JobsKept, NEW c, NEW w \in Workers, Quietly(w)
    PROVE  /\ OwningRuns(c)' \subseteq OwningRuns(c)
           /\ CallingRuns(c)' \subseteq CallingRuns(c)
<1>1. ASSUME NEW v \in Workers \ {w}
      PROVE  /\ v \in OwningRuns(c)' => v \in OwningRuns(c)
             /\ v \in CallingRuns(c)' => v \in CallingRuns(c)
  BY <1>1, OtherRuns DEF Quietly
<1>2. /\ w \in OwningRuns(c)' => w \in OwningRuns(c)
      /\ w \in CallingRuns(c)' => w \in CallingRuns(c)
  BY UnderWay DEF Quietly, OwningRuns, CallingRuns, Works, ClientOf, JobsKept, JobsNamed
<1> QED
  BY <1>1, <1>2 DEF OwningRuns, CallingRuns

LEMMA JobsStill == ASSUME UNCHANGED job PROVE JobsKept
BY DEF JobsKept

LEMMA FinishEnds ==
    ASSUME TypeOK, JobsNamed, NEW w \in Workers, run[w].at # "idle",
           NEW s \in {"completed", "failed"}, Finish(w, s)
    PROVE  JobsKept /\ Quietly(w) /\ run'[w] = Idle
<1>1. run' = [run EXCEPT ![w] = Idle]
  BY FinishKeeps
<1>2. run'[w] = Idle /\ \A v \in Workers \ {w} : run'[v] = run[v]
  BY <1>1, UnderWay DEF RunOK
<1> QED
  BY <1>2, FinishKeeps, IdleType DEF Quietly

\* The row and its ticks as they were.
LEMMA RowStill ==
    ASSUME UNCHANGED <<row, hook, consumed>>, NEW c \in Clients
    PROVE  /\ FailingHooks(c)' = FailingHooks(c)
           /\ MayFail(c)' = MayFail(c)
           /\ FreeRow(c)' = FreeRow(c)
           /\ UnsavedRow(c)' = UnsavedRow(c)
BY DEF FailingHooks, MayFail, FreeRow, UnsavedRow, Failure, InFlight

\* A step of one run that neither gains a right nor touches the row.
LEMMA QuietStep ==
    ASSUME TypeOK, JobsNamed, NEW w \in Workers, NEW c \in Clients, Quietly(w),
           JobsKept, UNCHANGED <<row, hook, consumed>>
    PROVE  /\ Kept(Tokens(c), Tokens(c)')
           /\ UNCHANGED accepted => Kept(CopyTokens(c), CopyTokens(c)')
<1>1. /\ OwningRuns(c)' \subseteq OwningRuns(c)
      /\ CallingRuns(c)' \subseteq CallingRuns(c)
  BY QuietRuns
<1>3. Kept(Tokens(c), Tokens(c)')
  BY <1>1, RowStill DEF Kept, Tokens
<1>4. ASSUME UNCHANGED accepted PROVE Kept(CopyTokens(c), CopyTokens(c)')
  BY <1>1, <1>4, RowStill DEF Kept, CopyTokens, Copies
<1> QED
  BY <1>3, <1>4
-----------------------------------------------------------------------------
\* How the tokens of a client change in a step, and what pays for a new one.
TokenStep(c) ==
    \/ Kept(Tokens(c), Tokens(c)')
    \/ Passed(Tokens(c), Tokens(c)')
    \/ Gained(Tokens(c), Tokens(c)') /\ replays' = replays + 1

CopyStep(c) ==
    \/ Kept(CopyTokens(c), CopyTokens(c)')
    \/ Passed(CopyTokens(c), CopyTokens(c)')
    \/ /\ Gained(CopyTokens(c), CopyTokens(c)')
       /\ \/ lost' = lost + 1
          \/ Retries(c)' = Retries(c) + 1

\* Save, claim and call up to the answer: no step of these gains a right.
LEMMA SaveQuiet ==
    ASSUME TypeOK, JobsNamed, NEW w \in Workers,
           FindExisting(w) \/ FindNothing(w) \/ InsertLoses(w)
    PROVE  Quietly(w) /\ JobsKept /\ UNCHANGED <<row, hook, consumed, accepted>>
<1>1. UNCHANGED <<row, hook, consumed, accepted>>
  BY DEF FindExisting, FindNothing, InsertLoses, provider, ticks
<1>2. run[w].at \in {"lookup", "refind", "insert"} /\ run[w] \in RunRecords
      /\ run \in [Workers -> RunRecords]
  BY UnderWay DEF FindExisting, FindNothing, InsertLoses, RunOK
<1>3. CASE FindExisting(w) \/ InsertLoses(w)
  BY <1>1, <1>2, <1>3, JobsStill
  DEF FindExisting, InsertLoses, Quietly, MayOwn, MayCall, Owning, RunRecords
<1>4. CASE FindNothing(w)
  <2>1. CASE Goto(w, "insert") /\ UNCHANGED job
    BY <1>1, <1>2, <2>1, JobsStill
    DEF Goto, Quietly, MayOwn, MayCall, Owning, RunRecords
  <2>2. CASE Finish(w, "failed")
    BY <1>1, <1>2, <2>2, FinishEnds
  <2> QED
    BY <1>4, <2>1, <2>2 DEF FindNothing
<1> QED
  BY <1>3, <1>4

LEMMA OwnQuiet ==
    ASSUME TypeOK, JobsNamed, NEW w \in Workers, run[w].at # "idle",
           MayOwn(w), MayCall(w), Own(w), UNCHANGED job
    PROVE  Quietly(w) /\ JobsKept
<1>1. run'[w] = At(w, "owned") /\ \A v \in Workers \ {w} : run'[v] = run[v]
  BY UnderWay DEF Own, RunOK
<1>2. run'[w].job = run[w].job
  BY <1>1, UnderWay, AtType DEF Points
<1> QED
  BY <1>1, <1>2, JobsStill DEF Quietly

LEMMA ClaimQuiet ==
    ASSUME TypeOK, JobsNamed, LocksHold, NEW w \in Workers,
           ClaimCreated(w) \/ ClaimExisting(w)
    PROVE  Quietly(w) /\ JobsKept /\ UNCHANGED <<row, hook, consumed, accepted>>
<1>1. UNCHANGED <<row, hook, consumed, accepted>>
  BY DEF ClaimCreated, ClaimExisting, provider, ticks
<1>2. run[w].at = "claim" /\ run[w].at \notin Owning
  BY DEF ClaimCreated, ClaimExisting, Owning
<1>3. CASE ClaimCreated(w)
  BY <1>1, <1>2, <1>3, OwnQuiet DEF ClaimCreated, MayOwn, MayCall
<1>4. CASE ClaimExisting(w)
  <2>1. Finish(w, "completed")
    BY <1>4 DEF ClaimExisting, LocksHold, Return
  <2> QED
    BY <1>1, <1>2, <2>1, FinishEnds
<1> QED
  BY <1>3, <1>4

\* The loser of a retry.
LEMMA RetryLost ==
    ASSUME TypeOK, JobsNamed, NEW w \in Workers, ClaimRetry(w),
           row[ClientOf(w)].status # "failed"
    PROVE  Quietly(w) /\ JobsKept /\ UNCHANGED <<row, hook, consumed, accepted>>
<1>1. UNCHANGED <<row, hook, consumed, accepted>> /\ run[w].at # "idle" /\ Finish(w, "completed")
  BY DEF ClaimRetry, CompareAndSet, provider, ticks, Return
<1> QED
  BY <1>1, FinishEnds

LEMMA AtJob ==
    ASSUME NEW w, NEW at
    PROVE  /\ At(w, at).job = run[w].job
           /\ \A x : [At(w, at) EXCEPT !.wamid = x].job = run[w].job
BY DEF At, Idle

\* A run that moves on from the call, or tries it again.
LEMMA CallQuiet ==
    ASSUME TypeOK, JobsNamed, NEW w \in Workers, run[w].at \in {"owned", "calling"},
           UNCHANGED job,
           \/ Goto(w, "rejected") \/ NextTry(w)
           \/ run' = [run EXCEPT ![w].at = "calling", ![w].tries = 1]
           \/ run' = [run EXCEPT ![w] = At(w, "rejected")]
           \/ \E x \in Wamids : run' = [run EXCEPT ![w] = [At(w, "answered") EXCEPT !.wamid = x]]
    PROVE  Quietly(w) /\ JobsKept
<1>1. run \in [Workers -> RunRecords] /\ run[w] \in RunRecords
  BY UnderWay DEF RunOK
<1>2. MayOwn(w) /\ MayCall(w) /\ run[w].at # "idle"
  BY DEF MayOwn, MayCall, Owning
<1>3. /\ At(w, "rejected").job = run[w].job
      /\ \A x \in Wamids : [At(w, "answered") EXCEPT !.wamid = x].job = run[w].job
  BY AtJob
<1>4. run'[w].job = run[w].job /\ \A v \in Workers \ {w} : run'[v] = run[v]
  <2>1. CASE run' = [run EXCEPT ![w] = At(w, "rejected")]
    BY <1>1, <1>3, <2>1
  <2>2. CASE Goto(w, "rejected")
    BY <1>1, <2>2 DEF Goto, RunRecords
  <2>3. CASE NextTry(w)
    <3>1. CASE run' = [run EXCEPT ![w].tries = @ + 1]
      BY <1>1, <3>1 DEF RunRecords
    <3> QED
      BY <2>1, <2>3, <3>1 DEF NextTry
  <2>4. CASE run' = [run EXCEPT ![w].at = "calling", ![w].tries = 1]
    BY <1>1, <2>4 DEF RunRecords
  <2>5. ASSUME NEW x \in Wamids,
               run' = [run EXCEPT ![w] = [At(w, "answered") EXCEPT !.wamid = x]]
        PROVE  run'[w].job = run[w].job /\ \A v \in Workers \ {w} : run'[v] = run[v]
    BY <1>1, <1>3, <2>5
  <2> QED
    BY <2>1, <2>2, <2>3, <2>4, <2>5
<1> QED
  BY <1>2, <1>4, JobsStill DEF Quietly

LEMMA ThrowQuiet ==
    ASSUME TypeOK, JobsNamed, NEW w \in Workers, Throw(w)
    PROVE  Quietly(w) /\ JobsKept /\ UNCHANGED <<row, hook, consumed, accepted>>
BY FinishEnds DEF Throw, provider, ticks
-----------------------------------------------------------------------------
LEMMA RetriesStep ==
    ASSUME RowOK, NEW c \in Clients, NEW s \in Statuses,
           history'[c] = Append(history[c], s)
    PROVE  /\ Retries(c) \in Nat
           /\ Retries(c)' = IF s = "pending" THEN Retries(c) + 1 ELSE Retries(c)
<1> DEFINE n  == Len(history[c])
           S  == {i \in 1..n : history[c][i] = "pending"}
           T  == {i \in 1..Len(history'[c]) : history'[c][i] = "pending"}
<1>1. n \in Nat /\ Len(history'[c]) = n + 1 /\ history'[c][n + 1] = s
      /\ \A i \in 1..n : history'[c][i] = history[c][i]
  BY DEF RowOK
<1>2. T = IF s = "pending" THEN S \cup {n + 1} ELSE S
  BY <1>1
<1>3. n + 1 \notin S
  BY <1>1
<1>4. S \in SUBSET (1..n) /\ IsFiniteSet(1..n)
  <2>1. n \in Int /\ 1 \in Int
    BY <1>1
  <2> QED
    BY <2>1, FS_Interval
<1>5. IsFiniteSet(S) /\ Cardinality(S) \in Nat
  BY <1>4, FS_Subset, FS_CardinalityType
<1>6. Cardinality(S \cup {n + 1}) = Cardinality(S) + 1
  BY <1>3, <1>5, FS_AddElement
<1> HIDE DEF S, T, n
<1>7. Cardinality(T) = IF s = "pending" THEN Cardinality(S) + 1 ELSE Cardinality(S)
  BY <1>2, <1>6
<1> QED
  BY <1>5, <1>7 DEF Retries, S, T, n

\* Only run w moves, within its job.
Moves(w) ==
    /\ \A v \in Workers \ {w} : run'[v] = run[v]
    /\ run'[w].at # "idle" => run'[w].job = run[w].job
    /\ run[w].at # "idle"

LEMMA MovingRuns ==
    ASSUME TypeOK, JobsNamed, JobsKept, NEW c, NEW w \in Workers, Moves(w)
    PROVE  /\ OwningRuns(c)' \subseteq OwningRuns(c) \cup {w}
           /\ CallingRuns(c)' \subseteq CallingRuns(c) \cup {w}
           /\ c # ClientOf(w) \/ run'[w].at = "idle" =>
                  /\ OwningRuns(c)' \subseteq OwningRuns(c) \ {w}
                  /\ CallingRuns(c)' \subseteq CallingRuns(c) \ {w}
<1>1. ASSUME NEW v \in Workers \ {w}
      PROVE  /\ v \in OwningRuns(c)' => v \in OwningRuns(c)
             /\ v \in CallingRuns(c)' => v \in CallingRuns(c)
  BY <1>1, OtherRuns DEF Moves
<1>2. /\ OwningRuns(c)' \subseteq Workers
      /\ CallingRuns(c)' \subseteq Workers
  BY DEF OwningRuns, CallingRuns
<1>3. c # ClientOf(w) \/ run'[w].at = "idle" => w \notin OwningRuns(c)' \cup CallingRuns(c)'
  BY UnderWay DEF Moves, OwningRuns, CallingRuns, Works, ClientOf, JobsKept, JobsNamed
<1> QED
  BY <1>1, <1>2, <1>3

LEMMA InsertTokens ==
    ASSUME TypeOK, JobsNamed, NEW w \in Workers, Insert(w), NEW c \in Clients
    PROVE  TokenStep(c) /\ CopyStep(c)
<1> DEFINE d == ClientOf(w)
<1>1. /\ run \in [Workers -> RunRecords] /\ run[w] \in RunRecords
      /\ row \in [Clients -> RowRecords] /\ d \in Clients
      /\ run[w].at # "idle"
  BY UnderWay DEF Insert, RunOK, RowOK
<1>2. Moves(w) /\ JobsKept
  BY <1>1 DEF Insert, Moves, JobsKept, RunRecords
<1>3. /\ row[d].status = "none" /\ row'[d].status = "pending"
      /\ row'[d].ext = row[d].ext
      /\ \A e \in Clients \ {d} : row'[e] = row[e]
      /\ UNCHANGED <<job, hook, consumed, accepted>>
  BY <1>1 DEF Insert, RowRecords, provider, ticks
<1> HIDE DEF d
<1>4. /\ FailingHooks(c)' = FailingHooks(c)
      /\ MayFail(c)' = MayFail(c)
      /\ Copies(c)' = Copies(c)
  <2>1. row'[c].ext = row[c].ext
    BY <1>3
  <2> QED
    BY <1>3, <2>1 DEF FailingHooks, MayFail, Failure, InFlight, Copies
<1>5. CASE c = d
  <2>1. FreeRow(c) = {c} /\ UnsavedRow(c) = {c} /\ FreeRow(c)' = {} /\ UnsavedRow(c)' = {}
    BY <1>3, <1>5 DEF FreeRow, UnsavedRow
  <2>2. /\ <<"row", c>> \in Tokens(c)
        /\ Tokens(c)' \subseteq (Tokens(c) \ {<<"row", c>>}) \cup {<<"run", w>>}
    BY <1>2, <1>4, <2>1, MovingRuns DEF Tokens
  <2>3. /\ <<"row", c>> \in CopyTokens(c)
        /\ CopyTokens(c)' \subseteq (CopyTokens(c) \ {<<"row", c>>}) \cup {<<"run", w>>}
    BY <1>2, <1>4, <2>1, MovingRuns DEF CopyTokens
  <2> QED
    BY <2>2, <2>3 DEF TokenStep, CopyStep, Passed
<1>6. CASE c # d
  <2>1. FreeRow(c)' = FreeRow(c) /\ UnsavedRow(c)' = UnsavedRow(c)
    BY <1>3, <1>6 DEF FreeRow, UnsavedRow
  <2>2. Kept(Tokens(c), Tokens(c)') /\ Kept(CopyTokens(c), CopyTokens(c)')
    BY <1>2, <1>4, <1>6, <2>1, MovingRuns DEF Tokens, CopyTokens, Kept, d
  <2> QED
    BY <2>2 DEF TokenStep, CopyStep
<1> QED
  BY <1>5, <1>6

LEMMA RetryTokens ==
    ASSUME TypeOK, JobsNamed, NEW w \in Workers, ClaimRetry(w),
           row[ClientOf(w)].status = "failed", NEW c \in Clients
    PROVE  TokenStep(c) /\ CopyStep(c)
<1> DEFINE d == ClientOf(w)
<1>1. /\ run \in [Workers -> RunRecords] /\ run[w] \in RunRecords
      /\ row \in [Clients -> RowRecords] /\ d \in Clients /\ RowOK
      /\ run[w].at # "idle"
  BY UnderWay DEF ClaimRetry, RunOK, RowOK
<1>2. Moves(w) /\ JobsKept
  <2>1. run' = [run EXCEPT ![w] = At(w, "owned")] /\ UNCHANGED job
    BY <1>1 DEF ClaimRetry, Own
  <2> QED
    BY <1>1, <2>1, UnderWay, AtType DEF Moves, JobsKept, Points
<1>3. /\ row[d].status = "failed" /\ row'[d].status = "pending"
      /\ row'[d].ext = row[d].ext
      /\ \A e \in Clients \ {d} : row'[e] = row[e]
      /\ history'[d] = Append(history[d], "pending")
      /\ UNCHANGED <<job, hook, consumed, accepted>>
  BY <1>1 DEF ClaimRetry, CompareAndSet, RowRecords, RowOK, provider, ticks
<1> HIDE DEF d
<1>4. /\ FailingHooks(c)' = FailingHooks(c)
      /\ MayFail(c)' = MayFail(c)
      /\ Copies(c)' = Copies(c)
      /\ UnsavedRow(c)' = UnsavedRow(c)
  <2>1. row'[c].ext = row[c].ext /\ (row'[c].status = "none" <=> row[c].status = "none")
    BY <1>3
  <2> QED
    BY <1>3, <2>1 DEF FailingHooks, MayFail, Failure, InFlight, Copies, UnsavedRow
<1>5. CASE c = d
  <2>1. FreeRow(c) = {c} /\ FreeRow(c)' = {}
    BY <1>3, <1>5 DEF FreeRow
  <2>2. /\ <<"row", c>> \in Tokens(c)
        /\ Tokens(c)' \subseteq (Tokens(c) \ {<<"row", c>>}) \cup {<<"run", w>>}
    BY <1>2, <1>4, <2>1, MovingRuns DEF Tokens
  <2>3. CopyTokens(c)' \subseteq CopyTokens(c) \cup {<<"run", w>>}
    BY <1>2, <1>4, MovingRuns DEF CopyTokens
  <2>4. Retries(c)' = Retries(c) + 1
    BY <1>1, <1>3, <1>5, RetriesStep DEF Statuses
  <2> QED
    BY <2>2, <2>3, <2>4 DEF TokenStep, CopyStep, Passed, Gained
<1>6. CASE c # d
  <2>1. FreeRow(c)' = FreeRow(c)
    BY <1>3, <1>6 DEF FreeRow
  <2>2. Kept(Tokens(c), Tokens(c)') /\ Kept(CopyTokens(c), CopyTokens(c)')
    BY <1>2, <1>4, <1>6, <2>1, MovingRuns DEF Tokens, CopyTokens, Kept, d
  <2> QED
    BY <2>2 DEF TokenStep, CopyStep
<1> QED
  BY <1>5, <1>6

\* A settled send: its run ends, and what it leaves behind is the row.
LEMMA SettleTokens ==
    ASSUME TypeOK, JobsNamed, NEW w \in Workers, Settle(w), NEW c \in Clients
    PROVE  TokenStep(c) /\ CopyStep(c)
<1> DEFINE d == ClientOf(w)
<1>1. /\ run \in [Workers -> RunRecords] /\ run[w] \in RunRecords
      /\ row \in [Clients -> RowRecords] /\ d \in Clients
      /\ run[w].at \in {"answered", "rejected"} /\ run[w].at # "idle"
  BY UnderWay DEF Settle, MarkSent, MarkSendFailed, RunOK, RowOK
<1>2. Quietly(w) /\ JobsKept /\ run'[w] = Idle
  BY <1>1, FinishEnds DEF Settle, MarkSent, MarkSendFailed, Return
<1>3. UNCHANGED <<hook, consumed, accepted>>
  BY DEF Settle, MarkSent, MarkSendFailed, provider, ticks
<1>4. CASE row' = row
  BY <1>1, <1>2, <1>3, <1>4, QuietStep DEF TokenStep, CopyStep
<1>5. CASE row' # row
  <2>1. /\ row[d].status = "pending"
        /\ \A e \in Clients \ {d} : row'[e] = row[e]
        /\ \/ row'[d].status = "sent"
           \/ row'[d].status = "failed" /\ row'[d].ext = row[d].ext
    BY <1>1, <1>5 DEF Settle, MarkSent, MarkSendFailed, CompareAndSet, RowRecords
  <2>2. /\ FailingHooks(c)' = FailingHooks(c)
        /\ Copies(c)' = Copies(c)
    BY <1>3 DEF FailingHooks, Copies
  <2>3. Moves(w) /\ JobsKept
    BY <1>1, <1>2, IdleType DEF Quietly, Moves
  <2>4. /\ OwningRuns(c)' \subseteq OwningRuns(c) \ {w}
        /\ CallingRuns(c)' \subseteq CallingRuns(c) \ {w}
    BY <1>2, <2>3, MovingRuns, IdleType
  <2>5. CASE c = d
    <3>1. w \in OwningRuns(c)
      BY <1>1, <2>5 DEF OwningRuns, Works, MayOwn, Owning
    <3>2. UnsavedRow(c)' = {} /\ FreeRow(c) = {}
      BY <2>1, <2>5 DEF UnsavedRow, FreeRow
    <3>3. Kept(CopyTokens(c), CopyTokens(c)')
      BY <2>2, <2>4, <3>2 DEF Kept, CopyTokens
    <3>4. \E k \in {"tick", "row"} :
             Tokens(c)' \subseteq (Tokens(c) \ {<<"run", w>>}) \cup {<<k, c>>}
      <4>1. CASE row'[d].status = "sent"
        <5>1. FreeRow(c)' = {} /\ MayFail(c)' \subseteq {c}
          BY <2>5, <4>1 DEF FreeRow, MayFail
        <5> QED
          BY <2>2, <2>4, <5>1 DEF Tokens
      <4>2. CASE row'[d].status = "failed" /\ row'[d].ext = row[d].ext
        <5>1. FreeRow(c)' = {c} /\ MayFail(c)' = MayFail(c)
          BY <1>3, <2>5, <4>2 DEF FreeRow, MayFail, Failure, InFlight
        <5> QED
          BY <2>2, <2>4, <5>1 DEF Tokens
      <4> QED
        BY <2>1, <4>1, <4>2
    <3>5. <<"run", w>> \in Tokens(c)
      BY <3>1 DEF Tokens
    <3> QED
      BY <3>3, <3>4, <3>5 DEF TokenStep, CopyStep, Passed
  <2>6. CASE c # d
    <3>1. /\ FreeRow(c)' = FreeRow(c) /\ UnsavedRow(c)' = UnsavedRow(c)
          /\ MayFail(c)' = MayFail(c)
      <4>1. row'[c] = row[c]
        BY <2>1, <2>6
      <4> QED
        BY <1>3, <4>1 DEF FreeRow, UnsavedRow, MayFail, Failure, InFlight
    <3>2. Kept(Tokens(c), Tokens(c)') /\ Kept(CopyTokens(c), CopyTokens(c)')
      BY <2>2, <2>4, <3>1 DEF Tokens, CopyTokens, Kept
    <3> QED
      BY <3>2 DEF TokenStep, CopyStep
  <2> QED
    BY <2>5, <2>6
<1> QED
  BY <1>4, <1>5
-----------------------------------------------------------------------------
LEMMA SubmitTokens ==
    ASSUME TypeOK, JobsNamed, NEW j \in Jobs, NEW d \in Clients, Submit(j, d),
           NEW c \in Clients
    PROVE  TokenStep(c) /\ CopyStep(c)
<1>1. /\ UNCHANGED <<row, hook, consumed, accepted, run>>
      /\ job[j].state = "unused"
      /\ \A i \in Jobs \ {j} : job'[i] = job[i]
  BY DEF Submit, provider, ticks, TypeOK, JobOK, JobRecords
<1>2. JobsKept
  BY <1>1 DEF JobsKept
<1>4. OwningRuns(c)' \subseteq OwningRuns(c) /\ CallingRuns(c)' \subseteq CallingRuns(c)
  <2>1. \A v \in Workers : run'[v] = run[v]
    BY <1>1
  <2> QED
    BY <1>2, <2>1, OtherRuns DEF OwningRuns, CallingRuns
<1>5. Kept(Tokens(c), Tokens(c)') /\ Kept(CopyTokens(c), CopyTokens(c)')
  BY <1>1, <1>4, RowStill DEF Kept, Tokens, CopyTokens, Copies
<1> QED
  BY <1>5 DEF TokenStep, CopyStep

\* A job taken: its run has no right yet.
LEMMA PickUpTokens ==
    ASSUME TypeOK, JobsNamed, NEW w \in Workers, NEW j \in Jobs, PickUp(w, j),
           NEW c \in Clients
    PROVE  TokenStep(c) /\ CopyStep(c)
<1>1. /\ UNCHANGED <<row, hook, consumed, accepted>>
      /\ job[j].state = "waiting" /\ job'[j].state = "active"
      /\ job'[j].client = job[j].client
      /\ \A i \in Jobs \ {j} : job'[i] = job[i]
      /\ run'[w].at = "lookup" /\ ~run'[w].created
      /\ \A v \in Workers \ {w} : run'[v] = run[v]
  BY DEF PickUp, Idle, provider, ticks, TypeOK, JobOK, RunOK, JobRecords
<1>2. JobsKept
  BY <1>1 DEF JobsKept
<1>3. w \notin OwningRuns(c)' \cup CallingRuns(c)'
  BY <1>1 DEF OwningRuns, CallingRuns, MayOwn, MayCall, Owning
<1>4. OwningRuns(c)' \subseteq OwningRuns(c) /\ CallingRuns(c)' \subseteq CallingRuns(c)
  BY <1>1, <1>2, <1>3, OtherRuns DEF OwningRuns, CallingRuns
<1>5. Kept(Tokens(c), Tokens(c)') /\ Kept(CopyTokens(c), CopyTokens(c)')
  BY <1>1, <1>4, RowStill DEF Kept, Tokens, CopyTokens, Copies
<1> QED
  BY <1>5 DEF TokenStep, CopyStep

\* A dead or late worker: its job may be handed out again, to a run that finds
\* the row and has no right to it.
LEMMA FaultQuiet ==
    ASSUME TypeOK, JobsNamed, NEW w \in Workers, Crash(w) \/ LoseLock(w)
    PROVE  Quietly(w) /\ JobsKept /\ UNCHANGED <<row, hook, consumed, accepted>>
<1>1. /\ UNCHANGED <<row, hook, consumed, accepted>>
      /\ run[w].at # "idle" /\ run[w] \in RunRecords /\ run \in [Workers -> RunRecords]
  BY UnderWay DEF Crash, LoseLock, provider, ticks, TypeOK, RunOK
<1>2. Stalled(run[w].job) \/ UNCHANGED job
  BY DEF Crash, LoseLock
<1>3. JobsKept
  BY <1>1, <1>2, StalledKeeps, JobsStill
<1>4. Quietly(w)
  <2>1. CASE Crash(w)
    BY <1>1, <2>1, IdleType DEF Crash, Quietly
  <2>2. CASE LoseLock(w)
    BY <1>1, <2>2 DEF LoseLock, Quietly, MayOwn, MayCall, RunRecords
  <2> QED
    BY <2>1, <2>2
<1> QED
  BY <1>1, <1>3, <1>4

\* An accepted copy: the call of the run is spent, or its answer was lost.
LEMMA AcceptTokens ==
    ASSUME TypeOK, JobsNamed, NEW w \in Workers, NEW x \in Wamids,
           ProviderAnswers(w, x) \/ AnswerLost(w, x), NEW c \in Clients
    PROVE  TokenStep(c) /\ CopyStep(c)
<1> DEFINE d == ClientOf(w)
<1>1. /\ UNCHANGED <<row, hook, consumed, job>>
      /\ run[w].at = "calling" /\ run[w].at # "idle" /\ d \in Clients
      /\ run[w] \in RunRecords /\ run \in [Workers -> RunRecords]
      /\ accepted \in [Clients -> SUBSET Wamids]
      /\ accepted' = [accepted EXCEPT ![d] = @ \cup {x}]
  BY UnderWay DEF ProviderAnswers, AnswerLost, Accept, ticks, RestOK, RunOK
<1>2. Quietly(w) /\ JobsKept
  BY <1>1, CallQuiet DEF ProviderAnswers, AnswerLost
<1>3. TokenStep(c)
  BY <1>1, <1>2, QuietStep DEF TokenStep
<1>4. CallingRuns(c)' \subseteq CallingRuns(c)
  BY <1>2, QuietRuns
<1>5. CASE c = d
  <2>1. Copies(c)' \subseteq Copies(c) \cup {x}
    BY <1>1, <1>5 DEF Copies
  <2>2. CASE AnswerLost(w, x)
    <3>1. CopyTokens(c)' \subseteq CopyTokens(c) \cup {<<"copy", x>>} /\ lost' = lost + 1
      BY <1>1, <1>4, <2>1, <2>2, RowStill DEF AnswerLost, CopyTokens
    <3> QED
      BY <1>3, <3>1 DEF CopyStep, Gained
  <2>3. CASE ProviderAnswers(w, x)
    <3>1. w \in CallingRuns(c)
      BY <1>1, <1>5 DEF CallingRuns, Works, MayCall
    <3>2. run'[w].at = "answered"
      BY <1>1, <2>3, AtType, UnderWay DEF ProviderAnswers, Points, RunRecords
    <3>3. w \notin CallingRuns(c)'
      BY <3>2 DEF CallingRuns, MayCall, Owning
    <3>4. <<"run", w>> \in CopyTokens(c)
      BY <3>1 DEF CopyTokens
    <3>5. CopyTokens(c)' \subseteq (CopyTokens(c) \ {<<"run", w>>}) \cup {<<"copy", x>>}
      BY <1>1, <1>4, <2>1, <3>3, RowStill DEF CopyTokens
    <3> QED
      BY <1>3, <3>4, <3>5 DEF CopyStep, Passed
  <2> QED
    BY <2>2, <2>3
<1>6. CASE c # d
  <2>1. Copies(c)' = Copies(c)
    BY <1>1, <1>6 DEF Copies
  <2>2. Kept(CopyTokens(c), CopyTokens(c)')
    BY <1>1, <1>4, <2>1, RowStill DEF CopyTokens, Kept
  <2> QED
    BY <1>3, <2>2 DEF CopyStep
<1> QED
  BY <1>5, <1>6
-----------------------------------------------------------------------------
\* The webhook side: no run and no job moves, and no copy is accepted.
LEMMA HooksAside ==
    ASSUME UNCHANGED <<run, job, accepted>>, NEW c
    PROVE  /\ OwningRuns(c)' = OwningRuns(c)
           /\ CallingRuns(c)' = CallingRuns(c)
           /\ Copies(c)' = Copies(c)
BY DEF OwningRuns, CallingRuns, Works, ClientOf, MayOwn, MayCall, Copies

LEMMA ReportTokens ==
    ASSUME NEW x, NEW s, Report(x, s), NEW c \in Clients
    PROVE  TokenStep(c) /\ CopyStep(c)
<1>1. UNCHANGED <<run, job, accepted, row, hook, consumed>>
  BY DEF Report, ticks
<1>2. Kept(Tokens(c), Tokens(c)') /\ Kept(CopyTokens(c), CopyTokens(c)')
  BY <1>1, HooksAside, RowStill DEF Tokens, CopyTokens, Kept
<1> QED
  BY <1>2 DEF TokenStep, CopyStep

LEMMA ReadTokens ==
    ASSUME TypeOK, NEW h \in Hooks, NEW t \in Ticks, ReadTick(h, t), NEW c \in Clients
    PROVE  TokenStep(c) /\ CopyStep(c)
<1>1. /\ UNCHANGED <<run, job, accepted, row, consumed>>
      /\ hook[h] = None
      /\ InFlight(t) => replays' = replays + 1
  BY DEF ReadTick, provider
<1>2. PICK r : /\ hook' = [hook EXCEPT ![h] = r]
               /\ r.tick = t
               /\ r.client = None \/ r.client \in RowsWithWamid(t[1])
  <2>1. CASE RowsWithWamid(t[1]) = {}
    <3> DEFINE q == [client |-> None, tick |-> t]
    <3>1. hook' = [hook EXCEPT ![h] = q] /\ q.tick = t /\ q.client = None
      BY <2>1 DEF ReadTick
    <3> HIDE DEF q
    <3> QED
      BY <3>1
  <2>2. CASE RowsWithWamid(t[1]) # {}
    <3>1. PICK d \in RowsWithWamid(t[1]) :
             hook' = [hook EXCEPT ![h] =
                 [client |-> IF IsStatusAdvance(row[d].status, t[2]) THEN d ELSE None,
                  tick |-> t]]
      BY <2>2 DEF ReadTick
    <3> DEFINE q == [client |-> IF IsStatusAdvance(row[d].status, t[2]) THEN d ELSE None,
                     tick |-> t]
    <3>2. q.tick = t /\ (q.client = None \/ q.client = d)
      OBVIOUS
    <3> HIDE DEF q
    <3> QED
      BY <3>1, <3>2 DEF q
  <2> QED
    BY <2>1, <2>2
<1>3. /\ hook'[h] = r
      /\ \A g \in Hooks \ {h} : hook'[g] = hook[g]
  BY <1>2 DEF TypeOK
<1>4. FreeRow(c)' = FreeRow(c) /\ UnsavedRow(c)' = UnsavedRow(c)
  BY <1>1 DEF FreeRow, UnsavedRow
<1>5. CopyStep(c)
  <2>1. Kept(CopyTokens(c), CopyTokens(c)')
    BY <1>1, <1>4, HooksAside DEF CopyTokens, Kept
  <2> QED
    BY <2>1 DEF CopyStep
<1>6. FailingHooks(c)' \subseteq FailingHooks(c) \cup {h}
  BY <1>3 DEF FailingHooks
<1>7. MayFail(c)' \subseteq MayFail(c)
  <2>1. \A u : InFlight(u) => InFlight(u)'
    BY <1>1, <1>3 DEF InFlight
  <2> QED
    BY <1>1, <2>1 DEF MayFail, Failure
<1>8. CASE InFlight(t)
  <2>1. Tokens(c)' \subseteq Tokens(c) \cup {<<"hook", h>>}
    BY <1>1, <1>4, <1>6, <1>7, HooksAside DEF Tokens
  <2> QED
    BY <1>1, <1>5, <1>8, <2>1 DEF TokenStep, Gained
<1>9. CASE h \notin FailingHooks(c)'
  <2>1. FailingHooks(c)' \subseteq FailingHooks(c)
    BY <1>6, <1>9
  <2>2. Kept(Tokens(c), Tokens(c)')
    BY <1>1, <1>4, <1>7, <2>1, HooksAside DEF Tokens, Kept
  <2> QED
    BY <1>5, <2>2 DEF TokenStep
<1>10. CASE ~InFlight(t) /\ h \in FailingHooks(c)'
  <2>1. r # None /\ r.client = c /\ t[2] = "failed" /\ t \notin consumed
    BY <1>2, <1>3, <1>10 DEF FailingHooks, ReadTick
  <2>2. c # None
    BY NoneAssumption
  <2>3. t = Failure(c) /\ row[c].ext # None
    BY <1>2, <2>1, <2>2, NoneAssumption DEF RowsWithWamid, Failure, Ticks
  <2>4. MayFail(c) = {c}
    BY <1>10, <2>1, <2>3 DEF MayFail
  <2>5. MayFail(c)' = {}
    <3>1. InFlight(t)'
      BY <1>2, <1>3, <2>1 DEF InFlight
    <3> QED
      BY <1>1, <2>3, <3>1 DEF MayFail, Failure
  <2>6. <<"tick", c>> \in Tokens(c)
    BY <2>4 DEF Tokens
  <2>7. Tokens(c)' \subseteq (Tokens(c) \ {<<"tick", c>>}) \cup {<<"hook", h>>}
    BY <1>1, <1>4, <1>6, <2>5, HooksAside DEF Tokens
  <2> QED
    BY <1>5, <2>6, <2>7 DEF TokenStep, Passed
<1> QED
  BY <1>8, <1>9, <1>10

LEMMA ApplyTokens ==
    ASSUME TypeOK, NEW h \in Hooks, ApplyTick(h), NEW c \in Clients
    PROVE  TokenStep(c) /\ CopyStep(c)
<1> DEFINE d == hook[h].client
           s == hook[h].tick[2]
<1>1. /\ UNCHANGED <<run, job, accepted, consumed>>
      /\ hook[h] \in HookRecords /\ hook[h] # None /\ hook \in [Hooks -> HookRecords \cup {None}]
      /\ d \in Clients
      /\ row \in [Clients -> RowRecords]
      /\ s \in DeliveryStatuses
  BY DEF ApplyTick, provider, TypeOK, HookRecords, Ticks
<1>2. CompareAndSet(d, AllowedFrom(s), s, row[d].ext)
  BY DEF ApplyTick
<1>3. /\ hook'[h] = [hook[h] EXCEPT !.client = None]
      /\ \A g \in Hooks \ {h} : hook'[g] = hook[g]
      /\ hook'[h].client = None /\ hook'[h].tick = hook[h].tick
  BY <1>1 DEF ApplyTick, HookRecords
<1> HIDE DEF d, s
<1>4. \/ row' = row
      \/ /\ row[d].status \notin {"none", "failed"} /\ row'[d].status = s
         /\ row'[d].ext = row[d].ext
         /\ \A e \in Clients \ {d} : row'[e] = row[e]
  <2>1. AllowedFrom(s) \subseteq Statuses /\ "failed" \notin AllowedFrom(s)
        /\ "none" \notin Statuses
    BY DEF AllowedFrom, IsStatusAdvance, Statuses
  <2> QED
    BY <1>1, <1>2, <2>1 DEF CompareAndSet
<1>5. c \in Clients /\ c # None /\ row'[c].ext = row[c].ext
  BY <1>4, NoneAssumption
<1>6. FailingHooks(c)' \subseteq FailingHooks(c) \ {h}
  BY <1>3, <1>5 DEF FailingHooks
<1>7. MayFail(c)' \subseteq MayFail(c)
  <2>1. hook'[h] # None
    BY <1>1, <1>3, HookAssumption DEF HookRecords
  <2>2. ASSUME NEW u, InFlight(u) PROVE InFlight(u)'
    BY <1>3, <2>1, <2>2 DEF InFlight
  <2> QED
    BY <1>1, <1>5, <2>2 DEF MayFail, Failure
<1>8. FreeRow(c)' \subseteq FreeRow(c) \/ (c = d /\ s = "failed")
  BY <1>4, <1>1 DEF FreeRow, DeliveryStatuses, Statuses
<1>9. UnsavedRow(c)' \subseteq UnsavedRow(c)
  BY <1>4, <1>1 DEF UnsavedRow, DeliveryStatuses, Statuses
<1>10. CopyStep(c)
  <2>1. Kept(CopyTokens(c), CopyTokens(c)')
    BY <1>1, <1>9, HooksAside DEF CopyTokens, Kept
  <2> QED
    BY <2>1 DEF CopyStep
<1>11. CASE FreeRow(c)' \subseteq FreeRow(c)
  <2>1. Kept(Tokens(c), Tokens(c)')
    BY <1>1, <1>6, <1>7, <1>11, HooksAside DEF Tokens, Kept
  <2> QED
    BY <1>10, <2>1 DEF TokenStep
<1>12. CASE c = d /\ s = "failed"
  <2>1. h \in FailingHooks(c)
    BY <1>1, <1>12 DEF FailingHooks, d, s
  <2>2. <<"hook", h>> \in Tokens(c)
    BY <2>1 DEF Tokens
  <2>3. FreeRow(c)' \subseteq {c}
    BY DEF FreeRow
  <2>4. Tokens(c)' \subseteq (Tokens(c) \ {<<"hook", h>>}) \cup {<<"row", c>>}
    BY <1>1, <1>6, <1>7, <2>3, HooksAside DEF Tokens
  <2> QED
    BY <1>10, <2>2, <2>4 DEF TokenStep, Passed
<1> QED
  BY <1>8, <1>11, <1>12

\* A consumed tick is never taken again; a lost one may be.
LEMMA LeaveTokens ==
    ASSUME TypeOK, NEW h \in Hooks, ConsumeTick(h) \/ HookCrash(h), NEW c \in Clients
    PROVE  TokenStep(c) /\ CopyStep(c)
<1>1. /\ UNCHANGED <<run, job, accepted, row>> /\ hook[h] # None
      /\ hook'[h] = None
      /\ \A g \in Hooks \ {h} : hook'[g] = hook[g]
  BY DEF ConsumeTick, HookCrash, provider, TypeOK
<1>2. FreeRow(c)' = FreeRow(c) /\ UnsavedRow(c)' = UnsavedRow(c)
  BY <1>1 DEF FreeRow, UnsavedRow
<1>3. CopyStep(c)
  <2>1. Kept(CopyTokens(c), CopyTokens(c)')
    BY <1>1, <1>2, HooksAside DEF CopyTokens, Kept
  <2> QED
    BY <2>1 DEF CopyStep
<1>4. FailingHooks(c)' \subseteq FailingHooks(c)
  BY <1>1 DEF FailingHooks
<1>5. CASE ConsumeTick(h)
  <2>1. consumed' = consumed \cup {hook[h].tick}
    BY <1>5 DEF ConsumeTick
  <2>2. \A u : InFlight(u) => InFlight(u)' \/ u = hook[h].tick
    BY <1>1 DEF InFlight
  <2>3. MayFail(c)' \subseteq MayFail(c)
    BY <1>1, <2>1, <2>2 DEF MayFail, Failure
  <2>4. Kept(Tokens(c), Tokens(c)')
    BY <1>1, <1>2, <1>4, <2>3, HooksAside DEF Tokens, Kept
  <2> QED
    BY <1>3, <2>4 DEF TokenStep
<1>6. CASE HookCrash(h)
  <2>1. MayFail(c)' \subseteq {c} /\ replays' = replays + 1
    BY <1>6 DEF MayFail, HookCrash
  <2>2. Tokens(c)' \subseteq Tokens(c) \cup {<<"tick", c>>}
    BY <1>1, <1>2, <1>4, <2>1, HooksAside DEF Tokens
  <2> QED
    BY <1>3, <2>1, <2>2 DEF TokenStep, Gained
<1> QED
  BY <1>5, <1>6
-----------------------------------------------------------------------------
LEMMA CallTokens ==
    ASSUME TypeOK, JobsNamed, NEW w \in Workers, Call(w), NEW c \in Clients
    PROVE  TokenStep(c) /\ CopyStep(c)
<1>1. CASE RefuseSend(w) \/ CallProvider(w) \/ ProviderFaults(w) \/ ProviderRejects(w)
  <2>1. UNCHANGED <<row, hook, consumed, accepted>> /\ Quietly(w) /\ JobsKept
    BY <1>1, CallQuiet DEF RefuseSend, CallProvider, ProviderFaults, ProviderRejects,
                           provider, ticks
  <2> QED
    BY <2>1, QuietStep DEF TokenStep, CopyStep
<1>2. ASSUME NEW x \in Wamids, ProviderAnswers(w, x) \/ AnswerLost(w, x)
      PROVE  TokenStep(c) /\ CopyStep(c)
  BY <1>2, AcceptTokens
<1> QED
  BY <1>1, <1>2 DEF Call

LEMMA EveryStep ==
    ASSUME TypeOK, JobsNamed, LocksHold, [Next]_vars, NEW c \in Clients
    PROVE  TokenStep(c) /\ CopyStep(c)
<1>1. CASE UNCHANGED vars
  <2>1. UNCHANGED <<run, job, accepted, row, hook, consumed>>
    BY <1>1 DEF vars, provider, ticks
  <2>2. Kept(Tokens(c), Tokens(c)') /\ Kept(CopyTokens(c), CopyTokens(c)')
    BY <2>1, HooksAside, RowStill DEF Tokens, CopyTokens, Kept
  <2> QED
    BY <2>2 DEF TokenStep, CopyStep
<1>2. ASSUME NEW j \in Jobs, NEW d \in Clients, Submit(j, d)
      PROVE  TokenStep(c) /\ CopyStep(c)
  BY <1>2, SubmitTokens
<1>3. ASSUME NEW w \in Workers, WorkerStep(w) \/ Throw(w) \/ Crash(w) \/ LoseLock(w)
      PROVE  TokenStep(c) /\ CopyStep(c)
  <2>1. ASSUME NEW j \in Jobs, PickUp(w, j) PROVE TokenStep(c) /\ CopyStep(c)
    BY <2>1, PickUpTokens
  <2>2. CASE Save(w)
    BY <2>2, SaveQuiet, QuietStep, InsertTokens DEF Save, TokenStep, CopyStep
  <2>3. CASE Claim(w)
    BY <2>3, ClaimQuiet, RetryLost, QuietStep, RetryTokens DEF Claim, TokenStep, CopyStep
  <2>4. CASE Throw(w) \/ Crash(w) \/ LoseLock(w)
    BY <2>4, ThrowQuiet, FaultQuiet, QuietStep DEF TokenStep, CopyStep
  <2> QED
    BY <1>3, <2>1, <2>2, <2>3, <2>4, CallTokens, SettleTokens DEF WorkerStep
<1>4. ASSUME NEW x \in Wamids, NEW s \in Reports, Report(x, s)
      PROVE  TokenStep(c) /\ CopyStep(c)
  BY <1>4, ReportTokens
<1>5. ASSUME NEW h \in Hooks, HookStep(h) \/ HookCrash(h)
      PROVE  TokenStep(c) /\ CopyStep(c)
  BY <1>5, ReadTokens, ApplyTokens, LeaveTokens DEF HookStep
<1> QED
  BY <1>1, <1>2, <1>3, <1>4, <1>5 DEF Next

\* Jobs and ticks keep what JobsNamed says of them.
LEMMA JobsNamedStep ==
    ASSUME TypeOK, JobsNamed, LocksHold, [Next]_vars
    PROVE  JobsNamed'
<1>0. /\ run \in [Workers -> RunRecords] /\ job \in [Jobs -> JobRecords]
      /\ \A w \in Workers : run[w].at # "idle" => run[w].job \in Jobs
      /\ hook \in [Hooks -> HookRecords \cup {None}]
  BY DEF TypeOK, RunOK, JobOK
<1> DEFINE RunPart  == \A w \in Workers : run[w].at # "idle" => job[run[w].job].state # "unused"
           HookPart == \A h \in Hooks : hook[h] # None => hook[h].tick \in reported
           Quiet == /\ JobsKept
                    /\ \A w \in Workers :
                          run'[w].at # "idle" => /\ run'[w].job = run[w].job
                                                 /\ run[w].at # "idle"
<1>1. Quiet => RunPart'
  BY <1>0 DEF JobsNamed, JobsKept
<1>2. UNCHANGED <<hook, reported>> => HookPart'
  BY DEF JobsNamed
<1>3. ASSUME NEW w \in Workers, Quietly(w), JobsKept PROVE Quiet
  BY <1>3 DEF Quietly
<1>4. ASSUME NEW w \in Workers, Moves(w), UNCHANGED job PROVE Quiet
  BY <1>4 DEF Moves, JobsKept
<1>5. ASSUME UNCHANGED <<run, job>> PROVE Quiet
  BY <1>5 DEF JobsKept, JobsNamed
<1> HIDE DEF Quiet
<1>6. CASE UNCHANGED vars
  BY <1>1, <1>2, <1>5, <1>6 DEF vars, provider, ticks, JobsNamed
<1>7. ASSUME NEW j \in Jobs, NEW d \in Clients, Submit(j, d) PROVE JobsNamed'
  BY <1>0, <1>7 DEF Submit, JobsNamed, JobRecords, provider, ticks
<1>8. ASSUME NEW w \in Workers, NEW j \in Jobs, PickUp(w, j) PROVE JobsNamed'
  <2>1. /\ run'[w].job = j /\ \A v \in Workers \ {w} : run'[v] = run[v]
        /\ job[j].state = "waiting" /\ job'[j].state = "active"
        /\ \A i \in Jobs \ {j} : job'[i] = job[i]
        /\ UNCHANGED <<hook, reported>>
    BY <1>0, <1>8 DEF PickUp, Idle, JobRecords, provider, ticks
  <2> QED
    BY <1>0, <2>1 DEF JobsNamed
<1>9. ASSUME NEW w \in Workers, Save(w) \/ Claim(w) \/ Call(w) \/ Settle(w) \/ Throw(w)
                                \/ Crash(w) \/ LoseLock(w)
      PROVE  JobsNamed'
  <2>1. UNCHANGED <<hook, reported>>
    BY <1>9 DEF Save, FindExisting, FindNothing, Insert, InsertLoses, Claim, ClaimCreated,
                ClaimRetry, ClaimExisting, Call, RefuseSend, CallProvider,
                ProviderAnswers, AnswerLost, ProviderFaults, ProviderRejects, Settle,
                MarkSent, MarkSendFailed, Throw, Crash, LoseLock, provider, ticks
  <2>2. CASE Save(w)
    <3>1. CASE Insert(w)
      <4>1. Moves(w) /\ UNCHANGED job
        BY <1>0, <3>1 DEF Insert, Moves, RunRecords
      <4> QED
        BY <1>1, <1>2, <1>4, <2>1, <4>1 DEF JobsNamed
    <3> QED
      BY <1>1, <1>2, <1>3, <2>1, <2>2, <3>1, SaveQuiet DEF Save, JobsNamed
  <2>3. CASE Claim(w)
    <3>1. CASE ClaimRetry(w) /\ row[ClientOf(w)].status = "failed"
      <4>1. run' = [run EXCEPT ![w] = At(w, "owned")] /\ UNCHANGED job /\ run[w].at # "idle"
        BY <3>1 DEF ClaimRetry, Own
      <4>2. Moves(w)
        BY <1>0, <4>1, UnderWay, AtType DEF Moves, Points
      <4> QED
        BY <1>1, <1>2, <1>4, <2>1, <4>1, <4>2 DEF JobsNamed
    <3>2. CASE ClaimRetry(w) /\ row[ClientOf(w)].status # "failed"
      BY <1>1, <1>2, <1>3, <2>1, <3>2, RetryLost DEF JobsNamed
    <3> QED
      BY <1>1, <1>2, <1>3, <2>1, <2>3, <3>1, <3>2, ClaimQuiet DEF Claim, JobsNamed
  <2>4. CASE Call(w)
    <3>1. Quietly(w) /\ JobsKept
      BY <2>4, CallQuiet DEF Call, RefuseSend, CallProvider, ProviderAnswers, AnswerLost,
                             ProviderFaults, ProviderRejects, Accept
    <3> QED
      BY <1>1, <1>2, <1>3, <2>1, <3>1 DEF JobsNamed
  <2>5. CASE Settle(w) \/ Throw(w)
    <3>1. Quietly(w) /\ JobsKept
      BY <2>5, FinishEnds DEF Settle, MarkSent, MarkSendFailed, Throw, Return
    <3> QED
      BY <1>1, <1>2, <1>3, <2>1, <3>1 DEF JobsNamed
  <2>6. CASE Crash(w) \/ LoseLock(w)
    BY <1>1, <1>2, <1>3, <2>1, <2>6, FaultQuiet DEF JobsNamed
  <2> QED
    BY <1>9, <2>2, <2>3, <2>4, <2>5, <2>6
<1>10. ASSUME NEW x \in Wamids, NEW s \in Reports, Report(x, s) PROVE JobsNamed'
  BY <1>0, <1>10 DEF Report, JobsNamed, ticks
<1>11. ASSUME NEW h \in Hooks, HookStep(h) \/ HookCrash(h) PROVE JobsNamed'
  <2>1. UNCHANGED <<run, job, reported>>
    BY <1>11 DEF HookStep, ReadTick, ApplyTick, ConsumeTick, HookCrash, provider
  <2>2. \A g \in Hooks \ {h} : hook'[g] = hook[g]
    BY <1>0, <1>11 DEF HookStep, ReadTick, ApplyTick, ConsumeTick, HookCrash
  <2>3. hook'[h] # None => hook'[h].tick \in reported
    <3>1. ASSUME NEW t \in Ticks, ReadTick(h, t) PROVE hook'[h].tick \in reported
      <4>1. CASE RowsWithWamid(t[1]) = {}
        BY <1>0, <3>1, <4>1 DEF ReadTick
      <4>2. CASE RowsWithWamid(t[1]) # {}
        BY <1>0, <3>1, <4>2 DEF ReadTick
      <4> QED
        BY <4>1, <4>2
    <3>2. CASE ApplyTick(h)
      BY <1>0, <3>2 DEF ApplyTick, HookRecords, JobsNamed
    <3>3. CASE ConsumeTick(h) \/ HookCrash(h)
      BY <1>0, <3>3 DEF ConsumeTick, HookCrash
    <3> QED
      BY <1>11, <3>1, <3>2, <3>3 DEF HookStep
  <2> QED
    BY <2>1, <2>2, <2>3 DEF JobsNamed
<1> QED
  BY <1>6, <1>7, <1>8, <1>9, <1>10, <1>11 DEF Next, WorkerStep
-----------------------------------------------------------------------------
\* The inductive invariant: tokens stay within what was paid for.
TokensBounded ==
    /\ JobsNamed /\ LocksHold
    /\ \A c \in Clients :
          /\ AtMost(Tokens(c), 1 + replays)
          /\ AtMost(CopyTokens(c), 1 + Retries(c) + lost)

LEMMA RetriesType ==
    ASSUME RowOK, NEW c \in Clients
    PROVE  Retries(c) \in Nat
<1> DEFINE S == {i \in 1..Len(history[c]) : history[c][i] = "pending"}
<1>1. Len(history[c]) \in Int /\ 1 \in Int
  BY DEF RowOK
<1>2. IsFiniteSet(1..Len(history[c])) /\ S \in SUBSET (1..Len(history[c]))
  BY <1>1, FS_Interval
<1>3. IsFiniteSet(S) /\ Cardinality(S) \in Nat
  BY <1>2, FS_Subset, FS_CardinalityType
<1> QED
  BY <1>3 DEF Retries

LEMMA RetriesInit == ASSUME Init, NEW c \in Clients PROVE Retries(c) = 0
<1>1. {i \in 1..Len(history[c]) : history[c][i] = "pending"} = {}
  BY DEF Init
<1> QED
  BY <1>1, FS_EmptySet DEF Retries

LEMMA TokensBoundedInit == Init => TokensBounded
<1> SUFFICES ASSUME Init PROVE TokensBounded
  OBVIOUS
<1>1. ASSUME NEW c \in Clients
      PROVE  /\ AtMost(Tokens(c), 1 + replays)
             /\ AtMost(CopyTokens(c), 1 + Retries(c) + lost)
  <2>1. /\ OwningRuns(c) = {} /\ CallingRuns(c) = {} 
        /\ FailingHooks(c) = {} /\ MayFail(c) = {} /\ Copies(c) = {}
    BY DEF Init, Idle, OwningRuns, CallingRuns, Works, FailingHooks, MayFail,
           Copies
  <2>2. FreeRow(c) \subseteq {c} /\ UnsavedRow(c) \subseteq {c}
    BY DEF FreeRow, UnsavedRow
  <2>3. Tokens(c) \subseteq {} \cup {<<"row", c>>} /\ CopyTokens(c) \subseteq {} \cup {<<"row", c>>}
    BY <2>1, <2>2 DEF Tokens, CopyTokens
  <2>4. AtMost({}, 0)
    BY FS_EmptySet DEF AtMost
  <2>5. AtMost(Tokens(c), 0 + 1) /\ AtMost(CopyTokens(c), 0 + 1)
    BY <2>3, <2>4, GainedBound DEF Gained
  <2> QED
    BY <2>5, RetriesInit DEF Init
<1> QED
  BY <1>1, JobsNamedInit, LocksInit DEF TokensBounded

\* What pays for tokens only grows.
LEMMA PaidGrows ==
    ASSUME TypeOK, [Next]_vars, NEW c \in Clients
    PROVE  /\ replays \in Nat /\ replays' \in Nat /\ replays' >= replays
           /\ lost \in Nat /\ lost' \in Nat /\ lost' >= lost
           /\ Retries(c) \in Nat /\ Retries(c)' \in Nat /\ Retries(c)' >= Retries(c)
<1>1. replays \in Nat /\ lost \in Nat /\ RowOK
  BY BoundsAssumption DEF TypeOK, RowOK
<1>2. /\ replays' = replays \/ replays' = replays + 1
      /\ lost' = lost \/ lost' = lost + 1
  <2>1. CASE UNCHANGED vars
    BY <2>1 DEF vars, budget
  <2>2. ASSUME NEW j \in Jobs, NEW d \in Clients, Submit(j, d)
        PROVE  UNCHANGED <<replays, lost>>
    BY <2>2 DEF Submit, budget
  <2>3. ASSUME NEW w \in Workers, WorkerStep(w) \/ Throw(w) \/ Crash(w) \/ LoseLock(w)
        PROVE  replays' = replays /\ (lost' = lost \/ lost' = lost + 1)
    <3>1. CASE Save(w) \/ Claim(w) \/ Settle(w) \/ Throw(w) \/ Crash(w) \/ LoseLock(w)
      BY <3>1 DEF Save, FindExisting, FindNothing, Insert, InsertLoses, Claim,
                  ClaimCreated, ClaimRetry, ClaimExisting, Settle, MarkSent,
                  MarkSendFailed, Throw, Crash, LoseLock, budget
    <3>2. CASE Call(w)
      BY <3>2 DEF Call, RefuseSend, CallProvider, ProviderAnswers, AnswerLost,
                  ProviderFaults, ProviderRejects, budget
    <3>3. ASSUME NEW j \in Jobs, PickUp(w, j) PROVE UNCHANGED <<replays, lost>>
      BY <3>3 DEF PickUp, budget
    <3> QED
      BY <2>3, <3>1, <3>2, <3>3 DEF WorkerStep
  <2>4. ASSUME NEW x, NEW s, Report(x, s) PROVE UNCHANGED <<replays, lost>>
    BY <2>4 DEF Report, budget
  <2>5. ASSUME NEW h \in Hooks, HookStep(h) \/ HookCrash(h)
        PROVE  (replays' = replays \/ replays' = replays + 1) /\ lost' = lost
    BY <2>5 DEF HookStep, ReadTick, ApplyTick, ConsumeTick, HookCrash, budget
  <2> QED
    BY <2>1, <2>2, <2>3, <2>4, <2>5 DEF Next
<1>3. history'[c] = history[c] \/ \E s \in Statuses : history'[c] = Append(history[c], s)
  <2>1. LifecycleStep
    BY Refines
  <2>2. ASSUME NEW d \in Clients, NEW s \in Statuses,
               history' = [history EXCEPT ![d] = Append(@, s)]
        PROVE  history'[c] = history[c] \/ history'[c] = Append(history[c], s)
    BY <1>1, <2>2 DEF RowOK
  <2>3. Lifecycle!Next => \/ history' = history
                          \/ \E d \in Clients : \E s \in Statuses :
                                history' = [history EXCEPT ![d] = Append(@, s)]
    BY DEF Lifecycle!Next, Lifecycle!Save, Lifecycle!Advance, Lifecycle!Retry,
           Lifecycle!DeliveryStatuses, Lifecycle!Statuses, Statuses
  <2>4. UNCHANGED Lifecycle!vars => history' = history
    BY DEF Lifecycle!vars
  <2> QED
    BY <2>1, <2>2, <2>3, <2>4 DEF LifecycleStep
<1>4. Retries(c) \in Nat /\ (Retries(c)' = Retries(c) \/ Retries(c)' = Retries(c) + 1)
  <2>1. CASE history'[c] = history[c]
    BY <1>1, <2>1, RetriesType DEF Retries
  <2>2. ASSUME NEW s \in Statuses, history'[c] = Append(history[c], s)
        PROVE  Retries(c) \in Nat /\ (Retries(c)' = Retries(c) \/ Retries(c)' = Retries(c) + 1)
    BY <1>1, <2>2, RetriesStep
  <2> QED
    BY <1>3, <2>1, <2>2
<1> QED
  BY <1>1, <1>2, <1>4

LEMMA TokensBoundedStep ==
    ASSUME TypeOK, TokensBounded, [Next]_vars
    PROVE  TokensBounded'
<1>1. ASSUME NEW c \in Clients
      PROVE  /\ AtMost(Tokens(c)', 1 + replays')
             /\ AtMost(CopyTokens(c)', 1 + Retries(c)' + lost')
  <2> DEFINE n == 1 + replays
             m == 1 + Retries(c) + lost
             N == 1 + replays'
             M == 1 + Retries(c)' + lost'
  <2>1. /\ n \in Nat /\ m \in Nat /\ N \in Nat /\ M \in Nat
        /\ n <= N /\ m <= M
        /\ replays' = replays + 1 => n + 1 <= N
        /\ lost' = lost + 1 \/ Retries(c)' = Retries(c) + 1
             => m + 1 <= M
    BY PaidGrows
  <2>2. AtMost(Tokens(c), n) /\ AtMost(CopyTokens(c), m) /\ TokenStep(c) /\ CopyStep(c)
    BY EveryStep DEF TokensBounded
  <2>3. ASSUME NEW S, NEW k \in Nat, NEW l \in Nat, AtMost(S, k), k <= l
        PROVE  AtMost(S, l)
    BY <2>3, FS_CardinalityType DEF AtMost
  <2> HIDE DEF n, m, N, M
  <2>4. AtMost(Tokens(c)', N)
    <3>1. CASE Kept(Tokens(c), Tokens(c)')
      BY <2>1, <2>2, <2>3, <3>1, KeptBound
    <3>2. CASE Passed(Tokens(c), Tokens(c)')
      BY <2>1, <2>2, <2>3, <3>2, PassedBound
    <3>3. CASE Gained(Tokens(c), Tokens(c)') /\ replays' = replays + 1
      <4>1. AtMost(Tokens(c)', n + 1) /\ n + 1 \in Nat
        BY <2>1, <2>2, <3>3, GainedBound
      <4> QED
        BY <2>1, <2>3, <3>3, <4>1
    <3> QED
      BY <2>2, <3>1, <3>2, <3>3 DEF TokenStep
  <2>5. AtMost(CopyTokens(c)', M)
    <3>1. CASE Kept(CopyTokens(c), CopyTokens(c)')
      BY <2>1, <2>2, <2>3, <3>1, KeptBound
    <3>2. CASE Passed(CopyTokens(c), CopyTokens(c)')
      BY <2>1, <2>2, <2>3, <3>2, PassedBound
    <3>3. CASE /\ Gained(CopyTokens(c), CopyTokens(c)')
               /\ lost' = lost + 1 \/ Retries(c)' = Retries(c) + 1
      <4>1. AtMost(CopyTokens(c)', m + 1) /\ m + 1 \in Nat
        BY <2>1, <2>2, <3>3, GainedBound
      <4> QED
        BY <2>1, <2>3, <3>3, <4>1
    <3> QED
      BY <2>2, <3>1, <3>2, <3>3 DEF CopyStep
  <2> QED
    BY <2>4, <2>5 DEF N, M
<1> QED
  BY <1>1, JobsNamedStep, LocksStep DEF TokensBounded

LEMMA TokensInv == Spec => [](TypeOK /\ TokensBounded)
<1>1. TypeOK /\ TokensBounded /\ [Next]_vars => TokensBounded'
  BY TokensBoundedStep
<1> QED
  BY TypeCorrect, TokensBoundedInit, <1>1, PTL DEF Spec

\* However many agents submit, workers race, processes die and locks are lost,
\* one run owns the provider call of a row, and one more for each tick that was
\* taken again (claimSend, resetFailedForRetry).
THEOREM OwnersAreCounted == Spec => []OwnersWithinReplays
<1>1. TypeOK /\ TokensBounded => OwnersWithinReplays
  <2> SUFFICES ASSUME TypeOK, TokensBounded, NEW c \in Clients
               PROVE  Cardinality(Owners(c)) <= 1 + replays
    BY DEF OwnersWithinReplays
  <2>1. Owners(c) \subseteq OwningRuns(c)
    BY DEF Owners, OwningRuns, Works, MayOwn, Owning
  <2>2. {"run"} \X Owners(c) \subseteq Tokens(c)
    BY <2>1 DEF Tokens
  <2>3. 1 + replays \in Nat
    BY BoundsAssumption DEF TypeOK
  <2> QED
    BY <2>2, <2>3, TaggedBound DEF TokensBounded, AtMost
<1> QED
  BY TokensInv, <1>1, PTL

\* Each copy the provider accepted is the send's own or has its cause: a retry
\* of a failed row or a lost answer, each of which explains one.
THEOREM CopiesAreAccountedFor == Spec => []CopiesAccountedFor
<1>1. TypeOK /\ TokensBounded => CopiesAccountedFor
  <2> SUFFICES ASSUME TypeOK, TokensBounded, NEW c \in Clients
               PROVE  Cardinality(Copies(c)) <= 1 + Retries(c) + lost
    BY DEF CopiesAccountedFor
  <2>1. {"copy"} \X Copies(c) \subseteq CopyTokens(c)
    BY DEF CopyTokens
  <2>2. 1 + Retries(c) + lost \in Nat
    <3>1. Retries(c) \in Nat
      BY RetriesType, TypeParts
    <3> QED
      BY <3>1, BoundsAssumption DEF TypeOK
  <2> QED
    BY <2>1, <2>2, TaggedBound DEF TokensBounded, AtMost
<1> QED
  BY TokensInv, <1>1, PTL
-----------------------------------------------------------------------------
(***************************************************************************)
(* Until a tick is taken again a client has one token at most, so what     *)
(* became of a copy is known: its run still has the answer, or the row     *)
(* stands for it, or it was reported failed, or nobody can act on the row. *)
(***************************************************************************)
Answered(w, c, x) == Works(w, c) /\ run[w].at = "answered" /\ run[w].wamid = x
Stands(c, x) == row[c].ext = x /\ row[c].status \in {"sent", "delivered", "read"}
Told(x) == <<x, "failed">> \in reported

Explained(c, x) ==
    \/ Told(x)
    \/ \E w \in Workers : Answered(w, c, x)
    \/ Stands(c, x)
    \/ Tokens(c) = {}

\* A failure being applied is that of the copy the row stands for.
FailuresMatch(c) == \A h \in FailingHooks(c) : hook[h].tick[1] = row[c].ext

CopiesExplained ==
    replays = 0 /\ lost = 0 =>
        \A c \in Clients : /\ FailuresMatch(c)
                           /\ \A x \in Copies(c) : Explained(c, x)

LEMMA OneToken ==
    ASSUME NEW S, AtMost(S, 1), NEW a \in S
    PROVE  S = {a}
<1>1. IsFiniteSet(S) /\ Cardinality(S) \in Nat /\ Cardinality(S) <= 1
  BY FS_CardinalityType DEF AtMost
<1>2. Cardinality(S) # 0
  BY <1>1, FS_EmptySet
<1>3. Cardinality(S) = 1
  BY <1>1, <1>2
<1>4. PICK y : S = {y}
  BY <1>1, <1>3, FS_Singleton
<1> QED
  BY <1>4

LEMMA NoTokenStays ==
    ASSUME NEW c, TokenStep(c), replays' = replays, replays \in Nat, Tokens(c) = {}
    PROVE  Tokens(c)' = {}
BY DEF TokenStep, Kept, Passed

\* A run that has an answer and ends takes the last token with it.
LEMMA LastRunEnds ==
    ASSUME TypeOK, JobsNamed, NEW w \in Workers, NEW c \in Clients, NEW x,
           Answered(w, c, x), AtMost(Tokens(c), 1), Quietly(w), JobsKept,
           run'[w] = Idle, UNCHANGED <<row, hook, consumed>>
    PROVE  Tokens(c)' = {}
<1>1. <<"run", w>> \in Tokens(c)
  BY DEF Tokens, OwningRuns, MayOwn, Answered, Owning
<1>2. Tokens(c) = {<<"run", w>>}
  BY <1>1, OneToken
<1>3. Tokens(c)' \subseteq {<<"run", w>>}
  BY <1>2, QuietStep DEF Kept
<1>4. <<"run", w>> \notin Tokens(c)'
  BY IdleType DEF Tokens, OwningRuns, Works
<1> QED
  BY <1>3, <1>4

\* A run that does not move keeps its answer.
LEMMA AnswerStays ==
    ASSUME TypeOK, JobsNamed, JobsKept, NEW v \in Workers, run'[v] = run[v],
           NEW c, NEW x, Answered(v, c, x)
    PROVE  Answered(v, c, x)'
BY UnderWay DEF Answered, Works, ClientOf, JobsKept, JobsNamed

\* What the explanation of one copy needs from a step.
LEMMA ExplanationStays ==
    ASSUME TypeOK, JobsNamed, JobsKept, NEW c \in Clients, NEW x, Explained(c, x),
           TokenStep(c), replays' = replays, replays \in Nat,
           reported \subseteq reported',
           Stands(c, x) => Stands(c, x)',
           \A v \in Workers : Answered(v, c, x) => run'[v] = run[v]
    PROVE  Explained(c, x)'
BY AnswerStays, NoTokenStays DEF Explained, Told

LEMMA StandsStill ==
    ASSUME NEW c, row'[c] = row[c], NEW x, Stands(c, x)
    PROVE  Stands(c, x)'
BY DEF Stands

\* The facts a step starts from while no tick was taken again.
Calm(c) ==
    /\ TypeOK /\ JobsNamed /\ LocksHold /\ TokenStep(c)
    /\ replays = 0 /\ replays' = 0 /\ lost' = lost
    /\ AtMost(Tokens(c), 1)
    /\ FailuresMatch(c)
    /\ \A x \in Copies(c) : Explained(c, x)

Calmly(c) == FailuresMatch(c) /\ \A x \in Copies(c) : Explained(c, x)

LEMMA FailuresStill ==
    ASSUME NEW c, FailuresMatch(c), UNCHANGED hook, row'[c].ext = row[c].ext
    PROVE  FailuresMatch(c)'
BY DEF FailuresMatch, FailingHooks

\* A run that goes on, keeps its answer or has none, and leaves the row alone.
LEMMA CalmRun ==
    ASSUME NEW c \in Clients, Calm(c), NEW w \in Workers, Quietly(w), JobsKept,
           UNCHANGED <<row, hook, consumed, accepted, reported>>,
           \/ run[w].at # "answered" \/ run'[w] = Idle
           \/ /\ run'[w].at = run[w].at /\ run'[w].job = run[w].job
              /\ run'[w].wamid = run[w].wamid
    PROVE  Calmly(c)'
<1>1. FailuresMatch(c)'
  BY FailuresStill DEF Calm
<1>2. ASSUME NEW x \in Copies(c)' PROVE Explained(c, x)'
  <2>1. x \in Copies(c) /\ Explained(c, x)
    BY <1>2 DEF Calm, Copies
  <2>2. CASE Answered(w, c, x) /\ run'[w] = Idle
    <3>1. Tokens(c)' = {}
      BY <2>2, LastRunEnds DEF Calm, Answered
    <3> QED
      BY <3>1 DEF Explained
  <2>4. CASE Answered(w, c, x) /\ run'[w] # Idle
    <3>1. /\ run'[w].at = run[w].at /\ run'[w].job = run[w].job
          /\ run'[w].wamid = run[w].wamid
      BY <2>4 DEF Answered
    <3>2. Answered(w, c, x)'
      BY <2>4, <3>1, UnderWay DEF Calm, Answered, Works, ClientOf, JobsKept, JobsNamed
    <3> QED
      BY <3>2 DEF Explained
  <2>3. CASE ~Answered(w, c, x)
    <3>1. \A v \in Workers : Answered(v, c, x) => run'[v] = run[v]
      BY <2>3 DEF Quietly
    <3> QED
      BY <2>1, <3>1, ExplanationStays, StandsStill DEF Calm
  <2> QED
    BY <2>2, <2>3, <2>4
<1> QED
  BY <1>1, <1>2 DEF Calmly

\* A step that leaves runs, rows and copies alone.
LEMMA CalmAside ==
    ASSUME NEW c \in Clients, Calm(c), JobsKept,
           \A v \in Workers : run[v].at = "answered" => run'[v] = run[v],
           UNCHANGED <<row, accepted>>, reported \subseteq reported'
    PROVE  \A x \in Copies(c)' : Explained(c, x)'
<1> SUFFICES ASSUME NEW x \in Copies(c)' PROVE Explained(c, x)'
  OBVIOUS
<1>1. x \in Copies(c) /\ Explained(c, x)
  BY DEF Calm, Copies
<1>2. \A v \in Workers : Answered(v, c, x) => run'[v] = run[v]
  BY DEF Answered
<1> QED
  BY <1>1, <1>2, ExplanationStays, StandsStill DEF Calm

\* A run without an answer for c moves, and its row is not one that stands.
LEMMA CalmRow ==
    ASSUME NEW c \in Clients, Calm(c), NEW w \in Workers, JobsKept,
           \A v \in Workers \ {w} : run'[v] = run[v],
           \A x : ~Answered(w, c, x),
           UNCHANGED <<hook, accepted, reported>>, row'[c].ext = row[c].ext,
           \/ row'[c].status = row[c].status
           \/ row[c].status \notin {"sent", "delivered", "read"}
    PROVE  Calmly(c)'
<1>1. FailuresMatch(c)'
  BY FailuresStill DEF Calm
<1>2. ASSUME NEW x \in Copies(c)' PROVE Explained(c, x)'
  <2>1. x \in Copies(c) /\ Explained(c, x)
    BY <1>2 DEF Calm, Copies
  <2>2. Stands(c, x) => Stands(c, x)'
    BY DEF Stands
  <2>3. \A v \in Workers : Answered(v, c, x) => run'[v] = run[v]
    OBVIOUS
  <2> QED
    BY <2>1, <2>2, <2>3, ExplanationStays DEF Calm
<1> QED
  BY <1>1, <1>2 DEF Calmly

LEMMA CalmSent ==
    ASSUME NEW c \in Clients, Calm(c), NEW w \in Workers, MarkSent(w)
    PROVE  Calmly(c)'
<1> DEFINE d == ClientOf(w)
<1>1. /\ run \in [Workers -> RunRecords] /\ run[w] \in RunRecords
      /\ row \in [Clients -> RowRecords] /\ d \in Clients
      /\ run[w].at = "answered" /\ run[w].at # "idle"
      /\ UNCHANGED <<hook, consumed, accepted, reported>>
  BY UnderWay DEF MarkSent, RunOK, RowOK, Calm, provider, ticks
<1>2. Quietly(w) /\ JobsKept /\ run'[w] = Idle /\ JobsKept
      /\ \A v \in Workers \ {w} : run'[v] = run[v]
  BY <1>1, FinishEnds, FinishKeeps DEF MarkSent, Return, Calm, Quietly
<1>3. CASE row' = row
  BY <1>1, <1>2, <1>3, CalmRun
<1>4. CASE row' # row
  <2>1. /\ row[d].status = "pending"
        /\ \A e \in Clients \ {d} : row'[e] = row[e]
        /\ row'[d].status = "sent" /\ row'[d].ext = run[w].wamid
    BY <1>1, <1>4 DEF MarkSent, CompareAndSet
  <2>2. CASE c # d
    <3>1. \A x : ~Answered(w, c, x)
      BY <2>2 DEF Answered, Works
    <3> QED
      BY <1>1, <1>2, <2>1, <2>2, <3>1, CalmRow
  <2>3. CASE c = d
    <3>1. <<"run", w>> \in Tokens(c)
      BY <1>1, <2>3 DEF Tokens, OwningRuns, Works, MayOwn, Owning
    <3>2. Tokens(c) = {<<"run", w>>}
      BY <3>1, OneToken DEF Calm
    <3>3. FailingHooks(c)' = {}
      <4>1. ASSUME NEW h \in FailingHooks(c) PROVE FALSE
        <5>1. <<"hook", h>> \in Tokens(c)
          BY <4>1 DEF Tokens
        <5>2. <<"hook", h>> = <<"run", w>>
          BY <3>2, <5>1
        <5> QED
          BY <5>2
      <4> QED
        BY <1>1, <4>1 DEF FailingHooks
    <3>4. ASSUME NEW x \in Copies(c)' PROVE Explained(c, x)'
      <4>1. Explained(c, x)
        BY <1>1, <3>4 DEF Calm, Copies
      <4>2. CASE Told(x)
        BY <1>1, <4>2 DEF Explained, Told
      <4>3. CASE Stands(c, x) \/ Tokens(c) = {}
        BY <2>1, <2>3, <3>1, <4>3 DEF Stands
      <4>4. ASSUME NEW v \in Workers, Answered(v, c, x) PROVE Explained(c, x)'
        <5>1. <<"run", v>> \in Tokens(c)
          BY <4>4 DEF Tokens, OwningRuns, MayOwn, Owning, Answered
        <5>2. v = w
          BY <3>2, <5>1
        <5>3. Stands(c, x)'
          BY <2>1, <2>3, <4>4, <5>2 DEF Stands, Answered
        <5> QED
          BY <5>3 DEF Explained
      <4> QED
        BY <4>1, <4>2, <4>3, <4>4 DEF Explained
    <3> QED
      BY <3>3, <3>4 DEF Calmly, FailuresMatch
  <2> QED
    BY <2>2, <2>3
<1> QED
  BY <1>3, <1>4

LEMMA CalmSettle ==
    ASSUME NEW c \in Clients, Calm(c), NEW w \in Workers, Settle(w)
    PROVE  Calmly(c)'
<1>1. CASE MarkSendFailed(w)
  <2>1. /\ run[w].at = "rejected" /\ run[w].at # "idle"
        /\ row \in [Clients -> RowRecords] /\ ClientOf(w) \in Clients
        /\ UNCHANGED <<hook, accepted, reported>>
    BY <1>1, UnderWay DEF MarkSendFailed, RowOK, Calm, provider, ticks
  <2>2. JobsKept /\ \A v \in Workers \ {w} : run'[v] = run[v]
    BY <1>1, <2>1, FinishEnds, FinishKeeps DEF MarkSendFailed, Return, Calm, Quietly
  <2>3. /\ row'[c].ext = row[c].ext
        /\ row'[c].status = row[c].status \/ row[c].status = "pending"
    BY <1>1, <2>1 DEF MarkSendFailed, CompareAndSet, RowRecords
  <2>4. \A x : ~Answered(w, c, x)
    BY <2>1 DEF Answered
  <2> QED
    BY <2>1, <2>2, <2>3, <2>4, CalmRow
<1> QED
  BY <1>1, CalmSent DEF Settle

LEMMA CalmSave ==
    ASSUME NEW c \in Clients, Calm(c), NEW w \in Workers, Save(w) \/ Claim(w)
    PROVE  Calmly(c)'
<1>1. run[w].at \in {"lookup", "refind", "insert", "claim"} /\ run[w].at # "answered"
      /\ run[w].at # "idle" /\ UNCHANGED <<hook, accepted, reported>>
  BY DEF Save, FindExisting, FindNothing, Insert, InsertLoses, Claim, ClaimCreated,
         ClaimRetry, ClaimExisting, provider, ticks
<1>2. /\ run \in [Workers -> RunRecords] /\ run[w] \in RunRecords
      /\ row \in [Clients -> RowRecords] /\ ClientOf(w) \in Clients
      /\ TypeOK /\ JobsNamed /\ LocksHold
  BY <1>1, UnderWay DEF RunOK, RowOK, Calm
<1>3. \A x : ~Answered(w, c, x)
  BY <1>1 DEF Answered
<1>4. CASE Insert(w)
  <2>1. /\ JobsKept /\ \A v \in Workers \ {w} : run'[v] = run[v]
        /\ row'[c].ext = row[c].ext
        /\ row'[c].status = row[c].status \/ row[c].status = "none"
    BY <1>2, <1>4 DEF Insert, JobsKept, RowRecords
  <2> QED
    BY <1>1, <1>3, <2>1, CalmRow
<1>5. CASE ClaimRetry(w) /\ row[ClientOf(w)].status = "failed"
  <2>1. /\ JobsKept /\ \A v \in Workers \ {w} : run'[v] = run[v]
        /\ row'[c].ext = row[c].ext
        /\ row'[c].status = row[c].status \/ row[c].status = "failed"
    BY <1>2, <1>5 DEF ClaimRetry, CompareAndSet, Own, JobsKept, RowRecords
  <2> QED
    BY <1>1, <1>3, <2>1, CalmRow
<1>6. ASSUME Quietly(w), JobsKept, UNCHANGED <<row, hook, consumed, accepted>>
      PROVE  Calmly(c)'
  BY <1>1, <1>6, CalmRun
<1> QED
  BY <1>2, <1>4, <1>5, <1>6, SaveQuiet, ClaimQuiet, RetryLost DEF Save, Claim

LEMMA CalmCall ==
    ASSUME NEW c \in Clients, Calm(c), NEW w \in Workers, Call(w)
    PROVE  Calmly(c)'
<1>1. CASE RefuseSend(w) \/ CallProvider(w) \/ ProviderFaults(w) \/ ProviderRejects(w)
  <2>1. UNCHANGED <<row, hook, consumed, accepted, reported>> /\ run[w].at \in {"owned", "calling"}
        /\ Quietly(w) /\ JobsKept
    BY <1>1, CallQuiet DEF RefuseSend, CallProvider, ProviderFaults, ProviderRejects,
                           provider, ticks, Calm
  <2> QED
    BY <2>1, CalmRun
<1>2. ASSUME NEW y \in Wamids, AnswerLost(w, y) PROVE FALSE
  BY <1>2, BoundsAssumption DEF AnswerLost, Calm, TypeOK
<1>3. ASSUME NEW y \in Wamids, ProviderAnswers(w, y) PROVE Calmly(c)'
  <2> DEFINE d == ClientOf(w)
  <2>1. /\ UNCHANGED <<row, hook, consumed, job, reported>>
        /\ run[w].at = "calling" /\ run[w].at # "idle" /\ d \in Clients
        /\ run[w] \in RunRecords /\ run \in [Workers -> RunRecords]
        /\ accepted \in [Clients -> SUBSET Wamids]
        /\ accepted' = [accepted EXCEPT ![d] = @ \cup {y}]
        /\ TypeOK /\ JobsNamed
    BY <1>3, UnderWay DEF ProviderAnswers, Accept, ticks, RestOK, RunOK, Calm
  <2>2. /\ \A v \in Workers \ {w} : run'[v] = run[v]
        /\ JobsKept
    BY <1>3, <2>1 DEF ProviderAnswers, JobsKept
  <2>3. run'[w].at = "answered" /\ run'[w].wamid = y /\ run'[w].job = run[w].job
    <3>1. At(w, "answered") \in RunRecords /\ At(w, "answered").at = "answered"
          /\ At(w, "answered").job = run[w].job
      BY <2>1, UnderWay, AtType DEF Points
    <3> QED
      BY <1>3, <2>1, <3>1 DEF ProviderAnswers, RunRecords
  <2>4. c = d => Answered(w, c, y)'
    BY <2>1, <2>3 DEF Answered, Works, ClientOf
  <2>5. FailuresMatch(c)'
    BY <2>1, FailuresStill DEF Calm
  <2>6. ASSUME NEW x \in Copies(c)' PROVE Explained(c, x)'
    <3>1. CASE x \in Copies(c)
      <4>1. \A v \in Workers : Answered(v, c, x) => run'[v] = run[v]
        BY <2>1, <2>2 DEF Answered
      <4> QED
        BY <2>1, <2>2, <3>1, <4>1, ExplanationStays, StandsStill DEF Calm
    <3>2. CASE x \notin Copies(c)
      <4>1. c = d /\ x = y
        BY <2>1, <2>6, <3>2 DEF Copies
      <4> QED
        BY <2>4, <4>1 DEF Explained
    <3> QED
      BY <3>1, <3>2
  <2> QED
    BY <2>5, <2>6 DEF Calmly
<1> QED
  BY <1>1, <1>2, <1>3 DEF Call

LEMMA CalmHook ==
    ASSUME NEW c \in Clients, Calm(c), NEW h \in Hooks, HookStep(h) \/ HookCrash(h)
    PROVE  Calmly(c)'
<1>1. /\ UNCHANGED <<run, job, accepted, reported>>
      /\ hook \in [Hooks -> HookRecords \cup {None}]
      /\ row \in [Clients -> RowRecords]
      /\ \A g \in Hooks \ {h} : hook'[g] = hook[g]
      /\ JobsKept /\ JobsNamed
  <2>1. UNCHANGED <<run, job, accepted, reported>>
    BY DEF HookStep, ReadTick, ApplyTick, ConsumeTick, HookCrash, provider
  <2>2. hook \in [Hooks -> HookRecords \cup {None}] /\ row \in [Clients -> RowRecords]
    BY DEF Calm, TypeOK
  <2>3. \A g \in Hooks \ {h} : hook'[g] = hook[g]
    BY <2>2 DEF HookStep, ReadTick, ApplyTick, ConsumeTick, HookCrash
  <2> QED
    BY <2>1, <2>2, <2>3 DEF JobsKept, Calm
<1>2. CASE UNCHANGED row
  <2>1. \A x \in Copies(c)' : Explained(c, x)'
    BY <1>1, <1>2, CalmAside
  <2>2. ASSUME h \in FailingHooks(c)' PROVE hook'[h].tick[1] = row[c].ext
    <3>1. ASSUME NEW t \in Ticks, ReadTick(h, t) PROVE hook'[h].tick[1] = row[c].ext
      <4>1. CASE RowsWithWamid(t[1]) = {}
        <5>1. hook' = [hook EXCEPT ![h] = [client |-> None, tick |-> t]]
          BY <3>1, <4>1 DEF ReadTick
        <5>2. hook'[h].client = None
          BY <1>1, <5>1
        <5> QED
          BY <2>2, <5>2, NoneAssumption DEF FailingHooks
      <4>2. CASE RowsWithWamid(t[1]) # {}
        <5>1. PICK d \in RowsWithWamid(t[1]) :
                 hook' = [hook EXCEPT ![h] =
                     [client |-> IF IsStatusAdvance(row[d].status, t[2]) THEN d ELSE None,
                      tick |-> t]]
          BY <3>1, <4>2 DEF ReadTick
        <5>2. hook'[h].tick = t /\ (hook'[h].client = d \/ hook'[h].client = None)
          BY <1>1, <5>1
        <5>3. d = c
          BY <2>2, <5>2, NoneAssumption DEF FailingHooks
        <5> QED
          BY <5>1, <5>2, <5>3 DEF RowsWithWamid
      <4> QED
        BY <4>1, <4>2
    <3>2. CASE ApplyTick(h)
      <4>1. hook'[h].client = None
        BY <1>1, <3>2 DEF ApplyTick, HookRecords
      <4> QED
        BY <2>2, <4>1, NoneAssumption DEF FailingHooks
    <3>3. CASE ConsumeTick(h) \/ HookCrash(h)
      BY <1>1, <2>2, <3>3 DEF ConsumeTick, HookCrash, FailingHooks
    <3> QED
      BY <3>1, <3>2, <3>3 DEF HookStep
  <2>3. FailuresMatch(c)'
    BY <1>1, <1>2, <2>2 DEF FailuresMatch, FailingHooks, Calm
  <2> QED
    BY <2>1, <2>3 DEF Calmly
<1>3. CASE ~UNCHANGED row
  <2> DEFINE d == hook[h].client
             s == hook[h].tick[2]
  <2>1. ApplyTick(h)
    BY <1>3 DEF HookStep, ReadTick, ConsumeTick, HookCrash
  <2>2. /\ hook[h] \in HookRecords /\ hook[h] # None
        /\ d \in Clients /\ s \in DeliveryStatuses
        /\ row' = [row EXCEPT ![d] = [status |-> s, ext |-> row[d].ext]]
        /\ hook'[h].client = None
    BY <1>1, <1>3, <2>1 DEF ApplyTick, CompareAndSet, HookRecords, Ticks
  <2>3. /\ row'[c].ext = row[c].ext
        /\ c # d => row'[c] = row[c]
        /\ c = d => row'[c].status = s
    BY <1>1, <2>2 DEF RowRecords
  <2>4. FailingHooks(c)' \subseteq FailingHooks(c) \ {h}
    BY <1>1, <2>2, NoneAssumption DEF FailingHooks
  <2>5. FailuresMatch(c)'
    BY <1>1, <2>3, <2>4 DEF FailuresMatch, Calm, FailingHooks
  <2>6. ASSUME NEW x \in Copies(c)' PROVE Explained(c, x)'
    <3>1. x \in Copies(c) /\ Explained(c, x)
      BY <1>1, <2>6 DEF Copies, Calm
    <3>2. CASE Stands(c, x) => Stands(c, x)'
      BY <1>1, <3>1, <3>2, ExplanationStays DEF Calm
    <3>3. CASE Stands(c, x) /\ ~Stands(c, x)'
      <4>1. c = d /\ s = "failed"
        BY <2>2, <2>3, <3>3 DEF Stands, DeliveryStatuses, Statuses
      <4>2. h \in FailingHooks(c)
        BY <2>2, <4>1 DEF FailingHooks
      <4>3. hook[h].tick[1] = x /\ hook[h].tick[2] = "failed" /\ hook[h].tick \in reported
        BY <2>2, <3>3, <4>1, <4>2 DEF FailuresMatch, Calm, Stands, JobsNamed
      <4>4. hook[h].tick = <<x, "failed">>
        BY <2>2, <4>3 DEF HookRecords, Ticks
      <4> QED
        BY <1>1, <4>3, <4>4 DEF Explained, Told
    <3> QED
      BY <3>2, <3>3
  <2> QED
    BY <2>5, <2>6 DEF Calmly
<1> QED
  BY <1>2, <1>3

LEMMA CalmStep ==
    ASSUME NEW c \in Clients, Calm(c), [Next]_vars
    PROVE  Calmly(c)'
<1>1. CASE UNCHANGED vars
  <2>1. UNCHANGED <<run, job, accepted, row, hook, reported>>
    BY <1>1 DEF vars, provider, ticks
  <2>2. \A x \in Copies(c)' : Explained(c, x)'
    BY <2>1, CalmAside DEF JobsKept
  <2> QED
    BY <2>1, <2>2, FailuresStill DEF Calmly, Calm
<1>2. ASSUME NEW j \in Jobs, NEW d \in Clients, Submit(j, d) PROVE Calmly(c)'
  <2>1. /\ UNCHANGED <<run, accepted, row, hook, reported>>
        /\ job[j].state = "unused" /\ \A i \in Jobs \ {j} : job'[i] = job[i]
    BY <1>2 DEF Submit, provider, ticks, Calm, TypeOK, JobOK
  <2>2. \A x \in Copies(c)' : Explained(c, x)'
    BY <2>1, CalmAside DEF JobsKept
  <2> QED
    BY <2>1, <2>2, FailuresStill DEF Calmly, Calm
<1>3. ASSUME NEW w \in Workers, NEW j \in Jobs, PickUp(w, j) PROVE Calmly(c)'
  <2>1. /\ UNCHANGED <<accepted, row, hook, reported>>
        /\ job'[j].state = "active" /\ job'[j].client = job[j].client
        /\ \A i \in Jobs \ {j} : job'[i] = job[i]
        /\ run[w].at = "idle" /\ \A v \in Workers \ {w} : run'[v] = run[v]
    BY <1>3 DEF PickUp, provider, ticks, Calm, TypeOK, JobOK, RunOK, JobRecords
  <2>2. JobsKept /\ \A v \in Workers : run[v].at = "answered" => run'[v] = run[v]
    BY <2>1 DEF JobsKept
  <2>3. \A x \in Copies(c)' : Explained(c, x)'
    BY <2>1, <2>2, CalmAside
  <2> QED
    BY <2>1, <2>3, FailuresStill DEF Calmly, Calm
<1>4. ASSUME NEW w \in Workers, Throw(w) PROVE Calmly(c)'
  <2>1. /\ run[w].at # "idle" /\ Finish(w, "failed")
        /\ UNCHANGED <<row, hook, consumed, accepted, reported>>
    BY <1>4 DEF Throw, provider, ticks
  <2> QED
    BY <2>1, FinishEnds, CalmRun DEF Calm
<1>5. ASSUME NEW w \in Workers, Crash(w) \/ LoseLock(w) PROVE Calmly(c)'
  <2>1. Quietly(w) /\ JobsKept /\ UNCHANGED <<row, hook, consumed, accepted, reported>>
    BY <1>5, FaultQuiet DEF Crash, LoseLock, provider, Calm
  <2>2. \/ run'[w] = Idle
        \/ /\ run'[w].at = run[w].at /\ run'[w].job = run[w].job
           /\ run'[w].wamid = run[w].wamid
    BY <1>5 DEF Crash, LoseLock, Calm, TypeOK, RunOK, RunRecords
  <2> QED
    BY <2>1, <2>2, CalmRun
<1>6. ASSUME NEW x \in Wamids, NEW s \in Reports, Report(x, s) PROVE Calmly(c)'
  <2>1. UNCHANGED <<run, job, accepted, row, hook>> /\ reported \subseteq reported'
    BY <1>6 DEF Report, ticks
  <2>2. \A y \in Copies(c)' : Explained(c, y)'
    BY <2>1, CalmAside DEF JobsKept
  <2> QED
    BY <2>1, <2>2, FailuresStill DEF Calmly, Calm
<1> QED
  BY <1>1, <1>2, <1>3, <1>4, <1>5, <1>6, CalmSave, CalmCall, CalmSettle, CalmHook
  DEF Next, WorkerStep

LEMMA CopiesExplainedStep ==
    ASSUME TypeOK, TokensBounded, CopiesExplained, [Next]_vars
    PROVE  CopiesExplained'
<1> SUFFICES ASSUME replays' = 0, lost' = 0, NEW c \in Clients PROVE Calmly(c)'
  BY DEF CopiesExplained, Calmly
<1>1. replays = 0 /\ lost = 0
  BY PaidGrows
<1>2. Calm(c)
  BY <1>1, EveryStep DEF Calm, TokensBounded, CopiesExplained
<1> QED
  BY <1>2, CalmStep

LEMMA CopiesExplainedInit == Init => CopiesExplained
BY DEF Init, CopiesExplained, FailuresMatch, FailingHooks, Copies

\* While no answer is lost and no tick taken again, whoever retries a failed
\* row does not send a second copy that reaches the customer: the first was
\* reported as failed, whatever died or lost its lock (failSend).
THEOREM FailedRowsAreUndelivered == Spec => []FailedMeansUndelivered
<1>1. TypeOK /\ TokensBounded /\ CopiesExplained /\ [Next]_vars => CopiesExplained'
  BY CopiesExplainedStep
<1>2. TypeOK /\ TokensBounded /\ CopiesExplained => FailedMeansUndelivered
  <2> SUFFICES ASSUME TypeOK, TokensBounded, CopiesExplained, replays + lost = 0,
                      NEW c \in Clients, row[c].status = "failed", NEW x \in Copies(c)
               PROVE  <<x, "failed">> \in reported
    BY Zenon DEF FailedMeansUndelivered
  <2>1. replays = 0 /\ lost = 0
    <3>1. replays \in Nat /\ lost \in Nat
      BY TypeParts, BoundsAssumption DEF RestOK
    <3> QED
      BY <3>1
  <2>2. <<"row", c>> \in Tokens(c)
    BY DEF Tokens, FreeRow
  <2>3. Tokens(c) = {<<"row", c>>}
    <3>1. AtMost(Tokens(c), 1)
      BY <2>1 DEF TokensBounded
    <3> QED
      BY <2>2, <3>1, OneToken
  <2>4. ASSUME NEW w \in Workers, Answered(w, c, x) PROVE FALSE
    <3>1. <<"run", w>> \in Tokens(c)
      BY <2>4 DEF Tokens, OwningRuns, MayOwn, Owning, Answered
    <3>2. <<"run", w>> = <<"row", c>>
      BY <2>3, <3>1
    <3> QED
      BY <3>2
  <2>5. Explained(c, x)
    BY <2>1 DEF CopiesExplained
  <2> QED
    BY <2>2, <2>4, <2>5 DEF Explained, Stands, Told
<1> QED
  BY TokensInv, CopiesExplainedInit, <1>1, <1>2, PTL DEF Spec
-----------------------------------------------------------------------------
(***************************************************************************)
(* The safety half of PendingSettlesUntilADeath: a pending row has a run   *)
(* that carries it to its end, unless that run died or threw.              *)
(***************************************************************************)
Carried(c) == \E w \in Workers : Carries(w, c)

Deaths == crashes + throws

StrandedCounted == AtMost(Stranded, Deaths)

LEMMA StrandedInit == Init => StrandedCounted
<1> SUFFICES ASSUME Init PROVE StrandedCounted
  OBVIOUS
<1>1. Stranded = {} /\ Deaths = 0
  BY DEF Init, Stranded, Deaths
<1> QED
  BY <1>1, FS_EmptySet DEF StrandedCounted, AtMost

\* The jobs that wait are left alone.
WaitingStay == \A j \in Jobs : job[j].state = "waiting" => job'[j] = job[j]

\* A step that leaves the other runs alone leaves the row with who carries it,
\* if run w goes on carrying it.
LEMMA CarriedStays ==
    ASSUME TypeOK, JobsNamed, JobsKept, NEW c \in Clients, NEW w \in Workers,
           \A v \in Workers \ {w} : run'[v] = run[v],
           Carried(c), Carries(w, c) => Carries(w, c)'
    PROVE  Carried(c)'
<1>1. ASSUME NEW v \in Workers \ {w}, Carries(v, c) PROVE Carries(v, c)'
  BY <1>1, UnderWay DEF Carries, Owning, ClientOf, JobsKept, JobsNamed
<1> QED
  BY <1>1 DEF Carried

LEMMA EndsKeeps ==
    ASSUME TypeOK, JobsNamed, LocksHold, NEW w \in Workers, Ends(w)
    PROVE  /\ JobsKept /\ WaitingStay
           /\ \A v \in Workers \ {w} : run'[v] = run[v]
<1>1. PICK s \in {"completed", "failed"} : Finish(w, s)
  BY DEF Ends
<1>2. JobsKept /\ run' = [run EXCEPT ![w] = Idle]
  BY <1>1, FinishKeeps DEF Ends
<1>3. WaitingStay
  BY <1>1 DEF Finish, WaitingStay, LocksHold, TypeOK, JobOK
<1> QED
  BY <1>2, <1>3 DEF TypeOK, RunOK

LEMMA GoesOnKeeps ==
    ASSUME TypeOK, NEW w \in Workers, GoesOnAlone(w)
    PROVE  /\ JobsKept /\ WaitingStay
           /\ \A v \in Workers \ {w} : run'[v] = run[v]
           /\ ClientOf(w)' = ClientOf(w)
BY DEF GoesOnAlone, JobsKept, WaitingStay, ClientOf

\* What a step of a live run leaves pending is carried, if it was before.
CarriesOn(c) ==
    (row[c].status = "pending" => Carried(c))
        => (row'[c].status = "pending" => Carried(c)')

LEMMA SaveCarries ==
    ASSUME TypeOK, JobsNamed, LocksHold, NEW w \in Workers, Save(w), NEW c \in Clients
    PROVE  CarriesOn(c)
<1> SUFFICES ASSUME row'[c].status = "pending", row[c].status = "pending" => Carried(c)
             PROVE  Carried(c)'
  BY DEF CarriesOn
<1>0. run[w].at \notin Owning \cup {"claim"}
  BY DEF Save, FindExisting, FindNothing, Insert, InsertLoses, Owning
<1>1. CASE Carried(c)
  BY <1>0, <1>1, SaveMoves, EndsKeeps, GoesOnKeeps, CarriedStays DEF Carries
<1>2. CASE ~Carried(c)
  <2>1. /\ c = ClientOf(w) /\ GoesOnAlone(w)
        /\ run'[w].at = "claim" /\ run'[w].created
    BY <1>2, SaveMoves
  <2> QED
    BY <2>1, GoesOnKeeps DEF Carries, Carried
<1> QED
  BY <1>1, <1>2

LEMMA ClaimCarries ==
    ASSUME TypeOK, JobsNamed, LocksHold, NEW w \in Workers, Claim(w), NEW c \in Clients
    PROVE  CarriesOn(c)
<1> SUFFICES ASSUME row'[c].status = "pending", row[c].status = "pending" => Carried(c)
             PROVE  Carried(c)'
  BY DEF CarriesOn
<1>1. CASE GoesOnAlone(w) /\ run'[w].at = "owned"
  <2>1. c = ClientOf(w) => Carries(w, c)'
    BY <1>1, GoesOnKeeps DEF Carries, Owning
  <2>2. CASE c = ClientOf(w)
    BY <2>1, <2>2 DEF Carried
  <2>3. CASE c # ClientOf(w)
    BY <1>1, <2>1, <2>3, ClaimMoves, GoesOnKeeps, CarriedStays DEF Carries
  <2> QED
    BY <2>2, <2>3
<1>2. CASE Ends(w) /\ row' = row /\ ~run[w].created
  <2>1. ~Carries(w, c)
    BY <1>2, ClaimMoves DEF Carries, Owning
  <2> QED
    BY <1>2, <2>1, EndsKeeps, CarriedStays
<1> QED
  BY <1>1, <1>2, ClaimMoves

LEMMA CallCarries ==
    ASSUME TypeOK, JobsNamed, NEW w \in Workers, Call(w), NEW c \in Clients
    PROVE  CarriesOn(c)
<1>1. GoesOnAlone(w) /\ run'[w].at \in Owning /\ row' = row
  BY CallMoves
<1>2. Carries(w, c) => Carries(w, c)'
  BY <1>1, GoesOnKeeps DEF Carries
<1>3. Carried(c) => Carried(c)'
  BY <1>1, <1>2, GoesOnKeeps, CarriedStays
<1> QED
  BY <1>1, <1>3 DEF CarriesOn

LEMMA SettleCarries ==
    ASSUME TypeOK, JobsNamed, LocksHold, NEW w \in Workers, Settle(w), NEW c \in Clients
    PROVE  CarriesOn(c)
<1> SUFFICES ASSUME row'[c].status = "pending", row[c].status = "pending" => Carried(c)
             PROVE  Carried(c)'
  BY DEF CarriesOn
<1>1. c # ClientOf(w) /\ Ends(w)
  BY SettleMoves
<1>2. ~Carries(w, c)
  BY <1>1 DEF Carries
<1> QED
  BY <1>1, <1>2, SettleMoves, EndsKeeps, CarriedStays

\* A run that loses its lock goes on, and carries what it carried.
LEMMA LateCarries ==
    ASSUME TypeOK, JobsNamed, NEW w \in Workers, LoseLock(w), NEW c \in Clients
    PROVE  CarriesOn(c)
<1>1. /\ run[w].at # "idle" /\ run[w].locked /\ Stalled(run[w].job) /\ row' = row
      /\ \A v \in Workers \ {w} : run'[v] = run[v]
      /\ run'[w] = [run[w] EXCEPT !.locked = FALSE] /\ run[w] \in RunRecords
  BY DEF LoseLock, TypeOK, RunOK
<1>2. JobsKept
  BY <1>1, StalledKeeps
<1>3. Carries(w, c) => Carries(w, c)'
  <2>1. /\ run'[w].at = run[w].at /\ run'[w].job = run[w].job
        /\ run'[w].created = run[w].created
    BY <1>1 DEF RunRecords
  <2>2. job'[run[w].job].client = job[run[w].job].client
    BY <1>1, <1>2, UnderWay DEF JobsKept, JobsNamed
  <2> QED
    BY <2>1, <2>2 DEF Carries, ClientOf, Owning
<1>4. Carried(c) => Carried(c)'
  BY <1>1, <1>2, <1>3, CarriedStays
<1> QED
  BY <1>1, <1>4 DEF CarriesOn

LEMMA PickUpCarries ==
    ASSUME TypeOK, JobsNamed, NEW w \in Workers, NEW j \in Jobs, PickUp(w, j),
           NEW c \in Clients
    PROVE  CarriesOn(c)
<1>1. /\ run[w].at = "idle" /\ row' = row
      /\ \A v \in Workers \ {w} : run'[v] = run[v]
      /\ \A i \in Jobs \ {j} : job'[i] = job[i]
      /\ job'[j].client = job[j].client /\ job'[j].state = "active"
  BY DEF PickUp, TypeOK, RunOK, JobOK, JobRecords
<1>2. JobsKept /\ ~Carries(w, c)
  BY <1>1 DEF JobsKept, Carries, Owning
<1> QED
  BY <1>1, <1>2, CarriedStays DEF CarriesOn

\* The steps that leave runs and jobs alone make no row pending.
LEMMA HookCarries ==
    ASSUME TypeOK, NEW h \in Hooks, HookStep(h) \/ HookCrash(h), NEW c \in Clients
    PROVE  CarriesOn(c)
<1>1. row \in [Clients -> RowRecords] /\ UNCHANGED <<run, job>>
  BY DEF TypeOK, HookStep, ReadTick, ApplyTick, ConsumeTick, HookCrash
<1>2. row'[c].status = "pending" => row[c].status = "pending"
  <2>1. CASE ApplyTick(h)
    <3>1. hook[h].tick[2] # "pending"
      BY <2>1 DEF ApplyTick, TypeOK, HookRecords, Ticks, DeliveryStatuses
    <3> QED
      BY <1>1, <2>1, <3>1 DEF ApplyTick, CompareAndSet
  <2> QED
    BY <2>1 DEF HookStep, ReadTick, ConsumeTick, HookCrash
<1>3. Carried(c)' <=> Carried(c)
  BY <1>1 DEF Carried, Carries, ClientOf
<1> QED
  BY <1>2, <1>3 DEF CarriesOn

\* A death leaves the rows of the other clients with who carried them.
LEMMA DeathCarries ==
    ASSUME TypeOK, JobsNamed, NEW w \in Workers, Crash(w) \/ Throw(w),
           NEW c \in Clients \ {ClientOf(w)}
    PROVE  CarriesOn(c)
<1>1. row' = row
  BY DEF Crash, Throw
<1>2. JobsKept /\ \A v \in Workers \ {w} : run'[v] = run[v]
  BY FaultQuiet, ThrowQuiet DEF Quietly
<1>3. ~Carries(w, c)
  BY DEF Carries
<1> QED
  BY <1>1, <1>2, <1>3, CarriedStays DEF CarriesOn

LEMMA CarriesOnAll ==
    ASSUME \A c \in Clients : CarriesOn(c)
    PROVE  Kept(Stranded, Stranded')
BY DEF CarriesOn, Carried, Stranded, Kept

LEMMA StrandedStep ==
    ASSUME TypeOK, JobsNamed, LocksHold, [Next]_vars
    PROVE  \/ Kept(Stranded, Stranded') /\ UNCHANGED <<crashes, throws>>
           \/ Gained(Stranded, Stranded') /\ Deaths' = Deaths + 1
<1>1. ASSUME UNCHANGED <<row, run, job>> PROVE Kept(Stranded, Stranded')
  BY <1>1 DEF Stranded, Carries, ClientOf, Kept
<1>2. CASE UNCHANGED vars
  BY <1>1, <1>2 DEF vars, budget
<1>3. ASSUME NEW j \in Jobs, NEW d \in Clients, Submit(j, d)
      PROVE  Kept(Stranded, Stranded') /\ UNCHANGED <<crashes, throws>>
  <2>1. /\ UNCHANGED <<run, row, crashes, throws>> /\ job[j].state = "unused"
        /\ \A i \in Jobs \ {j} : job'[i] = job[i]
    BY <1>3 DEF Submit, budget, TypeOK, JobOK
  <2>2. \A v \in Workers, c \in Clients : Carries(v, c) => Carries(v, c)'
    BY <2>1, UnderWay DEF Carries, Owning, ClientOf, JobsNamed
  <2>3. \A c \in Clients : CarriesOn(c)
    BY <2>1, <2>2 DEF CarriesOn, Carried
  <2> QED
    BY <2>1, <2>3, CarriesOnAll
<1>4. ASSUME NEW w \in Workers, NEW j \in Jobs, PickUp(w, j)
      PROVE  Kept(Stranded, Stranded') /\ UNCHANGED <<crashes, throws>>
  <2>1. Kept(Stranded, Stranded')
    BY <1>4, PickUpCarries, CarriesOnAll
  <2>2. UNCHANGED budget
    BY <1>4 DEF PickUp
  <2> QED
    BY <2>1, <2>2 DEF budget
<1>5. ASSUME NEW w \in Workers, Save(w) \/ Claim(w) \/ Call(w) \/ Settle(w)
      PROVE  Kept(Stranded, Stranded') /\ UNCHANGED <<crashes, throws>>
  BY <1>5, SaveMoves, ClaimMoves, CallMoves, SettleMoves, SaveCarries, ClaimCarries,
     CallCarries, SettleCarries, CarriesOnAll
<1>6. ASSUME NEW w \in Workers, LoseLock(w)
      PROVE  Kept(Stranded, Stranded') /\ UNCHANGED <<crashes, throws>>
  BY <1>6, LateCarries, CarriesOnAll DEF LoseLock
<1>7. ASSUME NEW w \in Workers, Crash(w) \/ Throw(w)
      PROVE  Gained(Stranded, Stranded') /\ Deaths' = Deaths + 1
  <2>1. Stranded' \subseteq Stranded \cup {ClientOf(w)}
    BY <1>7, DeathCarries DEF CarriesOn, Carried, Stranded
  <2>2. crashes \in Nat /\ throws \in Nat
    BY TypeParts, BoundsAssumption DEF RestOK
  <2>3. \/ crashes' = crashes + 1 /\ throws' = throws
        \/ throws' = throws + 1 /\ crashes' = crashes
    BY <1>7 DEF Crash, Throw
  <2> QED
    BY <2>1, <2>2, <2>3 DEF Gained, Deaths
<1>8. ASSUME NEW x \in Wamids, NEW s \in Reports, Report(x, s)
      PROVE  Kept(Stranded, Stranded') /\ UNCHANGED <<crashes, throws>>
  BY <1>1, <1>8 DEF Report, budget
<1>9. ASSUME NEW h \in Hooks, HookStep(h) \/ HookCrash(h)
      PROVE  Kept(Stranded, Stranded') /\ UNCHANGED <<crashes, throws>>
  <2>1. UNCHANGED <<crashes, throws>>
    BY <1>9 DEF HookStep, ReadTick, ApplyTick, ConsumeTick, HookCrash, budget
  <2> QED
    BY <1>9, <2>1, HookCarries, CarriesOnAll
<1> QED
  BY <1>2, <1>3, <1>4, <1>5, <1>6, <1>7, <1>8, <1>9 DEF Next, WorkerStep

LEMMA StrandedCountedStep ==
    ASSUME TypeOK, TokensBounded, StrandedCounted, [Next]_vars
    PROVE  StrandedCounted'
<1>1. Deaths \in Nat
  BY TypeParts, BoundsAssumption DEF RestOK, Deaths
<1>2. UNCHANGED <<crashes, throws>> => Deaths' = Deaths
  BY DEF Deaths
<1> QED
  BY <1>1, <1>2, StrandedStep, KeptBound, GainedBound DEF StrandedCounted, TokensBounded

\* Double submits, retries, lost locks, lost answers and repeated ticks strand
\* no pending row; a worker that dies, or a handler that throws, strands one at
\* most, whatever else is under way (deliver, claimSend).
THEOREM StrandedRowsAreCounted == Spec => []StrandedWithinDeaths
<1>1. TypeOK /\ TokensBounded /\ StrandedCounted /\ [Next]_vars => StrandedCounted'
  BY StrandedCountedStep
<1>2. StrandedCounted => StrandedWithinDeaths
  BY DEF StrandedCounted, AtMost, StrandedWithinDeaths, Deaths
<1> QED
  BY TokensInv, StrandedInit, <1>1, <1>2, PTL DEF Spec

\* What conversations.service.ts promises of a send ("sends to Graph exactly
\* once per `clientMessageId`") holds, however submits and retries race, ticks
\* repeat and workers die, until the first answer lost on its way back.
THEOREM ExactlyOnceUntilAnAnswerIsLost == Spec => [](lost = 0 => ExactlyOncePerSend)
<1>1. TypeOK /\ CopiesAccountedFor => (lost = 0 => ExactlyOncePerSend)
  <2> SUFFICES ASSUME TypeOK, CopiesAccountedFor, lost = 0, NEW c \in Clients
               PROVE  Cardinality(Copies(c)) <= 1 + Retries(c)
    BY DEF ExactlyOncePerSend
  <2>1. Retries(c) \in Nat
    BY TypeParts, RetriesType
  <2>2. Cardinality(Copies(c)) <= 1 + Retries(c) + lost
    BY DEF CopiesAccountedFor
  <2> QED
    BY <2>1, <2>2
<1> QED
  BY TypeCorrect, CopiesAreAccountedFor, <1>1, PTL
-----------------------------------------------------------------------------
(***************************************************************************)
(* The safety half of QueuedSendIsSaved: what the queue took is saved, or  *)
(* failed, or some process still has it.                                   *)
(***************************************************************************)

\* A job is done only when its row is saved, and taken only by a run that
\* holds its lock: a submit that was stored ends as a row or as a failed job.
NoSendVanishes ==
    \A j \in Jobs :
        /\ job[j].state = "completed" => row[job[j].client].status # "none"
        /\ job[j].state = "active" =>
              \E w \in Workers : run[w].locked /\ run[w].job = j

\* A run past saveOutbound has found or inserted its row.
PastSave ==
    \A w \in Workers :
        run[w].at \in Owning \cup {"claim"} => row[ClientOf(w)].status # "none"

\* A run of saveOutbound that has another insert to try.
Saves(w) == \/ run[w].at = "insert"
            \/ run[w].at \in {"lookup", "refind"} /\ run[w].tries < MaxSaveAttempts

SavedOrComing(c) ==
    \/ row[c].status # "none"
    \/ \E j \in Jobs : job[j].state = "waiting" /\ job[j].client = c
    \/ \E w \in Workers : Works(w, c) /\ Saves(w)

\* Sends of a conversation may deadlock each other out, but not all of them.
SomeSendIsKept ==
    throws = 0 /\ crashes + late <= 1 /\ MaxStalledCount > 0 =>
        \/ \A j \in Jobs : job[j].state = "unused"
        \/ \E c \in Clients : SavedOrComing(c)

LEMMA SendsInit == Init => NoSendVanishes /\ PastSave /\ SomeSendIsKept
BY DEF Init, NoSendVanishes, PastSave, SomeSendIsKept, Idle, Owning

LEMMA RowsStay ==
    ASSUME TypeOK, [Next]_vars, NEW c \in Clients, row[c].status # "none"
    PROVE  row'[c].status # "none"
<1>1. LifecycleStep
  BY Refines
<1>2. CASE UNCHANGED Lifecycle!vars
  <2>1. [d \in Clients |-> row'[d].status][c] = [d \in Clients |-> row[d].status][c]
    BY <1>2 DEF Lifecycle!vars
  <2> QED
    BY <2>1
<1>3. CASE Lifecycle!Next
  <2> DEFINE s == [d \in Clients |-> row[d].status]
             t == [d \in Clients |-> row'[d].status]
  <2>1. PICK d \in Clients, v \in Statuses : t = [s EXCEPT ![d] = v]
    BY <1>3 DEF Lifecycle!Next, Lifecycle!Save, Lifecycle!Advance, Lifecycle!Retry,
                Lifecycle!DeliveryStatuses, Lifecycle!Statuses, Statuses
  <2>2. t[c] = row'[c].status /\ s[c] = row[c].status
    OBVIOUS
  <2>3. t[c] = v \/ t[c] = s[c]
    BY <2>1
  <2> QED
    BY <2>1, <2>2, <2>3, Ranks
<1> QED
  BY <1>1, <1>2, <1>3 DEF LifecycleStep

\* saveOutbound ends a job by throwing alone; the other ends complete it.
LEMMA SaveEnds ==
    ASSUME TypeOK, NEW w \in Workers, Save(w)
    PROVE  /\ run[w].at \in {"lookup", "insert", "refind"}
           /\ \/ /\ GoesOnAlone(w)
                 /\ run'[w].at = "claim" => row'[ClientOf(w)].status # "none"
                 /\ run'[w].at \in {"lookup", "insert", "refind", "claim"}
              \/ Finish(w, "failed")
<1>1. /\ run[w].at \in {"lookup", "insert", "refind"}
      /\ run \in [Workers -> RunRecords] /\ run[w] \in RunRecords
      /\ row \in [Clients -> RowRecords] /\ ClientOf(w) \in Clients
  BY UnderWay DEF Save, FindExisting, FindNothing, Insert, InsertLoses, RunOK, RowOK
<1>2. CASE FindExisting(w)
  BY <1>1, <1>2 DEF FindExisting, GoesOnAlone, RunRecords
<1>3. CASE FindNothing(w)
  <2>1. CASE Goto(w, "insert") /\ UNCHANGED job
    BY <1>1, <2>1 DEF Goto, GoesOnAlone, RunRecords
  <2> QED
    BY <1>1, <1>3, <2>1 DEF FindNothing
<1>4. CASE Insert(w)
  BY <1>1, <1>4 DEF Insert, GoesOnAlone, RunRecords
<1>5. CASE InsertLoses(w)
  BY <1>1, <1>5 DEF InsertLoses, GoesOnAlone, RunRecords
<1> QED
  BY <1>2, <1>3, <1>4, <1>5 DEF Save

LEMMA LaterEnds ==
    ASSUME TypeOK, NEW w \in Workers, Claim(w) \/ Call(w) \/ Settle(w)
    PROVE  /\ run[w].at \in Owning \cup {"claim"}
           /\ GoesOnAlone(w) \/ Finish(w, "completed")
<1>1. CASE Claim(w)
  <2>1. run[w].at = "claim" /\ (GoesOnAlone(w) \/ run' = [run EXCEPT ![w] = Idle])
    BY <1>1, ClaimMoves DEF Ends, Finish
  <2>2. (Own(w) /\ UNCHANGED job) \/ Return(w)
    BY <1>1 DEF Claim, ClaimCreated, ClaimRetry, ClaimExisting
  <2>3. Own(w) /\ UNCHANGED job => GoesOnAlone(w)
    BY <2>1, AtKeeps DEF Own, Points
  <2> QED
    BY <2>1, <2>2, <2>3 DEF Return
<1>2. CASE Call(w)
  BY <1>2, CallMoves DEF Call, RefuseSend, CallProvider, ProviderAnswers, AnswerLost,
                         Accept, ProviderFaults, ProviderRejects, Owning
<1>3. CASE Settle(w)
  BY <1>3 DEF Settle, MarkSent, MarkSendFailed, Return, Owning
<1> QED
  BY <1>1, <1>2, <1>3

LEMMA PastSaveStep ==
    ASSUME TypeOK, JobsNamed, PastSave, [Next]_vars
    PROVE  PastSave'
<1>0. run \in [Workers -> RunRecords] /\ job \in [Jobs -> JobRecords]
  BY DEF TypeOK, RunOK, JobOK
<1> SUFFICES ASSUME NEW v \in Workers, run'[v].at \in Owning \cup {"claim"}
             PROVE  row'[ClientOf(v)'].status # "none"
  BY DEF PastSave
<1> DEFINE Still == /\ run'[v].job = run[v].job
                    /\ run[v].at \in Owning \cup {"claim"}
                    /\ job'[run[v].job].client = job[run[v].job].client
<1>1. ASSUME Still PROVE row'[ClientOf(v)'].status # "none"
  <2>1. run[v].at # "idle" /\ ClientOf(v)' = ClientOf(v)
    BY <1>1 DEF Owning, ClientOf
  <2>2. row[ClientOf(v)].status # "none" /\ ClientOf(v) \in Clients
    BY <1>1, <2>1, UnderWay DEF PastSave
  <2> QED
    BY <2>1, <2>2, RowsStay
<1>2. ASSUME JobsKept, run'[v] = run[v] PROVE Still
  BY <1>2, UnderWay DEF JobsKept, JobsNamed, Owning
<1> HIDE DEF Still
<1>3. run'[v].at # "idle"
  BY DEF Owning
<1>4. CASE UNCHANGED vars
  BY <1>1, <1>2, <1>4 DEF vars, JobsKept
<1>5. ASSUME NEW j \in Jobs, NEW c \in Clients, Submit(j, c) PROVE Still
  BY <1>0, <1>2, <1>5 DEF Submit, JobsKept
<1>6. ASSUME NEW w \in Workers, NEW j \in Jobs, PickUp(w, j) PROVE Still
  <2>1. JobsKept /\ v # w /\ run'[v] = run[v]
    BY <1>0, <1>6 DEF PickUp, Idle, JobsKept, JobRecords, Owning
  <2> QED
    BY <1>2, <2>1
<1>7. ASSUME NEW w \in Workers, NEW s \in {"completed", "failed"}, run[w].at # "idle",
             Finish(w, s)
      PROVE  Still
  <2>1. JobsKept /\ v # w /\ run'[v] = run[v]
    BY <1>0, <1>3, <1>7, FinishKeeps, IdleType
  <2> QED
    BY <1>2, <2>1
<1>8. ASSUME NEW w \in Workers, Save(w) PROVE row'[ClientOf(v)'].status # "none"
  <2>1. CASE Finish(w, "failed")
    BY <1>1, <1>7, <1>8, <2>1, SaveEnds
  <2>2. CASE GoesOnAlone(w) /\ v = w /\ run'[w].at = "claim"
             /\ row'[ClientOf(w)].status # "none"
    BY <2>2 DEF GoesOnAlone, ClientOf
  <2>3. CASE GoesOnAlone(w) /\ v # w
    BY <1>1, <1>2, <2>3, GoesOnKeeps
  <2> QED
    BY <1>8, <2>1, <2>2, <2>3, SaveEnds DEF Owning
<1>9. ASSUME NEW w \in Workers, Claim(w) \/ Call(w) \/ Settle(w) PROVE Still
  <2>1. CASE Finish(w, "completed")
    BY <1>7, <1>9, <2>1, LaterEnds DEF Owning
  <2>2. CASE GoesOnAlone(w) /\ v = w /\ run[w].at \in Owning \cup {"claim"}
    BY <2>2 DEF GoesOnAlone, Still
  <2>3. CASE GoesOnAlone(w) /\ v # w
    BY <1>2, <2>3, GoesOnKeeps
  <2> QED
    BY <1>9, <2>1, <2>2, <2>3, LaterEnds
<1>10. ASSUME NEW w \in Workers, Throw(w) PROVE Still
  BY <1>7, <1>10 DEF Throw
<1>11. ASSUME NEW w \in Workers, Crash(w) \/ LoseLock(w) PROVE Still
  <2>1. /\ run[w].at # "idle" /\ (Stalled(run[w].job) \/ UNCHANGED job)
        /\ v # w => run'[v] = run[v]
        /\ v = w => run'[v].at = run[v].at /\ run'[v].job = run[v].job
    BY <1>0, <1>3, <1>11, IdleType DEF Crash, LoseLock, RunRecords, TypeOK, RunOK
  <2>2. JobsKept
    BY <2>1, StalledKeeps DEF JobsKept
  <2> QED
    BY <1>2, <2>1, <2>2, UnderWay DEF Still, JobsKept, JobsNamed
<1>12. ASSUME NEW x \in Wamids, NEW s \in Reports, Report(x, s) PROVE Still
  BY <1>2, <1>12 DEF Report, JobsKept
<1>13. ASSUME NEW h \in Hooks, HookStep(h) \/ HookCrash(h) PROVE Still
  BY <1>2, <1>13 DEF HookStep, ReadTick, ApplyTick, ConsumeTick, HookCrash, JobsKept
<1> QED
  BY <1>1, <1>4, <1>5, <1>6, <1>8, <1>9, <1>10, <1>11, <1>12, <1>13 DEF Next, WorkerStep

LEMMA NoSendVanishesStep ==
    ASSUME TypeOK, JobsNamed, LocksHold, PastSave, NoSendVanishes, [Next]_vars
    PROVE  NoSendVanishes'
<1>0. /\ run \in [Workers -> RunRecords] /\ job \in [Jobs -> JobRecords]
      /\ \A v \in Workers : run[v].locked => run[v].job \in Jobs /\ run[v].at # "idle"
      /\ \A j \in Jobs : job[j].state # "unused" => job[j].client \in Clients
  BY DEF TypeOK, RunOK, JobOK
<1> DEFINE Held(j) == \E v \in Workers : run[v].locked /\ run[v].job = j
           Fine(j) == /\ job[j].state = "completed" => row[job[j].client].status # "none"
                      /\ job[j].state = "active" => Held(j)
<1> SUFFICES ASSUME NEW j \in Jobs PROVE Fine(j)'
  BY DEF NoSendVanishes
<1>1. Fine(j)
  BY DEF NoSendVanishes
<1>2. ASSUME job'[j] = job[j], Held(j) => Held(j)' PROVE Fine(j)'
  BY <1>0, <1>1, <1>2, RowsStay
<1>3. ASSUME NEW w \in Workers, \A v \in Workers \ {w} : run'[v] = run[v],
             ~run[w].locked \/ run[w].job # j
      PROVE  Held(j) => Held(j)'
  BY <1>3
<1>4. CASE UNCHANGED vars
  <2>1. job' = job /\ run' = run
    BY <1>4 DEF vars
  <2> QED
    BY <1>2, <2>1
<1>5. ASSUME NEW i \in Jobs, NEW c \in Clients, Submit(i, c) PROVE Fine(j)'
  <2>1. run' = run /\ (j # i => job'[j] = job[j]) /\ job'[i].state = "waiting"
    BY <1>0, <1>5 DEF Submit, JobRecords
  <2> QED
    BY <1>2, <2>1
<1>6. ASSUME NEW w \in Workers, NEW i \in Jobs, PickUp(w, i) PROVE Fine(j)'
  <2>1. /\ run'[w].locked /\ run'[w].job = i /\ job'[i].state = "active"
        /\ j # i => job'[j] = job[j]
        /\ run[w].at = "idle" /\ \A v \in Workers \ {w} : run'[v] = run[v]
    BY <1>0, <1>6 DEF PickUp, Idle, JobRecords
  <2>2. CASE j = i
    BY <2>1, <2>2
  <2>3. CASE j # i
    BY <1>0, <1>2, <1>3, <2>1, <2>3
  <2> QED
    BY <2>2, <2>3
<1>7. ASSUME NEW w \in Workers, GoesOnAlone(w) PROVE Fine(j)'
  <2>1. \A v \in Workers : run'[v].locked = run[v].locked /\ run'[v].job = run[v].job
    BY <1>7 DEF GoesOnAlone
  <2>2. job'[j] = job[j]
    BY <1>7 DEF GoesOnAlone
  <2> QED
    BY <1>2, <2>1, <2>2
<1>8. ASSUME NEW w \in Workers, NEW s \in {"completed", "failed"}, run[w].at # "idle",
             Finish(w, s), s = "completed" => row[ClientOf(w)].status # "none"
      PROVE  Fine(j)'
  <2>1. run' = [run EXCEPT ![w] = Idle] /\ \A v \in Workers \ {w} : run'[v] = run[v]
    BY <1>0, <1>8 DEF Finish
  <2>2. CASE run[w].locked /\ run[w].job = j
    <3>1. job'[j].state = s /\ job'[j].client = job[j].client /\ ClientOf(w) = job[j].client
      BY <1>0, <1>8, <2>2 DEF Finish, JobRecords, ClientOf
    <3>2. s = "completed" => row'[ClientOf(w)].status # "none"
      BY <1>8, UnderWay, RowsStay
    <3> QED
      BY <3>1, <3>2
  <2>3. CASE ~run[w].locked \/ run[w].job # j
    <3>1. job'[j] = job[j]
      BY <1>0, <1>8, <2>3 DEF Finish
    <3> QED
      BY <1>2, <1>3, <2>1, <2>3, <3>1
  <2> QED
    BY <2>2, <2>3
<1>9. ASSUME NEW w \in Workers, Save(w) PROVE Fine(j)'
  <2>1. run[w].at # "idle" /\ (GoesOnAlone(w) \/ Finish(w, "failed"))
    BY <1>9, SaveEnds
  <2> QED
    BY <1>7, <1>8, <2>1
<1>10. ASSUME NEW w \in Workers, Claim(w) \/ Call(w) \/ Settle(w) PROVE Fine(j)'
  <2>1. run[w].at # "idle" /\ row[ClientOf(w)].status # "none"
        /\ (GoesOnAlone(w) \/ Finish(w, "completed"))
    BY <1>10, LaterEnds DEF PastSave, Owning
  <2> QED
    BY <1>7, <1>8, <2>1
<1>11. ASSUME NEW w \in Workers, Throw(w) PROVE Fine(j)'
  BY <1>8, <1>11 DEF Throw
<1>12. ASSUME NEW w \in Workers, Crash(w) \/ LoseLock(w) PROVE Fine(j)'
  <2>1. /\ \A v \in Workers \ {w} : run'[v] = run[v]
        /\ \/ ~run[w].locked /\ UNCHANGED job
           \/ run[w].locked /\ Stalled(run[w].job) /\ run[w].at # "idle"
    BY <1>0, <1>12 DEF Crash, LoseLock
  <2>2. CASE run[w].locked /\ run[w].job = j
    BY <2>1, <2>2, StalledKeeps
  <2>3. CASE ~run[w].locked \/ run[w].job # j
    <3>1. job'[j] = job[j]
      BY <2>1, <2>3, StalledKeeps
    <3> QED
      BY <1>2, <1>3, <2>1, <2>3, <3>1
  <2> QED
    BY <2>2, <2>3
<1>13. ASSUME NEW x \in Wamids, NEW s \in Reports, Report(x, s) PROVE Fine(j)'
  <2>1. job' = job /\ run' = run
    BY <1>13 DEF Report
  <2> QED
    BY <1>2, <2>1
<1>14. ASSUME NEW h \in Hooks, HookStep(h) \/ HookCrash(h) PROVE Fine(j)'
  <2>1. job' = job /\ run' = run
    BY <1>14 DEF HookStep, ReadTick, ApplyTick, ConsumeTick, HookCrash
  <2> QED
    BY <1>2, <2>1
<1> QED
  BY <1>4, <1>5, <1>6, <1>9, <1>10, <1>11, <1>12, <1>13, <1>14 DEF Next, WorkerStep

\* A run that was not saving moves alone: what is on its way stays there.
LEMMA ComingStays ==
    ASSUME TypeOK, JobsNamed, JobsKept, WaitingStay, [Next]_vars, NEW c \in Clients,
           SavedOrComing(c),
           \A v \in Workers : Saves(v) => run'[v] = run[v]
    PROVE  SavedOrComing(c)'
<1>1. ASSUME NEW v \in Workers, Works(v, c), Saves(v) PROVE Works(v, c)' /\ Saves(v)'
  BY <1>1, UnderWay DEF Works, Saves, ClientOf, JobsKept, JobsNamed
<1>2. ASSUME NEW j \in Jobs, job[j].state = "waiting", job[j].client = c
      PROVE  job'[j].state = "waiting" /\ job'[j].client = c
  BY <1>2 DEF WaitingStay
<1> QED
  BY <1>1, <1>2, RowsStay DEF SavedOrComing

LEMMA SaveKeepsSome ==
    ASSUME TypeOK, JobsNamed, LocksHold, [Next]_vars, NEW w \in Workers, Save(w),
           NEW c \in Clients, SavedOrComing(c)
    PROVE  \E d \in Clients : SavedOrComing(d)'
<1>1. /\ run[w].at \in {"lookup", "insert", "refind"} /\ run[w].at # "idle"
      /\ run \in [Workers -> RunRecords] /\ run[w] \in RunRecords
      /\ row \in [Clients -> RowRecords] /\ ClientOf(w) \in Clients
  BY UnderWay, SaveEnds DEF RunOK, RowOK
<1>2. CASE row'[ClientOf(w)].status # "none"
  BY <1>1, <1>2 DEF SavedOrComing
<1>3. CASE Goto(w, "insert") /\ UNCHANGED job
  <2>1. run'[w].at = "insert" /\ Works(w, ClientOf(w))'
    BY <1>1, <1>3 DEF Goto, RunRecords, Works, ClientOf
  <2>2. Saves(w)' /\ ClientOf(w)' = ClientOf(w)
    BY <1>1, <1>3, <2>1 DEF Saves, Goto, ClientOf, RunRecords
  <2> QED
    BY <1>1, <2>1, <2>2 DEF SavedOrComing
<1>4. CASE Finish(w, "failed") /\ ~Saves(w)
  <2>1. JobsKept /\ WaitingStay /\ \A v \in Workers \ {w} : run'[v] = run[v]
    BY <1>1, <1>4, EndsKeeps DEF Ends
  <2> QED
    BY <1>4, <2>1, ComingStays
<1>5. ASSUME NEW v \in Workers \ {w}, run[v].at = "insert", run'[v] = run[v], UNCHANGED job
      PROVE  \E d \in Clients : SavedOrComing(d)'
  <2>1. ClientOf(v) \in Clients /\ ClientOf(v)' = ClientOf(v)
    BY <1>5, UnderWay DEF ClientOf
  <2>2. Works(v, ClientOf(v))' /\ Saves(v)'
    BY <1>5 DEF Works, Saves
  <2> QED
    BY <2>1, <2>2 DEF SavedOrComing
<1>6. CASE FindExisting(w) \/ Insert(w)
  <2>1. Insert(w) => row'[ClientOf(w)].status = "pending"
    BY <1>1 DEF Insert, RowRecords
  <2> QED
    BY <1>1, <1>2, <1>6, <2>1 DEF FindExisting
<1>7. CASE FindNothing(w)
  BY <1>1, <1>3, <1>4, <1>7 DEF FindNothing, Saves
<1>8. CASE InsertLoses(w)
  BY <1>1, <1>2, <1>5, <1>8 DEF InsertLoses
<1> QED
  BY <1>6, <1>7, <1>8 DEF Save

LEMMA EndsNames ==
    ASSUME TypeOK, JobsNamed, NEW w \in Workers, GoesOnAlone(w) \/ Ends(w),
           NEW k \in Jobs, job'[k].state # "unused"
    PROVE  job[k].state # "unused"
<1>1. CASE GoesOnAlone(w)
  BY <1>1 DEF GoesOnAlone
<1>2. CASE Ends(w) /\ k = run[w].job
  BY <1>2 DEF Ends, JobsNamed
<1>3. CASE Ends(w) /\ k # run[w].job
  BY <1>3 DEF Ends, Finish, TypeOK, JobOK
<1> QED
  BY <1>1, <1>2, <1>3

LEMMA SomeSendStep ==
    ASSUME TypeOK, JobsNamed, LocksHold, SomeSendIsKept, [Next]_vars
    PROVE  SomeSendIsKept'
<1> DEFINE SomeKept == \E c \in Clients : SavedOrComing(c)
<1> SUFFICES ASSUME throws' = 0, crashes' + late' <= 1, MaxStalledCount > 0,
                    NEW k \in Jobs, job'[k].state # "unused"
             PROVE  SomeKept'
  BY DEF SomeSendIsKept
<1>0. /\ throws \in Nat /\ crashes \in Nat /\ late \in Nat /\ run \in [Workers -> RunRecords]
      /\ job \in [Jobs -> JobRecords]
      /\ \A j \in Jobs : job[j].state # "unused" => job[j].client \in Clients
  BY BoundsAssumption DEF TypeOK, RunOK, JobOK
<1>1. ASSUME throws = 0, crashes + late <= 1, job[k].state # "unused" PROVE SomeKept
  BY <1>1 DEF SomeSendIsKept
<1>2. ASSUME NEW j \in Jobs, job'[j].state = "waiting", job'[j].client \in Clients
      PROVE  SomeKept'
  BY <1>2 DEF SavedOrComing
<1>3. ASSUME JobsKept, WaitingStay, SomeKept,
             \A v \in Workers : Saves(v) => run'[v] = run[v]
      PROVE  SomeKept'
  BY <1>3, ComingStays
<1>4. ASSUME UNCHANGED <<run, job>>, SomeKept PROVE SomeKept'
  BY <1>3, <1>4 DEF JobsKept, WaitingStay
<1>5. CASE UNCHANGED vars
  BY <1>1, <1>4, <1>5 DEF vars, budget
<1>6. ASSUME NEW j \in Jobs, NEW c \in Clients, Submit(j, c) PROVE SomeKept'
  BY <1>0, <1>2, <1>6 DEF Submit, JobRecords
<1>7. ASSUME NEW w \in Workers, NEW j \in Jobs, PickUp(w, j) PROVE SomeKept'
  <2>1. /\ run'[w].at = "lookup" /\ run'[w].tries = 0 /\ run'[w].job = j
        /\ job'[j].client = job[j].client /\ job[j].client \in Clients
    BY <1>0, <1>7 DEF PickUp, Idle, JobRecords
  <2>2. Works(w, job[j].client)' /\ Saves(w)'
    BY <1>7, <2>1, BoundsAssumption DEF Works, ClientOf, Saves, PickUp
  <2> QED
    BY <2>1, <2>2 DEF SavedOrComing
<1>8. ASSUME NEW w \in Workers, Save(w) PROVE SomeKept'
  <2>1. UNCHANGED <<throws, crashes, late>> /\ job[k].state # "unused"
    BY <1>8, SaveMoves, EndsNames
  <2> QED
    BY <1>1, <1>8, <2>1, SaveKeepsSome
<1>9. ASSUME NEW w \in Workers, Claim(w) \/ Call(w) \/ Settle(w) PROVE SomeKept'
  <2>1. UNCHANGED <<throws, crashes, late>> /\ job[k].state # "unused"
    BY <1>9, ClaimMoves, CallMoves, SettleMoves, EndsNames
  <2>2. run[w].at \in Owning \cup {"claim"} /\ ~Saves(w) /\ run[w].at # "idle"
    BY <1>9, LaterEnds DEF Saves, Owning
  <2>3. JobsKept /\ WaitingStay /\ \A v \in Workers \ {w} : run'[v] = run[v]
    BY <1>9, <2>2, LaterEnds, GoesOnKeeps, EndsKeeps DEF Ends
  <2> QED
    BY <1>1, <1>3, <2>1, <2>2, <2>3
<1>10. ASSUME NEW w \in Workers, Throw(w) \/ Crash(w) \/ LoseLock(w) PROVE SomeKept'
  <2>1. ~Throw(w) /\ crashes = 0 /\ late = 0
    BY <1>0, <1>10 DEF Throw, Crash, LoseLock
  <2>2. run[w].locked /\ run[w].at # "idle" /\ Stalled(run[w].job)
    BY <1>10, <2>1 DEF Crash, LoseLock, LocksHold, TypeOK, RunOK
  <2>3. run[w].job \in Jobs /\ job[run[w].job].client \in Clients
        /\ job[run[w].job].stalls = 0
    BY <2>1, <2>2, UnderWay DEF LocksHold, ClientOf
  <2>4. job'[run[w].job].state = "waiting" /\ job'[run[w].job].client \in Clients
    BY <1>0, <2>2, <2>3 DEF Stalled, JobRecords
  <2> QED
    BY <1>2, <2>3, <2>4
<1>11. ASSUME NEW x \in Wamids, NEW s \in Reports, Report(x, s) PROVE SomeKept'
  BY <1>1, <1>4, <1>11 DEF Report, budget
<1>12. ASSUME NEW h \in Hooks, HookStep(h) \/ HookCrash(h) PROVE SomeKept'
  <2>1. UNCHANGED <<run, job, throws, crashes, late>>
    BY <1>12 DEF HookStep, ReadTick, ApplyTick, ConsumeTick, HookCrash, budget
  <2> QED
    BY <1>1, <1>4, <2>1
<1> QED
  BY <1>5, <1>6, <1>7, <1>8, <1>9, <1>10, <1>11, <1>12 DEF Next, WorkerStep

\* Whatever crashes, stalls or throws, a send the queue took is in the thread,
\* waits, is in a run that holds its lock, or is a failed job (processor).
THEOREM SendsAreAccountedFor == Spec => []NoSendVanishes
<1>1. TypeOK /\ TokensBounded /\ PastSave /\ [Next]_vars => PastSave'
  BY PastSaveStep DEF TokensBounded
<1>2. TypeOK /\ TokensBounded /\ PastSave /\ NoSendVanishes /\ [Next]_vars
         => NoSendVanishes'
  BY NoSendVanishesStep DEF TokensBounded
<1> QED
  BY TokensInv, SendsInit, <1>1, <1>2, PTL DEF Spec

\* The retries of saveOutbound cannot all lose to each other: until a handler
\* throws, and with one crash or lost lock at most, a conversation that was
\* sent to has a row, a waiting job or a run with an insert to try.
THEOREM SendsDoNotAllGiveUp == Spec => []SomeSendIsKept
<1>1. TypeOK /\ TokensBounded /\ SomeSendIsKept /\ [Next]_vars
         => SomeSendIsKept'
  BY SomeSendStep DEF TokensBounded
<1> QED
  BY TokensInv, SendsInit, <1>1, PTL DEF Spec
=============================================================================
