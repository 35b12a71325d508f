--------------------------- MODULE OutboundMessage ---------------------------
(***************************************************************************)
(* The outbound pipeline: an agent's send travels as a job of the `chat`   *)
(* queue, a worker saves the row, decides whether it owns the provider     *)
(* call, calls the provider and settles the row, while the provider's      *)
(* delivery ticks move the same row from the webhook side.                 *)
(*                                                                         *)
(* Every await of the code is a step boundary, so the status a run read    *)
(* (`seen`) may be stale when it acts on it.  A worker is a process: the   *)
(* chat worker has no `concurrency` option, so it runs one job at a time.  *)
(*                                                                         *)
(* External, modelled from how the code uses them: the BullMQ queue (one   *)
(* attempt per job; `attemptsMade` counts the attempts that ended, so that *)
(* a job whose worker died or lost its lock is handed out again with its   *)
(* stalls counted and its attemptsMade as it was), MySQL (unique           *)
(* (conversation, client_message_id), atomic conditional UPDATEs) and the  *)
(* provider.  Fan-out to sockets and the MessageSavedEvent are not state.  *)
(***************************************************************************)
EXTENDS MessageStatus, Sequences, FiniteSets

CONSTANTS Clients,          \* client message ids of one conversation
          Jobs,             \* send jobs the agents submit
          Workers,          \* processes consuming the chat queue
          Hooks,            \* webhook requests (or the boot replay) in flight
          Wamids,           \* ids the provider gives to accepted messages
          None,             \* absent client, job or wamid
          MaxAttempts,      \* MAX_ATTEMPTS of the provider client
          MaxSaveAttempts,  \* tries of saveOutbound
          MaxStalledCount,  \* BullMQ: how often a job may stall
          Reports,          \* bound: delivery states the provider reports
          MaxFaults,        \* bound: crashes, lost locks and repeated ticks together
          MaxThrows,        \* bound: jobs ended by an unexpected exception
          MaxLost           \* bound: provider answers lost on the way back

ASSUME BoundsAssumption ==
    /\ {MaxAttempts, MaxSaveAttempts} \subseteq Nat \ {0}
    /\ {MaxStalledCount, MaxFaults, MaxThrows, MaxLost} \subseteq Nat

ASSUME ReportsAssumption == Reports \subseteq DeliveryStatuses

ASSUME NoneAssumption == None \notin Clients \cup Jobs \cup Wamids

VARIABLES row,        \* messages: status and external_id by client id
          history,    \* message_status_events by client id
          job,        \* the chat queue
          run,        \* what each worker is doing
          accepted,   \* wamids the provider accepted, by client id
          reported,   \* delivery ticks the provider has sent
          consumed,   \* ticks whose intake event was marked replayed
          hook,       \* delivery ticks being applied
          crashes,    \* workers that died in the middle of a run
          late,       \* locks that were not renewed in time
          replays,    \* ticks taken again: in flight, or after a webhook crash
          throws,     \* runs ended by an exception
          lost        \* provider answers lost

provider == <<accepted, reported>>
ticks    == <<consumed, hook>>
budget   == <<crashes, late, replays, throws, lost>>
vars == <<row, history, job, run, provider, ticks, budget>>

RowStates == Statuses \cup {"none"}
JobStates == {"unused", "waiting", "active", "completed", "failed"}
Ticks     == Wamids \X DeliveryStatuses

\* The points of AgentMessageSender.deliver a run can be waiting at.
Points == {"idle", "lookup", "insert", "refind", "claim", "owned",
           "calling", "answered", "rejected"}

\* The points at which a run owns the provider call of its row.
Owning == {"owned", "calling", "answered", "rejected"}

Idle == [at |-> "idle", job |-> None, locked |-> FALSE, created |-> FALSE,
         attemptsMade |-> 0, seen |-> "none", tries |-> 0, wamid |-> None]

RowRecords == [status : RowStates, ext : Wamids \cup {None}]
JobRecords == [state : JobStates, client : Clients \cup {None},
               attemptsMade : Nat, stalls : Nat]
RunRecords == [at : Points, job : Jobs \cup {None}, locked : BOOLEAN,
               created : BOOLEAN, attemptsMade : Nat, seen : RowStates,
               tries : Nat, wamid : Wamids \cup {None}]

\* What the bound MaxFaults is spent on.
Faults == crashes + late + replays

HookRecords == [client : Clients \cup {None}, tick : Ticks]

\* A webhook request applies no tick, or one.
ASSUME HookAssumption == None \notin HookRecords

\* A submitted job has a client.
JobOK ==
    /\ job \in [Jobs -> JobRecords]
    /\ \A j \in Jobs : job[j].state # "unused" => job[j].client \in Clients

\* A run that is under way works on a job with a client, and one that holds
\* the provider's answer has its wamid.
RunOK ==
    /\ run \in [Workers -> RunRecords]
    /\ \A w \in Workers :
          /\ run[w].at # "idle" => /\ run[w].job \in Jobs
                                  /\ job[run[w].job].client \in Clients
          /\ run[w].at = "answered" => run[w].wamid \in Wamids
          /\ run[w].locked => run[w].at # "idle"

\* The types of the variables, and that no step runs without its job, client
\* or wamid (claimSend, deliver and markSent of agent-message-sender).
TypeOK ==
    /\ row \in [Clients -> RowRecords]
    /\ history \in [Clients -> Seq(Statuses)]
    /\ JobOK
    /\ RunOK
    /\ accepted \in [Clients -> SUBSET Wamids]
    /\ reported \in SUBSET Ticks
    /\ consumed \in SUBSET Ticks
    /\ hook \in [Hooks -> HookRecords \cup {None}]
    /\ {crashes, late, replays} \subseteq Nat
    /\ Faults <= MaxFaults
    /\ throws \in 0..MaxThrows
    /\ lost \in 0..MaxLost

Init ==
    /\ row      = [c \in Clients |-> [status |-> "none", ext |-> None]]
    /\ history  = [c \in Clients |-> <<>>]
    /\ job      = [j \in Jobs |-> [state |-> "unused", client |-> None,
                                   attemptsMade |-> 0, stalls |-> 0]]
    /\ run      = [w \in Workers |-> Idle]
    /\ accepted = [c \in Clients |-> {}]
    /\ reported = {}
    /\ consumed = {}
    /\ hook     = [h \in Hooks |-> None]
    /\ crashes = 0 /\ late = 0 /\ replays = 0
    /\ throws = 0 /\ lost = 0

ClientOf(w) == job[run[w].job].client
FreshWamids == Wamids \ UNION {accepted[c] : c \in Clients}
-----------------------------------------------------------------------------
\* A mutated form of CompareAndSet, for the mutation runs.
SetBlindly(c, from, to, ext) ==
    /\ row' = [row EXCEPT ![c] = [status |-> to, ext |-> ext]]
    /\ history' = [history EXCEPT ![c] = Append(@, to)]

\* One conditional UPDATE of the status column plus its history row, in one
\* transaction (markSent, markSendFailed, resetFailedForRetry, applyStatus):
\* a row that is not in `from` is left alone and nothing is appended.
CompareAndSet(c, from, to, ext) ==
    IF row[c].status \in from
    THEN /\ row' = [row EXCEPT ![c] = [status |-> to, ext |-> ext]]
         /\ history' = [history EXCEPT ![c] = Append(@, to)]
    ELSE UNCHANGED <<row, history>>

Goto(w, at) == run' = [run EXCEPT ![w].at = at]

\* What a run still knows of itself past a point: its job, and its lock.
At(w, at) == [Idle EXCEPT !.at = at, !.job = run[w].job,
                          !.locked = run[w].locked]

\* The run ends, and its attempt is made; the queue hears of it only while
\* the run holds its lock.
Finish(w, state) ==
    /\ run' = [run EXCEPT ![w] = Idle]
    /\ job' = IF run[w].locked
              THEN [job EXCEPT ![run[w].job].state = state,
                               ![run[w].job].attemptsMade = @ + 1]
              ELSE job

Return(w) == Finish(w, "completed")

\* The run owns the provider call of its row from here on.
Own(w) == run' = [run EXCEPT ![w] = At(w, "owned")]
-----------------------------------------------------------------------------
(* Mutated forms of the actions below, for the mutation runs. *)

\* A stalled job is taken for done when its row was never inserted.
FindNothingIfFresh(w) ==
    /\ run[w].at \in {"lookup", "refind"}
    /\ row[ClientOf(w)].status = "none"
    /\ IF run[w].tries < MaxSaveAttempts /\ job[run[w].job].stalls = 0
       THEN Goto(w, "insert") /\ UNCHANGED job
       ELSE Finish(w, "failed")
    /\ UNCHANGED <<row, history, provider, ticks, budget>>

\* An existing row is reported as just created.
FindExistingAsCreated(w) ==
    /\ run[w].at \in {"lookup", "refind"}
    /\ row[ClientOf(w)].status # "none"
    /\ run' = [run EXCEPT ![w].at = "claim", ![w].tries = 0,
                          ![w].created = TRUE,
                          ![w].seen = row[ClientOf(w)].status]
    /\ UNCHANGED <<row, history, job, provider, ticks, budget>>

\* The loser of a concurrent retry sends as well.
ClaimRetryUnguarded(w) ==
    LET c == ClientOf(w) IN
    /\ run[w].at = "claim"
    /\ ~run[w].created
    /\ run[w].seen = "failed"
    /\ CompareAndSet(c, {"failed"}, "pending", row[c].ext)
    /\ Own(w)
    /\ UNCHANGED <<job, provider, ticks, budget>>

\* Any run over a pending row takes it for one a dead attempt left.
ClaimAnyPending(w) ==
    /\ run[w].at = "claim"
    /\ ~run[w].created
    /\ run[w].seen # "failed"
    /\ IF run[w].seen = "pending" THEN Own(w) /\ UNCHANGED job ELSE Return(w)
    /\ UNCHANGED <<row, history, provider, ticks, budget>>

\* A refused send ends without failSend.
RefuseSilently(w) ==
    /\ run[w].at = "owned"
    /\ Return(w)
    /\ UNCHANGED <<row, history, provider, ticks, budget>>

\* The last try is followed by a first one.
NextTryForEver(w) ==
    run' = [run EXCEPT ![w].tries = IF @ < MaxAttempts THEN @ + 1 ELSE 1]
-----------------------------------------------------------------------------
(* The agent: a first send, a double submit and a retry are the same call. *)

\* handleSendMessage -> SendConversationMessageHandler: the job is queued.
Submit(j, c) ==
    /\ job[j].state = "unused"
    /\ job' = [job EXCEPT ![j].state = "waiting", ![j].client = c]
    /\ UNCHANGED <<row, history, run, provider, ticks, budget>>

\* ConversationProcessor.process takes a job; media.prepare never throws.
PickUp(w, j) ==
    /\ run[w].at = "idle"
    /\ job[j].state = "waiting"
    /\ job' = [job EXCEPT ![j].state = "active"]
    /\ run' = [run EXCEPT ![w] =
                  [Idle EXCEPT !.at = "lookup", !.job = j, !.locked = TRUE,
                               !.attemptsMade = job[j].attemptsMade]]
    /\ UNCHANGED <<row, history, provider, ticks, budget>>
-----------------------------------------------------------------------------
(* MessageService.saveOutbound *)

\* findByClientMessageId found the row of an earlier submit.
FindExisting(w) ==
    /\ run[w].at \in {"lookup", "refind"}
    /\ row[ClientOf(w)].status # "none"
    /\ run' = [run EXCEPT ![w].at = "claim", ![w].tries = 0,
                          ![w].seen = row[ClientOf(w)].status]
    /\ UNCHANGED <<row, history, job, provider, ticks, budget>>

\* No row yet: insert it (again, while tries are left), or give up and throw.
FindNothing(w) ==
    /\ run[w].at \in {"lookup", "refind"}
    /\ row[ClientOf(w)].status = "none"
    /\ IF run[w].tries < MaxSaveAttempts
       THEN Goto(w, "insert") /\ UNCHANGED job
       ELSE Finish(w, "failed")
    /\ UNCHANGED <<row, history, provider, ticks, budget>>

\* MessageRepository.create commits the pending row.
Insert(w) ==
    /\ run[w].at = "insert"
    /\ row[ClientOf(w)].status = "none"
    /\ row' = [row EXCEPT ![ClientOf(w)].status = "pending"]
    /\ run' = [run EXCEPT ![w].at = "claim", ![w].tries = 0,
                          ![w].created = TRUE, ![w].seen = "pending"]
    /\ UNCHANGED <<history, job, provider, ticks, budget>>

\* The unique index refused it, or it deadlocked with a concurrent submit.
InsertLoses(w) ==
    /\ run[w].at = "insert"
    /\ \/ row[ClientOf(w)].status # "none"
       \/ \E v \in Workers \ {w} : run[v].at = "insert"
    /\ run' = [run EXCEPT ![w].at = "refind", ![w].tries = @ + 1]
    /\ UNCHANGED <<row, history, job, provider, ticks, budget>>
-----------------------------------------------------------------------------
(* AgentMessageSender.claimSend: does this run own the provider call? *)

\* The run that inserted the row announces it and owns it.
ClaimCreated(w) ==
    /\ run[w].at = "claim"
    /\ run[w].created
    /\ Own(w)
    /\ UNCHANGED <<row, history, job, provider, ticks, budget>>

\* A failed row: only the winner of the compare-and-set owns the retry.
ClaimRetry(w) ==
    LET c == ClientOf(w) IN
    /\ run[w].at = "claim"
    /\ ~run[w].created
    /\ run[w].seen = "failed"
    /\ CompareAndSet(c, {"failed"}, "pending", row[c].ext)
    /\ IF row[c].status = "failed"
       THEN Own(w) /\ UNCHANGED job
       ELSE Return(w)
    /\ UNCHANGED <<provider, ticks, budget>>

\* A row that has not failed is a double submit of a live send, and is not
\* sent again.  A pending one found by a run with attempts made would be taken
\* over; but the job of a stalled run has none, so that none ever is.
ClaimExisting(w) ==
    /\ run[w].at = "claim"
    /\ ~run[w].created
    /\ run[w].seen # "failed"
    /\ IF run[w].attemptsMade = 0 \/ run[w].seen # "pending"
       THEN Return(w)
       ELSE Own(w) /\ UNCHANGED job
    /\ UNCHANGED <<row, history, provider, ticks, budget>>
-----------------------------------------------------------------------------
(* The rest of deliver, and WhatsAppClient.send behind the adapter. *)

\* No address, adapter, budget, file or active channel: failSend at once.
RefuseSend(w) ==
    /\ run[w].at = "owned"
    /\ Goto(w, "rejected")
    /\ UNCHANGED <<row, history, job, provider, ticks, budget>>

CallProvider(w) ==
    /\ run[w].at = "owned"
    /\ run' = [run EXCEPT ![w].at = "calling", ![w].tries = 1]
    /\ UNCHANGED <<row, history, job, provider, ticks, budget>>

Accept(w, x) ==
    /\ run[w].at = "calling"
    /\ x \in FreshWamids
    /\ accepted' = [accepted EXCEPT ![ClientOf(w)] = @ \cup {x}]

\* withRetry: a retryable fault is tried again until MAX_ATTEMPTS.
NextTry(w) ==
    IF run[w].tries < MaxAttempts
    THEN run' = [run EXCEPT ![w].tries = @ + 1]
    ELSE run' = [run EXCEPT ![w] = At(w, "rejected")]

ProviderAnswers(w, x) ==
    /\ Accept(w, x)
    /\ run' = [run EXCEPT ![w] = [At(w, "answered") EXCEPT !.wamid = x]]
    /\ UNCHANGED <<row, history, job, reported, ticks, budget>>

\* The provider took the message but its answer never arrived (a timeout) or
\* came without a wamid, which is a final refusal to the adapter.
AnswerLost(w, x) ==
    /\ Accept(w, x)
    /\ lost < MaxLost
    /\ lost' = lost + 1
    /\ NextTry(w) \/ run' = [run EXCEPT ![w] = At(w, "rejected")]
    /\ UNCHANGED <<row, history, job, reported, ticks, crashes, late, replays,
                   throws>>

\* A transport or server fault: nothing was accepted.
ProviderFaults(w) ==
    /\ run[w].at = "calling"
    /\ NextTry(w)
    /\ UNCHANGED <<row, history, job, provider, ticks, budget>>

\* A final refusal, which is never retried.
ProviderRejects(w) ==
    /\ run[w].at = "calling"
    /\ run' = [run EXCEPT ![w] = At(w, "rejected")]
    /\ UNCHANGED <<row, history, job, provider, ticks, budget>>

MarkSent(w) ==
    /\ run[w].at = "answered"
    /\ CompareAndSet(ClientOf(w), {"pending"}, "sent", run[w].wamid)
    /\ Return(w)
    /\ UNCHANGED <<provider, ticks, budget>>

\* failSend
MarkSendFailed(w) ==
    LET c == ClientOf(w) IN
    /\ run[w].at = "rejected"
    /\ CompareAndSet(c, {"pending"}, "failed", row[c].ext)
    /\ Return(w)
    /\ UNCHANGED <<provider, ticks, budget>>
-----------------------------------------------------------------------------
(* What can go wrong under a run. *)

\* Any await may throw (MySQL or Redis down): the job has one attempt.
Throw(w) ==
    /\ run[w].at # "idle"
    /\ throws < MaxThrows
    /\ throws' = throws + 1
    /\ Finish(w, "failed")
    /\ UNCHANGED <<row, history, provider, ticks, crashes, late, replays, lost>>

\* BullMQ hands a stalled job out again, and fails one that stalls too often.
\* A stall is no attempt made.
Stalled(j) ==
    job' = [job EXCEPT ![j].state = IF job[j].stalls < MaxStalledCount
                                    THEN "waiting" ELSE "failed",
                       ![j].stalls = @ + 1]

\* The process dies in the middle of the run.
Crash(w) ==
    /\ run[w].at # "idle"
    /\ Faults < MaxFaults
    /\ crashes' = crashes + 1
    /\ run' = [run EXCEPT ![w] = Idle]
    /\ IF run[w].locked THEN Stalled(run[w].job) ELSE UNCHANGED job
    /\ UNCHANGED <<row, history, provider, ticks, late, replays, throws, lost>>

\* The process is only late renewing its lock: the run goes on without it.
LoseLock(w) ==
    /\ run[w].locked
    /\ Faults < MaxFaults
    /\ late' = late + 1
    /\ run' = [run EXCEPT ![w].locked = FALSE]
    /\ Stalled(run[w].job)
    /\ UNCHANGED <<row, history, provider, ticks, crashes, replays, throws, lost>>
-----------------------------------------------------------------------------
(* The webhook side. *)

\* The provider reports on a message it accepted; a failed message is never
\* also delivered.
Report(x, s) ==
    /\ \E c \in Clients : x \in accepted[c]
    /\ s = "failed" => {<<x, "delivered">>, <<x, "read">>} \cap reported = {}
    /\ s \in {"delivered", "read"} => <<x, "failed">> \notin reported
    /\ reported' = reported \cup {<<x, s>>}
    /\ UNCHANGED <<row, history, job, run, accepted, ticks, budget>>

RowsWithWamid(x) == {c \in Clients : row[c].ext = x}

InFlight(t) == \E g \in Hooks : hook[g] # None /\ hook[g].tick = t

\* applyDeliveryStatus reads the row of the wamid.  The tick's intake event
\* keeps a retried post from taking it again, but the replay pass of a process
\* that boots (counted in replays) also takes a tick still in flight.
ReadTick(h, t) ==
    /\ hook[h] = None
    /\ t \in reported \ consumed
    /\ InFlight(t) => Faults < MaxFaults
    /\ replays' = IF InFlight(t) THEN replays + 1 ELSE replays
    /\ IF RowsWithWamid(t[1]) = {}
       THEN hook' = [hook EXCEPT ![h] = [client |-> None, tick |-> t]]
       ELSE \E c \in RowsWithWamid(t[1]) :
              hook' = [hook EXCEPT ![h] =
                  [client |-> IF IsStatusAdvance(row[c].status, t[2])
                              THEN c ELSE None,
                   tick |-> t]]
    /\ UNCHANGED <<row, history, job, run, provider, consumed, crashes, late,
                   throws, lost>>

\* applyStatus, guarded by the statuses the tick may advance from.
ApplyTick(h) ==
    /\ hook[h] # None
    /\ LET c == hook[h].client
           s == hook[h].tick[2] IN
       /\ c # None
       /\ CompareAndSet(c, AllowedFrom(s), s, row[c].ext)
    /\ hook' = [hook EXCEPT ![h].client = None]
    /\ UNCHANGED <<job, run, provider, consumed, budget>>

\* Unknown wamid, regression, or applied: the event is marked replayed.
ConsumeTick(h) ==
    /\ hook[h] # None
    /\ hook[h].client = None
    /\ consumed' = consumed \cup {hook[h].tick}
    /\ hook' = [hook EXCEPT ![h] = None]
    /\ UNCHANGED <<row, history, job, run, provider, budget>>

\* A crash before markReplayed leaves the event to the replay of the boot.
HookCrash(h) ==
    /\ hook[h] # None
    /\ Faults < MaxFaults
    /\ replays' = replays + 1
    /\ hook' = [hook EXCEPT ![h] = None]
    /\ UNCHANGED <<row, history, job, run, provider, consumed, crashes, late,
                   throws, lost>>
-----------------------------------------------------------------------------
Save(w)  == FindExisting(w) \/ FindNothing(w) \/ Insert(w) \/ InsertLoses(w)
Claim(w) == ClaimCreated(w) \/ ClaimRetry(w) \/ ClaimExisting(w)
Call(w)  == \/ RefuseSend(w)
            \/ CallProvider(w)
            \/ \E x \in Wamids : ProviderAnswers(w, x) \/ AnswerLost(w, x)
            \/ ProviderFaults(w)
            \/ ProviderRejects(w)
Settle(w) == MarkSent(w) \/ MarkSendFailed(w)

\* The steps a live worker takes of itself.
WorkerStep(w) ==
    \/ \E j \in Jobs : PickUp(w, j)
    \/ Save(w)
    \/ Claim(w)
    \/ Call(w)
    \/ Settle(w)

HookStep(h) ==
    (\E t \in Ticks : ReadTick(h, t)) \/ ApplyTick(h) \/ ConsumeTick(h)

Next ==
    \/ \E j \in Jobs, c \in Clients : Submit(j, c)
    \/ \E w \in Workers : WorkerStep(w) \/ Throw(w) \/ Crash(w) \/ LoseLock(w)
    \/ \E x \in Wamids, s \in Reports : Report(x, s)
    \/ \E h \in Hooks : HookStep(h) \/ HookCrash(h)

Spec == Init /\ [][Next]_vars

\* Workers keep consuming the queue and every call returns within its
\* timeout; nothing is assumed of agents, faults or the provider's ticks.
FairSpec == Spec /\ \A w \in Workers : WF_vars(WorkerStep(w))
-----------------------------------------------------------------------------
(* Properties. *)

Lifecycle == INSTANCE MessageLifecycle
                WITH status <- [c \in Clients |-> row[c].status]

\* The pipeline, the retries and the ticks together keep the documented life
\* cycle of the row (docs/database, "Message lifecycle"): forward only,
\* failed left by a retry alone, and no transition lost or written twice.
ImplementsLifecycle == Lifecycle!Spec

\* message_status_events is the path of messages.status: a lost race appends
\* nothing and a won one exactly its own entry (applyStatus, markSent, ...).
HistoryIsThePath == \A c \in Clients : Lifecycle!HistoryOf(c)

Owners(c) == {w \in Workers : run[w].at \in Owning /\ ClientOf(w) = c}
Copies(c) == accepted[c]
Retries(c) == Cardinality({i \in 1..Len(history[c]) :
                              history[c][i] = "pending"})

\* Whatever the agents submit, however the runs interleave and whichever of
\* them die or lose their lock, one run at a time owns the provider call of a
\* row; only a tick that is applied again, to a row a retry has reset, can let
\* another retry in beside the one under way (claimSend).
OwnersWithinReplays == \A c \in Clients : Cardinality(Owners(c)) <= 1 + replays

\* Every copy the customer may receive has its cause: the send itself, a
\* retry of a failed row, or an answer lost on the way back; a run that dies
\* or loses its lock is never sent again (claimSend, withRetry).
CopiesAccountedFor ==
    \A c \in Clients : Cardinality(Copies(c)) <= 1 + Retries(c) + lost

\* While no answer is lost and no tick taken again, a row shown as failed has
\* no copy the provider did not itself report as failed: an agent who retries
\* does not send twice (failSend, resetFailedForRetry).
FailedMeansUndelivered ==
    replays + lost = 0 =>
        \A c \in Clients : row[c].status = "failed" =>
            \A x \in Copies(c) : <<x, "failed">> \in reported

\* The run that will settle the row: it owns the provider call, or inserted
\* the row and is about to.
Carries(w, c) ==
    /\ run[w].at \in Owning \/ (run[w].at = "claim" /\ run[w].created)
    /\ ClientOf(w) = c

Stranded == {c \in Clients : /\ row[c].status = "pending"
                             /\ \A w \in Workers : ~Carries(w, c)}

\* A row is left pending by nobody only where a worker died, or a handler
\* threw, with the row in its hands, and each time it is one row: double
\* submits, retries, lost locks, lost answers and repeated ticks leave every
\* pending row with a run that will settle it (deliver, claimSend).
StrandedWithinDeaths == Cardinality(Stranded) <= crashes + throws

\* Such a run settles its row: until a worker dies or a handler throws, no row
\* stays pending, whatever locks are lost and ticks repeated (deliver).
PendingSettlesUntilADeath ==
    \A c \in Clients :
        row[c].status = "pending"
            ~> (row[c].status # "pending" \/ crashes + throws > 0)

\* A queued send reaches the thread as a row, across a crash or a lost lock,
\* unless its handler throws, or deadlocks with another send of the
\* conversation each time it inserts (saveOutbound then throws as well).
QueuedSendIsSaved ==
    \A j \in Jobs, c \in Clients :
        (job[j].state = "waiting" /\ job[j].client = c)
            ~> \/ row[c].status # "none" \/ throws > 0
               \/ /\ job[j].state = "failed"
                  /\ \E d \in Clients \ {c} : row[d].status # "none"
-----------------------------------------------------------------------------
(* Statements of the repository the code does not keep.  PendingSettles is  *)
(* a run of its own and ExactlyOncePerSend has a configuration to run by    *)
(* hand; each of the others fails in any one whose bounds allow an          *)
(* exception, or a retry with a `sent` tick.                                *)

\* agent-message-sender.service.ts:242: "the original attempt died before the
\* provider answered, so a still-pending row is ours to send", and
\* conversation.processor.ts:31: "so a stalled retry can finish a row the dead
\* attempt left pending": a worker that dies leaves no row pending for good.
PendingSettles ==
    \A c \in Clients :
        row[c].status = "pending" ~> (row[c].status # "pending" \/ throws > 0)

\* conversations.service.ts:94: the pipeline "sends to Graph exactly once per
\* `clientMessageId`" (and once more for each retry of a failed row).
ExactlyOncePerSend ==
    \A c \in Clients : Cardinality(Copies(c)) <= 1 + Retries(c)

\* send-conversation-message.handler.ts:25: once the job is stored in Redis
\* "the send can no longer be lost".
StoredSendIsNotLost ==
    \A j \in Jobs : job[j].state = "failed" =>
        row[job[j].client].status # "none"

\* agent-message-sender.service.ts:35: "only the provider's answer moves it
\* to `sent`": a pending row becomes sent when a run holds the answer.
OnlyTheAnswerMarksSent ==
    [][\A c \in Clients :
          row[c].status = "pending" /\ row'[c].status = "sent" =>
              \E w \in Owners(c) : run[w].at = "answered"]_vars
=============================================================================
