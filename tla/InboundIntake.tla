--------------------------- MODULE InboundIntake ---------------------------
(***************************************************************************)
(* From Meta's webhook to the row of a customer's message.                 *)
(*                                                                         *)
(* A post stores one intake event per message before it answers 200, then  *)
(* runs one command per event it stored: find or create the conversation,  *)
(* queue the save.  A worker inserts the row and publishes it, and a       *)
(* subscriber consumes the event.  Whatever stays pending is replayed at   *)
(* the next boot, one event after the other, beside the live traffic.      *)
(*                                                                         *)
(* One process serves posts, commands, the worker and the replay; a crash  *)
(* ends them all and keeps what is in MySQL and Redis.  The customer is    *)
(* resolved by a read-back on a unique key, so a sender stands for it.     *)
(***************************************************************************)
EXTENDS Naturals, Sequences, FiniteSets

CONSTANTS Wamids,         \* customer messages, by the id Meta gives them
          Senders,        \* customers of the channel
          SenderOf,       \* who sent a message
          Known,          \* senders who have a conversation from the start
          Bodies,         \* the posts Meta makes: sequences of messages
          Hooks,          \* webhook requests that may be served at a time
          Jobs,           \* bound: save jobs
          Replayer,       \* the boot replay
          Limit,          \* replayPending's page size
          MaxStalled,     \* BullMQ maxStalledCount
          Budget,         \* bound: how often each fault strikes
          MaxKinds        \* bound: kinds of faults that strike in one behaviour

Faults == {"crash", "db", "save", "channel"}

ASSUME IntakeAssumption ==
    /\ SenderOf \in [Wamids -> Senders]
    /\ Known \in Seq(Senders)
    /\ Bodies \subseteq Seq(Wamids)
    /\ Replayer \notin Wamids
    /\ Limit \in Nat \ {0}
    /\ MaxStalled \in Nat
    /\ Budget \in [Faults -> Nat]
    /\ MaxKinds \in Nat

VARIABLES intake,     \* whatsapp_inbound_events.status by wamid, or "none"
          stored,     \* its rows, by created_at
          convs,      \* conversations, by created_at: their customers
          rows,       \* messages: <<conversation, external_id>>
          saveJob,    \* the save-message jobs the chat queue has not finished
          up,         \* is the process running?
          hook,       \* the posts being served
          run,        \* the commands under way, live ones and the replay's
          replay,     \* the boot replay: the page it works on
          published,  \* how often MessageSavedEvent was published for a wamid
          left        \* faults that may still strike

durable == <<intake, stored, convs, rows>>
vars == <<intake, stored, convs, rows, saveJob, up, hook, run, replay, published, left>>

NoHook == [busy |-> FALSE, todo |-> <<>>, fresh |-> {}]
NoRun  == [at |-> "idle", conv |-> 0]
NoJob  == [at |-> "free", conv |-> 0, wamid |-> Replayer, stalls |-> 0]
NoReplay == [at |-> "off", page |-> {}, size |-> 0, consumed |-> 0]

Runners == Wamids \cup {Replayer}
JobStates == {"free", "waiting", "active", "saved", "completed", "published"}

TypeOK ==
    /\ intake \in [Wamids -> {"none", "pending", "replayed"}]
    /\ stored \in Seq(Wamids)
    /\ convs \in Seq(Senders)
    /\ rows \subseteq (1..Len(convs)) \X Wamids
    /\ saveJob \in [Jobs -> [at : JobStates, conv : 0..Len(convs), wamid : Runners,
                         stalls : 0..MaxStalled]]
    /\ up \in BOOLEAN
    /\ hook \in [Hooks -> [busy : BOOLEAN, todo : Seq(Wamids), fresh : SUBSET Wamids]]
    /\ run \in [Runners -> [at : {"idle", "lookup", "create", "enqueue", "mark"},
                          conv : 0..Len(convs)]]
    /\ replay \in [at : {"off", "list", "page"}, page : SUBSET (1..Len(stored)),
                   size : 0..Limit, consumed : 0..Limit]
    /\ published \in [Wamids -> Nat]
    /\ left \in [Faults -> Nat]

Init ==
    /\ intake = [w \in Wamids |-> "none"]
    /\ stored = <<>>
    /\ convs  = Known
    /\ rows   = {}
    /\ saveJob = [j \in Jobs |-> NoJob]
    /\ up     = FALSE
    /\ hook   = [h \in Hooks |-> NoHook]
    /\ run    = [r \in Runners |-> NoRun]
    /\ replay = NoReplay
    /\ published = [w \in Wamids |-> 0]
    /\ left = Budget

Struck == {f \in Faults : left[f] < Budget[f]}

Strike(f) == /\ left[f] > 0
             /\ Cardinality(Struck \cup {f}) <= MaxKinds
             /\ left' = [left EXCEPT ![f] = left[f] - 1]

\* findByExternalId looks for the wamid in every conversation.
Saved(w) == \E r \in rows : r[2] = w
PendingEvents == {i \in DOMAIN stored : intake[stored[i]] = "pending"}

\* markReplayed: only a pending event changes.
Consume(w) == intake' = [intake EXCEPT ![w] =
                            IF intake[w] = "pending" THEN "replayed" ELSE intake[w]]
-----------------------------------------------------------------------------
(* The webhook: WebhookController.receiveMessage *)

Post(h, body) ==
    /\ up /\ ~hook[h].busy
    /\ \E i \in DOMAIN body : intake[body[i]] # "replayed"   \* bound
    /\ hook' = [hook EXCEPT ![h] = [busy |-> TRUE, todo |-> body, fresh |-> {}]]
    /\ UNCHANGED <<durable, saveJob, up, run, replay, published, left>>

\* persistIfNew: the unique key on (wamid, kind) tells new from duplicate.
Persist(h) ==
    LET w == Head(hook[h].todo)
        new == intake[w] = "none"
    IN
    /\ hook[h].busy /\ hook[h].todo # <<>>
    /\ hook' = [hook EXCEPT ![h].todo = Tail(hook[h].todo),
                            ![h].fresh = hook[h].fresh \cup (IF new THEN {w} ELSE {})]
    /\ intake' = [intake EXCEPT ![w] = IF new THEN "pending" ELSE intake[w]]
    /\ stored' = IF new THEN Append(stored, w) ELSE stored
    /\ UNCHANGED <<convs, rows, saveJob, up, run, replay, published, left>>

\* The insert fails: no 200, and what this post stored is not dispatched.
PersistFails(h) ==
    /\ hook[h].busy /\ hook[h].todo # <<>>
    /\ Strike("db")
    /\ hook' = [hook EXCEPT ![h] = NoHook]
    /\ UNCHANGED <<durable, saveJob, up, run, replay, published>>

\* 200, then dispatchNewMessages: one command for each event this post stored.
Answer(h) ==
    /\ hook[h].busy /\ hook[h].todo = <<>>
    /\ hook' = [hook EXCEPT ![h] = NoHook]
    /\ run' = [r \in Runners |-> IF r \in hook[h].fresh
                                 THEN [NoRun EXCEPT !.at = "lookup"] ELSE run[r]]
    /\ UNCHANGED <<durable, saveJob, up, replay, published, left>>
-----------------------------------------------------------------------------
(* ReceiveWhatsAppMessageCommand, run live for its wamid or by the replay *)

\* A page is gone through by created_at.
First == CHOOSE i \in replay.page : \A j \in replay.page : i <= j
Event == stored[First]
Rest  == [replay EXCEPT !.page = replay.page \ {First}]

WamidOf(r) == IF r = Replayer THEN Event ELSE r

\* Where a command that returns leaves its runner: the replay consumes the
\* event next, a live command has nothing more to do.
Returned(r) == IF r = Replayer THEN [NoRun EXCEPT !.at = "mark"] ELSE NoRun

\* getTransmissionByPhoneNumberId finds no active channel: the command returns
\* without having done anything.
NoChannel(r) ==
    /\ run[r].at = "lookup"
    /\ Strike("channel")
    /\ run' = [run EXCEPT ![r] = Returned(r)]
    /\ UNCHANGED <<durable, saveJob, up, hook, replay, published>>

ConvsOf(s) == {c \in 1..Len(convs) : convs[c] = s}

\* findOrCreateIncoming: the customer's newest conversation on the channel ...
FindConversation(r) ==
    LET own == ConvsOf(SenderOf[WamidOf(r)]) IN
    /\ run[r].at = "lookup"
    /\ run' = [run EXCEPT ![r] =
                  IF own = {} THEN [NoRun EXCEPT !.at = "create"]
                  ELSE [at |-> "enqueue",
                        conv |-> CHOOSE c \in own : \A d \in own : d <= c]]
    /\ UNCHANGED <<durable, saveJob, up, hook, replay, published, left>>

\* ... or a new one.  No unique key stands in the way of a second one.
CreateConversation(r) ==
    /\ run[r].at = "create"
    /\ convs' = Append(convs, SenderOf[WamidOf(r)])
    /\ run' = [run EXCEPT ![r] = [at |-> "enqueue", conv |-> Len(convs) + 1]]
    /\ UNCHANGED <<intake, stored, rows, saveJob, up, hook, replay, published, left>>

\* One free place of the queue is as good as another.
Free == {j \in Jobs : saveJob[j].at = "free"}

\* InboundMessageRouter.saveMessage: queue.add('save-message', ...)
EnqueueSave(r) ==
    /\ run[r].at = "enqueue"
    /\ Free # {}
    /\ saveJob' = [saveJob EXCEPT ![CHOOSE j \in Free : TRUE] =
                  [at |-> "waiting", conv |-> run[r].conv, wamid |-> WamidOf(r), stalls |-> 0]]
    /\ run' = [run EXCEPT ![r] = Returned(r)]
    /\ UNCHANGED <<durable, up, hook, replay, published, left>>

\* A query or queue.add throws: executeSafely logs it, the replay goes on with
\* the next event.
RunFails(r) ==
    /\ run[r].at # "idle"
    /\ Strike("db")
    /\ run' = [run EXCEPT ![r] = NoRun]
    /\ replay' = IF r = Replayer THEN Rest ELSE replay
    /\ UNCHANGED <<durable, saveJob, up, hook, published>>
-----------------------------------------------------------------------------
(* The chat worker: ConversationProcessor, save-message *)

\* A worker without a concurrency option has one job at a time.
PickUpSave(j) ==
    /\ up
    /\ saveJob[j].at = "waiting"
    /\ \A i \in Jobs : saveJob[i].at \notin {"active", "saved"}
    /\ saveJob' = [saveJob EXCEPT ![j].at = "active"]
    /\ UNCHANGED <<durable, up, hook, run, replay, published, left>>

\* Mutated form, for the mutation runs: an insert without the unique key.
SaveBlindly(j) ==
    /\ up
    /\ saveJob[j].at = "active"
    /\ rows' = rows \cup {<<saveJob[j].conv, saveJob[j].wamid>>}
    /\ saveJob' = [saveJob EXCEPT ![j].at = "saved"]
    /\ UNCHANGED <<intake, stored, convs, up, hook, run, replay, published, left>>

\* MessageRepository.create: (conversation_id, external_id) is unique, a second
\* insert fails the job.
Save(j) ==
    LET row == <<saveJob[j].conv, saveJob[j].wamid>> IN
    /\ up
    /\ saveJob[j].at = "active"
    /\ rows' = rows \cup {row}
    /\ saveJob' = [saveJob EXCEPT ![j] = IF row \in rows THEN NoJob
                                 ELSE [saveJob[j] EXCEPT !.at = "saved"]]
    /\ UNCHANGED <<intake, stored, convs, up, hook, run, replay, published, left>>

\* The transaction throws.  The job has one attempt.
SaveThrows(j) ==
    /\ up
    /\ saveJob[j].at = "active"
    /\ Strike("save")
    /\ saveJob' = [saveJob EXCEPT ![j] = NoJob]
    /\ UNCHANGED <<durable, up, hook, run, replay, published>>

\* The queue has the job as completed before the worker hears of it.
Complete(j) ==
    /\ up
    /\ saveJob[j].at = "saved"
    /\ saveJob' = [saveJob EXCEPT ![j].at = "completed"]
    /\ UNCHANGED <<durable, up, hook, run, replay, published, left>>

\* onCompleted publishes MessageSavedEvent.
Publish(j) ==
    LET w == saveJob[j].wamid IN
    /\ saveJob[j].at = "completed"
    /\ published' = [published EXCEPT ![w] = published[w] + 1]
    /\ saveJob' = [saveJob EXCEPT ![j].at = "published"]
    /\ UNCHANGED <<durable, up, hook, run, replay, left>>

\* InboundMessageSavedHandler consumes the intake event, or fails to.
ConsumeSaved(j) ==
    /\ saveJob[j].at = "published"
    /\ Consume(saveJob[j].wamid)
    /\ saveJob' = [saveJob EXCEPT ![j] = NoJob]
    /\ UNCHANGED <<stored, convs, rows, up, hook, run, replay, published, left>>

ConsumeFails(j) ==
    /\ saveJob[j].at = "published"
    /\ Strike("db")
    /\ saveJob' = [saveJob EXCEPT ![j] = NoJob]
    /\ UNCHANGED <<durable, up, hook, run, replay, published>>
-----------------------------------------------------------------------------
(* WhatsappInboundReplayService.replayPending *)

Oldest(n, events) == {i \in events : Cardinality({j \in events : j <= i}) <= n}

\* listPending: a page of the oldest pending events.
ListPending ==
    LET page == Oldest(Limit, PendingEvents) IN
    /\ replay.at = "list"
    /\ replay' = IF page = {} THEN NoReplay
                 ELSE [at |-> "page", page |-> page, size |-> Cardinality(page),
                       consumed |-> 0]
    /\ UNCHANGED <<durable, saveJob, up, hook, run, published, left>>

OnPage == replay.at = "page" /\ run[Replayer].at = "idle"

\* Mutated form, for the mutation runs: the event is consumed, then replayed.
ReplayConsumingFirst ==
    LET w == Event IN
    /\ OnPage /\ replay.page # {}
    /\ ~Saved(w)
    /\ Consume(w)
    /\ run' = [run EXCEPT ![Replayer] = [NoRun EXCEPT !.at = "lookup"]]
    /\ UNCHANGED <<stored, convs, rows, saveJob, up, hook, replay, published, left>>

\* An event without a row goes through the command again ...
Replay ==
    /\ OnPage /\ replay.page # {}
    /\ ~Saved(Event)
    /\ run' = [run EXCEPT ![Replayer] = [NoRun EXCEPT !.at = "lookup"]]
    /\ UNCHANGED <<durable, saveJob, up, hook, replay, published, left>>

Consumed == [Rest EXCEPT !.consumed = replay.consumed + 1]

\* ... and is consumed when the command returns,
ConsumeReplayed ==
    /\ run[Replayer].at = "mark"
    /\ Consume(Event)
    /\ replay' = Consumed
    /\ run' = [run EXCEPT ![Replayer] = NoRun]
    /\ UNCHANGED <<stored, convs, rows, saveJob, up, hook, published, left>>

\* one with a row is consumed without a command.
ConsumeExisting ==
    /\ OnPage /\ replay.page # {}
    /\ Saved(Event)
    /\ Consume(Event)
    /\ replay' = Consumed
    /\ UNCHANGED <<stored, convs, rows, saveJob, up, hook, run, published, left>>

\* Mutated form, for the mutation runs: one page is all.
EndPageForGood ==
    /\ OnPage /\ replay.page = {}
    /\ replay' = NoReplay
    /\ UNCHANGED <<durable, saveJob, up, hook, run, published, left>>

\* A full page of which something was consumed is followed by another.
EndPage ==
    /\ OnPage /\ replay.page = {}
    /\ replay' = IF replay.size < Limit \/ replay.consumed = 0 THEN NoReplay
                 ELSE [NoReplay EXCEPT !.at = "list"]
    /\ UNCHANGED <<durable, saveJob, up, hook, run, published, left>>
-----------------------------------------------------------------------------
(* The process *)

\* The queue hands a job whose worker died to the next one, MaxStalled times;
\* what a worker did after the queue had its job as completed is forgotten.
ProcessCrash ==
    /\ up
    /\ Strike("crash")
    /\ up' = FALSE
    /\ hook' = [h \in Hooks |-> NoHook]
    /\ run' = [r \in Runners |-> NoRun]
    /\ replay' = NoReplay
    /\ saveJob' = [j \in Jobs |->
                  CASE saveJob[j].at \in {"active", "saved"} ->
                         IF saveJob[j].stalls < MaxStalled
                         THEN [saveJob[j] EXCEPT !.at = "waiting", !.stalls = saveJob[j].stalls + 1]
                         ELSE NoJob
                    [] saveJob[j].at \in {"completed", "published"} -> NoJob
                    [] OTHER -> saveJob[j]]
    /\ UNCHANGED <<durable, published>>

\* onApplicationBootstrap starts the replay and does not wait for it.
Boot ==
    /\ ~up
    /\ up' = TRUE
    /\ replay' = [NoReplay EXCEPT !.at = "list"]
    /\ UNCHANGED <<durable, saveJob, hook, run, published, left>>

Command(r) == \/ FindConversation(r)
              \/ CreateConversation(r)
              \/ EnqueueSave(r)

SaveWork(j) == PickUpSave(j) \/ Save(j) \/ Complete(j) \/ Publish(j) \/ ConsumeSaved(j)

ReplayStep == \/ ListPending
              \/ Replay
              \/ ConsumeReplayed
              \/ ConsumeExisting
              \/ EndPage

Next == \/ \E h \in Hooks : \/ \E body \in Bodies : Post(h, body)
                            \/ Persist(h)
                            \/ PersistFails(h)
                            \/ Answer(h)
        \/ \E r \in Runners : Command(r) \/ NoChannel(r) \/ RunFails(r)
        \/ \E j \in Jobs : SaveWork(j) \/ SaveThrows(j) \/ ConsumeFails(j)
        \/ ReplayStep
        \/ ProcessCrash
        \/ Boot

Spec == Init /\ [][Next]_vars

\* The process is restarted, and its work goes on; Meta may stop posting.
FairSpec == /\ Spec
            /\ WF_vars(Boot)
            /\ WF_vars(ReplayStep)
            /\ \A h \in Hooks : WF_vars(Persist(h) \/ Answer(h))
            /\ \A r \in Runners : WF_vars(Command(r))
            /\ \A j \in Jobs : WF_vars(SaveWork(j))
-----------------------------------------------------------------------------
(* Properties. *)

UnderWay(w) == \E j \in Jobs : /\ saveJob[j].wamid = w
                               /\ saveJob[j].at \in {"waiting", "active"}

Kept(w) == Saved(w) \/ intake[w] = "pending" \/ UnderWay(w)

\* WebhookController: "every inbound wamid ... is persisted before the 200, so a
\* crash from here on loses nothing": a stored message has its row, or is still
\* to be replayed, or its save is in the queue.  Three faults take that away: a
\* save that throws, once the replay has consumed the event of a message that
\* is merely queued, a job of such a message that stalls more often than BullMQ
\* hands it out again, and a command that finds no channel, which consumes the
\* event too.
StoredNotLost ==
    /\ left["save"] = Budget["save"] /\ left["channel"] = Budget["channel"]
    /\ Budget["crash"] - left["crash"] <= MaxStalled
    => \A w \in Wamids : intake[w] # "none" => Kept(w)

OneThread(s) == \A c, d \in ConvsOf(s) : c = d

\* docs/database: external_id "makes webhook retries a no-op".  Whatever live
\* commands, replays and stalled jobs race, a message has one row and at most
\* one MessageSavedEvent (which assigns, broadcasts and analyses it), on first
\* contact too, as long as the race has not given its sender a second
\* conversation: external_id is unique per conversation.
OneRowEach ==
    \A w \in Wamids : OneThread(SenderOf[w]) =>
        /\ \A r, q \in rows : r[2] = w /\ q[2] = w => r = q
        /\ published[w] <= 1

\* A stored message gets its row and its event is consumed, across a crash and
\* a stalled job, unless the database, a save or the channel failed on the way.
PendingSettles ==
    \A w \in Wamids :
        intake[w] = "pending" ~>
            \/ Saved(w) /\ intake[w] = "replayed"
            \/ \E f \in Faults \ {"crash"} : left[f] < Budget[f]

\* ConversationRepository.findOrCreateIncoming: "returns its conversation for
\* that channel, creating it on first contact".
OneConversation == \A s \in Senders : OneThread(s)
=============================================================================
