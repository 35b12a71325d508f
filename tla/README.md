# chat-crm-api in TLA+

TLA+ models of the chat CRM's back end (`src/`, a NestJS service over MySQL,
Redis/BullMQ and the WhatsApp Cloud API), the TLC runs that check them on small
instances, and TLAPS proofs about the modules that carry the core.

- [The system](#the-system)
- [Modules](#modules)
- [Runs](#runs)
- [Bounds](#bounds)
- [Fairness](#fairness)
- [Proofs](#proofs)
- [Where the code and its documents disagree](#where-the-code-and-its-documents-disagree)
- [What is not modelled](#what-is-not-modelled)
- [Plan](#plan)

## The system

A company connects WhatsApp channels. Customers write to them; Meta posts each
message to a webhook. The messages become conversations that the assignment
engine hands to members of the team, who answer through a socket gateway. Around
that core: delivery statuses, tone analysis behind a circuit breaker, support
cases, spend and budgets, presence, sessions.

Everything durable is in MySQL; jobs and some shared keys are in Redis. Handlers
are asynchronous: each `await` is a point at which another handler, another
process or a crash can come in between. Redis and MySQL requests are atomic one
by one, never in pairs unless a transaction says so.

| Component | State | Operations | Talks to |
|---|---|---|---|
| Message store (`modules/message`) | `messages` (status, `external_id`, unique `(conversation, client_message_id)` and `(conversation, external_id)`), `message_status_events` | insert, `markSent`, `markSendFailed`, `resetFailedForRetry`, `applyStatus` | written by the send, the intake and the ticks |
| Outbound send (`conversations/outbound`, `conversation.processor`) | `chat` queue jobs | submit, save, claim, provider call with retries, settle | gateway → Redis → worker → Graph API |
| Webhook intake and replay (`integrations/whatsapp/intake`, `controllers`) | `whatsapp_inbound_events` (pending, replayed) | persist before the 200, dispatch, apply a tick, boot replay | Meta → MySQL → command bus |
| Inbound routing (`integrations/whatsapp/commands`, `conversation.repository`) | `conversations` | find or create, queue the save, publish `MessageSavedEvent` | intake → queue → event bus |
| Assignment engine (`conversations/assignment`) | `conversation_assignments`, `conversations.assigned_member_id` | `ensureAssigned`, `claim`, `assignToAgent`, `releaseConversations` | saved messages, supervisors, team removals |
| Rooms and fan-out (`conversation.gateway`, `realtime`, notifier) | socket rooms | join, evict, broadcast | events of the engine and the queue |
| Team members (`modules/company-members`) | `company_members` (role, status, soft delete) | create or restore, update, remove, reset password | engine (release), sessions (revoke) |
| IA switch and breaker (`modules/analysis/ia`) | Redis keys `ia:*` with TTLs | `beforeCall`, `recordFailure`, `recordSuccess`, toggle | every IA call |
| Sentiment (`modules/analysis/sentiment`) | `analyses`, its queue, the retry scan | analyse, skip, fail, retry | saved messages, switch, breaker |
| Media enrichment (`integrations/whatsapp/intake`) | `message_attachments.status`, its queue | download, settle, patch | saved messages → Graph API → sockets |
| Cases (`modules/cases`) | `cases` (unique `open_key`), `case_replies` | inbound, outbound, close | saved messages, agents |
| Spend (`modules/spend`) | `channel_charges`, `company_settings` | record a report, budget, pause, alert | ticks, sends |
| Presence (`modules/presence`) | intervals and sockets | connect, disconnect, change | gateway |
| Sessions (`auth`) | revocation stamps in Redis with a local cache | login, refresh, revoke, check | every request |
| Customers (`modules/customers`) | `customers` (unique phone, soft delete), `customer_identities` | resolve a sender, create, edit, delete, import | intake, agents, the cached table |
| Media (`modules/media`) | staged files, their keys in Redis | stage, consume, sweep | composer → send |
| Analytics, tables (`modules/analytics`, `common/cache`) | results in Redis under versions | read through, bump, announce | every change of what they show |
| Channels, companies, notifications, platform, users | rows edited one request at a time, files | CRUD, reads, file I/O | — |

The behaviours that are hard here, and so the ones the models are for:

- **The queue against the provider.** The worker must send a message once, but
  the queue hands out again a job whose worker is dead or only late, which looks
  to the worker like a double submit, and the provider's answer can be lost after it
  accepted the message.
- **Ticks against the send.** Delivery statuses arrive in any order, before the
  wamid is stored, twice, and again at the replay of a boot; they and the send
  write the same column.
- **Crash points of the intake.** Between the 200 and the row lie a command, a
  queue job and a completed event, in three stores.
- **Concurrent decisions over one conversation.** Claims, automatic
  assignments, transfers and removals lock different things in different order.
- **Notices after the commit.** Rooms, sockets and caches learn of a decision
  after the transaction, in handlers that nothing orders.
- **Deferred work.** Retries of analyses and downloads are queued, counted and
  settled in separate steps, by workers the queue may replace while they run.
- **Check-then-act over rows read without a lock**: team roles, cases, company
  settings, presence intervals, the breaker's keys.

The correctness properties of each component are stated in its module, each with
the line of the code or document that promises it; `PROJECT.json` lists every
hazard with the properties that would catch it.

## Modules

`MessageStatus` holds the statuses of a message, their rank and the transition
rule (`isStatusAdvance`). `MessageLifecycle` is the abstract specification of a
row: pending, forward only, failed wins, a retry is the way back, and each
transition is in the history once. It has no source lines of its own: it is the
promise of `docs/database`.

### OutboundMessage

The send of an agent, from the gateway to the settled row, and the delivery
ticks of the same row.

| Model | Code |
|---|---|
| `row`, `history` | `messages.status`/`external_id`, `message_status_events` |
| `job` | the send jobs of the `chat` queue with their `attemptsMade` and `stalls` |
| `run[w]` | what worker `w` is doing: `at` is the await it stands at, `seen` the status it read, `locked` whether it still holds its job |
| `accepted`, `reported` | what the provider took and what it has reported |
| `hook`, `consumed` | ticks being applied, intake events marked replayed |
| `Submit` … `PickUp` | gateway and command handler; `ConversationProcessor.process` |
| `FindExisting`, `FindNothing`, `Insert`, `InsertLoses` | `MessageService.saveOutbound` with the unique key and its retries |
| `ClaimCreated`, `ClaimRetry`, `ClaimExisting` | `AgentMessageSender.claimSend` |
| `CallProvider` … `ProviderRejects` | `WhatsAppClient.send` under `withRetry` |
| `MarkSent`, `MarkSendFailed` | the compare-and-set that settles the row |
| `Throw`, `Crash`, `LoseLock` | an exception, a dead process, a late lock renewal |
| `Report`, `ReadTick`, `ApplyTick`, `ConsumeTick`, `HookCrash` | provider ticks through the webhook or the replay |

`Lifecycle == INSTANCE MessageLifecycle WITH status <- …` is the refinement
mapping; `ImplementsLifecycle` is checked and proved.

BullMQ is external. The repository locks version 5.81.5, where `attemptsMade` counts the
attempts that ended, while a stall only raises counters of its own, so `Stalled` raises
`stalls` and `Finish` raises `attemptsMade`. A send job has one attempt and nothing in the
code retries a failed one: no run ever starts with an attempt made (`NoRunTakesOver`), the last
branch of `claimSend` is dead, and a stalled job over a pending row is dropped as a double
submit. That keeps a late worker from being sent a rival (`OwnersWithinReplays`,
`CopiesAccountedFor`), and leaves the row of a dead one pending: `PendingSettles`, which is what
the comment of that branch says, is [violated](#where-the-code-and-its-documents-disagree).
`StrandedWithinDeaths` and `PendingSettlesUntilADeath` say how far the harm goes.

The three counters `crashes`, `late` and `replays` share one bound; each property names
the ones it excuses.

### Assignment

The transactions of the engine over MySQL's REPEATABLE READ. An assignment locks
the conversation row (`FOR UPDATE`) before its snapshot opens, so the lock and the
reads are one step (`EnsureAssigned`, `Claim`, `AssignToAgent`); the `UPDATE`
that closes the active row is another (`CloseActive`: it sees the current rows
and locks them), the insert, the owner column and the commit the last
(`CommitAssign`). The removal of a member takes no conversation lock and is
three steps (`ReadOwned`, `CloseOwned`, `CommitRemove`). `Rollback` is the victim
of a deadlock or a lost connection. `Candidate` is `selectAssignmentCandidate`:
below the cap, sticky, least loaded, oldest assignment, lowest id. Times are the
order of the rows; transactions that write nothing are not steps; conversations
stay open because nothing in the code closes one.

`Ownership` is what the class comment promises, without transactions, rows to close or a
column: a free conversation is taken, its owner is confirmed, a supervisor
transfers it, a member who leaves frees conversations of its own, and each of these is
added to a history. `Ownership == INSTANCE Ownership WITH holder <- Owners, …`
is the refinement mapping: the owner is the member of the active row, the history is the
rows without what closes them; only the two commits are steps of it.
`ImplementsOwnership` is checked and proved.

### InboundIntake

From Meta's post to the row. A post (`Post`) stores its messages one by one
(`Persist`, on the unique key of the event) and answers (`Answer`), which starts
one command per event it stored. A command finds or creates the conversation
(`FindConversation`, `CreateConversation`) and queues the save (`EnqueueSave`). The
worker takes it (`PickUpSave`) and saves (`Save`), the queue completes the job (`Complete`), the completed
event is published (`Publish`) and consumes the intake event (`ConsumeSaved`). The
boot replay lists pages of pending events and runs the same command for those
without a row (`ListPending`, `Replay`, `ConsumeReplayed`, `ConsumeExisting`,
`EndPage`). `ProcessCrash` ends the process with everything it had in memory, `Boot`
starts it again. Two senders may share the channel, one of them known already. One
process runs everything; a worker that only loses its lock is left to `OutboundMessage`. The customer's read-back after a duplicate
key is taken as atomic, so a sender stands for the customer.

### TeamAdmins

The rows of `company_members` under concurrent requests of the team page. A
request is admitted by the role of its actor (`Admit`, the rules of
`team.policy.ts`), reads its target without a lock (`ReadTarget`), is refused or
goes on (`Refuse`), counts the other active admins with `FOR UPDATE` when the
target it read is one (`CountAdmins`, else `SkipCount`), and writes and commits
(`Write`). The locked read takes the range of active admins, so a writer whose
change adds or removes one waits for it (`Locked`). Inactive and suspended are one
status: the rule only asks for active ones.

### Cases

The support case of a conversation. Every saved message has its handler
(`CaseMessageSavedHandler`), nothing orders the handlers of different messages,
and each statement is a step: `FindOpen`, `Open`, `Refind`, `StartClock` for a
customer's message, `FindBurst`, `Answer`, `SaveReply`, `MarkFirst` for a
member's, `FindToClose` and `Close` for an agent's. `awaiting`, `first` and the
reply times have the precision of their columns, one second, so two bursts may
look alike to the conditional `UPDATE`. `burst` (which messages a clock or a
sample stands for), `log` and `serial` are observers: no guard reads them.

### ThreadAccess

`Assignment` composed with the rooms of the gateway: it EXTENDS the engine, adds
to each transaction the notice its handler sends after the commit, and lets agents
join and leave. `CanJoin` is the access check of `handleJoin` and `Enter` the join
after it, so an assignment may come between them. `AssignAndNotify` is
`CommitAssign` followed by what the caller does next: an automatic assignment
reads the active row again (`RereadActive`), the others know the member.
`FindMember` and `RevokeAccess` are `notifyAssigned` and
`revokeConversationAccess`. `NoticeFails` drops a notice at any of its reads.
`excused` is an observer of the two causes that leave somebody in a room. The
properties of the engine are checked in this composition.

### CircuitBreaker

The six Redis keys of `CircuitBreakerService`, with their expiry as what is left of
a TTL, and the workers that ask (`Ask`, `TakeProbe`), call (`EndCall`) and report
(`RecordSuccess`, `ReadState`, `ReleaseProbe`, `Count`, `StoreWindow`,
`SetOpenedAt`, `SetDuration`, `SetState`), one Redis command a step. `Tick` is the
time, `Change` the IA and Redis going away and coming back, `AllowBlindly` and
`DropReport` what `safely` does without Redis. `lock` remembers whether the probe's
lock was deleted or expired under its holder.

### Sentiment

The rows of `analyses`, the jobs of the sentiment queue and the retry scan.
`CreateProcessing`, `StartRetry`, `MarkSkipped`, `MarkFailed`, `Complete`,
`FindDueRetries` and `ScheduleRetryAttempt` are the statements of the repository;
`CheckSwitch`, `CheckGate` and `CallIa` the decisions of `analyzeMessage`;
`StartScan`, `AddRetry` and `SkipRetry` the loop of `runOnce`. The gate may answer
anything (`CircuitBreaker` is the module that says when). `Stall` hands a job to
another worker while the first goes on or dies.

### MediaEnrichment

One message's attachments and the passes of its job (`InboundMediaEnrichmentService`).
`PickUp` … `NextAttachment` walk through what was read as pending, `Download` and
`Falter` are the provider's answers, `Settle` the compare-and-set on a pending
attachment, `EmitPatch` the read-back and the event. `HandOut` is the queue giving up
on a worker that may only be late, which is no attempt made (as in OutboundMessage).

### Spend

The row of `company_settings` as three services write it. A request reads the
entity, changes it, and saves it: `Compare` is TypeORM's read before the `UPDATE`
and the difference it finds, `Update` the statement. `ReadSettings`, `Sum`, the
save and `NotifyAdmins` are `checkBudget`; `RecordReport` is the charge of a
delivery report. `asked`, `stale`, `putBack`, `raised`, `heard` and `repriced` are
observers. `UpdateAssignmentSettings` is the one write that is not a save.

### Presence

One member's sockets in the gateway, the open rows of `presence_intervals`, and
the handlers between them, cut at their awaits: `connected` (`FindOpen`, `Start`),
`disconnected` (`CloseOpen`) and `setState` (`SetPreference`, `FindCurrent`,
`CloseCurrent`, `StartNew`). `muddle` records which handlers crossed since the last
orderly departure.

### Sessions

The tokens of one user and the revocation after a change of memberships:
`MarkLocally`, `StoreMarker` and `Kick` are `revoke` and its event, `FindActiveClaims` and
`Sign` are `issueToken`, `Handshake`, `Lookup` and `Reply` are `isStale` in a
handshake with the local view and its TTL. `from` says where a view came from, so
that a late answer can be told from a failed one.

### StagedUploads

A file an agent attaches, from the request that stages it (`Ingest`, `AnnounceUpload`) to
the sends that reference it: `Lookup` in the two tiers of the cache, `Move`
(`rename`), `Remember` (the note that it was consumed), `Save` and `Provide`; or to
the sweeper (`GrowOld`, `Sweep`). Every process has a memory tier in front of
Redis. `crossed` is an observer: the uploads of which two runs, or two tiers, had
a different picture. Who may call the provider is left to OutboundMessage.

### ZonedTime, BusinessHours

`ZonedTime` is `lib/zoned-time.ts` over a zone with one change of its clock: what an
instant shows (`LocalTime`), the offset looked up (`OffsetAt`) and the way back,
`ZonedTimeToUtc`, with its two candidates. `BusinessHours` is the loop of
`businessSeconds` over the local days of a span (`NextDay`) and the intervals of each
(`CountInterval`), and `isWithinBusinessHours`, which is its reference: what the loop adds up must be the
time at which the company is open.

### Customers

Each handler of `customers.service.ts` statement by statement: an inbound run
(`StartInbound` … `ReturnCustomer`), `create` with its duplicate and its restoring,
the edit that claims a phone (`Claim`, `Release`, `Write`), `Remove`, and the import
with its chunk and its rows one by one. The unique indexes decide who wins.
`beside` keeps what happened to customers while a handler was under way: the
properties say what a handler may do given what came in between, and no guard reads it.

### ReadThroughCache

The cache of the reports and that of the company tables (`kind`), of which only the
first elects who computes with a lock: `ReadRules` to `Respond` (or `Die`)
are a request and its `wrap`, `WriteData` to `Signal` a change with its versions, `Flush` the
announcement. A result is the number of changes it has seen of each scope, so that
a stale one can be told. `rules` are the settings, which a request reads
before `wrap`. `slack` is an observer: the keys whose lock did not keep the others out.

## Runs

`tlc -config <cfg> <module>` in this directory; times are for two workers.

| Run | Module, configuration | Checks | Distinct states |
|---|---|---|---|
| `outbound_safety` | `MCOutboundMessage`, `OutboundMessage_safety` | one row's life cycle (`ImplementsLifecycle`), one owner of its provider call (`OwnersWithinReplays`), why a second copy exists (`CopiesAccountedFor`), that a failed row was not delivered (`FailedMeansUndelivered`) | 373 000, 60 s |
| `outbound_live` | `MCOutboundMessage`, `OutboundMessage_live` | only a death leaves a pending row to nobody (`StrandedWithinDeaths`), until one every pending row settles (`PendingSettlesUntilADeath`), every queued send is saved (`QueuedSendIsSaved`) | 185 000, 107 s |
| `rooms` | `MCRooms`, `Rooms_safety` | Assignment, ThreadAccess: one active row (`OneActive`), the owner column (`OwnerFollowsActive`), every commit one of the acts of `Ownership` (`ImplementsOwnership`), only removals leave a conversation free (`OnlyRemovalReleases`), the cap under races (`OvershootBounded`), and no agent left in another's thread (`StrangersLeave`). Sessions: no socket lives on claims of before a revocation but for the named causes (`OldClaimsHaveACause`) | 1 760 000, 115 s |
| `intake_webhook` | `MCInboundIntake`, `InboundIntake_webhook` | a stored message is saved or still on its way (`StoredNotLost`), once (`OneRowEach`), and gets its row across crashes (`PendingSettles`) | 706 000, 180 s |
| `breaker_gate` | `CircuitBreaker`, `CircuitBreaker_gate` | probes exclude each other unless a straggler deletes a lock (`ProbesAreExclusive`); calls are let through again and again (`NeverShutForGood`) | 62 s |
| `media_and_reads` | `MCMediaAndReads`, `MediaAndReads_settles` | MediaEnrichment: one patch per attachment (`OnePatchEach`), nothing given up before the last attempt (`NothingGivenUpEarly`), every file settled (`FilesSettle`). ReadThroughCache: whoever asks after an announcement gets the change (`AnnouncedChangesAreRead`), one computation of a result (`OneFlight`), requests end though their leader dies (`RequestsEnd`) | 412 000, 140 s |
| `members` | `MCMembers`, `Members_safety` | TeamAdmins: the locked count protects the last admin from every request that saw its target as one (`OnlyStaleReadsLoseTheLast`). Presence: online exactly while there is a socket (`OnlineMeansASocket`), one open interval (`OneOpenInterval`), but for the named crossings | 1 820 000, 105 s |
| `follow_ups` | `MCFollowUps`, `FollowUps_safety` | Cases: one sample per burst (`BurstsAnsweredOnce`), no first response without its sample (`FirstResponseIsAReply`), rows that agree with the conversation while handlers do not overlap (`SerialHandlersKeepTheClock`). Sentiment: an analysis has one runner (`OneRunnerPerAnalysis`), and the calls to the IA stay within the attempts and the jobs handed back (`CallsBounded`). Spend: no alert is lost (`AlertNotLost`), and nothing else is without a stale save (`OnlyStaleSavesLose`) | 949 000, 95 s |
| `desk` | `MCDesk`, `Desk_safety` | Customers: one customer per sender (`OneCustomerPerSender`), whoever writes is active and is not turned away by a race (`WritersAreActive`), changes reach the cached table (`ChangesAreAnnounced`). StagedUploads: a message loses its file only for a named cause (`LostFilesHaveACause`). BusinessHours: the loop of `businessSeconds` agrees with the clock (`AgreesWithClock`) | 1 370 000, 105 s |
| `outbound_stalled` | `MCOutboundMessage`, `OutboundMessage_stalled` | violation: a stalled job finishes the row its dead worker left pending (`PendingSettles`) | 3 s |
| `customers_phone_taken` | `MCDesk`, `Desk_phone_taken` | violation: only a deleted holder gives its phone up (`ActiveHoldersKeepThePhone`) | 38 s |
| `reports_settings` | `MCReadThroughCache`, `ReadThroughCache_rules` | violation: reports are measured with the settings that were announced (`AnnouncedRulesAreUsed`) | 1 s |

`MCRooms`, `MCMembers`, `MCFollowUps`, `MCDesk` and `MCMediaAndReads` each instantiate two or
three components that share no variable (ThreadAccess extends Assignment and counts with it
as one). No interleaving of such components shows anything that one of them does not show by
itself, so in these modules one of them moves, and the others
stay where they begin. The number of states is the sum of theirs, not the product.
`MCMediaAndReads` states the fairness of both, none of which is enabled where they begin.

The type invariants are proved. Everything the next table lists is run by hand.
`PROJECT.json` gives each property a mutated definition, beside the original in its
module, that breaks it: a dropped guard, a missing lock, a swapped pair of
statements. No specification uses those definitions.

Each of these states something a document of the repository says, and TLC ends with the
violation that shows that the code does otherwise
([below](#where-the-code-and-its-documents-disagree)). For the second group, put
`INVARIANT` and the property in the place of the properties of the configuration.

| Configuration | Module | Violated |
|---|---|---|
| `OutboundMessage_exactly_once.cfg` | `MCOutboundMessage` | `ExactlyOncePerSend` |
| `Assignment_owner_column.cfg` | `Assignment` | `OwnerMatchesActive` |
| `InboundIntake_first_contact.cfg` | `MCInboundIntake` | `OneConversation` |
| `ThreadAccess_owner_evicted.cfg` | `ThreadAccess` | `OwnerKeepsTheThread` |
| `Members_safety.cfg` | `MCMembers` | `AnActiveAdmin` |
| `Rooms_safety.cfg` | `MCRooms` | `StaleTokensRejected` |
| `FollowUps_safety.cfg` | `MCFollowUps` | `LastWordsAreWaiting`, `PauseKept` |
| `Desk_safety.cfg` | `MCDesk` | `DstAware`, `GapsShiftForward`, `EarlierInstantWins`, `RetriedSendGetsTheFile`, `MovedFilesHaveARow`, `NewCustomersAreAnnounced` |

## Bounds

- **OutboundMessage.** One client id for the safety properties, which are about one
  row: rows meet nowhere but in the deadlock of two inserts. `outbound_live` has two
  for that, and no exception, after which two of its properties promise nothing (the third
  counts exceptions like deaths, in the proof). Three jobs are a
  submit, its double and a retry; two workers let a stalled job overlap its late
  owner. `outbound_stalled` needs one fault and no answer lost. Two wamids, hence at most two accepted copies, are enough to exceed every
  count a property states. `MaxFaults`, `MaxThrows`, `MaxLost` bound crashes, lost locks
  and repeated ticks, exceptions, and lost answers at one each: the properties that count
  them are stated relative to the number used. `MaxSaveAttempts` is 3 in the code
  and `MaxAttempts` that of `withRetry`; two of each is enough to fail once and
  succeed, or to fail for good. `MaxStalledCount` is BullMQ's default, 1.
- **Assignment, ThreadAccess.** Three conversations over a cap of one make the
  overshoot visible; two members, of whom one can be removed and one is a
  supervisor; two concurrent transactions, since every conflict is between two;
  three rows of history (`MaxRows`) allow a transfer of a transfer. One of the
  conversations has its thread opened, by the agent: rooms do not interact, and a
  supervisor is never made to leave.
- **InboundIntake.** Two messages in one post that Meta repeats, of two customers:
  one known, one on first contact. Two jobs, so that a live save and a replayed one
  of the same message overlap; a page of one, so that two pages are needed. Each
  kind of fault strikes once at most, and at most two kinds in one behaviour
  (`MaxKinds`), which is what lets the four of them in. More crashes than
  `MaxStalled` would make the queue drop a job.
- **TeamAdmins.** Three members in the three positions the rule tells apart, two
  requests at a time but any number in sequence. A role alone, a status alone, a removal
  and a restored or new admin are the changes; two at once, or a new agent, are
  sequences of them or leave the admins as they are.
- **Cases.** Two messages of the customer (two bursts, or one of two), two
  replies, one close; two seconds, so that two bursts can share one; one failure.
- **CircuitBreaker.** Two workers, one crash, small durations in which a call ends
  before a cooldown, as with the defaults of the code. Two failures trip it (five
  in the code). No bound on the time: TTLs and ages saturate.
- **Sentiment.** One message and one row (rows do not interact, and each run of a
  fresh job inserts its own), two workers, two scans, two attempts (eight in the code); each
  job handed back once, one failed request, one turn of the switch.
- **MediaEnrichment.** Two attachments and two overlapping passes; three attempts
  (four in the code); three retryable errors, enough to use them up; one failed statement.
- **Spend.** Two overlapping requests, two charges, two budgets, two rates, two months;
  two changes and one failure. Money is in units, with 80 % of the budget in reach.
- **Presence.** Two sockets, one request for a state, two handlers of a kind at a time,
  one failed statement or restart.
- **Sessions.** Two changes of memberships, two sockets, the first token and one more, one fault.
- **StagedUploads.** One upload, as uploads do not interact, two messages and a foreign
  one that name it, two processes and three runs: two that overlap and one after
  them. One crash and one error.
- **BusinessHours.** Days of four ticks in a week of two, spans of up to thirteen
  ticks: three local days and a part of a fourth, so that the hard stop (`MaxDays`, 3
  here, 370 in the code) strikes too. The clock changes once, by up to three ticks.
- **Customers.** One person with a number on two channels, hence two senders with one
  phone, and a second phone; two handlers at a time and four in a row, which allows a
  customer to be created, deleted and restored around a third; three rows.
- **ReadThroughCache.** One scope; two requests, a leader and a follower, which polls
  once (ten times in the code); one change and one fault. Several changes under way at
  once are left to the proof.

The proved properties hold for every value of these constants. Deadlock is checked
for `CircuitBreaker`, where time always goes on. The other models stop when their
clients, jobs or messages are used up, or wait for requests that may never come.

## Fairness

- `OutboundMessage!FairSpec`: weak fairness of each worker's step. A worker is a
  process of BullMQ that polls for ever; the calls it waits for end, because the
  HTTP client has a timeout of 30 s and `withRetry` a last attempt. Crashes, lost
  locks, exceptions, submits and ticks are not fair: they need not happen.
- `InboundIntake!FairSpec`: weak fairness of the boot after a crash (the process
  is supervised), of the replay it starts, of the posts and commands under way and
  of the worker. Meta's posts are not fair: it may stop retrying.

- `CircuitBreaker!BreakerFairness`: weak fairness of the time and of each worker's
  step: messages keep coming to be analysed, and every call ends, because the
  client has a timeout. The IA, Redis and crashes are not fair: `NeverShutForGood`
  holds though both stay away for good, since a probe is a call.
- `MediaEnrichment!MediaFairness`: weak fairness of each worker's pass and of the
  queue handing out the job of a dead worker. Errors, outages and handing out the job
  of a worker that is only late are not fair.
- `ReadThroughCache!FairSpec`: weak fairness of the steps of each request: its queries
  and its calls to Redis end, with an answer or an error. Changes, announcements and the
  expiry of locks are not fair.

No other module states liveness: the transactions of Assignment and TeamAdmins
and the handlers of Cases, Spend and Presence end by failing as well as by
succeeding, and nothing retries them.

## Proofs

The proofs are for all values of the constants, under the named `ASSUME`s of each
module, which TLC evaluates on the instances it runs.

| Module | Theorems |
|---|---|
| `OutboundMessage_proofs` | `TypeCorrect`, `LifecycleImplemented` (`ImplementsLifecycle`), `HistoryCorrect` (`HistoryIsThePath`), `NoRunTakesOver`, `OwnersAreCounted` (`OwnersWithinReplays`), `CopiesAreAccountedFor` (`CopiesAccountedFor`), `FailedRowsAreUndelivered` (`FailedMeansUndelivered`), `StrandedRowsAreCounted` (`StrandedWithinDeaths`), `ExactlyOnceUntilAnAnswerIsLost`, `SendsAreAccountedFor`, `SendsDoNotAllGiveUp` |
| `Assignment_proofs` | `TypeCorrect`, `OneActiveAlways` (`OneActive`), `OwnershipIsFrozen`, `OwnershipImplemented` (`ImplementsOwnership`), `OwnerColumnFollows` (`OwnerFollowsActive`), `OnlyRemovalsRelease` (`OnlyRemovalReleases`), `OvershootIsBounded` (`OvershootBounded`) |
| `Rooms_proofs` | ThreadAccess: `EngineUndisturbed` (every behaviour is one of Assignment), `ThreadTypes`, `StrangersAreMadeToLeave` (`StrangersLeave`). Sessions: `SessionsTypes`, `OldClaimsAreExcused` (`OldClaimsHaveACause`) |
| `Inbound_proofs` | InboundIntake: `IntakeTypes`, `StoredIsKept` (`StoredNotLost`), `OneRowPerMessage` (`OneRowEach`). MediaEnrichment: `TypeCorrect`, `PatchedOnce` (`OnePatchEach`), `AttemptsAreUsed` (`NothingGivenUpEarly`) |
| `Members_proofs` | TeamAdmins: `TypeCorrect`, `CountProtectsTheLast` (`OnlyStaleReadsLoseTheLast`), `DemotionsLeaveAnAdmin`. Presence: `PresenceTypes`, `OneIntervalIsOpen` (`OneOpenInterval`), `OnlineIsASocket` (`OnlineMeansASocket`) |
| `FollowUps_proofs` | Cases: `TypeCorrect`, `OpenCaseIsUnique` (`OneOpenCase`), `NoBurstTwice` (`BurstsAnsweredOnce`), `FirstResponseSampled` (`FirstResponseIsAReply`), `ClockIsKept` (`SerialHandlersKeepTheClock`). Sentiment: `SentimentTypes`, `AnalysesHaveOneRunner` (`OneRunnerPerAnalysis`), `CallsAreBounded` (`CallsBounded`). Spend: `SpendTypes`, `StaleSavesAlone` (`OnlyStaleSavesLose`), `AlertsReachTheAdmins` (`AlertNotLost`) |
| `SharedKeys_proofs` | CircuitBreaker: `TypeCorrect` (`BreakerTypeOK`), `ProbesExclude` (`ProbesAreExclusive`). ReadThroughCache: `CacheTypes`, `StaleIsNeverRead` (`AnnouncedChangesAreRead`), `OneComputes` (`OneFlight`) |
| `Desk_proofs` | Customers: `CustomersTypes`, `SendersHaveOneCustomer` (`OneCustomerPerSender`), `ChangesAreTold` (`ChangesAreAnnounced`), `WritersComeBack` (`WritersAreActive`). StagedUploads: `UploadsTypes`, `LostFilesAreCaused` (`LostFilesHaveACause`). ZonedTime: `ConversionsAreExactOrEarly`, `AwayFromTheChange`. BusinessHours: `HoursTypes`, `BusinessTimeAgrees` (`AgreesWithClock`), `SettledClocksAreMeasured` |

Every safety invariant, action property and refinement that a run checks is proved; the
[last paragraph](#what-is-only-model-checked) says what is not.

**OutboundMessage, the row.** The statuses a run saw are older than the row's, and the
`UPDATE`s are conditional on what they expect, so each step of a row is a step of
`MessageLifecycle` or a stutter whatever the run believes: the refinement needs
the types and no further invariant. `HistoryIsThePath` then follows inside the
abstract specification, where it is inductive, and is brought down through the
mapping.

**OutboundMessage, the locks.** `LocksHold`: a lock is held by one run, whose job is active,
and no job that is open and no run has an attempt made. An attempt is made where a run ends,
and the queue hears of it only from the run with the lock, whose job is then over; a stall gives
the job back with its lock taken away, and makes none. So no run ever takes over the pending row
of another (`NoRunTakesOver`), which is what the counts below rest on.

**OutboundMessage, owners and copies.** What may still become a call of the provider for
a client's row is a finite set of tokens (`Tokens`): the runs that own or may own the
call, the failing ticks that are being applied, the failure the provider may still report of
the copy the row stands for, and a row that is free to take. Each step keeps the set, hands
one token on for another, or adds one that it pays for with a repeated tick (`TokenStep`), so
the tokens never exceed one more than `replays`, and an owner is a token: a crash takes a token
away, and a lost lock leaves it where it was. `CopyTokens` counts accepted copies in the
same way, paid by lost answers and retries of a failed row. While nothing was lost or repeated
there is one token at most, and `CopiesExplained` can name what became of each copy: its
run still has the answer, the row stands for it, it was reported failed, or no token is left.
`HookAssumption` only keeps the value for "no tick" apart from the ticks.
`ExactlyOnceUntilAnAnswerIsLost` says when the documented "exactly once" does hold: before the
first lost answer, whatever crashes, stalls and repeats.

**OutboundMessage, who settles a row.** A pending row is carried by the run that inserted
it or reset it, until that run settles it (`Carried`), for no other step leaves a row pending
without a run that owns its call (`SaveMoves`, `ClaimMoves`, `SettleMoves`). A run that loses
its lock carries on; one that dies or throws strands one row at most, its own
(`DeathCarries`), so the stranded rows are no more than the deaths (`StrandedRowsAreCounted`),
however many faults there are. That the carrier does settle the row is left to
`PendingSettlesUntilADeath` and to TLC.

**OutboundMessage, the queue.** `SendsAreAccountedFor` has no hypothesis: a completed job has
its row, because a run past `saveOutbound` found or inserted it (`PastSave`) and no write takes
a row back to nothing, which is a fact of `MessageLifecycle`; and an active job has a run with
its lock. So what the queue took is saved, waits, is being worked on, or is a failed job.
`SendsDoNotAllGiveUp` limits the failed ones where `saveOutbound` throws of itself: an insert
is only lost to a row or to another run at its insert, so the last to try is left with one.
It holds until a handler throws, with one crash or lost lock at most: a late run may make the
run that took its job over give up, and then crash. The condition `MaxStalledCount > 0` is
BullMQ's default. Both are the safety half of `QueuedSendIsSaved`.

**Assignment.** `OneActive` is not inductive: between `CloseActive` and
`CommitAssign` a transaction must know that no active row can appear. `IInv` adds
`Sound(t)`: a transaction past its lock holds the conversation, and after the
close no row of it is active, because inserting one takes the lock. The
selection of the candidate, a minimum over the members, is a lemma of its own.
For the owner column `Closings` says that what a transaction has closed are rows of its
own conversations, so a conversation that no transaction works on is untouched and its
column is what its newest row says. For the cap, what a member has automatically and what
transactions are about to give the member are counted together: a transaction decides
below the cap, and the others that decided with it are fewer than the transactions, which
is why these are assumed finite.

**Assignment, the owners.** What a transaction decided is not what it finds at its commit,
so the refinement needs `Decisions`: an automatic assignment or a claim still finds its
conversation free, because whoever would take it needs the lock; a transfer still finds
another owner or none; and what a removal closes are rows of its member, since no row
ever changes its member. The commit of an assignment is then a `Take`, a `Confirm` or
a `Transfer`, the one row it inserts being the act. The commit of a removal is a
`Leave`: the conversations it frees are those whose active row it closed, so they were the
member's; one that was transferred after the removal read it has an active row it did
not read, and keeps its owner. `OwnershipIsFrozen`, that nobody goes from one
owner to the next but by a supervisor, is proved from `IInv` directly.

**ThreadAccess.** A step of the rooms leaves the variables of the engine alone and
a step of a handler is one of the engine, so `ThreadSpec => Spec`, and `IInv` of
Assignment is there to use. `NoticeLast` says that a handler notifies only after
its transaction, `NoticesOfThreads` that it notifies about a thread. Of the steps of
the engine only `CommitAssign` gives a conversation another owner, the others
keep or lose the one it has, and that step leaves the notice that excuses whoever is
in the room; a notice that ends names an owner, or makes the agents leave.

**Sessions.** `ViewIsLate`: a view of the marker that may be used, and that no lookup from
before a marker has overwritten, is as late as every marker this process has set.
`Excused`: a connected socket has a token from after each finished revocation, or its
handshake was answered from a raced or a failed lookup.

**InboundIntake.** `ConsumedIsKept`: while no save was given up, no channel was found
inactive and the process crashed no more often than the queue lets a job stall, an event
that is consumed, or that the replay is about to consume, has its row or its queued save.
`FaultsLeft` ties the stalls of each job to the crashes so far. `InTheirThread` says that
rows, jobs and commands name a conversation of the message's sender; as long as a sender
has one conversation, `OneToPublish` allows a message one `MessageSavedEvent`, published
or still to come. `StoredNotLost` excepts those faults, and more than `MaxStalled` crashes.

**MediaEnrichment.** `SettledByOne`: what a pass has just settled nobody else has, and
it is not patched yet, because the compare-and-set lets one pass through.
`AheadOfPasses`: what is pending is still ahead of every pass that has read what is
pending, so a pass that returns leaves nothing. `AttemptsHaveCauses`: the attempts
made never exceed the errors and outages so far; a stall makes none.

**TeamAdmins.** `IInv` adds `LocksHeld` (what a request locked are active admins,
locked by it alone, until it writes) and `Covered` (a writer that takes an active
admin away holds another one). A write that loses the last admin must then have
seen its target as something else. `DemotionsLeaveAnAdmin` assumes `NoGrants`,
that no change makes anybody an active admin: what was read as no admin stays
none, so the count is never skipped wrongly, and an admin is left.

**Presence.** Until handlers that open have crossed, `OneOpener` and `OpensOnto` say that
at most one handler looks for the open interval or opens one, and that it opens onto none
or closes the one there is. `InOrder` says what holds while nothing crossed at all: whoever
opens has a socket, and nobody closes meanwhile. That an interval gets an identifier
nobody holds is a counting lemma, for which the handlers of `setState` are finite.

**Cases, the samples.** `IInv` adds `OnePlace`: a customer's message is on no clock before
its handler is through, and then on one clock, in the hands of one reply or in one
sample. `Answer` moves a whole burst from the first to the second, `SaveReply`
from the second to the third. `MarksItsSample` says that the sample precedes
`first_response_at`.

**Cases, the clock.** While `serial` holds, who runs is the last of the log
(`OneAtATime`), and what that handler holds is what the rows still say (`UpToDate`): so
no insert is lost, no conditional `UPDATE` fails and no close meets a closed case.
`ClockTells(n)` compares the waiting list with the first `n` of the log, and the number of
samples is that of the turns among them; `n` is the whole log, or all but its last while
that one is undecided (`Told`, `Sampled`). `FirstsAgree` keeps one marked sample per
answered case. `OnRecord` holds without `serial`: who is in the log has begun.

**Sentiment.** `OneRunnerPerAnalysis` needs the shape of what scans and workers hold. For
the calls, `CallsCovered` counts for each row the calls made, the workers that still have one
to make, the retry jobs that may still run and the row not yet inserted: their sum never
exceeds one, the retries and the jobs handed back.

**Spend.** `Fresh`: while nobody changed the row since it was read, an entity is the row but
for the columns its request wants, and the alert it is about to store is news. `AsAsked`:
while no stale entity was saved, the row is what was asked for. `Heeded`: every alert of the month that is
recorded was announced or is about to be, and a level that is reached was heard, is being
announced, or a check against the present budget is still to come.

**CircuitBreaker.** `BreakerInv` adds `ProbesCovered`: the lock of a probe has more time left
than its call, because it starts at `ProbeTtl`, which is longer than the call, and
both lose one at each tick. So no lock expires under its holder, and a
second `SET NX` fails while there is one. The assumption is `CallTime < OpenFor`.

**ReadThroughCache.** `Current`: what was read behind the present version of a scope has
every change that was bumped, because a change is written before its version is raised and
the version is read before the data. `Answers`: hence a result under the key of a request
has what that request was told of when it asked. Both speak of entries and of results still
being computed, with any number of changes on their way. `Flights`: who
computes a report has the lock of its key, unless the key is slack.

**Customers.** `Resolves`: an inbound run that goes on with a customer goes on with the one its
sender's identity names. `Steady`: as long as nothing was deleted or renumbered beside it, the
customer of a run is active, or was read as deleted and will be restored. `Owes` is who
will announce a change, and `due \ lost` is always owed by somebody. `MaxCustomers` is at
least one.

**StagedUploads.** `FileKept`: while an upload is young, no two runs or tiers crossed on it and
nothing failed, Redis says where its file is but for the moment between the move and the
note of it, and `Alone` says that the run at that moment is the only one of the upload.

**ZonedTime.** No behaviour, so plain facts about `zonedTimeToUtc` for every zone and time: it
is exact, or early by the whole change of the clock, and it is early for every time the clock
skips, which is why `GapsShiftForward` fails in every gap and not in the one
TLC shows. Away from the change it is exact: the exceptions of `AgreesWithClock` are near it.

**BusinessHours.** `HoursInv` says that what is counted is the number of instants in
`CountedTime`: the open ones of the dates done, and those in the intervals counted of
the next date. A time that comes once and is converted right divides the instants into
those that show an earlier time and the others (`Clock`), whichever way the clock changes,
so the instants between the conversions of an interval are those at which the clock shows
that date and a time of the interval (`Opening`); no other date and no other interval has
them, and their number is the overlap. `SettledClocksAreMeasured` takes the conditions on the
conversions away where `AwayFromTheChange` gives them: they hold wherever the
clock does not change near an opening, a closing or a midnight. `HoursAssumption` asks for
days and weeks of at least a tick and a day, for intervals within a day, as the schema
has them, and for `MAX_DAYS` of at least one.

### What is only model-checked

- The liveness properties: `PendingSettlesUntilADeath`, `QueuedSendIsSaved`, `PendingSettles`
  (of the intake), `NeverShutForGood`, `FilesSettle`, `RequestsEnd`. Fairness and
  `ENABLED` are beyond the prover.
- The [violations](#where-the-code-and-its-documents-disagree), which are counterexamples.


## Where the code and its documents disagree

Each of the numbered ones is the violation of a [run](#runs) or of a configuration by hand.

1. `ExactlyOncePerSend` (`conversations.service.ts:94`): the pipeline "sends to Graph exactly
   once per `clientMessageId`". An answer that is lost after Graph accepted the message
   makes `withRetry` send it again.
2. `OwnerMatchesActive`: `assigned_member_id` is the "current assignee". A
   transfer that commits between a removal's reads and its `UPDATE` leaves the
   column empty under an active row.
3. `OneConversation`: the webhook "returns its conversation for that channel,
   creating it on first contact". Two first messages of one post create two.
4. `AnActiveAdmin`: "The company needs at least one active admin". A request that
   read its target before it was promoted never counts the admins.
5. `LastWordsAreWaiting`: `awaiting_reply_since` is "NULL once a member replied".
   An older reply whose handler is late, beside the worker's next job or in
   another process, clears the clock of a newer message.

6. `OwnerKeepsTheThread` (`conversation.gateway.ts:166`): "agents other than the new
   owner lose the thread". A notice that comes after a later assignment names the
   member before, and takes the owner out.
7. `StaleTokensRejected` (`session-revocation.service.ts:24`): "a token issued before
   the marker is rejected with `token_stale`". The answer of a lookup that began before
   the marker overwrites the local one, and stale tokens pass for the local TTL.
8. `PauseKept` (`spend.service.ts:63`): the manual pause. A save of the same row by
   a request that read it earlier lifts it.
9. `RetriedSendGetsTheFile` (`staged-upload.store.ts:84`): "a retried send gets the same
   file". A run that dies between the move and the note of it leaves an upload that
   no send can move any more. `MovedFilesHaveARow`: the file it moved is referred to by
   nothing and swept by nobody, though the comment at line 50 says that an abandoned upload
   leaves nothing "but a file the sweeper deletes".
10. `DstAware` (`business-time.ts:23`): where the offset is looked up on the wrong side of a
    change of the clock, `zonedTimeToUtc` takes the smaller of two candidates although only
    the larger shows the wanted time. 01:30 in Madrid becomes 00:30 on the day
    the clock goes forward, 05:00 in New York 04:00 on the day it goes back.
11. `GapsShiftForward`, `EarlierInstantWins` (`zoned-time.ts:103`): "Inside a DST gap the
    time shifts forward; inside an overlap the earlier instant wins". In a gap the
    smaller candidate is before it, and east of Greenwich an overlap gives the
    later instant.
12. `ActiveHoldersKeepThePhone` (`customers.service.ts:558`): "an active holder is a 409".
    The holder was read as deleted, is restored by its own message, and then loses its
    phone to the edit. `NewCustomersAreAnnounced`: a customer whose inbound run lost the
    race for the identity, or whose request threw after it, is never announced, and the
    cached table does not show it.
13. `AnnouncedRulesAreUsed` (`service-settings.service.ts:81`): "Every duration and SLA
    state is measured against these settings". A request reads the settings before the
    versions, and may store a result of the old ones under the new version,
    for up to 24 hours.

14. `PendingSettles` (`agent-message-sender.service.ts:242`): "A stalled BullMQ retry is not a
    duplicate: the original attempt died before the provider answered, so a still-pending
    row is ours to send". `claimSend` knows such a retry by `attemptsMade > 0`, but a stall
    is no attempt made: the job a dead worker leaves comes back with `attemptsMade` 0, is
    taken for a double submit and completes, and the row stays pending, where every later
    submit of the client id ends as well. The test of the branch
    (`agent-message-sender.service.spec.ts:132`) passes `attemptsMade: 1` by hand.

Others were met and have no configuration:

- `StoredSendIsNotLost` (`send-conversation-message.handler.ts:25`): a job that
  throws before its insert has no second attempt. `saveOutbound` throws of itself when each
  of its inserts deadlocked with another send of the conversation.
- `OnlyTheAnswerMarksSent` (`agent-message-sender.service.ts:35`): a `sent` tick
  of the wamid of an earlier attempt moves a retried row.
- `RemovedOwnNothing` (Assignment): an assignment that read its candidate before
  the removal commits gives a removed member a conversation.
- The boot replay consumes an event whose save is only queued, or whose channel
  is not active (`whatsapp-inbound-replay.service.ts:102`), where the live path
  keeps it until the row exists (`inbound-message-saved.handler.ts`).
- `max_open_conversations` of a member (`company-member.entity.ts:55`) is never
  read by the engine, which applies the company's cap.
- Two replies of a case may both be marked first, when the second read the case
  before the first wrote `first_response_at` or after that write failed; a close
  between a message's lookup and its clock leaves the clock on a closed case.
- On first contact a live command and the replay may each create a conversation,
  and the message then has a row in both: `external_id` is unique per conversation.
- A member is not "online while the gateway holds at least one of their sockets"
  (`presence.service.ts:20`) when a departure crosses an arrival, a socket closes in
  its handshake, or a state is set without a socket; `muddle` names them.
- `session-revocation.service.ts:49`: "the local marker still protects this
  process", but only until a lookup after its TTL of seconds finds nothing.
- A stale save may put an old budget back, which nobody checks, and `updateRates`
  never calls `checkBudget`: an alert may be missing until the next charge. A failure
  between storing the alert's key and `notifyAdmins` loses the alert.
- Two intervals of a day may overlap (`service-settings.contract.ts`), and
  `businessSeconds` then counts the time in both twice.
- Two creations over one deleted customer may both answer that they restored it, where
  the second finds "an active one", which "is a 409".
- `ConversationSendContextService.invalidate` ("Drop the cached destination (channel or
  customer of the conversation changed)") has no caller: a changed recipient is stale
  for the TTL of five minutes.
- A change of the company's timezone or capacity, which the reports are measured with,
  bumps no scope of theirs.
- `InboundMediaFailedEvent` is published though the compare-and-set was lost, and a late
  download that fails removes the file of an attachment another pass made ready
  (`whatsapp.client.ts:242`).

## What is not modelled

- Payloads, templates, media files, formatting, logs, metrics and HTTP wiring.
- Reads that decide nothing: listings, analytics, the thread.
- Single-row CRUD: channels, companies, users, notifications; tags of customers.
- In Assignment, members are not suspended or restored and conversations are not
  closed; the notifications the notifier stores are left out.
- In InboundIntake a worker does not lose its lock while it runs (OutboundMessage
  has that), the customer is found or created in one step (Customers has its
  statements), and unsupported messages and
  the purge of replayed events are left out.
- In Cases the counters, the owner, the note and the link of a reopened case.
- In MediaEnrichment the files on disk. In Spend the prices and the reports.
  In Presence the closed intervals. In Sessions there is one process, and markers
  do not expire before the tokens do.
- In OutboundMessage a tick of a wamid that is not stored yet is ignored, as in the
  code, and what follows for a row that never leaves `sent` is not a property.
- BullMQ, Meta, the Graph API, Redis and InnoDB are modelled from how the code uses
  them. A stalled job is assumed to come back with `attemptsMade` as it was, as in BullMQ 5,
  and a locking read to hold the range it scanned until the commit.

Most of the repository's lines are of these kinds: a generated snapshot of the
contracts is a third of them, and DTOs, entities, analytics queries, single-row
CRUD and provisioning most of the rest. What is left, the code with states that
several handlers share, is what the modules cover.

## Plan

1. Proofs: an abstract specification of a customer's identity for Customers.
2. Suspension and restoring of members beside the engine and the revocation, which
   needs TeamAdmins, Assignment and Sessions composed.
3. The files of the enrichment.
4. The pure parts against a reference definition: the retry policy and the parsing of a
   webhook body.
