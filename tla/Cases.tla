-------------------------------- MODULE Cases --------------------------------
(***************************************************************************)
(* The support cases of one conversation (CasesService).  Every saved      *)
(* message publishes MessageSavedEvent, and its handler runs beside those  *)
(* of the other messages: each statement is a step of its own.  A          *)
(* customer's message opens or continues the open case and starts the      *)
(* clock of the unanswered burst; a member's message answers the burst it  *)
(* read; an agent closes the case.                                         *)
(*                                                                         *)
(* awaiting_reply_since, first_response_at and the reply times are columns *)
(* of one second, so two messages may carry the same time.  The counters,  *)
(* the owner, the note and reopen_of_case_id are written and never read    *)
(* back here, and are left out.                                            *)
(***************************************************************************)
EXTENDS Naturals, Sequences, FiniteSets

CONSTANTS
    Customers,  \* messages of the customer
    Members,    \* messages of members of the team
    Closers,    \* requests to close the case
    MaxClock,   \* bound: seconds of the clock
    MaxFails    \* bound: handlers that throw or die with their process

ASSUME CasesAssumption ==
    /\ Customers \cap Members = {}
    /\ (Customers \cup Members) \cap Closers = {}
    /\ MaxClock \in Nat \ {0}
    /\ MaxFails \in Nat

Messages == Customers \cup Members
Never == 0          \* NULL in a datetime column

VARIABLES
    clock,      \* now, in seconds
    saved,      \* messages.created_at, or Never
    cases,      \* rows of `cases`, oldest first
    replies,    \* rows of `case_replies`
    handler,    \* CaseMessageSavedHandler for each message
    closing,    \* POST /conversations/:id/close
    fails,      \* handlers that failed so far
    log,        \* observer: handlers and closes in the order they began
    serial      \* observer: no two of them ever overlapped, none failed

vars == <<clock, saved, cases, replies, handler, closing, fails, log, serial>>

\* `burst` is an observer: the customer's messages that the clock, or the
\* sample, stands for.
Case == [open: BOOLEAN, openedAt: Nat, awaiting: Nat, first: Nat,
         burst: SUBSET Customers]

Reply == [case: Nat, by: Members, awaitedFrom: Nat, repliedAt: Nat,
          isFirst: BOOLEAN, burst: SUBSET Customers]

Stages == {"unsaved", "find", "insert", "refind", "clock",
           "answer", "reply", "first", "done"}

\* What a handler holds across its awaits.
Handler == [at: Stages, case: Nat, awaited: Nat, first: Nat,
            burst: SUBSET Customers]

Idle(at) == [at |-> at, case |-> 0, awaited |-> Never, first |-> Never,
             burst |-> {}]

Init ==
    /\ clock = 1
    /\ saved = [m \in Messages |-> Never]
    /\ cases = <<>>
    /\ replies = {}
    /\ handler = [m \in Messages |-> Idle("unsaved")]
    /\ closing = [c \in Closers |-> [at |-> "idle", case |-> 0]]
    /\ fails = 0
    /\ log = <<>>
    /\ serial = TRUE

OpenCases == {k \in DOMAIN cases : cases[k].open}

Running == {m \in Messages : handler[m].at \notin {"unsaved", "find", "done"}}
               \cup {c \in Closers : closing[c].at = "close"}

\* The observers, when message or request x reads the open case.
Begin(x) ==
    /\ log' = Append(log, x)
    /\ serial' = (serial /\ Running = {})
-----------------------------------------------------------------------------
\* A message's row commits and its event is published.
Save(m) ==
    /\ handler[m].at = "unsaved"
    /\ saved' = [saved EXCEPT ![m] = clock]
    /\ handler' = [handler EXCEPT ![m] = Idle("find")]
    /\ UNCHANGED <<clock, cases, replies, closing, fails, log, serial>>

Tick ==
    /\ clock < MaxClock
    /\ clock' = clock + 1
    /\ UNCHANGED <<saved, cases, replies, handler, closing, fails, log, serial>>
-----------------------------------------------------------------------------
(* recordInbound *)

FindOpen(m) ==
    /\ m \in Customers
    /\ handler[m].at = "find"
    /\ \/ /\ OpenCases = {}
          /\ handler' = [handler EXCEPT ![m] = Idle("insert")]
       \/ \E k \in OpenCases :
             handler' = [handler EXCEPT ![m] = [Idle("clock") EXCEPT !.case = k]]
    /\ Begin(m)
    /\ UNCHANGED <<clock, saved, cases, replies, closing, fails>>

NewCase(m) == [open |-> TRUE, openedAt |-> saved[m], awaiting |-> Never,
               first |-> Never, burst |-> {}]

\* open: the unique open_key lets one of the concurrent inserts through.
Open(m) ==
    /\ handler[m].at = "insert"
    /\ IF OpenCases = {}
       THEN /\ cases' = Append(cases, NewCase(m))
            /\ handler' = [handler EXCEPT ![m] =
                              [Idle("clock") EXCEPT !.case = Len(cases) + 1]]
       ELSE /\ handler' = [handler EXCEPT ![m] = Idle("refind")]
            /\ UNCHANGED cases
    /\ UNCHANGED <<clock, saved, replies, closing, fails, log, serial>>

\* The loser of the insert continues the winner's case, unless it was closed.
Refind(m) ==
    /\ handler[m].at = "refind"
    /\ \/ /\ OpenCases = {}
          /\ handler' = [handler EXCEPT ![m] = Idle("done")]
       \/ \E k \in OpenCases :
             handler' = [handler EXCEPT ![m] = [Idle("clock") EXCEPT !.case = k]]
    /\ UNCHANGED <<clock, saved, cases, replies, closing, fails, log, serial>>

\* Mutated form, for the mutation runs: every message restarts the clock.
RestartClock(m) ==
    LET k == handler[m].case IN
    /\ handler[m].at = "clock"
    /\ cases' = [cases EXCEPT ![k] =
                    [@ EXCEPT !.awaiting = saved[m], !.burst = @ \cup {m}]]
    /\ handler' = [handler EXCEPT ![m] = Idle("done")]
    /\ UNCHANGED <<clock, saved, replies, closing, fails, log, serial>>

\* The first message of an unanswered burst starts the clock.  The case may
\* have been closed since it was found.
StartClock(m) ==
    LET k == handler[m].case
        row == cases[k]
    IN
    /\ handler[m].at = "clock"
    /\ cases' = [cases EXCEPT ![k] =
           [row EXCEPT !.awaiting = IF row.awaiting = Never THEN saved[m]
                                   ELSE row.awaiting,
                       !.burst = row.burst \cup {m}]]
    /\ handler' = [handler EXCEPT ![m] = Idle("done")]
    /\ UNCHANGED <<clock, saved, replies, closing, fails, log, serial>>
-----------------------------------------------------------------------------
(* recordOutbound *)

\* Nothing to answer without an open case, or when nobody waits.
FindBurst(m) ==
    /\ m \in Members
    /\ handler[m].at = "find"
    /\ \/ /\ \A k \in OpenCases : cases[k].awaiting = Never
          /\ handler' = [handler EXCEPT ![m] = Idle("done")]
       \/ \E k \in OpenCases :
             /\ cases[k].awaiting # Never
             /\ handler' = [handler EXCEPT ![m] =
                   [Idle("answer") EXCEPT !.case = k,
                                          !.awaited = cases[k].awaiting,
                                          !.first = cases[k].first,
                                          !.burst = cases[k].burst]]
    /\ Begin(m)
    /\ UNCHANGED <<clock, saved, cases, replies, closing, fails>>

\* The burst of a case is answered: its clock stops and m owns the sample.
Take(m, k, next) ==
    /\ cases' = [cases EXCEPT ![k] = [@ EXCEPT !.awaiting = Never, !.burst = {}]]
    /\ handler' = [handler EXCEPT ![m] =
                      [@ EXCEPT !.at = next, !.burst = cases[k].burst]]

\* Mutated form, for the mutation runs: nobody looks whether the UPDATE matched.
AnswerUnchecked(m) ==
    LET k == handler[m].case IN
    /\ handler[m].at = "answer"
    /\ IF cases[k].awaiting = handler[m].awaited
       THEN Take(m, k, "reply")
       ELSE /\ handler' = [handler EXCEPT ![m].at = "reply"]
            /\ UNCHANGED cases
    /\ UNCHANGED <<clock, saved, replies, closing, fails, log, serial>>

\* Mutated form, for the mutation runs: first_response_at before the reply.
AnswerThenMark(m) ==
    LET k == handler[m].case IN
    /\ handler[m].at = "answer"
    /\ IF cases[k].awaiting = handler[m].awaited
       THEN /\ cases' = [cases EXCEPT ![k] =
                   [@ EXCEPT !.awaiting = Never, !.burst = {},
                             !.first = IF @ = Never THEN saved[m] ELSE @]]
            /\ handler' = [handler EXCEPT ![m] =
                   [@ EXCEPT !.at = "reply", !.burst = cases[k].burst]]
       ELSE /\ handler' = [handler EXCEPT ![m] = Idle("done")]
            /\ UNCHANGED cases
    /\ UNCHANGED <<clock, saved, replies, closing, fails, log, serial>>

\* Conditional on the burst that was read: a concurrent reply loses the race.
Answer(m) ==
    LET k == handler[m].case IN
    /\ handler[m].at = "answer"
    /\ IF cases[k].awaiting = handler[m].awaited
       THEN Take(m, k, "reply")
       ELSE /\ handler' = [handler EXCEPT ![m] = Idle("done")]
            /\ UNCHANGED cases
    /\ UNCHANGED <<clock, saved, replies, closing, fails, log, serial>>

\* The case_replies row.
SaveReply(m) ==
    LET isFirst == handler[m].first = Never IN
    /\ handler[m].at = "reply"
    /\ replies' = replies \cup
          {[case |-> handler[m].case, by |-> m,
            awaitedFrom |-> handler[m].awaited, repliedAt |-> saved[m],
            isFirst |-> isFirst, burst |-> handler[m].burst]}
    /\ handler' = [handler EXCEPT ![m] =
                      IF isFirst THEN [@ EXCEPT !.at = "first", !.burst = {}]
                      ELSE Idle("done")]
    /\ UNCHANGED <<clock, saved, cases, closing, fails, log, serial>>

\* first_response_at is written once.
MarkFirst(m) ==
    LET k == handler[m].case IN
    /\ handler[m].at = "first"
    /\ cases' = IF cases[k].first = Never THEN [cases EXCEPT ![k].first = saved[m]]
                ELSE cases
    /\ handler' = [handler EXCEPT ![m] = Idle("done")]
    /\ UNCHANGED <<clock, saved, replies, closing, fails, log, serial>>
-----------------------------------------------------------------------------
\* A statement throws (logged, never retried) or the process dies.
Fail(m) ==
    /\ handler[m].at \notin {"unsaved", "done"}
    /\ fails < MaxFails
    /\ fails' = fails + 1
    /\ serial' = FALSE
    /\ handler' = [handler EXCEPT ![m] = Idle("done")]
    /\ UNCHANGED <<clock, saved, cases, replies, closing, log>>

(* close: 409 when nothing is open. *)

FindToClose(c) ==
    /\ closing[c].at = "idle"
    /\ \E k \in OpenCases : closing' = [closing EXCEPT ![c] = [at |-> "close", case |-> k]]
    /\ Begin(c)
    /\ UNCHANGED <<clock, saved, cases, replies, handler, fails>>

Close(c) ==
    LET k == closing[c].case IN
    /\ closing[c].at = "close"
    /\ cases' = IF cases[k].open
                THEN [cases EXCEPT ![k] = [@ EXCEPT !.open = FALSE, !.burst = {},
                                                    !.awaiting = Never]]
                ELSE cases
    /\ closing' = [closing EXCEPT ![c] = [at |-> "done", case |-> 0]]
    /\ UNCHANGED <<clock, saved, replies, handler, fails, log, serial>>

Inbound(m) == FindOpen(m) \/ Open(m) \/ Refind(m) \/ StartClock(m)

Outbound(m) == FindBurst(m) \/ Answer(m) \/ SaveReply(m) \/ MarkFirst(m)

Next ==
    \/ Tick
    \/ \E m \in Messages : Save(m) \/ Inbound(m) \/ Outbound(m) \/ Fail(m)
    \/ \E c \in Closers : FindToClose(c) \/ Close(c)

Spec == Init /\ [][Next]_vars
-----------------------------------------------------------------------------
(* Properties *)

\* Rows and handlers are well formed, and what a handler or a close holds is
\* the id of a row that exists.
TypeOK ==
    /\ clock \in Nat \ {Never}
    /\ saved \in [Messages -> Nat]
    /\ \A m \in Messages : handler[m].at # "unsaved" => saved[m] # Never
    /\ cases \in Seq(Case)
    /\ replies \in SUBSET Reply
    /\ handler \in [Messages -> Handler]
    /\ \A m \in Messages : handler[m].at \in {"clock", "answer", "reply", "first"} =>
          handler[m].case \in DOMAIN cases
    /\ closing \in [Closers -> [at: {"idle", "close", "done"}, case: Nat]]
    /\ \A c \in Closers : closing[c].at = "close" => closing[c].case \in DOMAIN cases
    /\ fails \in Nat
    /\ log \in Seq(Messages \cup Closers)
    /\ serial \in BOOLEAN

\* case.entity.ts:25-27: a conversation has a single open case, even under
\* concurrent inbound messages.
OneOpenCase ==
    \A j, k \in DOMAIN cases : cases[j].open /\ cases[k].open => j = k

\* case-reply.entity.ts:10-12: a row is one answered burst.  No message of the
\* customer is in the burst of two replies, whatever the replies, the closes
\* and the messages that raced, and although two bursts may begin in the same
\* second.
BurstsAnsweredOnce ==
    \A r, s \in replies : r # s => r.burst \cap s.burst = {}

\* first_response_at is the time of a reply that is on record as a first one,
\* of the same case: no failure may leave it without its sample.
FirstResponseIsAReply ==
    \A k \in DOMAIN cases : cases[k].first # Never =>
        \E r \in replies : r.case = k /\ r.isFirst /\ r.repliedAt = cases[k].first

\* The messages of the customer that no later message of a member and no close
\* has followed, by their place in the log.
Unanswered ==
    {i \in DOMAIN log : \A j \in i .. Len(log) : log[j] \in Customers}

\* The places of the log where a member answers a customer.
Turns ==
    {i \in DOMAIN log : i > 1 /\ log[i] \in Members /\ log[i - 1] \in Customers}

Quiet == \A m \in Messages : handler[m].at \in {"unsaved", "find", "done"}

Closed == \A c \in Closers : closing[c].at # "close"

\* While the handlers happen not to overlap, the rows say what the conversation
\* says: the waiting list shows a customer exactly while their last words are
\* unanswered, since the first of them, and there is one sample per turn of the
\* team, the first of each case marked as such.
SerialHandlersKeepTheClock ==
    serial /\ Quiet /\ Closed =>
        /\ (Unanswered = {}) = (\A k \in OpenCases : cases[k].awaiting = Never)
        /\ \A i \in Unanswered : i - 1 \notin Unanswered =>
              \E k \in OpenCases : cases[k].awaiting = saved[log[i]]
        /\ Cardinality(replies) = Cardinality(Turns)
        /\ \A k \in DOMAIN cases :
              (\E r \in replies : r.case = k)
                 => Cardinality({r \in replies : r.case = k /\ r.isFirst}) = 1

\* case.entity.ts:81-82: awaiting_reply_since is NULL "once a member replied",
\* and "drives the live waiting list": with every handler through and none
\* failed, a customer who wrote after every message of the team is waiting.
LastWordsAreWaiting ==
    Quiet /\ fails = 0 /\ closing = [c \in Closers |-> [at |-> "idle", case |-> 0]] =>
        \A m \in Customers :
            /\ handler[m].at = "done"
            /\ \A n \in Members : saved[n] < saved[m]
            => \E k \in OpenCases : cases[k].awaiting # Never
=============================================================================
