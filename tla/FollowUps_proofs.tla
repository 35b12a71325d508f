--------------------------- MODULE FollowUps_proofs ---------------------------
(*****************************************************************************)
(* Proofs about what follows a message of the customer.                      *)
(*                                                                           *)
(* Cases, for any number of messages, closes, seconds and failures: the      *)
(* types, the single open case, that no message of the customer is in two    *)
(* samples, that a first response has its sample, and what the waiting list  *)
(* and the samples say while the handlers happen not to overlap.             *)
(*                                                                           *)
(* Sentiment, for any number of texts, rows, workers, scanners and retries:  *)
(* the types, that an analysis has one runner, and the bound of its calls.   *)
(*                                                                           *)
(* Spend, for any number of requests, messages, months, budgets and prices:  *)
(* the types, what can lose a setting, and that the alerts are given.        *)
(*****************************************************************************)
EXTENDS Cases, Sentiment, Spend, SequenceTheorems, FiniteSetTheorems, TLAPS

Owning(m) == handler[m].at = "reply"

\* A message of the customer is in one place: on no clock and in no sample
\* before its handler is through, then on the clock of one case, in the hands
\* of one reply, or in one sample.
OnePlaceOf(x) ==
    /\ handler[x].at # "done" =>
          /\ \A k \in DOMAIN cases : x \notin cases[k].burst
          /\ \A m \in Messages : Owning(m) => x \notin handler[m].burst
          /\ \A r \in replies : x \notin r.burst
    /\ \A j, k \in DOMAIN cases :
          x \in cases[j].burst /\ x \in cases[k].burst => j = k
    /\ \A m, n \in Messages :
          Owning(m) /\ Owning(n) /\ x \in handler[m].burst /\ x \in handler[n].burst
              => m = n
    /\ \A r, s \in replies : x \in r.burst /\ x \in s.burst => r = s
    /\ \A k \in DOMAIN cases : x \in cases[k].burst =>
          /\ \A m \in Messages : Owning(m) => x \notin handler[m].burst
          /\ \A r \in replies : x \notin r.burst
    /\ \A m \in Messages : Owning(m) /\ x \in handler[m].burst =>
          \A r \in replies : x \notin r.burst

OnePlace == \A x \in Customers : OnePlaceOf(x)

\* A handler that is about to mark a first response has saved its sample.
MarksItsSample ==
    \A m \in Messages : handler[m].at = "first" =>
        \E r \in replies : /\ r.case = handler[m].case
                           /\ r.isFirst
                           /\ r.repliedAt = saved[m]

\* Only members' messages answer.
OnlyMembersAnswer ==
    \A m \in Messages : handler[m].at \in {"answer", "reply", "first"} => m \in Members

\* Only customers' messages open cases and start clocks.
OnlyCustomersOpen ==
    \A m \in Messages : handler[m].at \in {"insert", "refind", "clock"} => m \in Customers

TypeInv == TypeOK /\ OnlyMembersAnswer /\ OnlyCustomersOpen
-----------------------------------------------------------------------------
(* Lemmas about the rows and the handlers *)

LEMMA IdleType ==
    ASSUME NEW at \in Stages
    PROVE  Idle(at) \in Handler
  BY DEF Idle, Handler, Never

LEMMA SetRow ==
    ASSUME cases \in Seq(Case), NEW k \in DOMAIN cases, NEW r \in Case
    PROVE  /\ [cases EXCEPT ![k] = r] \in Seq(Case)
           /\ DOMAIN [cases EXCEPT ![k] = r] = DOMAIN cases
           /\ \A j \in DOMAIN cases :
                 [cases EXCEPT ![k] = r][j] = IF j = k THEN r ELSE cases[j]
<1>1. DOMAIN cases = 1 .. Len(cases)
  BY LenProperties
<1>2. [cases EXCEPT ![k] = r] \in Seq(Case)
  BY <1>1, ExceptSeq
<1> QED
  BY <1>1, <1>2

LEMMA AddRow ==
    ASSUME cases \in Seq(Case), NEW r \in Case
    PROVE  /\ Append(cases, r) \in Seq(Case)
           /\ DOMAIN Append(cases, r) = DOMAIN cases \cup {Len(cases) + 1}
           /\ Len(cases) + 1 \in Nat /\ Len(cases) + 1 \notin DOMAIN cases
           /\ \A j \in DOMAIN cases : Append(cases, r)[j] = cases[j]
           /\ Append(cases, r)[Len(cases) + 1] = r
<1>1. /\ DOMAIN cases = 1 .. Len(cases)
      /\ Len(cases) \in Nat
  BY LenProperties
<1>2. /\ Append(cases, r) \in Seq(Case)
      /\ Len(Append(cases, r)) = Len(cases) + 1
      /\ \A j \in 1 .. Len(cases) : Append(cases, r)[j] = cases[j]
      /\ Append(cases, r)[Len(cases) + 1] = r
  BY AppendProperties
<1>3. DOMAIN Append(cases, r) = 1 .. Len(Append(cases, r))
  BY <1>2, LenProperties
<1> QED
  BY <1>1, <1>2, <1>3

LEMMA SetHandler ==
    ASSUME handler \in [Messages -> Handler], NEW m \in Messages, NEW h \in Handler,
           handler' = [handler EXCEPT ![m] = h]
    PROVE  /\ handler' \in [Messages -> Handler]
           /\ \A n \in Messages : handler'[n] = IF n = m THEN h ELSE handler[n]
  OBVIOUS

\* The open cases, and their rows, are well formed.
LEMMA OpenRow ==
    ASSUME TypeOK, NEW k \in OpenCases
    PROVE  k \in DOMAIN cases /\ k \in Nat /\ cases[k] \in Case
<1>1. DOMAIN cases = 1 .. Len(cases) /\ Len(cases) \in Nat
  BY LenProperties DEF TypeOK
<1> QED
  BY <1>1, ElementOfSeq DEF TypeOK, OpenCases

LEMMA RowType ==
    ASSUME TypeOK, NEW k \in DOMAIN cases
    PROVE  k \in Nat /\ cases[k] \in Case
<1>1. DOMAIN cases = 1 .. Len(cases) /\ Len(cases) \in Nat
  BY LenProperties DEF TypeOK
<1> QED
  BY <1>1, ElementOfSeq DEF TypeOK

\* The observers stay well formed.
LEMMA BeginType ==
    ASSUME TypeOK, NEW x \in Messages \cup Closers, Begin(x)
    PROVE  log' \in Seq(Messages \cup Closers) /\ serial' \in BOOLEAN
<1>1. log' \in Seq(Messages \cup Closers)
  BY AppendProperties DEF TypeOK, Begin
<1>2. serial' \in BOOLEAN
  BY DEF TypeOK, Begin
<1> QED
  BY <1>1, <1>2

\* A step of message m that gives it the handler h and leaves the rows alone.
LEMMA HandlerType ==
    ASSUME TypeInv, NEW m \in Messages, NEW h \in Handler,
           handler' = [handler EXCEPT ![m] = h],
           handler[m].at # "unsaved", h.at # "unsaved",
           h.at \in {"clock", "answer", "reply", "first"} => h.case \in DOMAIN cases,
           h.at \in {"answer", "reply", "first"} => m \in Members,
           h.at \in {"insert", "refind", "clock"} => m \in Customers,
           UNCHANGED <<clock, saved, cases, closing>>,
           replies' \in SUBSET Reply, fails' \in Nat,
           log' \in Seq(Messages \cup Closers), serial' \in BOOLEAN
    PROVE  TypeInv'
<1>1. /\ handler' \in [Messages -> Handler]
      /\ \A n \in Messages : handler'[n] = IF n = m THEN h ELSE handler[n]
  BY SetHandler DEF TypeInv, TypeOK
<1>2. TypeOK'
  BY <1>1 DEF TypeInv, TypeOK
<1> QED
  BY <1>1, <1>2 DEF TypeInv, OnlyMembersAnswer, OnlyCustomersOpen

\* A step of message m that rewrites row k.
LEMMA RowStepType ==
    ASSUME TypeInv, NEW m \in Messages, NEW h \in Handler,
           NEW k \in DOMAIN cases, NEW r \in Case,
           handler' = [handler EXCEPT ![m] = h],
           cases' = [cases EXCEPT ![k] = r],
           handler[m].at # "unsaved", h.at # "unsaved",
           h.at \in {"clock", "answer", "reply", "first"} => h.case \in DOMAIN cases,
           h.at \in {"answer", "reply", "first"} => m \in Members,
           h.at \in {"insert", "refind", "clock"} => m \in Customers,
           UNCHANGED <<clock, saved, closing, replies, fails, log, serial>>
    PROVE  TypeInv'
<1>1. /\ handler' \in [Messages -> Handler]
      /\ \A n \in Messages : handler'[n] = IF n = m THEN h ELSE handler[n]
  BY SetHandler DEF TypeInv, TypeOK
<1>2. cases' \in Seq(Case) /\ DOMAIN cases' = DOMAIN cases
  BY SetRow DEF TypeInv, TypeOK
<1>3. TypeOK'
  BY <1>1, <1>2 DEF TypeInv, TypeOK
<1> QED
  BY <1>1, <1>3 DEF TypeInv, OnlyMembersAnswer, OnlyCustomersOpen
-----------------------------------------------------------------------------
(* The inductive invariant *)

IInv == /\ TypeInv
        /\ OneOpenCase
        /\ OnePlace
        /\ MarksItsSample
        /\ FirstResponseIsAReply

LEMMA InitInv == Init => IInv
<1> SUFFICES ASSUME Init PROVE IInv
  OBVIOUS
<1>1. \A m \in Messages : handler[m] = Idle("unsaved") /\ saved[m] = Never
  BY DEF Init
<1>2. cases = <<>> /\ DOMAIN cases = {} /\ replies = {} /\ log = <<>>
  BY DEF Init
<1>3. cases \in Seq(Case) /\ log \in Seq(Messages \cup Closers)
  BY <1>2
<1>4. handler \in [Messages -> Handler]
  BY IdleType DEF Init, Stages
<1>5. TypeOK
  BY <1>1, <1>2, <1>3, <1>4 DEF Init, TypeOK, Idle, Never
<1>6. OnlyMembersAnswer /\ OnlyCustomersOpen /\ MarksItsSample
  BY <1>1 DEF OnlyMembersAnswer, OnlyCustomersOpen, MarksItsSample, Idle
<1>7. OneOpenCase /\ FirstResponseIsAReply
  BY <1>2 DEF OneOpenCase, FirstResponseIsAReply
<1>8. OnePlace
  BY <1>1, <1>2 DEF OnePlace, OnePlaceOf, Owning, Idle
<1> QED
  BY <1>5, <1>6, <1>7, <1>8 DEF IInv, TypeInv

\* Nothing but the clock, the observers or a close's id changes.
LEMMA ElsewhereInv ==
    ASSUME IInv, TypeInv', UNCHANGED <<saved, cases, replies, handler>>
    PROVE  IInv'
  BY DEF IInv, OneOpenCase, OnePlace, OnePlaceOf, Owning, MarksItsSample, FirstResponseIsAReply

\* A handler moves on, or ends, without a row.
LEMMA HandlerInv ==
    ASSUME IInv, TypeInv', NEW m \in Messages, NEW h \in Handler,
           handler' = [handler EXCEPT ![m] = h],
           handler[m].at # "done", h.at \notin {"reply", "first"},
           UNCHANGED <<saved, cases, replies>>
    PROVE  IInv'
<1>1. \A n \in Messages : handler'[n] = IF n = m THEN h ELSE handler[n]
  BY SetHandler DEF IInv, TypeInv, TypeOK
<1>2. OneOpenCase' /\ FirstResponseIsAReply'
  BY DEF IInv, OneOpenCase, FirstResponseIsAReply
<1>3. MarksItsSample'
  BY <1>1 DEF IInv, MarksItsSample
<1>4. OnePlace'
  BY <1>1 DEF IInv, OnePlace, OnePlaceOf, Owning, Messages
<1> QED
  BY <1>2, <1>3, <1>4 DEF IInv

LEMMA SaveInv ==
    ASSUME IInv, NEW m \in Messages, Save(m)
    PROVE  IInv'
<1>1. /\ handler' \in [Messages -> Handler]
      /\ \A n \in Messages : handler'[n] = IF n = m THEN Idle("find") ELSE handler[n]
  BY IdleType, SetHandler DEF IInv, TypeInv, TypeOK, Save, Stages
<1>2. \A n \in Messages : saved'[n] = IF n = m THEN clock ELSE saved[n]
  BY DEF IInv, TypeInv, TypeOK, Save
<1>3. TypeInv'
  <2>1. saved' \in [Messages -> Nat]
    BY DEF IInv, TypeInv, TypeOK, Save
  <2>2. \A n \in Messages : handler'[n].at # "unsaved" => saved'[n] # Never
    BY <1>1, <1>2 DEF IInv, TypeInv, TypeOK, Idle
  <2>3. TypeOK'
    BY <1>1, <2>1, <2>2 DEF IInv, TypeInv, TypeOK, Save, Idle
  <2> QED
    BY <1>1, <2>3 DEF IInv, TypeInv, OnlyMembersAnswer, OnlyCustomersOpen, Idle
<1>4. OneOpenCase' /\ FirstResponseIsAReply'
  BY DEF IInv, OneOpenCase, FirstResponseIsAReply, Save
<1>5. MarksItsSample'
  BY <1>1, <1>2 DEF IInv, MarksItsSample, Save, Idle
<1>6. OnePlace'
  BY <1>1 DEF IInv, OnePlace, OnePlaceOf, Owning, Messages, Save, Idle
<1> QED
  BY <1>3, <1>4, <1>5, <1>6 DEF IInv
-----------------------------------------------------------------------------
(* The steps of the inbound handler *)

LEMMA FindOpenInv ==
    ASSUME IInv, NEW m \in Messages, FindOpen(m)
    PROVE  IInv'
<1>1. PICK h \in Handler :
          /\ handler' = [handler EXCEPT ![m] = h]
          /\ h.at \in {"insert", "clock"}
          /\ h.at = "clock" => h.case \in DOMAIN cases
  <2>1. CASE /\ OpenCases = {}
             /\ handler' = [handler EXCEPT ![m] = Idle("insert")]
    BY <2>1, IdleType DEF Stages, Idle
  <2>2. CASE \E k \in OpenCases :
                handler' = [handler EXCEPT ![m] = [Idle("clock") EXCEPT !.case = k]]
    <3>1. PICK k \in OpenCases :
              handler' = [handler EXCEPT ![m] = [Idle("clock") EXCEPT !.case = k]]
      BY <2>2
    <3>2. k \in DOMAIN cases /\ k \in Nat
      BY OpenRow DEF IInv, TypeInv
    <3>3. [Idle("clock") EXCEPT !.case = k] \in Handler
      BY <3>2 DEF Idle, Handler, Stages, Never
    <3> QED
      BY <3>1, <3>2, <3>3 DEF Idle
  <2> QED
    BY <2>1, <2>2 DEF FindOpen
<1>2. /\ m \in Customers
      /\ handler[m].at = "find"
      /\ UNCHANGED <<clock, saved, cases, replies, closing, fails>>
  BY DEF FindOpen
<1>3. log' \in Seq(Messages \cup Closers) /\ serial' \in BOOLEAN
  BY BeginType DEF FindOpen, IInv, TypeInv
<1>4. TypeInv'
  BY <1>1, <1>2, <1>3, HandlerType DEF IInv, TypeInv, TypeOK
<1> QED
  BY <1>1, <1>2, <1>4, HandlerInv

\* The insert that meets no open case adds one, with an empty burst.
LEMMA OpenInv ==
    ASSUME IInv, NEW m \in Messages, Open(m)
    PROVE  IInv'
<1>0. /\ handler[m].at = "insert"
      /\ UNCHANGED <<clock, saved, replies, closing, fails, log, serial>>
  BY DEF Open
<1>1. CASE OpenCases = {}
  <2> DEFINE h == [Idle("clock") EXCEPT !.case = Len(cases) + 1]
  <2>1. NewCase(m) \in Case
    BY DEF NewCase, Case, Never, IInv, TypeInv, TypeOK
  <2>2. /\ cases' = Append(cases, NewCase(m))
        /\ handler' = [handler EXCEPT ![m] = h]
    BY <1>1 DEF Open
  <2>3. /\ cases' \in Seq(Case)
        /\ DOMAIN cases' = DOMAIN cases \cup {Len(cases) + 1}
        /\ Len(cases) + 1 \in Nat /\ Len(cases) + 1 \notin DOMAIN cases
        /\ \A j \in DOMAIN cases : cases'[j] = cases[j]
        /\ cases'[Len(cases) + 1] = NewCase(m)
    BY <2>1, <2>2, AddRow DEF IInv, TypeInv, TypeOK
  <2>4. h \in Handler /\ h.at = "clock" /\ h.case = Len(cases) + 1
    BY <2>3 DEF Idle, Handler, Stages, Never
  <2> HIDE DEF h
  <2>5. /\ handler' \in [Messages -> Handler]
        /\ \A n \in Messages : handler'[n] = IF n = m THEN h ELSE handler[n]
    BY <2>2, <2>4, SetHandler DEF IInv, TypeInv, TypeOK
  <2>6. TypeInv'
    <3>1. TypeOK'
      BY <1>0, <2>3, <2>4, <2>5 DEF IInv, TypeInv, TypeOK
    <3> QED
      BY <1>0, <2>4, <2>5, <3>1 DEF IInv, TypeInv, OnlyMembersAnswer, OnlyCustomersOpen
  <2>7. OneOpenCase'
    BY <1>1, <2>3 DEF OpenCases, OneOpenCase
  <2>8. FirstResponseIsAReply'
    BY <1>0, <2>3 DEF IInv, FirstResponseIsAReply, NewCase
  <2>9. MarksItsSample'
    BY <1>0, <2>4, <2>5 DEF IInv, MarksItsSample
  <2>10. OnePlace'
    BY <1>0, <2>3, <2>4, <2>5 DEF IInv, OnePlace, OnePlaceOf, Owning, Messages, NewCase
  <2> QED
    BY <2>6, <2>7, <2>8, <2>9, <2>10 DEF IInv
<1>2. CASE OpenCases # {}
  <2>1. handler' = [handler EXCEPT ![m] = Idle("refind")] /\ cases' = cases
    BY <1>2 DEF Open
  <2>2. Idle("refind") \in Handler /\ Idle("refind").at = "refind"
    BY IdleType DEF Stages, Idle
  <2>3. TypeInv'
    BY <1>0, <2>1, <2>2, HandlerType DEF IInv, TypeInv, TypeOK, OnlyCustomersOpen
  <2> QED
    BY <1>0, <2>1, <2>2, <2>3, HandlerInv
<1> QED
  BY <1>1, <1>2

LEMMA RefindInv ==
    ASSUME IInv, NEW m \in Messages, Refind(m)
    PROVE  IInv'
<1>1. PICK h \in Handler :
          /\ handler' = [handler EXCEPT ![m] = h]
          /\ h.at \in {"clock", "done"}
          /\ h.at = "clock" => h.case \in DOMAIN cases
  <2>1. CASE /\ OpenCases = {}
             /\ handler' = [handler EXCEPT ![m] = Idle("done")]
    BY <2>1, IdleType DEF Stages, Idle
  <2>2. CASE \E k \in OpenCases :
                handler' = [handler EXCEPT ![m] = [Idle("clock") EXCEPT !.case = k]]
    <3>1. PICK k \in OpenCases :
              handler' = [handler EXCEPT ![m] = [Idle("clock") EXCEPT !.case = k]]
      BY <2>2
    <3>2. k \in DOMAIN cases /\ k \in Nat
      BY OpenRow DEF IInv, TypeInv
    <3>3. [Idle("clock") EXCEPT !.case = k] \in Handler
      BY <3>2 DEF Idle, Handler, Stages, Never
    <3> QED
      BY <3>1, <3>2, <3>3 DEF Idle
  <2> QED
    BY <2>1, <2>2 DEF Refind
<1>2. /\ handler[m].at = "refind"
      /\ UNCHANGED <<clock, saved, cases, replies, closing, fails, log, serial>>
  BY DEF Refind
<1>3. TypeInv'
  BY <1>1, <1>2, HandlerType DEF IInv, TypeInv, TypeOK, OnlyCustomersOpen
<1> QED
  BY <1>1, <1>2, <1>3, HandlerInv

\* The message joins the burst of its case: until now it was nowhere.
LEMMA StartClockInv ==
    ASSUME IInv, NEW m \in Messages, StartClock(m)
    PROVE  IInv'
<1>1. /\ handler[m].at = "clock" /\ m \in Customers
      /\ UNCHANGED <<clock, saved, replies, closing, fails, log, serial>>
  BY DEF StartClock, IInv, TypeInv, OnlyCustomersOpen
<1>2. PICK k \in DOMAIN cases : k = handler[m].case
  BY <1>1 DEF IInv, TypeInv, TypeOK
<1>3. cases[k] \in Case
  BY RowType DEF IInv, TypeInv
<1>4. PICK r : r = [cases[k] EXCEPT
                !.awaiting = IF cases[k].awaiting = Never THEN saved[m]
                             ELSE cases[k].awaiting,
                !.burst = cases[k].burst \cup {m}]
  OBVIOUS
<1>5. /\ r \in Case /\ r.open = cases[k].open /\ r.first = cases[k].first
      /\ r.burst = cases[k].burst \cup {m}
  <2>1. saved[m] \in Nat
    BY DEF IInv, TypeInv, TypeOK
  <2> QED
    BY <1>1, <1>3, <1>4, <2>1 DEF Case
<1>6. /\ cases' = [cases EXCEPT ![k] = r]
      /\ handler' = [handler EXCEPT ![m] = Idle("done")]
  BY <1>2, <1>4 DEF StartClock
<1>7. Idle("done") \in Handler /\ Idle("done").at = "done"
  BY IdleType DEF Stages, Idle
<1>8. TypeInv'
  BY <1>1, <1>5, <1>6, <1>7, RowStepType DEF IInv
<1>9. /\ DOMAIN cases' = DOMAIN cases
      /\ \A j \in DOMAIN cases : cases'[j] = IF j = k THEN r ELSE cases[j]
  BY <1>5, <1>6, SetRow DEF IInv, TypeInv, TypeOK
<1>10. \A n \in Messages : handler'[n] = IF n = m THEN Idle("done") ELSE handler[n]
  BY <1>6, <1>7, SetHandler DEF IInv, TypeInv, TypeOK
<1>11. OneOpenCase' /\ FirstResponseIsAReply'
  BY <1>1, <1>5, <1>9 DEF IInv, OneOpenCase, FirstResponseIsAReply
<1>12. MarksItsSample'
  BY <1>1, <1>7, <1>10 DEF IInv, MarksItsSample
<1>13. OnePlace'
  BY <1>1, <1>5, <1>7, <1>9, <1>10 DEF IInv, OnePlace, OnePlaceOf, Owning, Messages
<1> QED
  BY <1>8, <1>11, <1>12, <1>13 DEF IInv
-----------------------------------------------------------------------------
(* The steps of the outbound handler *)

LEMMA FindBurstInv ==
    ASSUME IInv, NEW m \in Messages, FindBurst(m)
    PROVE  IInv'
<1>1. PICK h \in Handler :
          /\ handler' = [handler EXCEPT ![m] = h]
          /\ h.at \in {"done", "answer"}
          /\ h.at = "answer" => h.case \in DOMAIN cases
  <2>1. CASE /\ \A k \in OpenCases : cases[k].awaiting = Never
             /\ handler' = [handler EXCEPT ![m] = Idle("done")]
    BY <2>1, IdleType DEF Stages, Idle
  <2>2. CASE \E k \in OpenCases :
                /\ cases[k].awaiting # Never
                /\ handler' = [handler EXCEPT ![m] =
                      [Idle("answer") EXCEPT !.case = k,
                                             !.awaited = cases[k].awaiting,
                                             !.first = cases[k].first,
                                             !.burst = cases[k].burst]]
    <3>1. PICK k \in OpenCases :
              handler' = [handler EXCEPT ![m] =
                  [Idle("answer") EXCEPT !.case = k,
                                         !.awaited = cases[k].awaiting,
                                         !.first = cases[k].first,
                                         !.burst = cases[k].burst]]
      BY <2>2
    <3>2. k \in DOMAIN cases /\ k \in Nat /\ cases[k] \in Case
      BY OpenRow DEF IInv, TypeInv
    <3>3. [Idle("answer") EXCEPT !.case = k, !.awaited = cases[k].awaiting,
                                 !.first = cases[k].first,
                                 !.burst = cases[k].burst] \in Handler
      BY <3>2 DEF Idle, Handler, Stages, Case
    <3> QED
      BY <3>1, <3>2, <3>3 DEF Idle
  <2> QED
    BY <2>1, <2>2 DEF FindBurst
<1>2. /\ m \in Members
      /\ handler[m].at = "find"
      /\ UNCHANGED <<clock, saved, cases, replies, closing, fails>>
  BY DEF FindBurst
<1>3. log' \in Seq(Messages \cup Closers) /\ serial' \in BOOLEAN
  BY BeginType DEF FindBurst, IInv, TypeInv
<1>4. TypeInv'
  BY <1>1, <1>2, <1>3, HandlerType DEF IInv, TypeInv, TypeOK
<1> QED
  BY <1>1, <1>2, <1>4, HandlerInv

\* The whole burst passes from the clock of its case to the handler.
LEMMA AnswerInv ==
    ASSUME IInv, NEW m \in Messages, Answer(m)
    PROVE  IInv'
<1>1. /\ handler[m].at = "answer" /\ m \in Members
      /\ UNCHANGED <<clock, saved, replies, closing, fails, log, serial>>
  BY DEF Answer, IInv, TypeInv, OnlyMembersAnswer
<1>2. PICK k \in DOMAIN cases : k = handler[m].case
  BY <1>1 DEF IInv, TypeInv, TypeOK
<1>3. cases[k] \in Case /\ handler[m] \in Handler
  BY RowType DEF IInv, TypeInv, TypeOK
<1>4. CASE cases[k].awaiting = handler[m].awaited
  <2>1. PICK r : r = [cases[k] EXCEPT !.awaiting = Never, !.burst = {}]
    OBVIOUS
  <2>2. PICK h : h = [handler[m] EXCEPT !.at = "reply", !.burst = cases[k].burst]
    OBVIOUS
  <2>3. /\ r \in Case /\ r.open = cases[k].open /\ r.first = cases[k].first
        /\ r.burst = {}
    BY <1>3, <2>1 DEF Case, Never
  <2>4. /\ h \in Handler /\ h.at = "reply" /\ h.case = k
        /\ h.burst = cases[k].burst
    BY <1>2, <1>3, <2>2 DEF Handler, Stages, Case
  <2>5. /\ cases' = [cases EXCEPT ![k] = r]
        /\ handler' = [handler EXCEPT ![m] = h]
    BY <1>2, <1>4, <2>1, <2>2 DEF Answer, Take
  <2>6. TypeInv'
    BY <1>1, <2>3, <2>4, <2>5, RowStepType DEF IInv
  <2>7. /\ DOMAIN cases' = DOMAIN cases
        /\ \A j \in DOMAIN cases : cases'[j] = IF j = k THEN r ELSE cases[j]
    BY <2>3, <2>5, SetRow DEF IInv, TypeInv, TypeOK
  <2>8. \A n \in Messages : handler'[n] = IF n = m THEN h ELSE handler[n]
    BY <2>4, <2>5, SetHandler DEF IInv, TypeInv, TypeOK
  <2>9. OneOpenCase' /\ FirstResponseIsAReply'
    BY <1>1, <2>3, <2>7 DEF IInv, OneOpenCase, FirstResponseIsAReply
  <2>10. MarksItsSample'
    BY <1>1, <2>4, <2>8 DEF IInv, MarksItsSample
  <2>11. OnePlace'
    <3> SUFFICES ASSUME NEW x \in Customers
                 PROVE  OnePlaceOf(x)'
      BY DEF OnePlace
    <3> QED
      BY <1>1, <2>3, <2>4, <2>7, <2>8 DEF IInv, OnePlace, OnePlaceOf, Owning, Messages
  <2> QED
    BY <2>6, <2>9, <2>10, <2>11 DEF IInv
<1>5. CASE cases[k].awaiting # handler[m].awaited
  <2>1. handler' = [handler EXCEPT ![m] = Idle("done")] /\ cases' = cases
    BY <1>2, <1>5 DEF Answer
  <2>2. Idle("done") \in Handler /\ Idle("done").at = "done"
    BY IdleType DEF Stages, Idle
  <2>3. TypeInv'
    BY <1>1, <2>1, <2>2, HandlerType DEF IInv, TypeInv, TypeOK
  <2> QED
    BY <1>1, <2>1, <2>2, <2>3, HandlerInv
<1> QED
  BY <1>4, <1>5

\* The burst passes from the handler to its sample.
LEMMA SaveReplyInv ==
    ASSUME IInv, NEW m \in Messages, SaveReply(m)
    PROVE  IInv'
<1>1. /\ handler[m].at = "reply" /\ m \in Members
      /\ UNCHANGED <<clock, saved, cases, closing, fails, log, serial>>
  BY DEF SaveReply, IInv, TypeInv, OnlyMembersAnswer
<1>2. handler[m] \in Handler /\ handler[m].case \in DOMAIN cases /\ saved[m] \in Nat
  BY <1>1 DEF IInv, TypeInv, TypeOK
<1>3. PICK r : r = [case |-> handler[m].case, by |-> m,
                    awaitedFrom |-> handler[m].awaited, repliedAt |-> saved[m],
                    isFirst |-> (handler[m].first = Never),
                    burst |-> handler[m].burst]
  OBVIOUS
<1>4. /\ r \in Reply /\ r.case = handler[m].case /\ r.repliedAt = saved[m]
      /\ r.isFirst = (handler[m].first = Never) /\ r.burst = handler[m].burst
  BY <1>1, <1>2, <1>3 DEF Reply, Handler
<1>5. replies' = replies \cup {r}
  BY <1>3 DEF SaveReply
<1>6. PICK h \in Handler :
          /\ handler' = [handler EXCEPT ![m] = h]
          /\ h.at \in {"first", "done"}
          /\ h.at = "first" => h.case = handler[m].case /\ r.isFirst
  <2>1. CASE handler[m].first = Never
    <3>1. PICK h : h = [handler[m] EXCEPT !.at = "first", !.burst = {}]
      OBVIOUS
    <3>2. h \in Handler /\ h.at = "first" /\ h.case = handler[m].case
      BY <1>2, <3>1 DEF Handler, Stages
    <3>3. handler' = [handler EXCEPT ![m] = h]
      BY <2>1, <3>1 DEF SaveReply
    <3> QED
      BY <1>4, <2>1, <3>2, <3>3
  <2>2. CASE handler[m].first # Never
    BY <2>2, IdleType DEF SaveReply, Stages, Idle
  <2> QED
    BY <2>1, <2>2
<1>7. TypeInv'
  BY <1>1, <1>2, <1>4, <1>5, <1>6, HandlerType DEF IInv, TypeInv, TypeOK
<1>8. \A n \in Messages : handler'[n] = IF n = m THEN h ELSE handler[n]
  BY <1>6, SetHandler DEF IInv, TypeInv, TypeOK
<1>9. OneOpenCase' /\ FirstResponseIsAReply'
  BY <1>1, <1>5 DEF IInv, OneOpenCase, FirstResponseIsAReply
<1>10. MarksItsSample'
  BY <1>1, <1>4, <1>5, <1>6, <1>8 DEF IInv, MarksItsSample
<1>11. OnePlace'
  <2> SUFFICES ASSUME NEW x \in Customers
               PROVE  OnePlaceOf(x)'
    BY DEF OnePlace
  <2> QED
    BY <1>1, <1>4, <1>5, <1>6, <1>8 DEF IInv, OnePlace, OnePlaceOf, Owning, Messages
<1> QED
  BY <1>7, <1>9, <1>10, <1>11 DEF IInv

LEMMA MarkFirstInv ==
    ASSUME IInv, NEW m \in Messages, MarkFirst(m)
    PROVE  IInv'
<1>1. /\ handler[m].at = "first"
      /\ handler' = [handler EXCEPT ![m] = Idle("done")]
      /\ UNCHANGED <<clock, saved, replies, closing, fails, log, serial>>
  BY DEF MarkFirst
<1>2. PICK k \in DOMAIN cases : k = handler[m].case
  BY <1>1 DEF IInv, TypeInv, TypeOK
<1>3. cases[k] \in Case /\ saved[m] \in Nat
  BY RowType DEF IInv, TypeInv, TypeOK
<1>4. Idle("done") \in Handler /\ Idle("done").at = "done"
  BY IdleType DEF Stages, Idle
<1>5. CASE cases[k].first = Never
  <2>1. PICK r : r = [cases[k] EXCEPT !.first = saved[m]]
    OBVIOUS
  <2>2. /\ r \in Case /\ r.open = cases[k].open /\ r.first = saved[m]
        /\ r.burst = cases[k].burst
    BY <1>3, <2>1 DEF Case
  <2>3. cases' = [cases EXCEPT ![k] = r]
    BY <1>2, <1>5, <2>1 DEF MarkFirst
  <2>4. TypeInv'
    BY <1>1, <1>4, <2>2, <2>3, RowStepType DEF IInv
  <2>5. /\ DOMAIN cases' = DOMAIN cases
        /\ \A j \in DOMAIN cases : cases'[j] = IF j = k THEN r ELSE cases[j]
    BY <2>2, <2>3, SetRow DEF IInv, TypeInv, TypeOK
  <2>6. \A n \in Messages : handler'[n] = IF n = m THEN Idle("done") ELSE handler[n]
    BY <1>1, <1>4, SetHandler DEF IInv, TypeInv, TypeOK
  <2>7. OneOpenCase'
    BY <2>2, <2>5 DEF IInv, OneOpenCase
  <2>8. FirstResponseIsAReply'
    BY <1>1, <1>2, <2>2, <2>5 DEF IInv, FirstResponseIsAReply, MarksItsSample
  <2>9. MarksItsSample'
    BY <1>1, <1>4, <2>6 DEF IInv, MarksItsSample
  <2>10. OnePlace'
    BY <1>1, <1>4, <2>2, <2>5, <2>6 DEF IInv, OnePlace, OnePlaceOf, Owning, Messages
  <2> QED
    BY <2>4, <2>7, <2>8, <2>9, <2>10 DEF IInv
<1>6. CASE cases[k].first # Never
  <2>1. cases' = cases
    BY <1>2, <1>6 DEF MarkFirst
  <2>2. TypeInv'
    BY <1>1, <1>4, <2>1, HandlerType DEF IInv, TypeInv, TypeOK
  <2> QED
    BY <1>1, <1>4, <2>1, <2>2, HandlerInv
<1> QED
  BY <1>5, <1>6
-----------------------------------------------------------------------------
(* Failures and closes *)

LEMMA FailInv ==
    ASSUME IInv, NEW m \in Messages, Fail(m)
    PROVE  IInv'
<1>1. /\ handler[m].at \notin {"unsaved", "done"}
      /\ handler' = [handler EXCEPT ![m] = Idle("done")]
      /\ UNCHANGED <<clock, saved, cases, replies, closing>>
  BY DEF Fail
<1>2. Idle("done") \in Handler /\ Idle("done").at = "done"
  BY IdleType DEF Stages, Idle
<1>3. /\ replies' \in SUBSET Reply /\ fails' \in Nat
      /\ log' \in Seq(Messages \cup Closers) /\ serial' \in BOOLEAN
  <2>1. UNCHANGED <<replies, log>> /\ fails' = fails + 1 /\ serial' = FALSE
    BY DEF Fail
  <2>2. /\ replies \in SUBSET Reply /\ fails \in Nat
        /\ log \in Seq(Messages \cup Closers)
    BY DEF IInv, TypeInv, TypeOK
  <2>3. fails + 1 \in Nat
    BY <2>2
  <2> QED
    BY <2>1, <2>2, <2>3
<1>4. TypeInv'
  BY <1>1, <1>2, <1>3, HandlerType DEF IInv
<1> QED
  BY <1>1, <1>2, <1>4, HandlerInv

LEMMA FindToCloseInv ==
    ASSUME IInv, NEW c \in Closers, FindToClose(c)
    PROVE  IInv'
<1>1. PICK k \in OpenCases : closing' = [closing EXCEPT ![c] = [at |-> "close", case |-> k]]
  BY DEF FindToClose
<1>2. k \in DOMAIN cases /\ k \in Nat
  BY OpenRow DEF IInv, TypeInv
<1>3. UNCHANGED <<clock, saved, cases, replies, handler, fails>>
  BY DEF FindToClose
<1>4. log' \in Seq(Messages \cup Closers) /\ serial' \in BOOLEAN
  BY BeginType DEF FindToClose, IInv, TypeInv
<1>5. /\ closing' \in [Closers -> [at: {"idle", "close", "done"}, case: Nat]]
      /\ \A d \in Closers : closing'[d].at = "close" => closing'[d].case \in DOMAIN cases
  BY <1>1, <1>2 DEF IInv, TypeInv, TypeOK
<1>6. TypeInv'
  BY <1>3, <1>4, <1>5 DEF IInv, TypeInv, TypeOK, OnlyMembersAnswer, OnlyCustomersOpen
<1> QED
  BY <1>3, <1>6, ElsewhereInv

\* A close drops the burst of its case.
LEMMA CloseInv ==
    ASSUME IInv, NEW c \in Closers, Close(c)
    PROVE  IInv'
<1>1. /\ closing[c].at = "close"
      /\ closing' = [closing EXCEPT ![c] = [at |-> "done", case |-> 0]]
      /\ UNCHANGED <<clock, saved, replies, handler, fails, log, serial>>
  BY DEF Close
<1>2. PICK k \in DOMAIN cases : k = closing[c].case
  BY <1>1 DEF IInv, TypeInv, TypeOK
<1>3. cases[k] \in Case
  BY RowType DEF IInv, TypeInv
<1>4. /\ closing' \in [Closers -> [at: {"idle", "close", "done"}, case: Nat]]
      /\ \A d \in Closers : closing'[d].at = "close" => closing'[d].case \in DOMAIN cases
  BY <1>1 DEF IInv, TypeInv, TypeOK
<1>5. CASE cases[k].open
  <2>1. PICK r : r = [cases[k] EXCEPT !.open = FALSE, !.burst = {}, !.awaiting = Never]
    OBVIOUS
  <2>2. r \in Case /\ r.open = FALSE /\ r.first = cases[k].first /\ r.burst = {}
    BY <1>3, <2>1 DEF Case, Never
  <2>3. cases' = [cases EXCEPT ![k] = r]
    BY <1>2, <1>5, <2>1 DEF Close
  <2>4. /\ cases' \in Seq(Case) /\ DOMAIN cases' = DOMAIN cases
        /\ \A j \in DOMAIN cases : cases'[j] = IF j = k THEN r ELSE cases[j]
    BY <2>2, <2>3, SetRow DEF IInv, TypeInv, TypeOK
  <2>5. TypeInv'
    BY <1>1, <1>4, <2>4 DEF IInv, TypeInv, TypeOK, OnlyMembersAnswer, OnlyCustomersOpen
  <2>6. OneOpenCase' /\ FirstResponseIsAReply' /\ MarksItsSample'
    BY <1>1, <2>2, <2>4 DEF IInv, OneOpenCase, FirstResponseIsAReply, MarksItsSample
  <2>7. OnePlace'
    BY <1>1, <2>2, <2>4 DEF IInv, OnePlace, OnePlaceOf, Owning
  <2> QED
    BY <2>5, <2>6, <2>7 DEF IInv
<1>6. CASE ~cases[k].open
  <2>1. cases' = cases
    BY <1>2, <1>6 DEF Close
  <2>2. TypeInv'
    BY <1>1, <1>4, <2>1 DEF IInv, TypeInv, TypeOK, OnlyMembersAnswer, OnlyCustomersOpen
  <2> QED
    BY <1>1, <2>1, <2>2, ElsewhereInv
<1> QED
  BY <1>5, <1>6
-----------------------------------------------------------------------------
LEMMA StepInv == IInv /\ [Next]_vars => IInv'
<1> SUFFICES ASSUME IInv, [Next]_vars PROVE IInv'
  OBVIOUS
<1>1. CASE Tick
  <2>1. TypeInv'
    BY <1>1 DEF Tick, Never, IInv, TypeInv, TypeOK, OnlyMembersAnswer, OnlyCustomersOpen
  <2> QED
    BY <1>1, <2>1, ElsewhereInv DEF Tick
<1>2. CASE \E m \in Messages : Save(m) \/ Inbound(m) \/ Outbound(m) \/ Fail(m)
  <2> PICK m \in Messages : Save(m) \/ Inbound(m) \/ Outbound(m) \/ Fail(m)
    BY <1>2
  <2>1. CASE Save(m)
    BY <2>1, SaveInv
  <2>2. CASE Inbound(m)
    BY <2>2, FindOpenInv, OpenInv, RefindInv, StartClockInv DEF Inbound
  <2>3. CASE Outbound(m)
    BY <2>3, FindBurstInv, AnswerInv, SaveReplyInv, MarkFirstInv DEF Outbound
  <2>4. CASE Fail(m)
    BY <2>4, FailInv
  <2> QED
    BY <2>1, <2>2, <2>3, <2>4
<1>3. CASE \E c \in Closers : FindToClose(c) \/ Close(c)
  BY <1>3, FindToCloseInv, CloseInv
<1>4. CASE UNCHANGED vars
  <2>1. TypeInv'
    BY <1>4 DEF vars, IInv, TypeInv, TypeOK, OnlyMembersAnswer, OnlyCustomersOpen
  <2> QED
    BY <1>4, <2>1, ElsewhereInv DEF vars
<1> QED
  BY <1>1, <1>2, <1>3, <1>4 DEF Next

LEMMA InvHolds == Spec => []IInv
  BY InitInv, StepInv, PTL DEF Spec

\* Every reachable row and handler is well formed, and no handler, nor a close,
\* holds the id of a row that does not exist (cases.service.ts:43-190).
THEOREM TypeCorrect == Spec => []TypeOK
<1>1. IInv => TypeOK
  BY DEF IInv, TypeInv
<1> QED
  BY <1>1, InvHolds, PTL

\* The unique open_key leaves a conversation one open case, whatever the number
\* of concurrent messages and closes (case.entity.ts:25-27).
THEOREM OpenCaseIsUnique == Spec => []OneOpenCase
<1>1. IInv => OneOpenCase
  BY DEF IInv
<1> QED
  BY <1>1, InvHolds, PTL

\* The conditional UPDATE hands a burst to one reply: no message of the
\* customer is in two samples (cases.service.ts:87-92).
THEOREM NoBurstTwice == Spec => []BurstsAnsweredOnce
<1>1. IInv => BurstsAnsweredOnce
  <2> SUFFICES ASSUME IInv, NEW r \in replies, NEW s \in replies, r # s,
                      NEW x \in r.burst, x \in s.burst
               PROVE  FALSE
    BY DEF BurstsAnsweredOnce
  <2>1. r \in Reply
    BY DEF IInv, TypeInv, TypeOK
  <2>2. x \in Customers
    BY <2>1 DEF Reply
  <2> QED
    BY <2>2 DEF IInv, OnePlace, OnePlaceOf
<1> QED
  BY <1>1, InvHolds, PTL

\* The sample is saved before the first response is marked: a case with a first
\* response has the sample it came from, whatever fails (cases.service.ts:94-114).
THEOREM FirstResponseSampled == Spec => []FirstResponseIsAReply
<1>1. IInv => FirstResponseIsAReply
  BY DEF IInv
<1> QED
  BY <1>1, InvHolds, PTL
-----------------------------------------------------------------------------
(* The rows and the conversation *)

\* What the first n of a talk leave unanswered, and where they were answered.
UnansweredIn(talk, n) == {i \in 1..n : \A j \in i..n : talk[j] \in Customers}
TurnsIn(talk, n) == {i \in 1..n : i > 1 /\ talk[i] \in Members /\ talk[i - 1] \in Customers}

\* Who has done nothing yet of what beginning promised.
Undecided == {m \in Messages : handler[m].at \in {"insert", "refind", "clock", "answer"}}
                 \cup {c \in Closers : closing[c].at = "close"}
Unsampled == {m \in Messages : handler[m].at \in {"answer", "reply"}}

Told    == IF Undecided = {} THEN Len(log) ELSE Len(log) - 1
Sampled == IF Unsampled = {} THEN Len(log) ELSE Len(log) - 1

\* The clock of the open case runs from the first message left unanswered.
ClockTells(n) ==
    /\ (UnansweredIn(log, n) = {}) = (\A k \in OpenCases : cases[k].awaiting = Never)
    /\ \A i \in UnansweredIn(log, n) : i - 1 \notin UnansweredIn(log, n) =>
          \E k \in OpenCases : cases[k].awaiting = saved[log[i]]

Replied(k) == \E r \in replies : r.case = k
Firsts(k) == {r \in replies : r.case = k /\ r.isFirst}

\* A case with replies has one that is marked as the first, and its handler is
\* on the way to the case as long as the case does not have its time.
FirstsAgree ==
    \A k \in DOMAIN cases :
        /\ Replied(k) => \E r \in replies : Firsts(k) = {r}
        /\ cases[k].first # Never => Replied(k)
        /\ Replied(k) /\ cases[k].first = Never =>
              \E m \in Messages : handler[m].at = "first" /\ handler[m].case = k

\* What the handler that runs holds is what the rows still say.
UpToDateOf(m) ==
    /\ handler[m].at = "insert" => OpenCases = {}
    /\ handler[m].at # "refind"
    /\ handler[m].at = "clock" => handler[m].case \in OpenCases
    /\ handler[m].at = "answer" =>
          /\ handler[m].case \in OpenCases
          /\ handler[m].awaited # Never
          /\ cases[handler[m].case].awaiting = handler[m].awaited
    /\ handler[m].at \in {"answer", "reply"} =>
          /\ handler[m].first = cases[handler[m].case].first
          /\ Len(log) > 1 /\ log[Len(log) - 1] \in Customers
    /\ handler[m].at = "first" => cases[handler[m].case].first = Never

UpToDate ==
    /\ \A m \in Messages : UpToDateOf(m)
    /\ \A c \in Closers : closing[c].at = "close" => closing[c].case \in OpenCases

OneAtATime ==
    \A x \in Running : log # <<>> /\ x = log[Len(log)]

SerialTalk ==
    /\ OneAtATime /\ UpToDate /\ FirstsAgree
    /\ \A n \in 0..Len(log) : n = Told => ClockTells(n)
    /\ \A n \in 0..Len(log) : n = Sampled => Cardinality(replies) = Cardinality(TurnsIn(log, n))

\* The log has who has begun, the replies whose handlers have made them.
OnRecord ==
    /\ \A i \in DOMAIN log : log[i] \in Messages =>
          handler[log[i]].at \notin {"unsaved", "find"}
    /\ IsFiniteSet(replies)
    /\ \A r \in replies : /\ handler[r.by].at \in {"first", "done"}
                          /\ r.case \in DOMAIN cases

SerialInv == OnRecord /\ (serial => SerialTalk)
-----------------------------------------------------------------------------
(* The log and what it leaves unanswered *)

LEMMA LogType ==
    ASSUME IInv
    PROVE  /\ log \in Seq(Messages \cup Closers) /\ Len(log) \in Nat
           /\ DOMAIN log = 1..Len(log)
           /\ \A i \in 1..Len(log) : log[i] \in Messages \cup Closers
           /\ handler \in [Messages -> Handler]
           /\ closing \in [Closers -> [at: {"idle", "close", "done"}, case: Nat]]
           /\ Messages \cap Closers = {} /\ Customers \cap Members = {}
           /\ Customers \subseteq Messages /\ Members \subseteq Messages
<1>1. log \in Seq(Messages \cup Closers)
  BY DEF IInv, TypeInv, TypeOK
<1>2. Len(log) \in Nat /\ DOMAIN log = 1..Len(log)
  BY <1>1, LenProperties
<1>3. \A i \in 1..Len(log) : log[i] \in Messages \cup Closers
  BY <1>1, <1>2, ElementOfSeq
<1> QED
  BY <1>1, <1>2, <1>3, CasesAssumption DEF IInv, TypeInv, TypeOK, Messages

\* Something is unanswered exactly after a message of the customer.
LEMMA TailIn ==
    ASSUME NEW talk, Len(talk) \in Nat, NEW n \in 0..Len(talk)
    PROVE  UnansweredIn(talk, n) # {} <=> n > 0 /\ talk[n] \in Customers
<1>2. ASSUME NEW i \in UnansweredIn(talk, n) PROVE n > 0 /\ talk[n] \in Customers
  <2>1. i \in 1..n /\ \A j \in i..n : talk[j] \in Customers
    BY DEF UnansweredIn
  <2>2. n \in i..n
    BY <2>1
  <2> QED
    BY <2>1, <2>2
<1>3. ASSUME n > 0, talk[n] \in Customers PROVE n \in UnansweredIn(talk, n)
  <2>1. n \in 1..n /\ \A j \in n..n : j = n
    BY <1>3
  <2> QED
    BY <1>3, <2>1 DEF UnansweredIn
<1> QED
  BY <1>2, <1>3

LEMMA NextIn ==
    ASSUME NEW talk, NEW n \in Nat
    PROVE  /\ talk[n + 1] \in Customers => UnansweredIn(talk, n + 1) = UnansweredIn(talk, n) \cup {n + 1}
           /\ talk[n + 1] \notin Customers => UnansweredIn(talk, n + 1) = {}
           /\ n + 1 \notin UnansweredIn(talk, n)
           /\ TurnsIn(talk, n + 1) = IF /\ talk[n + 1] \in Members
                                  /\ n > 0 /\ talk[n] \in Customers
                               THEN TurnsIn(talk, n) \cup {n + 1} ELSE TurnsIn(talk, n)
           /\ n + 1 \notin TurnsIn(talk, n) /\ IsFiniteSet(TurnsIn(talk, n))
<1>2. 1..(n + 1) = (1..n) \cup {n + 1} /\ n + 1 \notin 1..n
  OBVIOUS
<1>3. \A i \in 1..(n + 1) : i..(n + 1) = (i..n) \cup {n + 1}
  OBVIOUS
<1>4. ASSUME talk[n + 1] \in Customers
      PROVE  UnansweredIn(talk, n + 1) = UnansweredIn(talk, n) \cup {n + 1}
  <2>1. ASSUME NEW i \in 1..(n + 1)
        PROVE  i \in UnansweredIn(talk, n + 1) <=> i \in UnansweredIn(talk, n) \cup {n + 1}
    <3>1. (\A j \in i..(n + 1) : talk[j] \in Customers) <=> \A j \in i..n : talk[j] \in Customers
      BY <1>3, <1>4
    <3>2. CASE i = n + 1
      <4>1. i..n = {}
        BY <3>2
      <4> QED
        BY <3>1, <3>2, <4>1 DEF UnansweredIn
    <3>3. CASE i # n + 1
      BY <1>2, <3>1, <3>3 DEF UnansweredIn
    <3> QED
      BY <3>2, <3>3
  <2>2. /\ UnansweredIn(talk, n + 1) \subseteq 1..(n + 1)
        /\ UnansweredIn(talk, n) \cup {n + 1} \subseteq 1..(n + 1)
    BY <1>2 DEF UnansweredIn
  <2> QED
    BY <2>1, <2>2
<1>5. ASSUME talk[n + 1] \notin Customers PROVE UnansweredIn(talk, n + 1) = {}
  <2>1. \A i \in 1..(n + 1) : n + 1 \in i..(n + 1)
    OBVIOUS
  <2> QED
    BY <1>5, <2>1 DEF UnansweredIn
<1>6. n + 1 \notin UnansweredIn(talk, n) /\ n + 1 \notin TurnsIn(talk, n)
  BY <1>2 DEF UnansweredIn, TurnsIn
<1>7. TurnsIn(talk, n + 1) = IF /\ talk[n + 1] \in Members
                          /\ n > 0 /\ talk[n] \in Customers
                       THEN TurnsIn(talk, n) \cup {n + 1} ELSE TurnsIn(talk, n)
  <2>1. n + 1 > 1 <=> n > 0
    OBVIOUS
  <2>2. (n + 1) - 1 = n
    OBVIOUS
  <2>3. n + 1 \in TurnsIn(talk, n + 1) <=> talk[n + 1] \in Members /\ n > 0 /\ talk[n] \in Customers
    BY <1>2, <2>1, <2>2 DEF TurnsIn
  <2>4. \A i \in 1..n : i \in TurnsIn(talk, n + 1) <=> i \in TurnsIn(talk, n)
    BY <1>2 DEF TurnsIn
  <2>5. TurnsIn(talk, n + 1) \subseteq (1..n) \cup {n + 1} /\ TurnsIn(talk, n) \subseteq 1..n
    BY <1>2 DEF TurnsIn
  <2> DEFINE turn == talk[n + 1] \in Members /\ n > 0 /\ talk[n] \in Customers
  <2>6. \A i : i \in TurnsIn(talk, n + 1) <=> i \in TurnsIn(talk, n) \/ (i = n + 1 /\ turn)
    BY <1>2, <1>6, <2>3, <2>4, <2>5
  <2>7. CASE turn
    BY <2>6, <2>7
  <2>8. CASE ~turn
    BY <2>6, <2>8
  <2> QED
    BY <2>7, <2>8
<1>8. IsFiniteSet(TurnsIn(talk, n))
  <2>1. IsFiniteSet(1..n) /\ TurnsIn(talk, n) \subseteq 1..n
    BY FS_Interval, 1 \in Int, n \in Int DEF TurnsIn
  <2> QED
    BY <2>1, FS_Subset
<1> QED
  BY <1>4, <1>5, <1>6, <1>7, <1>8

\* What was said stays said.
LEMMA LogGrows ==
    ASSUME IInv, NEW x \in Messages \cup Closers, log' = Append(log, x)
    PROVE  /\ Len(log') = Len(log) + 1 /\ log'[Len(log) + 1] = x
           /\ \A i \in 1..Len(log) : log'[i] = log[i]
           /\ DOMAIN log' = (1..Len(log)) \cup {Len(log) + 1}
<1>1. log \in Seq(Messages \cup Closers) /\ Len(log) \in Nat
  BY LogType
<1>2. /\ log' \in Seq(Messages \cup Closers)
      /\ Len(log') = Len(log) + 1 /\ log'[Len(log) + 1] = x
      /\ \A i \in 1..Len(log) : log'[i] = log[i]
  BY <1>1, AppendProperties
<1>3. DOMAIN log' = 1..Len(log')
  BY <1>2, LenProperties
<1> QED
  BY <1>1, <1>2, <1>3

LEMMA SaidStays ==
    ASSUME IInv, NEW n \in 0..Len(log), \A i \in 1..Len(log) : log'[i] = log[i]
    PROVE  UnansweredIn(log', n) = UnansweredIn(log, n) /\ TurnsIn(log', n) = TurnsIn(log, n)
<1>1. Len(log) \in Nat
  BY LogType
<1>2. \A i \in 1..n : i \in 1..Len(log) /\ i..n \subseteq 1..Len(log)
  BY <1>1
<1>3. UnansweredIn(log', n) = UnansweredIn(log, n)
  <2>1. \A i \in 1..n : (\A j \in i..n : log'[j] \in Customers) <=>
                        (\A j \in i..n : log[j] \in Customers)
    BY <1>2
  <2> QED
    BY <2>1 DEF UnansweredIn
<1>4. TurnsIn(log', n) = TurnsIn(log, n)
  <2>1. \A i \in 1..n : i > 1 => i - 1 \in 1..Len(log)
    BY <1>1
  <2>2. \A i \in 1..n : /\ i > 1 /\ log'[i] \in Members /\ log'[i - 1] \in Customers
                        <=> i > 1 /\ log[i] \in Members /\ log[i - 1] \in Customers
    BY <1>2, <2>1
  <2> QED
    BY <2>2 DEF TurnsIn
<1> QED
  BY <1>3, <1>4

\* The clock tells what it told, as long as the rows that are open do.
LEMMA ClockStays ==
    ASSUME IInv, NEW n \in 0..Len(log), ClockTells(n),
           \A i \in 1..Len(log) : log'[i] = log[i],
           \A i \in 1..n : saved'[log[i]] = saved[log[i]],
           \A k \in OpenCases : k \in OpenCases' /\ cases'[k].awaiting = cases[k].awaiting,
           \A k \in OpenCases' : k \in OpenCases \/ cases'[k].awaiting = Never
    PROVE  ClockTells(n)'
<1>1. UnansweredIn(log', n) = UnansweredIn(log, n)
  BY SaidStays
<1>2. (\A k \in OpenCases' : cases'[k].awaiting = Never) <=>
      (\A k \in OpenCases : cases[k].awaiting = Never)
  OBVIOUS
<1>3. \A i \in UnansweredIn(log, n) : i \in 1..n /\ log'[i] = log[i]
  <2>1. \A i \in 1..n : i \in 1..Len(log)
    BY LogType
  <2> QED
    BY <2>1 DEF UnansweredIn
<1>4. ASSUME NEW i \in UnansweredIn(log, n), i - 1 \notin UnansweredIn(log, n)
      PROVE  \E k \in OpenCases' : cases'[k].awaiting = saved'[log'[i]]
  <2>1. PICK k \in OpenCases : cases[k].awaiting = saved[log[i]]
    BY <1>4 DEF ClockTells
  <2> QED
    BY <1>3, <1>4, <2>1
<1>5. (UnansweredIn(log', n) = {}) = (\A k \in OpenCases' : cases'[k].awaiting = Never)
  BY <1>1, <1>2 DEF ClockTells
<1> QED
  BY <1>1, <1>4, <1>5 DEF ClockTells
-----------------------------------------------------------------------------
(* One at a time *)

Busy == {"insert", "refind", "clock", "answer", "reply", "first"}

LEMMA RunningIsBusy ==
    ASSUME IInv
    PROVE  /\ \A m \in Messages : m \in Running <=> handler[m].at \in Busy
           /\ \A m \in Messages : handler[m].at \in {"unsaved", "find", "done"} \cup Busy
           /\ \A c \in Closers : c \in Running <=> closing[c].at = "close"
<1>1. \A m \in Messages : handler[m].at \in Stages
  BY LogType DEF Handler
<1> QED
  BY <1>1, LogType DEF Running, Busy, Stages

LEMMA AloneMessage ==
    ASSUME IInv, SerialTalk, NEW m \in Messages, handler[m].at \in Busy
    PROVE  /\ \A n \in Messages : n # m => handler[n].at \in {"unsaved", "find", "done"}
           /\ \A c \in Closers : closing[c].at # "close"
           /\ Len(log) \in Nat \ {0} /\ m = log[Len(log)]
<1>1. \A x \in Running : log # <<>> /\ x = log[Len(log)]
  BY DEF SerialTalk, OneAtATime
<1>2. m = log[Len(log)] /\ log # <<>>
  BY <1>1, RunningIsBusy
<1>3. Len(log) # 0
  BY <1>2, LogType, EmptySeq
<1>4. \A n \in Messages : n # m => handler[n].at \notin Busy
  BY <1>1, <1>2, RunningIsBusy
<1>5. \A c \in Closers : closing[c].at # "close"
  BY <1>1, <1>2, RunningIsBusy, LogType
<1> QED
  BY <1>2, <1>3, <1>4, <1>5, RunningIsBusy, LogType

\* The handler that runs takes a step.
LEMMA HandlerMoves ==
    ASSUME IInv, IInv', SerialInv, NEW m \in Messages, NEW h \in Handler,
           handler' = [handler EXCEPT ![m] = h],
           handler[m].at \in Busy, h.at \in Busy \cup {"done"},
           handler[m].at = "first" => h.at = "done",
           UNCHANGED <<saved, closing, log, serial>>,
           DOMAIN cases \subseteq DOMAIN cases',
           IsFiniteSet(replies'),
           \A r \in replies' : \/ r \in replies
                               \/ /\ r.by = m /\ h.at \in {"first", "done"}
                                  /\ r.case \in DOMAIN cases',
           serial => UpToDateOf(m)' /\ FirstsAgree',
           serial /\ h.at \in {"insert", "refind", "clock", "answer"} =>
              ClockTells(Len(log) - 1)',
           serial /\ h.at \in {"reply", "first", "done"} => ClockTells(Len(log))',
           serial /\ h.at \in {"answer", "reply"} =>
              Cardinality(replies') = Cardinality(TurnsIn(log, Len(log) - 1)),
           serial /\ h.at \notin {"answer", "reply"} =>
              Cardinality(replies') = Cardinality(TurnsIn(log, Len(log)))
    PROVE  SerialInv'
<1>1. /\ handler' \in [Messages -> Handler]
      /\ \A n \in Messages : handler'[n] = IF n = m THEN h ELSE handler[n]
  BY SetHandler, LogType
<1>2. OnRecord'
  <2>1. \A i \in DOMAIN log' : log'[i] \in Messages =>
           handler'[log'[i]].at \notin {"unsaved", "find"}
    BY <1>1 DEF SerialInv, OnRecord, Busy
  <2>2. \A r \in replies' : r \in replies \/ r.by = m
    OBVIOUS
  <2>3. ASSUME NEW r \in replies'
        PROVE  handler'[r.by].at \in {"first", "done"} /\ r.case \in DOMAIN cases'
    <3>1. CASE r \in replies
      <4>1. handler[r.by].at \in {"first", "done"} /\ r.case \in DOMAIN cases
        BY <3>1 DEF SerialInv, OnRecord
      <4>2. r.by \in Messages
        BY <3>1, LogType DEF IInv, TypeInv, TypeOK, Reply
      <4> QED
        BY <1>1, <4>1, <4>2 DEF Busy
    <3>2. CASE r \notin replies
      BY <1>1, <3>2
    <3> QED
      BY <3>1, <3>2
  <2> QED
    BY <2>1, <2>3 DEF OnRecord
<1>3. ASSUME serial PROVE SerialTalk'
  <2>1. SerialTalk
    BY <1>3 DEF SerialInv
  <2>2. /\ \A n \in Messages : n # m => handler[n].at \in {"unsaved", "find", "done"}
        /\ \A c \in Closers : closing[c].at # "close"
        /\ Len(log) \in Nat \ {0} /\ m = log[Len(log)]
    BY <2>1, AloneMessage
  <2>3. \A n \in Messages : n # m => handler'[n].at \in {"unsaved", "find", "done"}
    BY <1>1, <2>2
  <2>4. \A c \in Closers : closing'[c].at # "close"
    BY <2>2
  <2>5. OneAtATime'
    <3>1. \A x \in Running' : x = m
      BY <2>3, <2>4 DEF Running
    <3> QED
      BY <2>2, <3>1 DEF OneAtATime
  <2>6. UpToDate'
    <3>1. \A n \in Messages : n # m => UpToDateOf(n)'
      BY <2>3 DEF UpToDateOf
    <3> QED
      BY <1>3, <2>4, <3>1 DEF UpToDate
  <2>7. /\ h.at \in {"insert", "refind", "clock", "answer"} => Undecided' # {}
        /\ h.at \notin {"insert", "refind", "clock", "answer"} => Undecided' = {}
        /\ h.at \in {"answer", "reply"} => Unsampled' # {}
        /\ h.at \notin {"answer", "reply"} => Unsampled' = {}
    BY <1>1, <2>3, <2>4 DEF Undecided, Unsampled
  <2>8. \A n \in 0..Len(log') : n = Told' => ClockTells(n)'
    BY <1>3, <2>7 DEF Told, Busy
  <2>9. \A n \in 0..Len(log') : n = Sampled' => Cardinality(replies') = Cardinality(TurnsIn(log', n))
    BY <1>3, <2>7 DEF Sampled
  <2> QED
    BY <1>3, <2>5, <2>6, <2>8, <2>9 DEF SerialTalk
<1> QED
  BY <1>2, <1>3 DEF SerialInv
\* Nobody has begun who is not through.
LEMMA AtRest ==
    ASSUME IInv, SerialTalk, Running = {}
    PROVE  /\ \A m \in Messages : handler[m].at \in {"unsaved", "find", "done"}
           /\ \A c \in Closers : closing[c].at # "close"
           /\ Undecided = {} /\ Unsampled = {}
           /\ ClockTells(Len(log))
           /\ Cardinality(replies) = Cardinality(TurnsIn(log, Len(log)))
<1>1. /\ \A m \in Messages : handler[m].at \in {"unsaved", "find", "done"}
      /\ \A c \in Closers : closing[c].at # "close"
  BY RunningIsBusy
<1>2. Undecided = {} /\ Unsampled = {}
  BY <1>1 DEF Undecided, Unsampled
<1>3. Told = Len(log) /\ Sampled = Len(log) /\ Len(log) \in 0..Len(log)
  BY <1>2, LogType DEF Told, Sampled
<1> QED
  BY <1>1, <1>2, <1>3 DEF SerialTalk

\* A handler reads the open case.
LEMMA MessageBegins ==
    ASSUME IInv, IInv', SerialInv, NEW m \in Messages, NEW h \in Handler,
           handler' = [handler EXCEPT ![m] = h], Begin(m),
           handler[m].at = "find", h.at \in {"insert", "clock", "answer", "done"},
           h.at \in {"insert", "clock"} => m \in Customers,
           h.at \in {"answer", "done"} => m \in Members,
           UNCHANGED <<saved, cases, replies, closing>>,
           serial /\ Running = {} => UpToDateOf(m)',
           serial /\ Running = {} /\ h.at = "done" => UnansweredIn(log, Len(log)) = {}
    PROVE  SerialInv'
<1>1. /\ handler' \in [Messages -> Handler]
      /\ \A n \in Messages : handler'[n] = IF n = m THEN h ELSE handler[n]
  BY SetHandler, LogType
<1>2. /\ Len(log') = Len(log) + 1 /\ log'[Len(log) + 1] = m /\ Len(log) \in Nat
      /\ \A i \in 1..Len(log) : log'[i] = log[i]
      /\ DOMAIN log' = (1..Len(log)) \cup {Len(log) + 1}
  BY LogGrows, LogType DEF Begin
<1>3. OnRecord'
  <2>1. \A i \in 1..Len(log) : log[i] \in Messages =>
           handler[log[i]].at \notin {"unsaved", "find"}
    BY LogType DEF SerialInv, OnRecord
  <2>2. \A i \in DOMAIN log' : log'[i] \in Messages =>
           handler'[log'[i]].at \notin {"unsaved", "find"}
    BY <1>1, <1>2, <2>1
  <2>3. \A r \in replies : r.by \in Messages
    BY LogType DEF IInv, TypeInv, TypeOK, Reply
  <2> QED
    BY <1>1, <2>2, <2>3 DEF SerialInv, OnRecord
<1>4. ASSUME serial' PROVE SerialTalk'
  <2>1. serial /\ Running = {} /\ SerialTalk
    BY <1>4 DEF Begin, SerialInv
  <2>2. /\ \A n \in Messages : handler[n].at \in {"unsaved", "find", "done"}
        /\ \A c \in Closers : closing[c].at # "close"
        /\ ClockTells(Len(log))
        /\ Cardinality(replies) = Cardinality(TurnsIn(log, Len(log)))
    BY <2>1, AtRest
  <2>3. \A n \in Messages : n # m => handler'[n].at \in {"unsaved", "find", "done"}
    BY <1>1, <2>2
  <2>4. \A c \in Closers : closing'[c].at # "close"
    BY <2>2
  <2>5. OneAtATime'
    <3>1. \A x \in Running' : x = m
      BY <2>3, <2>4 DEF Running
    <3>2. log' # <<>>
      BY <1>2
    <3> QED
      BY <1>2, <3>1, <3>2 DEF OneAtATime
  <2>6. UpToDate'
    <3>1. \A n \in Messages : n # m => UpToDateOf(n)'
      BY <2>3 DEF UpToDateOf
    <3> QED
      BY <2>1, <2>4, <3>1 DEF UpToDate
  <2>7. FirstsAgree'
    <3>1. \A n \in Messages : handler[n].at # "first"
      BY <2>2
    <3>2. \A k : Replied(k)' <=> Replied(k)
      BY DEF Replied
    <3>3. \A k : Firsts(k)' = Firsts(k)
      BY DEF Firsts
    <3> QED
      BY <2>1, <3>1, <3>2, <3>3 DEF SerialTalk, FirstsAgree
  <2>9. \A n \in 0..Len(log) : n = Len(log) => ClockTells(n)'
    <3>1. \A i \in 1..Len(log) : saved'[log[i]] = saved[log[i]]
      OBVIOUS
    <3>2. OpenCases' = OpenCases
      BY DEF OpenCases
    <3>3. ASSUME NEW n \in 0..Len(log), n = Len(log) PROVE ClockTells(n)'
      <4>1. ClockTells(n)
        BY <2>2, <3>3
      <4>2. \A i \in 1..n : saved'[log[i]] = saved[log[i]]
        OBVIOUS
      <4>3. \A k \in OpenCases : k \in OpenCases' /\ cases'[k].awaiting = cases[k].awaiting
        BY <3>2
      <4>4. \A k \in OpenCases' : k \in OpenCases \/ cases'[k].awaiting = Never
        BY <3>2
      <4> QED
        BY <1>2, <4>1, <4>2, <4>3, <4>4, ClockStays
    <3> QED
      BY <3>3
  <2>10. /\ h.at # "done" => Undecided' # {}
         /\ h.at = "done" => Undecided' = {}
         /\ h.at = "answer" => Unsampled' # {}
         /\ h.at # "answer" => Unsampled' = {}
    BY <1>1, <2>3, <2>4 DEF Undecided, Unsampled
  <2>11. ASSUME NEW n \in 0..Len(log'), n = Told' PROVE ClockTells(n)'
    <3>1. CASE h.at # "done"
      <4>1. n = Len(log)
        BY <1>2, <2>10, <2>11, <3>1 DEF Told
      <4> QED
        BY <1>2, <2>9, <4>1
    <3>2. CASE h.at = "done"
      <4>1. n = Len(log) + 1
        BY <1>2, <2>10, <2>11, <3>2 DEF Told
      <4>2. UnansweredIn(log', n) = {}
        <5>1. log'[Len(log) + 1] \notin Customers
          BY <1>2, <3>2, LogType
        <5> QED
          BY <1>2, <4>1, <5>1, NextIn
      <4>3. \A k \in OpenCases : cases[k].awaiting = Never
        BY <2>1, <2>2, <3>2 DEF ClockTells
      <4>4. \A k \in OpenCases' : cases'[k].awaiting = Never
        BY <4>3 DEF OpenCases
      <4> QED
        BY <4>2, <4>4 DEF ClockTells
    <3> QED
      BY <3>1, <3>2
  <2>12. ASSUME NEW n \in 0..Len(log'), n = Sampled'
         PROVE  Cardinality(replies') = Cardinality(TurnsIn(log', n))
    <3>0. \A k \in 0..Len(log) : TurnsIn(log', k) = TurnsIn(log, k)
      BY <1>2, SaidStays
    <3>1. CASE h.at = "answer"
      <4>1. n = Len(log)
        BY <1>2, <2>10, <2>12, <3>1 DEF Sampled
      <4> QED
        BY <1>2, <2>2, <3>0, <4>1
    <3>2. CASE h.at # "answer"
      <4>1. n = Len(log) + 1
        BY <1>2, <2>10, <2>12, <3>2 DEF Sampled
      <4>2. ~(m \in Members /\ Len(log) > 0 /\ log'[Len(log)] \in Customers)
        <5>1. CASE h.at = "done"
          <6>1. UnansweredIn(log, Len(log)) = {} /\ Len(log) \in 0..Len(log)
            BY <1>2, <2>1, <5>1
          <6>2. ~(Len(log) > 0 /\ log[Len(log)] \in Customers)
            BY <1>2, <6>1, TailIn
          <6>3. Len(log) > 0 => log'[Len(log)] = log[Len(log)]
            BY <1>2
          <6> QED
            BY <6>2, <6>3
        <5>2. CASE h.at # "done"
          BY <3>2, <5>2, LogType
        <5> QED
          BY <5>1, <5>2
      <4>3. TurnsIn(log', Len(log) + 1) = TurnsIn(log', Len(log))
        BY <1>2, <4>2, NextIn
      <4>4. TurnsIn(log', Len(log)) = TurnsIn(log, Len(log))
        BY <1>2, <3>0
      <4> QED
        BY <2>2, <4>1, <4>3, <4>4
    <3> QED
      BY <3>1, <3>2
  <2> QED
    BY <2>5, <2>6, <2>7, <2>11, <2>12, <1>4 DEF SerialTalk
<1> QED
  BY <1>3, <1>4 DEF SerialInv
-----------------------------------------------------------------------------
(* The steps, while nothing overlaps *)

LEMMA IdleIs ==
    ASSUME NEW at \in Stages
    PROVE  Idle(at) \in Handler /\ Idle(at).at = at
BY IdleType DEF Idle

LEMMA IdleWith ==
    ASSUME NEW k \in Nat
    PROVE  LET h == [Idle("clock") EXCEPT !.case = k]
           IN  h \in Handler /\ h.at = "clock" /\ h.case = k
BY DEF Idle, Handler, Stages, Never

LEMMA FindOpenSerial ==
    ASSUME IInv, IInv', SerialInv, NEW m \in Messages, FindOpen(m)
    PROVE  SerialInv'
<1>1. /\ m \in Customers /\ handler[m].at = "find" /\ Begin(m)
      /\ UNCHANGED <<clock, saved, cases, replies, closing, fails>>
  BY DEF FindOpen
<1>2. OpenCases' = OpenCases
  BY <1>1 DEF OpenCases
<1>3. CASE OpenCases = {} /\ handler' = [handler EXCEPT ![m] = Idle("insert")]
  <2>1. PICK h : h = Idle("insert")
    OBVIOUS
  <2>2. h \in Handler /\ h.at = "insert"
    BY <2>1, IdleIs DEF Stages
  <2>3. handler' = [handler EXCEPT ![m] = h]
    BY <1>3, <2>1
  <2>4. handler'[m] = h
    BY <2>2, <2>3, SetHandler, LogType
  <2>5. UpToDateOf(m)'
    BY <1>2, <1>3, <2>2, <2>4 DEF UpToDateOf
  <2> QED
    BY <1>1, <2>2, <2>3, <2>5, MessageBegins
<1>4. ASSUME NEW k \in OpenCases,
             handler' = [handler EXCEPT ![m] = [Idle("clock") EXCEPT !.case = k]]
      PROVE  SerialInv'
  <2>1. PICK h : h = [Idle("clock") EXCEPT !.case = k]
    OBVIOUS
  <2>2. k \in Nat
    BY OpenRow DEF IInv, TypeInv
  <2>3. h \in Handler /\ h.at = "clock" /\ h.case = k
    BY <2>1, <2>2, IdleWith
  <2>4. handler' = [handler EXCEPT ![m] = h]
    BY <1>4, <2>1
  <2>5. handler'[m] = h
    BY <2>3, <2>4, SetHandler, LogType
  <2>6. UpToDateOf(m)'
    BY <1>2, <2>3, <2>5 DEF UpToDateOf
  <2> QED
    BY <1>1, <2>3, <2>4, <2>6, MessageBegins
<1> QED
  BY <1>3, <1>4 DEF FindOpen

LEMMA FindBurstSerial ==
    ASSUME IInv, IInv', SerialInv, NEW m \in Messages, FindBurst(m)
    PROVE  SerialInv'
<1>1. /\ m \in Members /\ handler[m].at = "find" /\ Begin(m)
      /\ UNCHANGED <<clock, saved, cases, replies, closing, fails>>
  BY DEF FindBurst
<1>2. OpenCases' = OpenCases
  BY <1>1 DEF OpenCases
<1>0. /\ Len(log') = Len(log) + 1 /\ Len(log) \in Nat
      /\ \A i \in 1..Len(log) : log'[i] = log[i]
  BY <1>1, LogGrows, LogType DEF Begin
<1>3. CASE /\ \A k \in OpenCases : cases[k].awaiting = Never
           /\ handler' = [handler EXCEPT ![m] = Idle("done")]
  <2>1. PICK h : h = Idle("done")
    OBVIOUS
  <2>2. h \in Handler /\ h.at = "done"
    BY <2>1, IdleIs DEF Stages
  <2>3. handler' = [handler EXCEPT ![m] = h]
    BY <1>3, <2>1
  <2>4. handler'[m] = h
    BY <2>2, <2>3, SetHandler, LogType
  <2>5. UpToDateOf(m)'
    BY <2>2, <2>4 DEF UpToDateOf
  <2>6. serial /\ Running = {} => UnansweredIn(log, Len(log)) = {}
    BY <1>3, AtRest DEF SerialInv, ClockTells
  <2> QED
    BY <1>1, <2>2, <2>3, <2>5, <2>6, MessageBegins
<1>4. ASSUME NEW k \in OpenCases, cases[k].awaiting # Never,
             handler' = [handler EXCEPT ![m] =
                            [Idle("answer") EXCEPT !.case = k,
                                                   !.awaited = cases[k].awaiting,
                                                   !.first = cases[k].first,
                                                   !.burst = cases[k].burst]]
      PROVE  SerialInv'
  <2>1. PICK h : h = [Idle("answer") EXCEPT !.case = k,
                                            !.awaited = cases[k].awaiting,
                                            !.first = cases[k].first,
                                            !.burst = cases[k].burst]
    OBVIOUS
  <2>2. k \in Nat /\ cases[k] \in Case
    BY OpenRow DEF IInv, TypeInv
  <2>3. h \in Handler /\ h.at = "answer" /\ h.case = k
        /\ h.awaited = cases[k].awaiting /\ h.first = cases[k].first
    BY <2>1, <2>2 DEF Idle, Handler, Case, Stages, Never
  <2>4. handler' = [handler EXCEPT ![m] = h]
    BY <1>4, <2>1
  <2>5. handler'[m] = h
    BY <2>3, <2>4, SetHandler, LogType
  <2>6. ASSUME serial, Running = {} PROVE UpToDateOf(m)'
    <3>1. UnansweredIn(log, Len(log)) # {}
      BY <1>4, <2>6, AtRest DEF SerialInv, ClockTells
    <3>2. Len(log) > 0 /\ log[Len(log)] \in Customers
      <4>1. Len(log) \in 0..Len(log)
        BY <1>0
      <4> QED
        BY <1>0, <3>1, <4>1, TailIn
    <3>3. Len(log') > 1 /\ Len(log') - 1 = Len(log) /\ log'[Len(log)] = log[Len(log)]
      BY <1>0, <3>2
    <3>4. Len(log') > 1 /\ log'[Len(log') - 1] \in Customers
      BY <3>2, <3>3
    <3>5. k \in OpenCases' /\ cases' = cases
      BY <1>1, <1>2
    <3> QED
      BY <1>4, <2>3, <2>5, <3>4, <3>5 DEF UpToDateOf
  <2> QED
    BY <1>1, <2>3, <2>4, <2>6, MessageBegins
<1> QED
  BY <1>3, <1>4 DEF FindBurst

\* The row of a message is saved before its handler begins.
LEMMA SaveSerial ==
    ASSUME IInv, IInv', SerialInv, NEW m \in Messages, Save(m)
    PROVE  SerialInv'
<1>1. /\ handler[m].at = "unsaved" /\ saved' = [saved EXCEPT ![m] = clock]
      /\ UNCHANGED <<cases, replies, closing, log, serial>>
  BY DEF Save
<1>2. /\ \A n \in Messages : handler'[n] = IF n = m THEN Idle("find") ELSE handler[n]
      /\ Idle("find").at = "find"
  BY IdleIs, SetHandler, LogType DEF Save, Stages
<1>3. \A i \in 1..Len(log) : log[i] # m
  BY <1>1, LogType DEF SerialInv, OnRecord
<1>4. \A x \in Messages \cup Closers : x # m => saved'[x] = saved[x]
  BY <1>1, LogType DEF IInv, TypeInv, TypeOK
<1>5. OnRecord'
  <2>1. \A r \in replies : r.by \in Messages
    BY LogType DEF IInv, TypeInv, TypeOK, Reply
  <2> QED
    BY <1>1, <1>2, <1>3, <2>1, LogType DEF SerialInv, OnRecord
<1>6. ASSUME serial PROVE SerialTalk'
  <2>1. SerialTalk
    BY <1>6 DEF SerialInv
  <2>2. Undecided' = Undecided /\ Unsampled' = Unsampled /\ Running' = Running
    BY <1>1, <1>2 DEF Undecided, Unsampled, Running
  <2>3. Told' = Told /\ Sampled' = Sampled
    BY <1>1, <2>2 DEF Told, Sampled
  <2>4. OpenCases' = OpenCases
    BY <1>1 DEF OpenCases
  <2>5. \A n \in 0..Len(log) : ClockTells(n) => ClockTells(n)'
    <3> SUFFICES ASSUME NEW n \in 0..Len(log), ClockTells(n) PROVE ClockTells(n)'
      OBVIOUS
    <3>1. \A i \in 1..n : i \in 1..Len(log)
      BY LogType
    <3>2. \A i \in 1..n : saved'[log[i]] = saved[log[i]]
      BY <1>3, <1>4, <3>1, LogType
    <3>3. \A i \in 1..Len(log) : log'[i] = log[i]
      BY <1>1
    <3>4. \A k \in OpenCases : k \in OpenCases' /\ cases'[k].awaiting = cases[k].awaiting
      BY <1>1, <2>4
    <3>5. \A k \in OpenCases' : k \in OpenCases \/ cases'[k].awaiting = Never
      BY <2>4
    <3> QED
      BY <3>2, <3>3, <3>4, <3>5, ClockStays
  <2>6. OneAtATime'
    BY <1>1, <2>1, <2>2 DEF SerialTalk, OneAtATime
  <2>7. UpToDate'
    <3>1. \A n \in Messages : n # m => UpToDateOf(n)'
      BY <1>1, <1>2, <2>1, <2>4 DEF SerialTalk, UpToDate, UpToDateOf
    <3>2. UpToDateOf(m)'
      BY <1>2 DEF UpToDateOf
    <3> QED
      BY <1>1, <2>1, <2>4, <3>1, <3>2 DEF SerialTalk, UpToDate
  <2>8. FirstsAgree'
    <3>1. \A k : Replied(k)' <=> Replied(k)
      BY <1>1 DEF Replied
    <3>2. \A k : Firsts(k)' = Firsts(k)
      BY <1>1 DEF Firsts
    <3>3. \A n \in Messages : handler[n].at = "first" => handler'[n] = handler[n]
      BY <1>1, <1>2
    <3> QED
      BY <1>1, <2>1, <3>1, <3>2, <3>3 DEF SerialTalk, FirstsAgree
  <2>9. /\ \A n \in 0..Len(log') : n = Told' => ClockTells(n)'
        /\ \A n \in 0..Len(log') : n = Sampled' => Cardinality(replies') = Cardinality(TurnsIn(log', n))
    BY <1>1, <2>1, <2>3, <2>5 DEF SerialTalk
  <2> QED
    BY <2>6, <2>7, <2>8, <2>9 DEF SerialTalk
<1> QED
  BY <1>1, <1>5, <1>6 DEF SerialInv

LEMMA TickSerial ==
    ASSUME IInv, SerialInv,
           UNCHANGED <<saved, cases, replies, handler, closing, log, serial>>
    PROVE  SerialInv'
<1>1. OnRecord'
  BY DEF SerialInv, OnRecord
<1>2. /\ OpenCases' = OpenCases /\ Undecided' = Undecided /\ Unsampled' = Unsampled
      /\ Running' = Running
  BY DEF OpenCases, Undecided, Unsampled, Running
<1>3. Told' = Told /\ Sampled' = Sampled /\ \A n : ClockTells(n)' <=> ClockTells(n)
  BY <1>2 DEF Told, Sampled, ClockTells
<1>4. SerialTalk => SerialTalk'
  BY <1>2, <1>3 DEF SerialTalk, OneAtATime, UpToDate, UpToDateOf, FirstsAgree, Replied, Firsts
<1> QED
  BY <1>1, <1>4 DEF SerialInv

LEMMA FailSerial ==
    ASSUME IInv, IInv', SerialInv, NEW m \in Messages, Fail(m)
    PROVE  SerialInv'
<1>1. handler' = [handler EXCEPT ![m] = Idle("done")] /\ handler[m].at # "unsaved"
      /\ UNCHANGED <<cases, replies, log>> /\ ~serial'
  BY DEF Fail
<1>2. \A n \in Messages : handler'[n] = IF n = m THEN Idle("done") ELSE handler[n]
  BY <1>1, IdleIs, SetHandler, LogType DEF Stages
<1>3. Idle("done").at = "done"
  BY IdleIs DEF Stages
<1>4. OnRecord'
  <2>1. \A r \in replies : r.by \in Messages
    BY LogType DEF IInv, TypeInv, TypeOK, Reply
  <2> QED
    BY <1>1, <1>2, <1>3, <2>1 DEF SerialInv, OnRecord
<1> QED
  BY <1>1, <1>4 DEF SerialInv

\* What is known while the handler of message m runs alone.
LEMMA BusyTalk ==
    ASSUME IInv, SerialTalk, NEW m \in Messages, handler[m].at \in Busy
    PROVE  /\ Len(log) - 1 \in 0..Len(log) /\ Len(log) \in 0..Len(log) /\ Len(log) - 1 \in Nat
           /\ handler[m].at \in {"insert", "refind", "clock", "answer"} => ClockTells(Len(log) - 1)
           /\ handler[m].at \in {"reply", "first"} => ClockTells(Len(log))
           /\ handler[m].at \in {"answer", "reply"} =>
                 Cardinality(replies) = Cardinality(TurnsIn(log, Len(log) - 1))
           /\ handler[m].at \notin {"answer", "reply"} =>
                 Cardinality(replies) = Cardinality(TurnsIn(log, Len(log)))
<1>1. /\ \A n \in Messages : n # m => handler[n].at \in {"unsaved", "find", "done"}
      /\ \A c \in Closers : closing[c].at # "close"
      /\ Len(log) \in Nat \ {0} /\ m = log[Len(log)]
  BY AloneMessage
<1>2. Len(log) - 1 \in 0..Len(log) /\ Len(log) \in 0..Len(log) /\ Len(log) - 1 \in Nat
  BY <1>1
<1>3. /\ handler[m].at \in {"insert", "refind", "clock", "answer"} => m \in Undecided
      /\ handler[m].at \in {"reply", "first"} => Undecided = {}
      /\ handler[m].at \in {"answer", "reply"} => m \in Unsampled
      /\ handler[m].at \notin {"answer", "reply"} => Unsampled = {}
  BY <1>1 DEF Undecided, Unsampled
<1>4. /\ handler[m].at \in {"insert", "refind", "clock", "answer"} => Told = Len(log) - 1
      /\ handler[m].at \in {"reply", "first"} => Told = Len(log)
      /\ handler[m].at \in {"answer", "reply"} => Sampled = Len(log) - 1
      /\ handler[m].at \notin {"answer", "reply"} => Sampled = Len(log)
  BY <1>3 DEF Told, Sampled
<1> QED
  BY <1>2, <1>4 DEF SerialTalk

\* No reply and no first time is added.
LEMMA FirstsStay ==
    ASSUME IInv, SerialInv, serial, NEW m \in Messages, handler[m].at \in Busy \ {"first"},
           UNCHANGED replies, DOMAIN cases \subseteq DOMAIN cases',
           \A k \in DOMAIN cases : cases'[k].first = cases[k].first,
           \A k \in DOMAIN cases' \ DOMAIN cases : cases'[k].first = Never
    PROVE  FirstsAgree'
<1>1. FirstsAgree /\ SerialTalk
  BY DEF SerialInv, SerialTalk
<1>2. \A n \in Messages : handler[n].at # "first"
  BY <1>1, AloneMessage
<1>3. \A k : (Replied(k)' <=> Replied(k)) /\ Firsts(k)' = Firsts(k)
  BY DEF Replied, Firsts
<1>4. \A k \in DOMAIN cases' \ DOMAIN cases : ~Replied(k)
  BY DEF SerialInv, OnRecord, Replied
<1> QED
  BY <1>1, <1>2, <1>3, <1>4 DEF FirstsAgree

LEMMA OpenSerial ==
    ASSUME IInv, IInv', SerialInv, NEW m \in Messages, Open(m)
    PROVE  SerialInv'
<1>0. /\ handler[m].at = "insert" /\ handler[m].at \in Busy
      /\ UNCHANGED <<clock, saved, replies, closing, fails, log, serial>>
      /\ IsFiniteSet(replies')
      /\ handler \in [Messages -> Handler] /\ cases \in Seq(Case) /\ saved \in [Messages -> Nat]
  BY LogType DEF Open, Busy, SerialInv, OnRecord, IInv, TypeInv, TypeOK
<1>a. serial => SerialTalk
  BY DEF SerialInv
<1>b. serial => OpenCases = {} /\ ClockTells(Len(log) - 1)
               /\ Cardinality(replies) = Cardinality(TurnsIn(log, Len(log)))
               /\ Len(log) - 1 \in 0..Len(log)
  BY <1>0, <1>a, BusyTalk DEF SerialTalk, UpToDate, UpToDateOf
<1>1. CASE OpenCases = {}
  <2>1. PICK h : h = [Idle("clock") EXCEPT !.case = Len(cases) + 1]
    OBVIOUS
  <2>2. NewCase(m) \in Case
    BY <1>0 DEF NewCase, Case, Never
  <2>3. cases' = Append(cases, NewCase(m)) /\ handler' = [handler EXCEPT ![m] = h]
    BY <1>1, <2>1 DEF Open
  <2>4. /\ DOMAIN cases' = DOMAIN cases \cup {Len(cases) + 1}
        /\ Len(cases) + 1 \in Nat /\ Len(cases) + 1 \notin DOMAIN cases
        /\ \A j \in DOMAIN cases : cases'[j] = cases[j]
        /\ cases'[Len(cases) + 1] = NewCase(m)
    BY <1>0, <2>2, <2>3, AddRow
  <2>5. h \in Handler /\ h.at = "clock" /\ h.case = Len(cases) + 1
    BY <2>1, <2>4, IdleWith
  <2>6. OpenCases' = {Len(cases) + 1}
    BY <1>1, <2>4 DEF OpenCases, NewCase
  <2>7. handler'[m] = h
    BY <1>0, <2>3, <2>5
  <2>8. UpToDateOf(m)'
    BY <2>5, <2>6, <2>7 DEF UpToDateOf
  <2>9. serial => FirstsAgree'
    BY <1>0, <2>4, FirstsStay DEF NewCase, Busy
  <2>10. ASSUME serial PROVE ClockTells(Len(log) - 1)'
    <3>1. PICK n \in 0..Len(log) : n = Len(log) - 1
      BY <1>b, <2>10
    <3>2. ClockTells(n)
      BY <1>b, <2>10, <3>1
    <3>3. \A k \in OpenCases' : k \in OpenCases \/ cases'[k].awaiting = Never
      BY <2>4, <2>6 DEF NewCase
    <3>4. /\ \A i \in 1..Len(log) : log'[i] = log[i]
          /\ \A i \in 1..n : saved'[log[i]] = saved[log[i]]
          /\ \A k \in OpenCases : k \in OpenCases' /\ cases'[k].awaiting = cases[k].awaiting
      BY <1>0, <1>1
    <3>5. ClockTells(n)'
      BY <3>2, <3>3, <3>4, ClockStays
    <3>6. log' = log
      BY <1>0
    <3> QED
      BY <3>1, <3>5, <3>6
  <2> QED
    BY <1>0, <1>b, <2>3, <2>4, <2>5, <2>8, <2>9, <2>10, HandlerMoves DEF Busy
<1>2. CASE OpenCases # {}
  <2>1. PICK h : h = Idle("refind")
    OBVIOUS
  <2>2. h \in Handler /\ h.at = "refind"
    BY <2>1, IdleIs DEF Stages
  <2>3. handler' = [handler EXCEPT ![m] = h] /\ cases' = cases
    BY <1>2, <2>1 DEF Open
  <2>4. ~serial
    BY <1>2, <1>b
  <2> QED
    BY <1>0, <2>2, <2>3, <2>4, HandlerMoves DEF Busy
<1> QED
  BY <1>1, <1>2

\* Only a handler whose insert failed finds the case again, and none fails.
LEMMA RefindSerial ==
    ASSUME IInv, IInv', SerialInv, NEW m \in Messages, Refind(m)
    PROVE  SerialInv'
<1>1. /\ handler[m].at = "refind" /\ handler[m].at \in Busy
      /\ UNCHANGED <<clock, saved, cases, replies, closing, fails, log, serial>>
      /\ IsFiniteSet(replies')
  BY DEF Refind, Busy, SerialInv, OnRecord
<1>2. ~serial
  BY <1>1 DEF SerialInv, SerialTalk, UpToDate, UpToDateOf
<1>3. PICK h \in Handler :
          /\ handler' = [handler EXCEPT ![m] = h]
          /\ h.at \in {"clock", "done"}
  <2>1. CASE OpenCases = {} /\ handler' = [handler EXCEPT ![m] = Idle("done")]
    BY <2>1, IdleIs DEF Stages
  <2>2. ASSUME NEW k \in OpenCases,
               handler' = [handler EXCEPT ![m] = [Idle("clock") EXCEPT !.case = k]]
        PROVE  \E h \in Handler : /\ handler' = [handler EXCEPT ![m] = h]
                                  /\ h.at \in {"clock", "done"}
    <3>1. k \in Nat
      BY OpenRow DEF IInv, TypeInv
    <3> QED
      BY <2>2, <3>1, IdleWith
  <2> QED
    BY <2>1, <2>2 DEF Refind
<1> QED
  BY <1>1, <1>2, <1>3, HandlerMoves DEF Busy

\* The first unanswered message of the customer starts the clock.
LEMMA StartClockSerial ==
    ASSUME IInv, IInv', SerialInv, NEW m \in Messages, StartClock(m)
    PROVE  SerialInv'
<1>0. /\ handler[m].at = "clock" /\ handler[m].at \in Busy /\ m \in Customers
      /\ handler' = [handler EXCEPT ![m] = Idle("done")]
      /\ UNCHANGED <<clock, saved, replies, closing, fails, log, serial>>
      /\ IsFiniteSet(replies')
      /\ handler \in [Messages -> Handler] /\ cases \in Seq(Case)
      /\ saved[m] \in Nat /\ saved[m] # Never
  BY LogType DEF StartClock, Busy, SerialInv, OnRecord, IInv, TypeInv, TypeOK, OnlyCustomersOpen
<1>1. PICK h : h = Idle("done")
  OBVIOUS
<1>2. h \in Handler /\ h.at = "done" /\ handler' = [handler EXCEPT ![m] = h]
  BY <1>0, <1>1, IdleIs DEF Stages
<1>3. PICK k \in DOMAIN cases : k = handler[m].case
  BY <1>0 DEF IInv, TypeInv, TypeOK
<1>4. cases[k] \in Case
  BY RowType DEF IInv, TypeInv
<1>5. PICK now : now = [cases[k] EXCEPT
                           !.awaiting = IF cases[k].awaiting = Never THEN saved[m]
                                        ELSE cases[k].awaiting,
                           !.burst = cases[k].burst \cup {m}]
  OBVIOUS
<1>6. /\ now \in Case /\ now.open = cases[k].open /\ now.first = cases[k].first
      /\ now.awaiting = IF cases[k].awaiting = Never THEN saved[m] ELSE cases[k].awaiting
  BY <1>0, <1>4, <1>5 DEF Case
<1>7. cases' = [cases EXCEPT ![k] = now]
  BY <1>0, <1>3, <1>5 DEF StartClock
<1>8. /\ DOMAIN cases' = DOMAIN cases
      /\ \A j \in DOMAIN cases : cases'[j] = IF j = k THEN now ELSE cases[j]
  BY <1>0, <1>6, <1>7, SetRow
<1>9. handler'[m] = h
  BY <1>0, <1>2
<1>10. UpToDateOf(m)'
  BY <1>2, <1>9 DEF UpToDateOf
<1>11. serial => FirstsAgree'
  BY <1>0, <1>6, <1>8, FirstsStay DEF Busy
<1>12. OpenCases' = OpenCases
  BY <1>6, <1>8 DEF OpenCases
<1>13. ASSUME serial
       PROVE  /\ ClockTells(Len(log))'
              /\ Cardinality(replies) = Cardinality(TurnsIn(log, Len(log)))
  <2>1. SerialTalk /\ k \in OpenCases
    BY <1>0, <1>3, <1>13 DEF SerialInv, SerialTalk, UpToDate, UpToDateOf
  <2>2. /\ ClockTells(Len(log) - 1) /\ Len(log) - 1 \in 0..Len(log) /\ Len(log) - 1 \in Nat
        /\ Cardinality(replies) = Cardinality(TurnsIn(log, Len(log)))
    BY <1>0, <2>1, BusyTalk
  <2>3. m = log[Len(log)] /\ Len(log) \in Nat
    BY <1>0, <2>1, AloneMessage
  <2>4. \A j \in OpenCases : j = k
    BY <2>1 DEF IInv, OneOpenCase, OpenCases
  <2>5. PICK n \in 0..Len(log) : n = Len(log) - 1
    BY <2>2
  <2>6. Len(log) = n + 1 /\ n \in Nat
    BY <2>3, <2>5
  <2>7. UnansweredIn(log, n + 1) = UnansweredIn(log, n) \cup {n + 1} /\ n + 1 \notin UnansweredIn(log, n)
    BY <1>0, <2>3, <2>6, NextIn
  <2>8. now.awaiting # Never
    BY <1>0, <1>6
  <2>9. (UnansweredIn(log, n) = {}) = (cases[k].awaiting = Never)
    BY <2>1, <2>2, <2>4, <2>5 DEF ClockTells
  <2>10. ASSUME NEW i \in UnansweredIn(log, n + 1), i - 1 \notin UnansweredIn(log, n + 1)
         PROVE  now.awaiting = saved[log[i]]
    <3>1. CASE i = n + 1
      <4>1. n \notin UnansweredIn(log, n)
        BY <2>6, <2>7, <2>10, <3>1
      <4>2. ~(n > 0 /\ log[n] \in Customers)
        <5>1. n > 0 => n \in 1..n /\ \A j \in n..n : j = n
          BY <2>6
        <5> QED
          BY <4>1, <5>1 DEF UnansweredIn
      <4>3. UnansweredIn(log, n) = {}
        BY <2>3, <4>2, TailIn
      <4> QED
        BY <1>6, <2>3, <2>6, <2>9, <3>1, <4>3
    <3>2. CASE i # n + 1
      <4>1. i \in UnansweredIn(log, n) /\ i - 1 \notin UnansweredIn(log, n)
        BY <2>7, <2>10, <3>2
      <4>2. \E j \in OpenCases : cases[j].awaiting = saved[log[i]]
        BY <2>2, <2>5, <4>1 DEF ClockTells
      <4>3. cases[k].awaiting = saved[log[i]] /\ cases[k].awaiting # Never
        BY <2>4, <2>9, <4>1, <4>2
      <4> QED
        BY <1>6, <4>3
    <3> QED
      BY <3>1, <3>2
  <2>11. k \in OpenCases' /\ cases'[k] = now
    BY <1>8, <1>12, <2>1
  <2>12. UnansweredIn(log, Len(log)) # {}
    BY <2>6, <2>7
  <2>13. ClockTells(Len(log))'
    BY <1>0, <2>6, <2>8, <2>10, <2>11, <2>12 DEF ClockTells
  <2> QED
    BY <2>2, <2>13
<1> QED
  BY <1>0, <1>2, <1>8, <1>10, <1>11, <1>13, HandlerMoves DEF Busy

\* The reply that read the burst answers it.
LEMMA AnswerSerial ==
    ASSUME IInv, IInv', SerialInv, NEW m \in Messages, Answer(m)
    PROVE  SerialInv'
<1>0. /\ handler[m].at = "answer" /\ handler[m].at \in Busy /\ m \in Members
      /\ UNCHANGED <<clock, saved, replies, closing, fails, log, serial>>
      /\ IsFiniteSet(replies')
      /\ handler \in [Messages -> Handler] /\ cases \in Seq(Case)
      /\ handler[m] \in Handler
  BY LogType DEF Answer, Busy, SerialInv, OnRecord, IInv, TypeInv, TypeOK, OnlyMembersAnswer
<1>1. PICK k \in DOMAIN cases : k = handler[m].case
  BY <1>0 DEF IInv, TypeInv, TypeOK
<1>2. cases[k] \in Case
  BY RowType DEF IInv, TypeInv
<1>3. CASE cases[k].awaiting = handler[m].awaited
  <2>1. PICK now : now = [cases[k] EXCEPT !.awaiting = Never, !.burst = {}]
    OBVIOUS
  <2>2. /\ now \in Case /\ now.open = cases[k].open /\ now.first = cases[k].first
        /\ now.awaiting = Never
    BY <1>2, <2>1 DEF Case, Never
  <2>3. PICK h : h = [handler[m] EXCEPT !.at = "reply", !.burst = cases[k].burst]
    OBVIOUS
  <2>4. h \in Handler /\ h.at = "reply" /\ h.case = k /\ h.first = handler[m].first
    BY <1>0, <1>1, <1>2, <2>3 DEF Handler, Case, Stages
  <2>5. cases' = [cases EXCEPT ![k] = now] /\ handler' = [handler EXCEPT ![m] = h]
    BY <1>1, <1>3, <2>1, <2>3 DEF Answer, Take
  <2>6. /\ DOMAIN cases' = DOMAIN cases
        /\ \A j \in DOMAIN cases : cases'[j] = IF j = k THEN now ELSE cases[j]
    BY <1>0, <2>2, <2>5, SetRow
  <2>7. handler'[m] = h
    BY <1>0, <2>4, <2>5
  <2>8. serial => FirstsAgree'
    BY <1>0, <2>2, <2>6, FirstsStay DEF Busy
  <2>9. OpenCases' = OpenCases
    BY <2>2, <2>6 DEF OpenCases
  <2>10. ASSUME serial
         PROVE  /\ UpToDateOf(m)' /\ ClockTells(Len(log))'
                /\ Cardinality(replies) = Cardinality(TurnsIn(log, Len(log) - 1))
    <3>1. /\ SerialTalk /\ k \in OpenCases /\ handler[m].first = cases[k].first
          /\ Len(log) > 1 /\ log[Len(log) - 1] \in Customers
      BY <1>0, <1>1, <2>10 DEF SerialInv, SerialTalk, UpToDate, UpToDateOf
    <3>2. /\ Len(log) - 1 \in Nat
          /\ Cardinality(replies) = Cardinality(TurnsIn(log, Len(log) - 1))
      BY <1>0, <3>1, BusyTalk
    <3>3. m = log[Len(log)] /\ Len(log) \in Nat
      BY <1>0, <3>1, AloneMessage
    <3>4. \A j \in OpenCases : j = k
      BY <3>1 DEF IInv, OneOpenCase, OpenCases
    <3>5. UpToDateOf(m)'
      BY <1>0, <2>2, <2>4, <2>6, <2>7, <3>1 DEF UpToDateOf
    <3>6. PICK n \in Nat : n = Len(log) - 1
      BY <3>2
    <3>7. Len(log) = n + 1 /\ log[n + 1] \notin Customers
      BY <1>0, <3>3, <3>6, LogType
    <3>8. UnansweredIn(log, Len(log)) = {}
      BY <3>7, NextIn
    <3>9. \A j \in OpenCases' : cases'[j].awaiting = Never
      BY <2>2, <2>6, <2>9, <3>4
    <3>10. ClockTells(Len(log))'
      BY <1>0, <3>8, <3>9 DEF ClockTells
    <3> QED
      BY <3>2, <3>5, <3>10
  <2> QED
    BY <1>0, <2>4, <2>5, <2>6, <2>8, <2>10, HandlerMoves DEF Busy
<1>4. CASE cases[k].awaiting # handler[m].awaited
  <2>1. PICK h : h = Idle("done")
    OBVIOUS
  <2>2. h \in Handler /\ h.at = "done"
    BY <2>1, IdleIs DEF Stages
  <2>3. handler' = [handler EXCEPT ![m] = h] /\ cases' = cases
    BY <1>1, <1>4, <2>1 DEF Answer
  <2>4. ~serial
    BY <1>0, <1>1, <1>4 DEF SerialInv, SerialTalk, UpToDate, UpToDateOf
  <2> QED
    BY <1>0, <2>2, <2>3, <2>4, HandlerMoves DEF Busy
<1> QED
  BY <1>3, <1>4

\* One sample per turn; the first of its case says so.
LEMMA SaveReplySerial ==
    ASSUME IInv, IInv', SerialInv, NEW m \in Messages, SaveReply(m)
    PROVE  SerialInv'
<1>0. /\ handler[m].at = "reply" /\ handler[m].at \in Busy /\ m \in Members
      /\ UNCHANGED <<clock, saved, cases, closing, fails, log, serial>>
      /\ IsFiniteSet(replies)
      /\ handler \in [Messages -> Handler] /\ cases \in Seq(Case)
      /\ handler[m] \in Handler
  BY LogType DEF SaveReply, Busy, SerialInv, OnRecord, IInv, TypeInv, TypeOK, OnlyMembersAnswer
<1>1. PICK k \in DOMAIN cases : k = handler[m].case
  BY <1>0 DEF IInv, TypeInv, TypeOK
<1>2. PICK r : r = [case |-> handler[m].case, by |-> m,
                    awaitedFrom |-> handler[m].awaited, repliedAt |-> saved[m],
                    isFirst |-> (handler[m].first = Never), burst |-> handler[m].burst]
  OBVIOUS
<1>3. r.case = k /\ r.by = m /\ r.isFirst = (handler[m].first = Never)
  BY <1>1, <1>2
<1>4. replies' = replies \cup {r} /\ IsFiniteSet(replies')
  BY <1>0, <1>2, FS_AddElement DEF SaveReply
<1>5. PICK h : h = IF handler[m].first = Never
                   THEN [handler[m] EXCEPT !.at = "first", !.burst = {}]
                   ELSE Idle("done")
  OBVIOUS
<1>6. /\ h \in Handler /\ h.at \in {"first", "done"}
      /\ h.at = "first" => handler[m].first = Never /\ h.case = k
      /\ handler[m].first = Never => h.at = "first"
  <2>1. CASE handler[m].first = Never
    BY <1>0, <1>1, <1>5, <2>1 DEF Handler, Stages
  <2>2. CASE handler[m].first # Never
    BY <1>5, <2>2, IdleIs DEF Stages
  <2> QED
    BY <2>1, <2>2
<1>7. handler' = [handler EXCEPT ![m] = h]
  BY <1>5 DEF SaveReply
<1>8. handler'[m] = h /\ \A n \in Messages : n # m => handler'[n] = handler[n]
  BY <1>0, <1>6, <1>7
<1>9. r \notin replies
  BY <1>0, <1>3 DEF SerialInv, OnRecord
<1>10. ASSUME serial
       PROVE  /\ UpToDateOf(m)' /\ FirstsAgree' /\ ClockTells(Len(log))'
              /\ Cardinality(replies') = Cardinality(TurnsIn(log, Len(log)))
  <2>1. /\ SerialTalk /\ FirstsAgree /\ handler[m].first = cases[k].first
        /\ Len(log) > 1 /\ log[Len(log) - 1] \in Customers
    BY <1>0, <1>1, <1>10 DEF SerialInv, SerialTalk, UpToDate, UpToDateOf
  <2>2. /\ Len(log) - 1 \in Nat /\ ClockTells(Len(log))
        /\ Cardinality(replies) = Cardinality(TurnsIn(log, Len(log) - 1))
    BY <1>0, <2>1, BusyTalk
  <2>3. /\ m = log[Len(log)] /\ Len(log) \in Nat
        /\ \A n \in Messages : n # m => handler[n].at \in {"unsaved", "find", "done"}
    BY <1>0, <2>1, AloneMessage
  <2>4. UpToDateOf(m)'
    BY <1>0, <1>6, <1>8, <2>1 DEF UpToDateOf
  <2>5. ClockTells(Len(log))'
    BY <1>0, <2>2 DEF ClockTells, OpenCases
  <2>6. Cardinality(replies') = Cardinality(TurnsIn(log, Len(log)))
    <3>1. PICK n \in Nat : n = Len(log) - 1
      BY <2>2
    <3>2. /\ Len(log) = n + 1 /\ n > 0
          /\ log[n + 1] \in Members /\ log[n] \in Customers
      BY <1>0, <2>1, <2>3, <3>1
    <3>3. /\ TurnsIn(log, n + 1) = TurnsIn(log, n) \cup {n + 1}
          /\ n + 1 \notin TurnsIn(log, n) /\ IsFiniteSet(TurnsIn(log, n))
      BY <3>2, NextIn
    <3>4. Cardinality(TurnsIn(log, n + 1)) = Cardinality(TurnsIn(log, n)) + 1
      BY <3>3, FS_AddElement
    <3>5. Cardinality(replies') = Cardinality(replies) + 1
      BY <1>0, <1>4, <1>9, FS_AddElement
    <3> QED
      BY <2>2, <3>1, <3>2, <3>4, <3>5
  <2>7. ASSUME NEW j \in DOMAIN cases
        PROVE  /\ Replied(j)' => \E s \in replies' : Firsts(j)' = {s}
               /\ cases[j].first # Never => Replied(j)'
               /\ Replied(j)' /\ cases[j].first = Never =>
                     \E n \in Messages : handler'[n].at = "first" /\ handler'[n].case = j
    <3>0. /\ Replied(j) => \E s \in replies : Firsts(j) = {s}
          /\ cases[j].first # Never => Replied(j)
          /\ Replied(j) /\ cases[j].first = Never =>
                \E n \in Messages : handler[n].at = "first" /\ handler[n].case = j
      BY <2>1 DEF FirstsAgree
    <3>1. Replied(j) => cases[j].first # Never
      BY <1>0, <2>3, <3>0
    <3>2. CASE j # k
      <4>1. (Replied(j)' <=> Replied(j)) /\ Firsts(j)' = Firsts(j)
        BY <1>3, <1>4, <3>2 DEF Replied, Firsts
      <4> QED
        BY <1>4, <3>0, <3>1, <4>1
    <3>3. CASE j = k /\ cases[k].first = Never
      <4>1. ~Replied(k)
        BY <3>1, <3>3
      <4>2. Firsts(k)' = {r}
        BY <1>3, <1>4, <2>1, <3>3, <4>1 DEF Firsts, Replied
      <4>3. h.at = "first" /\ h.case = k
        BY <1>6, <2>1, <3>3
      <4> QED
        BY <1>4, <1>8, <3>3, <4>2, <4>3
    <3>4. CASE j = k /\ cases[k].first # Never
      <4>1. Firsts(k)' = Firsts(k)
        BY <1>3, <1>4, <2>1, <3>4 DEF Firsts
      <4>2. Replied(k)'
        BY <1>3, <1>4 DEF Replied
      <4> QED
        BY <1>4, <3>0, <3>4, <4>1, <4>2
    <3> QED
      BY <3>2, <3>3, <3>4
  <2>8. FirstsAgree'
    BY <1>0, <2>7 DEF FirstsAgree
  <2> QED
    BY <2>4, <2>5, <2>6, <2>8
<1>11. \A s \in replies' : \/ s \in replies
                           \/ /\ s.by = m /\ h.at \in {"first", "done"}
                              /\ s.case \in DOMAIN cases'
  BY <1>0, <1>3, <1>4, <1>6
<1> QED
  BY <1>0, <1>4, <1>6, <1>7, <1>10, <1>11, HandlerMoves DEF Busy

LEMMA MarkFirstSerial ==
    ASSUME IInv, IInv', SerialInv, NEW m \in Messages, MarkFirst(m)
    PROVE  SerialInv'
<1>0. /\ handler[m].at = "first" /\ handler[m].at \in Busy /\ m \in Members
      /\ handler' = [handler EXCEPT ![m] = Idle("done")]
      /\ UNCHANGED <<clock, saved, replies, closing, fails, log, serial>>
      /\ IsFiniteSet(replies')
      /\ handler \in [Messages -> Handler] /\ cases \in Seq(Case)
      /\ saved[m] \in Nat /\ saved[m] # Never
  BY LogType DEF MarkFirst, Busy, SerialInv, OnRecord, IInv, TypeInv, TypeOK, OnlyMembersAnswer
<1>1. PICK h : h = Idle("done")
  OBVIOUS
<1>2. h \in Handler /\ h.at = "done" /\ handler' = [handler EXCEPT ![m] = h]
  BY <1>0, <1>1, IdleIs DEF Stages
<1>3. PICK k \in DOMAIN cases : k = handler[m].case
  BY <1>0 DEF IInv, TypeInv, TypeOK
<1>4. cases[k] \in Case
  BY RowType DEF IInv, TypeInv
<1>5. PICK now : now = [cases[k] EXCEPT !.first = IF cases[k].first = Never THEN saved[m]
                                                  ELSE cases[k].first]
  OBVIOUS
<1>6. /\ now \in Case /\ now.open = cases[k].open /\ now.awaiting = cases[k].awaiting
      /\ now.first # Never
      /\ cases[k].first # Never => now = cases[k]
  BY <1>0, <1>4, <1>5 DEF Case
<1>7. /\ DOMAIN cases' = DOMAIN cases
      /\ \A j \in DOMAIN cases : cases'[j] = IF j = k THEN now ELSE cases[j]
  <2>1. CASE cases[k].first = Never
    <3>1. cases' = [cases EXCEPT ![k].first = saved[m]]
      BY <1>3, <2>1 DEF MarkFirst
    <3>2. cases' = [cases EXCEPT ![k] = now]
      BY <1>5, <2>1, <3>1
    <3> QED
      BY <1>0, <1>6, <3>2, SetRow
  <2>2. CASE cases[k].first # Never
    BY <1>3, <1>6, <2>2 DEF MarkFirst
  <2> QED
    BY <2>1, <2>2
<1>8. handler'[m] = h
  BY <1>0, <1>2
<1>9. UpToDateOf(m)'
  BY <1>2, <1>8 DEF UpToDateOf
<1>10. OpenCases' = OpenCases
  BY <1>6, <1>7 DEF OpenCases
<1>11. ASSUME serial
       PROVE  /\ FirstsAgree' /\ ClockTells(Len(log))'
              /\ Cardinality(replies) = Cardinality(TurnsIn(log, Len(log)))
  <2>1. SerialTalk /\ FirstsAgree
    BY <1>11 DEF SerialInv, SerialTalk
  <2>2. /\ ClockTells(Len(log))
        /\ Cardinality(replies) = Cardinality(TurnsIn(log, Len(log)))
    BY <1>0, <2>1, BusyTalk
  <2>3. \A n \in Messages : n # m => handler[n].at # "first"
    BY <1>0, <2>1, AloneMessage
  <2>4. \A j \in OpenCases : cases'[j].awaiting = cases[j].awaiting
    BY <1>6, <1>7 DEF OpenCases
  <2>5. ClockTells(Len(log))'
    BY <1>0, <1>10, <2>2, <2>4 DEF ClockTells
  <2>6. \A j : (Replied(j)' <=> Replied(j)) /\ Firsts(j)' = Firsts(j)
    BY <1>0 DEF Replied, Firsts
  <2>7. Replied(k)
    BY <1>0, <1>3 DEF Replied, IInv, MarksItsSample
  <2>8. FirstsAgree'
    <3>1. ASSUME NEW j \in DOMAIN cases, j # k PROVE Replied(j) => cases[j].first # Never
      BY <1>3, <2>1, <2>3, <3>1 DEF FirstsAgree
    <3>2. ASSUME NEW j \in DOMAIN cases
          PROVE  /\ Replied(j) => \E s \in replies : Firsts(j) = {s}
                 /\ cases'[j].first # Never => Replied(j)
                 /\ Replied(j) => cases'[j].first # Never
      BY <1>6, <1>7, <2>1, <2>7, <3>1 DEF FirstsAgree
    <3> QED
      BY <1>0, <1>7, <2>6, <3>2 DEF FirstsAgree
  <2> QED
    BY <2>2, <2>5, <2>8
<1>12. \A s \in replies' : s \in replies
  BY <1>0
<1> QED
  BY <1>0, <1>2, <1>7, <1>9, <1>11, <1>12, HandlerMoves DEF Busy

LEMMA CloseBegins ==
    ASSUME IInv, IInv', SerialInv, NEW c \in Closers, FindToClose(c)
    PROVE  SerialInv'
<1>0. /\ closing[c].at = "idle" /\ Begin(c) /\ c \notin Messages
      /\ UNCHANGED <<clock, saved, cases, replies, handler, fails>>
  BY LogType DEF FindToClose
<1>1. PICK k \in OpenCases : closing' = [closing EXCEPT ![c] = [at |-> "close", case |-> k]]
  BY DEF FindToClose
<1>2. \A d \in Closers : closing'[d] = IF d = c THEN [at |-> "close", case |-> k]
                                       ELSE closing[d]
  BY <1>1, LogType
<1>3. /\ Len(log') = Len(log) + 1 /\ log'[Len(log) + 1] = c /\ Len(log) \in Nat
      /\ \A i \in 1..Len(log) : log'[i] = log[i]
      /\ DOMAIN log' = (1..Len(log)) \cup {Len(log) + 1}
  BY <1>0, LogGrows, LogType DEF Begin
<1>4. OnRecord'
  <2>1. \A i \in 1..Len(log) : log[i] \in Messages =>
           handler[log[i]].at \notin {"unsaved", "find"}
    BY LogType DEF SerialInv, OnRecord
  <2>2. \A i \in DOMAIN log' : log'[i] \in Messages =>
           handler'[log'[i]].at \notin {"unsaved", "find"}
    BY <1>0, <1>3, <2>1
  <2> QED
    BY <1>0, <2>2 DEF SerialInv, OnRecord
<1>5. ASSUME serial' PROVE SerialTalk'
  <2>1. serial /\ Running = {} /\ SerialTalk
    BY <1>0, <1>5 DEF Begin, SerialInv
  <2>2. /\ \A n \in Messages : handler[n].at \in {"unsaved", "find", "done"}
        /\ \A d \in Closers : closing[d].at # "close"
        /\ ClockTells(Len(log))
        /\ Cardinality(replies) = Cardinality(TurnsIn(log, Len(log)))
    BY <2>1, AtRest
  <2>3. OneAtATime'
    <3>1. \A x \in Running' : x = c
      BY <1>0, <1>2, <2>2 DEF Running
    <3>2. log' # <<>>
      BY <1>3
    <3> QED
      BY <1>3, <3>1, <3>2 DEF OneAtATime
  <2>4. OpenCases' = OpenCases
    BY <1>0 DEF OpenCases
  <2>5. UpToDate'
    <3>1. \A n \in Messages : UpToDateOf(n)'
      BY <1>0, <2>2 DEF UpToDateOf
    <3>2. \A d \in Closers : closing'[d].at = "close" => closing'[d].case \in OpenCases
      BY <1>2, <2>2
    <3> QED
      BY <2>4, <3>1, <3>2 DEF UpToDate
  <2>6. FirstsAgree'
    <3>1. \A j : (Replied(j)' <=> Replied(j)) /\ Firsts(j)' = Firsts(j)
      BY <1>0 DEF Replied, Firsts
    <3> QED
      BY <1>0, <2>1, <3>1 DEF SerialTalk, FirstsAgree
  <2>7. /\ Undecided' # {} /\ Unsampled' = {}
    <3>1. c \in Undecided'
      BY <1>2 DEF Undecided
    <3>2. Unsampled' = {}
      BY <1>0, <2>2 DEF Unsampled
    <3> QED
      BY <3>1, <3>2
  <2>8. ASSUME NEW n \in 0..Len(log'), n = Told' PROVE ClockTells(n)'
    <3>1. n = Len(log) /\ n \in 0..Len(log)
      BY <1>3, <2>7, <2>8 DEF Told
    <3>2. ClockTells(n)
      BY <2>2, <3>1
    <3>3. /\ \A i \in 1..n : saved'[log[i]] = saved[log[i]]
          /\ \A j \in OpenCases : j \in OpenCases' /\ cases'[j].awaiting = cases[j].awaiting
          /\ \A j \in OpenCases' : j \in OpenCases \/ cases'[j].awaiting = Never
      BY <1>0, <2>4
    <3> QED
      BY <1>3, <3>1, <3>2, <3>3, ClockStays
  <2>9. ASSUME NEW n \in 0..Len(log'), n = Sampled'
        PROVE  Cardinality(replies') = Cardinality(TurnsIn(log', n))
    <3>1. n = Len(log) + 1
      BY <1>3, <2>7, <2>9 DEF Sampled
    <3>2. TurnsIn(log', Len(log) + 1) = TurnsIn(log', Len(log))
      BY <1>0, <1>3, NextIn, LogType
    <3>3. TurnsIn(log', Len(log)) = TurnsIn(log, Len(log))
      BY <1>3, SaidStays
    <3> QED
      BY <1>0, <2>2, <3>1, <3>2, <3>3
  <2> QED
    BY <2>3, <2>5, <2>6, <2>8, <2>9 DEF SerialTalk
<1> QED
  BY <1>4, <1>5 DEF SerialInv

\* The close takes the case with its clock.
LEMMA CloseSerial ==
    ASSUME IInv, IInv', SerialInv, NEW c \in Closers, Close(c)
    PROVE  SerialInv'
<1>0. /\ closing[c].at = "close" /\ c \notin Messages
      /\ closing' = [closing EXCEPT ![c] = [at |-> "done", case |-> 0]]
      /\ UNCHANGED <<clock, saved, replies, handler, fails, log, serial>>
      /\ cases \in Seq(Case)
  BY LogType DEF Close, IInv, TypeInv, TypeOK
<1>1. \A d \in Closers : closing'[d] = IF d = c THEN [at |-> "done", case |-> 0]
                                       ELSE closing[d]
  BY <1>0, LogType
<1>2. PICK k \in DOMAIN cases : k = closing[c].case
  BY <1>0 DEF IInv, TypeInv, TypeOK
<1>3. cases[k] \in Case
  BY RowType DEF IInv, TypeInv
<1>4. PICK now : now = [cases[k] EXCEPT !.open = FALSE, !.burst = {}, !.awaiting = Never]
  OBVIOUS
<1>5. now \in Case /\ ~now.open /\ now.first = cases[k].first
  BY <1>3, <1>4 DEF Case, Never
<1>6. /\ DOMAIN cases' = DOMAIN cases
      /\ \A j \in DOMAIN cases : j # k => cases'[j] = cases[j]
      /\ ~cases'[k].open /\ cases'[k].first = cases[k].first
  <2>1. CASE cases[k].open
    <3>1. cases' = [cases EXCEPT ![k] = now]
      BY <1>2, <1>4, <2>1 DEF Close
    <3> QED
      BY <1>0, <1>5, <3>1, SetRow
  <2>2. CASE ~cases[k].open
    BY <1>2, <2>2 DEF Close
  <2> QED
    BY <2>1, <2>2
<1>7. OnRecord'
  BY <1>0, <1>6 DEF SerialInv, OnRecord
<1>8. ASSUME serial PROVE SerialTalk'
  <2>1. SerialTalk /\ k \in OpenCases
    BY <1>0, <1>2, <1>8 DEF SerialInv, SerialTalk, UpToDate
  <2>2. /\ c = log[Len(log)] /\ Len(log) \in Nat \ {0}
        /\ \A n \in Messages : handler[n].at \in {"unsaved", "find", "done"}
        /\ \A d \in Closers : d # c => closing[d].at # "close"
    <3>1. c \in Running
      BY <1>0, RunningIsBusy
    <3>2. c = log[Len(log)] /\ log # <<>> /\ \A x \in Running : x = c
      BY <2>1, <3>1 DEF SerialTalk, OneAtATime
    <3>3. Len(log) # 0
      BY <3>2, LogType, EmptySeq
    <3> QED
      BY <1>0, <3>2, <3>3, RunningIsBusy, LogType
  <2>3. OneAtATime'
    <3>1. Running' = {}
      BY <1>0, <1>1, <2>2 DEF Running
    <3> QED
      BY <3>1 DEF OneAtATime
  <2>4. UpToDate'
    <3>1. \A n \in Messages : UpToDateOf(n)'
      BY <1>0, <2>2 DEF UpToDateOf
    <3>2. \A d \in Closers : closing'[d].at # "close"
      BY <1>1, <2>2
    <3> QED
      BY <3>1, <3>2 DEF UpToDate
  <2>5. FirstsAgree'
    <3>1. \A j : (Replied(j)' <=> Replied(j)) /\ Firsts(j)' = Firsts(j)
      BY <1>0 DEF Replied, Firsts
    <3>2. \A j \in DOMAIN cases : cases'[j].first = cases[j].first
      BY <1>6
    <3> QED
      BY <1>0, <1>6, <2>1, <3>1, <3>2 DEF SerialTalk, FirstsAgree
  <2>6. OpenCases' = {}
    <3>1. \A j \in OpenCases : j = k
      BY <2>1 DEF IInv, OneOpenCase, OpenCases
    <3> QED
      BY <1>6, <3>1 DEF OpenCases
  <2>7. Undecided' = {} /\ Unsampled' = {} /\ Unsampled = {}
    <3>1. \A n \in Messages : handler'[n].at \in {"unsaved", "find", "done"}
      BY <1>0, <2>2
    <3>2. \A d \in Closers : closing'[d].at # "close"
      BY <1>1, <2>2
    <3>3. Undecided' = {}
      BY <3>1, <3>2 DEF Undecided
    <3>4. Unsampled = {} /\ Unsampled' = {}
      BY <2>2, <3>1 DEF Unsampled
    <3> QED
      BY <3>3, <3>4
  <2>8. UnansweredIn(log, Len(log)) = {}
    <3>1. Len(log) - 1 \in Nat
      BY <2>2
    <3>2. PICK n \in Nat : n = Len(log) - 1
      BY <3>1
    <3>3. Len(log) = n + 1
      BY <2>2, <3>2
    <3>4. log[n + 1] \notin Customers
      BY <1>0, <2>2, <3>3, LogType
    <3> QED
      BY <3>3, <3>4, NextIn
  <2>9. ASSUME NEW n \in 0..Len(log'), n = Told' PROVE ClockTells(n)'
    <3>1. n = Len(log)
      BY <1>0, <2>7, <2>9 DEF Told
    <3> QED
      BY <1>0, <2>6, <2>8, <3>1 DEF ClockTells
  <2>10. ASSUME NEW n \in 0..Len(log'), n = Sampled'
         PROVE  Cardinality(replies') = Cardinality(TurnsIn(log', n))
    <3>1. n = Sampled /\ n \in 0..Len(log)
      BY <1>0, <2>7, <2>10 DEF Sampled
    <3> QED
      BY <1>0, <2>1, <3>1 DEF SerialTalk
  <2> QED
    BY <2>3, <2>4, <2>5, <2>9, <2>10 DEF SerialTalk
<1> QED
  BY <1>0, <1>7, <1>8 DEF SerialInv
-----------------------------------------------------------------------------
LEMMA InitSerial == Init => SerialInv
<1> SUFFICES ASSUME Init PROVE SerialInv
  OBVIOUS
<1>1. /\ \A m \in Messages : handler[m].at = "unsaved"
      /\ \A c \in Closers : closing[c].at = "idle"
      /\ cases = <<>> /\ DOMAIN cases = {} /\ replies = {} /\ log = <<>> /\ Len(log) = 0
  BY EmptySeq DEF Init, Idle
<1>2. OnRecord
  BY <1>1, FS_EmptySet DEF OnRecord
<1>3. OpenCases = {} /\ Running = {}
  BY <1>1 DEF OpenCases, Running
<1>4. OneAtATime /\ UpToDate /\ FirstsAgree
  BY <1>1, <1>3 DEF OneAtATime, UpToDate, UpToDateOf, FirstsAgree
<1>5. UnansweredIn(log, 0) = {} /\ TurnsIn(log, 0) = {}
  BY DEF UnansweredIn, TurnsIn
<1>6. \A n \in 0..Len(log) : n = 0
  BY <1>1
<1>7. ClockTells(0) /\ Cardinality(replies) = Cardinality(TurnsIn(log, 0))
  BY <1>1, <1>3, <1>5 DEF ClockTells
<1> QED
  BY <1>2, <1>4, <1>6, <1>7 DEF SerialInv, SerialTalk

LEMMA StepSerial == IInv /\ IInv' /\ SerialInv /\ [Next]_vars => SerialInv'
<1> SUFFICES ASSUME IInv, IInv', SerialInv, [Next]_vars PROVE SerialInv'
  OBVIOUS
<1>1. CASE Tick
  BY <1>1, TickSerial DEF Tick
<1>2. CASE \E m \in Messages : Save(m) \/ Inbound(m) \/ Outbound(m) \/ Fail(m)
  <2> PICK m \in Messages : Save(m) \/ Inbound(m) \/ Outbound(m) \/ Fail(m)
    BY <1>2
  <2>1. CASE Save(m)
    BY <2>1, SaveSerial
  <2>2. CASE Inbound(m)
    BY <2>2, FindOpenSerial, OpenSerial, RefindSerial, StartClockSerial DEF Inbound
  <2>3. CASE Outbound(m)
    BY <2>3, FindBurstSerial, AnswerSerial, SaveReplySerial, MarkFirstSerial DEF Outbound
  <2>4. CASE Fail(m)
    BY <2>4, FailSerial
  <2> QED
    BY <2>1, <2>2, <2>3, <2>4
<1>3. CASE \E c \in Closers : FindToClose(c) \/ Close(c)
  BY <1>3, CloseBegins, CloseSerial
<1>4. CASE UNCHANGED vars
  BY <1>4, TickSerial DEF vars
<1> QED
  BY <1>1, <1>2, <1>3, <1>4 DEF Next

\* While no handler and no close overlaps another, and none fails, the waiting
\* list and the samples say what the conversation says: the clock of the open
\* case runs from the first message that is unanswered, and every turn of the
\* team has one sample, the first of its case marked (cases.service.ts:43-190).
THEOREM ClockIsKept == Spec => []SerialHandlersKeepTheClock
<1>1. ASSUME IInv, SerialInv PROVE SerialHandlersKeepTheClock
  <2> SUFFICES ASSUME serial, Quiet, Closed
               PROVE  /\ (Unanswered = {}) = (\A k \in OpenCases : cases[k].awaiting = Never)
                      /\ \A i \in Unanswered : i - 1 \notin Unanswered =>
                            \E k \in OpenCases : cases[k].awaiting = saved[log[i]]
                      /\ Cardinality(replies) = Cardinality(Turns)
                      /\ \A k \in DOMAIN cases :
                            (\E r \in replies : r.case = k)
                               => Cardinality({r \in replies : r.case = k /\ r.isFirst}) = 1
    BY DEF SerialHandlersKeepTheClock
  <2>1. SerialTalk /\ Running = {}
    BY <1>1 DEF SerialInv, Running, Quiet, Closed
  <2>2. ClockTells(Len(log)) /\ Cardinality(replies) = Cardinality(TurnsIn(log, Len(log)))
    BY <1>1, <2>1, AtRest
  <2>3. Unanswered = UnansweredIn(log, Len(log)) /\ Turns = TurnsIn(log, Len(log))
    BY <1>1, LogType DEF Unanswered, UnansweredIn, Turns, TurnsIn
  <2>4. ASSUME NEW k \in DOMAIN cases, \E r \in replies : r.case = k
        PROVE  Cardinality({r \in replies : r.case = k /\ r.isFirst}) = 1
    <3>1. \E r \in replies : {s \in replies : s.case = k /\ s.isFirst} = {r}
      BY <2>1, <2>4 DEF SerialTalk, FirstsAgree, Replied, Firsts
    <3> QED
      BY <3>1, FS_Singleton
  <2> QED
    BY <2>2, <2>3, <2>4 DEF ClockTells
<1>2. Init => IInv /\ SerialInv
  BY InitInv, InitSerial
<1>3. IInv /\ SerialInv /\ [Next]_vars => (IInv /\ SerialInv)'
  BY StepInv, StepSerial
<1> QED
  BY <1>1, <1>2, <1>3, PTL DEF Spec
-----------------------------------------------------------------------------
(* The analyses and their retries (Sentiment). *)

\* A scan only tries rows that have attempts left.
ScansInBounds ==
    \A s \in Scanners :
        /\ \A d \in scan[s].todo : d[2] < MaxRetries
        /\ scan[s].at = "schedule" => scan[s].id \in Rows /\ scan[s].count < MaxRetries

SentimentShape == SentimentTypeOK /\ ScansInBounds

\* A worker holds a job and a row at the stages that need one.
Holding(x) ==
    /\ x.id = NoRow <=> x.at = "idle"
    /\ x.row = NoRow <=> x.at \in {"idle", "start"}

LEMMA WorkerTurn ==
    ASSUME SentimentShape, NEW w \in Workers, NEW x \in Worker, Holding(x),
           worker' = [worker EXCEPT ![w] = x],
           row' \in [Rows -> Row],
           job' \in [JobIds -> {"none", "waiting", "active", "done"}],
           stalls' \in [JobIds -> 0..MaxStalls], calls' \in [Rows -> Nat],
           errors' \in 0..MaxErrors, UNCHANGED <<scan, enabled, toggles>>
    PROVE  SentimentShape'
<1>1. worker' \in [Workers -> Worker]
  BY DEF SentimentShape, SentimentTypeOK
<1>2. \A v \in Workers : worker'[v] = IF v = w THEN x ELSE worker[v]
  BY DEF SentimentShape, SentimentTypeOK
<1>3. ASSUME NEW v \in Workers
      PROVE  /\ worker'[v].id = NoRow <=> worker'[v].at = "idle"
             /\ worker'[v].row = NoRow <=> ~ Analysing(v)'
  <2>1. x.at \in WorkerStages
    BY DEF Worker
  <2> QED
    BY <1>2, <2>1 DEF SentimentShape, SentimentTypeOK, Holding, Analysing, WorkerStages
<1> QED
  BY <1>1, <1>3 DEF SentimentShape, SentimentTypeOK, ScansInBounds

\* What a worker at a stage holds.
LEMMA WorkerType ==
    ASSUME SentimentShape, NEW w \in Workers
    PROVE  /\ worker[w] \in Worker /\ Holding(worker[w])
           /\ worker[w].at # "idle" => worker[w].id \in JobIds
           /\ worker[w].at \notin {"idle", "start"} => worker[w].row \in Rows
           /\ Analysing(w) <=> worker[w].at \notin {"idle", "start"}
BY DEF SentimentShape, SentimentTypeOK, Worker, WorkerStages, Analysing, Holding

LEMMA RestingType == Resting \in Worker /\ Holding(Resting)
BY DEF Resting, Worker, WorkerStages, Holding

LEMMA Finished ==
    ASSUME SentimentShape, NEW w \in Workers, Finish(w),
           row' \in [Rows -> Row], errors' \in 0..MaxErrors
    PROVE  SentimentShape'
<1>1. job' \in [JobIds -> {"none", "waiting", "active", "done"}]
  BY DEF SentimentShape, SentimentTypeOK, Finish, Ended
<1> QED
  BY <1>1, RestingType, WorkerTurn DEF SentimentShape, SentimentTypeOK, Finish

LEMMA TakeJobShape ==
    ASSUME SentimentShape, NEW w \in Workers, NEW j \in JobIds, TakeJob(w, j)
    PROVE  SentimentShape'
<1> DEFINE x == [Resting EXCEPT !.at = "start", !.id = j]
<1>1. x \in Worker /\ Holding(x)
  BY SentimentAssumption DEF Resting, Worker, WorkerStages, Holding
<1>2. worker' = [worker EXCEPT ![w] = x]
  BY DEF TakeJob
<1>3. job' \in [JobIds -> {"none", "waiting", "active", "done"}]
  BY DEF TakeJob, SentimentShape, SentimentTypeOK
<1> HIDE DEF x
<1> QED
  BY <1>1, <1>2, <1>3, WorkerTurn DEF SentimentShape, SentimentTypeOK, TakeJob

LEMMA StartsOn ==
    ASSUME SentimentShape, NEW w \in Workers, NEW a \in Rows, worker[w].at = "start"
    PROVE  LET x == [worker[w] EXCEPT !.at = "switch", !.row = a]
           IN  x \in Worker /\ Holding(x)
BY WorkerType, SentimentAssumption DEF Worker, WorkerStages, Holding

LEMMA CreateProcessingShape ==
    ASSUME SentimentShape, NEW w \in Workers, NEW a \in Rows, CreateProcessing(w, a)
    PROVE  SentimentShape'
<1>1. row' \in [Rows -> Row]
  BY DEF SentimentShape, SentimentTypeOK, CreateProcessing, Row
<1>2. worker' = [worker EXCEPT ![w] = [worker[w] EXCEPT !.at = "switch", !.row = a]]
  BY DEF CreateProcessing
<1> QED
  BY <1>1, <1>2, StartsOn, WorkerTurn DEF SentimentShape, SentimentTypeOK, CreateProcessing

LEMMA RetryRow ==
    ASSUME NEW j \in RetryJobs
    PROVE  j[2] \in Rows
BY DEF RetryJobs

LEMMA Restarted ==
    ASSUME SentimentShape, NEW a \in Rows
    PROVE  [row EXCEPT ![a].status = "processing", ![a].reason = "none"] \in [Rows -> Row]
BY DEF SentimentShape, SentimentTypeOK, Row

LEMMA StartRetryShape ==
    ASSUME SentimentShape, NEW w \in Workers, StartRetry(w)
    PROVE  SentimentShape'
<1> DEFINE a == worker[w].id[2]
<1>0. worker[w].at = "start" /\ a \in Rows
  BY RetryRow DEF StartRetry
<1>1. CASE row[a].status = "skipped"
  <2>1. row' \in [Rows -> Row]
    BY <1>0, <1>1, Restarted DEF StartRetry
  <2>2. worker' = [worker EXCEPT ![w] = [worker[w] EXCEPT !.at = "switch", !.row = a]]
    BY <1>1 DEF StartRetry
  <2> QED
    BY <1>0, <1>1, <2>1, <2>2, StartsOn, WorkerTurn
       DEF SentimentShape, SentimentTypeOK, StartRetry
<1>2. CASE row[a].status # "skipped"
  <2>1. Finish(w) /\ row' = row /\ errors' = errors
    BY <1>2 DEF StartRetry, Finish
  <2> QED
    BY <2>1, Finished DEF SentimentShape, SentimentTypeOK
<1> QED
  BY <1>1, <1>2

\* A worker goes on with its job and its row.
LEMMA GoesOn ==
    ASSUME SentimentShape, NEW w \in Workers, Analysing(w),
           NEW stage \in WorkerStages \ {"idle", "start"},
           \/ Goto(w, stage)
           \/ \E reason \in {"none", "kill_switch", "circuit_breaker", "ia_unavailable"} :
                 worker' = [worker EXCEPT ![w].at = stage, ![w].reason = reason],
           calls' \in [Rows -> Nat], errors' \in 0..MaxErrors,
           UNCHANGED <<row, job, stalls, scan, enabled, toggles>>
    PROVE  SentimentShape'
<1>0. worker[w] \in Worker /\ Holding(worker[w]) /\ worker[w].at \notin {"idle", "start"}
  BY WorkerType
<1>1. PICK x \in Worker : Holding(x) /\ worker' = [worker EXCEPT ![w] = x]
  <2>1. CASE Goto(w, stage)
    <3>1. [worker[w] EXCEPT !.at = stage] \in Worker
             /\ Holding([worker[w] EXCEPT !.at = stage])
      BY <1>0 DEF Worker, Holding
    <3>2. worker' = [worker EXCEPT ![w] = [worker[w] EXCEPT !.at = stage]]
      BY <2>1 DEF Goto
    <3> QED
      BY <3>1, <3>2
  <2>2. ASSUME NEW reason \in {"none", "kill_switch", "circuit_breaker", "ia_unavailable"},
               worker' = [worker EXCEPT ![w].at = stage, ![w].reason = reason]
        PROVE  \E x \in Worker : Holding(x) /\ worker' = [worker EXCEPT ![w] = x]
    <3>1. [worker[w] EXCEPT !.at = stage, !.reason = reason] \in Worker
             /\ Holding([worker[w] EXCEPT !.at = stage, !.reason = reason])
      BY <1>0 DEF Worker, Holding
    <3>2. worker' = [worker EXCEPT ![w] = [worker[w] EXCEPT !.at = stage, !.reason = reason]]
      BY <2>2
    <3> QED
      BY <3>1, <3>2
  <2> QED
    BY <2>1, <2>2
<1> QED
  BY <1>1, WorkerTurn DEF SentimentShape, SentimentTypeOK

LEMMA CheckSwitchShape ==
    ASSUME SentimentShape, NEW w \in Workers, CheckSwitch(w)
    PROVE  SentimentShape'
<1>1. Analysing(w)
  BY DEF CheckSwitch, Analysing, WorkerStages
<1>2. UNCHANGED <<row, job, stalls, scan, enabled, calls, errors, toggles>>
  BY DEF CheckSwitch
<1>3. calls' \in [Rows -> Nat] /\ errors' \in 0..MaxErrors
  BY <1>2 DEF SentimentShape, SentimentTypeOK
<1>4. \/ worker' = [worker EXCEPT ![w].at = "gate", ![w].reason = "none"]
      \/ worker' = [worker EXCEPT ![w].at = "skip", ![w].reason = "kill_switch"]
  BY DEF CheckSwitch
<1> QED
  BY <1>1, <1>2, <1>3, <1>4, GoesOn DEF WorkerStages

LEMMA CheckGateShape ==
    ASSUME SentimentShape, NEW w \in Workers, CheckGate(w)
    PROVE  SentimentShape'
<1>1. Analysing(w)
  BY DEF CheckGate, Analysing, WorkerStages
<1>2. UNCHANGED <<row, job, stalls, scan, enabled, calls, errors, toggles>>
  BY DEF CheckGate
<1>3. calls' \in [Rows -> Nat] /\ errors' \in 0..MaxErrors
  BY <1>2 DEF SentimentShape, SentimentTypeOK
<1>4. \/ worker' = [worker EXCEPT ![w].at = "skip", ![w].reason = "circuit_breaker"]
      \/ Goto(w, "call")
  BY DEF CheckGate
<1> QED
  BY <1>1, <1>2, <1>3, <1>4, GoesOn DEF WorkerStages

LEMMA CallIaShape ==
    ASSUME SentimentShape, NEW w \in Workers, CallIa(w)
    PROVE  SentimentShape'
<1>1. Analysing(w)
  BY DEF CallIa, Analysing, WorkerStages
<1>2. calls' \in [Rows -> Nat]
  BY <1>1, WorkerType DEF SentimentShape, SentimentTypeOK, CallIa
<1>3. UNCHANGED <<row, job, stalls, scan, enabled, errors, toggles>> /\ errors' \in 0..MaxErrors
  BY DEF CallIa, SentimentShape, SentimentTypeOK
<1>4. \/ worker' = [worker EXCEPT ![w].at = "skip", ![w].reason = "ia_unavailable"]
      \/ Goto(w, "complete") \/ Goto(w, "fail")
  BY DEF CallIa
<1> QED
  BY <1>1, <1>2, <1>3, <1>4, GoesOn DEF WorkerStages

LEMMA MarksShape ==
    ASSUME SentimentShape, NEW w \in Workers,
           MarkSkipped(w) \/ MarkFailed(w) \/ Complete(w)
    PROVE  SentimentShape'
<1>1. Analysing(w) /\ Finish(w) /\ UNCHANGED errors
  BY DEF MarkSkipped, MarkFailed, Complete, Analysing, WorkerStages
<1>2. worker[w].row \in Rows /\ worker[w] \in Worker
  BY <1>1, WorkerType
<1>3. row' \in [Rows -> Row]
  <2>1. CASE MarkSkipped(w)
    BY <1>2, <2>1 DEF MarkSkipped, SentimentShape, SentimentTypeOK, Row, Worker, Wait
  <2>2. CASE MarkFailed(w) \/ Complete(w)
    BY <1>2, <2>2 DEF MarkFailed, Complete, SentimentShape, SentimentTypeOK, Row
  <2> QED
    BY <2>1, <2>2
<1> QED
  BY <1>1, <1>3, Finished DEF SentimentShape, SentimentTypeOK

LEMMA FailAnalysisShape ==
    ASSUME SentimentShape, NEW w \in Workers, FailAnalysis(w)
    PROVE  SentimentShape'
<1>1. errors' \in 0..MaxErrors
  BY SentimentAssumption DEF FailAnalysis, SentimentShape, SentimentTypeOK
<1>2. ASSUME NEW stage \in {"gate", "fail"}, worker[w].at \in {"switch", "complete"},
             Goto(w, stage), UNCHANGED <<row, job, stalls, scan, enabled, calls, toggles>>
      PROVE  SentimentShape'
  <2>1. Analysing(w)
    BY <1>2 DEF Analysing, WorkerStages
  <2>2. stage \in WorkerStages \ {"idle", "start"}
    BY DEF WorkerStages
  <2> QED
    BY <1>1, <1>2, <2>1, <2>2, GoesOn DEF SentimentShape, SentimentTypeOK
<1>3. CASE Finish(w) /\ UNCHANGED row
  BY <1>1, <1>3, Finished DEF SentimentShape, SentimentTypeOK
<1>4. ASSUME worker[w].id \in RetryJobs, Finish(w),
             row' = [row EXCEPT ![worker[w].id[2]].status = "processing",
                                ![worker[w].id[2]].reason = "none"]
      PROVE  SentimentShape'
  BY <1>1, <1>4, RetryRow, Restarted, Finished
<1> QED
  BY <1>2, <1>3, <1>4 DEF FailAnalysis

LEMMA StallShape ==
    ASSUME SentimentShape, NEW w \in Workers, NEW dies \in BOOLEAN, Stall(w, dies)
    PROVE  SentimentShape'
<1>1. worker[w].id \in JobIds
  BY WorkerType DEF Stall
<1>2. /\ stalls' \in [JobIds -> 0..MaxStalls]
      /\ job' \in [JobIds -> {"none", "waiting", "active", "done"}]
  BY <1>1, SentimentAssumption DEF Stall, SentimentShape, SentimentTypeOK
<1>3. CASE dies
  BY <1>2, <1>3, RestingType, WorkerTurn DEF SentimentShape, SentimentTypeOK, Stall
<1>4. CASE ~ dies
  BY <1>2, <1>4 DEF SentimentShape, SentimentTypeOK, ScansInBounds, Stall, Analysing
<1> QED
  BY <1>3, <1>4

\* A step of a scan.
LEMMA ScanTurn ==
    ASSUME SentimentShape, NEW s \in Scanners, NEW x \in Scan,
           x.at # "idle" => x.todo # {},
           \A d \in x.todo : d[2] < MaxRetries,
           x.at = "schedule" => x.id \in Rows /\ x.count < MaxRetries,
           scan' = [scan EXCEPT ![s] = x],
           row' \in [Rows -> Row],
           job' \in [JobIds -> {"none", "waiting", "active", "done"}],
           errors' \in 0..MaxErrors,
           UNCHANGED <<stalls, worker, enabled, calls, toggles>>
    PROVE  SentimentShape'
<1>1. scan' \in [Scanners -> Scan]
  BY DEF SentimentShape, SentimentTypeOK
<1>2. \A t \in Scanners : scan'[t] = IF t = s THEN x ELSE scan[t]
  BY DEF SentimentShape, SentimentTypeOK
<1>3. ScansInBounds' /\ \A t \in Scanners : scan'[t].at # "idle" => scan'[t].todo # {}
  BY <1>2 DEF SentimentShape, SentimentTypeOK, ScansInBounds
<1> QED
  BY <1>1, <1>3 DEF SentimentShape, SentimentTypeOK, Analysing

LEMMA Rested ==
    ASSUME SentimentShape, NEW s \in Scanners, NEW d
    PROVE  /\ Rest(s, d) \in Scan /\ Rest(s, d).at # "schedule"
           /\ Rest(s, d).at # "idle" => Rest(s, d).todo # {}
           /\ \A e \in Rest(s, d).todo : e[2] < MaxRetries
<1> DEFINE left == scan[s].todo \ {d}
<1>1. left \in SUBSET (Rows \X (0..MaxRetries))
  BY DEF SentimentShape, SentimentTypeOK, Scan
<1> DEFINE at == IF left = {} THEN "idle" ELSE "next"
<1>2. Rest(s, d) = [at |-> at, todo |-> left, id |-> NoRow, count |-> 0]
  <2>1. Rest(s, d) = [Asleep EXCEPT !.at = at, !.todo = left]
    BY DEF Rest
  <2>2. Asleep = [at |-> "idle", todo |-> {}, id |-> NoRow, count |-> 0]
    BY DEF Asleep
  <2> HIDE DEF left, at
  <2> QED
    BY <2>1, <2>2
<1>3. \A e \in left : e[2] < MaxRetries
  BY DEF SentimentShape, ScansInBounds
<1>4. at \in {"idle", "next"} /\ (at = "idle" <=> left = {})
  OBVIOUS
<1> HIDE DEF left, at
<1> QED
  BY <1>1, <1>2, <1>3, <1>4, SentimentAssumption DEF Scan

LEMMA Awoken ==
    ASSUME NEW due \in SUBSET (Rows \X (0..MaxRetries))
    PROVE  LET x == [Asleep EXCEPT !.at = "next", !.todo = due]
           IN  x \in Scan /\ x.at = "next" /\ x.todo = due
<1>1. Asleep \in Scan
  BY SentimentAssumption DEF Asleep, Scan
<1> QED
  BY <1>1 DEF Scan

LEMMA StartScanShape ==
    ASSUME SentimentShape, NEW s \in Scanners, StartScan(s)
    PROVE  SentimentShape'
<1> DEFINE x == [Asleep EXCEPT !.at = "next", !.todo = FindDueRetries]
<1>1. /\ FindDueRetries \in SUBSET (Rows \X (0..MaxRetries))
      /\ \A d \in FindDueRetries : d[2] < MaxRetries
  BY DEF FindDueRetries, SentimentShape, SentimentTypeOK, Row
<1>3. x \in Scan /\ x.at = "next" /\ x.todo = FindDueRetries
  BY <1>1, Awoken
<1>4. errors' \in 0..MaxErrors
  BY SentimentAssumption DEF StartScan, SentimentShape, SentimentTypeOK
<1>5. scan' = [scan EXCEPT ![s] = x] /\ FindDueRetries # {}
  BY DEF StartScan
<1> HIDE DEF x
<1> QED
  BY <1>1, <1>3, <1>4, <1>5, ScanTurn DEF SentimentShape, SentimentTypeOK, StartScan

LEMMA AddRetryShape ==
    ASSUME SentimentShape, NEW s \in Scanners, AddRetry(s)
    PROVE  SentimentShape'
<1>1. PICK d \in scan[s].todo :
        /\ job' = [job EXCEPT ![<<"retry", d[1], d[2] + 1>>] =
                                    IF @ = "none" THEN "waiting" ELSE @]
        /\ scan' = [scan EXCEPT ![s].at = "schedule", ![s].id = d[1], ![s].count = d[2]]
  BY DEF AddRetry
<1> DEFINE x == [scan[s] EXCEPT !.at = "schedule", !.id = d[1], !.count = d[2]]
<1>2. /\ scan[s] \in Scan /\ d \in Rows \X (0..MaxRetries)
      /\ d[2] < MaxRetries
      /\ \A e \in scan[s].todo : e[2] < MaxRetries
  BY DEF SentimentShape, SentimentTypeOK, ScansInBounds, Scan
<1>3. /\ x \in Scan /\ x.todo = scan[s].todo /\ x.id = d[1] /\ x.count = d[2]
  BY <1>2 DEF Scan
<1>4. job' \in [JobIds -> {"none", "waiting", "active", "done"}]
  BY <1>1 DEF SentimentShape, SentimentTypeOK
<1>5. scan' = [scan EXCEPT ![s] = x] /\ scan[s].todo # {}
  BY <1>1
<1>6. row' \in [Rows -> Row] /\ errors' \in 0..MaxErrors
      /\ UNCHANGED <<stalls, worker, enabled, calls, toggles>>
  BY DEF AddRetry, SentimentShape, SentimentTypeOK
<1> HIDE DEF x
<1> QED
  BY <1>2, <1>3, <1>4, <1>5, <1>6, ScanTurn

LEMMA ScheduleRetryAttemptShape ==
    ASSUME SentimentShape, NEW s \in Scanners, ScheduleRetryAttempt(s)
    PROVE  SentimentShape'
<1> DEFINE a == scan[s].id
           n == scan[s].count
<1>1. a \in Rows /\ n \in 0..MaxRetries /\ n < MaxRetries
  BY DEF ScheduleRetryAttempt, SentimentShape, SentimentTypeOK, ScansInBounds, Scan
<1>2. row' \in [Rows -> Row]
  <2>1. n + 1 \in 0..MaxRetries
    BY <1>1, SentimentAssumption
  <2>2. Wait(n + 2) \in {"never", "later", "now"}
    BY DEF Wait
  <2>3. row' = row \/ row' = [row EXCEPT ![a].retryCount = n + 1, ![a].due = Wait(n + 2)]
    BY DEF ScheduleRetryAttempt
  <2>4. row \in [Rows -> Row]
    BY DEF SentimentShape, SentimentTypeOK
  <2> HIDE DEF a, n
  <2>5. [row[a] EXCEPT !.retryCount = n + 1, !.due = Wait(n + 2)] \in Row
    BY <1>1, <2>1, <2>2, <2>4 DEF Row
  <2>6. CASE row' = row
    BY <2>4, <2>6
  <2>7. CASE row' = [row EXCEPT ![a].retryCount = n + 1, ![a].due = Wait(n + 2)]
    BY <1>1, <2>4, <2>5, <2>7
  <2> QED
    BY <2>3, <2>6, <2>7
<1>3. scan' = [scan EXCEPT ![s] = Rest(s, <<a, n>>)]
      /\ UNCHANGED <<job, stalls, worker, enabled, calls, errors, toggles>>
  BY DEF ScheduleRetryAttempt
<1> QED
  BY <1>2, <1>3, Rested, ScanTurn DEF SentimentShape, SentimentTypeOK

LEMMA SkipRetryShape ==
    ASSUME SentimentShape, NEW s \in Scanners, SkipRetry(s)
    PROVE  SentimentShape'
<1>1. errors' \in 0..MaxErrors /\ UNCHANGED <<row, job, stalls, worker, enabled, calls, toggles>>
  BY SentimentAssumption DEF SkipRetry, SentimentShape, SentimentTypeOK
<1>2. PICK d : scan' = [scan EXCEPT ![s] = Rest(s, d)]
  BY DEF SkipRetry
<1> QED
  BY <1>1, <1>2, Rested, ScanTurn DEF SentimentShape, SentimentTypeOK

LEMMA SentimentShapeStep ==
    ASSUME SentimentShape, [SentimentNext]_sentimentVars
    PROVE  SentimentShape'
<1>1. CASE Toggle
  BY <1>1, SentimentAssumption
     DEF Toggle, SentimentShape, SentimentTypeOK, ScansInBounds, Analysing
<1>2. ASSUME NEW a \in Rows, ComeDue(a) PROVE SentimentShape'
  <2>1. row' \in [Rows -> Row]
    BY <1>2 DEF ComeDue, SentimentShape, SentimentTypeOK, Row
  <2> QED
    BY <1>2, <2>1 DEF ComeDue, SentimentShape, SentimentTypeOK, ScansInBounds, Analysing
<1>3. CASE UNCHANGED sentimentVars
  BY <1>3 DEF sentimentVars, SentimentShape, SentimentTypeOK, ScansInBounds, Analysing
<1> QED
  BY <1>1, <1>2, <1>3, StartScanShape, AddRetryShape, ScheduleRetryAttemptShape,
     SkipRetryShape, TakeJobShape, CreateProcessingShape, StartRetryShape,
     CheckSwitchShape, CheckGateShape, CallIaShape, MarksShape, FailAnalysisShape,
     StallShape DEF SentimentNext

LEMMA SentimentShapeInit == SentimentInit => SentimentShape
BY SentimentAssumption
   DEF SentimentInit, SentimentShape, SentimentTypeOK, ScansInBounds, Analysing, Unused,
       Row, Resting, Asleep, Worker, WorkerStages, Scan, FreshJobs, JobIds
-----------------------------------------------------------------------------
(* One runner for an analysis. *)

\* A worker goes on with its row, or leaves it.
LEMMA RunnersKept ==
    ASSUME OneRunnerPerAnalysis, NEW w \in Workers,
           \A v \in Workers \ {w} : worker'[v] = worker[v],
           Analysing(w)' => /\ Analysing(w) /\ worker'[w].row = worker[w].row
                            /\ row'[worker[w].row].status = "processing",
           \A v \in Workers \ {w} :
               Analysing(v) => row'[worker[v].row].status = "processing"
    PROVE  OneRunnerPerAnalysis'
BY DEF OneRunnerPerAnalysis, Analysing

\* A worker starts on a row nobody processes.
LEMMA RunnerStarts ==
    ASSUME OneRunnerPerAnalysis, NEW w \in Workers, NEW a,
           row[a].status # "processing", row'[a].status = "processing",
           worker'[w].row = a,
           \A v \in Workers \ {w} : worker'[v] = worker[v],
           \A v \in Workers \ {w} :
               Analysing(v) => row'[worker[v].row].status = "processing"
    PROVE  OneRunnerPerAnalysis'
BY DEF OneRunnerPerAnalysis, Analysing

LEMMA NobodyStarts ==
    ASSUME SentimentShape, OneRunnerPerAnalysis, UNCHANGED worker,
           \A a \in Rows : row[a].status = "processing" => row'[a].status = "processing"
    PROVE  OneRunnerPerAnalysis'
<1>1. \A v \in Workers : Analysing(v) => worker[v].row \in Rows
  BY WorkerType
<1> QED
  BY <1>1 DEF OneRunnerPerAnalysis, Analysing

LEMMA OneRunnerStep ==
    ASSUME SentimentShape, OneRunnerPerAnalysis, [SentimentNext]_sentimentVars
    PROVE  OneRunnerPerAnalysis'
<1>a. row \in [Rows -> Row] /\ worker \in [Workers -> Worker]
  BY DEF SentimentShape, SentimentTypeOK
<1>b. \A v \in Workers : Analysing(v) =>
          worker[v].row \in Rows /\ row[worker[v].row].status = "processing"
  BY WorkerType DEF OneRunnerPerAnalysis
<1>c. \A v, u \in Workers : Analysing(v) /\ Analysing(u) /\ v # u => worker[v].row # worker[u].row
  BY DEF OneRunnerPerAnalysis
<1>1. CASE Toggle \/ UNCHANGED sentimentVars
  BY <1>1, NobodyStarts DEF Toggle, sentimentVars
<1>2. ASSUME NEW a \in Rows, ComeDue(a) PROVE OneRunnerPerAnalysis'
  <2>1. \A b \in Rows : row'[b].status = row[b].status
    BY <1>2, <1>a DEF ComeDue, Row
  <2> QED
    BY <1>2, <2>1, NobodyStarts DEF ComeDue
<1>3. ASSUME NEW s \in Scanners,
             StartScan(s) \/ AddRetry(s) \/ SkipRetry(s)
      PROVE  OneRunnerPerAnalysis'
  BY <1>3, NobodyStarts DEF StartScan, AddRetry, SkipRetry
<1>4. ASSUME NEW s \in Scanners, ScheduleRetryAttempt(s) PROVE OneRunnerPerAnalysis'
  <2>1. \A b \in Rows : row'[b].status = row[b].status
    BY <1>4, <1>a DEF ScheduleRetryAttempt, Row
  <2> QED
    BY <1>4, <2>1, NobodyStarts DEF ScheduleRetryAttempt
<1>5. ASSUME NEW w \in Workers, NEW j \in JobIds, TakeJob(w, j) PROVE OneRunnerPerAnalysis'
  <2>1. worker'[w].at = "start" /\ \A v \in Workers \ {w} : worker'[v] = worker[v]
    BY <1>5, <1>a DEF TakeJob, Resting
  <2> QED
    BY <1>5, <1>b, <2>1, RunnersKept DEF TakeJob, Analysing
<1>6. ASSUME NEW w \in Workers, NEW a \in Rows, CreateProcessing(w, a)
      PROVE  OneRunnerPerAnalysis'
  <2>1. worker'[w].row = a /\ \A v \in Workers \ {w} : worker'[v] = worker[v]
    BY <1>6, <1>a DEF CreateProcessing, Worker
  <2>2. row[a].status # "processing" /\ row'[a].status = "processing"
           /\ \A b \in Rows \ {a} : row'[b] = row[b]
    BY <1>6, <1>a DEF CreateProcessing, Row
  <2> QED
    BY <1>b, <2>1, <2>2, RunnerStarts
<1>7. ASSUME NEW w \in Workers, StartRetry(w) PROVE OneRunnerPerAnalysis'
  <2> DEFINE a == worker[w].id[2]
  <2>0. a \in Rows
    BY <1>7, RetryRow DEF StartRetry
  <2>1. CASE row[a].status = "skipped"
    <3>1. worker'[w].row = a /\ \A v \in Workers \ {w} : worker'[v] = worker[v]
      BY <1>7, <1>a, <2>1 DEF StartRetry, Worker
    <3>2. row[a].status # "processing" /\ row'[a].status = "processing"
             /\ \A b \in Rows \ {a} : row'[b] = row[b]
      BY <1>7, <1>a, <2>0, <2>1 DEF StartRetry, Row
    <3> QED
      BY <1>b, <2>0, <3>1, <3>2, RunnerStarts
  <2>2. CASE row[a].status # "skipped"
    <3>1. worker'[w].at = "idle" /\ row' = row
             /\ \A v \in Workers \ {w} : worker'[v] = worker[v]
      BY <1>7, <1>a, <2>2 DEF StartRetry, Resting
    <3> QED
      BY <1>b, <3>1, RunnersKept DEF Analysing
  <2> QED
    BY <2>1, <2>2
<1>8. ASSUME NEW w \in Workers, CheckSwitch(w) \/ CheckGate(w) \/ CallIa(w)
      PROVE  OneRunnerPerAnalysis'
  <2>1. worker'[w].row = worker[w].row /\ row' = row
           /\ \A v \in Workers \ {w} : worker'[v] = worker[v]
    BY <1>8, <1>a DEF CheckSwitch, CheckGate, CallIa, Goto, Worker
  <2>2. Analysing(w)
    BY <1>8 DEF CheckSwitch, CheckGate, CallIa, Analysing, WorkerStages
  <2> QED
    BY <1>b, <2>1, <2>2, RunnersKept
<1>9. ASSUME NEW w \in Workers, MarkSkipped(w) \/ MarkFailed(w) \/ Complete(w)
      PROVE  OneRunnerPerAnalysis'
  <2>1. worker'[w].at = "idle" /\ \A v \in Workers \ {w} : worker'[v] = worker[v]
    BY <1>9, <1>a DEF MarkSkipped, MarkFailed, Complete, Finish, Resting
  <2>2. Analysing(w) /\ worker[w].row \in Rows
    BY <1>9, <1>b DEF MarkSkipped, MarkFailed, Complete, Analysing, WorkerStages
  <2>3. \A b \in Rows \ {worker[w].row} : row'[b] = row[b]
    BY <1>9, <1>a DEF MarkSkipped, MarkFailed, Complete
  <2> QED
    BY <1>b, <1>c, <2>1, <2>2, <2>3, RunnersKept DEF Analysing
<1>10. ASSUME NEW w \in Workers, FailAnalysis(w) PROVE OneRunnerPerAnalysis'
  <2>1. CASE worker[w].at \in {"switch", "complete"} /\ row' = row
               /\ Goto(w, IF worker[w].at = "switch" THEN "gate" ELSE "fail")
    <3>1. worker'[w].row = worker[w].row
             /\ \A v \in Workers \ {w} : worker'[v] = worker[v]
      BY <2>1, <1>a DEF Goto, Worker
    <3>2. Analysing(w)
      BY <2>1 DEF Analysing, WorkerStages
    <3> QED
      BY <1>b, <2>1, <3>1, <3>2, RunnersKept
  <2>2. CASE Finish(w) /\ UNCHANGED row
    <3>1. worker'[w].at = "idle" /\ \A v \in Workers \ {w} : worker'[v] = worker[v]
      BY <2>2, <1>a DEF Finish, Resting
    <3> QED
      BY <1>b, <2>2, <3>1, RunnersKept DEF Analysing
  <2>3. CASE /\ Finish(w) /\ worker[w].id \in RetryJobs
             /\ row' = [row EXCEPT ![worker[w].id[2]].status = "processing",
                                   ![worker[w].id[2]].reason = "none"]
    <3>1. worker'[w].at = "idle" /\ \A v \in Workers \ {w} : worker'[v] = worker[v]
      BY <2>3, <1>a DEF Finish, Resting
    <3>2. \A b \in Rows : row[b].status = "processing" => row'[b].status = "processing"
      BY <2>3, <1>a, RetryRow DEF Row
    <3> QED
      BY <1>b, <3>1, <3>2, RunnersKept DEF Analysing
  <2> QED
    BY <1>10, <2>1, <2>2, <2>3 DEF FailAnalysis
<1>11. ASSUME NEW w \in Workers, NEW dies \in BOOLEAN, Stall(w, dies)
       PROVE  OneRunnerPerAnalysis'
  <2>1. row' = row /\ (worker'[w] = worker[w] \/ worker'[w].at = "idle")
           /\ \A v \in Workers \ {w} : worker'[v] = worker[v]
    BY <1>11, <1>a DEF Stall, Resting
  <2> QED
    BY <1>b, <2>1, RunnersKept DEF Analysing
<1> QED
  BY <1>1, <1>2, <1>3, <1>4, <1>5, <1>6, <1>7, <1>8, <1>9, <1>10, <1>11 DEF SentimentNext
-----------------------------------------------------------------------------
(* The calls of an analysis: one for its insertion, one for each retry job  *)
(* and one for each retry job handed back, held by whoever will make it.    *)

\* A retry works on the row its job names.
RowOfJob ==
    \A w \in Workers :
        Analysing(w) /\ worker[w].id \in RetryJobs => worker[w].row = worker[w].id[2]

RetriesOf(a) == {j \in RetryJobs : j[2] = a}

\* Workers with a call of the row still to make.
Calls(w, a) ==
    \/ /\ worker[w].id \in RetriesOf(a)
       /\ worker[w].at \in {"start", "switch", "gate", "call"}
    \/ /\ worker[w].id \notin RetryJobs /\ worker[w].row = a
       /\ worker[w].at \in {"switch", "gate", "call"}

Callers(a) == {w \in Workers : Calls(w, a)}
Ready(a) == {j \in RetriesOf(a) : job[j] \in {"none", "waiting"}}
Uninserted(a) == IF row[a].status = "none" THEN 1 ELSE 0

CallsCovered(a) ==
    calls[a] + Cardinality(Callers(a)) + Cardinality(Ready(a)) + Uninserted(a)
        <= 1 + MaxRetries + Cardinality(HandedBack(a))

LEMMA RetriesCounted ==
    ASSUME NEW a \in Rows
    PROVE  IsFiniteSet(RetriesOf(a)) /\ Cardinality(RetriesOf(a)) <= MaxRetries
<1> DEFINE f == [n \in 1..MaxRetries |-> <<"retry", a, n>>]
<1>1. f \in Surjection(1..MaxRetries, RetriesOf(a))
  <2>1. \A n \in 1..MaxRetries : f[n] \in RetriesOf(a)
    BY DEF RetriesOf, RetryJobs
  <2>2. ASSUME NEW j \in RetriesOf(a) PROVE \E n \in 1..MaxRetries : f[n] = j
    <3>1. j[3] \in 1..MaxRetries /\ j = <<"retry", a, j[3]>>
      BY DEF RetriesOf, RetryJobs
    <3> QED
      BY <3>1
  <2>3. f \in [1..MaxRetries -> RetriesOf(a)]
    BY <2>1
  <2> HIDE DEF f
  <2> QED
    BY <2>2, <2>3 DEF Surjection
<1>2. IsFiniteSet(1..MaxRetries) /\ Cardinality(1..MaxRetries) = MaxRetries
  BY SentimentAssumption, FS_Interval
<1> HIDE DEF f
<1>3. Cardinality(RetriesOf(a)) <= Cardinality(1..MaxRetries) /\ IsFiniteSet(RetriesOf(a))
  BY <1>1, <1>2, FS_Surjection
<1> QED
  BY <1>2, <1>3

LEMMA Finite ==
    ASSUME NEW a \in Rows
    PROVE  /\ IsFiniteSet(Callers(a)) /\ Cardinality(Callers(a)) \in Nat
           /\ IsFiniteSet(Ready(a)) /\ Cardinality(Ready(a)) \in Nat
           /\ IsFiniteSet(HandedBack(a)) /\ Cardinality(HandedBack(a)) \in Nat
<1>1. Callers(a) \in SUBSET Workers
  BY DEF Callers
<1>2. Ready(a) \in SUBSET RetriesOf(a)
  BY DEF Ready
<1>3. HandedBack(a) \in SUBSET RetriesOf(a)
  BY DEF HandedBack, RetriesOf
<1> QED
  BY <1>1, <1>2, <1>3, RetriesCounted, SentimentAssumption, FS_Subset, FS_CardinalityType

\* The same sets after a step.
LEMMA FiniteNext ==
    ASSUME NEW a \in Rows
    PROVE  /\ IsFiniteSet(Callers(a)') /\ Cardinality(Callers(a)') \in Nat
           /\ IsFiniteSet(Ready(a)') /\ Cardinality(Ready(a)') \in Nat
           /\ IsFiniteSet(HandedBack(a)') /\ Cardinality(HandedBack(a)') \in Nat
<1>1. Callers(a)' \in SUBSET Workers
  BY DEF Callers
<1>2. Ready(a)' \in SUBSET RetriesOf(a)
  BY DEF Ready
<1>3. HandedBack(a)' \in SUBSET RetriesOf(a)
  BY DEF HandedBack, RetriesOf
<1> QED
  BY <1>1, <1>2, <1>3, RetriesCounted, SentimentAssumption, FS_Subset, FS_CardinalityType

LEMMA OneLess ==
    ASSUME NEW S, IsFiniteSet(S), NEW x \in S, NEW T \in SUBSET (S \ {x})
    PROVE  Cardinality(T) + 1 <= Cardinality(S)
<1>1. Cardinality(S \ {x}) = Cardinality(S) - 1 /\ IsFiniteSet(S \ {x})
  BY FS_RemoveElement
<1>2. Cardinality(T) <= Cardinality(S \ {x}) /\ IsFiniteSet(T)
  BY <1>1, FS_Subset
<1> QED
  BY <1>1, <1>2, FS_CardinalityType

LEMMA OneMore ==
    ASSUME NEW S, IsFiniteSet(S), NEW x, NEW T \in SUBSET (S \cup {x})
    PROVE  Cardinality(T) <= Cardinality(S) + 1
<1>1. Cardinality(S \cup {x}) <= Cardinality(S) + 1 /\ IsFiniteSet(S \cup {x})
  BY FS_AddElement, FS_CardinalityType
<1>2. Cardinality(T) <= Cardinality(S \cup {x}) /\ IsFiniteSet(T)
  BY <1>1, FS_Subset
<1> QED
  BY <1>1, <1>2, FS_CardinalityType

\* No call is added.
LEMMA CallsKept ==
    ASSUME NEW a \in Rows, CallsCovered(a), calls[a] \in Nat, calls'[a] = calls[a],
           Callers(a)' \subseteq Callers(a), Ready(a)' \subseteq Ready(a),
           HandedBack(a) \subseteq HandedBack(a)',
           row[a].status # "none" => row'[a].status # "none"
    PROVE  CallsCovered(a)'
<1>1. /\ Cardinality(Callers(a)') <= Cardinality(Callers(a))
      /\ Cardinality(Ready(a)') <= Cardinality(Ready(a))
      /\ Cardinality(HandedBack(a)) <= Cardinality(HandedBack(a)')
  BY Finite, FiniteNext, FS_Subset
<1>2. /\ Uninserted(a) \in {0, 1} /\ Uninserted(a)' \in {0, 1}
      /\ Uninserted(a)' <= Uninserted(a)
  BY DEF Uninserted
<1>3. MaxRetries \in Nat
  BY SentimentAssumption
<1> QED
  BY <1>1, <1>2, <1>3, Finite, FiniteNext DEF CallsCovered

LEMMA RowOfJobStep ==
    ASSUME SentimentShape, RowOfJob, [SentimentNext]_sentimentVars
    PROVE  RowOfJob'
<1>a. worker \in [Workers -> Worker]
  BY DEF SentimentShape, SentimentTypeOK
<1>1. ASSUME NEW w \in Workers, ~ Analysing(w)' \/ worker'[w].id \notin RetryJobs
                \/ worker'[w].row = worker'[w].id[2],
             \A v \in Workers \ {w} : worker'[v] = worker[v]
      PROVE  RowOfJob'
  BY <1>1 DEF RowOfJob, Analysing
<1>2. CASE UNCHANGED worker
  BY <1>2 DEF RowOfJob, Analysing
<1>3. ASSUME NEW w \in Workers, NEW j \in JobIds, TakeJob(w, j) PROVE RowOfJob'
  BY <1>1, <1>3, <1>a DEF TakeJob, Resting, Analysing
<1>4. ASSUME NEW w \in Workers, NEW a \in Rows, CreateProcessing(w, a) PROVE RowOfJob'
  <2>1. worker'[w].id \notin RetryJobs /\ \A v \in Workers \ {w} : worker'[v] = worker[v]
    BY <1>4, <1>a DEF CreateProcessing, FreshJobs, RetryJobs, Worker
  <2> QED
    BY <1>1, <2>1
<1>5. ASSUME NEW w \in Workers, StartRetry(w) PROVE RowOfJob'
  <2>1. CASE row[worker[w].id[2]].status = "skipped"
    BY <1>1, <1>5, <1>a, <2>1 DEF StartRetry, Worker
  <2>2. CASE row[worker[w].id[2]].status # "skipped"
    BY <1>1, <1>5, <1>a, <2>2 DEF StartRetry, Resting, Analysing
  <2> QED
    BY <2>1, <2>2
<1>6. ASSUME NEW w \in Workers, Analysing(w), worker'[w].id = worker[w].id,
             worker'[w].row = worker[w].row, \A v \in Workers \ {w} : worker'[v] = worker[v]
      PROVE  RowOfJob'
  BY <1>1, <1>6 DEF RowOfJob
<1>7. ASSUME NEW w \in Workers, CheckSwitch(w) \/ CheckGate(w) \/ CallIa(w)
      PROVE  RowOfJob'
  <2>1. /\ worker'[w].id = worker[w].id /\ worker'[w].row = worker[w].row
        /\ \A v \in Workers \ {w} : worker'[v] = worker[v]
    BY <1>7, <1>a DEF CheckSwitch, CheckGate, CallIa, Goto, Worker
  <2> QED
    BY <1>6, <1>7, <2>1 DEF CheckSwitch, CheckGate, CallIa, Analysing, WorkerStages
<1>8. ASSUME NEW w \in Workers, Finish(w) PROVE RowOfJob'
  BY <1>1, <1>8, <1>a DEF Finish, Resting, Analysing
<1>9. ASSUME NEW w \in Workers, FailAnalysis(w) PROVE RowOfJob'
  <2>1. CASE worker[w].at \in {"switch", "complete"}
               /\ Goto(w, IF worker[w].at = "switch" THEN "gate" ELSE "fail")
    <3>1. /\ worker'[w].id = worker[w].id /\ worker'[w].row = worker[w].row
          /\ \A v \in Workers \ {w} : worker'[v] = worker[v]
      BY <2>1, <1>a DEF Goto, Worker
    <3> QED
      BY <1>6, <2>1, <3>1 DEF Analysing, WorkerStages
  <2> QED
    BY <1>8, <1>9, <2>1 DEF FailAnalysis
<1>10. ASSUME NEW w \in Workers, NEW dies \in BOOLEAN, Stall(w, dies) PROVE RowOfJob'
  BY <1>1, <1>2, <1>10, <1>a DEF Stall, Resting, Analysing
<1>11. UNCHANGED worker
         \/ \E w \in Workers :
              \/ \E j \in JobIds : TakeJob(w, j)
              \/ \E a \in Rows : CreateProcessing(w, a)
              \/ StartRetry(w) \/ CheckSwitch(w) \/ CheckGate(w) \/ CallIa(w)
              \/ Finish(w) \/ FailAnalysis(w)
              \/ \E dies \in BOOLEAN : Stall(w, dies)
  BY DEF SentimentNext, sentimentVars, Toggle, ComeDue, StartScan, AddRetry,
         ScheduleRetryAttempt, SkipRetry, MarkSkipped, MarkFailed, Complete
<1> QED
  BY <1>2, <1>3, <1>4, <1>5, <1>7, <1>8, <1>9, <1>10, <1>11

CallsInv == SentimentShape /\ OneRunnerPerAnalysis /\ RowOfJob

\* A row that was inserted stays.
LEMMA RowsStay ==
    ASSUME CallsInv, [SentimentNext]_sentimentVars, NEW a \in Rows, row[a].status # "none"
    PROVE  row'[a].status # "none"
<1>a. row \in [Rows -> Row]
  BY DEF CallsInv, SentimentShape, SentimentTypeOK
<1>1. ASSUME NEW w \in Workers,
             MarkSkipped(w) \/ MarkFailed(w) \/ Complete(w) \/ StartRetry(w)
               \/ FailAnalysis(w) \/ \E b \in Rows : CreateProcessing(w, b)
      PROVE  row'[a].status # "none"
  <2>1. CASE MarkSkipped(w)
    BY <2>1, <1>a DEF MarkSkipped, Row
  <2>2. CASE MarkFailed(w) \/ Complete(w)
    BY <2>2, <1>a DEF MarkFailed, Complete, Row
  <2>3. CASE StartRetry(w)
    BY <2>3, <1>a DEF StartRetry, Row
  <2>4. CASE FailAnalysis(w)
    BY <2>4, <1>a DEF FailAnalysis, Row
  <2>5. ASSUME NEW b \in Rows, CreateProcessing(w, b) PROVE row'[a].status # "none"
    BY <2>5, <1>a DEF CreateProcessing, Row
  <2> QED
    BY <1>1, <2>1, <2>2, <2>3, <2>4, <2>5
<1>2. ASSUME NEW b \in Rows, ComeDue(b) PROVE row'[a].status # "none"
  BY <1>2, <1>a DEF ComeDue, Row
<1>3. ASSUME NEW s \in Scanners, ScheduleRetryAttempt(s) PROVE row'[a].status # "none"
  BY <1>3, <1>a DEF ScheduleRetryAttempt, Row
<1> QED
  BY <1>1, <1>2, <1>3
     DEF SentimentNext, sentimentVars, Toggle, StartScan, AddRetry, SkipRetry, TakeJob,
         CheckSwitch, CheckGate, CallIa, Stall

LEMMA IdleCallsNothing ==
    ASSUME NEW w \in Workers, NEW a, worker'[w].at \in {"idle", "skip", "complete", "fail"}
    PROVE  w \notin Callers(a)'
BY DEF Callers, Calls

\* What only one worker does leaves the others with their calls.
LEMMA OtherCallers ==
    ASSUME NEW w \in Workers, NEW a, \A v \in Workers \ {w} : worker'[v] = worker[v]
    PROVE  /\ Callers(a)' \subseteq Callers(a) \cup {w}
           /\ Callers(a)' = (Callers(a) \ {w}) \cup (Callers(a)' \cap {w})
BY DEF Callers, Calls

LEMMA CreateCovered ==
    ASSUME CallsInv, NEW w \in Workers, NEW b \in Rows, CreateProcessing(w, b),
           NEW a \in Rows, CallsCovered(a), row[a].status # "none" => row'[a].status # "none"
    PROVE  CallsCovered(a)'
<1>a. worker \in [Workers -> Worker] /\ row \in [Rows -> Row] /\ calls[a] \in Nat
  BY DEF CallsInv, SentimentShape, SentimentTypeOK
<1>1. /\ worker'[w] = [worker[w] EXCEPT !.at = "switch", !.row = b]
      /\ \A v \in Workers \ {w} : worker'[v] = worker[v]
      /\ UNCHANGED <<job, stalls, calls>>
      /\ worker[w].id \in FreshJobs
  BY <1>a DEF CreateProcessing
<1>2. Ready(a)' = Ready(a) /\ HandedBack(a)' = HandedBack(a)
  BY <1>1 DEF Ready, HandedBack
<1>3. CASE a # b
  <2>0. worker'[w].id = worker[w].id /\ worker'[w].row = b
    BY <1>1, <1>a DEF Worker
  <2>1. w \notin Callers(a)'
    BY <1>1, <1>3, <2>0 DEF Callers, Calls, FreshJobs, RetriesOf, RetryJobs
  <2>2. Callers(a)' \subseteq Callers(a)
    BY <1>1, <2>1, OtherCallers
  <2> QED
    BY <1>1, <1>2, <1>a, <2>2, CallsKept
<1>4. CASE a = b
  <2>1. Uninserted(a) = 1 /\ Uninserted(a)' = 0
    BY <1>4, <1>a DEF CreateProcessing, Uninserted, Row
  <2>2. Cardinality(Callers(a)') <= Cardinality(Callers(a)) + 1
    BY <1>1, Finite, OneMore, OtherCallers
  <2> QED
    BY <1>1, <1>2, <1>a, <2>1, <2>2, Finite, FiniteNext, SentimentAssumption DEF CallsCovered
<1> QED
  BY <1>3, <1>4

LEMMA TakeCovered ==
    ASSUME CallsInv, NEW w \in Workers, NEW j \in JobIds, TakeJob(w, j),
           NEW a \in Rows, CallsCovered(a)
    PROVE  CallsCovered(a)'
<1>a. /\ worker \in [Workers -> Worker] /\ calls[a] \in Nat
      /\ job \in [JobIds -> {"none", "waiting", "active", "done"}]
  BY DEF CallsInv, SentimentShape, SentimentTypeOK
<1>1. /\ worker'[w].id = j /\ worker'[w].at = "start"
      /\ \A v \in Workers \ {w} : worker'[v] = worker[v]
      /\ job[j] = "waiting" /\ job' = [job EXCEPT ![j] = "active"]
      /\ UNCHANGED <<row, stalls, calls>>
  BY <1>a DEF TakeJob, Resting
<1>2. HandedBack(a)' = HandedBack(a) /\ Uninserted(a)' = Uninserted(a)
  BY <1>1 DEF HandedBack, Uninserted
<1>3. CASE j \notin RetriesOf(a)
  <2>1. w \notin Callers(a)'
    BY <1>1, <1>3 DEF Callers, Calls
  <2>2. Callers(a)' \subseteq Callers(a) /\ Ready(a)' \subseteq Ready(a)
    BY <1>1, <1>a, <2>1, OtherCallers DEF Ready, RetriesOf, JobIds
  <2> QED
    BY <1>1, <1>2, <1>a, <2>2, CallsKept
<1>4. CASE j \in RetriesOf(a)
  <2>1. j \in Ready(a) /\ Ready(a)' \in SUBSET (Ready(a) \ {j})
    BY <1>1, <1>4, <1>a DEF Ready, RetriesOf, JobIds
  <2>2. Cardinality(Ready(a)') + 1 <= Cardinality(Ready(a))
    BY <2>1, Finite, OneLess
  <2>3. Cardinality(Callers(a)') <= Cardinality(Callers(a)) + 1
    BY <1>1, Finite, OneMore, OtherCallers
  <2>4. Uninserted(a) \in Nat
    BY DEF Uninserted
  <2> QED
    BY <1>1, <1>2, <1>a, <2>2, <2>3, <2>4, Finite, FiniteNext, SentimentAssumption
       DEF CallsCovered
<1> QED
  BY <1>3, <1>4

LEMMA CallCovered ==
    ASSUME CallsInv, NEW w \in Workers, CallIa(w), NEW a \in Rows, CallsCovered(a)
    PROVE  CallsCovered(a)'
<1>a. worker \in [Workers -> Worker] /\ calls \in [Rows -> Nat]
  BY DEF CallsInv, SentimentShape, SentimentTypeOK
<1>0. Analysing(w)
  BY DEF CallIa, Analysing, WorkerStages
<1>1. /\ worker[w].at = "call" /\ worker'[w].at \in {"skip", "complete", "fail"}
      /\ \A v \in Workers \ {w} : worker'[v] = worker[v]
      /\ UNCHANGED <<row, job, stalls>>
      /\ worker[w].row \in Rows
      /\ calls' = [calls EXCEPT ![worker[w].row] = @ + 1]
  BY <1>0, <1>a, WorkerType DEF CallIa, Goto, Worker, CallsInv
<1>2. /\ Ready(a)' = Ready(a) /\ HandedBack(a)' = HandedBack(a)
      /\ Uninserted(a)' = Uninserted(a)
  BY <1>1 DEF Ready, HandedBack, Uninserted
<1>3. w \notin Callers(a)' /\ Callers(a)' \subseteq Callers(a) \ {w}
  BY <1>1, IdleCallsNothing, OtherCallers
<1>4. CASE a # worker[w].row
  BY <1>1, <1>2, <1>3, <1>4, <1>a, CallsKept
<1>5. CASE a = worker[w].row
  <2>1. w \in Callers(a)
    BY <1>0, <1>1, <1>5 DEF Callers, Calls, RetriesOf, CallsInv, RowOfJob
  <2>2. Cardinality(Callers(a)') + 1 <= Cardinality(Callers(a))
    BY <1>3, <2>1, Finite, OneLess
  <2>3. Uninserted(a) \in Nat
    BY DEF Uninserted
  <2>4. calls'[a] = calls[a] + 1 /\ calls[a] \in Nat
    BY <1>1, <1>5, <1>a
  <2> QED
    BY <1>2, <2>2, <2>3, <2>4, Finite, FiniteNext, SentimentAssumption DEF CallsCovered
<1> QED
  BY <1>4, <1>5

\* A job that is handed back is paid for by that.
LEMMA StallCovered ==
    ASSUME CallsInv, NEW w \in Workers, NEW dies \in BOOLEAN, Stall(w, dies),
           NEW a \in Rows, CallsCovered(a)
    PROVE  CallsCovered(a)'
<1> DEFINE j == worker[w].id
<1>a. /\ worker \in [Workers -> Worker] /\ calls[a] \in Nat
      /\ job \in [JobIds -> {"none", "waiting", "active", "done"}]
      /\ stalls \in [JobIds -> 0..MaxStalls] /\ j \in JobIds
  BY WorkerType DEF CallsInv, SentimentShape, SentimentTypeOK, Stall
<1>1. /\ worker'[w] = worker[w] \/ worker'[w].at = "idle"
      /\ \A v \in Workers \ {w} : worker'[v] = worker[v]
      /\ UNCHANGED <<row, calls>>
      /\ stalls' = [stalls EXCEPT ![j] = @ + 1]
      /\ job' = [job EXCEPT ![j] = IF stalls[j] = 0 THEN "waiting" ELSE "done"]
  BY <1>a DEF Stall, Resting
<1>2. Callers(a)' \subseteq Callers(a)
  BY <1>1 DEF Callers, Calls
<1>3. Uninserted(a)' = Uninserted(a) /\ Uninserted(a) \in Nat
  BY <1>1 DEF Uninserted
<1>4. HandedBack(a) \subseteq HandedBack(a)'
  BY <1>1, <1>a, SentimentAssumption DEF HandedBack, JobIds
<1>5. CASE j \notin RetriesOf(a) \/ stalls[j] # 0
  <2>1. Ready(a)' \subseteq Ready(a)
    BY <1>1, <1>5, <1>a DEF Ready, RetriesOf, JobIds
  <2> QED
    BY <1>1, <1>2, <1>4, <1>a, <2>1, CallsKept
<1>6. CASE j \in RetriesOf(a) /\ stalls[j] = 0
  <2> HIDE DEF j
  <2>1. HandedBack(a) \in SUBSET (HandedBack(a)' \ {j}) /\ j \in HandedBack(a)'
    BY <1>1, <1>4, <1>6, <1>a DEF HandedBack, RetriesOf
  <2>2. Cardinality(HandedBack(a)) + 1 <= Cardinality(HandedBack(a)')
    BY <2>1, FiniteNext, OneLess
  <2>3. Ready(a)' \in SUBSET (Ready(a) \cup {j})
    BY <1>1, <1>a DEF Ready, RetriesOf, JobIds
  <2>4. Cardinality(Ready(a)') <= Cardinality(Ready(a)) + 1
    BY <2>3, Finite, OneMore
  <2>5. Cardinality(Callers(a)') <= Cardinality(Callers(a))
    BY <1>2, Finite, FS_Subset
  <2> QED
    BY <1>1, <1>3, <1>a, <2>2, <2>4, <2>5, Finite, FiniteNext, SentimentAssumption
       DEF CallsCovered
<1> QED
  BY <1>5, <1>6

LEMMA CallsStep ==
    ASSUME CallsInv, [SentimentNext]_sentimentVars, NEW a \in Rows, CallsCovered(a)
    PROVE  CallsCovered(a)'
<1>a. /\ worker \in [Workers -> Worker] /\ calls[a] \in Nat /\ scan \in [Scanners -> Scan]
      /\ job \in [JobIds -> {"none", "waiting", "active", "done"}]
  BY DEF CallsInv, SentimentShape, SentimentTypeOK
<1>b. row[a].status # "none" => row'[a].status # "none"
  BY RowsStay
<1>1. ASSUME UNCHANGED <<worker, job, stalls, calls>> PROVE CallsCovered(a)'
  <2>1. Callers(a)' = Callers(a) /\ Ready(a)' = Ready(a) /\ HandedBack(a)' = HandedBack(a)
    BY <1>1 DEF Callers, Calls, Ready, HandedBack
  <2> QED
    BY <1>1, <1>a, <1>b, <2>1, CallsKept
<1>2. ASSUME NEW s \in Scanners, AddRetry(s) PROVE CallsCovered(a)'
  <2>1. \A j \in JobIds : job'[j] \in {"none", "waiting"} => job[j] \in {"none", "waiting"}
    BY <1>2, <1>a DEF AddRetry
  <2>2. Ready(a)' \subseteq Ready(a)
    BY <2>1 DEF Ready, RetriesOf, JobIds
  <2>3. Callers(a)' = Callers(a) /\ HandedBack(a)' = HandedBack(a) /\ calls' = calls
    BY <1>2 DEF AddRetry, Callers, Calls, HandedBack
  <2> QED
    BY <1>a, <1>b, <2>2, <2>3, CallsKept
\* A worker that goes on, and one that is through.
<1>3. ASSUME NEW w \in Workers, Analysing(w),
             worker'[w].id = worker[w].id, worker'[w].row = worker[w].row,
             worker[w].at \in {"switch", "gate", "call"} \/ worker'[w].at = "fail",
             \A v \in Workers \ {w} : worker'[v] = worker[v],
             UNCHANGED <<job, stalls, calls>>
      PROVE  CallsCovered(a)'
  <2>1. Callers(a)' \subseteq Callers(a)
    BY <1>3 DEF Callers, Calls
  <2>2. Ready(a)' = Ready(a) /\ HandedBack(a)' = HandedBack(a)
    BY <1>3 DEF Ready, HandedBack
  <2> QED
    BY <1>3, <1>a, <1>b, <2>1, <2>2, CallsKept
<1>4. ASSUME NEW w \in Workers, Finish(w) PROVE CallsCovered(a)'
  <2>1. worker'[w].at = "idle" /\ \A v \in Workers \ {w} : worker'[v] = worker[v]
    BY <1>4, <1>a DEF Finish, Resting
  <2>2. Callers(a)' \subseteq Callers(a)
    BY <2>1, IdleCallsNothing, OtherCallers
  <2>3. Ready(a)' \subseteq Ready(a)
    BY <1>4, <1>a DEF Finish, Ended, Ready, RetriesOf, JobIds
  <2>4. HandedBack(a)' = HandedBack(a) /\ calls' = calls
    BY <1>4 DEF Finish, HandedBack
  <2> QED
    BY <1>a, <1>b, <2>2, <2>3, <2>4, CallsKept
<1>5. ASSUME NEW w \in Workers, StartRetry(w) PROVE CallsCovered(a)'
  <2>1. CASE row[worker[w].id[2]].status = "skipped"
    <3>1. /\ worker'[w].id = worker[w].id /\ worker[w].at = "start"
          /\ worker[w].id \in RetryJobs
          /\ \A v \in Workers \ {w} : worker'[v] = worker[v]
          /\ UNCHANGED <<job, stalls, calls>>
      BY <1>5, <1>a, <2>1 DEF StartRetry, Worker
    <3>2. Callers(a)' \subseteq Callers(a)
      BY <3>1 DEF Callers, Calls
    <3>3. Ready(a)' = Ready(a) /\ HandedBack(a)' = HandedBack(a)
      BY <3>1 DEF Ready, HandedBack
    <3> QED
      BY <1>a, <1>b, <3>1, <3>2, <3>3, CallsKept
  <2>2. CASE row[worker[w].id[2]].status # "skipped"
    BY <1>4, <1>5, <2>2 DEF StartRetry, Finish
  <2> QED
    BY <2>1, <2>2
<1>6. ASSUME NEW w \in Workers, CheckSwitch(w) \/ CheckGate(w) PROVE CallsCovered(a)'
  <2>1. /\ worker'[w].id = worker[w].id /\ worker'[w].row = worker[w].row
        /\ worker[w].at \in {"switch", "gate"}
        /\ \A v \in Workers \ {w} : worker'[v] = worker[v]
        /\ UNCHANGED <<job, stalls, calls>>
    BY <1>6, <1>a DEF CheckSwitch, CheckGate, Goto, Worker
  <2> QED
    BY <1>3, <2>1 DEF Analysing, WorkerStages
<1>7. ASSUME NEW w \in Workers, FailAnalysis(w) PROVE CallsCovered(a)'
  <2>1. CASE /\ worker[w].at \in {"switch", "complete"}
             /\ Goto(w, IF worker[w].at = "switch" THEN "gate" ELSE "fail")
             /\ UNCHANGED <<job, stalls, calls>>
    <3>1. /\ worker'[w].id = worker[w].id /\ worker'[w].row = worker[w].row
          /\ worker'[w].at = IF worker[w].at = "switch" THEN "gate" ELSE "fail"
          /\ \A v \in Workers \ {w} : worker'[v] = worker[v]
      BY <2>1, <1>a DEF Goto, Worker
    <3> QED
      BY <1>3, <2>1, <3>1 DEF Analysing, WorkerStages
  <2> QED
    BY <1>4, <1>7, <2>1 DEF FailAnalysis
<1>8. \/ UNCHANGED <<worker, job, stalls, calls>>
      \/ \E s \in Scanners : AddRetry(s)
      \/ \E w \in Workers :
           \/ \E j \in JobIds : TakeJob(w, j)
           \/ \E b \in Rows : CreateProcessing(w, b)
           \/ StartRetry(w) \/ CheckSwitch(w) \/ CheckGate(w) \/ CallIa(w)
           \/ Finish(w) \/ FailAnalysis(w)
           \/ \E dies \in BOOLEAN : Stall(w, dies)
  <2>1. Toggle \/ (\E b \in Rows : ComeDue(b))
          \/ (\E s \in Scanners : StartScan(s) \/ ScheduleRetryAttempt(s) \/ SkipRetry(s))
          \/ UNCHANGED sentimentVars
        => UNCHANGED <<worker, job, stalls, calls>>
    BY DEF sentimentVars, Toggle, ComeDue, StartScan, ScheduleRetryAttempt, SkipRetry
  <2>2. \A w \in Workers : MarkSkipped(w) \/ MarkFailed(w) \/ Complete(w) => Finish(w)
    BY DEF MarkSkipped, MarkFailed, Complete
  <2> QED
    BY <2>1, <2>2 DEF SentimentNext
<1> QED
  BY <1>1, <1>2, <1>4, <1>5, <1>6, <1>7, <1>8, <1>b, TakeCovered, CreateCovered,
     CallCovered, StallCovered

LEMMA CallsInit ==
    ASSUME SentimentInit, NEW a \in Rows
    PROVE  CallsCovered(a)
<1>1. Callers(a) = {}
  BY DEF SentimentInit, Callers, Calls, Resting
<1>2. Ready(a) \subseteq RetriesOf(a)
  BY DEF Ready
<1>3. Cardinality(Ready(a)) <= MaxRetries
  BY <1>2, RetriesCounted, Finite, FS_Subset, FS_CardinalityType, SentimentAssumption
<1>4. calls[a] = 0 /\ Uninserted(a) = 1
  BY DEF SentimentInit, Uninserted, Unused
<1> QED
  BY <1>1, <1>3, <1>4, Finite, FS_EmptySet, SentimentAssumption DEF CallsCovered
-----------------------------------------------------------------------------
LEMMA SentimentInductive == SentimentSpec => [](CallsInv /\ \A a \in Rows : CallsCovered(a))
<1>1. SentimentInit => CallsInv /\ \A a \in Rows : CallsCovered(a)
  <2>1. SentimentInit => OneRunnerPerAnalysis /\ RowOfJob
    BY DEF SentimentInit, OneRunnerPerAnalysis, RowOfJob, Analysing, Resting
  <2> QED
    BY <2>1, SentimentShapeInit, CallsInit DEF CallsInv
<1>2. CallsInv /\ (\A a \in Rows : CallsCovered(a)) /\ [SentimentNext]_sentimentVars
        => CallsInv' /\ (\A a \in Rows : CallsCovered(a))'
  <2> SUFFICES ASSUME CallsInv, \A a \in Rows : CallsCovered(a), [SentimentNext]_sentimentVars
               PROVE  CallsInv' /\ \A a \in Rows : CallsCovered(a)'
    OBVIOUS
  <2>1. CallsInv'
    BY SentimentShapeStep, OneRunnerStep, RowOfJobStep DEF CallsInv
  <2> QED
    BY <2>1, CallsStep
<1> QED
  BY <1>1, <1>2, PTL DEF SentimentSpec

\* Rows, jobs, workers and scans keep their types.
THEOREM SentimentTypes == SentimentSpec => []SentimentTypeOK
<1>1. CallsInv => SentimentTypeOK
  BY DEF CallsInv, SentimentShape
<1> QED
  BY <1>1, SentimentInductive, PTL

\* An analysis has one runner at a time, which finds it in processing, for any
\* messages, workers and scans (createProcessing, startRetry,
\* scheduleRetryAttempt).
THEOREM AnalysesHaveOneRunner == SentimentSpec => []OneRunnerPerAnalysis
<1>1. CallsInv => OneRunnerPerAnalysis
  BY DEF CallsInv
<1> QED
  BY <1>1, SentimentInductive, PTL

\* The IA is called for an analysis once, and once for each attempt and for
\* each retry job handed back, whatever overlaps (jobId of runOnce).
THEOREM CallsAreBounded == SentimentSpec => []CallsBounded
<1>1. ASSUME CallsInv, \A a \in Rows : CallsCovered(a)
      PROVE  CallsBounded
  <2> SUFFICES ASSUME NEW a \in Rows
               PROVE  calls[a] <= 1 + MaxRetries + Cardinality(HandedBack(a))
    BY DEF CallsBounded
  <2>1. calls[a] \in Nat
    BY <1>1 DEF CallsInv, SentimentShape, SentimentTypeOK
  <2>2. Uninserted(a) \in Nat
    BY DEF Uninserted
  <2> QED
    BY <1>1, <2>1, <2>2, Finite, SentimentAssumption DEF CallsCovered
<1> QED
  BY <1>1, SentimentInductive, PTL
-----------------------------------------------------------------------------
(* The budget, its alerts and the settings row (Spend).                     *)

Saving(r) == request[r].at \in {"save", "update"}

\* A request that waits holds nothing, and the saves are those of an alert, of
\* a budget, which a check follows, or of one other setting.
Asks(r) ==
    /\ request[r].at = "idle" => request[r] = Waiting
    /\ request[r].at = "sum" => request[r].next = "idle"
    /\ Saving(r) =>
          \/ /\ request[r].next = "notify" /\ request[r].wants = {"alert"}
             /\ request[r].entity.alert # NoAlert
          \/ /\ request[r].next = "check" /\ request[r].wants = {"budget", "alert"}
             /\ request[r].entity.alert = NoAlert
          \/ request[r].next = "idle" /\ request[r].wants \in {{"paused"}, {"hours"}}
    /\ request[r].entity.alert.month <= month

\* While nobody changed the row since it was read, the entity is that row but
\* for the columns the request changes, and the alert it is about to store is
\* news.
Fresh(r) ==
    ~ request[r].old =>
        /\ request[r].at = "sum" => request[r].entity = settings
        /\ Saving(r) => \A c \in Columns \ request[r].wants :
                            request[r].entity[c] = settings[c]
        /\ request[r].at = "update" =>
              request[r].diff = {c \in Columns : request[r].entity[c] # settings[c]}
        /\ Saving(r) /\ request[r].next = "notify" =>
              /\ settings.alert.month <= request[r].entity.alert.month
              /\ settings.alert # request[r].entity.alert
              /\ settings.alert.month = request[r].entity.alert.month
                    => settings.alert.level = "warning"

\* While no stale entity was saved, the row is what was asked for, and it holds
\* the last alert of the month.
AsAsked ==
    ~ stale =>
        /\ \A c \in Columns \ {"alert"} : settings[c] = asked[c]
        /\ putBack = {}
        /\ \A l \in Levels : raised[l] <= 1
        /\ \A l \in Levels : raised[l] # 0 =>
              settings.alert.month = month /\ settings.alert.level \in {l, "exceeded"}

\* An alert of this month that some row or entity holds was announced, or will
\* be by the request that stores it.
Announcing(r, l) ==
    /\ \/ Saving(r) /\ request[r].next = "notify"
       \/ request[r].at = "notify"
    /\ request[r].entity.alert = [month |-> month, level |-> l]

Announced(alert) ==
    alert.month = month =>
        alert.level \in heard \/ \E r \in Requests : Announcing(r, alert.level)

\* A request that is going to compare what is spent with the budget of now.
Checking(r) ==
    \/ request[r].at = "check"
    \/ Saving(r) /\ request[r].next = "check"
    \/ request[r].at = "sum" /\ request[r].entity.budget = settings.budget

Reached(l) ==
    \/ l \in heard
    \/ l = "warning" /\ heard # {}
    \/ \E r \in Requests : \/ Checking(r) \/ Announcing(r, l)
                           \/ l = "warning" /\ Announcing(r, "exceeded")

Heeded ==
    failures = 0 =>
        /\ Announced(settings.alert) /\ \A r \in Requests : Announced(request[r].entity.alert)
        /\ ~ repriced /\ "budget" \notin putBack =>
              \A l \in Levels : Due(l) => Reached(l)

SpendInv ==
    /\ SpendTypeOK
    /\ settings.alert.month <= month
    /\ \A m \in Deliveries : charge[m].month <= month
    /\ \A r \in Requests : Asks(r)
    /\ \A r \in Requests : Fresh(r)
    /\ AsAsked
    /\ Heeded
-----------------------------------------------------------------------------
(* The steps of one request, which leave the row alone.                     *)

LEMMA WaitingType == Waiting \in Request
BY SpendAssumption DEF Waiting, Request, RequestStages, Defaults, Settings, Columns,
   Alerts, NoAlert

Others(r) == \A q \in Requests \ {r} : request'[q] = request[q]

\* What a step of one request that does not write the row leaves as it was.
LEMMA Turn ==
    ASSUME SpendInv, NEW r \in Requests, NEW x \in Request,
           request' = [request EXCEPT ![r] = x],
           UNCHANGED <<settings, rate, month, raised, asked, stale, putBack, repriced>>
    PROVE  /\ request' \in [Requests -> Request]
           /\ request'[r] = x /\ Others(r)
           /\ \A q \in Requests \ {r} : Asks(q)' /\ Fresh(q)'
           /\ AsAsked'
           /\ (settings.alert.month <= month)'
           /\ settings' \in Settings /\ asked' \in Settings /\ rate' \in Rates
           /\ month' \in 1..LastMonth /\ raised' \in [Levels -> Nat]
           /\ stale' \in BOOLEAN /\ putBack' \subseteq Columns /\ repriced' \in BOOLEAN
<1>1. /\ request' \in [Requests -> Request]
      /\ request'[r] = x /\ Others(r)
  BY DEF SpendInv, SpendTypeOK, Others
<1>2. ASSUME NEW q \in Requests \ {r} PROVE Asks(q)' /\ Fresh(q)'
  <2>1. Asks(q) /\ Fresh(q) /\ request'[q] = request[q]
    BY <1>1 DEF SpendInv, Others
  <2> QED
    BY <2>1 DEF Asks, Fresh, Saving
<1>3. AsAsked'
  BY DEF SpendInv, AsAsked
<1> QED
  BY <1>1, <1>2, <1>3 DEF SpendInv, SpendTypeOK

LEMMA AlertLevels ==
    ASSUME NEW a \in Alerts, month \in 1..LastMonth, a.month = month
    PROVE  a.level \in Levels
BY SpendAssumption DEF Alerts, NoAlert

LEMMA RowAlert ==
    ASSUME SpendInv
    PROVE  settings \in Settings /\ settings.alert \in Alerts /\ month \in 1..LastMonth
BY DEF SpendInv, SpendTypeOK, Settings

LEMMA EntityAlert ==
    ASSUME SpendInv, NEW r \in Requests
    PROVE  /\ request[r] \in Request /\ request[r].entity \in Settings
           /\ request[r].entity.alert \in Alerts
           /\ settings \in Settings /\ settings.alert \in Alerts /\ month \in 1..LastMonth
BY DEF SpendInv, SpendTypeOK, Request, Settings

\* The alerts stay heeded if the request passes on what it was about to do.
LEMMA Passes ==
    ASSUME SpendInv, NEW r \in Requests, Others(r),
           failures' = 0 => failures = 0,
           UNCHANGED <<settings, month, repriced, putBack>>,
           heard \subseteq heard',
           \/ request'[r].entity.alert \in {NoAlert, settings.alert, request[r].entity.alert}
           \/ \E l \in Levels : Announcing(r, l)',
           \A l \in Levels :
              failures' = 0 /\ Announcing(r, l) => Announcing(r, l)' \/ l \in heard',
           Total' = Total \/ Checking(r)',
           failures' = 0 /\ Checking(r)
               => Checking(r)' \/ \A l \in Levels : Due(l)' => Reached(l)'
    PROVE  Heeded'
<1> SUFFICES ASSUME failures' = 0
             PROVE  Heeded'
  BY DEF Heeded
<1>0. Heeded /\ failures = 0
  BY DEF SpendInv
<1>1. \A q \in Requests \ {r}, l \in Levels : Announcing(q, l)' <=> Announcing(q, l)
  BY DEF Others, Announcing, Saving
<1>2. \A q \in Requests \ {r} : Checking(q)' <=> Checking(q)
  BY DEF Others, Checking, Saving
<1>3. ASSUME NEW a \in Alerts, Announced(a), month' = month
      PROVE  a.month = month' => \/ a.level \in heard'
                                 \/ \E q \in Requests : Announcing(q, a.level)'
  <2> SUFFICES ASSUME a.month = month, a.level \notin heard'
               PROVE  \E q \in Requests : Announcing(q, a.level)'
    BY <1>3
  <2>1. a.level \in Levels
    BY EntityAlert, AlertLevels
  <2>2. PICK q \in Requests : Announcing(q, a.level)
    BY <1>3 DEF Announced
  <2> QED
    BY <1>1, <2>1, <2>2
<1>4. Announced(settings.alert)'
  <2>1. settings.alert \in Alerts /\ Announced(settings.alert) /\ settings.alert' = settings.alert
    BY <1>0, EntityAlert DEF Heeded
  <2> QED
    BY <1>3, <2>1 DEF Announced
<1>5. ASSUME NEW q \in Requests PROVE Announced(request[q].entity.alert)'
  <2>1. CASE q = r
    <3>1. request[r].entity.alert \in Alerts /\ settings.alert \in Alerts
      BY EntityAlert
    <3>2. Announced(request[r].entity.alert) /\ Announced(settings.alert)
      BY <1>0 DEF Heeded
    <3>3. CASE request'[r].entity.alert = NoAlert
      BY <2>1, <3>3, EntityAlert DEF Announced, NoAlert
    <3>4. ASSUME NEW a \in {settings.alert, request[r].entity.alert},
                 request'[r].entity.alert = a
          PROVE  Announced(request[r].entity.alert)'
      BY <1>3, <3>1, <3>2, <3>4 DEF Announced
    <3>5. ASSUME NEW l \in Levels, Announcing(r, l)'
          PROVE  Announced(request[r].entity.alert)'
      BY <3>5 DEF Announced, Announcing
    <3> QED
      BY <2>1, <3>3, <3>4, <3>5
  <2>2. CASE q # r
    <3>1. /\ request[q].entity.alert \in Alerts /\ Announced(request[q].entity.alert)
          /\ request'[q].entity.alert = request[q].entity.alert
      BY <1>0, <2>2, EntityAlert DEF Heeded, Others
    <3> QED
      BY <1>3, <3>1 DEF Announced
  <2> QED
    BY <2>1, <2>2
<1>6. ASSUME (~ repriced /\ "budget" \notin putBack)', NEW l \in Levels, Due(l)'
      PROVE  Reached(l)'
  <2>1. CASE Checking(r)'
    BY <2>1 DEF Reached
  <2>2. CASE ~ Checking(r)'
    <3>1. Due(l)
      BY <1>6, <2>2 DEF Due
    <3>2. Reached(l)
      BY <1>0, <1>6, <3>1 DEF Heeded
    <3>3. CASE l \in heard \/ (l = "warning" /\ heard # {})
      BY <3>3 DEF Reached
    <3>4. ASSUME NEW q \in Requests, Checking(q)
          PROVE  Reached(l)'
      <4>1. CASE q = r
        BY <1>6, <2>2, <3>4, <4>1
      <4>2. CASE q # r
        BY <1>2, <3>4, <4>2 DEF Reached
      <4> QED
        BY <4>1, <4>2
    <3>5. ASSUME NEW q \in Requests, NEW k \in Levels, Announcing(q, k),
                 k = l \/ l = "warning"
          PROVE  Reached(l)'
      <4>1. Announcing(q, k)' \/ k \in heard'
        BY <1>1, <3>5
      <4> QED
        BY <3>5, <4>1 DEF Reached, Levels
    <3> QED
      BY <3>2, <3>3, <3>4, <3>5 DEF Reached, Levels
  <2> QED
    BY <2>1, <2>2
<1> QED
  BY <1>4, <1>5, <1>6 DEF Heeded

LEMMA TurnInv ==
    ASSUME SpendInv, NEW r \in Requests, NEW x \in Request,
           request' = [request EXCEPT ![r] = x],
           UNCHANGED <<settings, rate, month, raised, asked, stale, putBack, repriced>>,
           charge' \in [Deliveries -> [kind: {"free", "billable"}, month: 1..LastMonth]
                                      \cup {Uncharged}],
           \A m \in Deliveries : charge'[m].month <= month,
           heard' \subseteq Levels, changes' \in 0..MaxSettingChanges,
           failures' \in 0..MaxFailures,
           Asks(r)', Fresh(r)', Heeded'
    PROVE  SpendInv'
<1>1. SpendTypeOK' /\ (settings.alert.month <= month)' /\ AsAsked'
  BY Turn DEF SpendTypeOK
<1>2. \A q \in Requests : Asks(q)' /\ Fresh(q)'
  BY Turn
<1> QED
  BY <1>1, <1>2 DEF SpendInv

LEMMA ThresholdsReached ==
    ASSUME NEW total \in Nat, NEW budget \in Nat
    PROVE  ThresholdOf(total, budget) \in Levels \cup {"none"}
BY DEF ThresholdOf, Levels

LEMMA Money == Budgets \cup {0} \subseteq Nat
BY SpendAssumption

LEMMA TotalType ==
    ASSUME SpendInv
    PROVE  Total \in Nat
<1> DEFINE billed == {m \in Deliveries : charge[m] = [kind |-> "billable", month |-> month]}
<1>1. Cardinality(billed) \in Nat
  BY SpendAssumption, FS_Subset, FS_CardinalityType
<1>2. rate \in Nat
  BY SpendAssumption DEF SpendInv, SpendTypeOK
<1> QED
  BY <1>1, <1>2 DEF Total

\* recordReport: a billable report is checked next.
LEMMA RecordReportInv ==
    ASSUME SpendInv, NEW r \in Requests, NEW m \in Deliveries, NEW billable \in BOOLEAN,
           NEW at \in 1..LastMonth, RecordReport(r, m, billable, at)
    PROVE  SpendInv'
<1> DEFINE x == [Waiting EXCEPT !.at = "check"]
           paid == [kind |-> IF billable THEN "billable" ELSE "free", month |-> at]
<1>1. /\ request[r] = Waiting /\ charge' = [charge EXCEPT ![m] = paid] /\ at <= month
      /\ UNCHANGED <<settings, rate, month, raised, heard, asked, stale, putBack, repriced,
                     changes, failures>>
  BY DEF RecordReport, SpendInv, Asks
<1>2. /\ charge' \in [Deliveries -> [kind: {"free", "billable"}, month: 1..LastMonth]
                                    \cup {Uncharged}]
      /\ \A n \in Deliveries : charge'[n] = IF n = m THEN paid ELSE charge[n]
  BY <1>1 DEF SpendInv, SpendTypeOK
<1>3. \A n \in Deliveries : charge'[n].month <= month
  BY <1>1, <1>2 DEF SpendInv
<1>4. /\ heard' \subseteq Levels /\ changes' \in 0..MaxSettingChanges
      /\ failures' \in 0..MaxFailures
  BY <1>1 DEF SpendInv, SpendTypeOK
<1>5. CASE billable
  <2>1. request' = [request EXCEPT ![r] = x]
    <3>1. request' = [request EXCEPT ![r].at = "check"]
      BY <1>5 DEF RecordReport
    <3> QED
      BY <1>1, <3>1
  <2>2. x \in Request /\ x.at = "check" /\ x.entity.alert = NoAlert
    BY WaitingType DEF Request, RequestStages, Waiting, Defaults
  <2>3. request'[r] = x /\ Others(r)
    BY <1>1, <2>1, <2>2, Turn
  <2> HIDE DEF x
  <2>4. Asks(r)' /\ Fresh(r)'
    BY <1>1, <2>2, <2>3, EntityAlert DEF Asks, Fresh, Saving, NoAlert
  <2>5. Checking(r)'
    BY <2>2, <2>3 DEF Checking
  <2>6. \A l \in Levels : ~ Announcing(r, l)
    BY <1>1 DEF Announcing, Saving, Waiting
  <2>7. Heeded'
    BY <1>1, <2>2, <2>3, <2>5, <2>6, Passes
  <2> QED
    BY <1>1, <1>2, <1>3, <1>4, <2>1, <2>2, <2>4, <2>7, TurnInv
<1>6. CASE ~ billable
  <2>1. request' = [request EXCEPT ![r] = Waiting]
    BY <1>1, <1>6 DEF RecordReport, SpendInv, SpendTypeOK
  <2>2. request'[r] = request[r] /\ Others(r) /\ request' = request
    BY <1>1, <2>1, WaitingType, Turn DEF SpendInv, SpendTypeOK
  <2>3. Asks(r)' /\ Fresh(r)'
    BY <1>1, <2>2 DEF SpendInv, Asks, Fresh, Saving
  <2>4. Total' = Total
    <3>1. \A n \in Deliveries : charge'[n] = [kind |-> "billable", month |-> month]
                                <=> charge[n] = [kind |-> "billable", month |-> month]
      BY <1>1, <1>2, <1>6 DEF RecordReport, Uncharged
    <3> QED
      BY <1>1, <3>1 DEF Total
  <2>5. \A l \in Levels : Announcing(r, l) => Announcing(r, l)'
    BY <1>1, <2>2 DEF Announcing, Saving
  <2>6. Checking(r) => Checking(r)'
    BY <1>1, <2>2 DEF Checking, Saving
  <2>7. Heeded'
    BY <1>1, <2>2, <2>4, <2>5, <2>6, Passes
  <2> QED
    BY <1>1, <1>2, <1>3, <1>4, <2>1, <2>3, <2>7, WaitingType, TurnInv
<1> QED
  BY <1>5, <1>6

\* A request that saves a setting (updateBudget, setPaused, the service settings).
LEMMA StartInv ==
    ASSUME SpendInv, NEW r \in Requests, request[r].at = "idle",
           NEW entity \in Settings, NEW wants \in SUBSET Columns, NEW next,
           Start(r, entity, wants, next),
           \A c \in Columns \ wants : entity[c] = settings[c],
           \/ next = "check" /\ wants = {"budget", "alert"} /\ entity.alert = NoAlert
           \/ next = "idle" /\ wants \in {{"paused"}, {"hours"}},
           changes' \in 0..MaxSettingChanges,
           UNCHANGED <<settings, rate, charge, month, raised, heard, asked, stale, putBack,
                       repriced, failures>>
    PROVE  SpendInv'
<1> DEFINE x == [at |-> "save", entity |-> entity, wants |-> wants,
                 diff |-> {}, old |-> FALSE, next |-> next]
<1>1. x \in Request /\ request' = [request EXCEPT ![r] = x]
  BY DEF Request, RequestStages, Start
<1>2. /\ x.at = "save" /\ x.entity = entity /\ x.wants = wants /\ x.next = next
      /\ request'[r] = x /\ Others(r)
  BY <1>1, Turn
<1>3. entity.alert \in {NoAlert, settings.alert}
  <2>1. "alert" \in Columns
    BY DEF Columns
  <2> QED
    BY <2>1
<1> HIDE DEF x
<1>4. Asks(r)'
  BY <1>2, <1>3 DEF Asks, Saving, SpendInv, SpendTypeOK, NoAlert
<1>5. Fresh(r)'
  BY <1>2 DEF Fresh, Saving
<1>6. Heeded'
  <2>1. Total' = Total
    BY DEF Total
  <2>2. ~ Checking(r) /\ \A l \in Levels : ~ Announcing(r, l)
    BY DEF Checking, Announcing, Saving
  <2> QED
    BY <1>2, <1>3, <2>1, <2>2, Passes
<1> QED
  BY <1>1, <1>4, <1>5, <1>6, TurnInv DEF SpendInv, SpendTypeOK

LEMMA SettingsInv ==
    ASSUME SpendInv, NEW r \in Requests,
           \/ \E budget \in Budgets \cup {0} : UpdateBudget(r, budget)
           \/ \E paused \in BOOLEAN : SetPaused(r, paused)
           \/ \E hours \in BOOLEAN : UpdateServiceSettings(r, hours)
    PROVE  SpendInv'
<1>0. settings \in Settings /\ changes \in 0..MaxSettingChanges /\ MaxSettingChanges \in Nat
  BY SpendAssumption DEF SpendInv, SpendTypeOK
<1>1. ASSUME NEW budget \in Budgets \cup {0}, UpdateBudget(r, budget)
      PROVE  SpendInv'
  <2> DEFINE entity == [settings EXCEPT !.budget = budget, !.alert = NoAlert]
  <2>1. /\ entity \in Settings /\ entity.alert = NoAlert
        /\ \A c \in Columns \ {"budget", "alert"} : entity[c] = settings[c]
    BY <1>0 DEF Settings, Columns, Alerts
  <2>2. {"budget", "alert"} \in SUBSET Columns
    BY DEF Columns
  <2>3. Start(r, entity, {"budget", "alert"}, "check")
    BY <1>1, Zenon DEF UpdateBudget
  <2>4. Change
    BY <1>1, Zenon DEF UpdateBudget
  <2>5. changes' \in 0..MaxSettingChanges
    BY <1>0, <2>4 DEF Change
  <2> HIDE DEF entity
  <2> QED
    BY <1>1, <2>1, <2>2, <2>3, <2>5, StartInv DEF UpdateBudget
<1>2. ASSUME NEW paused \in BOOLEAN, SetPaused(r, paused)
      PROVE  SpendInv'
  <2> DEFINE entity == [settings EXCEPT !.paused = paused]
  <2>1. entity \in Settings /\ \A c \in Columns \ {"paused"} : entity[c] = settings[c]
    BY <1>0 DEF Settings, Columns
  <2>2. {"paused"} \in SUBSET Columns
    BY DEF Columns
  <2>3. Start(r, entity, {"paused"}, "idle") /\ changes' \in 0..MaxSettingChanges
    BY <1>0, <1>2 DEF SetPaused, Change
  <2> HIDE DEF entity
  <2> QED
    BY <1>2, <2>1, <2>2, <2>3, StartInv DEF SetPaused
<1>3. ASSUME NEW hours \in BOOLEAN, UpdateServiceSettings(r, hours)
      PROVE  SpendInv'
  <2> DEFINE entity == [settings EXCEPT !.hours = hours]
  <2>1. entity \in Settings /\ \A c \in Columns \ {"hours"} : entity[c] = settings[c]
    BY <1>0 DEF Settings, Columns
  <2>2. {"hours"} \in SUBSET Columns
    BY DEF Columns
  <2>3. Start(r, entity, {"hours"}, "idle") /\ changes' \in 0..MaxSettingChanges
    BY <1>0, <1>3 DEF UpdateServiceSettings, Change
  <2> HIDE DEF entity
  <2> QED
    BY <1>3, <2>1, <2>2, <2>3, StartInv DEF UpdateServiceSettings
<1> QED
  BY <1>1, <1>2, <1>3

\* save, its comparison with the row.
LEMMA CompareInv ==
    ASSUME SpendInv, NEW r \in Requests, Compare(r)
    PROVE  SpendInv'
<1> DEFINE differ == {c \in Columns : request[r].entity[c] # settings[c]}
<1>1. /\ request[r].at = "save" /\ request[r] \in Request
      /\ UNCHANGED <<settings, rate, charge, month, raised, heard, asked, stale, putBack,
                     repriced, changes, failures>>
  BY EntityAlert DEF Compare
<1>2. PICK x \in Request :
         /\ request' = [request EXCEPT ![r] = x]
         /\ x.at = "update" /\ x.diff = differ /\ x.entity = request[r].entity
         /\ x.wants = request[r].wants /\ x.next = request[r].next /\ x.old = request[r].old
  <2> DEFINE y == [request[r] EXCEPT !.at = "update", !.diff = differ]
  <2>1. request' = [request EXCEPT ![r] = y]
    BY Zenon DEF Compare
  <2>2. /\ y \in Request /\ y.at = "update" /\ y.diff = differ /\ y.entity = request[r].entity
        /\ y.wants = request[r].wants /\ y.next = request[r].next /\ y.old = request[r].old
    BY <1>1 DEF Request, RequestStages
  <2> QED
    BY <2>1, <2>2
<1>3. request'[r] = x /\ Others(r)
  BY <1>1, <1>2, Turn
<1>4. Asks(r)' /\ Fresh(r)'
  <2>1. Asks(r) /\ Fresh(r)
    BY DEF SpendInv
  <2>2. Asks(r)'
    BY <1>1, <1>2, <1>3, <2>1 DEF Asks, Saving
  <2>3. Fresh(r)'
    BY <1>1, <1>2, <1>3, <2>1 DEF Fresh, Saving
  <2> QED
    BY <2>2, <2>3
<1>5. Heeded'
  <2>1. Total' = Total
    BY <1>1 DEF Total
  <2>2. Checking(r) => Checking(r)'
    BY <1>1, <1>2, <1>3 DEF Checking, Saving
  <2>3. \A l \in Levels : Announcing(r, l) => Announcing(r, l)'
    BY <1>1, <1>2, <1>3 DEF Announcing, Saving
  <2> QED
    BY <1>1, <1>2, <1>3, <2>1, <2>2, <2>3, Passes
<1> QED
  BY <1>1, <1>2, <1>4, <1>5, TurnInv DEF SpendInv, SpendTypeOK

\* checkBudget, its reading of the settings.
LEMMA ReadSettingsInv ==
    ASSUME SpendInv, NEW r \in Requests, ReadSettings(r)
    PROVE  SpendInv'
<1> DEFINE reading == [Waiting EXCEPT !.at = "sum", !.entity = settings]
<1>1. /\ request[r].at = "check" /\ settings \in Settings
      /\ UNCHANGED <<settings, rate, charge, month, raised, heard, asked, stale, putBack,
                     repriced, changes, failures>>
  BY EntityAlert DEF ReadSettings
<1>2. /\ reading \in Request /\ reading.at = "sum" /\ reading.entity = settings
      /\ reading.next = "idle"
  BY <1>1, WaitingType DEF Request, RequestStages, Waiting
<1>3. PICK x \in Request :
         /\ request' = [request EXCEPT ![r] = x]
         /\ IF settings.budget = 0 THEN x = Waiting ELSE x = reading
  BY <1>2, WaitingType DEF ReadSettings
<1> HIDE DEF reading
<1>4. request'[r] = x /\ Others(r)
  BY <1>1, <1>3, Turn
<1>5. Asks(r)' /\ Fresh(r)'
  <2>1. CASE x = Waiting
    BY <1>1, <1>4, <2>1, EntityAlert DEF Asks, Fresh, Saving, Waiting, Defaults, NoAlert
  <2>2. CASE x = reading
    BY <1>1, <1>2, <1>4, <2>2 DEF Asks, Fresh, Saving, SpendInv
  <2> QED
    BY <1>3, <2>1, <2>2
<1>6. Heeded'
  <2>1. Total' = Total
    BY <1>1 DEF Total
  <2>2. Checking(r)' \/ \A l \in Levels : ~ Due(l)'
    <3>1. CASE settings.budget = 0
      BY <1>1, <3>1 DEF Due
    <3>2. CASE settings.budget # 0
      BY <1>1, <1>2, <1>3, <1>4, <3>2 DEF Checking
    <3> QED
      BY <3>1, <3>2
  <2>3. \A l \in Levels : ~ Announcing(r, l)
    BY <1>1 DEF Announcing, Saving
  <2>4. x.entity.alert \in {NoAlert, settings.alert}
    BY <1>2, <1>3 DEF Waiting, Defaults
  <2> QED
    BY <1>1, <1>4, <2>1, <2>2, <2>3, <2>4, Passes
<1> QED
  BY <1>1, <1>3, <1>5, <1>6, TurnInv DEF SpendInv, SpendTypeOK

\* checkBudget, the comparison with what is spent: what it reads is the budget
\* of now if nobody changed it, and an alert it finds in the row was announced.
LEMMA SumInv ==
    ASSUME SpendInv, NEW r \in Requests, Sum(r)
    PROVE  SpendInv'
<1>1. /\ request[r].at = "sum" /\ request[r] \in Request /\ request[r].entity \in Settings
      /\ month \in 1..LastMonth
      /\ UNCHANGED <<settings, rate, charge, month, raised, heard, asked, stale, putBack,
                     repriced, changes, failures>>
  BY EntityAlert DEF Sum
<1>2. PICK level \in Levels \cup {"none"} :
         level = ThresholdOf(Total, request[r].entity.budget)
  <2>1. request[r].entity.budget \in Nat
    <3>1. request[r].entity.budget \in Budgets \cup {0}
      BY <1>1 DEF Settings
    <3> QED
      BY <3>1, Money
  <2> QED
    BY <2>1, TotalType, ThresholdsReached
<1> DEFINE key == [month |-> month, level |-> level]
           quiet == \/ level = "none"
                    \/ request[r].entity.alert \in {key, [month |-> month, level |-> "exceeded"]}
<1>3. /\ Asks(r) /\ Fresh(r)
      /\ request[r].next = "idle" /\ request[r].entity.alert.month <= month
  BY <1>1 DEF SpendInv, Asks
<1>4. Total' = Total
  BY <1>1 DEF Total
<1>5. ~ \E l \in Levels : Announcing(r, l)
  BY <1>1 DEF Announcing, Saving
<1>6. CASE quiet
  <2>1. request' = [request EXCEPT ![r] = Waiting]
    BY <1>2, <1>6 DEF Sum
  <2>2. request'[r] = Waiting /\ Others(r)
    BY <1>1, <2>1, WaitingType, Turn
  <2>3. Asks(r)' /\ Fresh(r)'
    BY <1>1, <2>2, EntityAlert DEF Asks, Fresh, Saving, Waiting, Defaults, NoAlert
  <2>4. ASSUME failures' = 0, Checking(r), NEW l \in Levels, Due(l)'
        PROVE  Reached(l)'
    <3>1. request[r].entity.budget = settings.budget
      BY <1>1, <2>4 DEF Checking, Saving
    <3>2. level = l
      BY <1>1, <1>2, <1>4, <2>4, <3>1 DEF Due
    <3>3. Announced(request[r].entity.alert)
      BY <1>1, <2>4 DEF SpendInv, Heeded
    <3>4. /\ request[r].entity.alert.month = month
          /\ request[r].entity.alert.level \in {l, "exceeded"}
      BY <1>6, <3>2 DEF Levels
    <3>5. PICK k \in {l, "exceeded"} : k \in heard \/ \E q \in Requests : Announcing(q, k)
      BY <3>3, <3>4 DEF Announced
    <3>6. k \in Levels /\ (k = l \/ l = "warning")
      BY <3>5 DEF Levels
    <3>7. ASSUME NEW q \in Requests, Announcing(q, k) PROVE Announcing(q, k)'
      <4>1. q # r
        BY <1>5, <3>6, <3>7
      <4> QED
        BY <1>1, <2>2, <3>7, <4>1 DEF Announcing, Saving, Others
    <3>8. k \in heard' \/ \E q \in Requests : Announcing(q, k)'
      BY <1>1, <3>5, <3>7
    <3> QED
      BY <3>5, <3>6, <3>8 DEF Reached
  <2>5. Waiting.entity.alert = NoAlert
    BY DEF Waiting, Defaults
  <2>6. Heeded'
    BY <1>1, <1>4, <1>5, <2>2, <2>4, <2>5, Passes
  <2> QED
    BY <1>1, <2>1, <2>3, <2>6, WaitingType, TurnInv DEF SpendInv, SpendTypeOK
<1>7. CASE ~ quiet
  <2>1. level \in Levels /\ key \in Alerts
    BY <1>1, <1>2, <1>7 DEF Alerts
  <2>2. PICK x \in Request :
           /\ request' = [request EXCEPT ![r] = x]
           /\ x.at = "save" /\ x.wants = {"alert"} /\ x.next = "notify"
           /\ x.entity.alert = key /\ x.old = request[r].old
           /\ \A c \in Columns \ {"alert"} : x.entity[c] = request[r].entity[c]
    <3> DEFINE entity == [request[r].entity EXCEPT !.alert = key]
               y == [request[r] EXCEPT !.at = "save", !.wants = {"alert"}, !.next = "notify",
                                       !.entity = entity]
    <3>1. request' = [request EXCEPT ![r] = y]
      BY <1>2, <1>7, Zenon DEF Sum
    <3>2. /\ entity \in Settings /\ entity.alert = key
          /\ \A c \in Columns \ {"alert"} : entity[c] = request[r].entity[c]
      <4> HIDE DEF key
      <4> QED
        BY <1>1, <2>1 DEF Settings, Columns
    <3> HIDE DEF entity, key
    <3>3. /\ y \in Request /\ y.at = "save" /\ y.wants = {"alert"} /\ y.next = "notify"
          /\ y.entity = entity /\ y.old = request[r].old
      BY <1>1, <3>2 DEF Request, RequestStages, Columns
    <3> QED
      BY <3>1, <3>2, <3>3
  <2>3. request'[r] = x /\ Others(r)
    BY <1>1, <2>2, Turn
  <2>4. key.month = month /\ key.level = level /\ level # "none" /\ month # 0
    BY <1>1, <1>2, <1>7
  <2>5. Asks(r)'
    BY <1>1, <2>2, <2>3, <2>4 DEF Asks, Saving, NoAlert
  <2>6. Fresh(r)'
    <3> SUFFICES ASSUME ~ request[r].old
                 PROVE  /\ settings.alert.month <= month
                        /\ settings.alert # key
                        /\ settings.alert.month = month => settings.alert.level = "warning"
                        /\ request[r].entity = settings
      BY <1>1, <2>2, <2>3, <2>4 DEF Fresh, Saving
    <3>1. request[r].entity = settings
      BY <1>1, <1>3 DEF Fresh
    <3>2. settings.alert \in Alerts /\ settings.alert.month <= month
      BY <1>3, <3>1, EntityAlert
    <3>3. settings.alert # key /\ settings.alert # [month |-> month, level |-> "exceeded"]
      BY <1>7, <3>1
    <3>4. settings.alert.month = month => settings.alert.level = "warning"
      BY <1>1, <3>2, <3>3 DEF Alerts, Levels, NoAlert
    <3> QED
      BY <3>1, <3>2, <3>3, <3>4
  <2>7. Announcing(r, level)'
    <3>1. request'[r].entity.alert = [month |-> month', level |-> level]
      BY <1>1, <2>2, <2>3
    <3> QED
      BY <2>2, <2>3, <3>1 DEF Announcing, Saving
  <2>8. ASSUME Checking(r), NEW l \in Levels, Due(l)' PROVE Reached(l)'
    <3>1. level = l
      BY <1>1, <1>2, <1>4, <2>8 DEF Due, Checking, Saving
    <3> QED
      BY <2>7, <3>1 DEF Reached
  <2>9. Heeded'
    <3>1. level \in Levels /\ Announcing(r, level)'
      BY <2>1, <2>7
    <3> QED
      BY <1>1, <1>4, <1>5, <2>3, <2>8, <3>1, Passes
  <2> QED
    BY <1>1, <2>2, <2>5, <2>6, <2>9, TurnInv DEF SpendInv, SpendTypeOK
<1> QED
  BY <1>6, <1>7

\* notifyAdmins: the alert of this month is heard.
LEMMA NotifyAdminsInv ==
    ASSUME SpendInv, NEW r \in Requests, NotifyAdmins(r)
    PROVE  SpendInv'
<1>1. /\ request[r].at = "notify" /\ request' = [request EXCEPT ![r] = Waiting]
      /\ UNCHANGED <<settings, rate, charge, month, raised, asked, stale, putBack,
                     repriced, changes, failures>>
  BY DEF NotifyAdmins
<1>2. request'[r] = Waiting /\ Others(r)
  BY <1>1, WaitingType, Turn
<1>3. Asks(r)' /\ Fresh(r)'
  BY <1>1, <1>2, EntityAlert DEF Asks, Fresh, Saving, Waiting, Defaults, NoAlert
<1>4. heard \subseteq heard' /\ heard' \subseteq Levels
  BY EntityAlert, AlertLevels DEF NotifyAdmins, SpendInv, SpendTypeOK
<1>5. ASSUME NEW l \in Levels, Announcing(r, l) PROVE l \in heard'
  BY <1>5 DEF Announcing, NotifyAdmins
<1>6. Heeded'
  <2>1. Total' = Total
    BY <1>1 DEF Total
  <2>2. ~ Checking(r)
    BY <1>1 DEF Checking, Saving
  <2>3. Waiting.entity.alert = NoAlert
    BY DEF Waiting, Defaults
  <2> QED
    BY <1>1, <1>2, <1>4, <1>5, <2>1, <2>2, <2>3, Passes
<1> QED
  BY <1>1, <1>3, <1>4, <1>6, WaitingType, TurnInv DEF SpendInv, SpendTypeOK

\* A statement that fails ends the request.
LEMMA FailRequestInv ==
    ASSUME SpendInv, NEW r \in Requests, FailRequest(r)
    PROVE  SpendInv'
<1>1. /\ request' = [request EXCEPT ![r] = Waiting] /\ failures' = failures + 1
      /\ failures < MaxFailures
      /\ UNCHANGED <<settings, rate, charge, month, raised, heard, asked, stale, putBack,
                     repriced, changes>>
  BY DEF FailRequest
<1>2. request'[r] = Waiting /\ Others(r)
  BY <1>1, WaitingType, Turn
<1>3. Asks(r)' /\ Fresh(r)'
  BY <1>1, <1>2, EntityAlert DEF Asks, Fresh, Saving, Waiting, Defaults, NoAlert
<1>4. failures' \in 0..MaxFailures /\ failures' # 0
  BY <1>1, SpendAssumption DEF SpendInv, SpendTypeOK
<1>5. Heeded'
  BY <1>4 DEF Heeded
<1> QED
  BY <1>1, <1>3, <1>4, <1>5, WaitingType, TurnInv DEF SpendInv, SpendTypeOK
-----------------------------------------------------------------------------
(* The steps that write the row, the rates and the calendar.                *)

\* A month begins without charges and without alerts.
LEMMA NewMonthInv ==
    ASSUME SpendInv, NewMonth
    PROVE  SpendInv'
<1>1. /\ month' = month + 1 /\ month' \in 1..LastMonth /\ month \in 1..LastMonth
      /\ raised' = [l \in Levels |-> 0] /\ heard' = {}
      /\ UNCHANGED <<settings, rate, charge, request, asked, stale, putBack, repriced,
                     changes, failures>>
  BY SpendAssumption DEF NewMonth, SpendInv, SpendTypeOK
<1>2. SpendTypeOK'
  BY <1>1 DEF SpendInv, SpendTypeOK
<1>3. \A r \in Requests : request[r].entity.alert \in Alerts /\ settings.alert \in Alerts
  BY EntityAlert
<1>4. /\ settings.alert.month \in Nat /\ settings.alert.month <= month
      /\ \A r \in Requests : /\ request[r].entity.alert.month \in Nat
                             /\ request[r].entity.alert.month <= month
  <2>1. \A a \in Alerts : a.month \in Nat
    BY SpendAssumption DEF Alerts, NoAlert
  <2>2. settings.alert \in Alerts
    BY DEF SpendInv, SpendTypeOK, Settings
  <2> QED
    BY <1>3, <2>1, <2>2 DEF SpendInv, Asks
<1>5. \A r \in Requests : Asks(r)'
  BY <1>1, <1>4 DEF SpendInv, Asks, Saving
<1>6. \A r \in Requests : Fresh(r)'
  BY <1>1 DEF SpendInv, Fresh, Saving
<1>7. AsAsked'
  BY <1>1 DEF SpendInv, AsAsked
<1>8. \A m \in Deliveries : charge'[m].month <= month' /\ charge'[m].month # month'
  <2>1. \A m \in Deliveries : charge[m].month \in Nat /\ charge[m].month <= month
    BY SpendAssumption DEF SpendInv, SpendTypeOK, Uncharged
  <2> QED
    BY <1>1, <2>1
<1>9. Heeded'
  <2>1. Announced(settings.alert)' /\ \A r \in Requests : Announced(request[r].entity.alert)'
    BY <1>1, <1>4 DEF Announced
  <2>2. Total' = 0
    <3>1. {m \in Deliveries : charge'[m] = [kind |-> "billable", month |-> month']} = {}
      BY <1>8
    <3>2. rate' * 0 = 0
      <4>1. rate \in Nat
        BY SpendAssumption DEF SpendInv, SpendTypeOK
      <4> QED
        BY <1>1, <4>1
    <3>3. Cardinality({m \in Deliveries :
                          charge'[m] = [kind |-> "billable", month |-> month']}) = 0
      BY <3>1, FS_EmptySet
    <3> QED
      BY <3>2, <3>3, Zenon DEF Total
  <2>3. settings'.budget \in Nat
    <3>1. settings'.budget \in Budgets \cup {0}
      BY <1>2 DEF SpendTypeOK, Settings
    <3> QED
      BY <3>1, Money
  <2>4. \A l \in Levels : ~ Due(l)'
    BY <2>2, <2>3 DEF Due, ThresholdOf, Levels
  <2> QED
    BY <2>1, <2>4 DEF Heeded
<1>10. settings'.alert.month <= month'
  BY <1>1, <1>4
<1> QED
  BY <1>2, <1>5, <1>6, <1>7, <1>8, <1>9, <1>10 DEF SpendInv

\* updateRates: the alerts of another price are not looked at.
LEMMA UpdateRatesInv ==
    ASSUME SpendInv, NEW usd \in Rates, UpdateRates(usd)
    PROVE  SpendInv'
<1>1. /\ rate' = usd /\ repriced' = TRUE /\ changes' = changes + 1
      /\ changes < MaxSettingChanges
      /\ UNCHANGED <<settings, charge, month, request, raised, heard, asked, stale, putBack,
                     failures>>
  BY DEF UpdateRates, Change
<1>2. SpendTypeOK'
  BY <1>1, SpendAssumption DEF SpendInv, SpendTypeOK
<1>3. \A r \in Requests : Asks(r)' /\ Fresh(r)'
  BY <1>1 DEF SpendInv, Asks, Fresh, Saving
<1>4. AsAsked'
  BY <1>1 DEF SpendInv, AsAsked
<1>5. Heeded'
  BY <1>1 DEF SpendInv, Heeded, Announced, Announcing, Saving
<1> QED
  BY <1>1, <1>2, <1>3, <1>4, <1>5 DEF SpendInv

\* What a write of the row leaves of the other requests: those that are under
\* way are stale if it changed.
Aged(q) ==
    /\ request'[q] \in Request
    /\ request'[q].at = request[q].at /\ request'[q].entity = request[q].entity
    /\ request'[q].wants = request[q].wants /\ request'[q].diff = request[q].diff
    /\ request'[q].next = request[q].next
    /\ request[q].at = "idle" => request'[q] = request[q]
    /\ ~ request'[q].old => ~ request[q].old /\ (request[q].at = "idle" \/ settings' = settings)

LEMMA Ages ==
    ASSUME SpendInv, NEW q \in Requests, NEW changed \in BOOLEAN,
           changed <=> settings' # settings,
           request'[q] = [request[q] EXCEPT !.old = @ \/ (request[q].at # "idle" /\ changed)]
    PROVE  Aged(q)
<1>1. request[q] \in Request
  BY EntityAlert
<1>2. PICK old \in BOOLEAN :
         /\ old <=> (request[q].old \/ (request[q].at # "idle" /\ changed))
         /\ request'[q] = [request[q] EXCEPT !.old = old]
  OBVIOUS
<1>3. request[q].at = "idle" => old = request[q].old
  BY <1>1, <1>2 DEF Request
<1> QED
  BY <1>1, <1>2, <1>3 DEF Request, Aged

LEMMA AgedKeeps ==
    ASSUME SpendInv, NEW q \in Requests, Aged(q), month' = month
    PROVE  /\ Asks(q)' /\ Fresh(q)'
           /\ \A l \in Levels : Announcing(q, l)' <=> Announcing(q, l)
           /\ settings'.budget = settings.budget => (Checking(q)' <=> Checking(q))
<1>1. Asks(q) /\ Fresh(q)
  BY DEF SpendInv
<1>2. Asks(q)'
  BY <1>1 DEF Asks, Aged, Saving
<1>3. Fresh(q)'
  BY <1>1 DEF Fresh, Aged, Saving
<1>4. \A l \in Levels : Announcing(q, l)' <=> Announcing(q, l)
  BY DEF Announcing, Aged, Saving
<1>5. settings'.budget = settings.budget => (Checking(q)' <=> Checking(q))
  BY DEF Checking, Aged, Saving
<1> QED
  BY <1>2, <1>3, <1>4, <1>5

\* updateAssignmentSettings writes one column, which no request of the others
\* is about, and makes the entities stale if the column changes.
LEMMA UpdateAssignmentSettingsInv ==
    ASSUME SpendInv, NEW auto \in BOOLEAN, UpdateAssignmentSettings(auto)
    PROVE  SpendInv'
<1>1. /\ settings' = [settings EXCEPT !.auto = auto] /\ asked' = [asked EXCEPT !.auto = auto]
      /\ changes < MaxSettingChanges /\ changes' = changes + 1
      /\ UNCHANGED <<rate, charge, month, raised, heard, stale, putBack, repriced, failures>>
  BY DEF UpdateAssignmentSettings, Change
<1>2. settings \in Settings /\ asked \in Settings
  BY DEF SpendInv, SpendTypeOK
<1>3. /\ settings' \in Settings /\ asked' \in Settings
      /\ settings'.auto = auto /\ asked'.auto = auto
      /\ settings'.alert = settings.alert /\ settings'.budget = settings.budget
      /\ settings'["auto"] = asked'["auto"]
      /\ \A c \in Columns \ {"auto"} : settings'[c] = settings[c] /\ asked'[c] = asked[c]
  BY <1>1, <1>2 DEF Settings, Columns
<1>4. auto # settings.auto <=> settings' # settings
  BY <1>1, <1>2, <1>3 DEF Settings
<1>5. request' = [r \in Requests |-> [request[r] EXCEPT !.old =
                    @ \/ (request[r].at # "idle" /\ auto # settings.auto)]]
  BY DEF UpdateAssignmentSettings
<1>6. ASSUME NEW q \in Requests PROVE Aged(q)
  <2>1. (auto # settings.auto) \in BOOLEAN
    OBVIOUS
  <2>2. request'[q] = [request[q] EXCEPT !.old =
                          @ \/ (request[q].at # "idle" /\ auto # settings.auto)]
    BY <1>5
  <2> QED
    BY <1>4, <2>1, <2>2, Ages
<1>7. \A q \in Requests :
         /\ Asks(q)' /\ Fresh(q)'
         /\ \A l \in Levels : Announcing(q, l)' <=> Announcing(q, l)
         /\ Checking(q)' <=> Checking(q)
  BY <1>1, <1>3, <1>6, AgedKeeps
<1>8. SpendTypeOK'
  <2>1. request' \in [Requests -> Request]
    BY <1>5, <1>6 DEF Aged
  <2> QED
    BY <1>1, <1>3, <2>1, SpendAssumption DEF SpendInv, SpendTypeOK
<1>9. AsAsked'
  BY <1>1, <1>3 DEF SpendInv, AsAsked
<1>10. Heeded'
  <2>1. ASSUME NEW a \in Alerts, Announced(a)
        PROVE  a.month = month' => \/ a.level \in heard'
                                   \/ \E q \in Requests : Announcing(q, a.level)'
    BY <1>1, <1>7, <2>1, EntityAlert, AlertLevels DEF Announced
  <2> SUFFICES ASSUME failures = 0
               PROVE  Heeded'
    BY <1>1 DEF Heeded
  <2>2. Announced(settings.alert)'
    <3>1. settings.alert \in Alerts /\ Announced(settings.alert)
      BY RowAlert DEF SpendInv, Heeded
    <3> QED
      BY <1>3, <2>1, <3>1 DEF Announced
  <2>3. ASSUME NEW q \in Requests PROVE Announced(request[q].entity.alert)'
    <3>1. request[q].entity.alert \in Alerts /\ Announced(request[q].entity.alert)
      BY EntityAlert DEF SpendInv, Heeded
    <3>2. request'[q].entity.alert = request[q].entity.alert
      BY <1>6 DEF Aged
    <3> QED
      BY <2>1, <3>1, <3>2 DEF Announced
  <2>4. ASSUME ~ repriced /\ "budget" \notin putBack, NEW l \in Levels, Due(l)'
        PROVE  Reached(l)'
    <3>1. Total' = Total
      BY <1>1 DEF Total
    <3>2. Due(l)
      BY <1>3, <2>4, <3>1 DEF Due
    <3>3. Reached(l)
      BY <2>4, <3>2 DEF SpendInv, Heeded
    <3> QED
      BY <1>1, <1>7, <3>3 DEF Reached, Levels
  <2> QED
    BY <1>1, <2>2, <2>3, <2>4 DEF Heeded
<1> QED
  BY <1>1, <1>3, <1>7, <1>8, <1>9, <1>10 DEF SpendInv

LEMMA Afterwards ==
    ASSUME NEW a \in Alerts
    PROVE  \E entity \in Settings :
              /\ entity = [Defaults EXCEPT !.alert = a]
              /\ entity.alert = a /\ (a = NoAlert => entity = Defaults)
<1>1. PICK e : e = [Defaults EXCEPT !.alert = a]
  OBVIOUS
<1>2. e = [budget |-> 0, paused |-> FALSE, alert |-> a, hours |-> FALSE, auto |-> TRUE]
  BY <1>1 DEF Defaults
<1>3. e \in Settings
  BY <1>2 DEF Settings
<1>4. e.alert = a /\ (a = NoAlert => e = Defaults)
  BY <1>2 DEF Defaults
<1> QED
  BY <1>1, <1>3, <1>4

\* save, its write: it puts the entity over the row, and is what was asked for
\* if nobody changed the row since.
LEMMA UpdateShape ==
    ASSUME SpendInv, NEW r \in Requests, Update(r)
    PROVE  /\ request[r] \in Request /\ request[r].at = "update" /\ Asks(r) /\ Fresh(r)
           /\ settings' \in Settings /\ asked' \in Settings
           /\ \A c \in Columns : settings'[c] = IF c \in request[r].diff
                                                THEN request[r].entity[c] ELSE settings[c]
           /\ \A c \in Columns : asked'[c] = IF c \in request[r].wants
                                             THEN request[r].entity[c] ELSE asked[c]
           /\ \A q \in Requests \ {r} : Aged(q)
           /\ request' \in [Requests -> Request]
           /\ request'[r].at = request[r].next
           /\ request'[r].entity.alert = IF request[r].next = "notify"
                                         THEN request[r].entity.alert ELSE NoAlert
           /\ request[r].next = "idle" => request'[r] = Waiting
           /\ UNCHANGED <<rate, charge, month, heard, repriced, changes, failures>>
<1>1. /\ request[r] \in Request /\ request[r].at = "update" /\ Asks(r) /\ Fresh(r)
      /\ request[r].entity \in Settings /\ settings \in Settings /\ asked \in Settings
      /\ request[r].diff \subseteq Columns /\ request[r].wants \subseteq Columns
      /\ UNCHANGED <<rate, charge, month, heard, repriced, changes, failures>>
  BY EntityAlert DEF Update, SpendInv, SpendTypeOK, Request
<1>2. /\ settings' = [c \in Columns |-> IF c \in request[r].diff
                                        THEN request[r].entity[c] ELSE settings[c]]
      /\ asked' = [c \in Columns |-> IF c \in request[r].wants
                                     THEN request[r].entity[c] ELSE asked[c]]
  BY DEF Update
<1>3. /\ settings' \in Settings /\ asked' \in Settings
      /\ \A c \in Columns : settings'[c] = IF c \in request[r].diff
                                           THEN request[r].entity[c] ELSE settings[c]
      /\ \A c \in Columns : asked'[c] = IF c \in request[r].wants
                                        THEN request[r].entity[c] ELSE asked[c]
  BY <1>1, <1>2 DEF Settings, Columns
<1> DEFINE changed == settings' # settings
           alert == IF request[r].next = "notify" THEN request[r].entity.alert ELSE NoAlert
           after == [Waiting EXCEPT !.at = request[r].next,
                                !.entity = [Defaults EXCEPT !.alert = alert]]
<1>4. request' = [q \in Requests |->
                    IF q = r THEN after
                    ELSE [request[q] EXCEPT !.old = @ \/ (request[q].at # "idle" /\ changed)]]
  BY Zenon DEF Update
<1>5. \A q \in Requests \ {r} : Aged(q)
  <2>1. changed \in BOOLEAN
    OBVIOUS
  <2>2. PICK b \in BOOLEAN : b <=> changed
    BY <2>1
  <2>3. ASSUME NEW q \in Requests \ {r}
        PROVE  request'[q] = [request[q] EXCEPT !.old = @ \/ (request[q].at # "idle" /\ b)]
    <3> HIDE DEF after
    <3> QED
      BY <1>4, <2>2, <2>3
  <2> QED
    BY <2>2, <2>3, Ages
<1>6. /\ after \in Request /\ after.at = request[r].next /\ after.entity.alert = alert
      /\ request[r].next = "idle" => after = Waiting
  <2>1. alert \in Alerts /\ (request[r].next = "idle" => alert = NoAlert)
    BY EntityAlert DEF Alerts
  <2>2. request[r].next \in {"idle", "check", "notify"}
    BY <1>1 DEF Request
  <2> HIDE DEF alert
  <2>3. PICK e \in Settings : /\ e = [Defaults EXCEPT !.alert = alert]
                             /\ e.alert = alert /\ (alert = NoAlert => e = Defaults)
    BY <2>1, Afterwards
  <2>4. after = [Waiting EXCEPT !.at = request[r].next, !.entity = e]
    BY <2>3, Zenon
  <2> HIDE DEF after
  <2> QED
    BY <2>1, <2>2, <2>3, <2>4, WaitingType DEF Waiting, Request, RequestStages
<1> HIDE DEF after
<1>7. request'[r] = after
  BY <1>4
<1>8. request' \in [Requests -> Request]
  <2>1. \A q \in Requests : request'[q] \in Request
    BY <1>5, <1>6, <1>7 DEF Aged
  <2> QED
    BY <1>4, <2>1
<1> QED
  BY <1>1, <1>3, <1>5, <1>6, <1>7, <1>8

\* The alerts that were stored this month, after the write of a request.
LEMMA RaisedBy ==
    ASSUME SpendInv, NEW r \in Requests, Update(r)
    PROVE  /\ request[r].next = "check" => raised' = [l \in Levels |-> 0]
           /\ request[r].next = "idle" => raised' = raised
           /\ request[r].next = "notify" =>
                 raised' = IF request[r].entity.alert.month = month
                           THEN [raised EXCEPT ![request[r].entity.alert.level] = @ + 1]
                           ELSE raised
<1> DEFINE budgets == "budget" \in request[r].wants
           now == request[r].next = "notify" /\ request[r].entity.alert.month = month
<1>1. raised' = CASE budgets -> [l \in Levels |-> 0]
                  [] now -> [raised EXCEPT ![request[r].entity.alert.level] = @ + 1]
                  [] OTHER -> raised
  BY Zenon DEF Update
<1>2. Asks(r) /\ Saving(r)
  BY DEF SpendInv, Update, Saving
<1>3. request[r].next = "check" => budgets /\ ~ now
  BY <1>2 DEF Asks
<1>4. request[r].next # "check" => ~ budgets
  BY <1>2 DEF Asks
<1>5. /\ request[r].next = "idle" => ~ now
      /\ request[r].next = "notify" => (now <=> request[r].entity.alert.month = month)
  OBVIOUS
<1> HIDE DEF budgets, now
<1>6. /\ budgets /\ ~ now => raised' = [l \in Levels |-> 0]
      /\ ~ budgets /\ now => raised' = [raised EXCEPT ![request[r].entity.alert.level] = @ + 1]
      /\ ~ budgets /\ ~ now => raised' = raised
  BY <1>1
<1> QED
  BY <1>3, <1>4, <1>5, <1>6

LEMMA UpdateAsAsked ==
    ASSUME SpendInv, NEW r \in Requests, Update(r)
    PROVE  AsAsked'
<1> DEFINE alert == request[r].entity.alert
<1>1. /\ request[r] \in Request /\ request[r].at = "update" /\ Asks(r) /\ Fresh(r)
      /\ \A c \in Columns : settings'[c] = IF c \in request[r].diff
                                           THEN request[r].entity[c] ELSE settings[c]
      /\ \A c \in Columns : asked'[c] = IF c \in request[r].wants
                                        THEN request[r].entity[c] ELSE asked[c]
      /\ month' = month
  BY UpdateShape DEF Update
<1>2. /\ putBack' = putBack \cup (request[r].diff \ request[r].wants)
      /\ stale' = (stale \/ request[r].old)
      /\ raised \in [Levels -> Nat]
  BY DEF Update, SpendInv, SpendTypeOK
<1>3. /\ request[r].next = "check" => raised' = [l \in Levels |-> 0]
      /\ request[r].next = "idle" => raised' = raised
      /\ request[r].next = "notify" =>
            raised' = IF alert.month = month
                      THEN [raised EXCEPT ![alert.level] = @ + 1] ELSE raised
  BY RaisedBy
<1> SUFFICES ASSUME ~ stale'
             PROVE  AsAsked'
  BY DEF AsAsked
<1>4. /\ ~ stale /\ ~ request[r].old
      /\ \A c \in Columns \ {"alert"} : settings[c] = asked[c]
      /\ putBack = {}
      /\ \A l \in Levels : raised[l] <= 1
      /\ \A l \in Levels : raised[l] # 0 =>
            settings.alert.month = month /\ settings.alert.level \in {l, "exceeded"}
  BY <1>2 DEF SpendInv, AsAsked
<1>5. /\ \A c \in Columns \ request[r].wants : request[r].entity[c] = settings[c]
      /\ request[r].diff = {c \in Columns : request[r].entity[c] # settings[c]}
  BY <1>1, <1>4 DEF Fresh, Saving
<1>6. \A c \in Columns : settings'[c] = request[r].entity[c]
  BY <1>1, <1>5
<1>7. \A c \in Columns \ {"alert"} : settings'[c] = asked'[c]
  BY <1>1, <1>4, <1>5, <1>6
<1>8. putBack' = {}
  BY <1>2, <1>4, <1>5
<1>9. settings'.alert = alert /\ alert \in Alerts /\ settings.alert \in Alerts
  BY <1>6, EntityAlert DEF Columns
<1>10. \A l \in Levels : /\ raised'[l] <= 1
                         /\ raised'[l] # 0 => /\ settings'.alert.month = month
                                              /\ settings'.alert.level \in {l, "exceeded"}
  <2> HIDE DEF alert
  <2>1. CASE request[r].next = "check"
    BY <1>3, <2>1
  <2>2. CASE request[r].next = "idle"
    <3>1. "alert" \notin request[r].wants /\ "budget" \notin request[r].wants
      BY <1>1, <2>2 DEF Asks, Saving
    <3>2. settings'.alert = settings.alert
      BY <1>5, <1>6, <3>1 DEF Columns
    <3>3. raised' = raised
      BY <1>3, <2>2
    <3> QED
      BY <1>4, <3>2, <3>3
  <2>3. CASE request[r].next = "notify"
    <3>1. /\ "budget" \notin request[r].wants /\ alert # NoAlert /\ alert.month <= month
          /\ settings.alert.month <= alert.month /\ settings.alert # alert
          /\ settings.alert.month = alert.month => settings.alert.level = "warning"
      BY <1>1, <1>4, <2>3 DEF Asks, Fresh, Saving, alert
    <3>2. /\ alert.month \in Nat /\ settings.alert.month \in Nat /\ month \in Nat
          /\ alert.level \in Levels
      BY <1>9, <3>1, EntityAlert, SpendAssumption DEF Alerts, NoAlert
    <3>3. CASE alert.month = month
      <4>1. raised["exceeded"] = 0
        BY <1>4, <3>1, <3>3 DEF Levels
      <4>2. raised[alert.level] = 0
        <5>1. CASE alert.level = "warning"
          <6>1. settings.alert.month = month
                   => settings.alert # [month |-> month, level |-> "warning"]
            BY <1>9, <3>1, <3>3, <5>1 DEF Alerts, NoAlert
          <6>2. settings.alert.month = month => settings.alert.level # "warning"
            BY <1>9, <3>2, <6>1 DEF Alerts, NoAlert
          <6> QED
            BY <1>4, <3>1, <3>3, <5>1, <6>2 DEF Levels
        <5>2. CASE alert.level = "exceeded"
          BY <4>1, <5>2
        <5> QED
          BY <3>2, <5>1, <5>2 DEF Levels
      <4>3. raised' = [raised EXCEPT ![alert.level] = @ + 1]
        BY <1>3, <2>3, <3>3
      <4>4. /\ raised'[alert.level] = 1
            /\ \A l \in Levels \ {alert.level} : raised'[l] = raised[l]
        BY <1>2, <3>2, <4>2, <4>3
      <4> QED
        BY <1>4, <1>9, <3>2, <3>3, <4>1, <4>4 DEF Levels
    <3>4. CASE alert.month # month
      <4>1. settings.alert.month # month
        BY <3>1, <3>2, <3>4
      <4>2. raised' = raised
        BY <1>3, <2>3, <3>4
      <4> QED
        BY <1>4, <4>1, <4>2
    <3> QED
      BY <3>3, <3>4
  <2> QED
    BY <1>1, <2>1, <2>2, <2>3 DEF Asks, Saving
<1> QED
  BY <1>1, <1>7, <1>8, <1>10 DEF AsAsked

LEMMA UpdateHeeded ==
    ASSUME SpendInv, NEW r \in Requests, Update(r)
    PROVE  Heeded'
<1>1. /\ request[r].at = "update" /\ Asks(r)
      /\ \A c \in Columns : settings'[c] = IF c \in request[r].diff
                                           THEN request[r].entity[c] ELSE settings[c]
      /\ \A q \in Requests \ {r} : Aged(q)
      /\ request'[r].at = request[r].next
      /\ request'[r].entity.alert = IF request[r].next = "notify"
                                    THEN request[r].entity.alert ELSE NoAlert
      /\ UNCHANGED <<rate, charge, month, heard, repriced, changes, failures>>
  BY UpdateShape DEF Update
<1> SUFFICES ASSUME failures = 0
             PROVE  Heeded'
  BY <1>1 DEF Heeded
<1>2. /\ Announced(settings.alert) /\ Announced(request[r].entity.alert)
      /\ settings.alert \in Alerts /\ request[r].entity.alert \in Alerts
      /\ month \in 1..LastMonth /\ month # NoAlert.month
  BY EntityAlert DEF SpendInv, Heeded, NoAlert
<1>3. \A q \in Requests \ {r}, l \in Levels : Announcing(q, l)' <=> Announcing(q, l)
  BY <1>1, AgedKeeps
<1>4. ASSUME NEW l \in Levels, Announcing(r, l) PROVE Announcing(r, l)'
  BY <1>1, <1>4 DEF Announcing, Saving
<1>5. ASSUME NEW a \in Alerts, Announced(a), a.month = month'
      PROVE  a.level \in heard' \/ \E q \in Requests : Announcing(q, a.level)'
  BY <1>1, <1>2, <1>3, <1>4, <1>5, AlertLevels DEF Announced
<1>6. Announced(settings.alert)'
  <2>1. settings'.alert \in {settings.alert, request[r].entity.alert}
    BY <1>1 DEF Columns
  <2> QED
    BY <1>2, <1>5, <2>1 DEF Announced
<1>7. ASSUME NEW q \in Requests PROVE Announced(request[q].entity.alert)'
  <2>1. CASE q = r
    <3>1. request'[q].entity.alert \in {NoAlert, request[r].entity.alert}
      BY <1>1, <2>1
    <3> QED
      BY <1>1, <1>2, <1>5, <3>1 DEF Announced
  <2>2. CASE q # r
    <3>1. request[q].entity.alert \in Alerts /\ Announced(request[q].entity.alert)
      BY EntityAlert DEF SpendInv, Heeded
    <3>2. request'[q].entity.alert = request[q].entity.alert
      BY <1>1, <2>2 DEF Aged
    <3> QED
      BY <1>5, <3>1, <3>2 DEF Announced
  <2> QED
    BY <2>1, <2>2
<1>8. ASSUME (~ repriced /\ "budget" \notin putBack)', NEW l \in Levels, Due(l)'
      PROVE  Reached(l)'
  <2>1. CASE request[r].next = "check"
    BY <1>1, <2>1 DEF Reached, Checking
  <2>2. CASE request[r].next # "check"
    <3>1. "budget" \notin request[r].wants
      BY <1>1, <2>2 DEF Asks, Saving
    <3>2. putBack' = putBack \cup (request[r].diff \ request[r].wants)
      BY DEF Update
    <3>3. settings'.budget = settings.budget
      BY <1>1, <1>8, <3>1, <3>2 DEF Columns
    <3>4. Total' = Total
      BY <1>1 DEF Total
    <3>5. Due(l) /\ ~ repriced /\ "budget" \notin putBack
      BY <1>1, <1>8, <3>2, <3>3, <3>4 DEF Due
    <3>6. Reached(l)
      BY <3>5 DEF SpendInv, Heeded
    <3>7. ~ Checking(r)
      BY <1>1, <2>2 DEF Checking, Saving
    <3>8. \A q \in Requests \ {r} : Checking(q)' <=> Checking(q)
      BY <1>1, <3>3, AgedKeeps
    <3> QED
      BY <1>1, <1>3, <1>4, <3>6, <3>7, <3>8 DEF Reached, Levels
  <2> QED
    BY <2>1, <2>2
<1> QED
  BY <1>6, <1>7, <1>8 DEF Heeded

LEMMA UpdateInv ==
    ASSUME SpendInv, NEW r \in Requests, Update(r)
    PROVE  SpendInv'
<1>1. /\ request[r] \in Request /\ request[r].at = "update" /\ Asks(r)
      /\ settings' \in Settings /\ asked' \in Settings
      /\ \A c \in Columns : settings'[c] = IF c \in request[r].diff
                                           THEN request[r].entity[c] ELSE settings[c]
      /\ \A q \in Requests \ {r} : Aged(q)
      /\ request' \in [Requests -> Request]
      /\ request'[r].at = request[r].next
      /\ request'[r].entity.alert = IF request[r].next = "notify"
                                    THEN request[r].entity.alert ELSE NoAlert
      /\ request[r].next = "idle" => request'[r] = Waiting
      /\ UNCHANGED <<rate, charge, month, heard, repriced, changes, failures>>
  BY UpdateShape DEF Update
<1>2. SpendTypeOK'
  <2>1. putBack' \subseteq Columns /\ stale' \in BOOLEAN
    BY <1>1 DEF Update, SpendInv, SpendTypeOK, Request
  <2>2. raised' \in [Levels -> Nat]
    <3>1. \/ raised' = [l \in Levels |-> 0] \/ raised' = raised
          \/ \E l : raised' = [raised EXCEPT ![l] = @ + 1]
      BY <1>1, RaisedBy DEF Request
    <3>2. raised \in [Levels -> Nat]
      BY DEF SpendInv, SpendTypeOK
    <3> QED
      BY <3>1, <3>2
  <2> QED
    BY <1>1, <2>1, <2>2 DEF SpendInv, SpendTypeOK
<1>3. settings'.alert.month <= month'
  <2>1. settings'.alert \in {settings.alert, request[r].entity.alert}
    BY <1>1 DEF Columns
  <2> QED
    BY <1>1, <2>1 DEF SpendInv, Asks
<1>4. Asks(r)' /\ Fresh(r)'
  <2>1. request[r].next \in {"idle", "check", "notify"}
    BY <1>1 DEF Request
  <2>2. request'[r].entity.alert.month <= month
    <3>1. request[r].entity.alert.month <= month /\ NoAlert.month <= month
      BY <1>1, EntityAlert DEF Asks, NoAlert
    <3> QED
      BY <1>1, <3>1
  <2> QED
    BY <1>1, <2>1, <2>2 DEF Asks, Fresh, Saving
<1>5. \A q \in Requests \ {r} : Asks(q)' /\ Fresh(q)'
  BY <1>1, AgedKeeps
<1> QED
  BY <1>1, <1>2, <1>3, <1>4, <1>5, UpdateAsAsked, UpdateHeeded DEF SpendInv
-----------------------------------------------------------------------------
LEMMA SpendStart ==
    ASSUME SpendInit
    PROVE  SpendInv
<1>1. SpendTypeOK
  <2>1. Defaults \in Settings /\ Waiting \in Request
    BY WaitingType DEF Waiting, Request
  <2>2. 0 \in 0..MaxSettingChanges /\ 0 \in 0..MaxFailures /\ 1 \in 1..LastMonth
    BY SpendAssumption
  <2>3. raised \in [Levels -> Nat] /\ request \in [Requests -> Request]
    BY <2>1 DEF SpendInit
  <2> QED
    BY <2>1, <2>2, <2>3, SpendAssumption DEF SpendInit, SpendTypeOK
<1>2. settings.alert = NoAlert /\ NoAlert.month = 0 /\ month = 1
  BY DEF SpendInit, Defaults, NoAlert
<1>3. \A r \in Requests : /\ request[r] = Waiting /\ Waiting.at = "idle"
                          /\ Waiting.entity.alert = NoAlert
  BY DEF SpendInit, Waiting, Defaults
<1>4. \A r \in Requests : Asks(r) /\ Fresh(r)
  BY <1>2, <1>3 DEF Asks, Fresh, Saving
<1>5. AsAsked
  BY DEF SpendInit, AsAsked
<1>6. \A m \in Deliveries : charge[m] = Uncharged /\ Uncharged.month = 0
  BY DEF SpendInit, Uncharged
<1>7. Heeded
  <2>1. Announced(settings.alert) /\ \A r \in Requests : Announced(request[r].entity.alert)
    BY <1>2, <1>3 DEF Announced
  <2>2. settings.budget = 0
    BY DEF SpendInit, Defaults
  <2> QED
    BY <2>1, <2>2 DEF Heeded, Due
<1> QED
  BY <1>1, <1>2, <1>4, <1>5, <1>6, <1>7 DEF SpendInv

LEMMA SpendStep ==
    ASSUME SpendInv, [SpendNext]_spendVars
    PROVE  SpendInv'
<1>1. CASE NewMonth
  BY <1>1, NewMonthInv
<1>2. ASSUME NEW auto \in BOOLEAN, UpdateAssignmentSettings(auto) PROVE SpendInv'
  BY <1>2, UpdateAssignmentSettingsInv
<1>3. ASSUME NEW usd \in Rates, UpdateRates(usd) PROVE SpendInv'
  BY <1>3, UpdateRatesInv
<1>4. ASSUME NEW r \in Requests, NEW m \in Deliveries, NEW billable \in BOOLEAN,
             NEW at \in 1..LastMonth, RecordReport(r, m, billable, at)
      PROVE  SpendInv'
  BY <1>4, RecordReportInv
<1>5. ASSUME NEW r \in Requests,
             \/ \E budget \in Budgets \cup {0} : UpdateBudget(r, budget)
             \/ \E paused \in BOOLEAN : SetPaused(r, paused)
             \/ \E hours \in BOOLEAN : UpdateServiceSettings(r, hours)
      PROVE  SpendInv'
  BY <1>5, SettingsInv
<1>6. ASSUME NEW r \in Requests,
             Compare(r) \/ Update(r) \/ ReadSettings(r) \/ Sum(r) \/ NotifyAdmins(r)
                \/ FailRequest(r)
      PROVE  SpendInv'
  BY <1>6, CompareInv, UpdateInv, ReadSettingsInv, SumInv, NotifyAdminsInv, FailRequestInv
<1>7. CASE UNCHANGED spendVars
  <2>1. UNCHANGED <<settings, rate, charge, month, request, raised, heard, asked, stale,
                    putBack, repriced, changes, failures>>
    BY <1>7 DEF spendVars
  <2>2. SpendTypeOK' /\ AsAsked' /\ (settings.alert.month <= month)'
    BY <2>1 DEF SpendInv, SpendTypeOK, AsAsked
  <2>3. \A r \in Requests : Asks(r)' /\ Fresh(r)'
    BY <2>1 DEF SpendInv, Asks, Fresh, Saving
  <2>4. Heeded'
    <3>1. Total' = Total
      BY <2>1 DEF Total
    <3> QED
      BY <2>1, <3>1
         DEF SpendInv, Heeded, Announced, Announcing, Saving, Reached, Checking, Due
  <2> QED
    BY <2>1, <2>2, <2>3, <2>4 DEF SpendInv
<1> QED
  BY <1>1, <1>2, <1>3, <1>4, <1>5, <1>6, <1>7 DEF SpendNext

LEMMA SpendInvHolds == SpendSpec => []SpendInv
BY SpendStart, SpendStep, PTL DEF SpendSpec

\* The settings, the charges and the requests keep their types
\* (company-settings.entity.ts, channel-charge.entity.ts).
THEOREM SpendTypes == SpendSpec => []SpendTypeOK
BY SpendInvHolds, PTL DEF SpendInv

\* For any requests, columns and prices, a setting is lost, or an alert
\* repeated, only by an entity that was saved over a row that had changed
\* (SpendService.updateBudget, setPaused, checkBudget).
THEOREM StaleSavesAlone == SpendSpec => []OnlyStaleSavesLose
<1>1. SpendInv => OnlyStaleSavesLose
  BY DEF SpendInv, AsAsked, OnlyStaleSavesLose
<1> QED
  BY <1>1, SpendInvHolds, PTL

\* However reports, budgets and saves cross, the level that the spend of the
\* month has reached was alerted, when nothing failed, no price changed and no
\* stale save put a budget back (SpendService.checkBudget).
THEOREM AlertsReachTheAdmins == SpendSpec => []AlertNotLost
<1>1. SpendInv => AlertNotLost
  <2> SUFFICES ASSUME SpendInv, NothingUnderWay, failures = 0, ~ repriced,
                      "budget" \notin putBack, NEW l \in Levels, Due(l)
               PROVE  l \in heard \/ (l = "warning" /\ heard # {})
    BY DEF AlertNotLost, Levels
  <2>1. Reached(l)
    BY DEF SpendInv, Heeded
  <2>2. \A r \in Requests : ~ Checking(r) /\ \A k \in Levels : ~ Announcing(r, k)
    BY DEF NothingUnderWay, Checking, Announcing, Saving
  <2> QED
    BY <2>1, <2>2 DEF Reached, Levels
<1> QED
  BY <1>1, SpendInvHolds, PTL
=============================================================================
