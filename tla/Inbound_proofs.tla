---------------------------- MODULE Inbound_proofs ----------------------------
(***************************************************************************)
(* Proofs about what becomes of an inbound message, for any number of      *)
(* messages, attachments, posts, jobs, passes and faults.                  *)
(*                                                                         *)
(* MediaEnrichment: the types, that an attachment is patched once and with *)
(* the status it keeps, and that nothing is given up before its last       *)
(* attempt.  InboundIntake: the types, that a stored message is kept while *)
(* the faults are mild, and that it has one row and one MessageSavedEvent. *)
(***************************************************************************)
EXTENDS MediaEnrichment, InboundIntake, FiniteSetTheorems, WellFoundedInduction, TLAPS
-----------------------------------------------------------------------------
(* The media of a message *)

Back == {"readyBack", "failBack"}
Between == {"idle", "read", "lookup", "next"}
Trouble == errors + outages

\* The second time a job is handed out is the last of it.
StallsEnd == stalls = 2 => job = "failed"

\* A pass that has just settled an attachment is the only one that has, and
\* nobody has patched it yet.
SettledByOne ==
    /\ \A w \in Workers : \A a, b \in pass[w].now : a = b
    /\ \A w \in Workers : pass[w].at \in Back =>
            \A a \in pass[w].now : status[a] # "pending" /\ patches[a] = {}
    /\ \A v, w \in Workers : \A a \in pass[v].now \cap pass[w].now :
            pass[v].at \in Back /\ pass[w].at \in Back => v = w

PatchesMap == patches = [a \in Attachments |-> patches[a]]

\* What is pending lies ahead of every pass that has read what is pending.
AheadOfPasses ==
    /\ \A w \in Workers :
            pass[w].at \notin {"idle", "read"} => Pending \subseteq pass[w].todo \cup pass[w].now
    /\ \A w \in Workers : pass[w].at \in Between => pass[w].now = {}
    /\ job = "done" => Pending = {}

\* Every attempt was used up by some trouble; a dead worker uses up none.
AttemptsHaveCauses ==
    /\ attempts <= Trouble
    /\ \A w \in Workers : pass[w].last => Trouble + 1 >= MaxAttempts
    /\ spent # {} \/ (job = "failed" /\ stalls < 2) => Trouble >= MaxAttempts

IInv == /\ MediaTypeOK /\ StallsEnd
        /\ SettledByOne /\ OnePatchEach /\ PatchesMap
        /\ AheadOfPasses
        /\ AttemptsHaveCauses
-----------------------------------------------------------------------------
LEMMA Bounds ==
    /\ MaxAttempts \in Nat \ {0}
    /\ MaxErrors \in Nat /\ MaxOutages \in Nat
BY MediaAssumption

LEMMA NoPassType == NoPass \in Pass /\ ~NoPass.owner /\ ~NoPass.last
                    /\ NoPass.at = "idle" /\ NoPass.now = {} /\ NoPass.todo = {}
BY DEF NoPass, Pass

LEMMA InitIInv == MediaInit => IInv
<1> SUFFICES ASSUME MediaInit PROVE IInv
  OBVIOUS
<1>1. \A w \in Workers : pass[w] = NoPass
  BY DEF MediaInit
<1>2. MediaTypeOK
  BY <1>1, NoPassType, Bounds DEF MediaInit, MediaTypeOK
<1>3. SettledByOne /\ OnePatchEach /\ PatchesMap /\ AheadOfPasses /\ StallsEnd
  BY <1>1, NoPassType DEF MediaInit, SettledByOne, OnePatchEach, PatchesMap, AheadOfPasses,
                          StallsEnd, Back, Between
<1>4. AttemptsHaveCauses
  BY <1>1, NoPassType DEF MediaInit, AttemptsHaveCauses, Trouble
<1> QED
  BY <1>2, <1>3, <1>4 DEF IInv

\* How a pass comes to its end.
LEMMA PassEnds ==
    ASSUME NEW w \in Workers, Return(w) \/ Throw(w)
    PROVE  pass' = [pass EXCEPT ![w] = NoPass]
BY DEF Return, Throw
-----------------------------------------------------------------------------
\* Types.
LEMMA StepTypes ==
    ASSUME IInv, [MediaNext]_mediaVars
    PROVE  MediaTypeOK' /\ StallsEnd'
<1> USE Bounds DEF IInv, MediaTypeOK, StallsEnd
<1>0. \A w \in Workers : pass[w] \in Pass
  OBVIOUS
<1>1. CASE Enqueue
  BY <1>1 DEF Enqueue
<1>2. CASE HandOut
  <2>1. \A w \in Workers : [pass[w] EXCEPT !.owner = FALSE] \in Pass
    BY <1>0 DEF Pass
  <2>2. pass' \in [Workers -> Pass] /\ \A w \in Workers : ~pass'[w].owner
    BY <1>0, <1>2, <2>1 DEF HandOut, Pass
  <2> QED
    BY <1>2, <2>2 DEF HandOut
<1>3. ASSUME NEW w \in Workers, PickUp(w) PROVE MediaTypeOK' /\ StallsEnd'
  <2> DEFINE r == [NoPass EXCEPT !.at = "read", !.last = IsLastAttempt(attempts), !.owner = TRUE]
  <2>1. IsLastAttempt(attempts) \in BOOLEAN
    BY DEF IsLastAttempt
  <2>2. r \in Pass
    BY <2>1 DEF NoPass, Pass
  <2>3. pass' = [pass EXCEPT ![w] = r]
    BY <1>3 DEF PickUp
  <2> HIDE DEF r
  <2> QED
    BY <1>3, <2>2, <2>3 DEF PickUp
<1>4. ASSUME NEW w \in Workers, Return(w), UNCHANGED <<stalls, spent, errors, outages>>,
             status' \in [Attachments -> {"pending", "ready", "failed"}]
      PROVE  MediaTypeOK' /\ StallsEnd'
  BY <1>4, NoPassType DEF Return
<1>5. ASSUME NEW w \in Workers, Throw(w), UNCHANGED <<stalls, status, spent>>,
             errors' \in 0..MaxErrors, outages' \in 0..MaxOutages
      PROVE  MediaTypeOK' /\ StallsEnd'
  <2>1. pass' \in [Workers -> Pass] /\ ~pass'[w].owner
    BY <1>5, NoPassType DEF Throw
  <2>2. attempts' \in 0..MaxAttempts
    BY <1>5 DEF Throw
  <2> QED
    BY <1>5, <2>1, <2>2 DEF Throw
\* A pass that moves on and stays what it is to the queue.
<1>6. ASSUME NEW w \in Workers, NEW r \in Pass, r.owner = pass[w].owner,
             pass' = [pass EXCEPT ![w] = r],
             UNCHANGED <<job, attempts, stalls, outages>>,
             status' \in [Attachments -> {"pending", "ready", "failed"}],
             spent' \subseteq Attachments, errors' \in 0..MaxErrors
      PROVE  MediaTypeOK' /\ StallsEnd'
  BY <1>6
<1>7. ASSUME NEW w \in Workers, FindPending(w) PROVE MediaTypeOK' /\ StallsEnd'
  <2>1. CASE Pending = {}
    BY <1>4, <1>7, <2>1 DEF FindPending
  <2>2. CASE Pending # {}
    <3> DEFINE r == [pass[w] EXCEPT !.at = "lookup", !.todo = Pending]
    <3>1. r \in Pass /\ r.owner = pass[w].owner
      BY <1>0 DEF Pass, Pending
    <3>2. pass' = [pass EXCEPT ![w] = r]
      BY <1>7, <2>2 DEF FindPending
    <3> HIDE DEF r
    <3> QED
      BY <1>6, <1>7, <2>2, <3>1, <3>2 DEF FindPending
  <2> QED
    BY <2>1, <2>2
<1>8. ASSUME NEW w \in Workers, ResolveTransmission(w) PROVE MediaTypeOK' /\ StallsEnd'
  <2> PICK found \in {"found", "none"} :
            pass' = [pass EXCEPT ![w].at = "next", ![w].channel = found]
    BY <1>8 DEF ResolveTransmission
  <2> DEFINE r == [pass[w] EXCEPT !.at = "next", !.channel = found]
  <2>1. r \in Pass /\ r.owner = pass[w].owner
    BY <1>0 DEF Pass
  <2>2. pass' = [pass EXCEPT ![w] = r]
    OBVIOUS
  <2> HIDE DEF r
  <2> QED
    BY <1>6, <1>8, <2>1, <2>2 DEF ResolveTransmission
<1>9. ASSUME NEW w \in Workers, NextAttachment(w) PROVE MediaTypeOK' /\ StallsEnd'
  <2> PICK a \in pass[w].todo :
        pass' = [pass EXCEPT ![w].todo = @ \ {a}, ![w].now = {a},
                    ![w].at = IF pass[w].channel = "found" THEN "download" ELSE "fail"]
    BY <1>9 DEF NextAttachment
  <2> DEFINE r == [pass[w] EXCEPT !.todo = pass[w].todo \ {a}, !.now = {a},
                      !.at = IF pass[w].channel = "found" THEN "download" ELSE "fail"]
  <2>1. r \in Pass /\ r.owner = pass[w].owner
    BY <1>0 DEF Pass
  <2>2. pass' = [pass EXCEPT ![w] = r]
    OBVIOUS
  <2> HIDE DEF r
  <2> QED
    BY <1>6, <1>9, <2>1, <2>2 DEF NextAttachment
<1>10. ASSUME NEW w \in Workers, Download(w) PROVE MediaTypeOK' /\ StallsEnd'
  <2> PICK outcome \in {"ready", "fail"} : pass' = [pass EXCEPT ![w].at = outcome]
    BY <1>10 DEF Download
  <2> DEFINE r == [pass[w] EXCEPT !.at = outcome]
  <2>1. r \in Pass /\ r.owner = pass[w].owner
    BY <1>0 DEF Pass
  <2>2. pass' = [pass EXCEPT ![w] = r]
    OBVIOUS
  <2> HIDE DEF r
  <2> QED
    BY <1>6, <1>10, <2>1, <2>2 DEF Download
<1>11. ASSUME NEW w \in Workers, Proceed(w), UNCHANGED <<stalls, spent, errors, outages>>,
              status' \in [Attachments -> {"pending", "ready", "failed"}]
       PROVE  MediaTypeOK' /\ StallsEnd'
  <2>1. CASE pass[w].todo = {}
    BY <1>4, <1>11, <2>1 DEF Proceed
  <2>2. CASE pass[w].todo # {}
    <3> DEFINE r == [pass[w] EXCEPT !.at = "next", !.now = {}]
    <3>1. r \in Pass /\ r.owner = pass[w].owner
      BY <1>0 DEF Pass
    <3>2. pass' = [pass EXCEPT ![w] = r]
      BY <1>11, <2>2 DEF Proceed
    <3> HIDE DEF r
    <3> QED
      BY <1>6, <1>11, <2>2, <3>1, <3>2 DEF Proceed
  <2> QED
    BY <2>1, <2>2
<1>12. ASSUME NEW w \in Workers, Settle(w) PROVE MediaTypeOK' /\ StallsEnd'
  <2> PICK a \in pass[w].now :
        IF status[a] = "pending"
        THEN /\ status' = [status EXCEPT ![a] =
                    IF pass[w].at = "ready" THEN "ready" ELSE "failed"]
             /\ pass' = [pass EXCEPT ![w].at =
                    IF pass[w].at = "ready" THEN "readyBack" ELSE "failBack"]
             /\ UNCHANGED <<job, attempts>>
        ELSE Proceed(w) /\ UNCHANGED status
    BY <1>12 DEF Settle
  <2>1. CASE status[a] = "pending"
    <3> DEFINE r == [pass[w] EXCEPT !.at =
                        IF pass[w].at = "ready" THEN "readyBack" ELSE "failBack"]
    <3>1. r \in Pass /\ r.owner = pass[w].owner
      BY <1>0 DEF Pass
    <3>2. pass' = [pass EXCEPT ![w] = r]
      BY <2>1
    <3>3. status' \in [Attachments -> {"pending", "ready", "failed"}]
      BY <2>1
    <3> HIDE DEF r
    <3> QED
      BY <1>6, <1>12, <2>1, <3>1, <3>2, <3>3 DEF Settle
  <2>2. CASE status[a] # "pending"
    BY <1>11, <1>12, <2>2 DEF Settle
  <2> QED
    BY <2>1, <2>2
<1>13. ASSUME NEW w \in Workers, EmitPatch(w) PROVE MediaTypeOK' /\ StallsEnd'
  BY <1>11, <1>13 DEF EmitPatch
<1>14. ASSUME NEW w \in Workers, Falter(w) PROVE MediaTypeOK' /\ StallsEnd'
  <2>1. errors' \in 0..MaxErrors
    BY <1>14 DEF Falter
  <2>2. CASE ~pass[w].last
    BY <1>5, <1>14, <2>1, <2>2 DEF Falter
  <2>3. CASE pass[w].last
    <3> DEFINE r == IF pass[w].at = "lookup"
                    THEN [pass[w] EXCEPT !.at = "next", !.channel = "unreadable"]
                    ELSE [pass[w] EXCEPT !.at = "fail"]
    <3>1. r \in Pass /\ r.owner = pass[w].owner
      BY <1>0 DEF Pass
    <3>2. pass' = [pass EXCEPT ![w] = r]
      BY <1>14, <2>3 DEF Falter
    <3>3. spent' \subseteq Attachments
      BY <1>0, <1>14, <2>3 DEF Falter, Pass
    <3> HIDE DEF r
    <3> QED
      BY <1>6, <1>14, <2>1, <2>3, <3>1, <3>2, <3>3 DEF Falter
  <2> QED
    BY <2>2, <2>3
<1>15. ASSUME NEW w \in Workers, Outage(w) PROVE MediaTypeOK' /\ StallsEnd'
  <2>1. outages' \in 0..MaxOutages
    BY <1>15 DEF Outage
  <2> QED
    BY <1>5, <1>15, <2>1 DEF Outage
<1>16. ASSUME NEW w \in Workers, Crash(w) PROVE MediaTypeOK' /\ StallsEnd'
  BY <1>16, NoPassType DEF Crash
<1>17. CASE UNCHANGED mediaVars
  BY <1>17 DEF mediaVars
<1> QED
  BY <1>1, <1>2, <1>3, <1>7, <1>8, <1>9, <1>10, <1>12, <1>13, <1>14, <1>15, <1>16, <1>17
     DEF MediaNext, Work
-----------------------------------------------------------------------------
\* One settling each, one patch each.
LEMMA SettledMoves ==
    ASSUME IInv, NEW w \in Workers, NEW r \in Pass,
           r.at \notin Back, \A a, b \in r.now : a = b,
           pass' = [pass EXCEPT ![w] = r],
           status' = status,
           \A v \in Workers \ {w} : pass[v].at \in Back =>
                \A a \in pass[v].now : patches'[a] = patches[a]
    PROVE  SettledByOne'
<1>1. \A v \in Workers : pass'[v] = IF v = w THEN r ELSE pass[v]
  BY DEF IInv, MediaTypeOK
<1> QED
  BY <1>1 DEF IInv, SettledByOne

\* A pass that returns, throws or goes on to its next attachment.
LEMMA ProceedMoves ==
    ASSUME IInv, NEW w \in Workers, Proceed(w) \/ Return(w) \/ Throw(w)
    PROVE  \E r \in Pass : /\ r.at \notin Back /\ r.now = {}
                           /\ pass' = [pass EXCEPT ![w] = r]
<1>1. CASE Return(w) \/ Throw(w)
  BY <1>1, NoPassType DEF Return, Throw, Back
<1>2. CASE Proceed(w) /\ pass[w].todo = {}
  BY <1>2, NoPassType DEF Proceed, Return, Back
<1>3. CASE Proceed(w) /\ pass[w].todo # {}
  <2> DEFINE r == [pass[w] EXCEPT !.at = "next", !.now = {}]
  <2>1. r \in Pass /\ r.at = "next" /\ r.now = {}
    BY DEF IInv, MediaTypeOK, Pass
  <2>2. pass' = [pass EXCEPT ![w] = r]
    BY <1>3 DEF Proceed
  <2> HIDE DEF r
  <2> QED
    BY <2>1, <2>2 DEF Back
<1> QED
  BY <1>1, <1>2, <1>3

Settled == SettledByOne /\ OnePatchEach /\ PatchesMap

LEMMA StepSettled ==
    ASSUME IInv, [MediaNext]_mediaVars
    PROVE  Settled'
<1>0. /\ pass \in [Workers -> Pass] /\ \A w \in Workers : pass[w] \in Pass
      /\ SettledByOne /\ OnePatchEach /\ PatchesMap
      /\ \A w \in Workers : \A a, b \in pass[w].now : a = b
  BY DEF IInv, MediaTypeOK, SettledByOne
\* A pass that moves on leaves the attachments alone.
<1>1. ASSUME NEW w \in Workers, NEW r \in Pass, r.at \notin Back, \A a, b \in r.now : a = b,
             pass' = [pass EXCEPT ![w] = r], UNCHANGED <<status, patches>>
      PROVE  Settled'
  BY <1>0, <1>1, SettledMoves DEF Settled, OnePatchEach, PatchesMap
<1>2. ASSUME NEW w \in Workers, Proceed(w) \/ Return(w) \/ Throw(w),
             UNCHANGED <<status, patches>>
      PROVE  Settled'
  <2> PICK r \in Pass : /\ r.at \notin Back /\ r.now = {}
                        /\ pass' = [pass EXCEPT ![w] = r]
    BY <1>2, ProceedMoves
  <2> QED
    BY <1>1, <1>2
<1>3. CASE Enqueue
  BY <1>0, <1>3 DEF Enqueue, Settled, SettledByOne, OnePatchEach, PatchesMap
<1>4. CASE HandOut
  <2>1. \A w \in Workers : pass'[w].at = pass[w].at /\ pass'[w].now = pass[w].now
    BY <1>0, <1>4 DEF HandOut, Pass
  <2>2. UNCHANGED <<status, patches>>
    BY <1>4 DEF HandOut
  <2> QED
    BY <1>0, <2>1, <2>2 DEF Settled, SettledByOne, OnePatchEach, PatchesMap
<1>5. ASSUME NEW w \in Workers, PickUp(w) PROVE Settled'
  <2> DEFINE r == [NoPass EXCEPT !.at = "read", !.last = IsLastAttempt(attempts), !.owner = TRUE]
  <2>1. IsLastAttempt(attempts) \in BOOLEAN
    BY DEF IsLastAttempt
  <2>2. r \in Pass /\ r.at = "read" /\ r.now = {}
    BY <2>1 DEF NoPass, Pass
  <2>3. pass' = [pass EXCEPT ![w] = r]
    BY <1>5 DEF PickUp
  <2> HIDE DEF r
  <2> QED
    BY <1>1, <1>5, <2>2, <2>3 DEF PickUp, Back
<1>6. ASSUME NEW w \in Workers, FindPending(w) PROVE Settled'
  <2>1. CASE Pending = {}
    BY <1>2, <1>6, <2>1 DEF FindPending
  <2>2. CASE Pending # {}
    <3> DEFINE r == [pass[w] EXCEPT !.at = "lookup", !.todo = Pending]
    <3>1. r \in Pass /\ r.at = "lookup" /\ r.now = pass[w].now
      BY <1>0 DEF Pass, Pending
    <3>2. pass' = [pass EXCEPT ![w] = r]
      BY <1>6, <2>2 DEF FindPending
    <3> HIDE DEF r
    <3>3. \A a, b \in r.now : a = b
      BY <1>0, <3>1
    <3> QED
      BY <1>1, <1>6, <3>1, <3>2, <3>3 DEF FindPending, Back
  <2> QED
    BY <2>1, <2>2
<1>7. ASSUME NEW w \in Workers, ResolveTransmission(w) PROVE Settled'
  <2> PICK found \in {"found", "none"} :
            pass' = [pass EXCEPT ![w].at = "next", ![w].channel = found]
    BY <1>7 DEF ResolveTransmission
  <2> DEFINE r == [pass[w] EXCEPT !.at = "next", !.channel = found]
  <2>1. r \in Pass /\ r.at = "next" /\ r.now = pass[w].now
    BY <1>0 DEF Pass
  <2>2. pass' = [pass EXCEPT ![w] = r]
    BY <1>0
  <2> HIDE DEF r
  <2>3. \A a, b \in r.now : a = b
    BY <1>0, <2>1
  <2> QED
    BY <1>1, <1>7, <2>1, <2>2, <2>3 DEF ResolveTransmission, Back
<1>8. ASSUME NEW w \in Workers, NextAttachment(w) PROVE Settled'
  <2> PICK a \in pass[w].todo :
        pass' = [pass EXCEPT ![w].todo = @ \ {a}, ![w].now = {a},
                    ![w].at = IF pass[w].channel = "found" THEN "download" ELSE "fail"]
    BY <1>8 DEF NextAttachment
  <2> DEFINE r == [pass[w] EXCEPT !.todo = pass[w].todo \ {a}, !.now = {a},
                      !.at = IF pass[w].channel = "found" THEN "download" ELSE "fail"]
  <2>1. r \in Pass /\ r.at \in {"download", "fail"} /\ r.now = {a}
    BY <1>0 DEF Pass
  <2>2. pass' = [pass EXCEPT ![w] = r]
    BY <1>0
  <2> HIDE DEF r
  <2> QED
    BY <1>1, <1>8, <2>1, <2>2 DEF NextAttachment, Back
<1>9. ASSUME NEW w \in Workers, Download(w) PROVE Settled'
  <2> PICK outcome \in {"ready", "fail"} : pass' = [pass EXCEPT ![w].at = outcome]
    BY <1>9 DEF Download
  <2> DEFINE r == [pass[w] EXCEPT !.at = outcome]
  <2>1. r \in Pass /\ r.at \in {"ready", "fail"} /\ r.now = pass[w].now
    BY <1>0 DEF Pass
  <2>2. pass' = [pass EXCEPT ![w] = r]
    BY <1>0
  <2> HIDE DEF r
  <2>3. \A a, b \in r.now : a = b
    BY <1>0, <2>1
  <2> QED
    BY <1>1, <1>9, <2>1, <2>2, <2>3 DEF Download, Back
<1>10. ASSUME NEW w \in Workers, Settle(w) PROVE Settled'
  <2> PICK a \in pass[w].now :
        IF status[a] = "pending"
        THEN /\ status' = [status EXCEPT ![a] =
                    IF pass[w].at = "ready" THEN "ready" ELSE "failed"]
             /\ pass' = [pass EXCEPT ![w].at =
                    IF pass[w].at = "ready" THEN "readyBack" ELSE "failBack"]
             /\ UNCHANGED <<job, attempts>>
        ELSE Proceed(w) /\ UNCHANGED status
    BY <1>10 DEF Settle
  <2>1. CASE status[a] = "pending"
    <3>1. a \in Attachments /\ patches[a] = {} /\ patches' = patches
      BY <1>0, <1>10, <2>1 DEF OnePatchEach, Pass, Settle
    <3>2. /\ \A b \in Attachments : b # a => status'[b] = status[b]
          /\ status'[a] # "pending"
      BY <2>1, <3>1 DEF IInv, MediaTypeOK
    <3>3. \A v \in Workers : /\ pass'[v].now = pass[v].now
                             /\ v # w => pass'[v].at = pass[v].at
      BY <1>0, <2>1 DEF Pass
    <3>4. pass[w].now = {a}
      BY <1>0 DEF SettledByOne
    <3>5. \A v \in Workers : v # w /\ pass[v].at \in Back => a \notin pass[v].now
      BY <1>0, <2>1 DEF SettledByOne
    <3>6. \A v \in Workers : pass[v].now \subseteq Attachments
      BY <1>0 DEF Pass
    <3>7. SettledByOne'
      BY <1>0, <3>1, <3>2, <3>3, <3>4, <3>5, <3>6 DEF SettledByOne
    <3>8. OnePatchEach' /\ PatchesMap'
      BY <1>0, <3>1, <3>2 DEF OnePatchEach, PatchesMap
    <3> QED
      BY <3>7, <3>8 DEF Settled
  <2>2. CASE status[a] # "pending"
    BY <1>2, <1>10, <2>2 DEF Settle
  <2> QED
    BY <2>1, <2>2
<1>11. ASSUME NEW w \in Workers, EmitPatch(w) PROVE Settled'
  <2> PICK a \in pass[w].now :
        patches' = [patches EXCEPT ![a] =
            @ \cup {[status |-> status[a], nth |-> Cardinality(@) + 1]}]
    BY <1>11 DEF EmitPatch
  <2>1. pass[w].at \in Back /\ a \in Attachments /\ status[a] # "pending" /\ patches[a] = {}
    BY <1>0, <1>11 DEF EmitPatch, Back, SettledByOne, Pass
  <2>2. /\ \A b \in Attachments : b # a => patches'[b] = patches[b]
        /\ patches'[a] = {[status |-> status[a], nth |-> 1]}
        /\ PatchesMap'
    <3>1. Cardinality({}) + 1 = 1
      BY FS_EmptySet
    <3>2. patches' = [patches EXCEPT ![a] = {[status |-> status[a], nth |-> 1]}]
      BY <2>1, <3>1
    <3> QED
      BY <1>0, <2>1, <3>2 DEF PatchesMap
  <2>3. status' = status
    BY <1>11 DEF EmitPatch
  <2>4. SettledByOne'
    <3>1. PICK r \in Pass : /\ r.at \notin Back /\ r.now = {}
                            /\ pass' = [pass EXCEPT ![w] = r]
      BY <1>11, ProceedMoves DEF EmitPatch
    <3>2. ASSUME NEW v \in Workers \ {w}, pass[v].at \in Back, NEW b \in pass[v].now
          PROVE  patches'[b] = patches[b]
      <4>1. b # a /\ b \in Attachments
        BY <1>0, <2>1, <3>2 DEF SettledByOne, Pass
      <4> QED
        BY <2>2, <4>1
    <3> QED
      BY <2>3, <3>1, <3>2, SettledMoves
  <2>5. OnePatchEach'
    BY <1>0, <2>1, <2>2, <2>3 DEF OnePatchEach
  <2> QED
    BY <2>2, <2>4, <2>5 DEF Settled
<1>12. ASSUME NEW w \in Workers, Falter(w) PROVE Settled'
  <2>1. CASE ~pass[w].last
    BY <1>2, <1>12, <2>1 DEF Falter
  <2>2. CASE pass[w].last
    <3> DEFINE r == IF pass[w].at = "lookup"
                    THEN [pass[w] EXCEPT !.at = "next", !.channel = "unreadable"]
                    ELSE [pass[w] EXCEPT !.at = "fail"]
    <3>1. r \in Pass /\ r.at \in {"next", "fail"} /\ r.now = pass[w].now
      BY <1>0 DEF Pass
    <3>2. pass' = [pass EXCEPT ![w] = r]
      BY <1>12, <2>2 DEF Falter
    <3> HIDE DEF r
    <3>3. \A a, b \in r.now : a = b
      BY <1>0, <3>1
    <3> QED
      BY <1>1, <1>12, <3>1, <3>2, <3>3 DEF Falter, Back
  <2> QED
    BY <2>1, <2>2
<1>13. ASSUME NEW w \in Workers, Outage(w) PROVE Settled'
  BY <1>2, <1>13 DEF Outage
<1>14. ASSUME NEW w \in Workers, Crash(w) PROVE Settled'
  BY <1>1, <1>14, NoPassType DEF Crash, Back
<1>15. CASE UNCHANGED mediaVars
  BY <1>0, <1>15 DEF mediaVars, Settled, SettledByOne, OnePatchEach, PatchesMap
<1> QED
  BY <1>3, <1>4, <1>5, <1>6, <1>7, <1>8, <1>9, <1>10, <1>11, <1>12, <1>13, <1>14, <1>15
     DEF MediaNext, Work
-----------------------------------------------------------------------------
\* What is pending, and where the passes stand.
LEMMA AheadMoves ==
    ASSUME IInv, NEW w \in Workers, NEW r \in Pass,
           pass' = [pass EXCEPT ![w] = r],
           Pending' \subseteq Pending,
           r.at \in Between => r.now = {},
           r.at \notin {"idle", "read"} => Pending' \subseteq r.todo \cup r.now,
           job' = "done" => Pending' = {}
    PROVE  AheadOfPasses'
<1>1. \A v \in Workers : pass'[v] = IF v = w THEN r ELSE pass[v]
  BY DEF IInv, MediaTypeOK
<1> QED
  BY <1>1 DEF IInv, AheadOfPasses

LEMMA StepAhead ==
    ASSUME IInv, [MediaNext]_mediaVars
    PROVE  AheadOfPasses'
<1>0. /\ pass \in [Workers -> Pass] /\ \A w \in Workers : pass[w] \in Pass
      /\ status \in [Attachments -> {"pending", "ready", "failed"}]
      /\ AheadOfPasses /\ SettledByOne
  BY DEF IInv, MediaTypeOK
<1>s. status' = status => Pending' = Pending
  BY DEF Pending
<1>j. job = "done" => Pending = {}
  BY <1>0 DEF AheadOfPasses
\* Returning is for passes with nothing ahead.
<1>1. ASSUME NEW w \in Workers, Return(w), Pending' = {}
      PROVE  AheadOfPasses'
  BY <1>1, NoPassType, AheadMoves DEF Return
<1>2. ASSUME NEW w \in Workers, Throw(w), status' = status
      PROVE  AheadOfPasses'
  <2>1. job' = "done" => job = "done"
    BY <1>2 DEF Throw
  <2> QED
    BY <1>2, <1>s, <1>j, <2>1, NoPassType, AheadMoves DEF Throw
<1>3. ASSUME NEW w \in Workers, NEW r \in Pass, pass' = [pass EXCEPT ![w] = r],
             status' = status, job' = job \/ job' # "done",
             r.at \in Between => r.now = {},
             r.at \notin {"idle", "read"} => Pending \subseteq r.todo \cup r.now
      PROVE  AheadOfPasses'
  BY <1>3, <1>s, <1>j, AheadMoves
<1>4. ASSUME NEW w \in Workers, Proceed(w), status' = status,
             Pending \subseteq pass[w].todo
      PROVE  AheadOfPasses'
  <2>1. CASE pass[w].todo = {}
    BY <1>1, <1>4, <1>s, <2>1 DEF Proceed
  <2>2. CASE pass[w].todo # {}
    <3> DEFINE r == [pass[w] EXCEPT !.at = "next", !.now = {}]
    <3>1. r \in Pass /\ r.todo = pass[w].todo /\ r.now = {}
      BY <1>0 DEF Pass
    <3>2. pass' = [pass EXCEPT ![w] = r] /\ job' = job
      BY <1>4, <2>2 DEF Proceed
    <3> HIDE DEF r
    <3> QED
      BY <1>3, <1>4, <3>1, <3>2
  <2> QED
    BY <2>1, <2>2
<1>5. CASE Enqueue
  <2>1. UNCHANGED <<status, pass>> /\ job' # "done"
    BY <1>5 DEF Enqueue
  <2> QED
    BY <1>0, <1>s, <2>1 DEF AheadOfPasses
<1>6. CASE HandOut
  <2>1. \A w \in Workers : /\ pass'[w].at = pass[w].at /\ pass'[w].now = pass[w].now
                           /\ pass'[w].todo = pass[w].todo
    BY <1>0, <1>6 DEF HandOut, Pass
  <2>2. status' = status /\ job' # "done"
    BY <1>6 DEF HandOut
  <2> QED
    BY <1>0, <1>s, <2>1, <2>2 DEF AheadOfPasses
<1>7. ASSUME NEW w \in Workers, PickUp(w) PROVE AheadOfPasses'
  <2> DEFINE r == [NoPass EXCEPT !.at = "read", !.last = IsLastAttempt(attempts), !.owner = TRUE]
  <2>1. IsLastAttempt(attempts) \in BOOLEAN
    BY DEF IsLastAttempt
  <2>2. r \in Pass /\ r.at = "read" /\ r.now = {}
    BY <2>1 DEF NoPass, Pass
  <2>3. pass' = [pass EXCEPT ![w] = r] /\ job' # "done" /\ status' = status
    BY <1>7 DEF PickUp
  <2> HIDE DEF r
  <2> QED
    BY <1>3, <2>2, <2>3
<1>8. ASSUME NEW w \in Workers, FindPending(w) PROVE AheadOfPasses'
  <2>0. status' = status
    BY <1>8 DEF FindPending
  <2>1. CASE Pending = {}
    BY <1>1, <1>8, <1>s, <2>0, <2>1 DEF FindPending
  <2>2. CASE Pending # {}
    <3> DEFINE r == [pass[w] EXCEPT !.at = "lookup", !.todo = Pending]
    <3>1. r \in Pass /\ r.todo = Pending /\ r.now = pass[w].now
      BY <1>0 DEF Pass, Pending
    <3>3. r.now = {}
      BY <1>0, <1>8, <3>1 DEF FindPending, AheadOfPasses, Between
    <3>2. pass' = [pass EXCEPT ![w] = r] /\ job' = job
      BY <1>8, <2>2 DEF FindPending
    <3> HIDE DEF r
    <3> QED
      BY <1>3, <2>0, <3>1, <3>2, <3>3
  <2> QED
    BY <2>1, <2>2
<1>9. ASSUME NEW w \in Workers, ResolveTransmission(w) PROVE AheadOfPasses'
  <2> PICK found \in {"found", "none"} :
            pass' = [pass EXCEPT ![w].at = "next", ![w].channel = found]
    BY <1>9 DEF ResolveTransmission
  <2> DEFINE r == [pass[w] EXCEPT !.at = "next", !.channel = found]
  <2>1. r \in Pass /\ r.now = pass[w].now /\ r.todo = pass[w].todo
    BY <1>0 DEF Pass
  <2>2. pass' = [pass EXCEPT ![w] = r] /\ job' = job /\ status' = status
    BY <1>0, <1>9 DEF ResolveTransmission
  <2>3. Pending \subseteq pass[w].todo \cup pass[w].now
    BY <1>0, <1>9 DEF AheadOfPasses, ResolveTransmission
  <2>4. r.now = {}
    BY <1>0, <1>9, <2>1 DEF AheadOfPasses, ResolveTransmission, Between
  <2> HIDE DEF r
  <2> QED
    BY <1>3, <2>1, <2>2, <2>3, <2>4
<1>10. ASSUME NEW w \in Workers, NextAttachment(w) PROVE AheadOfPasses'
  <2> PICK a \in pass[w].todo :
        pass' = [pass EXCEPT ![w].todo = @ \ {a}, ![w].now = {a},
                    ![w].at = IF pass[w].channel = "found" THEN "download" ELSE "fail"]
    BY <1>10 DEF NextAttachment
  <2> DEFINE r == [pass[w] EXCEPT !.todo = pass[w].todo \ {a}, !.now = {a},
                      !.at = IF pass[w].channel = "found" THEN "download" ELSE "fail"]
  <2>0. /\ pass[w].todo \subseteq Attachments /\ a \in Attachments
        /\ (IF pass[w].channel = "found" THEN "download" ELSE "fail") \in {"download", "fail"}
    BY <1>0 DEF Pass
  <2>1. r \in Pass /\ r.now = {a} /\ r.todo = pass[w].todo \ {a}
    BY <1>0, <2>0 DEF Pass
  <2>4. r.at \in {"download", "fail"}
    BY <1>0, <2>0 DEF Pass
  <2>2. pass' = [pass EXCEPT ![w] = r] /\ job' = job /\ status' = status
    BY <1>0, <1>10 DEF NextAttachment
  <2>3. Pending \subseteq pass[w].todo
    BY <1>0, <1>10 DEF AheadOfPasses, NextAttachment, Between
  <2> HIDE DEF r
  <2>5. Pending \subseteq r.todo \cup r.now
    BY <2>1, <2>3
  <2>6. r.at \notin Between
    BY <2>4 DEF Between
  <2> QED
    BY <1>3, <2>1, <2>2, <2>5, <2>6
<1>11. ASSUME NEW w \in Workers, Download(w) PROVE AheadOfPasses'
  <2> PICK outcome \in {"ready", "fail"} : pass' = [pass EXCEPT ![w].at = outcome]
    BY <1>11 DEF Download
  <2> DEFINE r == [pass[w] EXCEPT !.at = outcome]
  <2>1. r \in Pass /\ r.now = pass[w].now /\ r.todo = pass[w].todo /\ r.at \notin Between
    BY <1>0 DEF Pass, Between
  <2>2. pass' = [pass EXCEPT ![w] = r] /\ job' = job /\ status' = status
    BY <1>0, <1>11 DEF Download
  <2>3. Pending \subseteq pass[w].todo \cup pass[w].now
    BY <1>0, <1>11 DEF AheadOfPasses, Download
  <2> HIDE DEF r
  <2> QED
    BY <1>3, <2>1, <2>2, <2>3
\* The attachment a pass is at is settled: the rest is ahead.
<1>12. ASSUME NEW w \in Workers, pass[w].at \notin {"idle", "read"},
              NEW a \in pass[w].now, status[a] # "pending"
       PROVE  Pending \subseteq pass[w].todo
  <2>1. pass[w].now = {a} /\ a \notin Pending
    BY <1>0, <1>12 DEF SettledByOne, Pending
  <2> QED
    BY <1>0, <1>12, <2>1 DEF AheadOfPasses
<1>13. ASSUME NEW w \in Workers, Settle(w) PROVE AheadOfPasses'
  <2> PICK a \in pass[w].now :
        IF status[a] = "pending"
        THEN /\ status' = [status EXCEPT ![a] =
                    IF pass[w].at = "ready" THEN "ready" ELSE "failed"]
             /\ pass' = [pass EXCEPT ![w].at =
                    IF pass[w].at = "ready" THEN "readyBack" ELSE "failBack"]
             /\ UNCHANGED <<job, attempts>>
        ELSE Proceed(w) /\ UNCHANGED status
    BY <1>13 DEF Settle
  <2>0. pass[w].at \notin {"idle", "read"}
    BY <1>13 DEF Settle
  <2>1. CASE status[a] = "pending"
    <3> DEFINE r == [pass[w] EXCEPT !.at =
                        IF pass[w].at = "ready" THEN "readyBack" ELSE "failBack"]
    <3>1. r \in Pass /\ r.now = pass[w].now /\ r.todo = pass[w].todo /\ r.at \notin Between
      BY <1>0 DEF Pass, Between
    <3>2. pass' = [pass EXCEPT ![w] = r] /\ job' = job
      BY <1>0, <2>1
    <3>3. Pending' \subseteq Pending
      BY <1>0, <2>1 DEF Pending
    <3>4. Pending \subseteq pass[w].todo \cup pass[w].now
      BY <1>0, <2>0 DEF AheadOfPasses
    <3> HIDE DEF r
    <3> QED
      BY <1>j, <3>1, <3>2, <3>3, <3>4, AheadMoves
  <2>2. CASE status[a] # "pending"
    BY <1>4, <1>12, <2>0, <2>2
  <2> QED
    BY <2>1, <2>2
<1>14. ASSUME NEW w \in Workers, EmitPatch(w) PROVE AheadOfPasses'
  <2>1. PICK a \in pass[w].now : TRUE
    BY <1>14 DEF EmitPatch
  <2>2. pass[w].at \in Back /\ Proceed(w) /\ status' = status
    BY <1>14 DEF EmitPatch, Back
  <2>3. status[a] # "pending"
    BY <1>0, <2>2 DEF SettledByOne
  <2> QED
    BY <1>4, <1>12, <2>2, <2>3 DEF Back
<1>15. ASSUME NEW w \in Workers, Falter(w) PROVE AheadOfPasses'
  <2>0. status' = status
    BY <1>15 DEF Falter
  <2>1. CASE ~pass[w].last
    BY <1>2, <1>15, <2>0, <2>1 DEF Falter
  <2>2. CASE pass[w].last
    <3> DEFINE r == IF pass[w].at = "lookup"
                    THEN [pass[w] EXCEPT !.at = "next", !.channel = "unreadable"]
                    ELSE [pass[w] EXCEPT !.at = "fail"]
    <3>1. r \in Pass /\ r.now = pass[w].now /\ r.todo = pass[w].todo
      BY <1>0 DEF Pass
    <3>2. pass' = [pass EXCEPT ![w] = r] /\ job' = job
      BY <1>15, <2>2 DEF Falter
    <3>3. Pending \subseteq pass[w].todo \cup pass[w].now
      BY <1>0, <1>15 DEF AheadOfPasses, Falter
    <3>4. r.at \in Between => r.now = {}
      BY <1>0, <3>1 DEF AheadOfPasses, Between
    <3> HIDE DEF r
    <3> QED
      BY <1>3, <2>0, <3>1, <3>2, <3>3, <3>4
  <2> QED
    BY <2>1, <2>2
<1>16. ASSUME NEW w \in Workers, Outage(w) PROVE AheadOfPasses'
  BY <1>2, <1>16 DEF Outage
<1>17. ASSUME NEW w \in Workers, Crash(w) PROVE AheadOfPasses'
  BY <1>3, <1>17, NoPassType DEF Crash
<1>18. CASE UNCHANGED mediaVars
  BY <1>0, <1>18 DEF mediaVars, AheadOfPasses, Pending, Between
<1> QED
  BY <1>5, <1>6, <1>7, <1>8, <1>9, <1>10, <1>11, <1>13, <1>14, <1>15, <1>16, <1>17, <1>18
     DEF MediaNext, Work
-----------------------------------------------------------------------------
\* Attempts and trouble.
LEMMA TroubleMoves ==
    ASSUME IInv, MediaTypeOK', NEW w \in Workers, NEW r \in Pass,
           pass' = [pass EXCEPT ![w] = r],
           Trouble <= Trouble',
           attempts' <= Trouble',
           r.last => Trouble' + 1 >= MaxAttempts,
           spent' # {} \/ (job' = "failed" /\ stalls' < 2) => Trouble' >= MaxAttempts
    PROVE  AttemptsHaveCauses'
<1>1. \A v \in Workers : pass'[v] = IF v = w THEN r ELSE pass[v]
  BY DEF IInv, MediaTypeOK
<1>2. \A v \in Workers : pass[v].last => Trouble + 1 >= MaxAttempts
  BY DEF IInv, AttemptsHaveCauses
<1>t. {errors, outages, stalls, errors', outages', stalls'} \subseteq Nat
  BY Bounds DEF IInv, MediaTypeOK
<1>b. Trouble + 1 >= MaxAttempts => Trouble' + 1 >= MaxAttempts
  BY <1>t, Bounds DEF Trouble
<1>3. \A v \in Workers : pass'[v].last => Trouble' + 1 >= MaxAttempts
  <2> SUFFICES ASSUME NEW v \in Workers, pass'[v].last
               PROVE  Trouble' + 1 >= MaxAttempts
    OBVIOUS
  <2>1. CASE v = w
    <3>1. pass'[v] = r
      BY <1>1, <2>1
    <3> QED
      BY <3>1
  <2>2. CASE v # w
    <3>1. pass'[v] = pass[v]
      BY <1>1, <2>2
    <3> QED
      BY <1>2, <1>b, <3>1
  <2> QED
    BY <2>1, <2>2
<1> QED
  BY <1>3 DEF AttemptsHaveCauses

LEMMA StepAttempts ==
    ASSUME IInv, MediaTypeOK', [MediaNext]_mediaVars
    PROVE  AttemptsHaveCauses'
<1> USE Bounds
<1>0. /\ pass \in [Workers -> Pass] /\ \A w \in Workers : pass[w] \in Pass
      /\ errors \in Nat /\ outages \in Nat /\ stalls \in Nat /\ attempts \in Nat
      /\ Trouble \in Nat /\ attempts <= Trouble
      /\ \A w \in Workers : pass[w].last => Trouble + 1 >= MaxAttempts
      /\ spent # {} \/ (job = "failed" /\ stalls < 2) => Trouble >= MaxAttempts
  BY DEF IInv, MediaTypeOK, AttemptsHaveCauses, Trouble
<1>t. {errors', outages', stalls', attempts'} \subseteq Nat
  BY DEF MediaTypeOK
<1>s. UNCHANGED <<errors, outages>> => Trouble' = Trouble
  BY DEF Trouble
\* A pass that moves on while nothing happens.
<1>1. ASSUME NEW w \in Workers, NEW r \in Pass, pass' = [pass EXCEPT ![w] = r],
             r.last => pass[w].last, job' = job \/ job' # "failed",
             UNCHANGED <<attempts, stalls, spent, errors, outages>>
      PROVE  AttemptsHaveCauses'
  <2>1. Trouble <= Trouble' /\ attempts' <= Trouble'
    BY <1>0, <1>1 DEF Trouble
  <2>2. spent' # {} \/ (job' = "failed" /\ stalls' < 2) => Trouble' >= MaxAttempts
    <3>1. spent' # {} \/ (job' = "failed" /\ stalls' < 2) =>
            spent # {} \/ (job = "failed" /\ stalls < 2)
      BY <1>1
    <3>2. Trouble >= MaxAttempts => Trouble' >= MaxAttempts
      BY <1>0, <1>1 DEF Trouble
    <3> QED
      BY <1>0, <3>1, <3>2
  <2>3. Trouble + 1 >= MaxAttempts => Trouble' + 1 >= MaxAttempts
    BY <1>0, <1>1 DEF Trouble
  <2>4. r.last => Trouble' + 1 >= MaxAttempts
    BY <1>0, <1>1, <2>3
  <2> QED
    BY <1>1, <2>1, <2>2, <2>4, TroubleMoves
\* A pass that throws, for one more trouble.
<1>2. ASSUME NEW w \in Workers, Throw(w), UNCHANGED <<stalls, spent>>,
             Trouble' = Trouble + 1
      PROVE  AttemptsHaveCauses'
  <2>1. /\ attempts' <= Trouble'
        /\ job' = "failed" => job = "failed" \/ attempts + 1 >= MaxAttempts
    BY <1>0, <1>2 DEF Throw
  <2>2. spent' # {} \/ (job' = "failed" /\ stalls' < 2) => Trouble' >= MaxAttempts
    BY <1>0, <1>2, <2>1
  <2>3. pass' = [pass EXCEPT ![w] = NoPass] /\ Trouble' \in Nat /\ Trouble <= Trouble'
    BY <1>0, <1>2 DEF Throw
  <2> QED
    BY <1>0, <2>1, <2>2, <2>3, NoPassType, TroubleMoves
<1>3. ASSUME NEW w \in Workers, Return(w), UNCHANGED <<stalls, spent, errors, outages>>
      PROVE  AttemptsHaveCauses'
  BY <1>1, <1>3, NoPassType DEF Return
<1>4. ASSUME NEW w \in Workers, Proceed(w), UNCHANGED <<stalls, spent, errors, outages>>
      PROVE  AttemptsHaveCauses'
  <2>1. CASE pass[w].todo = {}
    BY <1>3, <1>4, <2>1 DEF Proceed
  <2>2. CASE pass[w].todo # {}
    <3> DEFINE r == [pass[w] EXCEPT !.at = "next", !.now = {}]
    <3>1. r \in Pass /\ r.last = pass[w].last
      BY <1>0 DEF Pass
    <3>2. pass' = [pass EXCEPT ![w] = r] /\ job' = job /\ attempts' = attempts
      BY <1>4, <2>2 DEF Proceed
    <3> HIDE DEF r
    <3> QED
      BY <1>1, <1>4, <3>1, <3>2
  <2> QED
    BY <2>1, <2>2
<1>5. CASE Enqueue
  <2>1. /\ UNCHANGED <<pass, attempts, stalls, spent, errors>> /\ job' # "failed"
        /\ outages' \in {outages, outages + 1}
    BY <1>5 DEF Enqueue
  <2>2. /\ attempts' <= Trouble'
        /\ Trouble + 1 >= MaxAttempts => Trouble' + 1 >= MaxAttempts
        /\ Trouble >= MaxAttempts => Trouble' >= MaxAttempts
    <3>1. CASE outages' = outages
      BY <1>0, <2>1, <3>1 DEF Trouble
    <3>2. CASE outages' = outages + 1
      BY <1>0, <2>1, <3>2 DEF Trouble
    <3> QED
      BY <2>1, <3>1, <3>2
  <2>3. \A w \in Workers : pass'[w].last => Trouble' + 1 >= MaxAttempts
    BY <1>0, <2>1, <2>2
  <2>4. spent' # {} \/ (job' = "failed" /\ stalls' < 2) => Trouble' >= MaxAttempts
    <3>1. spent' # {} \/ (job' = "failed" /\ stalls' < 2) => spent # {}
      BY <2>1
    <3> QED
      BY <1>0, <2>2, <3>1
  <2> QED
    BY <2>2, <2>3, <2>4 DEF AttemptsHaveCauses
<1>6. CASE HandOut
  <2>1. /\ UNCHANGED <<attempts, spent, errors, outages>> /\ stalls' = stalls + 1
        /\ job' = "failed" => stalls # 0
    BY <1>6 DEF HandOut
  <2>2. \A w \in Workers : pass'[w].last = pass[w].last
    BY <1>0, <1>6 DEF HandOut, Pass
  <2>3. spent' # {} \/ (job' = "failed" /\ stalls' < 2) => spent # {}
    BY <1>0, <2>1
  <2> QED
    BY <1>0, <1>s, <2>1, <2>2, <2>3 DEF AttemptsHaveCauses
<1>7. ASSUME NEW w \in Workers, PickUp(w) PROVE AttemptsHaveCauses'
  <2> DEFINE r == [NoPass EXCEPT !.at = "read", !.last = IsLastAttempt(attempts), !.owner = TRUE]
  <2>1. IsLastAttempt(attempts) \in BOOLEAN
    BY DEF IsLastAttempt
  <2>2. r \in Pass /\ r.last = IsLastAttempt(attempts)
    BY <2>1 DEF NoPass, Pass
  <2>3. /\ pass' = [pass EXCEPT ![w] = r] /\ job' # "failed"
        /\ UNCHANGED <<attempts, stalls, spent, errors, outages>>
    BY <1>7 DEF PickUp
  <2>4. IsLastAttempt(attempts) => Trouble + 1 >= MaxAttempts
    BY <1>0 DEF IsLastAttempt
  <2>5. /\ Trouble <= Trouble' /\ attempts' <= Trouble'
        /\ Trouble + 1 >= MaxAttempts => Trouble' + 1 >= MaxAttempts
        /\ Trouble >= MaxAttempts => Trouble' >= MaxAttempts
    BY <1>0, <2>3 DEF Trouble
  <2>6. spent' # {} \/ (job' = "failed" /\ stalls' < 2) => Trouble' >= MaxAttempts
    <3>1. spent' # {} \/ (job' = "failed" /\ stalls' < 2) => spent # {}
      BY <2>3
    <3> QED
      BY <1>0, <2>5, <3>1
  <2>7. r.last => Trouble' + 1 >= MaxAttempts
    BY <2>2, <2>4, <2>5
  <2> HIDE DEF r
  <2> QED
    BY <2>2, <2>3, <2>5, <2>6, <2>7, TroubleMoves
<1>8. ASSUME NEW w \in Workers, FindPending(w) PROVE AttemptsHaveCauses'
  <2>1. CASE Pending = {}
    BY <1>3, <1>8, <2>1 DEF FindPending
  <2>2. CASE Pending # {}
    <3> DEFINE r == [pass[w] EXCEPT !.at = "lookup", !.todo = Pending]
    <3>1. r \in Pass /\ r.last = pass[w].last
      BY <1>0 DEF Pass, Pending
    <3>2. pass' = [pass EXCEPT ![w] = r] /\ job' = job /\ attempts' = attempts
      BY <1>8, <2>2 DEF FindPending
    <3> HIDE DEF r
    <3> QED
      BY <1>1, <1>8, <3>1, <3>2 DEF FindPending
  <2> QED
    BY <2>1, <2>2
<1>9. ASSUME NEW w \in Workers, ResolveTransmission(w) PROVE AttemptsHaveCauses'
  <2> PICK found \in {"found", "none"} :
            pass' = [pass EXCEPT ![w].at = "next", ![w].channel = found]
    BY <1>9 DEF ResolveTransmission
  <2> DEFINE r == [pass[w] EXCEPT !.at = "next", !.channel = found]
  <2>1. r \in Pass /\ r.last = pass[w].last
    BY <1>0 DEF Pass
  <2>2. pass' = [pass EXCEPT ![w] = r]
    BY <1>0
  <2> HIDE DEF r
  <2> QED
    BY <1>1, <1>9, <2>1, <2>2 DEF ResolveTransmission
<1>10. ASSUME NEW w \in Workers, NextAttachment(w) PROVE AttemptsHaveCauses'
  <2> PICK a \in pass[w].todo :
        pass' = [pass EXCEPT ![w].todo = @ \ {a}, ![w].now = {a},
                    ![w].at = IF pass[w].channel = "found" THEN "download" ELSE "fail"]
    BY <1>10 DEF NextAttachment
  <2> DEFINE r == [pass[w] EXCEPT !.todo = pass[w].todo \ {a}, !.now = {a},
                      !.at = IF pass[w].channel = "found" THEN "download" ELSE "fail"]
  <2>1. r \in Pass /\ r.last = pass[w].last
    BY <1>0 DEF Pass
  <2>2. pass' = [pass EXCEPT ![w] = r]
    BY <1>0
  <2> HIDE DEF r
  <2> QED
    BY <1>1, <1>10, <2>1, <2>2 DEF NextAttachment
<1>11. ASSUME NEW w \in Workers, Download(w) PROVE AttemptsHaveCauses'
  <2> PICK outcome \in {"ready", "fail"} : pass' = [pass EXCEPT ![w].at = outcome]
    BY <1>11 DEF Download
  <2> DEFINE r == [pass[w] EXCEPT !.at = outcome]
  <2>1. r \in Pass /\ r.last = pass[w].last
    BY <1>0 DEF Pass
  <2>2. pass' = [pass EXCEPT ![w] = r]
    BY <1>0
  <2> HIDE DEF r
  <2> QED
    BY <1>1, <1>11, <2>1, <2>2 DEF Download
<1>12. ASSUME NEW w \in Workers, Settle(w) PROVE AttemptsHaveCauses'
  <2> PICK a \in pass[w].now :
        IF status[a] = "pending"
        THEN /\ status' = [status EXCEPT ![a] =
                    IF pass[w].at = "ready" THEN "ready" ELSE "failed"]
             /\ pass' = [pass EXCEPT ![w].at =
                    IF pass[w].at = "ready" THEN "readyBack" ELSE "failBack"]
             /\ UNCHANGED <<job, attempts>>
        ELSE Proceed(w) /\ UNCHANGED status
    BY <1>12 DEF Settle
  <2>1. CASE status[a] = "pending"
    <3> DEFINE r == [pass[w] EXCEPT !.at =
                        IF pass[w].at = "ready" THEN "readyBack" ELSE "failBack"]
    <3>1. r \in Pass /\ r.last = pass[w].last
      BY <1>0 DEF Pass
    <3>2. pass' = [pass EXCEPT ![w] = r] /\ job' = job /\ attempts' = attempts
      BY <1>0, <2>1
    <3> HIDE DEF r
    <3> QED
      BY <1>1, <1>12, <3>1, <3>2 DEF Settle
  <2>2. CASE status[a] # "pending"
    BY <1>4, <1>12, <2>2 DEF Settle
  <2> QED
    BY <2>1, <2>2
<1>13. ASSUME NEW w \in Workers, EmitPatch(w) PROVE AttemptsHaveCauses'
  BY <1>4, <1>13 DEF EmitPatch
<1>14. ASSUME NEW w \in Workers, Falter(w) PROVE AttemptsHaveCauses'
  <2>1. UNCHANGED <<stalls, outages>> /\ errors' = errors + 1
    BY <1>14 DEF Falter
  <2>2. Trouble' = Trouble + 1
    BY <1>0, <2>1 DEF Trouble
  <2>3. CASE ~pass[w].last
    BY <1>2, <1>14, <2>2, <2>3 DEF Falter
  <2>4. CASE pass[w].last
    <3> DEFINE r == IF pass[w].at = "lookup"
                    THEN [pass[w] EXCEPT !.at = "next", !.channel = "unreadable"]
                    ELSE [pass[w] EXCEPT !.at = "fail"]
    <3>1. r \in Pass
      BY <1>0 DEF Pass
    <3>2. pass' = [pass EXCEPT ![w] = r] /\ attempts' = attempts
      BY <1>14, <2>4 DEF Falter
    <3>3. Trouble' >= MaxAttempts /\ Trouble' \in Nat /\ Trouble <= Trouble'
      BY <1>0, <2>2, <2>4
    <3>4. attempts' <= Trouble' /\ Trouble' + 1 >= MaxAttempts
      BY <1>0, <2>2, <3>2, <3>3
    <3> HIDE DEF r
    <3> QED
      BY <1>0, <3>1, <3>2, <3>3, <3>4, TroubleMoves
  <2> QED
    BY <2>3, <2>4
<1>15. ASSUME NEW w \in Workers, Outage(w) PROVE AttemptsHaveCauses'
  <2>1. UNCHANGED <<stalls, errors>> /\ outages' = outages + 1
    BY <1>15 DEF Outage
  <2>2. Trouble' = Trouble + 1
    BY <1>0, <2>1 DEF Trouble
  <2> QED
    BY <1>2, <1>15, <2>2 DEF Outage
<1>16. ASSUME NEW w \in Workers, Crash(w) PROVE AttemptsHaveCauses'
  BY <1>1, <1>16, NoPassType DEF Crash
<1>17. CASE UNCHANGED mediaVars
  BY <1>0, <1>s, <1>17 DEF mediaVars, AttemptsHaveCauses
<1> QED
  BY <1>5, <1>6, <1>7, <1>8, <1>9, <1>10, <1>11, <1>12, <1>13, <1>14, <1>15, <1>16, <1>17
     DEF MediaNext, Work
-----------------------------------------------------------------------------
LEMMA SpecIInv == MediaSpec => []IInv
<1>1. IInv /\ [MediaNext]_mediaVars => IInv'
  <2> SUFFICES ASSUME IInv, [MediaNext]_mediaVars
               PROVE  IInv'
    OBVIOUS
  <2>1. MediaTypeOK' /\ StallsEnd'
    BY StepTypes
  <2> QED
    BY <2>1, StepSettled, StepAhead, StepAttempts DEF IInv, Settled
<1> QED
  BY <1>1, InitIInv, PTL DEF MediaSpec

\* Attachments, the job and its passes keep their types, and at most one pass
\* speaks for the job.
THEOREM TypeCorrect == MediaSpec => []MediaTypeOK
<1>1. IInv => MediaTypeOK
  BY DEF IInv
<1> QED
  BY <1>1, SpecIInv, PTL

\* An attachment is patched at most once and with the status it keeps, however
\* many passes overlap, come late or are repeated (enrich).
THEOREM PatchedOnce == MediaSpec => []OnePatchEach
<1>1. IInv => OnePatchEach
  BY DEF IInv
<1> QED
  BY <1>1, SpecIInv, PTL

\* A finished job leaves nothing pending, and a file or a job fails for passing
\* trouble only when there was one for every attempt (shouldRetry).
THEOREM AttemptsAreUsed == MediaSpec => []NothingGivenUpEarly
<1>1. IInv => NothingGivenUpEarly
  BY DEF IInv, AheadOfPasses, AttemptsHaveCauses, Trouble, NothingGivenUpEarly
<1> QED
  BY <1>1, SpecIInv, PTL
-----------------------------------------------------------------------------
(* The intake: the inductive invariant *)

\* A message goes to a conversation of who sent it,
Theirs(c, w) == c \in 1..Len(convs) /\ convs[c] = SenderOf[w]

\* whether it has its row, is queued, or is about to be.
InTheirThread ==
    /\ \A r \in rows : Theirs(r[1], r[2])
    /\ \A j \in Jobs : saveJob[j].at # "free" =>
          saveJob[j].wamid \in Wamids /\ Theirs(saveJob[j].conv, saveJob[j].wamid)
    /\ \A r \in Runners : run[r].at = "enqueue" => Theirs(run[r].conv, WamidOf(r))

\* The replay runs its commands for the first event of its page.
Replaying ==
    /\ run[Replayer].at # "idle" => replay.at = "page" /\ replay.page # {}
    /\ replay.consumed + Cardinality(replay.page) <= replay.size
    /\ replay.at # "off" => up

\* A job stalled once for each crash at most.
FaultsLeft ==
    /\ \A f \in Faults : left[f] <= Budget[f]
    /\ \A j \in Jobs : saveJob[j].stalls + left["crash"] <= Budget["crash"]

RowsBehindJobs ==
    \A j \in Jobs : saveJob[j].at \in {"saved", "completed", "published"} =>
        <<saveJob[j].conv, saveJob[j].wamid>> \in rows

Mild == /\ left["save"] = Budget["save"] /\ left["channel"] = Budget["channel"]
        /\ Budget["crash"] - left["crash"] <= MaxStalled

\* A consumed event has its row, or its save is queued; so has the one that the
\* replay is about to consume.
ConsumedIsKept ==
    Mild => /\ \A w \in Wamids : intake[w] = "replayed" => Saved(w) \/ UnderWay(w)
            /\ run[Replayer].at = "mark" => Saved(Event) \/ UnderWay(Event)

\* A row stands for one MessageSavedEvent: published, or still to come.
ToPublish(j, w) == saveJob[j].at \in {"saved", "completed"} /\ saveJob[j].wamid = w

OneToPublish ==
    \A w \in Wamids : OneThread(SenderOf[w]) =>
        /\ published[w] <= 1
        /\ published[w] # 0 => Saved(w)
        /\ \A j \in Jobs : ToPublish(j, w) =>
              /\ published[w] = 0
              /\ \A i \in Jobs : ToPublish(i, w) => i = j

IntakeInv == /\ TypeOK /\ InTheirThread /\ Replaying /\ FaultsLeft /\ RowsBehindJobs
             /\ ConsumedIsKept /\ OneToPublish
-----------------------------------------------------------------------------
(* Numbers and pages *)

LEMMA LeastOf ==
    ASSUME NEW T \in SUBSET Nat, T # {}
    PROVE  \E x \in T : \A y \in T : x <= y
<1>1. PICK x \in T : \A y \in T : ~ (<<y, x>> \in OpToRel(<, Nat))
  BY NatLessThanWellFounded, WFMin
<1>2. \A y \in T : ~ (y < x)
  BY <1>1 DEF OpToRel
<1> QED
  BY <1>2

LEMMA GreatestOf ==
    ASSUME NEW n \in Nat, NEW T \in SUBSET Nat, T # {}, \A i \in T : i <= n
    PROVE  \E i \in T : \A j \in T : j <= i
<1> DEFINE U == {n - i : i \in T}
<1>1. U \in SUBSET Nat /\ U # {}
  <2>1. \A i \in T : i \in Nat /\ n - i \in Nat
    OBVIOUS
  <2> QED
    BY <2>1
<1>2. PICK k \in U : \A y \in U : k <= y
  BY <1>1, LeastOf
<1>3. PICK i \in T : k = n - i
  BY <1>2
<1>4. ASSUME NEW j \in T PROVE j <= i
  <2>1. n - i <= n - j
    BY <1>2, <1>3
  <2> HIDE DEF U
  <2> QED
    BY <2>1
<1> QED
  BY <1>4

\* A page is no longer than it may be.
LEMMA PageSize ==
    ASSUME NEW m \in Nat, NEW n \in Nat, NEW events \in SUBSET (1..m)
    PROVE  /\ Oldest(n, events) \in SUBSET (1..m)
           /\ IsFiniteSet(Oldest(n, events))
           /\ Cardinality(Oldest(n, events)) \in 0..n
<1> DEFINE page == Oldest(n, events)
<1>1. page \in SUBSET events
  BY DEF Oldest
<1>2. IsFiniteSet(events)
  BY FS_Interval, FS_Subset, 1 \in Int, m \in Int
<1>3. IsFiniteSet(page) /\ Cardinality(page) \in Nat
  BY <1>1, <1>2, FS_Subset, FS_CardinalityType
<1>6. page \in SUBSET (1..m)
  BY <1>1
<1>7. \A i \in page : i \in 1..m
  BY <1>6
<1>8. page \in SUBSET Nat /\ \A i \in page : i <= m
  BY <1>7
<1> HIDE DEF page
<1>4. ASSUME page = {} PROVE Cardinality(page) \in 0..n
  BY <1>3, <1>4, FS_EmptySet
<1>5. ASSUME page # {} PROVE Cardinality(page) \in 0..n
  <2>2. PICK i \in page : \A j \in page : j <= i
    BY <1>5, <1>8, GreatestOf
  <2> DEFINE before == {j \in events : j <= i}
  <2>3. page \in SUBSET before /\ Cardinality(before) <= n
    BY <1>1, <2>2 DEF Oldest, page
  <2>4. IsFiniteSet(before)
    BY <1>2, FS_Subset
  <2>5. Cardinality(page) <= Cardinality(before) /\ Cardinality(before) \in Nat
    BY <2>3, <2>4, FS_Subset, FS_CardinalityType
  <2> QED
    BY <1>3, <2>3, <2>5
<1> QED
  BY <1>3, <1>4, <1>5, <1>6 DEF page

LEMMA RunnersHaveIt == Replayer \in Runners /\ \A w \in Wamids : w \in Runners /\ w # Replayer
BY IntakeAssumption DEF Runners

LEMMA Types ==
    ASSUME IntakeInv
    PROVE  /\ intake \in [Wamids -> {"none", "pending", "replayed"}]
           /\ stored \in Seq(Wamids) /\ Len(stored) \in Nat
           /\ convs \in Seq(Senders) /\ Len(convs) \in Nat
           /\ run \in [Runners -> [at : {"idle", "lookup", "create", "enqueue", "mark"},
                                   conv : 0..Len(convs)]]
           /\ saveJob \in [Jobs -> [at : JobStates, conv : 0..Len(convs), wamid : Runners,
                                    stalls : 0..MaxStalled]]
           /\ replay \in [at : {"off", "list", "page"}, page : SUBSET (1..Len(stored)),
                          size : 0..Limit, consumed : 0..Limit]
           /\ left \in [Faults -> Nat] /\ Budget \in [Faults -> Nat]
           /\ MaxStalled \in Nat /\ Limit \in Nat
BY IntakeAssumption DEF IntakeInv, TypeOK

LEMMA FirstIsOnThePage ==
    ASSUME IntakeInv, replay.page # {}
    PROVE  /\ First \in replay.page /\ First \in 1..Len(stored)
           /\ Event \in Wamids
<1>1. replay.page \in SUBSET (1..Len(stored)) /\ stored \in Seq(Wamids) /\ Len(stored) \in Nat
  BY Types
<1>2. replay.page \in SUBSET Nat
  BY <1>1
<1>3. \E i \in replay.page : \A j \in replay.page : i <= j
  BY <1>2, LeastOf
<1>4. First \in replay.page
  BY <1>3 DEF First
<1> QED
  BY <1>1, <1>4 DEF Event

LEMMA RestOfThePage ==
    ASSUME IntakeInv, replay.page # {}
    PROVE  /\ Rest \in [at : {"off", "list", "page"}, page : SUBSET (1..Len(stored)),
                        size : 0..Limit, consumed : 0..Limit]
           /\ Rest.consumed = replay.consumed /\ Rest.size = replay.size
           /\ Rest.consumed + Cardinality(Rest.page) + 1 <= Rest.size
<1>1. /\ replay \in [at : {"off", "list", "page"}, page : SUBSET (1..Len(stored)),
                     size : 0..Limit, consumed : 0..Limit]
      /\ Len(stored) \in Nat /\ Limit \in Nat
  BY Types
<1>2. /\ Rest \in [at : {"off", "list", "page"}, page : SUBSET (1..Len(stored)),
                   size : 0..Limit, consumed : 0..Limit]
      /\ Rest.consumed = replay.consumed /\ Rest.size = replay.size
      /\ Rest.page = replay.page \ {First}
  BY <1>1 DEF Rest
<1>3. IsFiniteSet(replay.page)
  BY <1>1, FS_Interval, FS_Subset, 1 \in Int, Len(stored) \in Int
<1>4. /\ Cardinality(replay.page \ {First}) = Cardinality(replay.page) - 1
      /\ Cardinality(replay.page) \in Nat
  BY <1>3, FirstIsOnThePage, FS_RemoveElement, FS_CardinalityType
<1>5. replay.consumed + Cardinality(replay.page) <= replay.size
  BY DEF IntakeInv, Replaying
<1>6. replay.consumed \in Nat /\ replay.size \in Nat
  BY <1>1
<1> QED
  BY <1>2, <1>4, <1>5, <1>6

LEMMA NoReplayType ==
    /\ NoReplay \in [at : {"off", "list", "page"}, page : SUBSET (1..Len(stored)),
                     size : 0..Limit, consumed : 0..Limit]
    /\ NoReplay.page = {} /\ NoReplay.consumed = 0 /\ NoReplay.size = 0
    /\ NoReplay.consumed + Cardinality(NoReplay.page) <= NoReplay.size
<1>1. 0 \in 0..Limit
  BY IntakeAssumption
<1>2. Cardinality({}) = 0
  BY FS_EmptySet
<1> QED
  BY <1>1, <1>2 DEF NoReplay

LEMMA StrikeFacts ==
    ASSUME IntakeInv, NEW f \in Faults, Strike(f)
    PROVE  /\ left' \in [Faults -> Nat]
           /\ \A g \in Faults : left'[g] <= left[g] /\ left'[g] <= Budget[g]
           /\ left'[f] + 1 = left[f]
           /\ f # "crash" => left'["crash"] = left["crash"]
           /\ f \in {"save", "channel"} => ~Mild'
           /\ Mild' => Mild
<1>1. /\ left \in [Faults -> Nat] /\ Budget \in [Faults -> Nat] /\ MaxStalled \in Nat
      /\ \A g \in Faults : left[g] <= Budget[g]
  BY Types DEF IntakeInv, FaultsLeft
<1>2. /\ left' = [left EXCEPT ![f] = left[f] - 1] /\ left[f] > 0
  BY DEF Strike
<1>3. left' \in [Faults -> Nat] /\ left'[f] + 1 = left[f]
  BY <1>1, <1>2
<1>4. \A g \in Faults : g # f => left'[g] = left[g]
  BY <1>1, <1>2
<1>5. \A g \in Faults : left'[g] \in Nat /\ left[g] \in Nat /\ Budget[g] \in Nat
  BY <1>1, <1>3
<1>6. \A g \in Faults : left'[g] <= left[g] /\ left'[g] <= Budget[g]
  <2> TAKE g \in Faults
  <2>1. CASE g = f
    BY <2>1, <1>1, <1>3, <1>5
  <2>2. CASE g # f
    BY <2>2, <1>1, <1>4, <1>5
  <2> QED
    BY <2>1, <2>2
<1>7. "crash" \in Faults /\ "save" \in Faults /\ "channel" \in Faults
  BY DEF Faults
<1>8. f \in {"save", "channel"} => ~Mild'
  BY <1>1, <1>3, <1>5 DEF Mild
<1>9. Mild' => Mild
  BY <1>1, <1>3, <1>4, <1>5, <1>6, <1>7 DEF Mild
<1> QED
  BY <1>3, <1>4, <1>6, <1>7, <1>8, <1>9

\* The faults but for a crash, which has its own step.
LEMMA FaultsStep ==
    ASSUME IntakeInv,
           \/ left' = left
           \/ \E f \in Faults \ {"crash"} : Strike(f),
           \A j \in Jobs : saveJob'[j].stalls \in {0, saveJob[j].stalls}
    PROVE  FaultsLeft' /\ (Mild' => Mild) /\ left' \in [Faults -> Nat]
<1>1. /\ left' \in [Faults -> Nat]
      /\ \A g \in Faults : left'[g] <= Budget[g]
      /\ left'["crash"] = left["crash"]
      /\ Mild' => Mild
  <2>1. CASE left' = left
    BY <2>1, Types DEF Mild, IntakeInv, FaultsLeft
  <2>2. CASE \E f \in Faults \ {"crash"} : Strike(f)
    BY <2>2, StrikeFacts
  <2> QED
    BY <2>1, <2>2
<1>2. left["crash"] \in Nat /\ Budget["crash"] \in Nat /\ left["crash"] <= Budget["crash"]
  <2>1. "crash" \in Faults
    BY DEF Faults
  <2> QED
    BY <2>1, Types DEF IntakeInv, FaultsLeft
<1>3. \A j \in Jobs : saveJob[j].stalls + left["crash"] <= Budget["crash"]
  BY DEF IntakeInv, FaultsLeft
<1>4. \A j \in Jobs : saveJob'[j].stalls + left'["crash"] <= Budget["crash"]
  BY <1>1, <1>2, <1>3
<1> QED
  BY <1>1, <1>4 DEF FaultsLeft
-----------------------------------------------------------------------------
(* The steps that leave rows and jobs alone *)

LEMMA AsideStep ==
    ASSUME IntakeInv, UNCHANGED <<convs, rows, saveJob, published>>,
           TypeOK',
           \A r \in Runners : run'[r].at = "enqueue" => Theirs(run'[r].conv, WamidOf(r)'),
           Replaying',
           left' = left \/ \E f \in Faults \ {"crash"} : Strike(f),
           Mild /\ Mild' =>
              /\ \A w \in Wamids : intake'[w] = "replayed" =>
                    intake[w] = "replayed" \/ Saved(w) \/ UnderWay(w)
              /\ run'[Replayer].at = "mark" => Saved(Event') \/ UnderWay(Event')
    PROVE  IntakeInv'
<1>1. FaultsLeft' /\ (Mild' => Mild)
  BY FaultsStep
<1>2. InTheirThread'
  BY DEF IntakeInv, InTheirThread, Theirs
<1>3. RowsBehindJobs'
  BY DEF IntakeInv, RowsBehindJobs
<1>4. OneToPublish'
  BY DEF IntakeInv, OneToPublish, ToPublish, OneThread, ConvsOf, Saved
<1>5. ConsumedIsKept'
  BY <1>1 DEF IntakeInv, ConsumedIsKept, Saved, UnderWay
<1> QED
  BY <1>1, <1>2, <1>3, <1>4, <1>5 DEF IntakeInv

\* What stays when the replay's page and the rows of the intake do.
LEMMA SamePage ==
    ASSUME IntakeInv, replay' = replay, stored' = stored
    PROVE  /\ Event' = Event
           /\ \A r \in Runners : WamidOf(r)' = WamidOf(r)
BY DEF Event, First, WamidOf

LEMMA HookStep ==
    ASSUME IntakeInv, UNCHANGED <<durable, saveJob, up, run, replay, published>>,
           hook' \in [Hooks -> [busy : BOOLEAN, todo : Seq(Wamids), fresh : SUBSET Wamids]],
           left' = left \/ \E f \in Faults \ {"crash"} : Strike(f)
    PROVE  IntakeInv'
<1>1. UNCHANGED <<intake, stored, convs, rows, saveJob, up, run, replay, published>>
  BY DEF durable
<1>2. left' \in [Faults -> Nat]
  BY <1>1, FaultsStep
<1>3. TypeOK'
  BY <1>1, <1>2 DEF IntakeInv, TypeOK
<1>4. \A r \in Runners : run'[r].at = "enqueue" => Theirs(run'[r].conv, WamidOf(r)')
  BY <1>1, SamePage DEF IntakeInv, InTheirThread
<1>5. Replaying'
  BY <1>1 DEF IntakeInv, Replaying
<1>6. Mild /\ run'[Replayer].at = "mark" => Saved(Event') \/ UnderWay(Event')
  BY <1>1, SamePage DEF IntakeInv, ConsumedIsKept
<1> QED
  BY <1>1, <1>3, <1>4, <1>5, <1>6, AsideStep

LEMMA NoHookType == NoHook \in [busy : BOOLEAN, todo : Seq(Wamids), fresh : SUBSET Wamids]
BY DEF NoHook

LEMMA HookType ==
    ASSUME IntakeInv
    PROVE  hook \in [Hooks -> [busy : BOOLEAN, todo : Seq(Wamids), fresh : SUBSET Wamids]]
BY DEF IntakeInv, TypeOK

LEMMA PostStep ==
    ASSUME IntakeInv, NEW h \in Hooks, NEW body \in Bodies, Post(h, body)
    PROVE  IntakeInv'
<1>1. body \in Seq(Wamids)
  BY IntakeAssumption
<1>2. hook' \in [Hooks -> [busy : BOOLEAN, todo : Seq(Wamids), fresh : SUBSET Wamids]]
  BY <1>1, HookType DEF Post
<1> QED
  BY <1>2, HookStep DEF Post

LEMMA PersistFailsStep ==
    ASSUME IntakeInv, NEW h \in Hooks, PersistFails(h)
    PROVE  IntakeInv'
<1>1. "db" \in Faults \ {"crash"}
  BY DEF Faults
<1>2. hook' \in [Hooks -> [busy : BOOLEAN, todo : Seq(Wamids), fresh : SUBSET Wamids]]
  BY HookType, NoHookType DEF PersistFails
<1> QED
  BY <1>1, <1>2, HookStep DEF PersistFails

LEMMA PersistStep ==
    ASSUME IntakeInv, NEW h \in Hooks, Persist(h)
    PROVE  IntakeInv'
<1> DEFINE w == Head(hook[h].todo)
<1>1. PICK x : x = w
  OBVIOUS
<1>2. x \in Wamids
  BY <1>1, HookType DEF Persist
<1>3. PICK fresh : fresh = hook[h].fresh \cup (IF intake[x] = "none" THEN {x} ELSE {})
  OBVIOUS
<1>4. PICK k : k = [hook[h] EXCEPT !.todo = Tail(hook[h].todo), !.fresh = fresh]
  OBVIOUS
<1>5. hook' = [hook EXCEPT ![h] = k]
  BY <1>1, <1>3, <1>4, Zenon DEF Persist
<1>6. hook[h].todo \in Seq(Wamids) /\ hook[h].todo # <<>> /\ fresh \in SUBSET Wamids
  BY <1>2, <1>3, HookType DEF Persist
<1>7. k \in [busy : BOOLEAN, todo : Seq(Wamids), fresh : SUBSET Wamids]
  <2>1. Tail(hook[h].todo) \in Seq(Wamids)
    BY <1>6
  <2> QED
    BY <1>4, <1>6, <2>1, HookType
<1>8. /\ intake' = [intake EXCEPT ![x] = IF intake[x] = "none" THEN "pending" ELSE intake[x]]
      /\ stored' = IF intake[x] = "none" THEN Append(stored, x) ELSE stored
      /\ UNCHANGED <<convs, rows, saveJob, up, run, replay, published, left>>
  BY <1>1 DEF Persist
<1>9. /\ intake' \in [Wamids -> {"none", "pending", "replayed"}]
      /\ \A v \in Wamids : intake'[v] = "replayed" => intake[v] = "replayed"
  BY <1>2, <1>8, Types
<1>10. /\ stored' \in Seq(Wamids) /\ Len(stored') \in Nat
       /\ 1..Len(stored) \subseteq 1..Len(stored')
       /\ \A i \in 1..Len(stored) : stored'[i] = stored[i]
  BY <1>2, <1>8, Types
<1>11. TypeOK'
  <2>1. hook' \in [Hooks -> [busy : BOOLEAN, todo : Seq(Wamids), fresh : SUBSET Wamids]]
    BY <1>5, <1>7, HookType
  <2>2. replay' \in [at : {"off", "list", "page"}, page : SUBSET (1..Len(stored')),
                     size : 0..Limit, consumed : 0..Limit]
    BY <1>8, <1>10, Types
  <2> QED
    BY <1>8, <1>9, <1>10, <2>1, <2>2 DEF IntakeInv, TypeOK
<1>12. run[Replayer].at # "idle" => Event' = Event
  <2>1. First' = First
    BY <1>8 DEF First
  <2> QED
    BY <1>10, <2>1, FirstIsOnThePage DEF IntakeInv, Replaying, Event
<1>13. \A r \in Runners : run'[r].at = "enqueue" => Theirs(run'[r].conv, WamidOf(r)')
  BY <1>8, <1>12 DEF IntakeInv, InTheirThread, WamidOf
<1>14. Replaying'
  BY <1>8 DEF IntakeInv, Replaying
<1>15. Mild /\ run'[Replayer].at = "mark" => Saved(Event') \/ UnderWay(Event')
  BY <1>8, <1>12 DEF IntakeInv, ConsumedIsKept
<1> QED
  BY <1>8, <1>9, <1>11, <1>13, <1>14, <1>15, AsideStep

LEMMA NoRunType ==
    ASSUME IntakeInv
    PROVE  /\ NoRun.at = "idle"
           /\ \A at \in {"idle", "lookup", "create", "mark"} :
                 /\ [NoRun EXCEPT !.at = at] \in
                       [at : {"idle", "lookup", "create", "enqueue", "mark"}, conv : 0..Len(convs)]
                 /\ [NoRun EXCEPT !.at = at].at = at
           /\ NoRun \in [at : {"idle", "lookup", "create", "enqueue", "mark"},
                         conv : 0..Len(convs)]
<1>1. 0 \in 0..Len(convs)
  BY Types
<1> QED
  BY <1>1 DEF NoRun

LEMMA ReturnedRun ==
    ASSUME IntakeInv, NEW r \in Runners
    PROVE  /\ Returned(r) \in [at : {"idle", "lookup", "create", "enqueue", "mark"},
                               conv : 0..Len(convs)]
           /\ r # Replayer => Returned(r).at = "idle"
           /\ Returned(r).at # "enqueue"
<1>1. CASE r = Replayer
  <2>1. "mark" \in {"idle", "lookup", "create", "mark"}
    OBVIOUS
  <2> QED
    BY <1>1, <2>1, NoRunType DEF Returned
<1>2. CASE r # Replayer
  BY <1>2, NoRunType DEF Returned
<1> QED
  BY <1>1, <1>2

\* One command moves on, or all of them stop; the page stays.
LEMMA CommandStep ==
    ASSUME IntakeInv, UNCHANGED <<durable, saveJob, up, replay, published>>,
           run' \in [Runners -> [at : {"idle", "lookup", "create", "enqueue", "mark"},
                                 conv : 0..Len(convs)]],
           \A r \in Runners :
              run'[r].at = "enqueue" => Theirs(run'[r].conv, WamidOf(r)),
           run'[Replayer].at # "idle" => replay.at = "page" /\ replay.page # {},
           hook' \in [Hooks -> [busy : BOOLEAN, todo : Seq(Wamids), fresh : SUBSET Wamids]],
           left' = left \/ \E f \in Faults \ {"crash"} : Strike(f),
           Mild' /\ run'[Replayer].at = "mark" => run[Replayer].at = "mark"
    PROVE  IntakeInv'
<1>1. UNCHANGED <<intake, stored, convs, rows, saveJob, up, replay, published>>
  BY DEF durable
<1>2. left' \in [Faults -> Nat]
  BY <1>1, FaultsStep
<1>3. TypeOK'
  BY <1>1, <1>2 DEF IntakeInv, TypeOK
<1>4. \A r \in Runners : run'[r].at = "enqueue" => Theirs(run'[r].conv, WamidOf(r)')
  BY <1>1, SamePage
<1>5. Replaying'
  BY <1>1 DEF IntakeInv, Replaying
<1>6. Mild /\ Mild' /\ run'[Replayer].at = "mark" => Saved(Event') \/ UnderWay(Event')
  BY <1>1, SamePage DEF IntakeInv, ConsumedIsKept
<1> QED
  BY <1>1, <1>3, <1>4, <1>5, <1>6, AsideStep

LEMMA AnswerStep ==
    ASSUME IntakeInv, NEW h \in Hooks, Answer(h)
    PROVE  IntakeInv'
<1>1. PICK start : start = [NoRun EXCEPT !.at = "lookup"]
  OBVIOUS
<1>2. run' = [r \in Runners |-> IF r \in hook[h].fresh THEN start ELSE run[r]]
  BY <1>1 DEF Answer
<1>3. /\ start \in [at : {"idle", "lookup", "create", "enqueue", "mark"}, conv : 0..Len(convs)]
      /\ start.at = "lookup"
  BY <1>1, NoRunType
<1>4. run' \in [Runners -> [at : {"idle", "lookup", "create", "enqueue", "mark"},
                            conv : 0..Len(convs)]]
  BY <1>2, <1>3, Types
<1>5. run'[Replayer] = run[Replayer]
  BY <1>2, HookType, RunnersHaveIt
<1>6. \A r \in Runners : run'[r].at = "enqueue" => run'[r] = run[r]
  BY <1>2, <1>3
<1>7. hook' \in [Hooks -> [busy : BOOLEAN, todo : Seq(Wamids), fresh : SUBSET Wamids]]
  BY HookType, NoHookType DEF Answer
<1> QED
  BY <1>4, <1>5, <1>6, <1>7, CommandStep DEF Answer, IntakeInv, InTheirThread, Replaying

\* One command moves on to a stage that is none of the last two.
LEMMA OneCommandStep ==
    ASSUME IntakeInv, NEW r \in Runners, run[r].at # "idle",
           NEW x \in [at : {"idle", "lookup", "create", "enqueue", "mark"},
                      conv : 0..Len(convs)],
           run' = [run EXCEPT ![r] = x],
           UNCHANGED <<durable, saveJob, up, hook, replay, published>>,
           x.at = "enqueue" => Theirs(x.conv, WamidOf(r)),
           r = Replayer /\ x.at = "mark" => ~Mild',
           left' = left \/ \E f \in Faults \ {"crash"} : Strike(f)
    PROVE  IntakeInv'
<1>1. /\ run' \in [Runners -> [at : {"idle", "lookup", "create", "enqueue", "mark"},
                               conv : 0..Len(convs)]]
      /\ \A q \in Runners : run'[q] = IF q = r THEN x ELSE run[q]
  BY Types
<1>2. \A q \in Runners : run'[q].at = "enqueue" => Theirs(run'[q].conv, WamidOf(q))
  BY <1>1 DEF IntakeInv, InTheirThread
<1>3. run'[Replayer].at # "idle" => run[Replayer].at # "idle"
  BY <1>1, RunnersHaveIt
<1>4. Mild' /\ run'[Replayer].at = "mark" => run[Replayer].at = "mark"
  BY <1>1, RunnersHaveIt
<1>5. hook' \in [Hooks -> [busy : BOOLEAN, todo : Seq(Wamids), fresh : SUBSET Wamids]]
  BY HookType
<1> QED
  BY <1>1, <1>2, <1>3, <1>4, <1>5, CommandStep DEF IntakeInv, Replaying

LEMMA NoChannelStep ==
    ASSUME IntakeInv, NEW r \in Runners, NoChannel(r)
    PROVE  IntakeInv'
<1>1. "channel" \in Faults \ {"crash"} /\ Strike("channel")
  BY DEF Faults, NoChannel
<1>2. ~Mild'
  BY <1>1, StrikeFacts
<1>3. PICK x : x = Returned(r)
  OBVIOUS
<1> QED
  BY <1>1, <1>2, <1>3, ReturnedRun, OneCommandStep DEF NoChannel

LEMMA FindConversationStep ==
    ASSUME IntakeInv, NEW r \in Runners, FindConversation(r)
    PROVE  IntakeInv'
<1> DEFINE own == ConvsOf(SenderOf[WamidOf(r)])
<1>1. CASE own = {}
  <2>1. PICK x : x = [NoRun EXCEPT !.at = "create"]
    OBVIOUS
  <2>2. x \in [at : {"idle", "lookup", "create", "enqueue", "mark"}, conv : 0..Len(convs)]
        /\ x.at = "create"
    BY <2>1, NoRunType
  <2>3. run' = [run EXCEPT ![r] = x]
    BY <1>1, <2>1 DEF FindConversation
  <2> QED
    BY <2>2, <2>3, OneCommandStep DEF FindConversation
<1>2. CASE own # {}
  <2>1. PICK c : c = CHOOSE e \in own : \A d \in own : d <= e
    OBVIOUS
  <2>2. own \in SUBSET (1..Len(convs)) /\ Len(convs) \in Nat
    BY Types DEF ConvsOf
  <2>3. \A d \in own : d \in Nat /\ d <= Len(convs)
    BY <2>2
  <2>4. c \in own
    <3> HIDE DEF own
    <3>1. \E d \in own : \A e \in own : e <= d
      BY <1>2, <2>2, <2>3, GreatestOf
    <3> QED
      BY <2>1, <3>1
  <2>5. Theirs(c, WamidOf(r))
    BY <2>4 DEF ConvsOf, Theirs
  <2>6. PICK x : x = [at |-> "enqueue", conv |-> c]
    OBVIOUS
  <2>7. x \in [at : {"idle", "lookup", "create", "enqueue", "mark"}, conv : 0..Len(convs)]
        /\ x.at = "enqueue" /\ x.conv = c
    BY <2>2, <2>5, <2>6 DEF Theirs
  <2>8. run' = [run EXCEPT ![r] = x]
    BY <1>2, <2>1, <2>6, Zenon DEF FindConversation
  <2> QED
    BY <2>5, <2>7, <2>8, OneCommandStep DEF FindConversation
<1> QED
  BY <1>1, <1>2

LEMMA ReplayerStops ==
    ASSUME IntakeInv,
           \/ run' = [run EXCEPT ![Replayer] = NoRun]
           \/ run' = run /\ run[Replayer].at = "idle"
    PROVE  /\ run' \in [Runners -> [at : {"idle", "lookup", "create", "enqueue", "mark"},
                                    conv : 0..Len(convs)]]
           /\ run'[Replayer].at = "idle" /\ \A w \in Wamids : run'[w] = run[w]
<1>1. CASE run' = [run EXCEPT ![Replayer] = NoRun]
  BY <1>1, NoRunType, RunnersHaveIt, Types
<1>2. CASE run' = run /\ run[Replayer].at = "idle"
  BY <1>2, Types
<1> QED
  BY <1>1, <1>2

LEMMA UpInReplay ==
    ASSUME IntakeInv, replay.at # "off"
    PROVE  up = TRUE
BY DEF IntakeInv, Replaying, TypeOK

\* The replay's page changes, and no command of its is under way afterwards.
LEMMA PageStep ==
    ASSUME IntakeInv, UNCHANGED <<stored, convs, rows, saveJob, hook, published>>,
           intake' \in [Wamids -> {"none", "pending", "replayed"}],
           up' = TRUE,
           run' \in [Runners -> [at : {"idle", "lookup", "create", "enqueue", "mark"},
                                 conv : 0..Len(convs)]],
           run'[Replayer].at = "idle", \A w \in Wamids : run'[w] = run[w],
           replay' \in [at : {"off", "list", "page"}, page : SUBSET (1..Len(stored)),
                        size : 0..Limit, consumed : 0..Limit],
           replay'.consumed + Cardinality(replay'.page) <= replay'.size,
           left' = left \/ \E f \in Faults \ {"crash"} : Strike(f),
           Mild => \A w \in Wamids : intake'[w] = "replayed" =>
                      intake[w] = "replayed" \/ Saved(w) \/ UnderWay(w)
    PROVE  IntakeInv'
<1>2. left' \in [Faults -> Nat]
  BY FaultsStep
<1>3. TypeOK'
  BY <1>2 DEF IntakeInv, TypeOK
<1>4. \A r \in Runners : run'[r].at = "enqueue" => Theirs(run'[r].conv, WamidOf(r)')
  <2> SUFFICES ASSUME NEW r \in Runners, run'[r].at = "enqueue"
               PROVE  Theirs(run'[r].conv, WamidOf(r)')
    OBVIOUS
  <2>1. r \in Wamids /\ r # Replayer
    BY RunnersHaveIt DEF Runners
  <2> QED
    BY <2>1, RunnersHaveIt DEF IntakeInv, InTheirThread, WamidOf
<1>5. Replaying'
  BY DEF Replaying
<1> QED
  BY <1>3, <1>4, <1>5, AsideStep

LEMMA RunFailsStep ==
    ASSUME IntakeInv, NEW r \in Runners, RunFails(r)
    PROVE  IntakeInv'
<1>1. "db" \in Faults \ {"crash"} /\ Strike("db") /\ run[r].at # "idle"
  BY DEF Faults, RunFails
<1>2. UNCHANGED <<durable, saveJob, up, hook, published>> /\ run' = [run EXCEPT ![r] = NoRun]
  BY DEF RunFails
<1>3. CASE r = Replayer
  <2>1. replay' = Rest
    BY <1>3 DEF RunFails
  <2>2. replay.page # {}
    BY <1>1, <1>3 DEF IntakeInv, Replaying
  <2>3. /\ replay' \in [at : {"off", "list", "page"}, page : SUBSET (1..Len(stored)),
                        size : 0..Limit, consumed : 0..Limit]
        /\ replay'.consumed + Cardinality(replay'.page) <= replay'.size
    <3>1. Rest.consumed \in Nat /\ Rest.size \in Nat /\ Cardinality(Rest.page) \in Nat
      <4>1. IsFiniteSet(Rest.page)
        BY <2>2, RestOfThePage, Types, FS_Interval, FS_Subset, 1 \in Int, Len(stored) \in Int
      <4> QED
        BY <2>2, <4>1, RestOfThePage, FS_CardinalityType
    <3> QED
      BY <2>1, <2>2, <3>1, RestOfThePage
  <2>4. intake' \in [Wamids -> {"none", "pending", "replayed"}] /\ up' = TRUE
    <3>1. replay.at = "page"
      BY <1>1, <1>3 DEF IntakeInv, Replaying
    <3> QED
      BY <1>2, <3>1, UpInReplay DEF durable, IntakeInv, TypeOK
  <2>5. UNCHANGED <<stored, convs, rows, saveJob, hook, published>> /\ intake' = intake
    BY <1>2 DEF durable
  <2>6. left' = left \/ \E f \in Faults \ {"crash"} : Strike(f)
    BY <1>1
  <2>7. /\ run' \in [Runners -> [at : {"idle", "lookup", "create", "enqueue", "mark"},
                                 conv : 0..Len(convs)]]
        /\ run'[Replayer].at = "idle" /\ \A w \in Wamids : run'[w] = run[w]
    BY <1>2, <1>3, NoRunType, RunnersHaveIt, Types
  <2>8. Mild => \A w \in Wamids : intake'[w] = "replayed" =>
                   intake[w] = "replayed" \/ Saved(w) \/ UnderWay(w)
    BY <2>5
  <2>9. UNCHANGED <<stored, convs, rows, saveJob, hook, published>>
    BY <2>5
  <2> QED
    BY <2>3, <2>4, <2>5, <2>6, <2>7, <2>8, <2>9, PageStep, Zenon
<1>4. CASE r # Replayer
  <2>1. replay' = replay
    BY <1>4 DEF RunFails
  <2> QED
    BY <1>1, <1>2, <2>1, NoRunType, OneCommandStep
<1> QED
  BY <1>3, <1>4

LEMMA ListPendingStep ==
    ASSUME IntakeInv, ListPending
    PROVE  IntakeInv'
<1>1. PICK page : page = Oldest(Limit, PendingEvents)
  OBVIOUS
<1>2. PendingEvents \in SUBSET (1..Len(stored)) /\ Len(stored) \in Nat /\ Limit \in Nat
  BY Types DEF PendingEvents
<1>3. page \in SUBSET (1..Len(stored)) /\ Cardinality(page) \in 0..Limit
  BY <1>1, <1>2, PageSize
<1>4. replay' = IF page = {} THEN NoReplay
                ELSE [at |-> "page", page |-> page, size |-> Cardinality(page), consumed |-> 0]
  BY <1>1 DEF ListPending
<1>5. /\ replay' \in [at : {"off", "list", "page"}, page : SUBSET (1..Len(stored)),
                      size : 0..Limit, consumed : 0..Limit]
      /\ replay'.consumed + Cardinality(replay'.page) <= replay'.size
  <2>1. CASE page = {}
    BY <1>4, <2>1, NoReplayType
  <2>2. CASE page # {}
    <3>1. PICK x : x = [at |-> "page", page |-> page, size |-> Cardinality(page), consumed |-> 0]
      OBVIOUS
    <3>2. x \in [at : {"off", "list", "page"}, page : SUBSET (1..Len(stored)),
                  size : 0..Limit, consumed : 0..Limit]
          /\ x.page = page /\ x.size = Cardinality(page) /\ x.consumed = 0
      BY <1>2, <1>3, <3>1
    <3>3. replay' = x
      BY <1>4, <2>2, <3>1
    <3> QED
      BY <1>3, <3>2, <3>3
  <2> QED
    BY <2>1, <2>2
<1>6. run[Replayer].at = "idle"
  BY DEF ListPending, IntakeInv, Replaying
<1> QED
  BY <1>5, <1>6, UpInReplay, ReplayerStops, PageStep, Types DEF ListPending, durable, IntakeInv, TypeOK

LEMMA ReplayStarts ==
    ASSUME IntakeInv, Replay
    PROVE  IntakeInv'
<1>1. PICK x : x = [NoRun EXCEPT !.at = "lookup"]
  OBVIOUS
<1>2. /\ x \in [at : {"idle", "lookup", "create", "enqueue", "mark"}, conv : 0..Len(convs)]
      /\ x.at = "lookup"
  BY <1>1, NoRunType
<1>3. run' = [run EXCEPT ![Replayer] = x]
  BY <1>1 DEF Replay
<1>4. /\ run' \in [Runners -> [at : {"idle", "lookup", "create", "enqueue", "mark"},
                               conv : 0..Len(convs)]]
      /\ \A q \in Runners : run'[q] = IF q = Replayer THEN x ELSE run[q]
  BY <1>2, <1>3, Types
<1>5. \A r \in Runners : run'[r].at = "enqueue" => Theirs(run'[r].conv, WamidOf(r))
  BY <1>2, <1>4 DEF IntakeInv, InTheirThread
<1>6. run'[Replayer].at = "lookup"
  BY <1>2, <1>4, RunnersHaveIt
<1>7. hook' \in [Hooks -> [busy : BOOLEAN, todo : Seq(Wamids), fresh : SUBSET Wamids]]
  BY HookType DEF Replay
<1> QED
  BY <1>4, <1>5, <1>6, <1>7, CommandStep DEF Replay, OnPage

LEMMA ConsumeFacts ==
    ASSUME IntakeInv, NEW w \in Wamids, Consume(w)
    PROVE  /\ intake' \in [Wamids -> {"none", "pending", "replayed"}]
           /\ \A v \in Wamids : intake'[v] = "replayed" => intake[v] = "replayed" \/ v = w
BY Types DEF Consume

LEMMA ConsumedPage ==
    ASSUME IntakeInv, replay.page # {}
    PROVE  /\ Consumed \in [at : {"off", "list", "page"}, page : SUBSET (1..Len(stored)),
                            size : 0..Limit, consumed : 0..Limit]
           /\ Consumed.consumed + Cardinality(Consumed.page) <= Consumed.size
<1>1. PICK x : x = Rest
  OBVIOUS
<1>2. /\ x \in [at : {"off", "list", "page"}, page : SUBSET (1..Len(stored)),
                size : 0..Limit, consumed : 0..Limit]
      /\ x.consumed = replay.consumed
      /\ x.consumed + Cardinality(x.page) + 1 <= x.size
  BY <1>1, RestOfThePage
<1>3. Consumed = [x EXCEPT !.consumed = replay.consumed + 1]
  BY <1>1 DEF Consumed
<1>4. Cardinality(x.page) \in Nat /\ x.consumed \in Nat /\ x.size \in 0..Limit /\ Limit \in Nat
  <2>1. IsFiniteSet(x.page)
    BY <1>2, Types, FS_Interval, FS_Subset, 1 \in Int, Len(stored) \in Int
  <2> QED
    BY <1>2, <2>1, FS_CardinalityType, Types
<1>5. x.consumed + 1 \in 0..Limit
  BY <1>2, <1>4
<1>6. PICK y : y = [x EXCEPT !.consumed = replay.consumed + 1]
  OBVIOUS
<1>7. y.at = x.at /\ y.page = x.page /\ y.size = x.size /\ y.consumed = x.consumed + 1
      /\ y \in [at : {"off", "list", "page"}, page : SUBSET (1..Len(stored)),
                size : 0..Limit, consumed : 0..Limit]
  BY <1>2, <1>5, <1>6
<1>8. y.consumed + Cardinality(y.page) <= y.size
  BY <1>2, <1>4, <1>7
<1> QED
  BY <1>3, <1>6, <1>7, <1>8

LEMMA ConsumeReplayedStep ==
    ASSUME IntakeInv, ConsumeReplayed
    PROVE  IntakeInv'
<1>1. replay.page # {} /\ run[Replayer].at = "mark"
  BY DEF ConsumeReplayed, IntakeInv, Replaying
<1>2. Event \in Wamids
  BY <1>1, FirstIsOnThePage
<1>3. /\ intake' \in [Wamids -> {"none", "pending", "replayed"}]
      /\ \A v \in Wamids : intake'[v] = "replayed" => intake[v] = "replayed" \/ v = Event
  BY <1>2, ConsumeFacts DEF ConsumeReplayed
<1>4. Mild => Saved(Event) \/ UnderWay(Event)
  BY <1>1 DEF IntakeInv, ConsumedIsKept
<1>5. /\ UNCHANGED <<stored, convs, rows, saveJob, hook, published, left>>
      /\ replay' = Consumed /\ run' = [run EXCEPT ![Replayer] = NoRun]
      /\ up' = TRUE
  BY UpInReplay DEF ConsumeReplayed, IntakeInv, Replaying
<1>6. Mild => \A w \in Wamids : intake'[w] = "replayed" =>
                 intake[w] = "replayed" \/ Saved(w) \/ UnderWay(w)
  BY <1>3, <1>4
<1>7. /\ replay' \in [at : {"off", "list", "page"}, page : SUBSET (1..Len(stored)),
                      size : 0..Limit, consumed : 0..Limit]
      /\ replay'.consumed + Cardinality(replay'.page) <= replay'.size
  BY <1>1, <1>5, ConsumedPage
<1>8. /\ run' \in [Runners -> [at : {"idle", "lookup", "create", "enqueue", "mark"},
                               conv : 0..Len(convs)]]
      /\ run'[Replayer].at = "idle" /\ \A w \in Wamids : run'[w] = run[w]
  BY <1>5, NoRunType, RunnersHaveIt, Types
<1>9. UNCHANGED <<stored, convs, rows, saveJob, hook, published>>
  BY <1>5
<1>10. left' = left \/ \E f \in Faults \ {"crash"} : Strike(f)
  BY <1>5
<1> QED
  BY <1>3, <1>5, <1>6, <1>7, <1>8, <1>9, <1>10, PageStep, Zenon

LEMMA ConsumeExistingStep ==
    ASSUME IntakeInv, ConsumeExisting
    PROVE  IntakeInv'
<1>1. replay.page # {} /\ run[Replayer].at = "idle" /\ Saved(Event)
  BY DEF ConsumeExisting, OnPage
<1>2. Event \in Wamids
  BY <1>1, FirstIsOnThePage
<1>3. /\ intake' \in [Wamids -> {"none", "pending", "replayed"}]
      /\ \A v \in Wamids : intake'[v] = "replayed" => intake[v] = "replayed" \/ v = Event
  BY <1>2, ConsumeFacts DEF ConsumeExisting
<1> QED
  BY <1>1, <1>3, UpInReplay, ConsumedPage, ReplayerStops, PageStep
  DEF ConsumeExisting, OnPage, IntakeInv, TypeOK

LEMMA EndPageStep ==
    ASSUME IntakeInv, EndPage
    PROVE  IntakeInv'
<1>1. PICK again : again = [NoReplay EXCEPT !.at = "list"]
  OBVIOUS
<1>2. replay' \in {NoReplay, again}
  BY <1>1 DEF EndPage
<1>3. /\ again \in [at : {"off", "list", "page"}, page : SUBSET (1..Len(stored)),
                    size : 0..Limit, consumed : 0..Limit]
      /\ again.consumed + Cardinality(again.page) <= again.size
  BY <1>1, NoReplayType DEF NoReplay
<1> QED
  BY <1>2, <1>3, UpInReplay, NoReplayType, ReplayerStops, PageStep, Types
  DEF EndPage, OnPage, durable, IntakeInv, TypeOK

LEMMA BootStep ==
    ASSUME IntakeInv, Boot
    PROVE  IntakeInv'
<1>1. PICK again : again = [NoReplay EXCEPT !.at = "list"]
  OBVIOUS
<1>2. replay' = again /\ up' = TRUE
  BY <1>1 DEF Boot
<1>3. /\ again \in [at : {"off", "list", "page"}, page : SUBSET (1..Len(stored)),
                    size : 0..Limit, consumed : 0..Limit]
      /\ again.consumed + Cardinality(again.page) <= again.size
  BY <1>1, NoReplayType DEF NoReplay
<1>4. run[Replayer].at = "idle"
  BY DEF Boot, IntakeInv, Replaying
<1> QED
  BY <1>2, <1>3, <1>4, ReplayerStops, PageStep, Types DEF Boot, durable
-----------------------------------------------------------------------------
(* Conversations, rows and jobs *)

JobType == [at : JobStates, conv : 0..Len(convs), wamid : Runners, stalls : 0..MaxStalled]

LEMMA RunnerWamid ==
    ASSUME IntakeInv, NEW r \in Runners, run[r].at # "idle"
    PROVE  WamidOf(r) \in Wamids
<1>1. CASE r = Replayer
  BY <1>1, FirstIsOnThePage DEF WamidOf, IntakeInv, Replaying
<1>2. CASE r # Replayer
  BY <1>2 DEF WamidOf, Runners
<1> QED
  BY <1>1, <1>2

\* Nothing new is to be published.
LEMMA QuietStep ==
    ASSUME IntakeInv, published' = published, rows \subseteq rows',
           \A w \in Wamids : OneThread(SenderOf[w])' => OneThread(SenderOf[w]),
           \A w \in Wamids, j \in Jobs : ToPublish(j, w)' => ToPublish(j, w)
    PROVE  OneToPublish'
<1> SUFFICES ASSUME NEW w \in Wamids, OneThread(SenderOf[w])'
             PROVE  /\ published'[w] <= 1
                    /\ published'[w] # 0 => Saved(w)'
                    /\ \A j \in Jobs : ToPublish(j, w)' =>
                          /\ published'[w] = 0
                          /\ \A i \in Jobs : ToPublish(i, w)' => i = j
  BY DEF OneToPublish
<1>1. /\ published[w] <= 1
      /\ published[w] # 0 => Saved(w)
      /\ \A j \in Jobs : ToPublish(j, w) =>
            /\ published[w] = 0
            /\ \A i \in Jobs : ToPublish(i, w) => i = j
  BY DEF IntakeInv, OneToPublish
<1>2. Saved(w) => Saved(w)'
  BY DEF Saved
<1> QED
  BY <1>1, <1>2

LEMMA CreateConversationStep ==
    ASSUME IntakeInv, NEW r \in Runners, CreateConversation(r)
    PROVE  IntakeInv'
<1>1. PICK s : s = SenderOf[WamidOf(r)]
  OBVIOUS
<1>2. run[r].at = "create" /\ WamidOf(r) \in Wamids /\ s \in Senders
  BY <1>1, RunnerWamid, IntakeAssumption DEF CreateConversation
<1>3. PICK x : x = [at |-> "enqueue", conv |-> Len(convs) + 1]
  OBVIOUS
<1>4. /\ convs' = Append(convs, s) /\ run' = [run EXCEPT ![r] = x]
      /\ UNCHANGED <<intake, stored, rows, saveJob, up, hook, replay, published, left>>
  BY <1>1, <1>3 DEF CreateConversation
<1>5. /\ convs' \in Seq(Senders) /\ Len(convs') = Len(convs) + 1 /\ Len(convs) \in Nat
      /\ \A c \in 1..Len(convs) : convs'[c] = convs[c]
      /\ convs'[Len(convs) + 1] = s
  BY <1>2, <1>4, Types
<1>6. 1..Len(convs) \subseteq 1..Len(convs') /\ 0..Len(convs) \subseteq 0..Len(convs')
  BY <1>5
<1>7. x \in [at : {"idle", "lookup", "create", "enqueue", "mark"}, conv : 0..Len(convs')]
      /\ x.conv = Len(convs) + 1 /\ x.at = "enqueue"
  BY <1>3, <1>5
<1>8. /\ run' \in [Runners -> [at : {"idle", "lookup", "create", "enqueue", "mark"},
                               conv : 0..Len(convs')]]
      /\ \A q \in Runners : run'[q] = IF q = r THEN x ELSE run[q]
  <2>1. run \in [Runners -> [at : {"idle", "lookup", "create", "enqueue", "mark"},
                             conv : 0..Len(convs')]]
    BY <1>6, Types
  <2> QED
    BY <1>4, <1>7, <2>1
<1>9. saveJob' \in [Jobs -> [at : JobStates, conv : 0..Len(convs'), wamid : Runners,
                             stalls : 0..MaxStalled]]
  BY <1>4, <1>6, Types
<1>10. rows' \in SUBSET ((1..Len(convs')) \X Wamids)
  BY <1>4, <1>6 DEF IntakeInv, TypeOK
<1>11. TypeOK'
  BY <1>4, <1>5, <1>8, <1>9, <1>10 DEF IntakeInv, TypeOK
<1> DEFINE TheirsNow(c, w) == c \in 1..Len(convs') /\ convs'[c] = SenderOf[w]
<1>12. \A c, w : Theirs(c, w) => TheirsNow(c, w)
  BY <1>5, <1>6 DEF Theirs
<1>13. \A q \in Runners : WamidOf(q)' = WamidOf(q)
  BY <1>4, SamePage
<1>14. InTheirThread'
  <2>1. \A q \in rows' : TheirsNow(q[1], q[2])
    BY <1>4, <1>12 DEF IntakeInv, InTheirThread
  <2>2. \A j \in Jobs : saveJob'[j].at # "free" =>
           saveJob'[j].wamid \in Wamids /\ TheirsNow(saveJob'[j].conv, saveJob'[j].wamid)
    BY <1>4, <1>12 DEF IntakeInv, InTheirThread
  <2>3. TheirsNow(Len(convs) + 1, WamidOf(r))
    BY <1>1, <1>5
  <2>4. ASSUME NEW q \in Runners, run'[q].at = "enqueue"
        PROVE  TheirsNow(run'[q].conv, WamidOf(q)')
    <3>1. CASE q = r
      BY <1>7, <1>8, <1>13, <2>3, <3>1
    <3>2. CASE q # r
      BY <1>8, <1>12, <1>13, <2>4, <3>2 DEF IntakeInv, InTheirThread
    <3> QED
      BY <3>1, <3>2
  <2> QED
    BY <2>1, <2>2, <2>4 DEF InTheirThread, Theirs
<1>15. Replaying'
  <2>1. run'[Replayer].at # "idle" => run[Replayer].at # "idle"
    BY <1>2, <1>8, RunnersHaveIt
  <2> QED
    BY <1>4, <2>1 DEF IntakeInv, Replaying
<1>16. FaultsLeft' /\ RowsBehindJobs'
  BY <1>4 DEF IntakeInv, FaultsLeft, RowsBehindJobs
<1>17. ConsumedIsKept'
  <2>1. run'[Replayer].at = "mark" => run[Replayer].at = "mark"
    BY <1>7, <1>8, RunnersHaveIt
  <2>2. Event' = Event
    BY <1>4, SamePage
  <2> QED
    BY <1>4, <2>1, <2>2 DEF IntakeInv, ConsumedIsKept, Mild, Saved, UnderWay
<1>18. \A w \in Wamids : OneThread(SenderOf[w])' => OneThread(SenderOf[w])
  <2>1. \A t : ConvsOf(t) \subseteq ConvsOf(t)'
    BY <1>5, <1>6 DEF ConvsOf
  <2> QED
    BY <2>1 DEF OneThread
<1>19. OneToPublish'
  BY <1>4, <1>18, QuietStep DEF ToPublish
<1> QED
  BY <1>11, <1>14, <1>15, <1>16, <1>17, <1>19 DEF IntakeInv

\* A job of the queue moves on, or is gone.
LEMMA JobStep ==
    ASSUME IntakeInv, NEW j \in Jobs, NEW x \in JobType,
           saveJob' = [saveJob EXCEPT ![j] = x],
           UNCHANGED <<stored, convs, up, hook, run, replay>>,
           saveJob[j].at # "free",
           x.at # "free" => x.wamid = saveJob[j].wamid /\ x.conv = saveJob[j].conv,
           x.stalls \in {0, saveJob[j].stalls},
           rows \subseteq rows',
           \A r \in rows' : r \in rows \/ r = <<saveJob[j].conv, saveJob[j].wamid>>,
           x.at \in {"saved", "completed", "published"} =>
              <<saveJob[j].conv, saveJob[j].wamid>> \in rows',
           left' = left \/ \E f \in Faults \ {"crash"} : Strike(f),
           intake' \in [Wamids -> {"none", "pending", "replayed"}],
           \A w \in Wamids : intake'[w] = "replayed" => intake[w] = "replayed" \/ Saved(w),
           Mild' /\ saveJob[j].at \in {"waiting", "active"} =>
              \/ x.at \in {"waiting", "active"}
              \/ <<saveJob[j].conv, saveJob[j].wamid>> \in rows',
           published' \in [Wamids -> Nat],
           OneToPublish'
    PROVE  IntakeInv'
<1> DEFINE row == <<saveJob[j].conv, saveJob[j].wamid>>
<1>1. \A i \in Jobs : saveJob'[i] = IF i = j THEN x ELSE saveJob[i]
  BY Types
<1>2. Theirs(saveJob[j].conv, saveJob[j].wamid) /\ saveJob[j].wamid \in Wamids
  BY DEF IntakeInv, InTheirThread
<1>3. \A i \in Jobs : saveJob'[i].stalls \in {0, saveJob[i].stalls}
  BY <1>1
<1>4. FaultsLeft' /\ (Mild' => Mild) /\ left' \in [Faults -> Nat]
  BY <1>3, FaultsStep
<1>5. rows' \in SUBSET ((1..Len(convs)) \X Wamids)
  BY <1>2 DEF Theirs, IntakeInv, TypeOK
<1>6. saveJob' \in [Jobs -> [at : JobStates, conv : 0..Len(convs), wamid : Runners,
                             stalls : 0..MaxStalled]]
  BY Types DEF JobType
<1>7. TypeOK'
  BY <1>4, <1>5, <1>6 DEF IntakeInv, TypeOK
<1>8. InTheirThread'
  <2>2. \A r \in rows' : Theirs(r[1], r[2])
    BY <1>2 DEF IntakeInv, InTheirThread
  <2>3. \A i \in Jobs : saveJob'[i].at # "free" =>
           saveJob'[i].wamid \in Wamids /\ Theirs(saveJob'[i].conv, saveJob'[i].wamid)
    BY <1>1, <1>2 DEF IntakeInv, InTheirThread
  <2>4. \A r \in Runners : run'[r].at = "enqueue" => Theirs(run'[r].conv, WamidOf(r)')
    BY SamePage DEF IntakeInv, InTheirThread
  <2> QED
    BY <2>2, <2>3, <2>4 DEF InTheirThread, Theirs
<1>9. Replaying'
  BY DEF IntakeInv, Replaying
<1>10. RowsBehindJobs'
  <2> SUFFICES ASSUME NEW i \in Jobs, saveJob'[i].at \in {"saved", "completed", "published"}
               PROVE  <<saveJob'[i].conv, saveJob'[i].wamid>> \in rows'
    BY DEF RowsBehindJobs
  <2>1. CASE i = j
    BY <1>1, <2>1
  <2>2. CASE i # j
    BY <1>1, <2>2 DEF IntakeInv, RowsBehindJobs
  <2> QED
    BY <2>1, <2>2
<1>11. ConsumedIsKept'
  <2>1. \A w : Saved(w) => Saved(w)'
    BY DEF Saved
  <2>2. ASSUME Mild', NEW w, UnderWay(w) PROVE Saved(w)' \/ UnderWay(w)'
    <3>1. PICK i \in Jobs : saveJob[i].wamid = w /\ saveJob[i].at \in {"waiting", "active"}
      BY <2>2 DEF UnderWay
    <3>2. CASE i # j
      BY <1>1, <3>1, <3>2 DEF UnderWay
    <3>3. CASE i = j /\ x.at \in {"waiting", "active"}
      BY <1>1, <3>1, <3>3 DEF UnderWay
    <3>4. CASE row \in rows' /\ i = j
      BY <3>1, <3>4 DEF Saved
    <3> QED
      BY <2>2, <3>1, <3>2, <3>3, <3>4
  <2>3. Event' = Event
    BY SamePage
  <2> QED
    BY <1>4, <2>1, <2>2, <2>3 DEF IntakeInv, ConsumedIsKept
<1> QED
  BY <1>4, <1>7, <1>8, <1>9, <1>10, <1>11 DEF IntakeInv

LEMMA NoJobType ==
    ASSUME IntakeInv
    PROVE  NoJob \in JobType /\ NoJob.at = "free" /\ NoJob.stalls = 0
<1>1. 0 \in 0..Len(convs) /\ 0 \in 0..MaxStalled /\ Replayer \in Runners /\ "free" \in JobStates
  BY Types, RunnersHaveIt DEF JobStates
<1> QED
  BY <1>1 DEF NoJob, JobType

\* A job that goes from one stage to another.
LEMMA MovedJob ==
    ASSUME IntakeInv, NEW j \in Jobs, NEW at \in JobStates
    PROVE  LET x == [saveJob[j] EXCEPT !.at = at]
           IN  /\ x \in JobType /\ x.at = at /\ x.wamid = saveJob[j].wamid
               /\ x.conv = saveJob[j].conv /\ x.stalls = saveJob[j].stalls
BY Types DEF JobType

LEMMA RowsAndPublished ==
    ASSUME IntakeInv
    PROVE  /\ rows \in SUBSET ((1..Len(convs)) \X Wamids)
           /\ published \in [Wamids -> Nat]
BY DEF IntakeInv, TypeOK

\* The steps of a job that publish nothing, and save nothing.
LEMMA QuietJobStep ==
    ASSUME IntakeInv, NEW j \in Jobs, NEW x \in JobType,
           saveJob' = [saveJob EXCEPT ![j] = x],
           UNCHANGED <<stored, convs, rows, up, hook, run, replay, published>>,
           saveJob[j].at # "free",
           x.at # "free" => x.wamid = saveJob[j].wamid /\ x.conv = saveJob[j].conv,
           x.stalls \in {0, saveJob[j].stalls},
           x.at \in {"saved", "completed", "published"} =>
              saveJob[j].at \in {"saved", "completed", "published"},
           x.at \in {"saved", "completed"} => saveJob[j].at \in {"saved", "completed"},
           left' = left \/ \E f \in Faults \ {"crash"} : Strike(f),
           intake' \in [Wamids -> {"none", "pending", "replayed"}],
           \A w \in Wamids : intake'[w] = "replayed" => intake[w] = "replayed" \/ Saved(w),
           Mild' /\ saveJob[j].at \in {"waiting", "active"} =>
              \/ x.at \in {"waiting", "active"}
              \/ <<saveJob[j].conv, saveJob[j].wamid>> \in rows
    PROVE  IntakeInv'
<1>1. \A i \in Jobs : saveJob'[i] = IF i = j THEN x ELSE saveJob[i]
  BY Types
<1>2. \A w \in Wamids, i \in Jobs : ToPublish(i, w)' => ToPublish(i, w)
  BY <1>1 DEF ToPublish
<1>3. \A w \in Wamids : OneThread(SenderOf[w])' => OneThread(SenderOf[w])
  BY DEF OneThread, ConvsOf
<1>4. OneToPublish'
  BY <1>2, <1>3, QuietStep
<1>5. published' \in [Wamids -> Nat]
  BY RowsAndPublished
<1>6. x.at \in {"saved", "completed", "published"} =>
         <<saveJob[j].conv, saveJob[j].wamid>> \in rows
  BY DEF IntakeInv, RowsBehindJobs
<1> QED
  BY <1>4, <1>5, <1>6, JobStep

LEMMA PickUpSaveStep ==
    ASSUME IntakeInv, NEW j \in Jobs, PickUpSave(j)
    PROVE  IntakeInv'
<1>1. PICK x : x = [saveJob[j] EXCEPT !.at = "active"]
  OBVIOUS
<1>2. "active" \in JobStates
  BY DEF JobStates
<1>3. /\ x \in JobType /\ x.at = "active" /\ x.wamid = saveJob[j].wamid
      /\ x.conv = saveJob[j].conv /\ x.stalls = saveJob[j].stalls
  BY <1>1, <1>2, MovedJob
<1>4. /\ saveJob' = [saveJob EXCEPT ![j] = x] /\ saveJob[j].at = "waiting"
      /\ UNCHANGED <<intake, stored, convs, rows, up, hook, run, replay, published, left>>
  <2>1. saveJob' = [saveJob EXCEPT ![j].at = "active"]
    BY DEF PickUpSave
  <2> QED
    BY <1>1, <2>1, Types DEF PickUpSave, durable
<1> QED
  BY <1>3, <1>4, QuietJobStep, Types

LEMMA CompleteStep ==
    ASSUME IntakeInv, NEW j \in Jobs, Complete(j)
    PROVE  IntakeInv'
<1>1. PICK x : x = [saveJob[j] EXCEPT !.at = "completed"]
  OBVIOUS
<1>2. "completed" \in JobStates
  BY DEF JobStates
<1>3. /\ x \in JobType /\ x.at = "completed" /\ x.wamid = saveJob[j].wamid
      /\ x.conv = saveJob[j].conv /\ x.stalls = saveJob[j].stalls
  BY <1>1, <1>2, MovedJob
<1>4. /\ saveJob' = [saveJob EXCEPT ![j] = x] /\ saveJob[j].at = "saved"
      /\ UNCHANGED <<intake, stored, convs, rows, up, hook, run, replay, published, left>>
  <2>1. saveJob' = [saveJob EXCEPT ![j].at = "completed"]
    BY DEF Complete
  <2> QED
    BY <1>1, <2>1, Types DEF Complete, durable
<1> QED
  BY <1>3, <1>4, QuietJobStep, Types

LEMMA SaveThrowsStep ==
    ASSUME IntakeInv, NEW j \in Jobs, SaveThrows(j)
    PROVE  IntakeInv'
<1>1. "save" \in Faults \ {"crash"} /\ Strike("save")
  BY DEF Faults, SaveThrows
<1>2. ~Mild'
  BY <1>1, StrikeFacts
<1>3. PICK x : x = NoJob
  OBVIOUS
<1>4. /\ saveJob' = [saveJob EXCEPT ![j] = x] /\ saveJob[j].at = "active"
      /\ UNCHANGED <<intake, stored, convs, rows, up, hook, run, replay, published>>
  BY <1>3 DEF SaveThrows, durable
<1>5. x \in JobType /\ x.at = "free" /\ x.stalls = 0
  BY <1>3, NoJobType
<1> QED
  BY <1>1, <1>2, <1>4, <1>5, QuietJobStep, Types

LEMMA ConsumeFailsStep ==
    ASSUME IntakeInv, NEW j \in Jobs, ConsumeFails(j)
    PROVE  IntakeInv'
<1>1. "db" \in Faults \ {"crash"} /\ Strike("db")
  BY DEF Faults, ConsumeFails
<1>3. PICK x : x = NoJob
  OBVIOUS
<1>4. /\ saveJob' = [saveJob EXCEPT ![j] = x] /\ saveJob[j].at = "published"
      /\ UNCHANGED <<intake, stored, convs, rows, up, hook, run, replay, published>>
  BY <1>3 DEF ConsumeFails, durable
<1>5. x \in JobType /\ x.at = "free" /\ x.stalls = 0
  BY <1>3, NoJobType
<1> QED
  BY <1>1, <1>4, <1>5, QuietJobStep, Types

LEMMA ConsumeSavedStep ==
    ASSUME IntakeInv, NEW j \in Jobs, ConsumeSaved(j)
    PROVE  IntakeInv'
<1>1. PICK w : w = saveJob[j].wamid
  OBVIOUS
<1>3. PICK x : x = NoJob
  OBVIOUS
<1>4. /\ saveJob' = [saveJob EXCEPT ![j] = x] /\ saveJob[j].at = "published" /\ Consume(w)
      /\ UNCHANGED <<stored, convs, rows, up, hook, run, replay, published, left>>
  BY <1>1, <1>3 DEF ConsumeSaved
<1>5. x \in JobType /\ x.at = "free" /\ x.stalls = 0
  BY <1>3, NoJobType
<1>6. w \in Wamids
  BY <1>1, <1>4 DEF IntakeInv, InTheirThread
<1>7. Saved(w)
  BY <1>1, <1>4 DEF IntakeInv, RowsBehindJobs, Saved
<1>8. /\ intake' \in [Wamids -> {"none", "pending", "replayed"}]
      /\ \A v \in Wamids : intake'[v] = "replayed" => intake[v] = "replayed" \/ Saved(v)
  BY <1>4, <1>6, <1>7, ConsumeFacts
<1> QED
  BY <1>4, <1>5, <1>8, QuietJobStep

\* While a sender has one conversation, a message has no row but one.
LEMMA OneRow ==
    ASSUME IntakeInv, NEW w \in Wamids, OneThread(SenderOf[w]),
           NEW c, Theirs(c, w), NEW r \in rows, r[2] = w
    PROVE  r = <<c, w>>
<1>1. Theirs(r[1], w)
  BY DEF IntakeInv, InTheirThread
<1>2. r[1] = c
  BY <1>1 DEF Theirs, OneThread, ConvsOf
<1> QED
  BY <1>2, RowsAndPublished

LEMMA SaveStep ==
    ASSUME IntakeInv, NEW j \in Jobs, Save(j)
    PROVE  IntakeInv'
<1>1. PICK row : row = <<saveJob[j].conv, saveJob[j].wamid>>
  OBVIOUS
<1>2. /\ saveJob[j].at = "active" /\ rows' = rows \cup {row}
      /\ saveJob' = [saveJob EXCEPT ![j] = IF row \in rows THEN NoJob
                                           ELSE [saveJob[j] EXCEPT !.at = "saved"]]
      /\ UNCHANGED <<intake, stored, convs, up, hook, run, replay, published, left>>
  BY <1>1 DEF Save
<1>3. Theirs(saveJob[j].conv, saveJob[j].wamid) /\ saveJob[j].wamid \in Wamids
  BY <1>2 DEF IntakeInv, InTheirThread
<1>4. CASE row \in rows
  <2>1. PICK x : x = NoJob
    OBVIOUS
  <2>2. x \in JobType /\ x.at = "free" /\ x.stalls = 0
    BY <2>1, NoJobType
  <2>3. saveJob' = [saveJob EXCEPT ![j] = x]
    BY <1>2, <1>4, <2>1
  <2>4. rows' = rows
    BY <1>2, <1>4
  <2> QED
    BY <1>1, <1>2, <1>4, <2>2, <2>3, <2>4, QuietJobStep, Types
<1>5. CASE row \notin rows
  <2>1. PICK x : x = [saveJob[j] EXCEPT !.at = "saved"]
    OBVIOUS
  <2>2. /\ x \in JobType /\ x.at = "saved" /\ x.wamid = saveJob[j].wamid
        /\ x.conv = saveJob[j].conv /\ x.stalls = saveJob[j].stalls
    <3>1. "saved" \in JobStates
      BY DEF JobStates
    <3> QED
      BY <2>1, <3>1, MovedJob
  <2>3. saveJob' = [saveJob EXCEPT ![j] = x]
    BY <1>2, <1>5, <2>1
  <2>4. \A i \in Jobs : saveJob'[i] = IF i = j THEN x ELSE saveJob[i]
    BY <2>3, Types
  <2>5. OneToPublish'
    <3> SUFFICES ASSUME NEW w \in Wamids, OneThread(SenderOf[w])'
                 PROVE  /\ published'[w] <= 1
                        /\ published'[w] # 0 => Saved(w)'
                        /\ \A i \in Jobs : ToPublish(i, w)' =>
                              /\ published'[w] = 0
                              /\ \A k \in Jobs : ToPublish(k, w)' => k = i
      BY DEF OneToPublish
    <3>1. OneThread(SenderOf[w])
      BY <1>2 DEF OneThread, ConvsOf
    <3>2. /\ published[w] <= 1 /\ published'[w] = published[w]
          /\ published[w] # 0 => Saved(w)
          /\ \A i \in Jobs : ToPublish(i, w) =>
                /\ published[w] = 0
                /\ \A k \in Jobs : ToPublish(k, w) => k = i
      BY <1>2, <3>1 DEF IntakeInv, OneToPublish
    <3>3. Saved(w) => Saved(w)'
      BY <1>2 DEF Saved
    <3>4. CASE w = saveJob[j].wamid
      <4>1. ~Saved(w)
        BY <1>1, <1>3, <1>5, <3>1, <3>4, OneRow DEF Saved
      <4>2. \A i \in Jobs : ~ToPublish(i, w)
        BY <4>1 DEF ToPublish, Saved, IntakeInv, RowsBehindJobs
      <4>3. \A i \in Jobs : ToPublish(i, w)' => i = j
        BY <2>4, <4>2 DEF ToPublish
      <4> QED
        BY <3>2, <4>1, <4>3
    <3>5. CASE w # saveJob[j].wamid
      <4>1. \A i \in Jobs : ToPublish(i, w)' => ToPublish(i, w)
        BY <2>2, <2>4, <3>5 DEF ToPublish
      <4> QED
        BY <3>2, <3>3, <4>1
    <3> QED
      BY <3>4, <3>5
  <2>6. rows \subseteq rows' /\ \A r \in rows' : r \in rows \/ r = row
    BY <1>2
  <2>7. published' \in [Wamids -> Nat]
    BY <1>2, RowsAndPublished
  <2> QED
    BY <1>1, <1>2, <2>2, <2>3, <2>5, <2>6, <2>7, JobStep, Types
<1> QED
  BY <1>4, <1>5

LEMMA PublishStep ==
    ASSUME IntakeInv, NEW j \in Jobs, Publish(j)
    PROVE  IntakeInv'
<1>1. PICK x : x = [saveJob[j] EXCEPT !.at = "published"]
  OBVIOUS
<1>2. "published" \in JobStates
  BY DEF JobStates
<1>3. /\ x \in JobType /\ x.at = "published" /\ x.wamid = saveJob[j].wamid
      /\ x.conv = saveJob[j].conv /\ x.stalls = saveJob[j].stalls
  BY <1>1, <1>2, MovedJob
<1>4. PICK v : v = saveJob[j].wamid
  OBVIOUS
<1>5. /\ saveJob' = [saveJob EXCEPT ![j] = x] /\ saveJob[j].at = "completed"
      /\ published' = [published EXCEPT ![v] = published[v] + 1]
      /\ UNCHANGED <<intake, stored, convs, rows, up, hook, run, replay, left>>
  <2>1. saveJob' = [saveJob EXCEPT ![j].at = "published"]
    BY DEF Publish
  <2> QED
    BY <1>1, <1>4, <2>1, Types DEF Publish, durable
<1>6. v \in Wamids
  BY <1>4, <1>5 DEF IntakeInv, InTheirThread
<1>7. /\ published' \in [Wamids -> Nat]
      /\ \A w \in Wamids : published'[w] = IF w = v THEN published[w] + 1 ELSE published[w]
  BY <1>5, <1>6, RowsAndPublished
<1>8. <<saveJob[j].conv, v>> \in rows
  BY <1>4, <1>5 DEF IntakeInv, RowsBehindJobs
<1>9. \A i \in Jobs : saveJob'[i] = IF i = j THEN x ELSE saveJob[i]
  BY <1>5, Types
<1>10. OneToPublish'
  <2> SUFFICES ASSUME NEW w \in Wamids, OneThread(SenderOf[w])'
               PROVE  /\ published'[w] <= 1
                      /\ published'[w] # 0 => Saved(w)'
                      /\ \A i \in Jobs : ToPublish(i, w)' =>
                            /\ published'[w] = 0
                            /\ \A k \in Jobs : ToPublish(k, w)' => k = i
    BY DEF OneToPublish
  <2>1. OneThread(SenderOf[w])
    BY <1>5 DEF OneThread, ConvsOf
  <2>2. /\ published[w] <= 1
        /\ published[w] # 0 => Saved(w)
        /\ \A i \in Jobs : ToPublish(i, w) =>
              /\ published[w] = 0
              /\ \A k \in Jobs : ToPublish(k, w) => k = i
    BY <2>1 DEF IntakeInv, OneToPublish
  <2>3. Saved(w)' <=> Saved(w)
    BY <1>5 DEF Saved
  <2>4. \A i \in Jobs : ToPublish(i, w)' => i # j /\ ToPublish(i, w)
    BY <1>3, <1>9 DEF ToPublish
  <2>5. CASE w = v
    <3>1. ToPublish(j, w)
      BY <1>4, <1>5, <2>5 DEF ToPublish
    <3>2. Saved(w)
      BY <1>8, <2>5 DEF Saved
    <3>3. published'[w] = 1 /\ \A i \in Jobs : ~ToPublish(i, w)'
      BY <1>7, <2>2, <2>4, <2>5, <3>1
    <3> QED
      BY <2>3, <3>2, <3>3
  <2>6. CASE w # v
    BY <1>7, <2>2, <2>3, <2>4, <2>6
  <2> QED
    BY <2>5, <2>6
<1>11. rows' = rows /\ left' = left /\ intake' = intake
  BY <1>5
<1> QED
  BY <1>3, <1>4, <1>5, <1>7, <1>8, <1>10, <1>11, JobStep, Types

LEMMA EnqueueSaveStep ==
    ASSUME IntakeInv, NEW r \in Runners, EnqueueSave(r)
    PROVE  IntakeInv'
<1>1. PICK w : w = WamidOf(r)
  OBVIOUS
<1>2. PICK j : j = CHOOSE j1 \in Free : TRUE
  OBVIOUS
<1>3. PICK x : x = [at |-> "waiting", conv |-> run[r].conv, wamid |-> w, stalls |-> 0]
  OBVIOUS
<1>4. PICK y : y = Returned(r)
  OBVIOUS
<1>5. run[r].at = "enqueue" /\ Free # {}
  BY DEF EnqueueSave
<1>6. j \in Jobs /\ saveJob[j].at = "free"
  BY <1>2, <1>5 DEF Free
<1>7. w \in Wamids /\ w \in Runners /\ Theirs(run[r].conv, w)
  BY <1>1, <1>5, RunnerWamid, RunnersHaveIt DEF IntakeInv, InTheirThread
<1>8. /\ saveJob' = [saveJob EXCEPT ![j] = x] /\ run' = [run EXCEPT ![r] = y]
      /\ UNCHANGED <<intake, stored, convs, rows, up, hook, replay, published, left>>
  BY <1>1, <1>2, <1>3, <1>4 DEF EnqueueSave, durable
<1>9. /\ x \in JobType /\ x.at = "waiting" /\ x.conv = run[r].conv /\ x.wamid = w /\ x.stalls = 0
  <2>1. "waiting" \in JobStates /\ 0 \in 0..MaxStalled /\ run[r].conv \in 0..Len(convs)
    BY Types DEF JobStates
  <2> QED
    BY <1>3, <1>7, <2>1 DEF JobType
<1>10. /\ y \in [at : {"idle", "lookup", "create", "enqueue", "mark"}, conv : 0..Len(convs)]
       /\ y.at # "enqueue" /\ (r # Replayer => y.at = "idle")
  BY <1>4, ReturnedRun
<1>11. \A i \in Jobs : saveJob'[i] = IF i = j THEN x ELSE saveJob[i]
  BY <1>8, Types
<1>12. \A q \in Runners : run'[q] = IF q = r THEN y ELSE run[q]
  BY <1>8, Types
<1>13. TypeOK'
  <2>1. saveJob' \in [Jobs -> [at : JobStates, conv : 0..Len(convs), wamid : Runners,
                               stalls : 0..MaxStalled]]
    BY <1>6, <1>8, <1>9, Types DEF JobType
  <2>2. run' \in [Runners -> [at : {"idle", "lookup", "create", "enqueue", "mark"},
                              conv : 0..Len(convs)]]
    BY <1>8, <1>10, Types
  <2> QED
    BY <1>8, <2>1, <2>2 DEF IntakeInv, TypeOK
<1>14. \A q \in Runners : WamidOf(q)' = WamidOf(q)
  BY <1>8, SamePage
<1>15. InTheirThread'
  <2>1. \A q \in rows' : Theirs(q[1], q[2])
    BY <1>8 DEF IntakeInv, InTheirThread
  <2>2. \A i \in Jobs : saveJob'[i].at # "free" =>
           saveJob'[i].wamid \in Wamids /\ Theirs(saveJob'[i].conv, saveJob'[i].wamid)
    BY <1>7, <1>9, <1>11 DEF IntakeInv, InTheirThread
  <2>3. \A q \in Runners : run'[q].at = "enqueue" => Theirs(run'[q].conv, WamidOf(q)')
    BY <1>10, <1>12, <1>14 DEF IntakeInv, InTheirThread
  <2> QED
    BY <1>8, <2>1, <2>2, <2>3 DEF InTheirThread, Theirs
<1>16. Replaying'
  <2>1. run'[Replayer].at # "idle" => run[Replayer].at # "idle"
    BY <1>5, <1>12, RunnersHaveIt
  <2> QED
    BY <1>8, <2>1 DEF IntakeInv, Replaying
<1>17. FaultsLeft' /\ (Mild' => Mild)
  BY <1>8, <1>9, <1>11, FaultsStep
<1>18. RowsBehindJobs'
  BY <1>8, <1>9, <1>11 DEF IntakeInv, RowsBehindJobs
<1>19. ConsumedIsKept'
  <2>1. \A v : Saved(v)' <=> Saved(v)
    BY <1>8 DEF Saved
  <2>2. \A v : UnderWay(v) => UnderWay(v)'
    BY <1>6, <1>11 DEF UnderWay
  <2>3. UnderWay(w)'
    BY <1>6, <1>9, <1>11 DEF UnderWay
  <2>4. Event' = Event
    BY <1>8, SamePage
  <2>5. ASSUME Mild, run'[Replayer].at = "mark" PROVE Saved(Event)' \/ UnderWay(Event)'
    <3>1. CASE r = Replayer
      BY <1>1, <2>3, <2>4, <3>1 DEF WamidOf
    <3>2. CASE r # Replayer
      BY <1>12, <2>1, <2>2, <2>4, <2>5, <3>2, RunnersHaveIt DEF IntakeInv, ConsumedIsKept
    <3> QED
      BY <3>1, <3>2
  <2> QED
    BY <1>8, <1>17, <2>1, <2>2, <2>5 DEF IntakeInv, ConsumedIsKept
<1>20. OneToPublish'
  <2>1. \A v \in Wamids, i \in Jobs : ToPublish(i, v)' => ToPublish(i, v)
    BY <1>9, <1>11 DEF ToPublish
  <2>2. \A v \in Wamids : OneThread(SenderOf[v])' => OneThread(SenderOf[v])
    BY <1>8 DEF OneThread, ConvsOf
  <2> QED
    BY <1>8, <2>1, <2>2, QuietStep
<1> QED
  BY <1>13, <1>15, <1>16, <1>17, <1>18, <1>19, <1>20 DEF IntakeInv

LEMMA ProcessCrashStep ==
    ASSUME IntakeInv, ProcessCrash
    PROVE  IntakeInv'
<1>1. "crash" \in Faults /\ Strike("crash")
  BY DEF Faults, ProcessCrash
<1>2. /\ left' \in [Faults -> Nat] /\ \A g \in Faults : left'[g] <= Budget[g]
      /\ left'["crash"] + 1 = left["crash"] /\ (Mild' => Mild)
  BY <1>1, StrikeFacts
<1>3. /\ up' = FALSE /\ replay' = NoReplay
      /\ UNCHANGED <<intake, stored, convs, rows, published>>
  BY DEF ProcessCrash, durable
<1>4. run' = [r \in Runners |-> NoRun] /\ hook' = [h \in Hooks |-> NoHook]
  BY DEF ProcessCrash
<1>5. \A r \in Runners : run'[r].at = "idle"
  BY <1>4, NoRunType
<1>6. ASSUME NEW j \in Jobs
      PROVE  /\ saveJob'[j] \in JobType
             /\ saveJob'[j].at \in {"waiting", "free"}
             /\ saveJob'[j].at # "free" =>
                   /\ saveJob[j].at # "free"
                   /\ saveJob'[j].wamid = saveJob[j].wamid
                   /\ saveJob'[j].conv = saveJob[j].conv
             /\ saveJob'[j].stalls <= saveJob[j].stalls + 1
             /\ saveJob[j].at \in {"waiting", "active"} /\ saveJob[j].stalls < MaxStalled =>
                   saveJob'[j].at = "waiting"
             /\ saveJob[j].at = "waiting" => saveJob'[j].at = "waiting"
  <2>1. saveJob[j] \in JobType /\ saveJob[j].stalls \in 0..MaxStalled
        /\ MaxStalled \in Nat /\ saveJob[j].at \in JobStates
    BY Types DEF JobType
  <2>2. NoJob \in JobType /\ NoJob.at = "free" /\ NoJob.stalls = 0
    BY NoJobType
  <2>3. saveJob'[j] = CASE saveJob[j].at \in {"active", "saved"} ->
                             IF saveJob[j].stalls < MaxStalled
                             THEN [saveJob[j] EXCEPT !.at = "waiting",
                                                     !.stalls = saveJob[j].stalls + 1]
                             ELSE NoJob
                        [] saveJob[j].at \in {"completed", "published"} -> NoJob
                        [] OTHER -> saveJob[j]
    BY DEF ProcessCrash
  <2>4. CASE saveJob[j].at \in {"active", "saved"} /\ saveJob[j].stalls < MaxStalled
    <3>1. PICK x : x = [saveJob[j] EXCEPT !.at = "waiting", !.stalls = saveJob[j].stalls + 1]
      OBVIOUS
    <3>2. saveJob'[j] = x
      BY <2>3, <2>4, <3>1
    <3>3. "waiting" \in JobStates /\ saveJob[j].stalls + 1 \in 0..MaxStalled
      BY <2>1, <2>4 DEF JobStates
    <3>4. /\ x \in JobType /\ x.at = "waiting" /\ x.stalls = saveJob[j].stalls + 1
          /\ x.wamid = saveJob[j].wamid /\ x.conv = saveJob[j].conv
      BY <2>1, <3>1, <3>3 DEF JobType
    <3> QED
      BY <2>1, <2>4, <3>2, <3>4
  <2>5. CASE saveJob[j].at \in {"active", "saved"} /\ ~(saveJob[j].stalls < MaxStalled)
    <3>1. saveJob'[j] = NoJob
      BY <2>3, <2>5
    <3> QED
      BY <2>1, <2>2, <2>5, <3>1
  <2>6. CASE saveJob[j].at \in {"completed", "published"}
    <3>1. saveJob'[j] = NoJob
      BY <2>3, <2>6
    <3> QED
      BY <2>1, <2>2, <2>6, <3>1
  <2>7. CASE saveJob[j].at \in {"free", "waiting"}
    <3>1. saveJob'[j] = saveJob[j]
      BY <2>3, <2>7
    <3> QED
      BY <2>1, <2>7, <3>1
  <2> QED
    BY <2>1, <2>4, <2>5, <2>6, <2>7 DEF JobStates
<1>7. TypeOK'
  <2>1. saveJob' \in [Jobs -> [at : JobStates, conv : 0..Len(convs), wamid : Runners,
                               stalls : 0..MaxStalled]]
    <3>1. saveJob' = [j \in Jobs |-> saveJob'[j]]
      BY DEF ProcessCrash
    <3> QED
      BY <1>6, <3>1 DEF JobType
  <2>2. run' \in [Runners -> [at : {"idle", "lookup", "create", "enqueue", "mark"},
                              conv : 0..Len(convs)]]
    BY <1>4, NoRunType
  <2>3. hook' \in [Hooks -> [busy : BOOLEAN, todo : Seq(Wamids), fresh : SUBSET Wamids]]
    BY <1>4, NoHookType
  <2>4. replay' \in [at : {"off", "list", "page"}, page : SUBSET (1..Len(stored')),
                     size : 0..Limit, consumed : 0..Limit]
    BY <1>3, NoReplayType
  <2> QED
    BY <1>2, <1>3, <2>1, <2>2, <2>3, <2>4 DEF IntakeInv, TypeOK
<1>8. InTheirThread'
  <2>1. \A q \in rows' : Theirs(q[1], q[2])
    BY <1>3 DEF IntakeInv, InTheirThread
  <2>2. \A i \in Jobs : saveJob'[i].at # "free" =>
           saveJob'[i].wamid \in Wamids /\ Theirs(saveJob'[i].conv, saveJob'[i].wamid)
    BY <1>6 DEF IntakeInv, InTheirThread
  <2>3. \A q \in Runners : run'[q].at # "enqueue"
    BY <1>5
  <2> QED
    BY <1>3, <2>1, <2>2, <2>3 DEF InTheirThread, Theirs
<1>9. Replaying'
  <2>1. NoReplay.at = "off"
    BY DEF NoReplay
  <2> QED
    BY <1>3, <1>5, <2>1, NoReplayType, RunnersHaveIt DEF Replaying
<1>10. left["crash"] \in Nat /\ left'["crash"] \in Nat /\ Budget["crash"] \in Nat
       /\ MaxStalled \in Nat
  BY <1>1, <1>2, Types
<1>11. \A j \in Jobs : saveJob[j].stalls \in Nat /\ saveJob'[j].stalls \in Nat
                       /\ saveJob[j].stalls + left["crash"] <= Budget["crash"]
  <2>1. \A j \in Jobs : saveJob[j].stalls \in Nat
    BY Types
  <2>2. \A j \in Jobs : saveJob'[j].stalls \in Nat
    BY <1>6, Types DEF JobType
  <2> QED
    BY <2>1, <2>2 DEF IntakeInv, FaultsLeft
<1>12. FaultsLeft'
  <2>1. \A j \in Jobs : saveJob'[j].stalls + left'["crash"] <= Budget["crash"]
    BY <1>2, <1>6, <1>10, <1>11
  <2> QED
    BY <1>2, <2>1 DEF FaultsLeft
<1>13. RowsBehindJobs'
  BY <1>6 DEF RowsBehindJobs
<1>14. ConsumedIsKept'
  <2>1. ASSUME Mild', NEW w, UnderWay(w) PROVE UnderWay(w)'
    <3>1. PICK j \in Jobs : saveJob[j].wamid = w /\ saveJob[j].at \in {"waiting", "active"}
      BY <2>1 DEF UnderWay
    <3>2. saveJob[j].stalls < MaxStalled
      BY <1>2, <1>10, <1>11, <2>1 DEF Mild
    <3>3. saveJob'[j].at = "waiting" /\ saveJob'[j].wamid = w
      BY <1>6, <3>1, <3>2
    <3> QED
      BY <3>3 DEF UnderWay
  <2>2. \A w : Saved(w)' <=> Saved(w)
    BY <1>3 DEF Saved
  <2>3. run'[Replayer].at # "mark"
    BY <1>5, RunnersHaveIt
  <2> QED
    BY <1>2, <1>3, <2>1, <2>2, <2>3 DEF IntakeInv, ConsumedIsKept
<1>15. OneToPublish'
  <2>1. \A w \in Wamids, j \in Jobs : ToPublish(j, w)' => ToPublish(j, w)
    BY <1>6 DEF ToPublish
  <2>2. \A w \in Wamids : OneThread(SenderOf[w])' => OneThread(SenderOf[w])
    BY <1>3 DEF OneThread, ConvsOf
  <2> QED
    BY <1>3, <2>1, <2>2, QuietStep
<1> QED
  BY <1>7, <1>8, <1>9, <1>12, <1>13, <1>14, <1>15 DEF IntakeInv

LEMMA InitIntakeInv == Init => IntakeInv
<1> SUFFICES ASSUME Init PROVE IntakeInv
  OBVIOUS
<1>1. NoJob.at = "free" /\ NoJob.stalls = 0 /\ NoRun.at = "idle"
      /\ NoReplay.at = "off" /\ NoReplay.page = {}
  BY DEF NoJob, NoRun, NoReplay
<1>2. stored \in Seq(Wamids) /\ convs \in Seq(Senders) /\ Len(convs) \in Nat
  BY IntakeAssumption DEF Init
<1>3. TypeOK
  <2>1. saveJob \in [Jobs -> [at : JobStates, conv : 0..Len(convs), wamid : Runners,
                              stalls : 0..MaxStalled]]
    <3>1. 0 \in 0..Len(convs) /\ 0 \in 0..MaxStalled /\ Replayer \in Runners
          /\ "free" \in JobStates
      BY <1>2, RunnersHaveIt, IntakeAssumption DEF JobStates
    <3>2. NoJob \in [at : JobStates, conv : 0..Len(convs), wamid : Runners,
                     stalls : 0..MaxStalled]
      BY <3>1 DEF NoJob
    <3> QED
      BY <3>2 DEF Init
  <2>2. run \in [Runners -> [at : {"idle", "lookup", "create", "enqueue", "mark"},
                             conv : 0..Len(convs)]]
    <3>1. NoRun \in [at : {"idle", "lookup", "create", "enqueue", "mark"}, conv : 0..Len(convs)]
      BY <1>2 DEF NoRun
    <3> QED
      BY <3>1 DEF Init
  <2>3. hook \in [Hooks -> [busy : BOOLEAN, todo : Seq(Wamids), fresh : SUBSET Wamids]]
    BY NoHookType DEF Init
  <2>4. replay \in [at : {"off", "list", "page"}, page : SUBSET (1..Len(stored)),
                    size : 0..Limit, consumed : 0..Limit]
    BY NoReplayType DEF Init
  <2>5. rows \subseteq (1..Len(convs)) \X Wamids /\ up \in BOOLEAN
        /\ intake \in [Wamids -> {"none", "pending", "replayed"}]
        /\ published \in [Wamids -> Nat] /\ left \in [Faults -> Nat]
    BY IntakeAssumption DEF Init
  <2> QED
    BY <1>2, <2>1, <2>2, <2>3, <2>4, <2>5 DEF TypeOK
<1>4. \A j \in Jobs : saveJob[j].at = "free" /\ saveJob[j].stalls = 0
  BY <1>1 DEF Init
<1>5. \A r \in Runners : run[r].at = "idle"
  BY <1>1 DEF Init
<1>6. InTheirThread
  BY <1>4, <1>5 DEF InTheirThread, Init
<1>7. Replaying
  BY <1>1, <1>5, RunnersHaveIt, NoReplayType DEF Replaying, Init
<1>8. FaultsLeft
  <2>1. left = Budget /\ \A f \in Faults : Budget[f] \in Nat
    BY IntakeAssumption DEF Init
  <2> QED
    BY <1>4, <2>1 DEF FaultsLeft, Faults
<1>9. RowsBehindJobs
  BY <1>4 DEF RowsBehindJobs
<1>10. ConsumedIsKept
  BY <1>5, RunnersHaveIt DEF ConsumedIsKept, Init
<1>11. OneToPublish
  BY <1>4 DEF OneToPublish, ToPublish, Init
<1> QED
  BY <1>3, <1>6, <1>7, <1>8, <1>9, <1>10, <1>11 DEF IntakeInv

LEMMA IntakeStays ==
    ASSUME IntakeInv, UNCHANGED vars
    PROVE  IntakeInv'
<1>1. UNCHANGED <<intake, stored, convs, rows, saveJob, up, hook, run, replay, published, left>>
  BY DEF vars
<1>2. TypeOK' /\ RowsBehindJobs' /\ FaultsLeft' /\ Replaying'
  BY <1>1 DEF IntakeInv, TypeOK, RowsBehindJobs, FaultsLeft, Replaying
<1>3. InTheirThread' /\ OneToPublish' /\ ConsumedIsKept'
  <2>1. Event' = Event /\ \A r \in Runners : WamidOf(r)' = WamidOf(r)
    BY <1>1, SamePage
  <2>2. InTheirThread'
    BY <1>1, <2>1 DEF IntakeInv, InTheirThread, Theirs
  <2>3. OneToPublish'
    BY <1>1 DEF IntakeInv, OneToPublish, ToPublish, OneThread, ConvsOf, Saved
  <2>4. ConsumedIsKept'
    BY <1>1, <2>1 DEF IntakeInv, ConsumedIsKept, Mild, Saved, UnderWay
  <2> QED
    BY <2>2, <2>3, <2>4
<1> QED
  BY <1>2, <1>3 DEF IntakeInv

LEMMA NextIntakeInv == IntakeInv /\ [Next]_vars => IntakeInv'
<1> SUFFICES ASSUME IntakeInv, [Next]_vars PROVE IntakeInv'
  OBVIOUS
<1>1. CASE UNCHANGED vars
  BY <1>1, IntakeStays
<1>2. ASSUME NEW h \in Hooks,
             \/ \E body \in Bodies : Post(h, body)
             \/ Persist(h) \/ PersistFails(h) \/ Answer(h)
      PROVE  IntakeInv'
  BY <1>2, PostStep, PersistStep, PersistFailsStep, AnswerStep
<1>3. ASSUME NEW r \in Runners, Command(r) \/ NoChannel(r) \/ RunFails(r)
      PROVE  IntakeInv'
  BY <1>3, FindConversationStep, CreateConversationStep, EnqueueSaveStep, NoChannelStep,
     RunFailsStep DEF Command
<1>4. ASSUME NEW j \in Jobs, SaveWork(j) \/ SaveThrows(j) \/ ConsumeFails(j)
      PROVE  IntakeInv'
  BY <1>4, PickUpSaveStep, SaveStep, CompleteStep, PublishStep, ConsumeSavedStep,
     SaveThrowsStep, ConsumeFailsStep DEF SaveWork
<1>5. CASE ReplayStep
  BY <1>5, ListPendingStep, ReplayStarts, ConsumeReplayedStep, ConsumeExistingStep,
     EndPageStep DEF ReplayStep
<1>6. CASE ProcessCrash
  BY <1>6, ProcessCrashStep
<1>7. CASE Boot
  BY <1>7, BootStep
<1> QED
  BY <1>1, <1>2, <1>3, <1>4, <1>5, <1>6, <1>7 DEF Next

LEMMA SpecIntakeInv == Spec => []IntakeInv
<1> QED
  BY InitIntakeInv, NextIntakeInv, PTL DEF Spec

\* The posts, the conversations and rows in MySQL, the queue's jobs, the commands
\* and the replay's page are what InboundIntake says they are.
THEOREM IntakeTypes == Spec => []TypeOK
<1>1. IntakeInv => TypeOK
  BY DEF IntakeInv
<1> QED
  BY <1>1, SpecIntakeInv, PTL

\* Whatever crashes and fails while a post is stored, answered, run, queued and
\* replayed, a stored message has its row, is pending, or is queued, as long as
\* no save throws, no channel is missing and the process crashed no more often
\* than a stalled job is handed out again.
THEOREM StoredIsKept == Spec => []StoredNotLost
<1>1. IntakeInv => StoredNotLost
  <2> SUFFICES ASSUME IntakeInv, Mild, NEW w \in Wamids, intake[w] # "none"
               PROVE  Kept(w)
    BY DEF StoredNotLost, Mild
  <2>1. intake[w] \in {"pending", "replayed"}
    BY Types
  <2> QED
    BY <2>1 DEF Kept, IntakeInv, ConsumedIsKept
<1> QED
  BY <1>1, SpecIntakeInv, PTL

\* While its sender has one conversation, a message has one row and is announced
\* once, however often Meta posts it, the replay runs it or its job stalls.
THEOREM OneRowPerMessage == Spec => []OneRowEach
<1>1. IntakeInv => OneRowEach
  <2> SUFFICES ASSUME IntakeInv, NEW w \in Wamids, OneThread(SenderOf[w])
               PROVE  /\ \A r, q \in rows : r[2] = w /\ q[2] = w => r = q
                      /\ published[w] <= 1
    BY DEF OneRowEach
  <2>1. ASSUME NEW r \in rows, NEW q \in rows, r[2] = w, q[2] = w PROVE r = q
    <3>1. Theirs(r[1], w)
      BY <2>1 DEF IntakeInv, InTheirThread
    <3>2. r = <<r[1], w>> /\ q = <<r[1], w>>
      BY <2>1, <3>1, OneRow
    <3> QED
      BY <3>2
  <2>2. published[w] <= 1
    BY DEF IntakeInv, OneToPublish
  <2> QED
    BY <2>1, <2>2
<1> QED
  BY <1>1, SpecIntakeInv, PTL
=============================================================================
