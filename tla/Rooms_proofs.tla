------------------------ MODULE Rooms_proofs ----------------------------
(***************************************************************************)
(* Proofs about ThreadAccess, for any conversations, members, transactions *)
(* and settings: the engine is left as it was, so that what is proved of   *)
(* Assignment holds here, and the notices miss no agent who is in the      *)
(* thread of somebody else's conversation.  And about Sessions, for any    *)
(* browsers, requests and faults: claims the member no longer has are used *)
(* only for one of the named reasons.                                      *)
(***************************************************************************)
EXTENDS ThreadAccess, Sessions, Assignment_proofs

\* A handler notifies what it has committed before it does anything else.
NoticeLast == \A t \in Txns : notice[t] # NoNotice => txn[t].stage = "idle"

\* What it notifies is about a thread somebody may be in.
NoticesOfThreads == \A t \in Txns : notice[t] = NoNotice \/ notice[t].conv \in Watched

ThreadInv == /\ IInv
             /\ ThreadTypeOK /\ NoticeLast /\ NoticesOfThreads
             /\ StrangersLeave
-----------------------------------------------------------------------------
(* The engine under the threads. *)

LEMMA StepsOfEngine ==
    ASSUME [ThreadNext]_accessVars
    PROVE  [Next]_vars
<1>1. ASSUME NEW t \in Txns, Engine(t) PROVE Next
  BY <1>1 DEF Engine, Next
<1>2. ASSUME NEW t \in Txns, AssignAndNotify(t) PROVE Next
  BY <1>2 DEF AssignAndNotify, Next
<1>3. ASSUME NEW t \in Txns,
             RereadActive(t) \/ FindMember(t) \/ RevokeAccess(t) \/ NoticeFails(t)
      PROVE  UNCHANGED vars
  BY <1>3 DEF RereadActive, FindMember, RevokeAccess, NoticeFails
<1>4. ASSUME NEW m \in Openers, NEW x \in Watched,
             CanJoin(m, x) \/ Enter(m, x) \/ LeaveThread(m, x)
      PROVE  UNCHANGED vars
  BY <1>4 DEF CanJoin, Enter, LeaveThread
<1>5. UNCHANGED accessVars => UNCHANGED vars
  BY DEF accessVars
<1> QED
  BY <1>1, <1>2, <1>3, <1>4, <1>5 DEF ThreadNext

\* The threads watch the engine and never hold it up or change it: every
\* behaviour is one of Assignment, whose theorems hold here too.
THEOREM EngineUndisturbed == ThreadSpec => Spec
<1>1. ThreadInit => Init
  BY DEF ThreadInit
<1>2. [ThreadNext]_accessVars => [Next]_vars
  BY StepsOfEngine
<1> QED
  BY <1>1, <1>2, PTL DEF ThreadSpec, Spec

LEMMA HolderType ==
    ASSUME IInv, NEW x \in Convs
    PROVE  Holder(x) \in Members \cup {None}
<1>1. CASE OpenRows(x) = {}
  BY <1>1 DEF Holder
<1>2. ASSUME NEW i \in OpenRows(x) PROVE Holder(x) \in Members
  BY <1>2, HolderIs DEF IInv, TypeOK
<1> QED
  BY <1>1, <1>2

\* A conversation that only loses active rows keeps its owner, or has none.
KeepsOrLoses(x) == Holder(x)' # None => Holder(x)' = Holder(x)

LEMMA ShrinksKeepsOrLoses ==
    ASSUME IInv, IInv', NEW x \in Convs, Shrinks(x)
    PROVE  KeepsOrLoses(x)
<1>1. CASE OpenRows(x)' = {}
  BY <1>1 DEF KeepsOrLoses, Holder
<1>2. ASSUME NEW i \in OpenRows(x)' PROVE KeepsOrLoses(x)
  <2>1. i \in OpenRows(x) /\ rows'[i].member = rows[i].member
    BY <1>2 DEF Shrinks
  <2>2. Holder(x) = rows[i].member
    BY <2>1, HolderIs DEF IInv, TypeOK
  <2>3. (CHOOSE j \in OpenRows(x)' : TRUE) = i
    BY <1>2 DEF IInv, OneActive
  <2>4. Holder(x)' = rows'[i].member
    BY <1>2, <2>3 DEF Holder
  <2> QED
    BY <2>1, <2>2, <2>4 DEF KeepsOrLoses
<1> QED
  BY <1>1, <1>2

LEMMA EngineSteps ==
    ASSUME IInv, IInv', NEW t \in Txns, Engine(t), NEW y \in Convs
    PROVE  KeepsOrLoses(y) /\ gone \subseteq gone'
<1>1. CASE UNCHANGED <<rows, gone>>
  BY <1>1, SameRows, ShrinksKeepsOrLoses
<1>2. ASSUME NEW x \in Convs, EnsureAssigned(t, x) PROVE UNCHANGED <<rows, gone>>
  BY <1>2 DEF EnsureAssigned, Choose
<1>3. ASSUME NEW x \in Convs, NEW m \in Members, Claim(t, x, m)
      PROVE  UNCHANGED <<rows, gone>>
  BY <1>3 DEF Claim, Choose
<1>4. ASSUME NEW x \in Convs, NEW m \in Members, NEW r \in Members,
             AssignToAgent(t, x, m, r)
      PROVE  UNCHANGED <<rows, gone>>
  BY <1>4 DEF AssignToAgent, Choose
<1>5. ASSUME NEW m \in Members, ReadOwned(t, m) PROVE UNCHANGED <<rows, gone>>
  BY <1>5 DEF ReadOwned
<1>6. ASSUME CloseActive(t) \/ CloseOwned(t) \/ Rollback(t)
      PROVE  UNCHANGED <<rows, gone>>
  BY <1>6 DEF CloseActive, CloseOwned, Rollback
<1>7. CASE CommitRemove(t)
  <2>1. gone \subseteq gone'
    BY <1>7 DEF CommitRemove
  <2> QED
    BY <1>7, <2>1, RemoveRows, ShrinksKeepsOrLoses
<1> QED
  BY <1>1, <1>2, <1>3, <1>4, <1>5, <1>6, <1>7 DEF Engine
-----------------------------------------------------------------------------
(* Types, and the order of a handler's work. *)

LEMMA NoNoticeType == NoNotice \in Notice /\ NoNotice.at = "none" /\ NoNotice.conv = None
BY DEF NoNotice, Notice

LEMMA ThreadInitInv == ThreadInit => ThreadInv
<1> SUFFICES ASSUME ThreadInit PROVE ThreadInv
  OBVIOUS
<1>1. IInv
  BY InitInv DEF ThreadInit
<1>2. ThreadTypeOK /\ NoticeLast /\ NoticesOfThreads
  BY NoNoticeType DEF ThreadInit, ThreadTypeOK, NoticeLast, NoticesOfThreads
<1>3. StrangersLeave
  BY DEF ThreadInit, StrangersLeave, Stranger
<1> QED
  BY <1>1, <1>2, <1>3 DEF ThreadInv

\* What an assignment of a watched conversation leaves to notify.
LEMMA AssignNotice ==
    ASSUME ThreadInv, NEW t \in Txns, AssignAndNotify(t)
    PROVE  /\ txn[t].conv \in Convs /\ txn[t].member \in Members
           /\ notice[t] = NoNotice
           /\ txn[t].conv \notin Watched => notice' = notice
           /\ txn[t].conv \in Watched =>
                \E n \in Notice : /\ notice' = [notice EXCEPT ![t] = n]
                                  /\ n.conv = txn[t].conv
                                  /\ n.at = "reread" \/ n.member = txn[t].member
<1>1. Sound(t) /\ txn[t].stage = "closing"
  BY DEF ThreadInv, IInv, AssignAndNotify, CommitAssign
<1>2. txn[t].conv \in Convs /\ txn[t].member \in Members
  BY <1>1 DEF Sound, HoldsLock, Deciding
<1>3. notice[t] = NoNotice
  BY <1>1 DEF ThreadInv, NoticeLast
<1> DEFINE known == [at |-> "lookup", conv |-> txn[t].conv, member |-> txn[t].member]
           reread == [at |-> "reread", conv |-> txn[t].conv, member |-> None]
<1>4. ASSUME txn[t].conv \in Watched
      PROVE  /\ known \in Notice /\ known.conv = txn[t].conv /\ known.member = txn[t].member
             /\ reread \in Notice /\ reread.conv = txn[t].conv /\ reread.at = "reread"
  BY <1>2, <1>4 DEF Notice
<1>5. /\ txn[t].conv \notin Watched => notice' = notice
      /\ txn[t].conv \in Watched =>
            \/ notice' = [notice EXCEPT ![t] = known]
            \/ notice' = [notice EXCEPT ![t] = reread]
  BY DEF AssignAndNotify
<1> HIDE DEF known, reread
<1> QED
  BY <1>2, <1>3, <1>4, <1>5

\* A step of a notice of its own.
LEMMA NoticeSteps ==
    ASSUME ThreadInv, NEW t \in Txns,
           RereadActive(t) \/ FindMember(t) \/ RevokeAccess(t) \/ NoticeFails(t)
    PROVE  /\ notice[t] # NoNotice /\ notice[t].conv \in Watched
           /\ \E n \in Notice : /\ notice' = [notice EXCEPT ![t] = n]
                                /\ n = NoNotice \/ n.conv = notice[t].conv
<1>1. notice[t] \in Notice
  BY DEF ThreadInv, ThreadTypeOK
<1>2. notice[t].at # "none"
  BY DEF RereadActive, FindMember, RevokeAccess, NoticeFails
<1>3. notice[t] # NoNotice
  BY <1>2, NoNoticeType
<1>4. notice[t].conv \in Watched
  BY <1>3 DEF ThreadInv, NoticesOfThreads
<1>5. CASE notice' = [notice EXCEPT ![t] = NoNotice]
  BY <1>3, <1>4, <1>5, NoNoticeType
<1>6. CASE RereadActive(t) /\ Holder(notice[t].conv) # None
  <2> DEFINE n == [at |-> "lookup", conv |-> notice[t].conv,
                   member |-> Holder(notice[t].conv)]
  <2>1. notice[t].conv \in Convs
    BY <1>4, ThreadsAssumption
  <2>2. Holder(notice[t].conv) \in Members \cup {None}
    BY <2>1, HolderType DEF ThreadInv
  <2>3. n \in Notice /\ n.conv = notice[t].conv
    BY <1>4, <2>2 DEF Notice
  <2>4. notice' = [notice EXCEPT ![t] = n]
    BY <1>6 DEF RereadActive
  <2> HIDE DEF n
  <2> QED
    BY <1>3, <1>4, <2>3, <2>4
<1>7. CASE FindMember(t) /\ notice[t].member \notin gone
  <2> DEFINE n == [notice[t] EXCEPT !.at = "revoke"]
  <2>1. n \in Notice /\ n.conv = notice[t].conv
    BY <1>1 DEF Notice
  <2>2. notice' = [notice EXCEPT ![t] = n]
    BY <1>7 DEF FindMember, ThreadInv, ThreadTypeOK
  <2> HIDE DEF n
  <2> QED
    BY <1>3, <1>4, <2>1, <2>2
<1>8. CASE RereadActive(t) /\ Holder(notice[t].conv) = None
  BY <1>5, <1>8 DEF RereadActive
<1>9. CASE FindMember(t) /\ notice[t].member \in gone
  BY <1>5, <1>9 DEF FindMember, ThreadInv, ThreadTypeOK
<1>10. CASE RevokeAccess(t) \/ NoticeFails(t)
  BY <1>5, <1>10 DEF RevokeAccess, NoticeFails
<1> QED
  BY <1>6, <1>7, <1>8, <1>9, <1>10

LEMMA StepThreadTypes ==
    ASSUME ThreadInv, [ThreadNext]_accessVars
    PROVE  ThreadTypeOK' /\ NoticeLast' /\ NoticesOfThreads'
<1>0. /\ room \in [Watched -> SUBSET Openers] /\ joining \subseteq Openers \X Watched
      /\ notice \in [Txns -> Notice] /\ excused \subseteq Openers \X Watched
      /\ NoticeLast /\ NoticesOfThreads /\ txn \in [Txns -> Txn]
  BY DEF ThreadInv, ThreadTypeOK, IInv, TypeOK
<1>1. ASSUME NEW t \in Txns, Engine(t) PROVE ThreadTypeOK' /\ NoticeLast' /\ NoticesOfThreads'
  <2>1. UNCHANGED <<room, joining, notice, excused>> /\ notice[t] = NoNotice
    BY <1>1 DEF Engine, threadVars
  <2>2. \A u \in Txns \ {t} : txn'[u] = txn[u]
    BY <1>0, <1>1 DEF Engine, EnsureAssigned, Claim, AssignToAgent, Choose, CloseActive,
                     ReadOwned, CloseOwned, CommitRemove, Rollback
  <2> QED
    BY <1>0, <2>1, <2>2 DEF ThreadTypeOK, NoticeLast, NoticesOfThreads
<1>2. ASSUME NEW t \in Txns, AssignAndNotify(t)
      PROVE  ThreadTypeOK' /\ NoticeLast' /\ NoticesOfThreads'
  <2>1. UNCHANGED <<room, joining, excused>> /\ txn' = [txn EXCEPT ![t] = Idle]
    BY <1>2 DEF AssignAndNotify, CommitAssign
  <2>2. txn'[t].stage = "idle" /\ \A u \in Txns \ {t} : txn'[u] = txn[u]
    BY <1>0, <2>1 DEF Idle
  <2>3. CASE notice' = notice
    BY <1>0, <2>1, <2>2, <2>3 DEF ThreadTypeOK, NoticeLast, NoticesOfThreads
  <2>4. ASSUME NEW n \in Notice, notice' = [notice EXCEPT ![t] = n], n.conv \in Watched
        PROVE  ThreadTypeOK' /\ NoticeLast' /\ NoticesOfThreads'
    BY <1>0, <2>1, <2>2, <2>4 DEF ThreadTypeOK, NoticeLast, NoticesOfThreads
  <2>5. /\ txn[t].conv \notin Watched => notice' = notice
        /\ txn[t].conv \in Watched =>
             \E n \in Notice : notice' = [notice EXCEPT ![t] = n] /\ n.conv = txn[t].conv
    BY <1>2, AssignNotice
  <2>6. CASE txn[t].conv \notin Watched
    BY <2>3, <2>5, <2>6
  <2>7. CASE txn[t].conv \in Watched
    <3>1. PICK n \in Notice : notice' = [notice EXCEPT ![t] = n] /\ n.conv = txn[t].conv
      BY <2>5, <2>7
    <3>2. n.conv \in Watched
      BY <2>7, <3>1
    <3> QED
      BY <2>4, <3>1, <3>2
  <2> QED
    BY <2>6, <2>7
<1>3. ASSUME NEW t \in Txns,
             RereadActive(t) \/ FindMember(t) \/ RevokeAccess(t) \/ NoticeFails(t)
      PROVE  ThreadTypeOK' /\ NoticeLast' /\ NoticesOfThreads'
  <2>1. txn' = txn /\ joining' = joining
    BY <1>3 DEF RereadActive, FindMember, RevokeAccess, NoticeFails, vars
  <2>2. PICK n \in Notice : /\ notice' = [notice EXCEPT ![t] = n]
                            /\ n = NoNotice \/ n.conv = notice[t].conv
    BY <1>3, NoticeSteps
  <2>3. notice[t] # NoNotice /\ notice[t].conv \in Watched
    BY <1>3, NoticeSteps
  <2>4. room' \in [Watched -> SUBSET Openers] /\ excused' \subseteq Openers \X Watched
    <3>1. CASE RereadActive(t) \/ FindMember(t)
      BY <1>0, <3>1 DEF RereadActive, FindMember
    <3>2. CASE RevokeAccess(t)
      <4>1. room[notice[t].conv] \ {m \in room[notice[t].conv] :
                     Agent(m) /\ m # notice[t].member} \subseteq Openers
        BY <1>0, <2>3
      <4> QED
        BY <1>0, <3>2, <4>1 DEF RevokeAccess
    <3>3. CASE NoticeFails(t)
      <4>1. room[notice[t].conv] \X {notice[t].conv} \subseteq Openers \X Watched
        BY <1>0, <2>3
      <4> QED
        BY <1>0, <3>3, <4>1 DEF NoticeFails
    <3> QED
      BY <1>3, <3>1, <3>2, <3>3
  <2>5. \A u \in Txns : notice'[u] = IF u = t THEN n ELSE notice[u]
    BY <1>0, <2>2
  <2>6. notice' \in [Txns -> Notice]
    BY <1>0, <2>2
  <2> QED
    BY <1>0, <2>1, <2>2, <2>3, <2>4, <2>5, <2>6 DEF ThreadTypeOK, NoticeLast, NoticesOfThreads
<1>4. ASSUME NEW m \in Openers, NEW x \in Watched,
             CanJoin(m, x) \/ Enter(m, x) \/ LeaveThread(m, x)
      PROVE  ThreadTypeOK' /\ NoticeLast' /\ NoticesOfThreads'
  <2>1. txn' = txn /\ notice' = notice
    BY <1>4 DEF CanJoin, Enter, LeaveThread, vars
  <2>2. /\ room' \in [Watched -> SUBSET Openers] /\ joining' \subseteq Openers \X Watched
        /\ excused' \subseteq Openers \X Watched
    BY <1>0, <1>4 DEF CanJoin, Enter, LeaveThread
  <2> QED
    BY <1>0, <2>1, <2>2 DEF ThreadTypeOK, NoticeLast, NoticesOfThreads
<1>5. CASE UNCHANGED accessVars
  BY <1>0, <1>5 DEF accessVars, threadVars, vars, ThreadTypeOK, NoticeLast, NoticesOfThreads
<1> QED
  BY <1>1, <1>2, <1>3, <1>4, <1>5 DEF ThreadNext
-----------------------------------------------------------------------------
(* Strangers. *)

Excuse(m, x) == \/ Announced(x)
                \/ <<m, x>> \in excused
                \/ Holder(x) \in gone

\* While the owner stays, or goes without another, a stranger was one before.
LEMMA StrangerBefore ==
    ASSUME NEW m \in Openers, NEW x \in Watched, Stranger(m, x)',
           KeepsOrLoses(x), gone \subseteq gone', m \in room[x]
    PROVE  Stranger(m, x) /\ Holder(x)' = Holder(x)
<1>1. Holder(x)' # None
  BY DEF Stranger
<1>2. Holder(x)' = Holder(x)
  BY <1>1 DEF KeepsOrLoses
<1> QED
  BY <1>2 DEF Stranger, Agent

LEMMA StepStrangers ==
    ASSUME ThreadInv, IInv', [ThreadNext]_accessVars
    PROVE  StrangersLeave'
<1>0. /\ room \in [Watched -> SUBSET Openers] /\ notice \in [Txns -> Notice]
      /\ \A x \in Watched, m \in Openers : Stranger(m, x) => Excuse(m, x)
      /\ Watched \subseteq Convs
  BY ThreadsAssumption DEF ThreadInv, ThreadTypeOK, StrangersLeave, Excuse
<1>s. SUFFICES ASSUME NEW x \in Watched, NEW m \in Openers, Stranger(m, x)'
               PROVE  Excuse(m, x)'
  BY DEF StrangersLeave, Excuse
\* Nothing moves but the engine, and the owner does not change.
<1>1. ASSUME m \in room[x], KeepsOrLoses(x), gone \subseteq gone', Announced(x) => Announced(x)',
             <<m, x>> \in excused => <<m, x>> \in excused'
      PROVE  Excuse(m, x)'
  <2>1. Stranger(m, x) /\ Holder(x)' = Holder(x)
    BY <1>1, <1>s, StrangerBefore
  <2>2. Excuse(m, x)
    BY <1>0, <2>1
  <2> QED
    BY <1>1, <2>1, <2>2 DEF Excuse
<1>k. UNCHANGED rows => KeepsOrLoses(x)
  BY <1>0, SameRows, ShrinksKeepsOrLoses DEF ThreadInv
<1>2. ASSUME NEW t \in Txns, Engine(t) PROVE Excuse(m, x)'
  <2>1. UNCHANGED <<room, joining, notice, excused>>
    BY <1>2 DEF Engine, threadVars
  <2>2. KeepsOrLoses(x) /\ gone \subseteq gone'
    BY <1>0, <1>2, EngineSteps DEF ThreadInv
  <2>3. m \in room[x]
    BY <1>s, <2>1 DEF Stranger
  <2>4. Announced(x) => Announced(x)'
    <3>1. Holder(x)' = Holder(x)
      BY <1>s, <2>2 DEF KeepsOrLoses, Stranger
    <3> QED
      BY <2>1, <3>1 DEF Announced
  <2> QED
    BY <1>1, <2>1, <2>2, <2>3, <2>4
<1>3. ASSUME NEW t \in Txns, AssignAndNotify(t) PROVE Excuse(m, x)'
  <2>1. UNCHANGED <<room, joining, excused, gone>>
    BY <1>3 DEF AssignAndNotify, CommitAssign
  <2>2. /\ txn[t].conv \in Convs /\ notice[t] = NoNotice
        /\ txn[t].conv \notin Watched => notice' = notice
        /\ txn[t].conv \in Watched =>
             \E n \in Notice : /\ notice' = [notice EXCEPT ![t] = n]
                               /\ n.conv = txn[t].conv
                               /\ n.at = "reread" \/ n.member = txn[t].member
    BY <1>3, AssignNotice
  <2> DEFINE k == Len(rows) + 1
  <2>3. PICK c \in Convs : c = txn[t].conv
    BY <2>2
  <2>a. CommitAssign(t) /\ IInv
    BY <1>3 DEF ThreadInv, AssignAndNotify
  <2>b. /\ OpenRows(c)' = {k} /\ \A z \in Convs \ {c} : Shrinks(z)
        /\ rows'[k] = [conv |-> c, member |-> txn[t].member, reason |-> txn[t].reason,
                       by |-> txn[t].by, open |-> TRUE]
    BY <2>3, <2>a, CommitRows
  <2>4. /\ OpenRows(c)' = {k} /\ rows'[k].member = txn[t].member
        /\ \A z \in Convs \ {c} : Shrinks(z)
    BY <2>b
  <2>5. CASE c = x
    <3>1. (CHOOSE j \in OpenRows(x)' : TRUE) = k
      BY <2>4, <2>5
    <3>2. Holder(x)' = txn[t].member
      BY <2>4, <2>5, <3>1 DEF Holder
    <3>3. PICK n \in Notice : /\ notice' = [notice EXCEPT ![t] = n]
                              /\ n.conv = x
                              /\ n.at = "reread" \/ n.member = txn[t].member
      BY <2>2, <2>3, <2>5
    <3>4. notice'[t] = n
      BY <1>0, <3>3
    <3>5. Announced(x)'
      BY <3>2, <3>3, <3>4 DEF Announced
    <3> QED
      BY <3>5 DEF Excuse
  <2>6. CASE c # x
    <3>1. KeepsOrLoses(x)
      BY <1>0, <2>4, <2>6, ShrinksKeepsOrLoses DEF ThreadInv
    <3>2. m \in room[x]
      BY <1>s, <2>1 DEF Stranger
    <3>3. Announced(x) => Announced(x)'
      <4>1. Holder(x)' = Holder(x)
        BY <1>s, <3>1 DEF KeepsOrLoses, Stranger
      <4>2. \A u \in Txns : notice[u].conv = x => u # t
        BY <1>0, <2>2, NoNoticeType, ThreadsAssumption, MembersAssumption
      <4>3. \A u \in Txns : u # t => notice'[u] = notice[u]
        BY <1>0, <2>2
      <4> QED
        BY <4>1, <4>2, <4>3 DEF Announced
    <3> QED
      BY <1>1, <2>1, <3>1, <3>2, <3>3
  <2> QED
    BY <2>5, <2>6
\* The other steps leave the engine alone.
<1>u. ASSUME UNCHANGED vars
      PROVE  KeepsOrLoses(x) /\ gone \subseteq gone' /\ Holder(x)' = Holder(x)
  <2>1. UNCHANGED <<rows, gone>>
    BY <1>u DEF vars
  <2> QED
    BY <1>k, <2>1 DEF Holder, OpenRows
<1>4. ASSUME NEW t \in Txns, RereadActive(t) PROVE Excuse(m, x)'
  <2>1. UNCHANGED <<vars, room, excused>> /\ notice[t].at = "reread"
    BY <1>4 DEF RereadActive
  <2>2. m \in room[x] /\ Holder(x)' = Holder(x) /\ Holder(x) # None
    BY <1>s, <1>u, <2>1 DEF Stranger
  <2>3. \A v \in Txns : v # t => notice'[v] = notice[v]
    BY <1>0, <1>4 DEF RereadActive
  <2>4. notice[t].conv = x => notice'[t].conv = x /\ notice'[t].member = Holder(x)
    BY <1>0, <1>4, <2>2 DEF RereadActive
  <2>5. Announced(x) => Announced(x)'
    BY <2>2, <2>3, <2>4 DEF Announced
  <2> QED
    BY <1>1, <1>u, <2>1, <2>2, <2>5
<1>5. ASSUME NEW t \in Txns, FindMember(t) PROVE Excuse(m, x)'
  <2>1. UNCHANGED <<vars, room, excused>> /\ notice[t].at = "lookup"
    BY <1>5 DEF FindMember
  <2>2. m \in room[x] /\ Holder(x)' = Holder(x) /\ gone' = gone
    BY <1>s, <1>u, <2>1 DEF Stranger, vars
  <2>3. \A v \in Txns : v # t => notice'[v] = notice[v]
    BY <1>0, <1>5 DEF FindMember
  <2>4. CASE notice[t].member \in gone
    <3>1. CASE Holder(x) \in gone
      BY <2>2, <3>1 DEF Excuse
    <3>2. CASE Holder(x) \notin gone
      <4>1. Announced(x) => Announced(x)'
        BY <2>1, <2>2, <2>3, <2>4, <3>2 DEF Announced
      <4> QED
        BY <1>1, <1>u, <2>1, <2>2, <4>1
    <3> QED
      BY <3>1, <3>2
  <2>5. CASE notice[t].member \notin gone
    <3>1. notice'[t].conv = notice[t].conv /\ notice'[t].member = notice[t].member
      BY <1>0, <1>5, <2>5 DEF FindMember, Notice
    <3>2. Announced(x) => Announced(x)'
      BY <2>1, <2>2, <2>3, <3>1 DEF Announced
    <3> QED
      BY <1>1, <1>u, <2>1, <2>2, <3>2
  <2> QED
    BY <2>4, <2>5
<1>6. ASSUME NEW t \in Txns, RevokeAccess(t) PROVE Excuse(m, x)'
  <2> DEFINE c == notice[t].conv
             out == {b \in room[c] : Agent(b) /\ b # notice[t].member}
  <2>1. /\ UNCHANGED vars /\ notice[t].at = "revoke"
        /\ room' = [room EXCEPT ![c] = @ \ out]
        /\ excused' = excused \ {<<b, c>> : b \in out}
    BY <1>6 DEF RevokeAccess
  <2>2. Holder(x)' = Holder(x) /\ m \in room'[x] /\ Agent(m) /\ Holder(x) \notin {None, m}
    BY <1>s, <1>u, <2>1 DEF Stranger
  <2>3. m \in room[x] /\ (c = x => m \notin out)
    BY <1>0, <2>1, <2>2
  <2>4. \A v \in Txns : v # t => notice'[v] = notice[v]
    BY <1>0, <1>6 DEF RevokeAccess
  <2>5. c = x => notice[t].member = m
    BY <2>2, <2>3
  <2>6. Announced(x) => Announced(x)'
    BY <2>1, <2>2, <2>4, <2>5 DEF Announced
  <2>7. <<m, x>> \in excused => <<m, x>> \in excused'
    BY <2>1, <2>3
  <2> QED
    BY <1>1, <1>u, <2>1, <2>3, <2>6, <2>7
<1>7. ASSUME NEW t \in Txns, NoticeFails(t) PROVE Excuse(m, x)'
  <2>1. /\ UNCHANGED <<vars, room>>
        /\ excused' = excused \cup (room[notice[t].conv] \X {notice[t].conv})
    BY <1>7 DEF NoticeFails
  <2>2. m \in room[x] /\ Holder(x)' = Holder(x)
    BY <1>s, <1>u, <2>1 DEF Stranger
  <2>3. CASE notice[t].conv = x
    BY <2>1, <2>2, <2>3 DEF Excuse
  <2>4. CASE notice[t].conv # x
    <3>1. \A v \in Txns : v # t => notice'[v] = notice[v]
      BY <1>0, <1>7 DEF NoticeFails
    <3>2. Announced(x) => Announced(x)'
      BY <2>2, <2>4, <3>1 DEF Announced
    <3> QED
      BY <1>1, <1>u, <2>1, <2>2, <3>2
  <2> QED
    BY <2>3, <2>4
<1>8. ASSUME NEW b \in Openers, NEW y \in Watched,
             CanJoin(b, y) \/ Enter(b, y) \/ LeaveThread(b, y)
      PROVE  Excuse(m, x)'
  <2>1. UNCHANGED <<vars, notice>>
    BY <1>8 DEF CanJoin, Enter, LeaveThread
  <2>2. Holder(x)' = Holder(x) /\ m \in room'[x] /\ Holder(x) \notin {None, m}
    BY <1>s, <1>u, <2>1 DEF Stranger
  <2>3. Announced(x) => Announced(x)'
    BY <2>1, <2>2 DEF Announced
  <2>4. CASE Enter(b, y) /\ b = m /\ y = x
    BY <2>2, <2>4 DEF Enter, Excuse
  <2>5. CASE ~(Enter(b, y) /\ b = m /\ y = x)
    <3>1. m \in room[x] /\ (<<m, x>> \in excused => <<m, x>> \in excused')
      BY <1>0, <1>8, <2>2, <2>5 DEF CanJoin, Enter, LeaveThread
    <3> QED
      BY <1>1, <1>u, <2>1, <2>3, <3>1
  <2> QED
    BY <2>4, <2>5
<1>9. CASE UNCHANGED accessVars
  <2>1. UNCHANGED <<vars, room, notice, excused>>
    BY <1>9 DEF accessVars, threadVars
  <2>2. m \in room[x] /\ Holder(x)' = Holder(x)
    BY <1>s, <1>u, <2>1 DEF Stranger
  <2>3. Announced(x) => Announced(x)'
    BY <2>1, <2>2 DEF Announced
  <2> QED
    BY <1>1, <1>u, <2>1, <2>2, <2>3
<1> QED
  BY <1>2, <1>3, <1>4, <1>5, <1>6, <1>7, <1>8, <1>9 DEF ThreadNext
-----------------------------------------------------------------------------
LEMMA ThreadInvariant == ThreadSpec => []ThreadInv
<1>1. ThreadInv /\ [ThreadNext]_accessVars => ThreadInv'
  <2> SUFFICES ASSUME ThreadInv, [ThreadNext]_accessVars
               PROVE  ThreadInv'
    OBVIOUS
  <2>1. IInv'
    BY StepsOfEngine, StepInv DEF ThreadInv
  <2>2. ThreadTypeOK' /\ NoticeLast' /\ NoticesOfThreads'
    BY StepThreadTypes
  <2>3. StrangersLeave'
    BY <2>1, StepStrangers
  <2> QED
    BY <2>1, <2>2, <2>3 DEF ThreadInv
<1> QED
  BY <1>1, ThreadInitInv, PTL DEF ThreadSpec

\* Rooms, joins and notices keep their types.
THEOREM ThreadTypes == ThreadSpec => []ThreadTypeOK
<1>1. ThreadInv => ThreadTypeOK
  BY DEF ThreadInv
<1> QED
  BY <1>1, ThreadInvariant, PTL

\* Whatever assignments, removals, joins and notices cross, an agent is in the
\* thread of somebody else's conversation only while the notice of the
\* assignment is on its way, after a join an assignment overtook or a notice
\* that failed, or when the owner has been removed.
THEOREM StrangersAreMadeToLeave == ThreadSpec => []StrangersLeave
<1>1. ThreadInv => StrangersLeave
  BY DEF ThreadInv
<1> QED
  BY <1>1, ThreadInvariant, PTL
-----------------------------------------------------------------------------
(* The sockets of a user whose memberships change (Sessions). *)

\* Revocations whose marker this process has set, as far as it knows.
Marked(k) == revoke[k].at \in {"marked", "stored", "done"}

\* A view of the process that may be used, and that no answer from before a
\* marker has overwritten, is as late as every marker.
ViewIsLate ==
    local.fresh /\ local.from \notin {"raced", "outage"} =>
        \A k \in ClaimChanges : Marked(k) => revoke[k].staleAt <= local.staleAt

\* A connected socket has a token from after the markers, or an excuse.
Excused(s) ==
    connection[s].at = "in" =>
        \A k \in ClaimChanges : revoke[k].at = "done" =>
            \/ revoke[k].staleAt <= connection[s].token.ts
            \/ connection[s].from \in {"raced", "outage"}

\* An answer comes from the cache, or is the old view if the lookup failed.
Asking(s) == /\ connection[s].at \in {"ask", "reply"}
             /\ connection[s].from \in {"cache", "outage"}
SocketSound(s) == Excused(s) /\ (connection[s].at \in {"ask", "reply"} => Asking(s))

SessionsInv ==
    /\ SessionsTypeOK
    /\ \A k \in ClaimChanges : revoke[k].staleAt <= clock
    /\ ViewIsLate
    /\ \A s \in Browsers : SocketSound(s)

LEMMA SessionsTimes ==
    ASSUME SessionsTypeOK
    PROVE  /\ clock \in Nat /\ local.staleAt \in Nat
           /\ \A k \in ClaimChanges : revoke[k].staleAt \in Nat
           /\ \A s \in Browsers : /\ connection[s].token.ts \in Nat
                                  /\ connection[s].heard \in Nat
           /\ \A token \in issued : token.ts \in Nat
BY SessionsAssumption DEF SessionsTypeOK, Times, Tokens

LEMMA InitSessions == SessionsInit => SessionsInv
<1> SUFFICES ASSUME SessionsInit PROVE SessionsInv
  OBVIOUS
<1>1. FirstToken \in Tokens /\ 0 \in Times /\ 1 \in 1..MaxClock
  BY SessionsAssumption DEF FirstToken, Tokens, Times
<1>2. NoConnection \in [at: {"off", "ask", "reply", "in"}, token: Tokens,
                        heard: Times, from: Sources]
  BY <1>1 DEF NoConnection, Sources
<1>3. SessionsTypeOK
  BY <1>1, <1>2, SessionsAssumption DEF SessionsInit, SessionsTypeOK, Sources
<1>4. ViewIsLate /\ \A k \in ClaimChanges : revoke[k].staleAt <= clock
  BY DEF SessionsInit, ViewIsLate
<1>5. \A s \in Browsers : SocketSound(s)
  BY DEF SessionsInit, SocketSound, Excused, NoConnection
<1> QED
  BY <1>3, <1>4, <1>5 DEF SessionsInv

\* A socket that comes in on a view that no answer from before a marker has
\* overwritten was checked against every marker.
LEMMA DecideExcused ==
    ASSUME SessionsInv, NEW s \in Browsers, NEW token \in Tokens,
           NEW staleAt \in Times, NEW from \in Sources,
           Decide(s, token, staleAt, from), UNCHANGED revoke,
           from \notin {"raced", "outage"} =>
               \A k \in ClaimChanges : Marked(k) => revoke[k].staleAt <= staleAt
    PROVE  /\ connection' \in [Browsers -> [at: {"off", "ask", "reply", "in"},
                                            token: Tokens, heard: Times, from: Sources]]
           /\ \A u \in Browsers : SocketSound(u)'
<1> DEFINE new == [at |-> "in", token |-> token, heard |-> staleAt, from |-> from]
           C == [at: {"off", "ask", "reply", "in"}, token: Tokens,
                 heard: Times, from: Sources]
<1>1. NoConnection \in C /\ NoConnection.at = "off"
  BY SessionsAssumption DEF NoConnection, FirstToken, Tokens, Times, Sources
<1>2. new \in C /\ new.at = "in" /\ new.token = token /\ new.from = from
  OBVIOUS
<1>3. connection \in [Browsers -> C]
  BY DEF SessionsInv, SessionsTypeOK
<1>4. connection' = [connection EXCEPT ![s] =
                       IF token.ts < staleAt THEN NoConnection ELSE new]
  BY DEF Decide
<1> HIDE DEF new, C
<1>5. connection' \in [Browsers -> C]
  BY <1>1, <1>2, <1>3, <1>4
<1>6. ASSUME NEW u \in Browsers, u # s PROVE SocketSound(u)'
  <2>1. connection'[u] = connection[u] /\ SocketSound(u)
    BY <1>3, <1>4, <1>6 DEF SessionsInv
  <2> QED
    BY <2>1 DEF SocketSound, Excused, Asking
<1>7. SocketSound(s)'
  <2>1. CASE token.ts < staleAt
    BY <1>1, <1>3, <1>4, <2>1 DEF SocketSound, Excused
  <2>2. CASE ~(token.ts < staleAt)
    <3>1. connection'[s] = new
      BY <1>3, <1>4, <2>2
    <3>2. token.ts \in Nat /\ staleAt \in Nat
      BY SessionsAssumption DEF Tokens, Times
    <3>3. ASSUME NEW k \in ClaimChanges, revoke[k].at = "done",
                 from \notin {"raced", "outage"}
          PROVE  revoke[k].staleAt <= token.ts
      <4>1. revoke[k].staleAt <= staleAt /\ revoke[k].staleAt \in Nat
        BY <3>3, SessionsTimes DEF Marked, SessionsInv
      <4> QED
        BY <2>2, <3>2, <4>1
    <3> QED
      BY <1>2, <3>1, <3>3 DEF SocketSound, Excused
  <2> QED
    BY <2>1, <2>2
<1> QED
  BY <1>5, <1>6, <1>7 DEF C

\* A step that connects nobody and settles no revocation.
LEMMA ConnectionsExcused ==
    ASSUME SessionsInv,
           \A s \in Browsers :
              connection'[s].at = "off" \/ connection'[s] = connection[s] \/ Asking(s)',
           \A k \in ClaimChanges : revoke'[k].at = "done" => revoke'[k] = revoke[k]
    PROVE  \A s \in Browsers : SocketSound(s)'
BY DEF SessionsInv, SocketSound, Excused, Asking

\* What only the marks and the view need.
LEMMA ViewKept ==
    ASSUME SessionsInv, UNCHANGED local,
           \A k \in ClaimChanges : Marked(k)' => Marked(k) /\ revoke'[k].staleAt = revoke[k].staleAt
    PROVE  ViewIsLate'
BY DEF SessionsInv, ViewIsLate

LEMMA StepSessions ==
    ASSUME SessionsInv, [SessionsNext]_sessionsVars
    PROVE  SessionsInv'
<1> DEFINE C == [at: {"off", "ask", "reply", "in"}, token: Tokens,
                 heard: Times, from: Sources]
           R == [at: {"none", "due", "marked", "stored", "done", "unstored", "lost"},
                 staleAt: Times]
<1>0. /\ SessionsTypeOK /\ ViewIsLate
      /\ \A k \in ClaimChanges : revoke[k].staleAt <= clock
      /\ connection \in [Browsers -> C] /\ revoke \in [ClaimChanges -> R]
  BY DEF SessionsInv, SessionsTypeOK
<1>a. NoConnection \in C /\ NoConnection.at = "off"
  BY SessionsAssumption DEF NoConnection, FirstToken, Tokens, Times, Sources
<1>b. clock \in Times /\ clock \in Nat
  BY <1>0, SessionsAssumption DEF SessionsTypeOK, Times
<1>1. CASE ChangeClaims
  <2>1. /\ claims' = claims + 1 /\ claims < MaxClaimChanges
        /\ revoke' = [revoke EXCEPT ![claims + 1].at = "due"]
        /\ UNCHANGED <<marker, local, issued, reads, connection, clock, failures>>
    BY <1>1 DEF ChangeClaims
  <2>2. SessionsTypeOK'
    <3>1. claims' \in 0..MaxClaimChanges /\ claims + 1 \in ClaimChanges
      BY <1>0, <2>1, SessionsAssumption DEF SessionsTypeOK, ClaimChanges
    <3>2. revoke' \in [ClaimChanges -> R]
      BY <1>0, <2>1, <3>1
    <3> QED
      BY <1>0, <2>1, <3>1, <3>2 DEF SessionsTypeOK
  <2>3. \A k \in ClaimChanges : /\ revoke'[k].staleAt = revoke[k].staleAt
                                /\ revoke'[k].at \in {revoke[k].at, "due"}
                                /\ revoke'[k].at # "due" => revoke'[k] = revoke[k]
    BY <1>0, <2>1
  <2>4. ViewIsLate' /\ \A s \in Browsers : SocketSound(s)'
    BY <2>1, <2>3, ViewKept, ConnectionsExcused DEF Marked
  <2> QED
    BY <1>0, <2>1, <2>2, <2>3, <2>4 DEF SessionsInv
<1>2. CASE FindActiveClaims \/ Sign \/ Tick
  <2>1. UNCHANGED <<revoke, local, connection>>
    BY <1>2 DEF FindActiveClaims, Sign, Tick
  <2>2. SessionsTypeOK'
    <3>1. CASE FindActiveClaims
      BY <1>0, <3>1 DEF FindActiveClaims, SessionsTypeOK
    <3>2. CASE Sign
      BY <1>0, <3>2 DEF Sign, SessionsTypeOK, Tokens
    <3>3. CASE Tick
      BY <1>0, <3>3, SessionsAssumption DEF Tick, SessionsTypeOK
    <3> QED
      BY <1>2, <3>1, <3>2, <3>3
  <2>3. \A k \in ClaimChanges : revoke'[k].staleAt <= clock'
    <3>1. clock' \in Nat /\ clock <= clock'
      BY <1>2, <1>b DEF FindActiveClaims, Sign, Tick
    <3> QED
      BY <1>0, <1>b, <2>1, <3>1, SessionsTimes
  <2>4. ViewIsLate' /\ \A s \in Browsers : SocketSound(s)'
    BY <2>1, ViewKept, ConnectionsExcused DEF Marked
  <2> QED
    BY <2>2, <2>3, <2>4 DEF SessionsInv
<1>3. CASE ViewExpires
  <2>1. /\ local' = [local EXCEPT !.fresh = FALSE]
        /\ UNCHANGED <<claims, revoke, marker, issued, reads, connection, clock, failures>>
    BY <1>3 DEF ViewExpires
  <2>2. SessionsTypeOK' /\ ~ local'.fresh
    BY <1>0, <2>1 DEF SessionsTypeOK
  <2>3. ViewIsLate' /\ \A s \in Browsers : SocketSound(s)'
    BY <2>1, <2>2, ConnectionsExcused DEF ViewIsLate
  <2> QED
    BY <1>0, <2>1, <2>2, <2>3 DEF SessionsInv
<1>4. CASE RestartProcess
  <2>1. /\ connection' = [s \in Browsers |-> NoConnection]
        /\ local' = [staleAt |-> 0, fresh |-> FALSE, from |-> "cache"]
        /\ reads' = {} /\ UNCHANGED <<claims, marker, issued, clock>>
        /\ failures < MaxFailures /\ failures' = failures + 1
    BY <1>4 DEF RestartProcess, Failure
  <2>2. revoke' = [k \in ClaimChanges |-> [revoke[k] EXCEPT !.at =
            CASE @ \in {"due", "marked"} -> "lost" [] @ = "stored" -> "done" [] OTHER -> @]]
    BY <1>4 DEF RestartProcess
  <2>3. revoke' \in [ClaimChanges -> R]
        /\ \A k \in ClaimChanges : revoke'[k].staleAt = revoke[k].staleAt
    BY <1>0, <2>2
  <2>4. SessionsTypeOK'
    <3>1. 0 \in Times /\ "cache" \in Sources
      BY SessionsAssumption DEF Times, Sources
    <3> QED
      BY <1>0, <1>a, <2>1, <2>3, <3>1, SessionsAssumption DEF SessionsTypeOK
  <2>5. ViewIsLate' /\ \A s \in Browsers : SocketSound(s)'
    BY <1>a, <2>1 DEF ViewIsLate, Excused, SocketSound
  <2> QED
    BY <1>0, <2>1, <2>3, <2>4, <2>5 DEF SessionsInv
<1>5. ASSUME NEW k \in ClaimChanges, MarkLocally(k) PROVE SessionsInv'
  <2>1. /\ revoke' = [revoke EXCEPT ![k] = [at |-> "marked", staleAt |-> clock]]
        /\ local' = [staleAt |-> clock, fresh |-> TRUE, from |-> "revoke"]
        /\ UNCHANGED <<claims, marker, issued, reads, connection, clock, failures>>
    BY <1>5 DEF MarkLocally
  <2>2. /\ revoke' \in [ClaimChanges -> R]
        /\ revoke'[k].at = "marked" /\ revoke'[k].staleAt = clock
        /\ \A j \in ClaimChanges \ {k} : revoke'[j] = revoke[j]
    BY <1>0, <1>b, <2>1
  <2>3. SessionsTypeOK'
    BY <1>0, <1>b, <2>1, <2>2 DEF SessionsTypeOK, Sources
  <2>4. \A j \in ClaimChanges : revoke'[j].staleAt <= clock
    BY <1>0, <1>b, <2>2
  <2>5. ViewIsLate'
    BY <2>1, <2>4 DEF ViewIsLate
  <2>6. \A s \in Browsers : SocketSound(s)'
    BY <2>1, <2>2, ConnectionsExcused
  <2> QED
    BY <2>1, <2>3, <2>4, <2>5, <2>6 DEF SessionsInv
<1>6. ASSUME NEW k \in ClaimChanges, StoreMarker(k) PROVE SessionsInv'
  <2>1. /\ marker' = revoke[k].staleAt
        /\ revoke' = [revoke EXCEPT ![k].at = "stored"] /\ revoke[k].at = "marked"
        /\ UNCHANGED <<claims, local, issued, reads, connection, clock, failures>>
    BY <1>6 DEF StoreMarker
  <2>2. /\ revoke' \in [ClaimChanges -> R]
        /\ revoke'[k].at = "stored" /\ revoke'[k].staleAt = revoke[k].staleAt
        /\ \A j \in ClaimChanges \ {k} : revoke'[j] = revoke[j]
    BY <1>0, <2>1
  <2>3. SessionsTypeOK'
    BY <1>0, <2>1, <2>2 DEF SessionsTypeOK
  <2>4. ViewIsLate'
    BY <2>1, <2>2, ViewKept DEF Marked
  <2>5. \A s \in Browsers : SocketSound(s)'
    BY <2>1, <2>2, ConnectionsExcused
  <2> QED
    BY <1>0, <2>1, <2>2, <2>3, <2>4, <2>5 DEF SessionsInv
<1>7. ASSUME NEW k \in ClaimChanges, NEW at \in {"done", "unstored"},
             revoke' = [revoke EXCEPT ![k].at = at], Marked(k), DropAll,
             UNCHANGED <<claims, local, issued, reads, clock>>,
             marker' \in Times, failures' \in 0..MaxFailures
      PROVE  SessionsInv'
  <2>1. /\ revoke' \in [ClaimChanges -> R]
        /\ revoke'[k].at = at /\ revoke'[k].staleAt = revoke[k].staleAt
        /\ \A j \in ClaimChanges \ {k} : revoke'[j] = revoke[j]
    BY <1>0, <1>7
  <2>2. /\ connection' \in [Browsers -> C]
        /\ \A s \in Browsers : connection'[s].at # "in"
    BY <1>0, <1>7, <1>a DEF DropAll
  <2>3. SessionsTypeOK'
    BY <1>0, <1>7, <2>1, <2>2 DEF SessionsTypeOK
  <2>4. ViewIsLate'
    BY <1>7, <2>1, ViewKept DEF Marked
  <2>5. \A s \in Browsers : SocketSound(s)'
    <3>1. ASSUME NEW s \in Browsers
          PROVE  connection'[s].at = "off" \/ connection'[s] = connection[s]
      BY <1>0, <1>7, <1>a DEF DropAll
    <3> QED
      BY <2>2, <3>1 DEF SessionsInv, Excused, SocketSound, Asking
  <2> QED
    BY <1>0, <1>7, <2>1, <2>3, <2>4, <2>5 DEF SessionsInv
<1>8. ASSUME NEW k \in ClaimChanges, Kick(k) PROVE SessionsInv'
  BY <1>0, <1>7, <1>8 DEF Kick, Marked, SessionsTypeOK
<1>9. ASSUME NEW k \in ClaimChanges, StoreFails(k) PROVE SessionsInv'
  <2>1. marker' \in Times /\ failures' \in 0..MaxFailures
    BY <1>0, <1>9, SessionsAssumption DEF StoreFails, Failure, SessionsTypeOK
  <2> QED
    BY <1>7, <1>9, <2>1 DEF StoreFails, Marked
<1>10. ASSUME NEW s \in Browsers, Handshake(s) PROVE SessionsInv'
  <2>1. /\ UNCHANGED <<claims, revoke, marker, local, issued, reads, clock, failures>>
        /\ ViewIsLate' /\ issued \subseteq Tokens
    BY <1>0, <1>10, ViewKept DEF Handshake, Marked, SessionsTypeOK
  <2>2. PICK token \in issued :
          IF local.fresh
          THEN Decide(s, token, local.staleAt, local.from)
          ELSE connection' = [connection EXCEPT ![s] =
                  [at |-> "ask", token |-> token, heard |-> local.staleAt, from |-> "outage"]]
    BY <1>10 DEF Handshake
  <2>3. local.staleAt \in Times /\ local.from \in Sources
    BY <1>0 DEF SessionsTypeOK
  <2>4. connection' \in [Browsers -> C] /\ \A u \in Browsers : SocketSound(u)'
    <3>1. CASE local.fresh
      <4>1. local.from \notin {"raced", "outage"} =>
               \A k \in ClaimChanges : Marked(k) => revoke[k].staleAt <= local.staleAt
        BY <1>0, <3>1 DEF ViewIsLate
      <4>2. Decide(s, token, local.staleAt, local.from)
        BY <2>2, <3>1
      <4> QED
        BY <2>1, <2>3, <4>1, <4>2, DecideExcused
    <3>2. CASE ~ local.fresh
      <4>1. connection' = [connection EXCEPT ![s] =
                  [at |-> "ask", token |-> token, heard |-> local.staleAt, from |-> "outage"]]
        BY <2>2, <3>2
      <4>2. connection' \in [Browsers -> C]
        BY <1>0, <2>1, <2>3, <4>1 DEF Sources
      <4>3. \A u \in Browsers : connection'[u] = connection[u] \/ Asking(u)'
        BY <1>0, <4>1 DEF Asking
      <4> QED
        BY <2>1, <4>2, <4>3, ConnectionsExcused
    <3> QED
      BY <3>1, <3>2
  <2>5. SessionsTypeOK'
    BY <1>0, <2>1, <2>4 DEF SessionsTypeOK
  <2> QED
    BY <1>0, <2>1, <2>4, <2>5 DEF SessionsInv
<1>11. ASSUME NEW s \in Browsers, Lookup(s) \/ LookupFails(s) \/ Leave(s)
       PROVE  SessionsInv'
  <2>1. /\ UNCHANGED <<claims, revoke, marker, local, issued, reads, clock>>
        /\ failures' \in 0..MaxFailures
    BY <1>0, <1>11, SessionsAssumption
       DEF Lookup, LookupFails, Leave, Failure, SessionsTypeOK
  <2>2. /\ connection' \in [Browsers -> C]
        /\ \A u \in Browsers :
              connection'[u].at = "off" \/ connection'[u] = connection[u] \/ Asking(u)'
    <3> DEFINE me == connection[s]
    <3>0. me \in C /\ (me.at \in {"ask", "reply"} => me.from \in {"cache", "outage"})
      BY <1>0 DEF SessionsInv, SocketSound, Asking
    <3>1. CASE Lookup(s)
      <4> DEFINE new == [me EXCEPT !.at = "reply", !.heard = marker, !.from = "cache"]
      <4>1. new \in C /\ new.at = "reply" /\ new.from = "cache"
        BY <1>0, <3>0 DEF SessionsTypeOK, Sources
      <4>2. connection' = [connection EXCEPT ![s] = new]
        BY <3>1 DEF Lookup
      <4> HIDE DEF new, C
      <4> QED
        BY <1>0, <4>1, <4>2 DEF Asking
    <3>2. CASE LookupFails(s)
      BY <1>0, <3>0, <3>2 DEF LookupFails, Asking
    <3>3. CASE Leave(s)
      BY <1>0, <1>a, <3>3 DEF Leave
    <3> QED
      BY <1>11, <3>1, <3>2, <3>3
  <2>3. SessionsTypeOK'
    BY <1>0, <2>1, <2>2 DEF SessionsTypeOK
  <2>4. ViewIsLate' /\ \A u \in Browsers : SocketSound(u)'
    BY <2>1, <2>2, ViewKept, ConnectionsExcused DEF Marked
  <2> QED
    BY <1>0, <2>1, <2>3, <2>4 DEF SessionsInv
<1>12. ASSUME NEW s \in Browsers, Reply(s) PROVE SessionsInv'
  <2> DEFINE me == connection[s]
             from == IF me.from = "cache" /\ \E k \in ClaimChanges :
                        /\ revoke[k].at \in {"marked", "stored", "done"}
                        /\ me.heard < revoke[k].staleAt
                     THEN "raced" ELSE me.from
  <2>1. /\ UNCHANGED <<claims, revoke, marker, issued, reads, clock, failures>>
        /\ me.at = "reply"
        /\ local' = [staleAt |-> me.heard, fresh |-> TRUE, from |-> from]
        /\ Decide(s, me.token, me.heard, from)
    BY <1>12 DEF Reply
  <2>2. me.token \in Tokens /\ me.heard \in Times /\ me.heard \in Nat /\ me.from \in Sources
    BY <1>0, SessionsTimes
  <2>3. from \in Sources
    BY <2>2 DEF Sources
  <2>4. ASSUME from \notin {"raced", "outage"}, NEW k \in ClaimChanges, Marked(k)
        PROVE  revoke[k].staleAt <= me.heard
    <3>1. revoke[k].staleAt \in Nat
      BY <1>0, SessionsTimes
    <3>2. me.from = "cache"
      BY <2>1, <2>4 DEF SessionsInv, SocketSound, Asking
    <3>3. ~(me.heard < revoke[k].staleAt)
      BY <2>4, <3>2 DEF Marked
    <3> QED
      BY <2>2, <3>1, <3>3
  <2>5. ViewIsLate'
    <3>1. local'.from = from /\ local'.staleAt = me.heard
      BY <2>1
    <3> HIDE DEF me, from
    <3> QED
      BY <2>1, <2>4, <3>1 DEF ViewIsLate, Marked
  <2>6. connection' \in [Browsers -> C] /\ \A u \in Browsers : SocketSound(u)'
    <3> HIDE DEF from
    <3> QED
      BY <2>1, <2>2, <2>3, <2>4, DecideExcused
  <2>7. SessionsTypeOK'
    <3> HIDE DEF from
    <3> QED
      BY <1>0, <2>1, <2>2, <2>3, <2>6 DEF SessionsTypeOK
  <2> QED
    BY <1>0, <2>1, <2>5, <2>6, <2>7 DEF SessionsInv
<1>13. CASE UNCHANGED sessionsVars
  <2>1. SessionsTypeOK'
    BY <1>0, <1>13 DEF sessionsVars, SessionsTypeOK
  <2>2. ViewIsLate' /\ \A u \in Browsers : SocketSound(u)'
    BY <1>13, ViewKept, ConnectionsExcused DEF sessionsVars, Marked
  <2> QED
    BY <1>0, <1>13, <2>1, <2>2 DEF SessionsInv, sessionsVars
<1> QED
  BY <1>1, <1>2, <1>3, <1>4, <1>5, <1>6, <1>8, <1>9, <1>10, <1>11, <1>12, <1>13
     DEF SessionsNext

LEMMA SessionsInvariant == SessionsSpec => []SessionsInv
BY InitSessions, StepSessions, PTL DEF SessionsSpec

\* Tokens, markers, views and sockets are well formed, for any number of
\* browsers and changes of the memberships.
THEOREM SessionsTypes == SessionsSpec => []SessionsTypeOK
<1>1. SessionsInv => SessionsTypeOK
  BY DEF SessionsInv
<1> QED
  BY SessionsInvariant, <1>1, PTL

\* A socket lives on claims that were revoked only if its token was signed
\* after the marker, a lookup failed, or an answer from before the marker had
\* overwritten the view of the process.
THEOREM OldClaimsAreExcused == SessionsSpec => []OldClaimsHaveACause
<1>1. SessionsInv => OldClaimsHaveACause
  <2> SUFFICES ASSUME SessionsInv, NEW s \in Browsers, NEW k \in ClaimChanges,
                      connection[s].at = "in", revoke[k].at = "done"
               PROVE  \/ connection[s].token.ts >= revoke[k].staleAt
                      \/ connection[s].from \in {"raced", "outage"}
    BY DEF OldClaimsHaveACause
  <2>1. connection[s].token.ts \in Nat /\ revoke[k].staleAt \in Nat
    BY SessionsTimes DEF SessionsInv
  <2> QED
    BY <2>1 DEF SessionsInv, SocketSound, Excused
<1> QED
  BY SessionsInvariant, <1>1, PTL
============================================================================
