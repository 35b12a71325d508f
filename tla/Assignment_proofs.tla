------------------------- MODULE Assignment_proofs -------------------------
(***************************************************************************)
(* The assignment engine keeps its types, has one active assignment per    *)
(* conversation, and no automatic assignment or claim takes a conversation *)
(* from its owner; the owner column follows the active assignment, only    *)
(* removals leave conversations without one, and the cap on automatic      *)
(* assignments is overshot by less than the transactions at a time: for    *)
(* every number of conversations, members and transactions and every       *)
(* setting of the company.                                                 *)
(***************************************************************************)
EXTENDS Assignment, TLAPS, FiniteSetTheorems, SequenceTheorems,
        WellFoundedInduction

Deciding(t)  == txn[t].stage \in {"chosen", "closing"}
Releasing(t) == txn[t].stage \in {"read", "releasing"}

\* The transaction that decides for a conversation holds its row.
HoldsLock(t) == Deciding(t) => /\ txn[t].conv \in Convs
                               /\ txn[t].member \in Members
                               /\ txn[t].reason \in Reasons
                               /\ lock[txn[t].conv] = t

\* What it decided on still holds: nobody else owns the conversation.
StillFree(t) == Deciding(t) /\ txn[t].reason # "transfer" =>
                   \A i \in OpenRows(txn[t].conv) : rows[i].member = txn[t].member

Supervised(t) == Deciding(t) /\ txn[t].reason = "transfer" =>
                    txn[t].by \in Supervisors

\* Its UPDATE closed every active row of the conversation.
ClosesAll(t) == txn[t].stage = "closing" =>
                   OpenRows(txn[t].conv) \subseteq txn[t].closes

Removes(t) == Releasing(t) => txn[t].member \in Removable

Sound(t) == /\ HoldsLock(t)
            /\ StillFree(t)
            /\ Supervised(t)
            /\ ClosesAll(t)
            /\ Removes(t)

IInv == /\ TypeOK
        /\ \A t \in Txns : Sound(t)
        /\ OneActive
-----------------------------------------------------------------------------
(* The candidate of an automatic assignment. *)

\* A set of natural numbers has a least element.
LEMMA Least ==
    ASSUME NEW T \in SUBSET Nat, T # {}
    PROVE  \E x \in T : \A y \in T : x <= y
<1>1. PICK x \in T : \A y \in T : ~ (<<y, x>> \in OpToRel(<, Nat))
  BY NatLessThanWellFounded, WFMin
<1>2. \A y \in T : ~ (y < x)
  BY <1>1 DEF OpToRel
<1> QED
  BY <1>2

\* A non-empty set of numbers up to n has a greatest element.
LEMMA Greatest ==
    ASSUME NEW n \in Nat, NEW T \in SUBSET (1..n), T # {}
    PROVE  \E i \in T : \A j \in T : j <= i
<1> DEFINE U == {n - i : i \in T}
<1>1. U \in SUBSET Nat /\ U # {}
  <2>1. \A i \in T : i \in 1..n /\ n - i \in Nat
    OBVIOUS
  <2> QED
    BY <2>1
<1>2. PICK k \in U : \A y \in U : k <= y
  BY <1>1, Least
<1>3. PICK i \in T : k = n - i
  BY <1>2
<1>4. ASSUME NEW j \in T PROVE j <= i
  <2>1. n - i <= n - j
    BY <1>2, <1>3
  <2> HIDE DEF U
  <2> QED
    BY <2>1
<1> QED
  BY <1>4

LEMMA LoadType ==
    ASSUME rows \in Seq(Row), NEW m
    PROVE  Load(m) \in Nat
<1>1. Len(rows) \in Nat
  BY LenProperties
<1>2. IsFiniteSet(1..Len(rows))
  BY <1>1, FS_Interval
<1>3. OpenOf(m) \subseteq 1..Len(rows)
  BY DEF OpenOf
<1> QED
  BY <1>2, <1>3, FS_Subset, FS_CardinalityType DEF Load

LEMMA LastAssignedType ==
    ASSUME rows \in Seq(Row), NEW m
    PROVE  LastAssigned(m) \in Nat
<1>1. Len(rows) \in Nat /\ OpenOf(m) \in SUBSET (1..Len(rows))
  BY LenProperties DEF OpenOf
<1>2. CASE OpenOf(m) = {}
  BY <1>2 DEF LastAssigned
<1>3. CASE OpenOf(m) # {}
  <2>1. LastAssigned(m) \in OpenOf(m)
    BY <1>1, <1>3, Greatest DEF LastAssigned
  <2> QED
    BY <1>1, <2>1
<1> QED
  BY <1>2, <1>3

\* The least load, the oldest assignment and the lowest id leave one member.
LEMMA FirstExists ==
    ASSUME rows \in Seq(Row), Eligible # {}
    PROVE  \E m \in Eligible : \A n \in Eligible : Before(m, n)
<1> DEFINE L == {Load(m) : m \in Eligible}
           E == {m \in Eligible : \A n \in Eligible : Load(m) <= Load(n)}
           A == {LastAssigned(m) : m \in E}
           F == {m \in E : \A n \in E : LastAssigned(m) <= LastAssigned(n)}
<1>0. /\ \A m \in Eligible : Load(m) \in Nat /\ LastAssigned(m) \in Nat
      /\ Eligible \subseteq Nat
  BY LoadType, LastAssignedType, MembersAssumption DEF Eligible, ActiveMembers
<1>1. PICK k \in L : \A y \in L : k <= y
  <2>1. L \in SUBSET Nat /\ L # {}
    BY <1>0
  <2> QED
    BY <2>1, Least
<1>2. E # {} /\ E \subseteq Eligible
  BY <1>1
<1>3. PICK a \in A : \A y \in A : a <= y
  <2>1. A \in SUBSET Nat /\ A # {}
    BY <1>0, <1>2
  <2> QED
    BY <2>1, Least
<1>4. F # {} /\ F \subseteq E
  BY <1>3
<1>5. PICK m \in F : \A n \in F : m <= n
  <2>1. F \in SUBSET Nat
    BY <1>0, <1>2, <1>4
  <2> QED
    BY <2>1, <1>4, Least
<1>6. ASSUME NEW n \in Eligible PROVE Before(m, n)
  <2>1. m \in Eligible /\ m \in E
    BY <1>2, <1>4, <1>5
  <2>2. Load(m) <= Load(n)
    BY <2>1, <1>6
  <2>3. CASE Load(m) < Load(n)
    BY <2>3 DEF Before
  <2>4. CASE Load(m) = Load(n)
    <3>1. n \in E
      BY <2>1, <2>4, <1>6
    <3>2. LastAssigned(m) <= LastAssigned(n)
      BY <3>1, <1>5
    <3>3. CASE LastAssigned(m) < LastAssigned(n)
      BY <2>4, <3>3 DEF Before
    <3>4. CASE LastAssigned(m) = LastAssigned(n)
      <4>1. n \in F
        BY <3>1, <3>4, <1>5
      <4> QED
        BY <2>4, <3>4, <4>1, <1>5 DEF Before
    <3> QED
      BY <3>2, <3>3, <3>4, <2>1, <1>0
  <2> QED
    BY <2>2, <2>3, <2>4, <2>1, <1>0
<1> QED
  BY <1>6, <1>5, <1>4, <1>2

LEMMA CandidateType ==
    ASSUME rows \in Seq(Row), Eligible # {}, NEW x
    PROVE  Candidate(x) \in Members
<1>1. Eligible \subseteq Members
  BY DEF Eligible, ActiveMembers
<1>2. CASE Sticky /\ Previous(x) \in Eligible
  BY <1>1, <1>2 DEF Candidate
<1>3. CASE ~(Sticky /\ Previous(x) \in Eligible)
  <2>1. (CHOOSE m \in Eligible : \A n \in Eligible : Before(m, n)) \in Eligible
    BY FirstExists
  <2> QED
    BY <1>1, <1>3, <2>1 DEF Candidate
<1> QED
  BY <1>2, <1>3
-----------------------------------------------------------------------------
(* The history. *)

\* The active rows of a conversation were active and name the same members.
Shrinks(x) == /\ OpenRows(x)' \subseteq OpenRows(x)
              /\ \A i \in OpenRows(x)' : rows'[i].member = rows[i].member

\* Rows are added behind the old ones, of which some are closed.
Keeps(C) == /\ Len(rows) \in Nat /\ Len(rows') \in Nat
            /\ Len(rows) <= Len(rows')
            /\ \A i \in 1..Len(rows) :
                  /\ rows'[i].conv = rows[i].conv
                  /\ rows'[i].member = rows[i].member
                  /\ rows'[i].reason = rows[i].reason
                  /\ rows'[i].by = rows[i].by
                  /\ rows'[i].open <=> rows[i].open /\ i \notin C

LEMMA ClosedType ==
    ASSUME rows \in Seq(Row), NEW C
    PROVE  /\ Closed(rows, C) \in Seq(Row)
           /\ Len(Closed(rows, C)) = Len(rows)
           /\ \A i \in 1..Len(rows) :
                 /\ Closed(rows, C)[i].conv = rows[i].conv
                 /\ Closed(rows, C)[i].member = rows[i].member
                 /\ Closed(rows, C)[i].reason = rows[i].reason
                 /\ Closed(rows, C)[i].by = rows[i].by
                 /\ Closed(rows, C)[i].open <=> rows[i].open /\ i \notin C
<1> DEFINE r(i) == IF i \in C THEN [rows[i] EXCEPT !.open = FALSE] ELSE rows[i]
<1>1. Len(rows) \in Nat /\ \A i \in 1..Len(rows) : rows[i] \in Row
  BY LenProperties, ElementOfSeq
<1>2. ASSUME NEW i \in 1..Len(rows)
      PROVE  /\ r(i) \in Row
             /\ r(i).conv = rows[i].conv
             /\ r(i).member = rows[i].member
             /\ r(i).reason = rows[i].reason
             /\ r(i).by = rows[i].by
             /\ r(i).open <=> rows[i].open /\ i \notin C
  <2>1. rows[i] \in Row
    BY <1>1
  <2> QED
    BY <2>1 DEF Row
<1>3. Closed(rows, C) = [i \in 1..Len(rows) |-> r(i)]
  BY DEF Closed
<1> HIDE DEF r
<1>4. Closed(rows, C) \in Seq(Row)
  BY <1>1, <1>2, <1>3
<1>5. Len(Closed(rows, C)) = Len(rows)
  BY <1>1, <1>3
<1> QED
  BY <1>2, <1>3, <1>4, <1>5

\* A transaction keeps what it relies on while its conversation only loses
\* active rows and nobody takes its lock.
LEMMA Undisturbed ==
    ASSUME NEW u \in Txns, Sound(u), txn'[u] = txn[u],
           Deciding(u) => /\ lock'[txn[u].conv] = lock[txn[u].conv]
                          /\ Shrinks(txn[u].conv)
    PROVE  Sound(u)'
<1>1. Deciding(u)' <=> Deciding(u)
  BY DEF Deciding
<1>2. HoldsLock(u)'
  BY <1>1 DEF Sound, HoldsLock
<1>3. StillFree(u)'
  BY <1>1 DEF Sound, StillFree, Shrinks
<1>4. Supervised(u)'
  BY <1>1 DEF Sound, Supervised
<1>5. ClosesAll(u)'
  BY DEF Sound, ClosesAll, Shrinks, Deciding
<1>6. Removes(u)'
  BY DEF Sound, Removes, Releasing
<1> QED
  BY <1>2, <1>3, <1>4, <1>5, <1>6 DEF Sound

LEMMA ShrinksOneActive ==
    ASSUME OneActive, \A x \in Convs : Shrinks(x)
    PROVE  OneActive'
BY DEF OneActive, Shrinks

LEMMA SameRows ==
    ASSUME UNCHANGED rows
    PROVE  \A x : Shrinks(x)
BY DEF Shrinks, OpenRows

LEMMA IdleSound ==
    ASSUME NEW t \in Txns, txn'[t] = Idle
    PROVE  Sound(t)'
BY DEF Sound, HoldsLock, StillFree, Supervised, ClosesAll, Removes, Deciding,
       Releasing, Idle

LEMMA IdleType == Idle \in Txn
BY DEF Idle, Txn, Stages

LEMMA InitInv == Init => IInv
<1> SUFFICES ASSUME Init PROVE IInv
  OBVIOUS
<1>1. TypeOK
  BY IdleType DEF Init, TypeOK
<1>2. ASSUME NEW t \in Txns PROVE Sound(t)
  BY DEF Init, Sound, HoldsLock, StillFree, Supervised, ClosesAll, Removes,
         Deciding, Releasing, Idle
<1>3. OneActive
  BY DEF Init, OneActive, OpenRows
<1> QED
  BY <1>1, <1>2, <1>3 DEF IInv
-----------------------------------------------------------------------------
(* Every step keeps the invariant. *)

\* A transaction that locked a free conversation may go on with any decision
\* that names the owner, if there is one, or that a supervisor takes.
LEMMA ChooseInv ==
    ASSUME IInv, NEW t \in Txns, NEW x \in Convs, NEW m \in Members,
           NEW reason \in Reasons, NEW by \in Members \cup {None},
           Choose(t, x, m, reason, by),
           reason # "transfer" => \A i \in OpenRows(x) : rows[i].member = m,
           reason = "transfer" => by \in Supervisors
    PROVE  IInv'
<1> DEFINE r == [Idle EXCEPT !.stage = "chosen", !.conv = x, !.member = m,
                             !.reason = reason, !.by = by]
<1>1. /\ r \in Txn
      /\ r.stage = "chosen" /\ r.conv = x /\ r.member = m
      /\ r.reason = reason /\ r.by = by
  BY DEF Idle, Txn, Stages
<1>2. /\ txn' = [txn EXCEPT ![t] = r]
      /\ lock' = [lock EXCEPT ![x] = t]
      /\ lock[x] = None
      /\ UNCHANGED <<rows, owner, gone>>
  BY DEF Choose
<1> HIDE DEF r
<1>3. TypeOK'
  BY <1>1, <1>2 DEF IInv, TypeOK
<1>4. txn'[t] = r /\ lock'[x] = t
  BY <1>2 DEF IInv, TypeOK
<1>5. Sound(t)'
  <2>1. HoldsLock(t)'
    BY <1>1, <1>4 DEF HoldsLock
  <2>2. StillFree(t)'
    BY <1>1, <1>2, <1>4 DEF StillFree, OpenRows
  <2>3. Supervised(t)'
    BY <1>1, <1>4 DEF Supervised
  <2>4. ClosesAll(t)' /\ Removes(t)'
    BY <1>1, <1>4 DEF ClosesAll, Removes, Releasing
  <2> QED
    BY <2>1, <2>2, <2>3, <2>4 DEF Sound
<1>6. ASSUME NEW u \in Txns, u # t PROVE Sound(u)'
  <2>1. txn'[u] = txn[u] /\ Sound(u)
    BY <1>2, <1>6 DEF IInv, TypeOK
  <2>2. Deciding(u) => lock'[txn[u].conv] = lock[txn[u].conv]
    BY <1>2, <1>6, <2>1, MembersAssumption DEF Sound, HoldsLock, IInv, TypeOK
  <2>3. \A y : Shrinks(y)
    BY <1>2, SameRows
  <2> QED
    BY <2>1, <2>2, <2>3, Undisturbed
<1>7. OneActive'
  BY <1>2, SameRows, ShrinksOneActive DEF IInv
<1> QED
  BY <1>3, <1>5, <1>6, <1>7 DEF IInv

\* A step of one transaction that leaves the history and the locks alone.
LEMMA OwnStepInv ==
    ASSUME IInv, NEW t \in Txns, NEW r \in Txn, txn' = [txn EXCEPT ![t] = r],
           UNCHANGED <<rows, owner, gone, lock>>, Sound(t)'
    PROVE  IInv'
<1>1. TypeOK'
  BY DEF IInv, TypeOK
<1>2. ASSUME NEW u \in Txns, u # t PROVE Sound(u)'
  <2>1. txn'[u] = txn[u] /\ Sound(u)
    BY <1>2 DEF IInv, TypeOK
  <2> QED
    BY <2>1, SameRows, Undisturbed
<1>3. OneActive'
  BY SameRows, ShrinksOneActive DEF IInv
<1> QED
  BY <1>1, <1>2, <1>3 DEF IInv

LEMMA HolderIs ==
    ASSUME rows \in Seq(Row), OneActive, NEW x \in Convs, NEW i \in OpenRows(x)
    PROVE  Holder(x) = rows[i].member /\ Holder(x) \in Members
<1>1. (CHOOSE j \in OpenRows(x) : TRUE) = i
  BY DEF OneActive
<1>2. Holder(x) = rows[i].member
  BY <1>1 DEF Holder
<1>3. rows[i] \in Row
  BY ElementOfSeq DEF OpenRows
<1> QED
  BY <1>2, <1>3 DEF Row

LEMMA EnsureAssignedInv ==
    ASSUME IInv, NEW t \in Txns, NEW x \in Convs, EnsureAssigned(t, x)
    PROVE  IInv'
<1>1. Candidate(x) \in Members
  BY CandidateType DEF EnsureAssigned, IInv, TypeOK
<1>2. Choose(t, x, Candidate(x), "auto", None) /\ OpenRows(x) = {}
  BY DEF EnsureAssigned
<1>3. "auto" \in Reasons /\ "auto" # "transfer"
  BY DEF Reasons
<1> QED
  BY <1>1, <1>2, <1>3, ChooseInv

LEMMA ClaimInv ==
    ASSUME IInv, NEW t \in Txns, NEW x \in Convs, NEW m \in Members, Claim(t, x, m)
    PROVE  IInv'
<1>1. Choose(t, x, m, "claim", None) /\ OpenRows(x) = {}
  BY DEF Claim
<1>2. "claim" \in Reasons /\ "claim" # "transfer"
  BY DEF Reasons
<1> QED
  BY <1>1, <1>2, ChooseInv

LEMMA AssignToAgentInv ==
    ASSUME IInv, NEW t \in Txns, NEW x \in Convs, NEW m \in Members,
           NEW requester \in Members, AssignToAgent(t, x, m, requester)
    PROVE  IInv'
<1>1. {"manual", "transfer"} \subseteq Reasons
  BY DEF Reasons
<1>2. CASE Holder(x) \in {None, m}
  <2>1. Choose(t, x, m, "manual", None)
    BY <1>2 DEF AssignToAgent
  <2>2. ASSUME NEW i \in OpenRows(x) PROVE rows[i].member = m
    BY <1>2, <2>2, HolderIs, MembersAssumption DEF IInv, TypeOK
  <2> QED
    BY <1>1, <2>1, <2>2, ChooseInv
<1>3. CASE Holder(x) \notin {None, m}
  <2>1. requester \in Supervisors /\ Choose(t, x, m, "transfer", requester)
    BY <1>3 DEF AssignToAgent
  <2> QED
    BY <1>1, <2>1, ChooseInv
<1> QED
  BY <1>2, <1>3

LEMMA CloseActiveInv ==
    ASSUME IInv, NEW t \in Txns, CloseActive(t)
    PROVE  IInv'
<1> DEFINE r == [txn[t] EXCEPT !.stage = "closing",
                               !.closes = OpenRows(txn[t].conv)]
<1>1. txn[t] \in Txn /\ txn[t].stage = "chosen" /\ Sound(t)
  BY DEF IInv, TypeOK, CloseActive
<1>2. OpenRows(txn[t].conv) \in SUBSET Nat
  BY DEF OpenRows
<1>3. /\ r \in Txn
      /\ r.stage = "closing" /\ r.closes = OpenRows(txn[t].conv)
      /\ r.conv = txn[t].conv /\ r.member = txn[t].member
      /\ r.reason = txn[t].reason /\ r.by = txn[t].by
  BY <1>1, <1>2 DEF Txn, Stages
<1>4. /\ txn' = [txn EXCEPT ![t] = r]
      /\ UNCHANGED <<rows, owner, gone, lock>>
  BY DEF CloseActive
<1> HIDE DEF r
<1>5. txn'[t] = r
  BY <1>4 DEF IInv, TypeOK
<1>6. Sound(t)'
  <2>1. Deciding(t)
    BY <1>1 DEF Deciding
  <2>2. HoldsLock(t)' /\ Supervised(t)'
    BY <1>1, <1>3, <1>4, <1>5, <2>1 DEF Sound, HoldsLock, Supervised
  <2>3. StillFree(t)'
    BY <1>1, <1>3, <1>4, <1>5, <2>1 DEF Sound, StillFree, OpenRows
  <2>4. ClosesAll(t)' /\ Removes(t)'
    BY <1>3, <1>4, <1>5 DEF ClosesAll, Removes, Releasing, OpenRows
  <2> QED
    BY <2>2, <2>3, <2>4 DEF Sound
<1> QED
  BY <1>3, <1>4, <1>6, OwnStepInv

LEMMA ReadOwnedInv ==
    ASSUME IInv, NEW t \in Txns, NEW m \in Members, ReadOwned(t, m)
    PROVE  IInv'
<1> DEFINE read == {rows[i].conv : i \in OpenOf(m)} \cup {x \in Convs : owner[x] = m}
           r == [Idle EXCEPT !.stage = "read", !.member = m,
                             !.convs = read, !.closes = OpenOf(m)]
<1>1. m \in Removable
  BY DEF ReadOwned
<1>2. read \in SUBSET Convs
  <2>1. \A i \in OpenOf(m) : rows[i] \in Row
    BY ElementOfSeq DEF OpenOf, IInv, TypeOK
  <2>2. \A i \in OpenOf(m) : rows[i].conv \in Convs
    BY <2>1 DEF Row
  <2> QED
    BY <2>2
<1>3. OpenOf(m) \in SUBSET Nat
  BY DEF OpenOf
<1> HIDE DEF read
<1>4. r \in Txn /\ r.stage = "read" /\ r.member = m
  BY <1>2, <1>3 DEF Idle, Txn, Stages
<1>5. /\ txn' = [txn EXCEPT ![t] = r]
      /\ UNCHANGED <<rows, owner, gone, lock>>
  BY DEF ReadOwned, read
<1> HIDE DEF r
<1>6. txn'[t] = r
  BY <1>5 DEF IInv, TypeOK
<1>7. Sound(t)'
  BY <1>1, <1>4, <1>6 DEF Sound, HoldsLock, StillFree, Supervised, ClosesAll,
         Removes, Deciding, Releasing
<1> QED
  BY <1>4, <1>5, <1>7, OwnStepInv

LEMMA CloseOwnedInv ==
    ASSUME IInv, NEW t \in Txns, CloseOwned(t)
    PROVE  IInv'
<1> DEFINE r == [txn[t] EXCEPT !.stage = "releasing"]
<1>1. txn[t] \in Txn /\ txn[t].stage = "read" /\ Sound(t)
  BY DEF IInv, TypeOK, CloseOwned
<1>2. r \in Txn /\ r.stage = "releasing" /\ r.member = txn[t].member
  BY <1>1 DEF Txn, Stages
<1>3. /\ txn' = [txn EXCEPT ![t] = r]
      /\ UNCHANGED <<rows, owner, gone, lock>>
  BY DEF CloseOwned
<1> HIDE DEF r
<1>4. txn'[t] = r
  BY <1>3 DEF IInv, TypeOK
<1>5. Sound(t)'
  BY <1>1, <1>2, <1>4 DEF Sound, HoldsLock, StillFree, Supervised, ClosesAll,
         Removes, Deciding, Releasing
<1> QED
  BY <1>2, <1>3, <1>5, OwnStepInv

\* What a commit does to the history: the new row is the one active row of its
\* conversation, the other conversations at most lose theirs.
LEMMA CommitRows ==
    ASSUME IInv, NEW t \in Txns, NEW x \in Convs, x = txn[t].conv, CommitAssign(t)
    PROVE  /\ rows' \in Seq(Row)
           /\ Len(rows') = Len(rows) + 1
           /\ Len(rows) \in Nat
           /\ rows'[Len(rows) + 1] =
                [conv |-> x, member |-> txn[t].member, reason |-> txn[t].reason,
                 by |-> txn[t].by, open |-> TRUE]
           /\ OpenRows(x)' = {Len(rows) + 1}
           /\ \A y \in Convs \ {x} : Shrinks(y)
           /\ Keeps(txn[t].closes)
<1> DEFINE new == [conv |-> x, member |-> txn[t].member, reason |-> txn[t].reason,
                   by |-> txn[t].by, open |-> TRUE]
           old == Closed(rows, txn[t].closes)
<1>1. txn[t].stage = "closing" /\ Deciding(t) /\ Sound(t) /\ txn[t] \in Txn
  BY DEF CommitAssign, Deciding, IInv, TypeOK
<1>2. txn[t].member \in Members /\ txn[t].reason \in Reasons
  BY <1>1 DEF Sound, HoldsLock
<1>3. new \in Row /\ new.conv = x /\ new.open
  BY <1>1, <1>2 DEF Row, Txn
<1>4. /\ old \in Seq(Row)
      /\ Len(old) = Len(rows)
      /\ Len(rows) \in Nat
      /\ \A i \in 1..Len(rows) :
            /\ old[i].conv = rows[i].conv
            /\ old[i].member = rows[i].member
            /\ old[i].reason = rows[i].reason
            /\ old[i].by = rows[i].by
            /\ old[i].open <=> rows[i].open /\ i \notin txn[t].closes
  BY ClosedType, LenProperties DEF IInv, TypeOK
<1>5. rows' = Append(old, new)
  BY DEF CommitAssign
<1> HIDE DEF new, old
<1>6. /\ rows' \in Seq(Row)
      /\ Len(rows') = Len(rows) + 1
      /\ \A i \in 1..Len(rows) : rows'[i] = old[i]
      /\ rows'[Len(rows) + 1] = new
  BY <1>3, <1>4, <1>5, AppendProperties
<1>7. OpenRows(x)' = {Len(rows) + 1}
  <2>1. ASSUME NEW i \in 1..Len(rows), rows'[i].conv = x, rows'[i].open
        PROVE  FALSE
    <3>1. i \in OpenRows(x) /\ i \notin txn[t].closes
      BY <1>4, <1>6, <2>1 DEF OpenRows
    <3> QED
      BY <1>1, <3>1 DEF Sound, ClosesAll
  <2>2. OpenRows(x)' = {i \in 1..(Len(rows) + 1) : rows'[i].conv = x /\ rows'[i].open}
    BY <1>6 DEF OpenRows
  <2> QED
    BY <1>3, <1>4, <1>6, <2>1, <2>2
<1>8. ASSUME NEW y \in Convs, y # x PROVE Shrinks(y)
  <2>1. OpenRows(y)' \subseteq 1..Len(rows)
    BY <1>3, <1>4, <1>6, <1>8 DEF OpenRows
  <2> QED
    BY <1>4, <1>6, <2>1 DEF Shrinks, OpenRows
<1>9. Keeps(txn[t].closes)
  BY <1>4, <1>6 DEF Keeps
<1> QED
  BY <1>4, <1>6, <1>7, <1>8, <1>9 DEF new

LEMMA CommitAssignInv ==
    ASSUME IInv, NEW t \in Txns, CommitAssign(t)
    PROVE  IInv'
<1>0. Deciding(t) /\ Sound(t)
  BY DEF CommitAssign, Deciding, IInv
<1>2. PICK x \in Convs : x = txn[t].conv
  BY <1>0 DEF Sound, HoldsLock
<1>1. /\ rows' \in Seq(Row)
      /\ OpenRows(x)' = {Len(rows) + 1}
      /\ \A y \in Convs \ {x} : Shrinks(y)
  BY <1>2, CommitRows
<1>3. txn[t].member \in Members /\ lock[x] = t
  BY <1>0, <1>2 DEF Sound, HoldsLock
<1>4. /\ owner' = [owner EXCEPT ![x] = txn[t].member]
      /\ lock' = [lock EXCEPT ![x] = None]
      /\ txn' = [txn EXCEPT ![t] = Idle]
      /\ gone' = gone
  BY <1>2 DEF CommitAssign
<1>5. TypeOK'
  BY <1>1, <1>3, <1>4, IdleType DEF IInv, TypeOK
<1>6. Sound(t)'
  BY <1>4, IdleSound DEF IInv, TypeOK
<1>7. ASSUME NEW u \in Txns, u # t PROVE Sound(u)'
  <2>1. txn'[u] = txn[u] /\ Sound(u)
    BY <1>4, <1>7 DEF IInv, TypeOK
  <2>2. Deciding(u) => txn[u].conv \in Convs \ {x}
    BY <1>3, <1>7, <2>1 DEF Sound, HoldsLock
  <2>3. Deciding(u) => lock'[txn[u].conv] = lock[txn[u].conv]
    BY <1>4, <2>2 DEF IInv, TypeOK
  <2> QED
    BY <1>1, <2>1, <2>2, <2>3, Undisturbed
<1>8. OneActive'
  BY <1>1 DEF IInv, OneActive, Shrinks
<1> QED
  BY <1>5, <1>6, <1>7, <1>8 DEF IInv

LEMMA Concatenation ==
    ASSUME NEW s \in Seq(Row), NEW u \in Seq(Row)
    PROVE  /\ s \o u \in Seq(Row)
           /\ Len(s \o u) = Len(s) + Len(u)
           /\ \A i \in 1..(Len(s) + Len(u)) :
                 (s \o u)[i] = IF i <= Len(s) THEN s[i] ELSE u[i - Len(s)]
BY ConcatProperties

\* An insert of several rows has one for each of the conversations.
LEMMA OrderCovers ==
    ASSUME NEW S, IsFiniteSet(S), NEW order \in Orders(S), NEW y \in S
    PROVE  \E k \in 1..Cardinality(S) : order[k] = y
<1> DEFINE I == 1..Cardinality(S)
<1>1. IsFiniteSet(I) /\ Cardinality(I) = Cardinality(S)
  <2>1. Cardinality(S) \in Nat
    BY FS_CardinalityType
  <2> QED
    BY <2>1, FS_Interval
<1>2. order \in Injection(I, S)
  BY DEF Orders, Injection, IsInjective
<1> HIDE DEF I
<1>3. (Cardinality(I) = Cardinality(S)) <=> (order \in Surjection(I, S))
  BY <1>2, FS_Injection
<1>4. order \in Surjection(I, S)
  BY <1>1, <1>3
<1> QED
  BY <1>4 DEF Surjection, I

\* The rows a removal inserts are closed: no conversation gains an active row.
LEMMA RemoveRows ==
    ASSUME IInv, NEW t \in Txns, CommitRemove(t)
    PROVE  /\ rows' \in Seq(Row)
           /\ \A y \in Convs : Shrinks(y)
           /\ Keeps(txn[t].closes)
           /\ \A i \in (Len(rows) + 1)..Len(rows') :
                 /\ rows'[i].conv \in txn[t].convs
                 /\ rows'[i].member = txn[t].member
                 /\ ~ rows'[i].open
           /\ \A y \in txn[t].convs :
                 \E i \in (Len(rows) + 1)..Len(rows') : rows'[i].conv = y
           /\ Len(rows') = Len(rows) + Cardinality(txn[t].convs)
           /\ \E order \in Orders(txn[t].convs) :
                 \A k \in 1..Cardinality(txn[t].convs) :
                    /\ rows'[Len(rows) + k].conv = order[k]
                    /\ rows'[Len(rows) + k].member = txn[t].member
                    /\ rows'[Len(rows) + k].reason = "release"
                    /\ rows'[Len(rows) + k].by = None
<1> DEFINE old == Closed(rows, txn[t].closes)
           S == txn[t].convs
           released(order) == [i \in DOMAIN order |->
                        [conv |-> order[i], member |-> txn[t].member,
                         reason |-> "release", by |-> None, open |-> FALSE]]
<1>1. txn[t] \in Txn /\ txn[t].member \in Members
  BY MembersAssumption DEF CommitRemove, IInv, TypeOK, Sound, Removes, Releasing
<1>2. /\ old \in Seq(Row)
      /\ Len(old) = Len(rows)
      /\ Len(rows) \in Nat
      /\ \A i \in 1..Len(rows) :
            /\ old[i].conv = rows[i].conv
            /\ old[i].member = rows[i].member
            /\ old[i].reason = rows[i].reason
            /\ old[i].by = rows[i].by
            /\ old[i].open <=> rows[i].open /\ i \notin txn[t].closes
  BY ClosedType, LenProperties DEF IInv, TypeOK
<1>3. PICK order \in Orders(S) : rows' = old \o released(order)
  BY DEF CommitRemove
<1>4. S \subseteq Convs /\ Cardinality(S) \in Nat
  <2>1. S \subseteq Convs
    BY <1>1 DEF Txn
  <2> QED
    BY <2>1, FiniteAssumption, FS_Subset, FS_CardinalityType
<1>5. order \in [1..Cardinality(S) -> S]
  BY DEF Orders
<1>6. /\ released(order) \in Seq(Row)
      /\ Len(released(order)) = Cardinality(S)
      /\ \A i \in 1..Cardinality(S) : /\ released(order)[i].conv = order[i]
                                       /\ released(order)[i].member = txn[t].member
                                       /\ released(order)[i].reason = "release"
                                       /\ released(order)[i].by = None
                                       /\ ~ released(order)[i].open
  <2> DEFINE e(i) == [conv |-> order[i], member |-> txn[t].member,
                      reason |-> "release", by |-> None, open |-> FALSE]
  <2>1. \A i \in 1..Cardinality(S) : /\ e(i) \in Row /\ e(i).conv = order[i]
                                      /\ e(i).member = txn[t].member /\ ~ e(i).open
                                      /\ e(i).reason = "release" /\ e(i).by = None
    BY <1>1, <1>4, <1>5 DEF Row, Reasons
  <2>2. released(order) = [i \in 1..Cardinality(S) |-> e(i)]
    BY <1>5
  <2> HIDE DEF e, released
  <2> QED
    BY <1>4, <2>1, <2>2
<1> HIDE DEF old, released
<1>7. /\ rows' \in Seq(Row)
      /\ Len(rows') = Len(rows) + Cardinality(S)
      /\ \A i \in 1..(Len(rows) + Cardinality(S)) :
            rows'[i] = IF i <= Len(rows) THEN old[i]
                       ELSE released(order)[i - Len(rows)]
  <2> DEFINE tail == released(order)
  <2> HIDE DEF tail
  <2>1. tail \in Seq(Row) /\ Len(tail) = Cardinality(S)
    BY <1>6 DEF tail
  <2>2. rows' = old \o tail
    BY <1>3 DEF tail
  <2>3. /\ rows' \in Seq(Row)
        /\ Len(rows') = Len(old) + Len(tail)
        /\ \A i \in 1..(Len(old) + Len(tail)) :
              rows'[i] = IF i <= Len(old) THEN old[i] ELSE tail[i - Len(old)]
    BY <1>2, <2>1, <2>2, Concatenation
  <2> QED
    BY <1>2, <2>1, <2>3 DEF tail
<1>8. ASSUME NEW y \in Convs PROVE Shrinks(y)
  <2>1. ASSUME NEW i \in OpenRows(y)'
        PROVE  i \in 1..Len(rows) /\ rows'[i] = old[i]
    <3>1. i \in 1..(Len(rows) + Cardinality(S)) /\ rows'[i].open
      BY <1>7 DEF OpenRows
    <3>2. CASE i <= Len(rows)
      BY <1>2, <1>4, <1>7, <3>1, <3>2
    <3>3. CASE ~(i <= Len(rows))
      <4>1. i - Len(rows) \in 1..Cardinality(S)
        BY <1>2, <1>4, <3>1, <3>3
      <4>2. rows'[i] = released(order)[i - Len(rows)]
        BY <1>7, <3>1, <3>3
      <4> QED
        BY <1>6, <3>1, <4>1, <4>2
    <3> QED
      BY <3>2, <3>3
  <2> QED
    BY <1>2, <2>1 DEF Shrinks, OpenRows
<1>9. Keeps(txn[t].closes)
  BY <1>2, <1>4, <1>7 DEF Keeps
<1>10. ASSUME NEW i \in (Len(rows) + 1)..Len(rows')
       PROVE  /\ rows'[i].conv \in S
              /\ rows'[i].member = txn[t].member
              /\ ~ rows'[i].open
  <2>1. i - Len(rows) \in 1..Cardinality(S)
    BY <1>2, <1>4, <1>7
  <2>2. rows'[i] = released(order)[i - Len(rows)]
    BY <1>2, <1>4, <1>7
  <2> QED
    BY <1>5, <1>6, <2>1, <2>2
<1>11. ASSUME NEW y \in S
       PROVE  \E i \in (Len(rows) + 1)..Len(rows') : rows'[i].conv = y
  <2>1. IsFiniteSet(S)
    BY <1>4, FiniteAssumption, FS_Subset
  <2>4. PICK k \in 1..Cardinality(S) : order[k] = y
    BY <1>3, <2>1, OrderCovers
  <2>5. /\ Len(rows) + k \in (Len(rows) + 1)..Len(rows')
        /\ (Len(rows) + k) - Len(rows) = k
        /\ ~(Len(rows) + k <= Len(rows))
    BY <1>2, <1>4, <1>7, <2>4
  <2>6. rows'[Len(rows) + k] = released(order)[k]
    BY <1>2, <1>4, <1>7, <2>5
  <2> QED
    BY <1>6, <2>4, <2>5, <2>6
<1>12. ASSUME NEW k \in 1..Cardinality(S)
       PROVE  /\ rows'[Len(rows) + k].conv = order[k]
              /\ rows'[Len(rows) + k].member = txn[t].member
              /\ rows'[Len(rows) + k].reason = "release"
              /\ rows'[Len(rows) + k].by = None
  <2>1. /\ Len(rows) + k \in 1..(Len(rows) + Cardinality(S))
        /\ (Len(rows) + k) - Len(rows) = k
        /\ ~(Len(rows) + k <= Len(rows))
    BY <1>2, <1>4
  <2>2. rows'[Len(rows) + k] = released(order)[k]
    BY <1>7, <2>1
  <2> QED
    BY <1>6, <2>2
<1> QED
  BY <1>3, <1>7, <1>8, <1>9, <1>10, <1>11, <1>12

LEMMA CommitRemoveInv ==
    ASSUME IInv, NEW t \in Txns, CommitRemove(t)
    PROVE  IInv'
<1>1. rows' \in Seq(Row) /\ \A y \in Convs : Shrinks(y)
  BY RemoveRows
<1>2. txn[t].member \in Removable
  BY DEF CommitRemove, IInv, Sound, Removes, Releasing
<1>3. /\ owner' = [x \in Convs |-> IF x \in txn[t].convs THEN None ELSE owner[x]]
      /\ gone' = gone \cup {txn[t].member}
      /\ txn' = [txn EXCEPT ![t] = Idle]
      /\ lock' = lock
  BY DEF CommitRemove
<1>4. TypeOK'
  BY <1>1, <1>2, <1>3, IdleType DEF IInv, TypeOK
<1>5. Sound(t)'
  BY <1>3, IdleSound DEF IInv, TypeOK
<1>6. ASSUME NEW u \in Txns, u # t PROVE Sound(u)'
  <2>1. txn'[u] = txn[u] /\ Sound(u)
    BY <1>3, <1>6 DEF IInv, TypeOK
  <2> QED
    BY <1>1, <1>3, <2>1, Undisturbed DEF Sound, HoldsLock
<1>7. OneActive'
  BY <1>1, ShrinksOneActive DEF IInv
<1> QED
  BY <1>4, <1>5, <1>6, <1>7 DEF IInv

LEMMA RollbackInv ==
    ASSUME IInv, NEW t \in Txns, Rollback(t)
    PROVE  IInv'
<1>1. /\ lock' = [x \in Convs |-> IF lock[x] = t THEN None ELSE lock[x]]
      /\ txn' = [txn EXCEPT ![t] = Idle]
      /\ UNCHANGED <<rows, owner, gone>>
  BY DEF Rollback
<1>2. TypeOK'
  BY <1>1, IdleType DEF IInv, TypeOK
<1>3. Sound(t)'
  BY <1>1, IdleSound DEF IInv, TypeOK
<1>4. ASSUME NEW u \in Txns, u # t PROVE Sound(u)'
  <2>1. txn'[u] = txn[u] /\ Sound(u)
    BY <1>1, <1>4 DEF IInv, TypeOK
  <2>2. Deciding(u) => lock'[txn[u].conv] = lock[txn[u].conv]
    BY <1>1, <1>4, <2>1 DEF Sound, HoldsLock
  <2>3. \A y : Shrinks(y)
    BY <1>1, SameRows
  <2> QED
    BY <2>1, <2>2, <2>3, Undisturbed
<1>5. OneActive'
  BY <1>1, SameRows, ShrinksOneActive DEF IInv
<1> QED
  BY <1>2, <1>3, <1>4, <1>5 DEF IInv

LEMMA StutterInv ==
    ASSUME IInv, UNCHANGED vars
    PROVE  IInv'
<1>1. TypeOK'
  BY DEF IInv, TypeOK, vars
<1>2. \A y : Shrinks(y)
  BY SameRows DEF vars
<1>3. ASSUME NEW u \in Txns PROVE Sound(u)'
  BY <1>2, Undisturbed DEF IInv, vars
<1>4. OneActive'
  BY <1>2, ShrinksOneActive DEF IInv
<1> QED
  BY <1>1, <1>3, <1>4 DEF IInv

LEMMA StepInv == IInv /\ [Next]_vars => IInv'
<1> SUFFICES ASSUME IInv, [Next]_vars PROVE IInv'
  OBVIOUS
<1>1. ASSUME NEW t \in Txns, NEW x \in Convs, EnsureAssigned(t, x) PROVE IInv'
  BY <1>1, EnsureAssignedInv
<1>2. ASSUME NEW t \in Txns, NEW x \in Convs, NEW m \in Members, Claim(t, x, m)
      PROVE  IInv'
  BY <1>2, ClaimInv
<1>3. ASSUME NEW t \in Txns, NEW x \in Convs, NEW m \in Members,
             NEW r \in Members, AssignToAgent(t, x, m, r)
      PROVE  IInv'
  BY <1>3, AssignToAgentInv
<1>4. ASSUME NEW t \in Txns, CloseActive(t) PROVE IInv'
  BY <1>4, CloseActiveInv
<1>5. ASSUME NEW t \in Txns, CommitAssign(t) PROVE IInv'
  BY <1>5, CommitAssignInv
<1>6. ASSUME NEW t \in Txns, NEW m \in Members, ReadOwned(t, m) PROVE IInv'
  BY <1>6, ReadOwnedInv
<1>7. ASSUME NEW t \in Txns, CloseOwned(t) PROVE IInv'
  BY <1>7, CloseOwnedInv
<1>8. ASSUME NEW t \in Txns, CommitRemove(t) PROVE IInv'
  BY <1>8, CommitRemoveInv
<1>9. ASSUME NEW t \in Txns, Rollback(t) PROVE IInv'
  BY <1>9, RollbackInv
<1>10. CASE UNCHANGED vars
  BY <1>10, StutterInv
<1> QED
  BY <1>1, <1>2, <1>3, <1>4, <1>5, <1>6, <1>7, <1>8, <1>9, <1>10 DEF Next

LEMMA Invariant == Spec => []IInv
BY InitInv, StepInv, PTL DEF Spec
-----------------------------------------------------------------------------
\* The engine's types hold for any number of conversations, members and
\* transactions; the candidate of an automatic assignment is always a member.
THEOREM TypeCorrect == Spec => []TypeOK
<1>1. IInv => TypeOK
  BY DEF IInv
<1> QED
  BY Invariant, <1>1, PTL

\* A conversation has at most one active assignment, whatever assignments,
\* claims, transfers, removals and rollbacks interleave.
THEOREM OneActiveAlways == Spec => []OneActive
<1>1. IInv => OneActive
  BY DEF IInv
<1> QED
  BY Invariant, <1>1, PTL
-----------------------------------------------------------------------------
(* Nobody is deprived of a conversation but by a supervisor. *)

Kept(x) == Holder(x) # None /\ Holder(x)' # None => Holder(x)' = Holder(x)

LEMMA ShrinksKept ==
    ASSUME IInv, IInv', NEW x \in Convs, Shrinks(x)
    PROVE  Kept(x)
<1>1. CASE OpenRows(x)' = {}
  BY <1>1 DEF Kept, Holder
<1>2. ASSUME NEW i \in OpenRows(x)' PROVE Kept(x)
  <2>1. i \in OpenRows(x) /\ rows'[i].member = rows[i].member
    BY <1>2 DEF Shrinks
  <2>2. Holder(x) = rows[i].member
    BY <2>1, HolderIs DEF IInv, TypeOK
  <2>3. (CHOOSE j \in OpenRows(x)' : TRUE) = i
    BY <1>2 DEF IInv, OneActive
  <2>4. Holder(x)' = rows'[i].member
    BY <1>2, <2>3 DEF Holder
  <2> QED
    BY <2>1, <2>2, <2>4 DEF Kept
<1> QED
  BY <1>1, <1>2

Transferred == LET last == rows'[Len(rows')] IN
               last.reason = "transfer" /\ last.by \in Supervisors

LEMMA CommitKept ==
    ASSUME IInv, IInv', NEW t \in Txns, CommitAssign(t), NEW y \in Convs
    PROVE  Kept(y) \/ Transferred
<1>1. Deciding(t) /\ Sound(t)
  BY DEF CommitAssign, Deciding, IInv
<1>2. PICK x \in Convs : x = txn[t].conv
  BY <1>1 DEF Sound, HoldsLock
<1> DEFINE n == Len(rows) + 1
<1>3. /\ Len(rows') = n
      /\ rows'[n] = [conv |-> x, member |-> txn[t].member,
                     reason |-> txn[t].reason, by |-> txn[t].by, open |-> TRUE]
      /\ OpenRows(x)' = {n}
      /\ \A z \in Convs \ {x} : Shrinks(z)
  BY <1>2, CommitRows
<1>4. CASE y # x
  BY <1>3, <1>4, ShrinksKept
<1>5. CASE y = x /\ txn[t].reason = "transfer"
  <2>1. txn[t].by \in Supervisors
    BY <1>1, <1>5 DEF Sound, Supervised
  <2> QED
    BY <1>3, <1>5, <2>1 DEF Transferred
<1>6. CASE y = x /\ txn[t].reason # "transfer"
  <2>1. \A i \in OpenRows(x) : rows[i].member = txn[t].member
    BY <1>1, <1>2, <1>6 DEF Sound, StillFree
  <2>2. CASE OpenRows(x) = {}
    BY <1>6, <2>2 DEF Kept, Holder
  <2>3. ASSUME NEW i \in OpenRows(x) PROVE Kept(x)
    <3>1. Holder(x) = txn[t].member
      BY <2>1, <2>3, HolderIs DEF IInv, TypeOK
    <3>2. (CHOOSE j \in OpenRows(x)' : TRUE) = n
      BY <1>3
    <3>3. Holder(x)' = rows'[n].member
      BY <1>3, <3>2 DEF Holder
    <3> QED
      BY <1>3, <3>1, <3>3 DEF Kept
  <2> QED
    BY <1>6, <2>2, <2>3
<1> QED
  BY <1>4, <1>5, <1>6

LEMMA StepKept ==
    ASSUME IInv, IInv', [Next]_vars, NEW x \in Convs
    PROVE  Kept(x) \/ Transferred
<1>1. CASE UNCHANGED rows
  BY <1>1, SameRows, ShrinksKept
<1>2. ASSUME NEW t \in Txns, CommitAssign(t) PROVE Kept(x) \/ Transferred
  BY <1>2, CommitKept
<1>3. ASSUME NEW t \in Txns, CommitRemove(t) PROVE Kept(x)
  BY <1>3, RemoveRows, ShrinksKept
<1>4. ASSUME NEW t \in Txns, CloseActive(t) \/ CloseOwned(t) \/ Rollback(t)
      PROVE  UNCHANGED rows
  BY <1>4 DEF CloseActive, CloseOwned, Rollback
<1>5. ASSUME NEW t \in Txns, NEW y \in Convs, EnsureAssigned(t, y)
      PROVE  UNCHANGED rows
  BY <1>5 DEF EnsureAssigned, Choose
<1>6. ASSUME NEW t \in Txns, NEW y \in Convs, NEW m \in Members, Claim(t, y, m)
      PROVE  UNCHANGED rows
  BY <1>6 DEF Claim, Choose
<1>7. ASSUME NEW t \in Txns, NEW y \in Convs, NEW m \in Members,
             NEW r \in Members, AssignToAgent(t, y, m, r)
      PROVE  UNCHANGED rows
  BY <1>7 DEF AssignToAgent, Choose
<1>8. ASSUME NEW t \in Txns, NEW m \in Members, ReadOwned(t, m)
      PROVE  UNCHANGED rows
  BY <1>8 DEF ReadOwned
<1>9. UNCHANGED vars => UNCHANGED rows
  BY DEF vars
<1> QED
  BY <1>1, <1>2, <1>3, <1>4, <1>5, <1>6, <1>7, <1>8, <1>9 DEF Next

\* A claim, a manual assignment or an automatic one never takes a conversation
\* from its owner: it goes from one owner to the next by a transfer only, which
\* a supervisor asked for.
THEOREM OwnershipIsFrozen == Spec => OwnershipFrozen
<1> DEFINE A == \A x \in Convs :
          Holder(x) # None /\ Holder(x)' # None /\ Holder(x)' # Holder(x) =>
              LET last == rows'[Len(rows')] IN
              last.reason = "transfer" /\ last.by \in Supervisors
<1>1. IInv /\ IInv' /\ [Next]_vars => A
  BY StepKept DEF Kept, Transferred
<1> HIDE DEF A
<1>2. IInv /\ IInv' /\ [Next]_vars => [A]_vars
  BY <1>1
<1>3. Spec => [][A]_vars
  BY Invariant, <1>2, PTL DEF Spec
<1> QED
  BY <1>3 DEF OwnershipFrozen, A
-----------------------------------------------------------------------------
(* What a transaction has closed. *)

\* An assignment closes rows of its conversation, a removal rows of the
\* conversations it has read.
OwnRows(t) ==
    /\ txn[t].stage = "closing" => txn[t].closes \subseteq RowsOf(txn[t].conv)
    /\ Releasing(t) =>
          txn[t].closes \subseteq UNION {RowsOf(x) : x \in txn[t].convs}

Closings == \A t \in Txns : OwnRows(t)

\* A step that writes no row, and leaves the owners and the members.
Quiet == UNCHANGED <<rows, owner, gone>>

\* Every step but the two commits is quiet.
LEMMA StepsAreQuiet ==
    ASSUME [Next]_vars
    PROVE  Quiet \/ \E t \in Txns : CommitAssign(t) \/ CommitRemove(t)
<1>1. CASE UNCHANGED vars
  BY <1>1 DEF vars, Quiet
<1>2. ASSUME NEW t \in Txns, NEW x \in Convs, EnsureAssigned(t, x) PROVE Quiet
  BY <1>2 DEF EnsureAssigned, Choose, Quiet
<1>3. ASSUME NEW t \in Txns, NEW x \in Convs, NEW m \in Members, Claim(t, x, m)
      PROVE  Quiet
  BY <1>3 DEF Claim, Choose, Quiet
<1>4. ASSUME NEW t \in Txns, NEW x \in Convs, NEW m \in Members,
             NEW r \in Members, AssignToAgent(t, x, m, r)
      PROVE  Quiet
  BY <1>4 DEF AssignToAgent, Choose, Quiet
<1>5. ASSUME NEW t \in Txns, CloseActive(t) \/ CloseOwned(t) \/ Rollback(t)
      PROVE  Quiet
  BY <1>5 DEF CloseActive, CloseOwned, Rollback, Quiet
<1>6. ASSUME NEW t \in Txns, NEW m \in Members, ReadOwned(t, m) PROVE Quiet
  BY <1>6 DEF ReadOwned, Quiet
<1> QED
  BY <1>1, <1>2, <1>3, <1>4, <1>5, <1>6 DEF Next

\* The rows of a conversation are still there after a commit.
LEMMA RowsStay ==
    ASSUME NEW C, Keeps(C), NEW x
    PROVE  RowsOf(x) \subseteq RowsOf(x)'
BY DEF Keeps, RowsOf

LEMMA OwnRowsStay ==
    ASSUME NEW t \in Txns, OwnRows(t), txn'[t] = txn[t],
           \A x : RowsOf(x) \subseteq RowsOf(x)'
    PROVE  OwnRows(t)'
<1>1. ASSUME txn[t].stage = "closing"
      PROVE  txn[t].closes \subseteq RowsOf(txn[t].conv)'
  BY <1>1 DEF OwnRows
<1>2. ASSUME Releasing(t)
      PROVE  txn[t].closes \subseteq UNION {RowsOf(x)' : x \in txn[t].convs}
  <2>1. ASSUME NEW i \in txn[t].closes
        PROVE  \E x \in txn[t].convs : i \in RowsOf(x)'
    BY <1>2, <2>1 DEF OwnRows
  <2> QED
    BY <2>1
<1> QED
  BY <1>1, <1>2 DEF OwnRows, Releasing

LEMMA IdleOwnRows ==
    ASSUME NEW t \in Txns, txn'[t].stage \in {"idle", "chosen"}
    PROVE  OwnRows(t)'
BY DEF OwnRows, Releasing

LEMMA InitClosings == Init => Closings
BY DEF Init, Closings, OwnRows, Releasing, Idle

\* The step of one transaction, as the others see it.
LEMMA StepClosings ==
    ASSUME IInv, Closings, [Next]_vars
    PROVE  Closings'
<1>0. /\ txn \in [Txns -> Txn] /\ rows \in Seq(Row)
      /\ \A t \in Txns : OwnRows(t)
  BY DEF IInv, TypeOK, Closings
<1>1. \A x : RowsOf(x) \subseteq RowsOf(x)'
  <2>1. CASE Quiet
    BY <2>1 DEF Quiet, RowsOf
  <2>2. ASSUME NEW t \in Txns, CommitAssign(t)
        PROVE  \A x : RowsOf(x) \subseteq RowsOf(x)'
    <3>1. txn[t].conv \in Convs
      BY <2>2 DEF CommitAssign, IInv, Sound, HoldsLock, Deciding
    <3> QED
      BY <2>2, <3>1, CommitRows, RowsStay
  <2>3. ASSUME NEW t \in Txns, CommitRemove(t)
        PROVE  \A x : RowsOf(x) \subseteq RowsOf(x)'
    BY <2>3, RemoveRows, RowsStay
  <2> QED
    BY <2>1, <2>2, <2>3, StepsAreQuiet
<1>2. ASSUME NEW t \in Txns, NEW r, txn' = [txn EXCEPT ![t] = r],
             OwnRows(t)'
      PROVE  Closings'
  <2>1. ASSUME NEW u \in Txns, u # t PROVE OwnRows(u)'
    BY <1>0, <1>1, <1>2, <2>1, OwnRowsStay
  <2> QED
    BY <1>2, <2>1 DEF Closings
<1>3. ASSUME NEW t \in Txns, NEW x \in Convs, NEW m, NEW reason, NEW by,
             Choose(t, x, m, reason, by)
      PROVE  Closings'
  <2> DEFINE r == [Idle EXCEPT !.stage = "chosen", !.conv = x, !.member = m,
                               !.reason = reason, !.by = by]
  <2>1. r.stage = "chosen"
    BY DEF Idle
  <2>2. txn' = [txn EXCEPT ![t] = r]
    BY <1>3 DEF Choose
  <2> HIDE DEF r
  <2>3. OwnRows(t)'
    BY <1>0, <2>1, <2>2, IdleOwnRows
  <2> QED
    BY <1>2, <2>2, <2>3
<1>4. ASSUME NEW t \in Txns, NEW x \in Convs, EnsureAssigned(t, x) PROVE Closings'
  BY <1>3, <1>4 DEF EnsureAssigned
<1>5. ASSUME NEW t \in Txns, NEW x \in Convs, NEW m \in Members, Claim(t, x, m)
      PROVE  Closings'
  BY <1>3, <1>5 DEF Claim
<1>6. ASSUME NEW t \in Txns, NEW x \in Convs, NEW m \in Members,
             NEW r \in Members, AssignToAgent(t, x, m, r)
      PROVE  Closings'
  BY <1>3, <1>6 DEF AssignToAgent
<1>7. ASSUME NEW t \in Txns, CloseActive(t) PROVE Closings'
  <2> DEFINE r == [txn[t] EXCEPT !.stage = "closing",
                                 !.closes = OpenRows(txn[t].conv)]
  <2>1. /\ txn' = [txn EXCEPT ![t] = r]
        /\ r.stage = "closing" /\ r.conv = txn[t].conv
        /\ r.closes = OpenRows(txn[t].conv)
        /\ UNCHANGED rows
    BY <1>0, <1>7 DEF CloseActive, Txn
  <2> HIDE DEF r
  <2>2. OwnRows(t)'
    BY <1>0, <2>1 DEF OwnRows, Releasing, OpenRows, RowsOf
  <2> QED
    BY <1>2, <2>1, <2>2
<1>8. ASSUME NEW t \in Txns, NEW m \in Members, ReadOwned(t, m) PROVE Closings'
  <2> DEFINE read == {rows[i].conv : i \in OpenOf(m)} \cup {x \in Convs : owner[x] = m}
             r == [Idle EXCEPT !.stage = "read", !.member = m,
                               !.convs = read, !.closes = OpenOf(m)]
  <2>1. /\ txn' = [txn EXCEPT ![t] = r]
        /\ r.stage = "read" /\ r.convs = read /\ r.closes = OpenOf(m)
        /\ UNCHANGED rows
    BY <1>8 DEF ReadOwned, Idle
  <2> HIDE DEF r
  <2>2. \A i \in OpenOf(m) : i \in RowsOf(rows[i].conv) /\ rows[i].conv \in read
    BY DEF OpenOf, RowsOf
  <2>3. OpenOf(m) \subseteq UNION {RowsOf(x) : x \in read}
    BY <2>2
  <2>4. txn'[t] = r /\ (\A x : RowsOf(x)' = RowsOf(x))
    BY <1>0, <2>1 DEF RowsOf
  <2> HIDE DEF read
  <2>5. OwnRows(t)'
    BY <2>1, <2>3, <2>4 DEF OwnRows, Releasing
  <2> QED
    BY <1>2, <2>1, <2>5
<1>9. ASSUME NEW t \in Txns, CloseOwned(t) PROVE Closings'
  <2> DEFINE r == [txn[t] EXCEPT !.stage = "releasing"]
  <2>1. /\ txn' = [txn EXCEPT ![t] = r] /\ txn[t].stage = "read"
        /\ r.stage = "releasing" /\ r.convs = txn[t].convs
        /\ r.closes = txn[t].closes
        /\ UNCHANGED rows
    BY <1>0, <1>9 DEF CloseOwned, Txn
  <2> HIDE DEF r
  <2>2. txn'[t] = r /\ (\A x : RowsOf(x)' = RowsOf(x))
    BY <1>0, <2>1 DEF RowsOf
  <2>3. OwnRows(t)'
    BY <1>0, <2>1, <2>2 DEF OwnRows, Releasing
  <2> QED
    BY <1>2, <2>1, <2>3
<1>10. ASSUME NEW t \in Txns, CommitAssign(t) \/ CommitRemove(t) \/ Rollback(t)
       PROVE  Closings'
  <2>1. txn' = [txn EXCEPT ![t] = Idle]
    BY <1>10 DEF CommitAssign, CommitRemove, Rollback
  <2>2. OwnRows(t)'
    BY <1>0, <2>1, IdleOwnRows DEF Idle
  <2> QED
    BY <1>2, <2>1, <2>2
<1>11. CASE UNCHANGED vars
  BY <1>0, <1>1, <1>11, OwnRowsStay DEF vars, Closings
<1> QED
  BY <1>4, <1>5, <1>6, <1>7, <1>8, <1>9, <1>10, <1>11 DEF Next

LEMMA ClosingsInvariant == Spec => []Closings
BY Invariant, InitClosings, StepClosings, PTL DEF Spec
-----------------------------------------------------------------------------
(* The owner column, and who the newest row of a conversation names. *)

\* A conversation none of whose rows a step touches.
Untouched(y) == /\ RowsOf(y)' = RowsOf(y)
                /\ OpenRows(y)' = OpenRows(y)
                /\ \A i \in RowsOf(y) : rows'[i].member = rows[i].member

LEMMA UntouchedHolder ==
    ASSUME NEW y, Untouched(y)
    PROVE  Holder(y)' = Holder(y)
<1>1. CASE OpenRows(y) = {}
  BY <1>1 DEF Untouched, Holder
<1>2. CASE OpenRows(y) # {}
  <2> DEFINE c == CHOOSE i \in OpenRows(y) : TRUE
  <2>1. c \in OpenRows(y) /\ c \in RowsOf(y)
    BY <1>2 DEF OpenRows, RowsOf
  <2>2. Holder(y) = rows[c].member
    BY <1>2 DEF Holder
  <2>3. Holder(y)' = rows'[c].member
    BY <1>2 DEF Holder, Untouched
  <2> HIDE DEF c
  <2> QED
    BY <2>1, <2>2, <2>3 DEF Untouched
<1> QED
  BY <1>1, <1>2

LEMMA UntouchedPrevious ==
    ASSUME rows \in Seq(Row), NEW y, Untouched(y)
    PROVE  Previous(y)' = Previous(y)
<1>1. CASE RowsOf(y) = {}
  BY <1>1 DEF Untouched, Previous
<1>2. CASE RowsOf(y) # {}
  <2> DEFINE c == CHOOSE i \in RowsOf(y) : \A j \in RowsOf(y) : j <= i
  <2>1. c \in RowsOf(y)
    <3>1. Len(rows) \in Nat /\ RowsOf(y) \in SUBSET (1..Len(rows))
      BY LenProperties DEF RowsOf
    <3> QED
      BY <1>2, <3>1, Greatest
  <2>2. Previous(y) = rows[c].member
    BY <1>2 DEF Previous
  <2>3. Previous(y)' = rows'[c].member
    BY <1>2 DEF Previous, Untouched
  <2> HIDE DEF c
  <2> QED
    BY <2>1, <2>2, <2>3 DEF Untouched
<1> QED
  BY <1>1, <1>2

\* A commit touches one conversation, a removal those it has read.
LEMMA CommitUntouched ==
    ASSUME IInv, Closings, NEW t \in Txns, CommitAssign(t),
           NEW y \in Convs, y # txn[t].conv
    PROVE  Untouched(y)
<1>1. /\ txn[t].stage = "closing" /\ txn[t].conv \in Convs
  BY DEF CommitAssign, IInv, Sound, HoldsLock, Deciding
<1>2. txn[t].closes \subseteq RowsOf(txn[t].conv)
  BY <1>1 DEF Closings, OwnRows
<1>0. PICK x \in Convs : x = txn[t].conv
  BY <1>1
<1>3. /\ Keeps(txn[t].closes)
      /\ Len(rows') = Len(rows) + 1
      /\ rows'[Len(rows) + 1].conv = txn[t].conv
  <2>1. /\ Keeps(txn[t].closes)
        /\ Len(rows') = Len(rows) + 1
        /\ rows'[Len(rows) + 1] =
             [conv |-> x, member |-> txn[t].member, reason |-> txn[t].reason,
              by |-> txn[t].by, open |-> TRUE]
    BY <1>0, CommitRows
  <2> QED
    BY <1>0, <2>1
<1>4. RowsOf(y)' = RowsOf(y)
  BY <1>3 DEF Keeps, RowsOf
<1>5. \A i \in RowsOf(y) : i \notin txn[t].closes
  BY <1>2 DEF RowsOf
<1>6. OpenRows(y)' = OpenRows(y)
  BY <1>3, <1>5 DEF Keeps, RowsOf, OpenRows
<1>7. \A i \in RowsOf(y) : rows'[i].member = rows[i].member
  BY <1>3 DEF Keeps, RowsOf
<1> QED
  BY <1>4, <1>6, <1>7 DEF Untouched

LEMMA RemoveUntouched ==
    ASSUME IInv, Closings, NEW t \in Txns, CommitRemove(t),
           NEW y \in Convs, y \notin txn[t].convs
    PROVE  Untouched(y)
<1>1. Releasing(t)
  BY DEF CommitRemove, Releasing
<1>2. /\ Keeps(txn[t].closes)
      /\ \A i \in (Len(rows) + 1)..Len(rows') : rows'[i].conv \in txn[t].convs
  BY RemoveRows
<1>3. \A i \in 1..Len(rows') : rows'[i].conv = y => i \in 1..Len(rows)
  <2>1. ASSUME NEW i \in 1..Len(rows'), ~(i <= Len(rows))
        PROVE  rows'[i].conv # y
    <3>1. i \in (Len(rows) + 1)..Len(rows')
      BY <1>2, <2>1 DEF Keeps
    <3> QED
      BY <1>2, <3>1
  <2> QED
    BY <1>2, <2>1 DEF Keeps
<1>4. RowsOf(y)' = RowsOf(y)
  BY <1>2, <1>3 DEF Keeps, RowsOf
<1>5. ASSUME NEW i \in RowsOf(y) PROVE i \notin txn[t].closes
  BY <1>1, <1>5 DEF Closings, OwnRows, RowsOf
<1>6. OpenRows(y)' = OpenRows(y)
  BY <1>2, <1>3, <1>5 DEF Keeps, RowsOf, OpenRows
<1>7. \A i \in RowsOf(y) : rows'[i].member = rows[i].member
  BY <1>2 DEF Keeps, RowsOf
<1> QED
  BY <1>4, <1>6, <1>7 DEF Untouched

LEMMA QuietUntouched ==
    ASSUME Quiet
    PROVE  \A y : Untouched(y)
BY DEF Quiet, Untouched, RowsOf, OpenRows

LEMMA StepOwner ==
    ASSUME IInv, Closings, OwnerFollowsActive, [Next]_vars
    PROVE  OwnerFollowsActive'
<1> SUFFICES ASSUME gone' = {}, NEW y \in Convs
             PROVE  owner'[y] = Holder(y)'
  BY DEF OwnerFollowsActive, OwnerMatches
<1>1. CASE Quiet
  <2>1. Holder(y)' = Holder(y)
    BY <1>1, QuietUntouched, UntouchedHolder
  <2> QED
    BY <1>1, <2>1 DEF Quiet, OwnerFollowsActive, OwnerMatches
<1>2. ASSUME NEW t \in Txns, CommitAssign(t) PROVE owner'[y] = Holder(y)'
  <2>1. /\ owner' = [owner EXCEPT ![txn[t].conv] = txn[t].member]
        /\ gone' = gone
    BY <1>2 DEF CommitAssign
  <2>2. owner \in [Convs -> Members \cup {None}]
    BY DEF IInv, TypeOK
  <2>3. CASE y # txn[t].conv
    <3>1. Holder(y)' = Holder(y)
      BY <1>2, <2>3, CommitUntouched, UntouchedHolder
    <3> QED
      BY <2>1, <2>2, <2>3, <3>1 DEF OwnerFollowsActive, OwnerMatches
  <2>4. CASE y = txn[t].conv
    <3> DEFINE n == Len(rows) + 1
    <3>0. /\ rows'[n] =
               [conv |-> y, member |-> txn[t].member, reason |-> txn[t].reason,
                by |-> txn[t].by, open |-> TRUE]
          /\ OpenRows(y)' = {n}
      BY <1>2, <2>4, CommitRows
    <3>1. rows'[n].member = txn[t].member /\ OpenRows(y)' = {n}
      BY <3>0
    <3>2. (CHOOSE i \in OpenRows(y)' : TRUE) = n
      BY <3>1
    <3>3. Holder(y)' = rows'[n].member
      BY <3>1, <3>2 DEF Holder
    <3> QED
      BY <2>1, <2>2, <2>4, <3>1, <3>3
  <2> QED
    BY <2>3, <2>4
<1>3. ASSUME NEW t \in Txns, CommitRemove(t) PROVE FALSE
  BY <1>3 DEF CommitRemove
<1> QED
  BY <1>1, <1>2, <1>3, StepsAreQuiet

\* The owner column is the member of the active row, whatever assignments,
\* claims, transfers, rollbacks and uncommitted removals interleave, until the
\* first member leaves the company.
THEOREM OwnerColumnFollows == Spec => []OwnerFollowsActive
<1>1. Init => OwnerFollowsActive
  BY DEF Init, OwnerFollowsActive, OwnerMatches, Holder, OpenRows
<1> QED
  BY <1>1, Invariant, ClosingsInvariant, StepOwner, PTL DEF Spec

LEMMA StepReleases ==
    ASSUME IInv, Closings, OnlyRemovalReleases, [Next]_vars
    PROVE  OnlyRemovalReleases'
<1> SUFFICES ASSUME NEW y \in Convs, RowsOf(y)' # {}, OpenRows(y)' = {}
             PROVE  Previous(y)' \in gone'
  BY DEF OnlyRemovalReleases
<1>0. rows \in Seq(Row) /\ gone \subseteq gone'
  <2>1. gone \subseteq gone'
    BY StepsAreQuiet DEF Quiet, CommitAssign, CommitRemove
  <2> QED
    BY <2>1 DEF IInv, TypeOK
<1>1. ASSUME Untouched(y) PROVE Previous(y)' \in gone'
  <2>1. Previous(y)' = Previous(y) /\ RowsOf(y) # {} /\ OpenRows(y) = {}
    BY <1>0, <1>1, UntouchedPrevious DEF Untouched
  <2> QED
    BY <1>0, <2>1 DEF OnlyRemovalReleases
<1>2. CASE Quiet
  BY <1>1, <1>2, QuietUntouched
<1>3. ASSUME NEW t \in Txns, CommitAssign(t) PROVE Previous(y)' \in gone'
  <2>1. CASE y # txn[t].conv
    BY <1>1, <1>3, <2>1, CommitUntouched
  <2>2. CASE y = txn[t].conv
    BY <1>3, <2>2, CommitRows
  <2> QED
    BY <2>1, <2>2
<1>4. ASSUME NEW t \in Txns, CommitRemove(t) PROVE Previous(y)' \in gone'
  <2>1. CASE y \notin txn[t].convs
    BY <1>1, <1>4, <2>1, RemoveUntouched
  <2>2. CASE y \in txn[t].convs
    <3>1. /\ rows' \in Seq(Row)
          /\ Keeps(txn[t].closes)
          /\ \A i \in (Len(rows) + 1)..Len(rows') : rows'[i].member = txn[t].member
          /\ \E i \in (Len(rows) + 1)..Len(rows') : rows'[i].conv = y
      BY <1>4, <2>2, RemoveRows
    <3>2. PICK k \in (Len(rows) + 1)..Len(rows') : rows'[k].conv = y
      BY <3>1
    <3>3. k \in RowsOf(y)'
      BY <3>1, <3>2 DEF RowsOf, Keeps
    <3> DEFINE i == CHOOSE j \in RowsOf(y)' : \A l \in RowsOf(y)' : l <= j
    <3>4. i \in RowsOf(y)' /\ \A j \in RowsOf(y)' : j <= i
      <4>1. Len(rows') \in Nat /\ RowsOf(y)' \in SUBSET (1..Len(rows'))
        BY <3>1 DEF RowsOf, Keeps
      <4> QED
        BY <3>3, <4>1, Greatest
    <3>7. Previous(y)' = rows'[i].member
      BY <3>3 DEF Previous
    <3> HIDE DEF i
    <3>5. i \in (Len(rows) + 1)..Len(rows')
      BY <3>1, <3>2, <3>3, <3>4 DEF RowsOf, Keeps
    <3>6. txn[t].member \in gone'
      BY <1>4 DEF CommitRemove
    <3> QED
      BY <3>1, <3>5, <3>6, <3>7
  <2> QED
    BY <2>1, <2>2
<1> QED
  BY <1>2, <1>3, <1>4, StepsAreQuiet

\* Only the removal of its owner leaves a conversation without one: the newest
\* row then names a member who has left, so that sticky assignment never brings
\* back somebody a transfer or a claim replaced.
THEOREM OnlyRemovalsRelease == Spec => []OnlyRemovalReleases
<1>1. Init => OnlyRemovalReleases
  BY DEF Init, OnlyRemovalReleases, RowsOf
<1> QED
  BY <1>1, Invariant, ClosingsInvariant, StepReleases, PTL DEF Spec
-----------------------------------------------------------------------------
(* The cap on automatic assignments. *)

\* The conversations a member has by automatic assignment, and the transactions
\* about to give the member another.
Taken(m)  == {i \in OpenOf(m) : rows[i].reason = "auto"}
Taking(m) == {t \in Txns : /\ Deciding(t)
                           /\ txn[t].reason = "auto" /\ txn[t].member = m}

Within(m) == Cardinality(Taken(m)) + Cardinality(Taking(m))
                < MaxOpen + Cardinality(Txns)
CapKept == MaxOpen > 0 => \A m \in Members : Within(m)

LEMMA CountTypes ==
    ASSUME rows \in Seq(Row), NEW m
    PROVE  /\ IsFiniteSet(Taken(m)) /\ Cardinality(Taken(m)) \in Nat
           /\ IsFiniteSet(Taking(m)) /\ Cardinality(Taking(m)) \in Nat
           /\ Cardinality(Taking(m)) <= Cardinality(Txns)
           /\ Cardinality(Txns) \in Nat
<1>1. Len(rows) \in Nat
  BY LenProperties
<1>2. IsFiniteSet(1..Len(rows)) /\ Taken(m) \in SUBSET (1..Len(rows))
  BY <1>1, FS_Interval DEF Taken, OpenOf
<1>3. IsFiniteSet(Taken(m)) /\ Cardinality(Taken(m)) \in Nat
  BY <1>2, FS_Subset, FS_CardinalityType
<1>4. IsFiniteSet(Txns) /\ Taking(m) \in SUBSET Txns
  BY FiniteAssumption DEF Taking
<1>5. /\ IsFiniteSet(Taking(m))
      /\ Cardinality(Taking(m)) <= Cardinality(Txns)
  BY <1>4, FS_Subset
<1> QED
  BY <1>3, <1>4, <1>5, FS_CardinalityType

\* Nothing is added to what a member has or is about to get.
LEMMA FewerWithin ==
    ASSUME rows \in Seq(Row), NEW m, Within(m), MaxOpen \in Nat,
           Taken(m)' \subseteq Taken(m), Taking(m)' \subseteq Taking(m)
    PROVE  Within(m)'
<1> DEFINE A == Taken(m)
           B == Taking(m)
           C == Taken(m)'
           D == Taking(m)'
<1>1. /\ IsFiniteSet(A) /\ Cardinality(A) \in Nat
      /\ IsFiniteSet(B) /\ Cardinality(B) \in Nat
      /\ Cardinality(Txns) \in Nat
  BY CountTypes
<1>2. C \in SUBSET A /\ D \in SUBSET B
  OBVIOUS
<1>3. Cardinality(A) + Cardinality(B) < MaxOpen + Cardinality(Txns)
  BY DEF Within
<1> SUFFICES Cardinality(C) + Cardinality(D) < MaxOpen + Cardinality(Txns)
  BY DEF Within
<1> HIDE DEF A, B, C, D
<1>4. /\ Cardinality(C) <= Cardinality(A) /\ Cardinality(C) \in Nat
      /\ Cardinality(D) <= Cardinality(B) /\ Cardinality(D) \in Nat
  BY <1>1, <1>2, FS_Subset, FS_CardinalityType
<1> QED
  BY <1>1, <1>3, <1>4

\* An automatic assignment is committed: one more taken, one fewer to come.
LEMMA MovedWithin ==
    ASSUME rows \in Seq(Row), NEW m, Within(m), MaxOpen \in Nat,
           NEW n, NEW t \in Taking(m),
           Taken(m)' \subseteq Taken(m) \cup {n},
           Taking(m)' \subseteq Taking(m) \ {t}
    PROVE  Within(m)'
<1> DEFINE A == Taken(m)
           B == Taking(m)
           C == Taken(m)'
           D == Taking(m)'
<1>1. /\ IsFiniteSet(A) /\ Cardinality(A) \in Nat
      /\ IsFiniteSet(B) /\ Cardinality(B) \in Nat
      /\ Cardinality(Txns) \in Nat
  BY CountTypes
<1>2. C \in SUBSET (A \cup {n}) /\ D \in SUBSET (B \ {t}) /\ t \in B
  OBVIOUS
<1>3. Cardinality(A) + Cardinality(B) < MaxOpen + Cardinality(Txns)
  BY DEF Within
<1> SUFFICES Cardinality(C) + Cardinality(D) < MaxOpen + Cardinality(Txns)
  BY DEF Within
<1> HIDE DEF A, B, C, D
<1>4. /\ IsFiniteSet(A \cup {n}) /\ Cardinality(A \cup {n}) \in Nat
      /\ Cardinality(A \cup {n}) <= Cardinality(A) + 1
  <2>1. /\ IsFiniteSet(A \cup {n})
        /\ Cardinality(A \cup {n}) =
             IF n \in A THEN Cardinality(A) ELSE Cardinality(A) + 1
    BY <1>1, FS_AddElement
  <2> QED
    BY <1>1, <2>1
<1>5. /\ IsFiniteSet(B \ {t}) /\ Cardinality(B \ {t}) \in Nat
      /\ Cardinality(B \ {t}) = Cardinality(B) - 1
  BY <1>1, <1>2, FS_RemoveElement, FS_CardinalityType
<1>6. /\ Cardinality(C) <= Cardinality(A \cup {n}) /\ Cardinality(C) \in Nat
      /\ Cardinality(D) <= Cardinality(B \ {t}) /\ Cardinality(D) \in Nat
  BY <1>2, <1>4, <1>5, FS_Subset, FS_CardinalityType
<1> QED
  BY <1>1, <1>3, <1>4, <1>5, <1>6

\* While no history row appears, a member's active rows are among the old ones.
LEMMA KeptTaken ==
    ASSUME NEW C, Keeps(C), NEW m, NEW i \in Taken(m)', i \in 1..Len(rows)
    PROVE  i \in Taken(m)
BY DEF Keeps, Taken, OpenOf

LEMMA QuietTaken ==
    ASSUME Quiet
    PROVE  \A m : Taken(m)' = Taken(m)
BY DEF Quiet, Taken, OpenOf

\* An eligible member is below the cap, so that with the transactions that run
\* at a time it gets no further.
LEMMA EnsureWithin ==
    ASSUME IInv, MaxOpen \in Nat, MaxOpen > 0,
           NEW t \in Txns, NEW x \in Convs, EnsureAssigned(t, x),
           NEW m \in Members, m = Candidate(x)
    PROVE  Within(m)'
<1>0. rows \in Seq(Row) /\ UNCHANGED rows
  BY DEF IInv, TypeOK, EnsureAssigned, Choose
<1>1. m \in Eligible
  <2>1. CASE Sticky /\ Previous(x) \in Eligible
    BY <2>1 DEF Candidate
  <2>2. CASE ~(Sticky /\ Previous(x) \in Eligible)
    <3>1. (CHOOSE k \in Eligible : \A n \in Eligible : Before(k, n)) \in Eligible
      BY <1>0, FirstExists DEF EnsureAssigned
    <3> QED
      BY <2>2, <3>1 DEF Candidate
  <2> QED
    BY <2>1, <2>2
<1>2. Load(m) < MaxOpen /\ Load(m) \in Nat
  BY <1>0, <1>1, LoadType DEF Eligible
<1>3. Cardinality(Taken(m)) <= Load(m) /\ Cardinality(Taken(m)) \in Nat
  <2>1. Len(rows) \in Nat
    BY <1>0, LenProperties
  <2>2. IsFiniteSet(1..Len(rows)) /\ OpenOf(m) \in SUBSET (1..Len(rows))
    BY <2>1, FS_Interval DEF OpenOf
  <2>3. IsFiniteSet(OpenOf(m)) /\ Taken(m) \in SUBSET OpenOf(m)
    BY <2>2, FS_Subset DEF Taken
  <2> QED
    BY <1>0, <2>3, FS_Subset, CountTypes DEF Load
<1>4. Taken(m)' = Taken(m)
  BY <1>0 DEF Taken, OpenOf
<1>5. /\ Taking(m)' \in SUBSET Txns /\ IsFiniteSet(Txns)
      /\ Cardinality(Txns) \in Nat
  BY FiniteAssumption, FS_CardinalityType DEF Taking
<1> DEFINE D == Taking(m)'
<1>6. D \in SUBSET Txns
  BY <1>5
<1> SUFFICES Cardinality(Taken(m)) + Cardinality(D) < MaxOpen + Cardinality(Txns)
  BY <1>4 DEF Within
<1> HIDE DEF D
<1>7. Cardinality(D) <= Cardinality(Txns) /\ Cardinality(D) \in Nat
  BY <1>5, <1>6, FS_Subset, FS_CardinalityType
<1> QED
  BY <1>2, <1>3, <1>5, <1>7

\* A transaction that was not taking a conversation automatically still is not.
LEMMA StepCap ==
    ASSUME IInv, CapKept, [Next]_vars
    PROVE  CapKept'
<1> SUFFICES ASSUME MaxOpen > 0, NEW m \in Members PROVE Within(m)'
  BY DEF CapKept
<1>0. /\ rows \in Seq(Row) /\ txn \in [Txns -> Txn] /\ Within(m)
      /\ MaxOpen \in Nat
  BY SettingsAssumption DEF IInv, TypeOK, CapKept
<1>1. ASSUME NEW t \in Txns, NEW x \in Convs, NEW k, NEW reason, NEW by,
             Choose(t, x, k, reason, by), reason # "auto" \/ k # m
      PROVE  Within(m)'
  <2> DEFINE r == [Idle EXCEPT !.stage = "chosen", !.conv = x, !.member = k,
                               !.reason = reason, !.by = by]
  <2>1. r.stage = "chosen" /\ r.reason = reason /\ r.member = k
    BY DEF Idle
  <2>2. txn' = [txn EXCEPT ![t] = r] /\ UNCHANGED <<rows, owner, gone>>
    BY <1>1 DEF Choose
  <2> HIDE DEF r
  <2>3. Taking(m)' \subseteq Taking(m)
    BY <1>0, <1>1, <2>1, <2>2 DEF Taking, Deciding
  <2> QED
    BY <1>0, <2>2, <2>3, QuietTaken, FewerWithin DEF Quiet
<1>2. ASSUME NEW t \in Txns, NEW x \in Convs, EnsureAssigned(t, x)
      PROVE  Within(m)'
  <2>1. CASE Candidate(x) = m
    BY <1>0, <1>2, <2>1, EnsureWithin
  <2>2. CASE Candidate(x) # m
    BY <1>1, <1>2, <2>2 DEF EnsureAssigned
  <2> QED
    BY <2>1, <2>2
<1>3. ASSUME NEW t \in Txns, NEW x \in Convs, NEW k \in Members, Claim(t, x, k)
      PROVE  Within(m)'
  BY <1>1, <1>3 DEF Claim
<1>4. ASSUME NEW t \in Txns, NEW x \in Convs, NEW k \in Members,
             NEW r \in Members, AssignToAgent(t, x, k, r)
      PROVE  Within(m)'
  BY <1>1, <1>4 DEF AssignToAgent
<1>5. ASSUME NEW t \in Txns,
             \/ CloseActive(t)
             \/ CloseOwned(t)
             \/ Rollback(t)
             \/ \E k \in Members : ReadOwned(t, k)
      PROVE  Within(m)'
  <2>1. Quiet
    BY <1>5 DEF CloseActive, CloseOwned, Rollback, ReadOwned, Quiet
  <2>2. Taking(m)' \subseteq Taking(m)
    <3>1. CASE CloseActive(t)
      BY <1>0, <3>1 DEF CloseActive, Taking, Deciding, Txn
    <3>2. CASE CloseOwned(t)
      BY <1>0, <3>2 DEF CloseOwned, Taking, Deciding, Txn
    <3>3. CASE Rollback(t)
      BY <1>0, <3>3 DEF Rollback, Taking, Deciding, Idle
    <3>4. ASSUME NEW k \in Members, ReadOwned(t, k)
          PROVE  Taking(m)' \subseteq Taking(m)
      BY <1>0, <3>4 DEF ReadOwned, Taking, Deciding, Idle
    <3> QED
      BY <1>5, <3>1, <3>2, <3>3, <3>4
  <2> QED
    BY <1>0, <2>1, <2>2, QuietTaken, FewerWithin
<1>6. ASSUME NEW t \in Txns, CommitAssign(t) PROVE Within(m)'
  <2> DEFINE n == Len(rows) + 1
  <2>0. /\ Deciding(t)
        /\ txn' = [txn EXCEPT ![t] = Idle]
    BY <1>6 DEF CommitAssign, Deciding
  <2>1. PICK x \in Convs : x = txn[t].conv
    BY <2>0 DEF IInv, Sound, HoldsLock
  <2>2. /\ Keeps(txn[t].closes) /\ Len(rows') = n
        /\ rows'[n] =
             [conv |-> x, member |-> txn[t].member, reason |-> txn[t].reason,
              by |-> txn[t].by, open |-> TRUE]
    BY <1>6, <2>1, CommitRows
  <2>3. rows'[n].member = txn[t].member /\ rows'[n].reason = txn[t].reason
    BY <2>2
  <2>4. ASSUME NEW i \in Taken(m)', i # n PROVE i \in Taken(m)
    <3>1. i \in 1..Len(rows)
      BY <2>2, <2>4 DEF Taken, OpenOf, Keeps
    <3> QED
      BY <2>2, <2>4, <3>1, KeptTaken
  <2>5. Taking(m)' \subseteq Taking(m) \ {t}
    BY <1>0, <2>0 DEF Taking, Deciding, Idle
  <2>6. CASE t \in Taking(m)
    <3>1. Taken(m)' \subseteq Taken(m) \cup {n}
      BY <2>4
    <3> QED
      BY <1>0, <2>5, <2>6, <3>1, MovedWithin
  <2>7. CASE t \notin Taking(m)
    <3>1. n \notin Taken(m)'
      BY <2>0, <2>3, <2>7 DEF Taking, Taken, OpenOf
    <3>2. Taken(m)' \subseteq Taken(m)
      BY <2>4, <3>1
    <3> QED
      BY <1>0, <2>5, <3>2, FewerWithin
  <2> QED
    BY <2>6, <2>7
<1>7. ASSUME NEW t \in Txns, CommitRemove(t) PROVE Within(m)'
  <2>1. /\ Keeps(txn[t].closes)
        /\ \A i \in (Len(rows) + 1)..Len(rows') : ~ rows'[i].open
    BY <1>7, RemoveRows
  <2>2. ASSUME NEW i \in Taken(m)' PROVE i \in Taken(m)
    <3>1. i \in 1..Len(rows') /\ rows'[i].open
      BY <2>2 DEF Taken, OpenOf
    <3>2. i \in 1..Len(rows)
      BY <2>1, <3>1 DEF Keeps
    <3> QED
      BY <2>1, <2>2, <3>2, KeptTaken
  <2>3. Taking(m)' \subseteq Taking(m)
    BY <1>0, <1>7 DEF CommitRemove, Taking, Deciding, Idle
  <2>4. Taken(m)' \subseteq Taken(m)
    BY <2>2
  <2> QED
    BY <1>0, <2>3, <2>4, FewerWithin
<1>8. CASE UNCHANGED vars
  <2>1. Quiet /\ Taking(m)' = Taking(m)
    BY <1>8 DEF vars, Quiet, Taking, Deciding
  <2> QED
    BY <1>0, <2>1, QuietTaken, FewerWithin
<1> QED
  BY <1>2, <1>3, <1>4, <1>5, <1>6, <1>7, <1>8 DEF Next

LEMMA InitCap == Init => CapKept
<1> SUFFICES ASSUME Init, MaxOpen > 0, NEW m \in Members PROVE Within(m)
  BY DEF CapKept
<1>1. Taken(m) = {} /\ Taking(m) = {}
  BY DEF Init, Taken, OpenOf, Taking, Deciding, Idle
<1>2. Cardinality(Txns) \in Nat /\ MaxOpen \in Nat
  BY FiniteAssumption, FS_CardinalityType, SettingsAssumption
<1> QED
  BY <1>1, <1>2, FS_EmptySet DEF Within

\* However many automatic assignments read the same loads, they push a member
\* past the cap by fewer conversations than there are transactions at a time.
THEOREM OvershootIsBounded == Spec => []OvershootBounded
<1>1. ASSUME IInv, CapKept PROVE OvershootBounded
  <2> SUFFICES ASSUME MaxOpen > 0, NEW m \in Members
               PROVE  Cardinality(Taken(m)) < MaxOpen + Cardinality(Txns)
    BY DEF OvershootBounded, Taken
  <2>1. Within(m) /\ rows \in Seq(Row) /\ MaxOpen \in Nat
    BY <1>1, SettingsAssumption DEF CapKept, IInv, TypeOK
  <2>2. /\ Cardinality(Taken(m)) \in Nat /\ Cardinality(Taking(m)) \in Nat
        /\ Cardinality(Txns) \in Nat
    BY <2>1, CountTypes
  <2> QED
    BY <2>1, <2>2 DEF Within
<1>2. Spec => []CapKept
  BY Invariant, InitCap, StepCap, PTL DEF Spec
<1> QED
  BY <1>1, <1>2, Invariant, PTL
-----------------------------------------------------------------------------
(* The engine implements Ownership. *)

\* What a transaction decided: an automatic assignment and a claim are for a
\* conversation without an owner, a transfer for one whose owner is another.
Decided(t) == Deciding(t) =>
    \/ /\ txn[t].reason \in {"auto", "claim"} /\ txn[t].by = None
       /\ OpenRows(txn[t].conv) = {}
    \/ txn[t].reason = "manual" /\ txn[t].by = None
    \/ /\ txn[t].reason = "transfer"
       /\ \A i \in OpenRows(txn[t].conv) : rows[i].member # txn[t].member

\* A removal closes rows of its member.
Released(t) == Releasing(t) =>
    \A i \in txn[t].closes : i \in 1..Len(rows) /\ rows[i].member = txn[t].member

Decisions == \A t \in Txns : Decided(t) /\ Released(t)

\* No row goes away or changes its member.
RowsRemain == \A i \in 1..Len(rows) :
                 i \in 1..Len(rows') /\ rows'[i].member = rows[i].member

LEMMA KeepsRemain ==
    ASSUME NEW C, Keeps(C)
    PROVE  RowsRemain
BY DEF Keeps, RowsRemain

LEMMA DecisionStays ==
    ASSUME NEW u \in Txns, Decided(u), Released(u), txn'[u] = txn[u],
           Deciding(u) => Shrinks(txn[u].conv), RowsRemain
    PROVE  Decided(u)' /\ Released(u)'
<1>1. Decided(u)'
  BY DEF Decided, Deciding, Shrinks
<1>2. Released(u)'
  BY DEF Released, Releasing, RowsRemain
<1> QED
  BY <1>1, <1>2

LEMMA IdleDecided ==
    ASSUME NEW t \in Txns, txn'[t] = Idle
    PROVE  Decided(t)' /\ Released(t)'
BY DEF Decided, Released, Deciding, Releasing, Idle

LEMMA InitDecisions == Init => Decisions
BY DEF Init, Decisions, Decided, Released, Deciding, Releasing, Idle

\* A step of one transaction that writes no row.
LEMMA OwnStepDecisions ==
    ASSUME Decisions, NEW t \in Txns, txn \in [Txns -> Txn],
           NEW r, txn' = [txn EXCEPT ![t] = r], UNCHANGED rows,
           Decided(t)', Released(t)'
    PROVE  Decisions'
<1>1. RowsRemain /\ \A y : Shrinks(y)
  BY SameRows DEF RowsRemain
<1>2. ASSUME NEW u \in Txns, u # t PROVE Decided(u)' /\ Released(u)'
  <2>1. txn'[u] = txn[u] /\ Decided(u) /\ Released(u)
    BY <1>2 DEF Decisions
  <2> QED
    BY <1>1, <2>1, DecisionStays
<1> QED
  BY <1>2 DEF Decisions

LEMMA ChooseDecisions ==
    ASSUME IInv, Decisions, NEW t \in Txns, NEW x \in Convs, NEW m, NEW reason,
           NEW by, Choose(t, x, m, reason, by),
           \/ reason \in {"auto", "claim"} /\ by = None /\ OpenRows(x) = {}
           \/ reason = "manual" /\ by = None
           \/ reason = "transfer" /\ \A i \in OpenRows(x) : rows[i].member # m
    PROVE  Decisions'
<1> DEFINE r == [Idle EXCEPT !.stage = "chosen", !.conv = x, !.member = m,
                             !.reason = reason, !.by = by]
<1>1. /\ r.stage = "chosen" /\ r.conv = x /\ r.member = m
      /\ r.reason = reason /\ r.by = by
  BY DEF Idle
<1>2. txn' = [txn EXCEPT ![t] = r] /\ UNCHANGED rows
  BY DEF Choose
<1>3. txn \in [Txns -> Txn]
  BY DEF IInv, TypeOK
<1> HIDE DEF r
<1>4. txn'[t] = r /\ OpenRows(x)' = OpenRows(x)
  BY <1>2, <1>3 DEF OpenRows
<1>5. Decided(t)'
  BY <1>1, <1>2, <1>4 DEF Decided
<1>6. Released(t)'
  BY <1>1, <1>4 DEF Released, Releasing
<1> QED
  BY <1>2, <1>3, <1>5, <1>6, OwnStepDecisions

LEMMA StepDecisions ==
    ASSUME IInv, Decisions, [Next]_vars
    PROVE  Decisions'
<1>0. /\ txn \in [Txns -> Txn] /\ rows \in Seq(Row)
      /\ \A t \in Txns : Decided(t) /\ Released(t) /\ Sound(t)
  BY DEF IInv, TypeOK, Decisions
<1>1. ASSUME NEW t \in Txns, NEW x \in Convs, EnsureAssigned(t, x) PROVE Decisions'
  BY <1>1, ChooseDecisions DEF EnsureAssigned
<1>2. ASSUME NEW t \in Txns, NEW x \in Convs, NEW m \in Members, Claim(t, x, m)
      PROVE  Decisions'
  BY <1>2, ChooseDecisions DEF Claim
<1>3. ASSUME NEW t \in Txns, NEW x \in Convs, NEW m \in Members,
             NEW r \in Members, AssignToAgent(t, x, m, r)
      PROVE  Decisions'
  <2>1. CASE Holder(x) \in {None, m}
    BY <1>3, <2>1, ChooseDecisions DEF AssignToAgent
  <2>2. CASE Holder(x) \notin {None, m}
    <3>1. Choose(t, x, m, "transfer", r)
      BY <1>3, <2>2 DEF AssignToAgent
    <3>2. \A i \in OpenRows(x) : rows[i].member # m
      BY <1>0, <2>2, HolderIs DEF IInv
    <3> QED
      BY <3>1, <3>2, ChooseDecisions
  <2> QED
    BY <2>1, <2>2
<1>4. ASSUME NEW t \in Txns, CloseActive(t) PROVE Decisions'
  <2> DEFINE r == [txn[t] EXCEPT !.stage = "closing",
                                 !.closes = OpenRows(txn[t].conv)]
  <2>1. /\ txn' = [txn EXCEPT ![t] = r] /\ txn[t].stage = "chosen"
        /\ r.stage = "closing" /\ r.conv = txn[t].conv
        /\ r.member = txn[t].member /\ r.reason = txn[t].reason
        /\ r.by = txn[t].by
        /\ UNCHANGED rows
    BY <1>0, <1>4 DEF CloseActive, Txn
  <2> HIDE DEF r
  <2>2. txn'[t] = r /\ Decided(t)
    BY <1>0, <2>1
  <2>3. Decided(t)'
    BY <2>1, <2>2 DEF Decided, Deciding, OpenRows
  <2>4. Released(t)'
    BY <2>1, <2>2 DEF Released, Releasing
  <2> QED
    BY <1>0, <2>1, <2>3, <2>4, OwnStepDecisions
<1>5. ASSUME NEW t \in Txns, NEW m \in Members, ReadOwned(t, m) PROVE Decisions'
  <2> DEFINE read == {rows[i].conv : i \in OpenOf(m)} \cup {x \in Convs : owner[x] = m}
             r == [Idle EXCEPT !.stage = "read", !.member = m,
                               !.convs = read, !.closes = OpenOf(m)]
  <2>1. /\ txn' = [txn EXCEPT ![t] = r]
        /\ r.stage = "read" /\ r.member = m /\ r.closes = OpenOf(m)
        /\ UNCHANGED rows
    BY <1>5 DEF ReadOwned, Idle
  <2> HIDE DEF r, read
  <2>2. txn'[t] = r
    BY <1>0, <2>1
  <2>3. Decided(t)'
    BY <2>1, <2>2 DEF Decided, Deciding
  <2>4. Released(t)'
    BY <2>1, <2>2 DEF Released, Releasing, OpenOf
  <2> QED
    BY <1>0, <2>1, <2>3, <2>4, OwnStepDecisions
<1>6. ASSUME NEW t \in Txns, CloseOwned(t) PROVE Decisions'
  <2> DEFINE r == [txn[t] EXCEPT !.stage = "releasing"]
  <2>1. /\ txn' = [txn EXCEPT ![t] = r] /\ txn[t].stage = "read"
        /\ r.stage = "releasing" /\ r.member = txn[t].member
        /\ r.closes = txn[t].closes
        /\ UNCHANGED rows
    BY <1>0, <1>6 DEF CloseOwned, Txn
  <2> HIDE DEF r
  <2>2. txn'[t] = r
    BY <1>0, <2>1
  <2>3. Decided(t)'
    BY <2>1, <2>2 DEF Decided, Deciding
  <2>4. Released(t)'
    BY <1>0, <2>1, <2>2 DEF Released, Releasing
  <2> QED
    BY <1>0, <2>1, <2>3, <2>4, OwnStepDecisions
<1>7. ASSUME NEW t \in Txns, Rollback(t) PROVE Decisions'
  <2>1. txn' = [txn EXCEPT ![t] = Idle] /\ UNCHANGED rows
    BY <1>7 DEF Rollback
  <2> QED
    BY <1>0, <2>1, IdleDecided, OwnStepDecisions
<1>8. ASSUME NEW t \in Txns, CommitAssign(t) PROVE Decisions'
  <2>1. /\ txn' = [txn EXCEPT ![t] = Idle] /\ Deciding(t)
    BY <1>8 DEF CommitAssign, Deciding
  <2>2. PICK x \in Convs : x = txn[t].conv /\ lock[x] = t
    BY <1>0, <2>1 DEF Sound, HoldsLock
  <2>3. RowsRemain /\ \A y \in Convs \ {x} : Shrinks(y)
    BY <1>8, <2>2, CommitRows, KeepsRemain
  <2>4. ASSUME NEW u \in Txns, u # t PROVE Decided(u)' /\ Released(u)'
    <3>1. txn'[u] = txn[u]
      BY <1>0, <2>1, <2>4
    <3>2. Deciding(u) => txn[u].conv \in Convs \ {x}
      BY <1>0, <2>2, <2>4 DEF Sound, HoldsLock
    <3> QED
      BY <1>0, <2>3, <3>1, <3>2, DecisionStays
  <2> QED
    BY <1>0, <2>1, <2>4, IdleDecided DEF Decisions
<1>9. ASSUME NEW t \in Txns, CommitRemove(t) PROVE Decisions'
  <2>1. txn' = [txn EXCEPT ![t] = Idle]
    BY <1>9 DEF CommitRemove
  <2>2. RowsRemain /\ \A y \in Convs : Shrinks(y)
    BY <1>9, RemoveRows, KeepsRemain
  <2>3. ASSUME NEW u \in Txns, u # t PROVE Decided(u)' /\ Released(u)'
    <3>1. txn'[u] = txn[u]
      BY <1>0, <2>1, <2>3
    <3>2. Deciding(u) => txn[u].conv \in Convs
      BY <1>0 DEF Sound, HoldsLock
    <3> QED
      BY <1>0, <2>2, <3>1, <3>2, DecisionStays
  <2> QED
    BY <1>0, <2>1, <2>3, IdleDecided DEF Decisions
<1>10. CASE UNCHANGED vars
  <2>1. RowsRemain /\ \A y : Shrinks(y)
    BY <1>10, SameRows DEF RowsRemain, vars
  <2> QED
    BY <1>0, <1>10, <2>1, DecisionStays DEF vars, Decisions
<1> QED
  BY <1>1, <1>2, <1>3, <1>4, <1>5, <1>6, <1>7, <1>8, <1>9, <1>10 DEF Next

LEMMA DecisionsInvariant == Spec => []Decisions
BY Invariant, InitDecisions, StepDecisions, PTL DEF Spec

\* The history of the abstract specification.
Acts == [conv : Convs, member : Members, reason : Reasons,
         by : Members \cup {None}]
ActOf(r) == [conv |-> r.conv, member |-> r.member, reason |-> r.reason,
             by |-> r.by]
ActsOf(s) == [i \in 1..Len(s) |-> ActOf(s[i])]

LEMMA LogIs == Log = ActsOf(rows) /\ Log' = ActsOf(rows')
BY DEF Log, ActsOf, ActOf

LEMMA ActsOfType ==
    ASSUME NEW s \in Seq(Row)
    PROVE  /\ ActsOf(s) \in Seq(Acts)
           /\ Len(ActsOf(s)) = Len(s)
           /\ \A i \in 1..Len(s) : ActsOf(s)[i] = ActOf(s[i])
<1>1. Len(s) \in Nat /\ \A i \in 1..Len(s) : s[i] \in Row
  BY LenProperties, ElementOfSeq
<1>2. \A r \in Row : ActOf(r) \in Acts
  BY DEF Row, ActOf, Acts
<1> HIDE DEF ActOf
<1> QED
  BY <1>1, <1>2 DEF ActsOf

LEMMA IsAppend ==
    ASSUME NEW S, NEW s \in Seq(S), NEW u \in Seq(S), NEW a \in S,
           Len(u) = Len(s) + 1, \A i \in 1..Len(s) : u[i] = s[i],
           u[Len(s) + 1] = a
    PROVE  u = Append(s, a)
<1>1. Len(s) \in Nat
  BY LenProperties
<1>2. /\ Append(s, a) \in Seq(S)
      /\ Len(Append(s, a)) = Len(s) + 1
      /\ \A i \in 1..Len(s) : Append(s, a)[i] = s[i]
      /\ Append(s, a)[Len(s) + 1] = a
  BY AppendProperties
<1>3. ASSUME NEW i \in 1..Len(u) PROVE u[i] = Append(s, a)[i]
  <2>1. CASE i \in 1..Len(s)
    BY <1>2, <2>1
  <2>2. CASE i = Len(s) + 1
    BY <1>2, <2>2
  <2> QED
    BY <1>1, <2>1, <2>2
<1> QED
  BY <1>2, <1>3, SeqEqual

LEMMA IsConcat ==
    ASSUME NEW S, NEW s \in Seq(S), NEW u \in Seq(S), NEW w \in Seq(S),
           Len(u) = Len(s) + Len(w), \A i \in 1..Len(s) : u[i] = s[i],
           \A k \in 1..Len(w) : u[Len(s) + k] = w[k]
    PROVE  u = s \o w
<1>1. Len(s) \in Nat /\ Len(w) \in Nat
  BY LenProperties
<1>2. /\ s \o w \in Seq(S)
      /\ Len(s \o w) = Len(s) + Len(w)
      /\ \A i \in 1..Len(s) + Len(w) :
            (s \o w)[i] = IF i <= Len(s) THEN s[i] ELSE w[i - Len(s)]
  BY ConcatProperties
<1>3. ASSUME NEW i \in 1..Len(u) PROVE u[i] = (s \o w)[i]
  <2>1. CASE i <= Len(s)
    BY <1>1, <1>2, <2>1
  <2>2. CASE ~(i <= Len(s))
    <3>1. PICK k \in 1..Len(w) : i = Len(s) + k
      <4>1. i - Len(s) \in 1..Len(w) /\ i = Len(s) + (i - Len(s))
        BY <1>1, <2>2
      <4> QED
        BY <4>1
    <3>2. (s \o w)[i] = w[k]
      BY <1>1, <1>2, <2>2, <3>1
    <3> QED
      BY <3>1, <3>2
  <2> QED
    BY <2>1, <2>2
<1> QED
  BY <1>2, <1>3, SeqEqual

\* An assignment adds its act.
LEMMA CommitLog ==
    ASSUME IInv, NEW t \in Txns, NEW x \in Convs, x = txn[t].conv, CommitAssign(t)
    PROVE  Log' = Append(Log, [conv |-> x, member |-> txn[t].member,
                               reason |-> txn[t].reason, by |-> txn[t].by])
<1> DEFINE n == Len(rows) + 1
           a == [conv |-> x, member |-> txn[t].member,
                 reason |-> txn[t].reason, by |-> txn[t].by]
<1>1. /\ rows \in Seq(Row) /\ rows' \in Seq(Row)
      /\ Len(rows') = n /\ Len(rows) \in Nat
      /\ rows'[n] = [conv |-> x, member |-> txn[t].member,
                     reason |-> txn[t].reason, by |-> txn[t].by, open |-> TRUE]
      /\ Keeps(txn[t].closes)
  BY CommitRows DEF IInv, TypeOK
<1>2. ActOf(rows'[n]) = a
  BY <1>1 DEF ActOf
<1>3. \A i \in 1..Len(rows) : ActOf(rows'[i]) = ActOf(rows[i])
  BY <1>1 DEF Keeps, ActOf
<1> HIDE DEF a
<1>4. /\ Log \in Seq(Acts) /\ Len(Log) = Len(rows)
      /\ \A i \in 1..Len(rows) : Log[i] = ActOf(rows[i])
      /\ Log' \in Seq(Acts) /\ Len(Log') = Len(rows')
      /\ \A i \in 1..Len(rows') : Log'[i] = ActOf(rows'[i])
  BY <1>1, LogIs, ActsOfType
<1>5. /\ n \in 1..Len(rows')
      /\ \A i \in 1..Len(rows) : i \in 1..Len(rows')
  BY <1>1
<1>6. /\ Log'[n] = a
      /\ \A i \in 1..Len(Log) : Log'[i] = Log[i]
  BY <1>2, <1>3, <1>4, <1>5
<1>7. a \in Acts
  BY <1>4, <1>5, <1>6, ElementOfSeq
<1>8. Len(Log') = Len(Log) + 1 /\ Log'[Len(Log) + 1] = a
  BY <1>1, <1>4, <1>6
<1>9. Log' = Append(Log, a)
  BY <1>4, <1>6, <1>7, <1>8, IsAppend
<1> QED
  BY <1>9 DEF a

\* A removal adds a release for each conversation it has read.
LEMMA RemoveLog ==
    ASSUME IInv, NEW t \in Txns, CommitRemove(t)
    PROVE  \E order \in Orders(txn[t].convs) :
              Log' = Log \o [k \in 1..Cardinality(txn[t].convs) |->
                        [conv |-> order[k], member |-> txn[t].member,
                         reason |-> "release", by |-> None]]
<1> DEFINE S == txn[t].convs
<1>1. PICK order \in Orders(S) :
         \A k \in 1..Cardinality(S) :
            /\ rows'[Len(rows) + k].conv = order[k]
            /\ rows'[Len(rows) + k].member = txn[t].member
            /\ rows'[Len(rows) + k].reason = "release"
            /\ rows'[Len(rows) + k].by = None
  BY RemoveRows
<1> DEFINE e(k) == [conv |-> order[k], member |-> txn[t].member,
                    reason |-> "release", by |-> None]
           w == [k \in 1..Cardinality(S) |-> e(k)]
<1>2. /\ rows \in Seq(Row) /\ rows' \in Seq(Row) /\ Len(rows) \in Nat
      /\ Len(rows') = Len(rows) + Cardinality(S)
      /\ Keeps(txn[t].closes)
  BY RemoveRows DEF IInv, TypeOK, Keeps
<1>3. Cardinality(S) \in Nat
  <2>1. txn[t] \in Txn
    BY DEF IInv, TypeOK
  <2>2. S \subseteq Convs
    BY <2>1 DEF Txn
  <2> QED
    BY <2>2, FiniteAssumption, FS_Subset, FS_CardinalityType
<1>4. \A k \in 1..Cardinality(S) : ActOf(rows'[Len(rows) + k]) = e(k)
  BY <1>1 DEF ActOf
<1>5. \A i \in 1..Len(rows) : ActOf(rows'[i]) = ActOf(rows[i])
  BY <1>2 DEF Keeps, ActOf
<1> HIDE DEF e, S
<1>6. /\ Log \in Seq(Acts) /\ Len(Log) = Len(rows)
      /\ \A i \in 1..Len(rows) : Log[i] = ActOf(rows[i])
      /\ Log' \in Seq(Acts) /\ Len(Log') = Len(rows')
      /\ \A i \in 1..Len(rows') : Log'[i] = ActOf(rows'[i])
  BY <1>2, LogIs, ActsOfType
<1>7. /\ \A k \in 1..Cardinality(S) : Len(rows) + k \in 1..Len(rows')
      /\ \A i \in 1..Len(rows) : i \in 1..Len(rows')
  BY <1>2, <1>3
<1>8. \A k \in 1..Cardinality(S) : Log'[Len(rows) + k] = e(k)
  BY <1>4, <1>6, <1>7
<1>9. \A i \in 1..Len(Log) : Log'[i] = Log[i]
  BY <1>5, <1>6, <1>7
<1>10. \A k \in 1..Cardinality(S) : e(k) \in Acts
  BY <1>6, <1>7, <1>8, ElementOfSeq
<1>11. /\ w \in Seq(Acts) /\ Len(w) = Cardinality(S)
       /\ \A k \in 1..Cardinality(S) : w[k] = e(k)
  BY <1>3, <1>10
<1> HIDE DEF w
<1>12. /\ Len(Log') = Len(Log) + Len(w)
       /\ \A k \in 1..Len(w) : Log'[Len(Log) + k] = w[k]
  BY <1>2, <1>6, <1>8, <1>11
<1>13. Log' = Log \o w
  BY <1>6, <1>9, <1>11, <1>12, IsConcat
<1> QED
  BY <1>1, <1>13 DEF w, e, S

OwnershipStep == UNCHANGED Ownership!vars \/ Ownership!Next

\* The abstract specification counts the same way.
LEMMA SameCardinality ==
    ASSUME NEW S
    PROVE  Ownership!Cardinality(S) = Cardinality(S)
BY DEF Ownership!Cardinality, Cardinality

LEMMA NoOwner ==
    ASSUME rows \in Seq(Row), OneActive, NEW x \in Convs
    PROVE  Holder(x) = None <=> OpenRows(x) = {}
<1>1. CASE OpenRows(x) = {}
  BY <1>1 DEF Holder
<1>2. ASSUME NEW i \in OpenRows(x) PROVE Holder(x) # None
  BY <1>2, HolderIs, MembersAssumption
<1> QED
  BY <1>1, <1>2

LEMMA QuietRefines ==
    ASSUME Quiet
    PROVE  OwnershipStep
<1>1. \A x : Holder(x)' = Holder(x)
  BY QuietUntouched, UntouchedHolder
<1>2. Owners' = Owners
  BY <1>1 DEF Owners
<1>3. Log' = Log /\ gone' = gone
  BY DEF Quiet, Log
<1> QED
  BY <1>2, <1>3 DEF OwnershipStep, Ownership!vars

\* An assignment that is committed takes a free conversation, confirms its
\* owner or transfers it, whatever happened since it was decided.
LEMMA CommitAssignRefines ==
    ASSUME IInv, IInv', Closings, Decisions, NEW t \in Txns, CommitAssign(t)
    PROVE  OwnershipStep
<1>1. /\ Deciding(t) /\ Sound(t) /\ Decided(t) /\ rows \in Seq(Row)
      /\ gone' = gone
  BY DEF CommitAssign, Deciding, IInv, Decisions, TypeOK
<1>2. PICK x \in Convs : x = txn[t].conv
  BY <1>1 DEF Sound, HoldsLock
<1>3. PICK m \in Members : m = txn[t].member
  BY <1>1 DEF Sound, HoldsLock
<1>4. Log' = Append(Log, Ownership!Act(x, m, txn[t].reason, txn[t].by))
  BY <1>2, <1>3, CommitLog DEF Ownership!Act
<1>5. Holder(x)' = m
  <2>0. /\ rows'[Len(rows) + 1] =
             [conv |-> x, member |-> txn[t].member, reason |-> txn[t].reason,
              by |-> txn[t].by, open |-> TRUE]
        /\ OpenRows(x)' = {Len(rows) + 1}
    BY <1>2, CommitRows
  <2>1. /\ rows'[Len(rows) + 1].member = m
        /\ OpenRows(x)' = {Len(rows) + 1}
    BY <1>3, <2>0
  <2>2. (CHOOSE i \in OpenRows(x)' : TRUE) = Len(rows) + 1
    BY <2>1
  <2> QED
    BY <2>1, <2>2 DEF Holder
<1>6. Owners \in [Convs -> Members \cup {None}] /\ Owners[x] = Holder(x)
  <2>1. ASSUME NEW y \in Convs PROVE Holder(y) \in Members \cup {None}
    BY <1>1, NoOwner, HolderIs DEF IInv
  <2> QED
    BY <2>1 DEF Owners
<1>7. Owners' = [Owners EXCEPT ![x] = m]
  <2>1. ASSUME NEW y \in Convs, y # x PROVE Holder(y)' = Holder(y)
    BY <1>2, <2>1, CommitUntouched, UntouchedHolder
  <2>2. Owners' = [y \in Convs |-> Holder(y)']
    BY DEF Owners
  <2>3. [Owners EXCEPT ![x] = m] = [y \in Convs |-> IF y = x THEN m ELSE Holder(y)]
    BY DEF Owners
  <2>4. \A y \in Convs : Holder(y)' = IF y = x THEN m ELSE Holder(y)
    BY <1>5, <2>1
  <2> QED
    BY <2>2, <2>3, <2>4
<1>8. CASE /\ txn[t].reason \in {"auto", "claim", "manual"} /\ txn[t].by = None
           /\ OpenRows(x) = {}
  <2>1. Owners[x] = None
    BY <1>1, <1>6, <1>8, NoOwner DEF IInv
  <2>2. Ownership!Take(x, m)
    BY <1>1, <1>4, <1>7, <1>8, <2>1 DEF Ownership!Take
  <2> QED
    BY <2>2 DEF OwnershipStep, Ownership!Next
<1>9. CASE /\ txn[t].reason = "manual" /\ txn[t].by = None
           /\ OpenRows(x) # {}
  <2>1. Owners[x] = m
    <3>1. PICK i \in OpenRows(x) : rows[i].member = m
      BY <1>1, <1>2, <1>3, <1>9 DEF Sound, StillFree
    <3> QED
      BY <1>1, <1>6, <3>1, HolderIs DEF IInv
  <2>2. Owners' = Owners
    BY <1>6, <1>7, <2>1
  <2>3. Ownership!Confirm(x, m)
    BY <1>1, <1>4, <1>9, <2>1, <2>2 DEF Ownership!Confirm
  <2> QED
    BY <2>3 DEF OwnershipStep, Ownership!Next
<1>10. CASE /\ txn[t].reason = "transfer"
            /\ \A i \in OpenRows(x) : rows[i].member # m
  <2>1. Owners[x] # m
    <3>1. CASE OpenRows(x) = {}
      BY <1>1, <1>6, <3>1, NoOwner, MembersAssumption DEF IInv
    <3>2. ASSUME NEW i \in OpenRows(x) PROVE Owners[x] # m
      BY <1>1, <1>6, <1>10, <3>2, HolderIs DEF IInv
    <3> QED
      BY <3>1, <3>2
  <2>2. txn[t].by \in Supervisors
    BY <1>1, <1>10 DEF Sound, Supervised
  <2>3. Ownership!Transfer(x, m)
    BY <1>1, <1>4, <1>7, <1>10, <2>1, <2>2 DEF Ownership!Transfer
  <2> QED
    BY <2>3 DEF OwnershipStep, Ownership!Next
<1> QED
  BY <1>1, <1>2, <1>3, <1>8, <1>9, <1>10 DEF Decided

\* A removal frees conversations of its member: those it finds with another
\* owner by then keep that owner.
LEMMA CommitRemoveRefines ==
    ASSUME IInv, IInv', Closings, Decisions, NEW t \in Txns, CommitRemove(t)
    PROVE  OwnershipStep
<1> DEFINE m == txn[t].member
           S == txn[t].convs
           freed == {x \in S : OpenRows(x) # {} /\ OpenRows(x)' = {}}
<1>1. /\ Releasing(t) /\ Sound(t) /\ Released(t) /\ rows \in Seq(Row)
      /\ gone' = gone \cup {m} /\ txn[t] \in Txn
  BY DEF CommitRemove, Releasing, IInv, Decisions, TypeOK
<1>2. m \in Members /\ S \in SUBSET Convs
  BY <1>1, MembersAssumption DEF Sound, Removes, Txn
<1>3. PICK order \in Orders(S) :
         Log' = Log \o [k \in 1..Ownership!Cardinality(S) |->
                           Ownership!Act(order[k], m, "release", None)]
  BY RemoveLog, SameCardinality DEF Ownership!Act
<1>4. order \in Ownership!Orders(S)
  BY SameCardinality DEF Orders, Ownership!Orders
<1>5. Keeps(txn[t].closes) /\ \A y \in Convs : Shrinks(y)
  BY RemoveRows
<1>6. ASSUME NEW x \in freed PROVE Owners[x] = m
  <2>1. PICK i \in OpenRows(x) : i \notin OpenRows(x)'
    BY <1>6
  <2>2. i \in txn[t].closes
    BY <1>5, <2>1 DEF Keeps, OpenRows
  <2>3. rows[i].member = m
    BY <1>1, <2>2 DEF Released
  <2>4. x \in Convs /\ Owners[x] = Holder(x)
    BY <1>2, <1>6 DEF Owners
  <2> QED
    BY <1>1, <2>1, <2>3, <2>4, HolderIs DEF IInv
<1>7. ASSUME NEW x \in Convs
      PROVE  Holder(x)' = IF x \in freed THEN None ELSE Holder(x)
  <2>1. CASE x \notin S
    BY <1>7, <2>1, RemoveUntouched, UntouchedHolder
  <2>2. CASE OpenRows(x)' = {} /\ x \in S
    <3>1. Holder(x)' = None
      BY <2>2 DEF Holder
    <3>2. x \notin freed => Holder(x) = None
      BY <2>2 DEF Holder
    <3> QED
      BY <3>1, <3>2
  <2>3. CASE OpenRows(x)' # {}
    <3>1. x \notin freed /\ OpenRows(x) # {}
      BY <1>5, <2>3 DEF Shrinks
    <3>2. Holder(x) # None
      BY <1>1, <3>1, NoOwner DEF IInv
    <3>3. Holder(x)' # None
      <4>1. PICK i \in OpenRows(x)' : TRUE
        BY <2>3
      <4>2. i \in OpenRows(x) /\ rows'[i].member = rows[i].member
        BY <1>5, <4>1 DEF Shrinks
      <4>3. rows[i].member \in Members
        BY <1>1, <4>2, HolderIs DEF IInv
      <4>4. (CHOOSE j \in OpenRows(x)' : TRUE) = i
        BY <4>1 DEF IInv, OneActive
      <4>5. Holder(x)' = rows'[i].member
        BY <2>3, <4>4 DEF Holder
      <4> QED
        BY <4>2, <4>3, <4>5, MembersAssumption
    <3>4. Holder(x)' = Holder(x)
      BY <1>5, <3>2, <3>3, ShrinksKept DEF Kept
    <3> QED
      BY <3>1, <3>4
  <2> QED
    BY <2>1, <2>2, <2>3
<1>8. freed \in SUBSET {x \in S : Owners[x] = m}
  BY <1>6
<1>9. Owners' = [x \in Convs |-> IF x \in freed THEN None ELSE Owners[x]]
  BY <1>7 DEF Owners
<1> HIDE DEF freed, S, m
<1>10. Ownership!Leave(m)
  <2>1. \E o \in Ownership!Orders(S) :
           Log' = Log \o [k \in 1..Ownership!Cardinality(S) |->
                             Ownership!Act(o[k], m, "release", None)]
    BY <1>3, <1>4
  <2>2. \E f \in SUBSET {x \in S : Owners[x] = m} :
           Owners' = [x \in Convs |-> IF x \in f THEN None ELSE Owners[x]]
    BY <1>8, <1>9
  <2> QED
    BY <1>1, <1>2, <2>1, <2>2 DEF Ownership!Leave
<1> QED
  BY <1>2, <1>10 DEF OwnershipStep, Ownership!Next

LEMMA StepRefinesOwnership ==
    ASSUME IInv, IInv', Closings, Decisions, [Next]_vars
    PROVE  OwnershipStep
BY StepsAreQuiet, QuietRefines, CommitAssignRefines, CommitRemoveRefines

LEMMA InitRefinesOwnership ==
    ASSUME Init
    PROVE  Ownership!Init
<1>1. \A x \in Convs : Holder(x) = None
  BY DEF Init, Holder, OpenRows
<1>2. Owners = [x \in Convs |-> None]
  BY <1>1 DEF Owners
<1>3. rows \in Seq(Row) /\ Len(rows) = 0
  BY DEF Init
<1>4. Log \in Seq(Acts) /\ Len(Log) = 0
  BY <1>3, LogIs, ActsOfType
<1>5. Log = <<>>
  BY <1>4, EmptySeq
<1> QED
  BY <1>2, <1>5 DEF Init, Ownership!Init

\* The engine implements what it promises of the owners: every commit takes a
\* free conversation, confirms or transfers it, or is the leaving of a member
\* that frees only conversations of its own, and adds just that to the history;
\* whatever was committed between what a transaction read and its commit.
THEOREM OwnershipImplemented == Spec => ImplementsOwnership
<1>1. IInv /\ IInv' /\ Closings /\ Decisions /\ [Next]_vars
          => [UNCHANGED Ownership!vars \/ Ownership!Next]_(Ownership!vars)
  BY StepRefinesOwnership DEF OwnershipStep
<1>2. Init => Ownership!Init
  BY InitRefinesOwnership
<1> QED
  BY Invariant, ClosingsInvariant, DecisionsInvariant, <1>1, <1>2, PTL
     DEF Spec, ImplementsOwnership, Ownership!Spec
=============================================================================
