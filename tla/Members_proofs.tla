------------------------- MODULE Members_proofs --------------------------
(***************************************************************************)
(* Proofs about TeamAdmins, for any team and any number of requests: the   *)
(* types, what the locked count protects, and that it is enough as long as *)
(* nobody is made an admin.  And about Presence, for any sockets, requests *)
(* and faults: one interval is open unless two handlers that open crossed, *)
(* and when all is in order it says whether a socket is there.             *)
(***************************************************************************)
EXTENDS TeamAdmins, Presence, FiniteSetTheorems, TLAPS

\* What the count leaves behind: locks are held by writers only, on members who
\* stay active admins until their writer is done, by one writer each.
LocksHeld ==
    \A q \in Requests :
        /\ req[q].locks # {} => req[q].stage = "write"
        /\ req[q].locks \subseteq ActiveAdmins
        /\ \A p \in Requests \ {q} : req[p].locks \cap req[q].locks = {}

\* A request that takes an active admin away has locked another one.
Covered(r) ==
    r.stage = "write" /\ IsActiveAdmin(r.seen) /\ ~IsActiveAdmin(Apply(r.seen, r.change))
        => \E n \in r.locks : n # r.target

\* Provisions are for accounts that are not in the team.
ReadRight(r) ==
    /\ r.stage \in {"read", "write"} /\ r.change.kind = "provision" =>
           ~IsActiveAdmin(r.seen)
    /\ r.stage = "read" => r.change.kind # "provision"

IInv == /\ TypeOK
        /\ LocksHeld
        /\ \A q \in Requests : Covered(req[q]) /\ ReadRight(req[q])
-----------------------------------------------------------------------------
\* Two active admins: one is left when the other is taken away.
LEMMA AnotherOne ==
    ASSUME NEW S, IsFiniteSet(S), Cardinality(S) > 1, NEW m
    PROVE  \E n \in S : n # m
<1>1. SUFFICES ASSUME S \subseteq {m}
               PROVE  FALSE
  OBVIOUS
<1>2. IsFiniteSet({m}) /\ Cardinality({m}) = 1
  BY FS_Singleton
<1>3. Cardinality(S) <= Cardinality({m}) /\ Cardinality(S) \in Nat
  BY <1>1, <1>2, FS_Subset, FS_CardinalityType
<1> QED
  BY <1>2, <1>3

LEMMA NoneApart ==
    /\ None \notin Members /\ None \notin Member
    /\ None \notin Roles /\ None \notin Statuses
  BY ChangesAssumption

\* A change of a member is a member.
LEMMA ApplyType ==
    ASSUME NEW m \in Member, NEW c \in Changes
    PROVE  Apply(m, c) \in Member
<1>1. c \in Change /\ (c.kind = "provision" => c.role # None)
  BY ChangesAssumption
<1>2. c.kind \in {"update", "remove", "provision"}
  BY <1>1 DEF Change
<1>3. CASE c.kind = "remove"
  BY <1>3 DEF Apply, Member
<1>4. CASE c.kind = "provision"
  BY <1>1, <1>4 DEF Apply, Member, Change, Statuses
<1>5. CASE c.kind = "update"
  <2>1. Apply(m, c) = [m EXCEPT
            !.role = IF c.role = None THEN m.role ELSE c.role,
            !.status = IF c.status = None THEN m.status ELSE c.status]
    BY <1>5 DEF Apply
  <2> QED
    BY <1>1, <2>1 DEF Member, Change
<1> QED
  BY <1>2, <1>3, <1>4, <1>5

\* An update that would leave an active admin in place does so whatever the
\* active admin it meets.
LEMMA StaysAdmin ==
    ASSUME NEW m \in Member, NEW n \in Member, NEW c \in Changes,
           c.kind # "provision",
           IsActiveAdmin(m), IsActiveAdmin(n), IsActiveAdmin(Apply(m, c))
    PROVE  IsActiveAdmin(Apply(n, c))
<1>1. c.kind \in {"update", "remove"}
  BY ChangesAssumption DEF Change
<1>2. c.kind = "update"
  BY <1>1 DEF Apply, IsActiveAdmin, Member
<1>3. /\ c.role \in {None, "admin"}
      /\ c.status \in {None, "active"}
  BY <1>2 DEF Apply, IsActiveAdmin, Member
<1>4. Apply(n, c) = [n EXCEPT
          !.role = IF c.role = None THEN n.role ELSE c.role,
          !.status = IF c.status = None THEN n.status ELSE c.status]
  BY <1>2 DEF Apply
<1> QED
  BY <1>3, <1>4 DEF IsActiveAdmin, Member
-----------------------------------------------------------------------------
LEMMA InitInv == Init => IInv
<1> SUFFICES ASSUME Init PROVE IInv
  OBVIOUS
<1>1. TypeOK
  BY TeamAssumption DEF Init, TypeOK, Request, Idle, Stages, Roles
<1>2. LocksHeld
  BY DEF Init, LocksHeld, Idle
<1>3. \A q \in Requests : Covered(req[q]) /\ ReadRight(req[q])
  BY DEF Init, Idle, Covered, ReadRight
<1> QED
  BY <1>1, <1>2, <1>3 DEF IInv

\* Dropping a request takes nothing from the others.
LEMMA DropInv ==
    ASSUME IInv, NEW q \in Requests, Drop(q), UNCHANGED member
    PROVE  IInv'
<1>1. TypeOK'
  BY DEF IInv, TypeOK, Drop, Idle, Request, Stages, Roles
<1>2. \A p \in Requests : req'[p] = IF p = q THEN Idle ELSE req[p]
  BY DEF IInv, TypeOK, Drop
<1>3. ActiveAdmins' = ActiveAdmins
  BY DEF ActiveAdmins
<1>4. LocksHeld'
  BY <1>2, <1>3 DEF IInv, LocksHeld, Idle
<1>5. \A p \in Requests : Covered(req'[p]) /\ ReadRight(req'[p])
  BY <1>2 DEF IInv, Covered, ReadRight, Idle
<1> QED
  BY <1>1, <1>4, <1>5 DEF IInv, Covered, ReadRight, Apply, IsActiveAdmin

\* A step of one request that takes no locks and does not write.
LEMMA StageInv ==
    ASSUME IInv, NEW q \in Requests, UNCHANGED member,
           NEW r \in Request,
           req' = [req EXCEPT ![q] = r],
           r.stage # "idle" => r.target \in Members /\ r.change \in Changes,
           r.stage \in {"read", "write"} => r.seen \in Member,
           r.locks = {},
           Covered(r), ReadRight(r)
    PROVE  IInv'
<1>1. \A p \in Requests : req'[p] = IF p = q THEN r ELSE req[p]
  BY DEF IInv, TypeOK
<1>2. TypeOK'
  BY <1>1 DEF IInv, TypeOK
<1>3. ActiveAdmins' = ActiveAdmins
  BY DEF ActiveAdmins
<1>4. LocksHeld'
  BY <1>1, <1>3 DEF IInv, LocksHeld
<1>5. \A p \in Requests : Covered(req'[p]) /\ ReadRight(req'[p])
  BY <1>1 DEF IInv
<1> QED
  BY <1>2, <1>4, <1>5 DEF IInv, Covered, ReadRight, Apply, IsActiveAdmin
-----------------------------------------------------------------------------
LEMMA AdmitInv ==
    ASSUME IInv, NEW q \in Requests, NEW a \in Members, NEW m \in Members,
           NEW c \in Changes, Admit(q, a, m, c)
    PROVE  IInv'
<1> DEFINE r == [Idle EXCEPT !.stage = "admitted", !.target = m,
                             !.by = member[a].role, !.change = c]
<1>1. member[a].role \in Roles /\ c \in Change
  BY ChangesAssumption DEF IInv, TypeOK, Member
<1>2. r \in Request
  BY <1>1 DEF Request, Idle, Stages
<1>3. /\ req' = [req EXCEPT ![q] = r]
      /\ UNCHANGED member
  BY DEF Admit
<1>4. /\ r.target \in Members /\ r.change \in Changes
      /\ r.stage \notin {"read", "write"} /\ r.locks = {}
  BY DEF Idle
<1>5. Covered(r) /\ ReadRight(r)
  BY <1>4 DEF Covered, ReadRight
<1> HIDE DEF r
<1> QED
  BY <1>2, <1>3, <1>4, <1>5, StageInv

LEMMA ReadInv ==
    ASSUME IInv, NEW q \in Requests, ReadTarget(q)
    PROVE  IInv'
<1> DEFINE s == req[q]
           m == member[s.target]
           r == [s EXCEPT !.stage = IF s.change.kind = "provision" THEN "write"
                                                                  ELSE "read",
                          !.seen = m]
<1>1. /\ s \in Request /\ s.stage = "admitted"
      /\ s.target \in Members /\ s.change \in Changes
      /\ m \in Member
      /\ s.locks = {}
  BY DEF IInv, TypeOK, ReadTarget, LocksHeld
<1>2. /\ req' = [req EXCEPT ![q] = r]
      /\ UNCHANGED member
      /\ s.change.kind = "provision" => m.standing # "in"
  BY <1>1 DEF ReadTarget, IInv, TypeOK
<1> HIDE DEF s, m
<1>3. r \in Request
  BY <1>1 DEF Request, Stages
<1>4. /\ r.target \in Members /\ r.change \in Changes /\ r.seen \in Member
      /\ r.locks = {} /\ r.change = s.change /\ r.seen = m
      /\ r.stage = "read" => r.change.kind # "provision"
      /\ r.stage = "write" => r.change.kind = "provision"
  BY <1>1 DEF Request
<1> HIDE DEF r
<1>5. Covered(r) /\ ReadRight(r)
  BY <1>2, <1>4 DEF Covered, ReadRight, IsActiveAdmin
<1> QED
  BY <1>2, <1>3, <1>4, <1>5, StageInv

LEMMA SkipInv ==
    ASSUME IInv, NEW q \in Requests, SkipCount(q)
    PROVE  IInv'
<1> DEFINE s == req[q]
           r == [s EXCEPT !.stage = "write"]
<1>1. /\ s \in Request /\ s.stage = "read"
      /\ s.target \in Members /\ s.change \in Changes
      /\ s.seen \in Member
      /\ s.locks = {}
      /\ ReadRight(s)
      /\ ~Counts(s.seen, s.change)
  BY DEF IInv, TypeOK, SkipCount, LocksHeld
<1>2. /\ req' = [req EXCEPT ![q] = r]
      /\ UNCHANGED member
  BY DEF SkipCount
<1> HIDE DEF s
<1>3. r \in Request
  BY <1>1 DEF Request, Stages
<1>4. /\ r.target \in Members /\ r.change = s.change /\ r.seen = s.seen
      /\ r.locks = {} /\ r.stage = "write"
  BY <1>1 DEF Request
<1> HIDE DEF r
<1>5. ReadRight(r)
  BY <1>1, <1>4 DEF ReadRight
<1>6. ASSUME IsActiveAdmin(s.seen)
      PROVE  IsActiveAdmin(Apply(s.seen, s.change))
  <2>1. s.change.kind = "update" /\ s.change.role = None /\ s.change.status = None
    BY <1>1, <1>6, ChangesAssumption DEF Counts, ReadRight, Change
  <2>2. Apply(s.seen, s.change) = s.seen
    BY <1>1, <2>1 DEF Apply, Member
  <2> QED
    BY <1>6, <2>2
<1>7. Covered(r)
  BY <1>4, <1>6 DEF Covered
<1> QED
  BY <1>1, <1>2, <1>3, <1>4, <1>5, <1>7, StageInv

LEMMA CountInv ==
    ASSUME IInv, NEW q \in Requests, CountAdmins(q)
    PROVE  IInv'
<1> DEFINE s == req[q]
           r == [s EXCEPT !.stage = "write", !.locks = ActiveAdmins]
<1>1. /\ s \in Request /\ s.stage = "read"
      /\ s.target \in Members /\ s.change \in Changes
      /\ s.seen \in Member
      /\ ReadRight(s)
      /\ UNCHANGED member
      /\ ActiveAdmins \cap Locked(q) = {}
      /\ Counts(s.seen, s.change)
  BY DEF IInv, TypeOK, CountAdmins
<1>2. CASE Drop(q)
  BY <1>1, <1>2, DropInv
<1>3. CASE ~Drop(q)
  <2>1. /\ req' = [req EXCEPT ![q] = r]
        /\ IsActiveAdmin(Apply(s.seen, s.change)) \/ Cardinality(ActiveAdmins) > 1
    <3>1. ActiveAdmins \subseteq Members
      BY DEF ActiveAdmins
    <3>2. Cardinality(ActiveAdmins) \in Nat
      BY <3>1, MembersAssumption, FS_Subset, FS_CardinalityType
    <3>3. IsActiveAdmin(Apply(s.seen, s.change)) \/ ~(Cardinality(ActiveAdmins) <= 1)
      BY <1>3 DEF CountAdmins
    <3>4. req' = [req EXCEPT ![q].stage = "write", ![q].locks = ActiveAdmins]
      BY <1>3 DEF CountAdmins
    <3>5. req' = [req EXCEPT ![q] = r]
      BY <3>4 DEF IInv, TypeOK
    <3> QED
      BY <3>2, <3>3, <3>5
  <2> HIDE DEF s
  <2>2. r \in Request /\ ActiveAdmins \subseteq Members
    BY <1>1 DEF Request, Stages, ActiveAdmins
  <2>3. /\ r.target = s.target /\ r.change = s.change /\ r.seen = s.seen
        /\ r.locks = ActiveAdmins /\ r.stage = "write"
    BY <1>1 DEF Request
  <2>4. Covered(r)
    <3>1. CASE IsActiveAdmin(Apply(s.seen, s.change))
      BY <2>3, <3>1 DEF Covered
    <3>2. CASE Cardinality(ActiveAdmins) > 1
      <4>1. IsFiniteSet(ActiveAdmins)
        BY <2>2, MembersAssumption, FS_Subset
      <4>2. \E n \in ActiveAdmins : n # s.target
        BY <3>2, <4>1, AnotherOne
      <4> QED
        BY <2>3, <4>2 DEF Covered
    <3> QED
      BY <2>1, <3>1, <3>2
  <2>5. ReadRight(r)
    BY <1>1, <2>3 DEF ReadRight
  <2> HIDE DEF r
  <2>6. \A p \in Requests : req'[p] = IF p = q THEN r ELSE req[p]
    BY <2>1 DEF IInv, TypeOK
  <2>7. TypeOK'
    BY <1>1, <2>1, <2>2, <2>3, <2>6 DEF IInv, TypeOK
  <2>8. ActiveAdmins' = ActiveAdmins
    BY <1>1 DEF ActiveAdmins
  <2>9. LocksHeld'
    <3>1. \A p \in Requests \ {q} : req[p].locks \cap ActiveAdmins = {}
      BY <1>1 DEF Locked
    <3> QED
      BY <2>3, <2>6, <2>8, <3>1 DEF IInv, LocksHeld
  <2>10. \A p \in Requests : Covered(req'[p]) /\ ReadRight(req'[p])
    BY <2>4, <2>5, <2>6 DEF IInv
  <2> QED
    BY <2>7, <2>9, <2>10 DEF IInv, Covered, ReadRight, Apply, IsActiveAdmin
<1> QED
  BY <1>2, <1>3

LEMMA WriteInv ==
    ASSUME IInv, NEW q \in Requests, Write(q)
    PROVE  IInv'
<1> DEFINE s == req[q]
           new == Apply(member[s.target], s.change)
<1>1. /\ s.target \in Members /\ s.change \in Changes
      /\ s.target \notin Locked(q)
      /\ Drop(q)
      /\ member[s.target] \in Member
  BY DEF Write, IInv, TypeOK
<1>2. member' = [member EXCEPT ![s.target] = new]
  BY DEF Write
<1>3. new \in Member
  BY <1>1, ApplyType
<1> HIDE DEF new
<1>4. \A p \in Requests : req'[p] = IF p = q THEN Idle ELSE req[p]
  BY <1>1 DEF IInv, TypeOK, Drop
<1>5. TypeOK'
  <2>1. member' \in [Members -> Member]
    BY <1>2, <1>3 DEF IInv, TypeOK
  <2>2. req' \in [Requests -> Request]
    BY <1>1 DEF IInv, TypeOK, Drop, Idle, Request, Stages, Roles
  <2> QED
    BY <1>4, <2>1, <2>2 DEF IInv, TypeOK, Idle
<1>6. \A n \in ActiveAdmins : n # s.target => n \in ActiveAdmins'
  BY <1>1, <1>2 DEF ActiveAdmins, IInv, TypeOK
<1>7. LocksHeld'
  <2>1. \A p \in Requests \ {q} : s.target \notin req[p].locks
    BY <1>1 DEF Locked
  <2>2. \A p \in Requests : req'[p].locks \subseteq ActiveAdmins'
    BY <1>4, <1>6, <2>1 DEF IInv, LocksHeld, Idle
  <2> QED
    BY <1>4, <2>2 DEF IInv, LocksHeld, Idle
<1>8. \A p \in Requests : Covered(req'[p]) /\ ReadRight(req'[p])
  BY <1>4 DEF IInv, Covered, ReadRight, Idle
<1> QED
  BY <1>5, <1>7, <1>8 DEF IInv, Covered, ReadRight, Apply, IsActiveAdmin

LEMMA NextInv == IInv /\ [Next]_vars => IInv'
<1> SUFFICES ASSUME IInv, [Next]_vars
             PROVE  IInv'
  OBVIOUS
<1>1. CASE Next
  <2>1. PICK q \in Requests :
            \/ \E a, m \in Members, c \in Changes : Admit(q, a, m, c)
            \/ ReadTarget(q) \/ Refuse(q) \/ SkipCount(q)
            \/ CountAdmins(q) \/ Write(q) \/ Rollback(q)
    BY <1>1 DEF Next
  <2>2. CASE \E a, m \in Members, c \in Changes : Admit(q, a, m, c)
    BY <2>2, AdmitInv
  <2>3. CASE ReadTarget(q)
    BY <2>3, ReadInv
  <2>4. CASE Refuse(q)
    BY <2>4, DropInv DEF Refuse
  <2>5. CASE SkipCount(q)
    BY <2>5, SkipInv
  <2>6. CASE CountAdmins(q)
    BY <2>6, CountInv
  <2>7. CASE Write(q)
    BY <2>7, WriteInv
  <2>8. CASE Rollback(q)
    BY <2>8, DropInv DEF Rollback
  <2> QED
    BY <2>1, <2>2, <2>3, <2>4, <2>5, <2>6, <2>7, <2>8
<1>2. CASE UNCHANGED vars
  <2>1. member' = member /\ req' = req
    BY <1>2 DEF vars
  <2>2. TypeOK'
    BY <2>1 DEF IInv, TypeOK
  <2>3. ActiveAdmins' = ActiveAdmins
    BY <2>1 DEF ActiveAdmins
  <2>4. LocksHeld'
    BY <2>1, <2>3 DEF IInv, LocksHeld
  <2>5. \A q \in Requests : Covered(req'[q]) /\ ReadRight(req'[q])
    BY <2>1 DEF IInv
  <2> QED
    BY <2>2, <2>4, <2>5 DEF IInv, Covered, ReadRight, Apply, IsActiveAdmin
<1> QED
  BY <1>1, <1>2

\* The invariant holds of every state.
LEMMA Invariant == Spec => []IInv
  BY InitInv, NextInv, PTL DEF Spec
-----------------------------------------------------------------------------
\* The types hold: no request writes without having read its target
\* (CompanyMemberService.update, remove and create).
THEOREM TypeCorrect == Spec => []TypeOK
<1>1. IInv => TypeOK
  BY DEF IInv
<1> QED
  BY <1>1, Invariant, PTL

\* Only a write changes who is an active admin, and one that read its target as
\* an active admin leaves another, or leaves the target one.
LEMMA LastStep ==
    ASSUME IInv, [Next]_vars, HasAdmin, ~HasAdmin'
    PROVE  \E q \in Requests : /\ req[q].stage = "write"
                              /\ ~IsActiveAdmin(req[q].seen)
                              /\ IsActiveAdmin(member[req[q].target])
<1>1. ActiveAdmins' # ActiveAdmins
  BY DEF HasAdmin
<1>2. member' # member
  BY <1>1 DEF ActiveAdmins
<1>3. PICK q \in Requests : Write(q)
  BY <1>2 DEF Next, vars, Admit, ReadTarget, Refuse, SkipCount, CountAdmins, Rollback
<1> DEFINE s == req[q]
           now == member[s.target]
<1>4. /\ s.stage = "write" /\ s.target \in Members /\ s.change \in Changes
      /\ s.seen \in Member /\ now \in Member
      /\ Covered(s) /\ ReadRight(s)
      /\ s.locks \subseteq ActiveAdmins
      /\ member' = [member EXCEPT ![s.target] = Apply(now, s.change)]
  BY <1>3 DEF Write, IInv, TypeOK, LocksHeld
<1>5. \A n \in ActiveAdmins : n = s.target
  BY <1>4 DEF HasAdmin, ActiveAdmins, IInv, TypeOK
<1>6. IsActiveAdmin(now) /\ ~IsActiveAdmin(Apply(now, s.change))
  <2>1. PICK n \in ActiveAdmins : TRUE
    BY DEF HasAdmin
  <2>2. n = s.target /\ IsActiveAdmin(member[n])
    BY <1>5, <2>1 DEF ActiveAdmins
  <2>3. ~IsActiveAdmin(member'[s.target])
    BY <1>4 DEF HasAdmin, ActiveAdmins
  <2> QED
    BY <1>4, <2>2, <2>3 DEF IInv, TypeOK
<1>7. ASSUME IsActiveAdmin(s.seen)
      PROVE  FALSE
  <2>1. s.change.kind # "provision"
    BY <1>4, <1>7 DEF ReadRight
  <2>2. CASE IsActiveAdmin(Apply(s.seen, s.change))
    BY <1>4, <1>6, <1>7, <2>1, <2>2, StaysAdmin
  <2>3. CASE ~IsActiveAdmin(Apply(s.seen, s.change))
    <3>1. \E n \in s.locks : n # s.target
      BY <1>4, <1>7, <2>3 DEF Covered
    <3> QED
      BY <1>4, <1>5, <3>1
  <2> QED
    BY <2>2, <2>3
<1> QED
  BY <1>4, <1>6, <1>7

\* The locked count (assertNotLastAdmin) protects the last active admin from
\* every request that read its target as one.
THEOREM CountProtectsTheLast == Spec => OnlyStaleReadsLoseTheLast
<1>1. ASSUME IInv, [Next]_vars
      PROVE  [HasAdmin /\ ~HasAdmin' =>
                 \E q \in Requests : /\ req[q].stage = "write"
                                    /\ ~IsActiveAdmin(req[q].seen)]_vars
  BY <1>1, LastStep
<1> QED
  BY <1>1, Invariant, PTL DEF Spec, OnlyStaleReadsLoseTheLast
-----------------------------------------------------------------------------
\* Nobody is made an admin, or an inactive member active.
NoGrants == \A c \in Changes : c.role # "admin" /\ c.status # "active"

\* Without grants a target read as something else is still something else.
SeenStill ==
    \A q \in Requests :
        req[q].stage \in {"read", "write"} /\ ~IsActiveAdmin(req[q].seen) =>
            ~IsActiveAdmin(member[req[q].target])

LEMMA NoneBecomesAdmin ==
    ASSUME NoGrants, NEW m \in Member, NEW c \in Changes, IsActiveAdmin(Apply(m, c))
    PROVE  IsActiveAdmin(m)
<1>1. c.kind \in {"update", "remove", "provision"} /\ c.role # "admin" /\ c.status # "active"
  BY ChangesAssumption DEF Change, NoGrants
<1> QED
  BY <1>1 DEF Apply, IsActiveAdmin, Member

LEMMA SeenStep ==
    ASSUME NoGrants, IInv, SeenStill, [Next]_vars
    PROVE  SeenStill'
<1>1. SUFFICES ASSUME NEW p \in Requests,
                      req'[p].stage \in {"read", "write"},
                      ~IsActiveAdmin(req'[p].seen)
               PROVE  ~IsActiveAdmin(member'[req'[p].target])
  BY DEF SeenStill, IsActiveAdmin
<1>2. CASE UNCHANGED vars
  BY <1>1, <1>2 DEF vars, SeenStill
<1>3. CASE Next
  <2>1. PICK q \in Requests :
            \/ \E a, m \in Members, c \in Changes : Admit(q, a, m, c)
            \/ ReadTarget(q) \/ Refuse(q) \/ SkipCount(q)
            \/ CountAdmins(q) \/ Write(q) \/ Rollback(q)
    BY <1>3 DEF Next
  <2>2. CASE \E a, m \in Members, c \in Changes : Admit(q, a, m, c)
    BY <1>1, <2>2 DEF Admit, SeenStill, IInv, TypeOK, Idle
  <2>3. CASE ReadTarget(q)
    <3>1. /\ member' = member
          /\ p = q => req'[p].seen = member[req[q].target] /\ req'[p].target = req[q].target
          /\ p # q => req'[p] = req[p]
      BY <2>3 DEF ReadTarget, IInv, TypeOK, Request
    <3> QED
      BY <1>1, <3>1 DEF SeenStill
  <2>4. CASE Refuse(q) \/ Rollback(q)
    BY <1>1, <2>4 DEF Refuse, Rollback, Drop, SeenStill, IInv, TypeOK, Idle
  <2>5. CASE SkipCount(q)
    <3>1. /\ member' = member
          /\ req'[p].seen = req[p].seen /\ req'[p].target = req[p].target
          /\ req[p].stage \in {"read", "write"}
      BY <1>1, <2>5 DEF SkipCount, IInv, TypeOK, Request
    <3> QED
      BY <1>1, <3>1 DEF SeenStill
  <2>6. CASE CountAdmins(q)
    <3>1. member' = member
      BY <2>6 DEF CountAdmins
    <3>2. CASE Drop(q)
      BY <1>1, <3>1, <3>2 DEF Drop, SeenStill, IInv, TypeOK, Idle
    <3>3. CASE ~Drop(q)
      <4>1. /\ req' = [req EXCEPT ![q].stage = "write", ![q].locks = ActiveAdmins]
            /\ req[q].stage = "read"
        BY <2>6, <3>3 DEF CountAdmins
      <4>2. /\ req'[p].seen = req[p].seen /\ req'[p].target = req[p].target
            /\ req[p].stage \in {"read", "write"}
        BY <1>1, <4>1 DEF IInv, TypeOK, Request
      <4> QED
        BY <1>1, <3>1, <4>2 DEF SeenStill
    <3> QED
      BY <3>2, <3>3
  <2>7. CASE Write(q)
    <3>1. p # q /\ req'[p] = req[p]
      BY <1>1, <2>7 DEF Write, Drop, IInv, TypeOK, Idle
    <3>2. /\ ~IsActiveAdmin(member[req[p].target])
          /\ req[p].target \in Members
          /\ req[q].target \in Members /\ req[q].change \in Changes
          /\ member \in [Members -> Member]
      BY <1>1, <2>7, <3>1 DEF SeenStill, Write, IInv, TypeOK
    <3>3. member' = [member EXCEPT ![req[q].target] =
                        Apply(member[req[q].target], req[q].change)]
      BY <2>7 DEF Write
    <3>4. CASE req[p].target # req[q].target
      BY <3>1, <3>2, <3>3, <3>4
    <3>5. CASE req[p].target = req[q].target
      <4>1. member'[req[p].target] = Apply(member[req[p].target], req[q].change)
        BY <3>2, <3>3, <3>5
      <4>2. member[req[p].target] \in Member
        BY <3>2
      <4> QED
        BY <3>1, <3>2, <4>1, <4>2, NoneBecomesAdmin
    <3> QED
      BY <3>4, <3>5
  <2> QED
    BY <2>1, <2>2, <2>3, <2>4, <2>5, <2>6, <2>7
<1> QED
  BY <1>2, <1>3

\* The admins of a company can demote, suspend and remove each other in any
\* interleaving: as long as nobody is made an admin meanwhile, one is left
\* ("rows locked on MySQL so two concurrent demotions cannot both pass").
THEOREM DemotionsLeaveAnAdmin ==
    ASSUME NoGrants, \E m \in Members : IsActiveAdmin(Team[m])
    PROVE  Spec => []AnActiveAdmin
<1> DEFINE J == SeenStill /\ AnActiveAdmin
<1>1. Init => J
  BY DEF Init, SeenStill, AnActiveAdmin, HasAdmin, ActiveAdmins, Idle
<1>2. IInv /\ J /\ [Next]_vars => J'
  <2>1. SUFFICES ASSUME IInv, J, [Next]_vars
                 PROVE  J'
    OBVIOUS
  <2>2. SeenStill'
    BY <2>1, SeenStep
  <2>3. ASSUME ~HasAdmin'
        PROVE  FALSE
    <3>1. PICK q \in Requests : /\ req[q].stage = "write"
                               /\ ~IsActiveAdmin(req[q].seen)
                               /\ IsActiveAdmin(member[req[q].target])
      BY <2>1, <2>3, LastStep DEF AnActiveAdmin
    <3> QED
      BY <2>1, <3>1 DEF SeenStill
  <2> QED
    BY <2>2, <2>3 DEF AnActiveAdmin
<1> QED
  BY <1>1, <1>2, Invariant, PTL DEF Spec
-----------------------------------------------------------------------------
(* Whether a member is online (Presence). *)

PutBusy(p) == put[p].at # "idle"

\* At most one handler at a time looks for the open interval or opens one.
OneOpener ==
    /\ finding + starting <= 1
    /\ finding + starting = 1 => \A p \in Puts : ~ PutBusy(p)
    /\ \A p, q \in Puts : PutBusy(p) /\ PutBusy(q) => p = q

\* It opens one when none is open, or closes the one that is.
OpensOnto ==
    /\ \A i, j \in interval : i = j
    /\ starting > 0 => interval = {}
    /\ \A p \in Puts : put[p].at = "start" => interval = {}
    /\ \A p \in Puts : put[p].at = "close" => \A i \in interval : i.id \in put[p].found

Undoubled == "doubled" \notin muddle => OneOpener /\ OpensOnto

\* While all is in order, whoever opens has a socket and nobody closes, and
\* the interval has the state the member chose.
InOrder ==
    muddle = {} =>
        /\ Opening => closing = 0 /\ Online
        /\ closing > 0 => closing = 1 /\ ~ Online
        /\ ~ Putting => \A i \in interval : i.state = pref
        /\ \A p \in Puts : PutBusy(p) => put[p].state = pref
        /\ Quiet => (Online <=> interval # {})

PresenceInv ==
    /\ PresenceTypeOK /\ IsFiniteSet(interval)
    /\ \A p \in Puts : \A n, k \in put[p].found : n = k
    /\ Undoubled
    /\ InOrder

\* Rows and requests hold at most one identifier each, so that one of the
\* numbers of Fresh is held by none.
LEMMA FreshExists ==
    ASSUME PresenceInv
    PROVE  \E n \in 1..(Cardinality(interval) + Cardinality(Puts) + 1) :
              /\ \A i \in interval : i.id # n
              /\ \A p \in Puts : n \notin put[p].found
<1> DEFINE N == Cardinality(interval) + Cardinality(Puts) + 1
           S == {i.id : i \in interval}
           H == {p \in Puts : put[p].found # {}}
           T == UNION {put[p].found : p \in H}
<1>1. /\ IsFiniteSet(interval) /\ Cardinality(interval) \in Nat
      /\ IsFiniteSet(Puts) /\ Cardinality(Puts) \in Nat
  BY PresenceAssumption, FS_CardinalityType DEF PresenceInv
<1>2. /\ IsFiniteSet(S) /\ Cardinality(S) \in Nat
      /\ Cardinality(S) <= Cardinality(interval)
  <2> DEFINE f == [i \in interval |-> i.id]
  <2>1. f \in Surjection(interval, S)
    BY DEF Surjection
  <2> HIDE DEF f, S
  <2> QED
    BY <1>1, <2>1, FS_Surjection, FS_CardinalityType
<1>3. /\ IsFiniteSet(H) /\ Cardinality(H) <= Cardinality(Puts)
      /\ Cardinality(H) \in Nat
  <2>1. H \in SUBSET Puts
    OBVIOUS
  <2> HIDE DEF H
  <2> QED
    BY <1>1, <2>1, FS_Subset, FS_CardinalityType
<1>4. /\ IsFiniteSet(T) /\ Cardinality(T) \in Nat
      /\ Cardinality(T) <= Cardinality(H)
  <2> DEFINE g == [p \in H |-> CHOOSE n \in put[p].found : TRUE]
  <2>1. ASSUME NEW p \in H, NEW n \in put[p].found PROVE g[p] = n
    BY <2>1 DEF PresenceInv
  <2>2. \A p \in H : g[p] \in T
    OBVIOUS
  <2>3. \A n \in T : \E p \in H : g[p] = n
    BY <2>1
  <2>4. g \in Surjection(H, T)
    BY <2>2, <2>3 DEF Surjection
  <2> HIDE DEF g, H, T
  <2> QED
    BY <1>3, <2>4, FS_Surjection, FS_CardinalityType
<1>5. /\ IsFiniteSet(S \cup T)
      /\ Cardinality(S \cup T) < N
  <2> HIDE DEF S, T, H
  <2>1. IsFiniteSet(S \cap T)
    BY <1>2, FS_Intersection
  <2>2. Cardinality(S \cap T) \in Nat
    BY <2>1, FS_CardinalityType
  <2>3. /\ IsFiniteSet(S \cup T)
        /\ Cardinality(S \cup T) =
             Cardinality(S) + Cardinality(T) - Cardinality(S \cap T)
    BY <1>2, <1>4, FS_Union
  <2> QED
    BY <1>1, <1>2, <1>3, <1>4, <2>2, <2>3
<1>6. \E n \in 1..N : n \notin S \cup T
  <2> SUFFICES ASSUME \A n \in 1..N : n \in S \cup T PROVE FALSE
    OBVIOUS
  <2>1. 1..N \in SUBSET (S \cup T)
    OBVIOUS
  <2> HIDE DEF S, T
  <2>2. N \in Nat \ {0}
    BY <1>1
  <2> HIDE DEF N
  <2>3. Cardinality(1..N) = N
    BY <2>2, FS_Interval
  <2>4. Cardinality(1..N) <= Cardinality(S \cup T)
    BY <1>5, <2>1, FS_Subset
  <2>5. Cardinality(S \cup T) \in Nat
    BY <1>5, FS_CardinalityType
  <2> QED
    BY <1>5, <2>2, <2>3, <2>4, <2>5
<1>7. PICK n \in 1..N : n \notin S /\ n \notin T
  BY <1>6
<1>8. \A i \in interval : i.id # n
  BY <1>7
<1>9. ASSUME NEW p \in Puts, n \in put[p].found PROVE FALSE
  BY <1>7, <1>9
<1> QED
  BY <1>7, <1>8, <1>9

LEMMA FreshType ==
    ASSUME PresenceInv, NEW state \in States
    PROVE  /\ Fresh(state) \in [id : Nat \ {0}, state : States]
           /\ Fresh(state).state = state
<1> DEFINE N == Cardinality(interval) + Cardinality(Puts) + 1
           P(n) == /\ \A i \in interval : i.id # n
                   /\ \A p \in Puts : n \notin put[p].found
           c == CHOOSE n \in 1..N : P(n)
<1>1. \E n \in 1..N : P(n)
  BY FreshExists
<1>2. N \in Nat
  BY PresenceAssumption, FS_CardinalityType DEF PresenceInv
<1>3. Fresh(state) = [id |-> c, state |-> state]
  BY DEF Fresh
<1> HIDE DEF N, P
<1>4. c \in 1..N
  BY <1>1
<1> HIDE DEF c
<1> QED
  BY <1>2, <1>3, <1>4

LEMMA InitPresence == PresenceInit => PresenceInv
<1> SUFFICES ASSUME PresenceInit PROVE PresenceInv
  OBVIOUS
<1>1. PresenceTypeOK
  BY PresenceAssumption DEF PresenceInit, PresenceTypeOK, NoPut, Put, States
<1>2. Undoubled
  BY DEF PresenceInit, Undoubled, OneOpener, OpensOnto, PutBusy, NoPut
<1>3. InOrder
  BY DEF PresenceInit, InOrder, Opening, Putting, PutBusy, Quiet, Online, NoPut
<1> QED
  BY <1>1, <1>2, <1>3, FS_EmptySet DEF PresenceInv, PresenceInit, NoPut

\* The counters, as numbers.
LEMMA Counters ==
    ASSUME PresenceTypeOK
    PROVE  /\ {finding, starting, closing, MaxHandlers, MaxFaults, faults} \subseteq Nat
           /\ finding + starting <= MaxHandlers /\ closing <= MaxHandlers
BY PresenceAssumption DEF PresenceTypeOK

\* A step of the gateway that starts no handler.
LEMMA SocketsInv ==
    ASSUME PresenceInv, NEW s \in Sockets, NEW at \in {"off", "handshake", "gone"},
           socket[s] # "in", socket' = [socket EXCEPT ![s] = at],
           UNCHANGED <<finding, starting, closing, put, interval, pref, muddle, faults>>
    PROVE  PresenceInv'
<1>1. PresenceTypeOK'
  BY DEF PresenceInv, PresenceTypeOK
<1>2. Online' <=> Online
  BY DEF PresenceInv, PresenceTypeOK, Online
<1>3. Undoubled'
  BY DEF PresenceInv, Undoubled, OneOpener, OpensOnto, PutBusy
<1>4. InOrder'
  BY <1>2 DEF PresenceInv, InOrder, Opening, Putting, PutBusy, Quiet
<1> QED
  BY <1>1, <1>3, <1>4 DEF PresenceInv

LEMMA AcceptInv ==
    ASSUME PresenceInv, NEW s \in Sockets, Accept(s)
    PROVE  PresenceInv'
<1>0. /\ socket[s] \in {"handshake", "gone"}
      /\ finding + starting < MaxHandlers
      /\ socket' = [socket EXCEPT ![s] = IF @ = "gone" THEN "off" ELSE "in"]
      /\ finding' = finding + 1
      /\ muddle' = muddle \cup OpenerBegins
                          \cup (IF socket[s] = "gone" THEN {"orphaned"} ELSE {})
      /\ UNCHANGED <<starting, closing, put, interval, pref, faults>>
  BY DEF Accept
<1>a. PresenceTypeOK /\ Undoubled /\ InOrder
  BY DEF PresenceInv
<1>b. OpenerBegins \subseteq Causes
  BY DEF OpenerBegins, Causes
<1>1. PresenceTypeOK'
  <2>1. finding' \in Nat /\ finding' + starting <= MaxHandlers
    BY <1>0, <1>a, Counters
  <2>2. muddle' \subseteq Causes
    BY <1>0, <1>a, <1>b DEF PresenceTypeOK, Causes
  <2> QED
    BY <1>0, <1>a, <2>1, <2>2 DEF PresenceTypeOK
<1>2. "doubled" \notin muddle' => "doubled" \notin muddle /\ ~ Opening
  BY <1>0 DEF OpenerBegins
<1>3. Undoubled'
  BY <1>0, <1>a, <1>2, Counters
     DEF Undoubled, OneOpener, OpensOnto, PutBusy, Opening, Putting
<1>4. ASSUME muddle' = {}
      PROVE  /\ muddle = {} /\ closing = 0 /\ ~ Opening
             /\ socket[s] # "gone"
  <2>1. /\ muddle = {} /\ OpenerBegins = {}
        /\ (IF socket[s] = "gone" THEN {"orphaned"} ELSE {}) = {}
    BY <1>0, <1>4
  <2>2. ~ (closing > 0) /\ ~ Opening
    BY <2>1 DEF OpenerBegins
  <2> QED
    BY <1>a, <2>1, <2>2, Counters
<1>5. ASSUME muddle' = {} PROVE Online'
  BY <1>0, <1>4, <1>5, <1>a DEF Online, PresenceTypeOK
<1>6. InOrder'
  BY <1>0, <1>a, <1>4, <1>5, Counters
     DEF InOrder, Opening, Putting, PutBusy, Quiet
<1> QED
  BY <1>0, <1>1, <1>3, <1>6 DEF PresenceInv

\* A disconnected handler begins: the member's last socket has gone.
LEMMA ClosingBegins ==
    ASSUME PresenceInv, socket' \in [Sockets -> {"off", "handshake", "gone", "in"}],
           Online, ~ Online', closing < MaxHandlers, closing' = closing + 1,
           muddle' = muddle \cup CloserBegins,
           UNCHANGED <<finding, starting, put, interval, pref, faults>>
    PROVE  PresenceInv'
<1>a. PresenceTypeOK /\ Undoubled /\ InOrder
  BY DEF PresenceInv
<1>1. PresenceTypeOK'
  <2>1. closing' \in 0..MaxHandlers
    BY <1>a, Counters
  <2>2. muddle' \subseteq Causes
    BY <1>a DEF PresenceTypeOK, CloserBegins, Causes
  <2> QED
    BY <1>a, <2>1, <2>2 DEF PresenceTypeOK
<1>2. Undoubled'
  BY <1>a DEF Undoubled, OneOpener, OpensOnto, PutBusy
<1>3. muddle' = {} => muddle = {} /\ ~ Opening
  BY DEF CloserBegins
<1>4. InOrder'
  BY <1>a, <1>3, Counters DEF InOrder, Opening, Putting, PutBusy, Quiet
<1> QED
  BY <1>1, <1>2, <1>4 DEF PresenceInv

LEMMA DropSocketInv ==
    ASSUME PresenceInv, NEW s \in Sockets, DropSocket(s)
    PROVE  PresenceInv'
<1>0. /\ socket[s] = "in" /\ closing < MaxHandlers
      /\ socket' = [socket EXCEPT ![s] = "off"]
      /\ UNCHANGED <<finding, starting, put, interval, pref, faults>>
  BY DEF DropSocket
<1>a. PresenceTypeOK /\ Undoubled /\ InOrder
  BY DEF PresenceInv
<1>b. socket' \in [Sockets -> {"off", "handshake", "gone", "in"}]
  BY <1>0, <1>a DEF PresenceTypeOK
<1>1. CASE \E t \in Sockets \ {s} : socket[t] = "in"
  <2>1. UNCHANGED <<closing, muddle>>
    BY <1>1 DEF DropSocket
  <2>2. Online' /\ Online
    BY <1>0, <1>1, <1>a DEF Online, PresenceTypeOK
  <2>3. PresenceTypeOK'
    BY <1>0, <1>a, <1>b, <2>1 DEF PresenceTypeOK
  <2>4. Undoubled'
    BY <1>0, <1>a, <2>1 DEF Undoubled, OneOpener, OpensOnto, PutBusy
  <2>5. InOrder'
    BY <1>0, <1>a, <2>1, <2>2 DEF InOrder, Opening, Putting, PutBusy, Quiet
  <2> QED
    BY <1>0, <2>3, <2>4, <2>5 DEF PresenceInv
<1>2. CASE ~ \E t \in Sockets \ {s} : socket[t] = "in"
  <2>1. closing' = closing + 1 /\ muddle' = muddle \cup CloserBegins
    BY <1>2 DEF DropSocket
  <2>2. Online /\ ~ Online'
    BY <1>0, <1>2, <1>a DEF Online, PresenceTypeOK
  <2> QED
    BY <1>0, <1>b, <2>1, <2>2, ClosingBegins
<1> QED
  BY <1>1, <1>2

LEMMA DisconnectUserInv ==
    ASSUME PresenceInv, DisconnectUser
    PROVE  PresenceInv'
<1>0. PresenceTypeOK
  BY DEF PresenceInv
<1>1. socket' = [s \in Sockets |-> IF socket[s] = "in" THEN "off" ELSE socket[s]]
  BY DEF DisconnectUser
<1>2. /\ socket' \in [Sockets -> {"off", "handshake", "gone", "in"}]
      /\ ~ Online'
  BY <1>0, <1>1 DEF PresenceTypeOK, Online
<1> QED
  BY <1>2, ClosingBegins DEF DisconnectUser
-----------------------------------------------------------------------------
LEMMA FindOpenInv ==
    ASSUME PresenceInv, FindOpen
    PROVE  PresenceInv'
<1>0. /\ finding > 0 /\ finding' = finding - 1
      /\ starting' = IF interval = {} THEN starting + 1 ELSE starting
      /\ UNCHANGED <<socket, closing, put, interval, pref, muddle, faults>>
  BY DEF FindOpen
<1>a. PresenceTypeOK /\ Undoubled /\ InOrder
  BY DEF PresenceInv
<1>1. PresenceTypeOK'
  <2>1. /\ finding' \in Nat /\ starting' \in Nat
        /\ finding' + starting' <= MaxHandlers
    BY <1>0, <1>a, Counters
  <2> QED
    BY <1>0, <1>a, <2>1 DEF PresenceTypeOK
<1>2. Undoubled'
  <2> SUFFICES ASSUME "doubled" \notin muddle PROVE OneOpener' /\ OpensOnto'
    BY <1>0 DEF Undoubled
  <2>1. OneOpener /\ OpensOnto
    BY <1>a DEF Undoubled
  <2>2. finding = 1 /\ starting = 0
    BY <1>0, <1>a, <2>1, Counters DEF OneOpener
  <2>3. finding' = 0 /\ starting' \in {0, 1} /\ (starting' = 1 => interval = {})
    BY <1>0, <2>2
  <2> QED
    BY <1>0, <2>1, <2>2, <2>3 DEF OneOpener, OpensOnto, PutBusy
<1>3. Opening /\ (Online' <=> Online) /\ (Putting' <=> Putting)
  BY <1>0, <1>a, Counters DEF Opening, Online, Putting
<1>4. ASSUME muddle = {}
      PROVE  /\ closing' = 0 /\ Online'
             /\ ~ Putting' => \A i \in interval : i.state = pref
             /\ Opening' \/ interval # {}
  <2>1. interval = {} => starting' > 0
    BY <1>0, <1>a, Counters
  <2> QED
    BY <1>0, <1>3, <1>4, <1>a, <2>1, Counters DEF InOrder, Opening
<1>5. InOrder'
  BY <1>0, <1>a, <1>4 DEF InOrder, PutBusy, Quiet
<1> QED
  BY <1>0, <1>1, <1>2, <1>5 DEF PresenceInv

NoOpener == finding = 0 /\ starting = 0 /\ \A p \in Puts : put[p].at = "idle"

\* Whoever opens when nobody else does and none is open.
LEMMA OpensInv ==
    ASSUME PresenceInv, NEW state \in States, interval' = interval \cup {Fresh(state)},
           PresenceTypeOK',
           "doubled" \notin muddle' => "doubled" \notin muddle,
           "doubled" \notin muddle => interval = {} /\ NoOpener',
           muddle' = {} =>
               muddle = {} /\ state = pref' /\ Online' /\ closing' = 0,
           \A p \in Puts : put'[p] \in {put[p], NoPut}
    PROVE  PresenceInv'
<1>a. PresenceTypeOK /\ Undoubled /\ InOrder
  BY DEF PresenceInv
<1>0. Fresh(state).state = state
  BY FreshType
<1>1. IsFiniteSet(interval')
  BY FS_AddElement DEF PresenceInv
<1>2. "doubled" \notin muddle' => interval' = {Fresh(state)}
  OBVIOUS
<1>3. Undoubled'
  <2> SUFFICES ASSUME "doubled" \notin muddle' PROVE OneOpener' /\ OpensOnto'
    BY DEF Undoubled
  <2> QED
    BY <1>2 DEF NoOpener, OneOpener, OpensOnto, PutBusy
<1>4. InOrder'
  <2> SUFFICES ASSUME muddle' = {} PROVE InOrder'
    BY DEF InOrder
  <2>1. ~ Opening' /\ ~ Putting' /\ \A p \in Puts : ~ PutBusy(p)'
    BY DEF NoOpener, Opening, Putting, PutBusy
  <2>2. interval' = {Fresh(state)}
    BY <1>2
  <2> QED
    BY <1>0, <2>1, <2>2 DEF InOrder, Quiet
<1>5. \A p \in Puts : \A n, k \in put'[p].found : n = k
  BY DEF PresenceInv, NoPut
<1> QED
  BY <1>1, <1>3, <1>4, <1>5 DEF PresenceInv

LEMMA StartInv ==
    ASSUME PresenceInv, Start
    PROVE  PresenceInv'
<1>0. /\ starting > 0 /\ starting' = starting - 1
      /\ UNCHANGED <<socket, finding, closing, put, pref>>
  BY DEF Start
<1>1. PICK state \in States :
         /\ interval' = interval \cup {Fresh(state)}
         /\ \/ state = pref /\ UNCHANGED <<muddle, faults>>
            \/ muddle' = muddle \cup {"failed"} /\ faults' = faults + 1 /\ faults < MaxFaults
  <2>1. pref \in States /\ "available" \in States
    BY DEF PresenceInv, PresenceTypeOK, States
  <2> QED
    BY <2>1 DEF Start, Fault
<1>a. PresenceTypeOK /\ Undoubled /\ InOrder
  BY DEF PresenceInv
<1>2. PresenceTypeOK'
  <2>1. starting' \in Nat /\ finding + starting' <= MaxHandlers
    BY <1>0, <1>a, Counters
  <2>2. interval' \subseteq [id: Nat \ {0}, state: States]
    BY <1>1, <1>a, FreshType DEF PresenceTypeOK
  <2>3. muddle' \subseteq Causes /\ faults' \in 0..MaxFaults
    <3>1. muddle' \subseteq Causes
      BY <1>1, <1>a DEF PresenceTypeOK, Causes
    <3>2. faults \in 0..MaxFaults /\ MaxFaults \in Nat
      BY <1>a, Counters DEF PresenceTypeOK
    <3>3. faults' \in {faults, faults + 1} /\ (faults' # faults => faults < MaxFaults)
      BY <1>1
    <3> QED
      BY <3>1, <3>2, <3>3
  <2> QED
    BY <1>0, <1>a, <2>1, <2>2, <2>3 DEF PresenceTypeOK
<1>3. "doubled" \notin muddle => interval = {} /\ NoOpener'
  <2> SUFFICES ASSUME "doubled" \notin muddle PROVE interval = {} /\ NoOpener'
    OBVIOUS
  <2>1. OneOpener /\ OpensOnto
    BY <1>a DEF Undoubled
  <2>2. finding = 0 /\ starting = 1
    BY <1>0, <1>a, <2>1, Counters DEF OneOpener
  <2>3. \A p \in Puts : ~ PutBusy(p)
    BY <2>1, <2>2 DEF OneOpener
  <2>4. finding' = 0 /\ starting' = 0
    BY <1>0, <2>2
  <2> QED
    BY <1>0, <2>1, <2>3, <2>4 DEF OpensOnto, NoOpener, PutBusy
<1>4. muddle' = {} => muddle = {} /\ state = pref' /\ Online' /\ closing' = 0
  <2> SUFFICES ASSUME muddle' = {}
               PROVE  muddle = {} /\ state = pref' /\ Online' /\ closing' = 0
    OBVIOUS
  <2>1. muddle = {} /\ state = pref
    BY <1>1
  <2>2. Opening
    BY <1>0, <1>a, Counters DEF Opening
  <2> QED
    BY <1>0, <1>a, <2>1, <2>2 DEF InOrder, Online
<1>5. "doubled" \notin muddle' => "doubled" \notin muddle
  BY <1>1
<1> QED
  BY <1>0, <1>1, <1>2, <1>3, <1>4, <1>5, OpensInv

LEMMA CloseOpenInv ==
    ASSUME PresenceInv, CloseOpen
    PROVE  PresenceInv'
<1>0. /\ closing > 0 /\ closing' = closing - 1 /\ interval' = {}
      /\ muddle' = IF closing > 1 \/ Opening \/ Online THEN muddle ELSE {}
      /\ UNCHANGED <<socket, finding, starting, put, pref, faults>>
  BY DEF CloseOpen
<1>a. PresenceTypeOK /\ Undoubled /\ InOrder
  BY DEF PresenceInv
<1>1. PresenceTypeOK'
  <2>1. closing' \in 0..MaxHandlers
    BY <1>0, <1>a, Counters
  <2>2. muddle' \subseteq Causes
    BY <1>0, <1>a DEF PresenceTypeOK
  <2> QED
    BY <1>0, <1>a, <2>1, <2>2 DEF PresenceTypeOK
<1>2. (Opening' <=> Opening) /\ (Online' <=> Online) /\ (Putting' <=> Putting)
  BY <1>0 DEF Opening, Online, Putting
<1>3. Undoubled'
  <2>1. CASE Opening \/ muddle' = muddle
    BY <1>0, <1>a, <2>1 DEF Undoubled, OneOpener, OpensOnto, PutBusy
  <2>2. CASE ~ Opening
    <3>1. finding = 0 /\ starting = 0
      BY <1>a, <2>2, Counters DEF Opening
    <3>2. \A p \in Puts : put[p].at = "idle"
      BY <2>2 DEF Opening, Putting
    <3>3. OneOpener' /\ OpensOnto'
      BY <1>0, <3>1, <3>2 DEF OneOpener, OpensOnto, PutBusy
    <3> QED
      BY <3>3 DEF Undoubled
  <2> QED
    BY <2>1, <2>2
<1>4. ASSUME muddle' = {}
      PROVE  ~ Opening /\ ~ Online /\ closing' = 0
  <2>1. CASE muddle = {}
    BY <1>0, <1>a, <2>1, Counters DEF InOrder
  <2>2. CASE muddle # {}
    <3>1. ~ (closing > 1) /\ ~ Opening /\ ~ Online
      BY <1>0, <1>4, <2>2
    <3> QED
      BY <1>0, <1>a, <3>1, Counters
  <2> QED
    BY <2>1, <2>2
<1>5. InOrder'
  <2> SUFFICES ASSUME muddle' = {} PROVE InOrder'
    BY DEF InOrder
  <2>1. ~ Opening' /\ ~ Online' /\ closing' = 0 /\ interval' = {}
    BY <1>0, <1>2, <1>4
  <2>2. \A p \in Puts : ~ PutBusy(p)'
    BY <2>1 DEF Opening, Putting, PutBusy
  <2> QED
    BY <2>1, <2>2 DEF InOrder, Quiet
<1> QED
  BY <1>0, <1>1, <1>3, <1>5, FS_EmptySet DEF PresenceInv
-----------------------------------------------------------------------------
LEMMA SetPreferenceInv ==
    ASSUME PresenceInv, NEW p \in Puts, NEW state \in States, SetPreference(p, state)
    PROVE  PresenceInv'
<1> DEFINE r == [at |-> "find", state |-> state, found |-> {}]
<1>0. /\ put[p].at = "idle" /\ put' = [put EXCEPT ![p] = r]
      /\ UNCHANGED <<socket, finding, starting, closing, interval>>
  BY DEF SetPreference
<1>1. \/ /\ pref' = state /\ UNCHANGED faults
         /\ muddle' = muddle \cup OpenerBegins \cup (IF Online THEN {} ELSE {"remote"})
      \/ /\ faults < MaxFaults /\ faults' = faults + 1 /\ UNCHANGED pref
         /\ muddle' = muddle \cup OpenerBegins \cup {"failed"}
  BY DEF SetPreference, Fault
<1>a. PresenceTypeOK /\ Undoubled /\ InOrder
  BY DEF PresenceInv
<1>b. r \in Put /\ r.at = "find" /\ r.state = state /\ r.found = {}
  BY DEF Put
<1> HIDE DEF r
<1>2. PresenceTypeOK'
  <2>1. put' \in [Puts -> Put]
    BY <1>0, <1>a, <1>b DEF PresenceTypeOK
  <2>2. OpenerBegins \subseteq Causes
    BY DEF OpenerBegins, Causes
  <2>3. muddle' \subseteq Causes
    BY <1>1, <1>a, <2>2 DEF PresenceTypeOK, Causes
  <2>4. pref' \in States /\ faults' \in 0..MaxFaults
    BY <1>1, <1>a, Counters DEF PresenceTypeOK
  <2> QED
    BY <1>0, <1>a, <2>1, <2>3, <2>4 DEF PresenceTypeOK
<1>3. put'[p] = r /\ \A q \in Puts \ {p} : put'[q] = put[q]
  BY <1>0, <1>a DEF PresenceTypeOK
<1>4. ASSUME OpenerBegins \cap {"doubled"} = {}
      PROVE  finding = 0 /\ starting = 0 /\ \A q \in Puts : put[q].at = "idle"
  <2>1. ~ Opening
    BY <1>4 DEF OpenerBegins
  <2>2. finding = 0 /\ starting = 0
    BY <1>a, <2>1, Counters DEF Opening
  <2> QED
    BY <2>1, <2>2 DEF Opening, Putting
<1>5. Undoubled'
  <2> SUFFICES ASSUME "doubled" \notin muddle' PROVE OneOpener' /\ OpensOnto'
    BY DEF Undoubled
  <2>1. OneOpener /\ OpensOnto
    BY <1>1, <1>a DEF Undoubled
  <2>2. finding = 0 /\ starting = 0 /\ \A q \in Puts : put[q].at = "idle"
    BY <1>1, <1>4
  <2>3. OneOpener'
    BY <1>0, <1>3, <2>2 DEF OneOpener, PutBusy
  <2>4. OpensOnto'
    BY <1>0, <1>3, <1>b, <2>1, <2>2 DEF OpensOnto
  <2> QED
    BY <2>3, <2>4
<1>6. InOrder'
  <2> SUFFICES ASSUME muddle' = {} PROVE InOrder'
    BY DEF InOrder
  <2>1. OpenerBegins = {} /\ pref' = state /\ Online
    BY <1>1
  <2>2. /\ finding = 0 /\ starting = 0 /\ \A q \in Puts : put[q].at = "idle"
        /\ ~ (closing > 0)
    BY <1>4, <2>1 DEF OpenerBegins
  <2>3. closing = 0
    BY <1>a, <2>2, Counters
  <2>4. PutBusy(p)' /\ \A q \in Puts \ {p} : ~ PutBusy(q)'
    BY <1>3, <1>b, <2>2 DEF PutBusy
  <2>5. Opening' /\ Putting' /\ Online'
    BY <1>0, <2>1, <2>4 DEF Opening, Putting, PutBusy, Online
  <2> QED
    BY <1>0, <1>3, <1>b, <2>1, <2>3, <2>4, <2>5 DEF InOrder, Quiet
<1>7. \A q \in Puts : \A n, k \in put'[q].found : n = k
  BY <1>3, <1>b DEF PresenceInv
<1> QED
  BY <1>0, <1>2, <1>5, <1>6, <1>7 DEF PresenceInv

\* A step of one request, which goes on or ends without opening.
LEMMA PutInv ==
    ASSUME PresenceInv, NEW p \in Puts, NEW r \in Put, PutBusy(p),
           put' = [put EXCEPT ![p] = r], interval' \subseteq interval,
           \A n, k \in r.found : n = k,
           r.at = "idle" \/ r.state = put[p].state,
           "doubled" \notin muddle =>
               /\ r.at = "start" => interval' = {}
               /\ r.at = "close" => \A i \in interval' : i.id \in r.found,
           muddle = {} /\ r.at = "idle" =>
               interval' # {} /\ \A i \in interval' : i.state = put[p].state,
           UNCHANGED <<socket, finding, starting, closing, pref, muddle, faults>>
    PROVE  PresenceInv'
<1>a. PresenceTypeOK /\ Undoubled /\ InOrder
  BY DEF PresenceInv
<1>1. PresenceTypeOK'
  BY <1>a DEF PresenceTypeOK
<1>2. IsFiniteSet(interval')
  BY FS_Subset DEF PresenceInv
<1>3. put'[p] = r /\ \A q \in Puts \ {p} : put'[q] = put[q]
  BY <1>a DEF PresenceTypeOK
<1>4. Undoubled'
  <2> SUFFICES ASSUME "doubled" \notin muddle PROVE OneOpener' /\ OpensOnto'
    BY DEF Undoubled
  <2>1. OneOpener /\ OpensOnto
    BY <1>a DEF Undoubled
  <2>2. \A q \in Puts \ {p} : ~ PutBusy(q)
    BY <2>1 DEF OneOpener
  <2>3. finding = 0 /\ starting = 0
    BY <1>a, <2>1, Counters DEF OneOpener
  <2>4. OneOpener'
    BY <1>3, <2>2, <2>3 DEF OneOpener, PutBusy
  <2>5. OpensOnto'
    BY <1>3, <2>1, <2>2, <2>3 DEF OpensOnto, PutBusy
  <2> QED
    BY <2>4, <2>5
<1>5. InOrder'
  <2> SUFFICES ASSUME muddle = {} PROVE InOrder'
    BY DEF InOrder
  <2>1. OneOpener
    BY <1>a DEF Undoubled
  <2>2. \A q \in Puts \ {p} : ~ PutBusy(q)
    BY <2>1 DEF OneOpener
  <2>3. finding = 0 /\ starting = 0
    BY <1>a, <2>1, Counters DEF OneOpener
  <2>4. Opening /\ closing = 0 /\ Online /\ put[p].state = pref
    BY <1>a DEF InOrder, Opening, Putting, PutBusy
  <2>5. Online'
    BY <2>4 DEF Online
  <2>6. CASE r.at = "idle"
    <3>1. \A q \in Puts : ~ PutBusy(q)'
      BY <1>3, <2>2, <2>6 DEF PutBusy
    <3>2. ~ Opening' /\ ~ Putting'
      BY <2>3, <3>1 DEF Opening, Putting, PutBusy
    <3> QED
      BY <2>4, <2>5, <2>6, <3>1, <3>2 DEF InOrder, Quiet
  <2>7. CASE r.at # "idle"
    <3>1. Putting' /\ Opening'
      BY <1>3, <2>7 DEF Opening, Putting
    <3>2. \A q \in Puts : PutBusy(q)' => put'[q].state = pref
      BY <1>3, <2>2, <2>4, <2>7 DEF PutBusy
    <3> QED
      BY <2>4, <2>5, <3>1, <3>2 DEF InOrder, Quiet
  <2> QED
    BY <2>6, <2>7
<1>6. \A q \in Puts : \A n, k \in put'[q].found : n = k
  BY <1>3 DEF PresenceInv
<1> QED
  BY <1>1, <1>2, <1>4, <1>5, <1>6 DEF PresenceInv

LEMMA FindCurrentInv ==
    ASSUME PresenceInv, NEW p \in Puts, FindCurrent(p)
    PROVE  PresenceInv'
<1>a. PresenceTypeOK /\ Undoubled /\ InOrder
  BY DEF PresenceInv
<1>0. /\ put[p].at = "find" /\ put[p] \in Put
      /\ UNCHANGED <<socket, finding, starting, closing, interval, pref, muddle, faults>>
  BY <1>a DEF FindCurrent, PresenceTypeOK
<1>1. CASE interval = {} /\ put' = [put EXCEPT ![p].at = "start"]
  <2> DEFINE r == [put[p] EXCEPT !.at = "start"]
  <2>1. r \in Put /\ r.at = "start" /\ r.state = put[p].state /\ r.found = put[p].found
    BY <1>0 DEF Put
  <2>2. put' = [put EXCEPT ![p] = r]
    BY <1>1
  <2>3. PutBusy(p) /\ (\A n, k \in r.found : n = k) /\ r.at # "close" /\ r.at # "idle"
    BY <1>0, <2>1 DEF PresenceInv, PutBusy
  <2>4. interval' = {} /\ interval' \subseteq interval
    BY <1>0, <1>1
  <2> HIDE DEF r
  <2> QED
    BY <1>0, <2>1, <2>2, <2>3, <2>4, PutInv
<1>2. ASSUME NEW i \in interval,
             put' = [put EXCEPT ![p] = IF i.state = put[p].state THEN NoPut
                                       ELSE [@ EXCEPT !.at = "close", !.found = {i.id}]]
      PROVE  PresenceInv'
  <2>0. i.id \in Nat
    BY <1>a DEF PresenceTypeOK
  <2>1. CASE i.state = put[p].state
    <3>1. NoPut \in Put /\ NoPut.at = "idle" /\ NoPut.found = {}
      BY DEF NoPut, Put, States
    <3>2. put' = [put EXCEPT ![p] = NoPut]
      BY <1>2, <2>1
    <3>3. muddle = {} => \A j \in interval : j = i
      BY <1>a DEF Undoubled, OpensOnto
    <3> QED
      BY <1>0, <2>1, <3>1, <3>2, <3>3, PutInv DEF PutBusy
  <2>2. CASE i.state # put[p].state
    <3> DEFINE r == [put[p] EXCEPT !.at = "close", !.found = {i.id}]
    <3>1. r \in Put /\ r.at = "close" /\ r.state = put[p].state /\ r.found = {i.id}
      BY <1>0, <2>0 DEF Put
    <3>2. put' = [put EXCEPT ![p] = r]
      BY <1>2, <2>2
    <3>3. "doubled" \notin muddle => \A j \in interval : j = i
      BY <1>a DEF Undoubled, OpensOnto
    <3> HIDE DEF r
    <3> QED
      BY <1>0, <3>1, <3>2, <3>3, PutInv DEF PutBusy
  <2> QED
    BY <2>1, <2>2
<1> QED
  BY <1>1, <1>2 DEF FindCurrent

LEMMA CloseCurrentInv ==
    ASSUME PresenceInv, NEW p \in Puts, CloseCurrent(p)
    PROVE  PresenceInv'
<1> DEFINE r == [put[p] EXCEPT !.at = "start"]
<1>a. PresenceTypeOK /\ Undoubled
  BY DEF PresenceInv
<1>0. /\ put[p].at = "close" /\ put[p] \in Put
      /\ interval' = {i \in interval : i.id \notin put[p].found}
      /\ put' = [put EXCEPT ![p] = r]
      /\ UNCHANGED <<socket, finding, starting, closing, pref, muddle, faults>>
  BY <1>a DEF CloseCurrent, PresenceTypeOK
<1>1. r \in Put /\ r.at = "start" /\ r.state = put[p].state /\ r.found = put[p].found
  BY <1>0 DEF Put
<1>2. "doubled" \notin muddle => interval' = {}
  BY <1>0, <1>a DEF Undoubled, OpensOnto
<1>3. PutBusy(p) /\ (\A n, k \in r.found : n = k) /\ r.at # "close" /\ r.at # "idle"
  BY <1>0, <1>1 DEF PresenceInv, PutBusy
<1>4. interval' \subseteq interval
  BY <1>0
<1> HIDE DEF r
<1> QED
  BY <1>0, <1>1, <1>2, <1>3, <1>4, PutInv

LEMMA StartNewInv ==
    ASSUME PresenceInv, NEW p \in Puts, StartNew(p)
    PROVE  PresenceInv'
<1> DEFINE state == put[p].state
<1>a. PresenceTypeOK /\ Undoubled /\ InOrder
  BY DEF PresenceInv
<1>0. /\ put[p].at = "start" /\ put[p] \in Put
      /\ interval' = interval \cup {Fresh(state)}
      /\ put' = [put EXCEPT ![p] = NoPut]
      /\ UNCHANGED <<socket, finding, starting, closing, pref, muddle, faults>>
  BY <1>a DEF StartNew, PresenceTypeOK
<1>1. state \in States
  BY <1>0 DEF Put
<1>2. NoPut \in Put /\ NoPut.at = "idle"
  BY DEF NoPut, Put, States
<1>3. PresenceTypeOK'
  <2>1. interval' \subseteq [id: Nat \ {0}, state: States]
    BY <1>0, <1>1, <1>a, FreshType DEF PresenceTypeOK
  <2> QED
    BY <1>0, <1>2, <1>a, <2>1 DEF PresenceTypeOK
<1>4. put'[p] = NoPut /\ \A q \in Puts \ {p} : put'[q] = put[q]
  BY <1>0, <1>a DEF PresenceTypeOK
<1>5. "doubled" \notin muddle => interval = {} /\ NoOpener'
  <2> SUFFICES ASSUME "doubled" \notin muddle PROVE interval = {} /\ NoOpener'
    OBVIOUS
  <2>1. OneOpener /\ OpensOnto /\ PutBusy(p)
    BY <1>0, <1>a DEF Undoubled, PutBusy
  <2>2. finding = 0 /\ starting = 0
    BY <1>a, <2>1, Counters DEF OneOpener
  <2>3. \A q \in Puts : put'[q].at = "idle"
    BY <1>2, <1>4, <2>1 DEF OneOpener, PutBusy
  <2> QED
    BY <1>0, <2>1, <2>2, <2>3 DEF OpensOnto, NoOpener
<1>6. muddle' = {} => muddle = {} /\ state = pref' /\ Online' /\ closing' = 0
  BY <1>0, <1>a DEF InOrder, Opening, Putting, PutBusy, Online
<1> HIDE DEF state
<1> QED
  BY <1>0, <1>1, <1>3, <1>4, <1>5, <1>6, OpensInv
-----------------------------------------------------------------------------
\* Fewer handlers that open: still at most one.
LEMMA Fewer ==
    ASSUME NEW m \in Nat, NEW n \in Nat, NEW k \in Nat, NEW l \in Nat,
           m <= k, n <= l, k + l <= 1
    PROVE  /\ m + n <= 1
           /\ m + n = 1 => k + l = 1
           /\ n > 0 => l > 0
OBVIOUS

LEMMA FailStatementInv ==
    ASSUME PresenceInv, FailStatement
    PROVE  PresenceInv'
<1>a. PresenceTypeOK /\ Undoubled
  BY DEF PresenceInv
<1>0. /\ faults < MaxFaults /\ faults' = faults + 1
      /\ muddle' = muddle \cup {"failed"}
      /\ UNCHANGED <<socket, interval, pref>>
  BY DEF FailStatement, Fault
<1>1. InOrder'
  BY <1>0 DEF InOrder
<1>2. faults' \in 0..MaxFaults /\ muddle' \subseteq Causes
  <2>1. faults' \in 0..MaxFaults
    BY <1>0, <1>a, Counters
  <2> QED
    BY <1>0, <1>a, <2>1 DEF PresenceTypeOK, Causes
<1>3. ASSUME finding' \in Nat, starting' \in Nat, closing' \in 0..MaxHandlers,
             finding' <= finding, starting' <= starting, UNCHANGED put
      PROVE  PresenceInv'
  <2>1. finding' + starting' <= MaxHandlers
    BY <1>3, <1>a, Counters
  <2>2. PresenceTypeOK'
    BY <1>0, <1>2, <1>3, <1>a, <2>1 DEF PresenceTypeOK
  <2>3. Undoubled'
    <3> SUFFICES ASSUME "doubled" \notin muddle PROVE OneOpener' /\ OpensOnto'
      BY <1>0 DEF Undoubled
    <3>1. OneOpener /\ OpensOnto
      BY <1>a DEF Undoubled
    <3>0. finding \in Nat /\ starting \in Nat /\ finding + starting <= 1
      BY <1>a, <3>1 DEF PresenceTypeOK, OneOpener
    <3>a. finding' \in Nat /\ starting' \in Nat /\ finding' <= finding /\ starting' <= starting
      BY <1>3
    <3>2. /\ finding' + starting' <= 1
          /\ finding' + starting' = 1 => finding + starting = 1
          /\ starting' > 0 => starting > 0
      BY <3>0, <3>a, Fewer
    <3>5. OneOpener'
      BY <1>3, <3>1, <3>2 DEF OneOpener, PutBusy
    <3>6. OpensOnto'
      BY <1>0, <1>3, <3>1, <3>2 DEF OpensOnto
    <3> QED
      BY <3>5, <3>6
  <2> QED
    BY <1>0, <1>1, <1>3, <2>2, <2>3 DEF PresenceInv
<1>4. CASE finding > 0 /\ finding' = finding - 1 /\ UNCHANGED <<starting, closing, put>>
  <2>1. finding' \in Nat /\ finding' <= finding /\ starting \in Nat /\ starting <= starting
    BY <1>4, <1>a, Counters
  <2> QED
    BY <1>3, <1>4, <1>a, <2>1 DEF PresenceTypeOK
<1>5. CASE starting > 0 /\ starting' = starting - 1 /\ UNCHANGED <<finding, closing, put>>
  <2>1. starting' \in Nat /\ starting' <= starting /\ finding \in Nat /\ finding <= finding
    BY <1>5, <1>a, Counters
  <2> QED
    BY <1>3, <1>5, <1>a, <2>1 DEF PresenceTypeOK
<1>6. CASE closing > 0 /\ closing' = closing - 1 /\ UNCHANGED <<finding, starting, put>>
  <2>1. closing' \in 0..MaxHandlers /\ finding <= finding /\ starting <= starting
    BY <1>6, <1>a, Counters
  <2> QED
    BY <1>3, <1>6, <1>a, <2>1 DEF PresenceTypeOK
<1>7. ASSUME NEW p \in Puts, put' = [put EXCEPT ![p] = NoPut],
             UNCHANGED <<finding, starting, closing>>
      PROVE  PresenceInv'
  <2>1. NoPut \in Put /\ NoPut.at = "idle" /\ NoPut.found = {}
    BY DEF NoPut, Put, States
  <2>2. put'[p] = NoPut /\ \A q \in Puts \ {p} : put'[q] = put[q]
    BY <1>7, <1>a DEF PresenceTypeOK
  <2>3. PresenceTypeOK'
    BY <1>0, <1>2, <1>7, <1>a, <2>1 DEF PresenceTypeOK
  <2>4. Undoubled'
    BY <1>0, <1>7, <1>a, <2>1, <2>2 DEF Undoubled, OneOpener, OpensOnto, PutBusy
  <2>5. \A q \in Puts : \A n, k \in put'[q].found : n = k
    BY <2>1, <2>2 DEF PresenceInv
  <2> QED
    BY <1>0, <1>1, <2>3, <2>4, <2>5 DEF PresenceInv
<1> QED
  BY <1>4, <1>5, <1>6, <1>7 DEF FailStatement

LEMMA RestartInv ==
    ASSUME PresenceInv, Restart
    PROVE  PresenceInv'
<1>a. PresenceTypeOK /\ Undoubled
  BY DEF PresenceInv
<1>0. /\ faults < MaxFaults /\ faults' = faults + 1
      /\ socket' = [s \in Sockets |-> "off"]
      /\ finding' = 0 /\ starting' = 0 /\ closing' = 0
      /\ put' = [p \in Puts |-> NoPut]
      /\ pref' = pref
      /\ \/ interval' = {} /\ muddle' = {}
         \/ UNCHANGED interval /\ muddle' = muddle \cup {"failed"}
  BY DEF Restart, Fault
<1>1. NoPut \in Put /\ NoPut.at = "idle" /\ NoPut.found = {}
  BY DEF NoPut, Put, States
<1>2. PresenceTypeOK'
  <2>1. faults' \in 0..MaxFaults /\ 0 + 0 <= MaxHandlers /\ 0 \in 0..MaxHandlers
    BY <1>0, <1>a, Counters
  <2>2. muddle' \subseteq Causes /\ interval' \subseteq interval
    BY <1>0, <1>a DEF PresenceTypeOK, Causes
  <2> QED
    BY <1>0, <1>1, <1>a, <2>1, <2>2 DEF PresenceTypeOK
<1>3. \A p \in Puts : put'[p].at = "idle" /\ put'[p].found = {}
  BY <1>0, <1>1
<1>4. Undoubled'
  <2>1. OneOpener'
    BY <1>0, <1>3 DEF OneOpener, PutBusy
  <2>2. ASSUME "doubled" \notin muddle' PROVE \A i, j \in interval' : i = j
    BY <1>0, <1>a, <2>2 DEF Undoubled, OpensOnto
  <2> QED
    BY <1>0, <1>3, <2>1, <2>2 DEF Undoubled, OpensOnto
<1>5. InOrder'
  <2> SUFFICES ASSUME muddle' = {} PROVE InOrder'
    BY DEF InOrder
  <2>1. interval' = {}
    BY <1>0
  <2>2. ~ Online' /\ ~ Putting' /\ ~ Opening'
    BY <1>0, <1>3 DEF Online, Putting, Opening
  <2> QED
    BY <1>0, <1>3, <2>1, <2>2 DEF InOrder, PutBusy, Quiet
<1>6. IsFiniteSet(interval')
  BY <1>0, FS_EmptySet DEF PresenceInv
<1> QED
  BY <1>2, <1>3, <1>4, <1>5, <1>6 DEF PresenceInv

LEMMA StutterPresence ==
    ASSUME PresenceInv, UNCHANGED presenceVars
    PROVE  PresenceInv'
BY DEF PresenceInv, presenceVars, PresenceTypeOK, Undoubled, OneOpener, OpensOnto,
       PutBusy, InOrder, Opening, Putting, Online, Quiet

LEMMA StepPresence ==
    ASSUME PresenceInv, [PresenceNext]_presenceVars
    PROVE  PresenceInv'
<1>1. ASSUME NEW s \in Sockets,
             Connect(s) \/ RefuseSocket(s) \/ DropInHandshake(s)
      PROVE  PresenceInv'
  <2>1. PICK at \in {"off", "handshake", "gone"} :
           socket[s] # "in" /\ socket' = [socket EXCEPT ![s] = at]
    BY <1>1 DEF Connect, RefuseSocket, DropInHandshake
  <2> QED
    BY <1>1, <2>1, SocketsInv DEF Connect, RefuseSocket, DropInHandshake
<1>2. ASSUME NEW s \in Sockets, Accept(s) PROVE PresenceInv'
  BY <1>2, AcceptInv
<1>3. ASSUME NEW s \in Sockets, DropSocket(s) PROVE PresenceInv'
  BY <1>3, DropSocketInv
<1>4. ASSUME NEW p \in Puts, NEW state \in States, SetPreference(p, state)
      PROVE  PresenceInv'
  BY <1>4, SetPreferenceInv
<1>5. ASSUME NEW p \in Puts, FindCurrent(p) \/ CloseCurrent(p) \/ StartNew(p)
      PROVE  PresenceInv'
  BY <1>5, FindCurrentInv, CloseCurrentInv, StartNewInv
<1> QED
  BY <1>1, <1>2, <1>3, <1>4, <1>5, DisconnectUserInv, FindOpenInv, StartInv,
     CloseOpenInv, FailStatementInv, RestartInv, StutterPresence DEF PresenceNext

LEMMA PresenceInvariant == PresenceSpec => []PresenceInv
BY InitPresence, StepPresence, PTL DEF PresenceSpec

\* Handlers, requests and intervals are well formed; the identifier of a new
\* interval is one that no row and no request holds.
THEOREM PresenceTypes == PresenceSpec => []PresenceTypeOK
<1>1. PresenceInv => PresenceTypeOK
  BY DEF PresenceInv
<1> QED
  BY PresenceInvariant, <1>1, PTL

\* For any number of sockets, requests and faults, a member has two open
\* intervals only after two handlers that open intervals have overlapped.
THEOREM OneIntervalIsOpen == PresenceSpec => []OneOpenInterval
<1>1. ASSUME PresenceInv PROVE OneOpenInterval
  <2> SUFFICES ASSUME "doubled" \notin muddle PROVE Cardinality(interval) <= 1
    BY DEF OneOpenInterval
  <2>1. \A i, j \in interval : i = j
    BY <1>1 DEF PresenceInv, Undoubled, OpensOnto
  <2>2. CASE interval = {}
    BY <2>2, FS_EmptySet
  <2>3. ASSUME NEW i \in interval PROVE Cardinality(interval) <= 1
    <3>1. interval = {i}
      BY <2>1
    <3>2. Cardinality({i}) = 1
      BY FS_Singleton
    <3> QED
      BY <3>1, <3>2
  <2> QED
    BY <2>2, <2>3
<1> QED
  BY PresenceInvariant, <1>1, PTL

\* When nothing runs and all was in order, the member is online with a socket
\* and in the chosen state, and offline without one.
THEOREM OnlineIsASocket == PresenceSpec => []OnlineMeansASocket
<1>1. ASSUME PresenceInv PROVE OnlineMeansASocket
  <2> SUFFICES ASSUME Quiet, muddle = {}
               PROVE  /\ Online <=> interval # {}
                      /\ \A i \in interval : i.state = pref
    BY DEF OnlineMeansASocket
  <2>1. ~ Putting
    BY DEF Quiet, Opening
  <2> QED
    BY <1>1, <2>1 DEF PresenceInv, InOrder
<1> QED
  BY PresenceInvariant, <1>1, PTL
==============================================================================
