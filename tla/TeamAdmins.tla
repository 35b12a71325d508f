----------------------------- MODULE TeamAdmins -----------------------------
(***************************************************************************)
(* Equipo: who is in the team of a company, with which role and status.    *)
(* Each request is a MySQL transaction (REPEATABLE READ): it reads its     *)
(* target without a lock, asks the policy, counts the active admins with   *)
(* the rows locked if the target it read is one of them, and writes the    *)
(* target by its id.                                                       *)
(*                                                                         *)
(* The count is a range FOR UPDATE on (company_id, role, status): until    *)
(* the commit nobody else writes a counted row or moves one into the       *)
(* range.  The write and the commit follow each other and are one step.    *)
(* An inactive member is one whose status is suspended or inactive.        *)
(***************************************************************************)
EXTENDS Naturals, FiniteSets

CONSTANTS Members,      \* accounts that are or may become members
          Team,         \* the team at the start
          Requests,     \* requests that may be served at a time
          Changes,      \* bound: what is asked for
          None          \* a field left alone, a request's target before it reads

Roles    == {"admin", "supervisor", "agent"}
Statuses == {"active", "inactive"}
Member   == [standing : {"never", "in", "removed"}, role : Roles, status : Statuses]

\* PATCH, DELETE and POST /company-members.
Change == [kind : {"update", "remove", "provision"},
           role : Roles \cup {None}, status : Statuses \cup {None}]

ASSUME MembersAssumption == IsFiniteSet(Members)

ASSUME TeamAssumption == Team \in [Members -> Member]

ASSUME ChangesAssumption ==
    /\ Changes \subseteq Change
    /\ \A c \in Changes : c.kind = "provision" => c.role # None
    /\ None \notin Members \cup Member \cup Roles \cup Statuses

VARIABLES member,   \* company_members
          req       \* the requests being served

vars == <<member, req>>

Stages == {"idle", "admitted", "read", "write"}
Request == [stage : Stages, by : Roles, target : Members \cup {None},
            change : Change \cup {None}, seen : Member \cup {None},
            locks : SUBSET Members]

Idle == [stage |-> "idle", by |-> "agent", target |-> None, change |-> None,
         seen |-> None, locks |-> {}]

\* A request that has read its target knows what it is asked for.
TypeOK ==
    /\ member \in [Members -> Member]
    /\ req \in [Requests -> Request]
    /\ \A q \in Requests :
          /\ req[q].stage # "idle" => req[q].target \in Members /\ req[q].change \in Changes
          /\ req[q].stage \in {"read", "write"} => req[q].seen \in Member

Init ==
    /\ member = Team
    /\ req = [q \in Requests |-> Idle]

IsActiveAdmin(m) == m.standing = "in" /\ m.role = "admin" /\ m.status = "active"
ActiveAdmins == {m \in Members : IsActiveAdmin(member[m])}

Drop(q) == req' = [req EXCEPT ![q] = Idle]
-----------------------------------------------------------------------------
(* team.policy.ts *)

CanCreate(by, role) == \/ by = "admin"
                       \/ by = "supervisor" /\ role = "agent"

\* canManage; that nobody acts on themselves is a guard of Admit.
CanManage(by, seen, change) ==
    \/ by = "admin"
    \/ /\ by = "supervisor"
       /\ seen.role = "agent"
       /\ change.role \in {None, "agent"}

\* What a member is after the write of a change.
Apply(m, change) ==
    CASE change.kind = "remove" -> [m EXCEPT !.standing = "removed"]
      [] change.kind = "provision" ->
            [standing |-> "in", role |-> change.role, status |-> "active"]
      [] change.kind = "update" ->
            [m EXCEPT !.role = IF change.role = None THEN m.role ELSE change.role,
                      !.status = IF change.status = None THEN m.status
                                                         ELSE change.status]

\* Does the check of the last admin look at this change at all?
Counts(seen, change) ==
    /\ IsActiveAdmin(seen)
    /\ change.kind = "remove" \/ change.role # None \/ change.status # None
-----------------------------------------------------------------------------
(* CompanyMemberService *)

\* The tenant guard resolves the caller's membership.
Admit(q, actor, m, change) ==
    /\ req[q].stage = "idle"
    /\ member[actor].standing = "in" /\ member[actor].status = "active"
    /\ actor # m
    /\ change.kind = "provision" => CanCreate(member[actor].role, change.role)
    /\ req' = [req EXCEPT ![q] = [Idle EXCEPT !.stage = "admitted", !.target = m,
                                     !.by = member[actor].role, !.change = change]]
    /\ UNCHANGED member

\* findInCompany and canManage; provision looks for a membership itself.
ReadTarget(q) ==
    LET r == req[q]
        m == member[r.target]
    IN
    /\ r.stage = "admitted"
    /\ IF r.change.kind = "provision" THEN m.standing # "in"
       ELSE m.standing = "in" /\ CanManage(r.by, m, r.change)
    /\ req' = [req EXCEPT ![q].stage = IF r.change.kind = "provision" THEN "write"
                                                                      ELSE "read",
                          ![q].seen = m]
    /\ UNCHANGED member

\* 403, 404 or 409.
Refuse(q) ==
    LET r == req[q]
        m == member[r.target]
    IN
    /\ r.stage = "admitted"
    /\ IF r.change.kind = "provision" THEN m.standing = "in"
       ELSE m.standing # "in" \/ ~CanManage(r.by, m, r.change)
    /\ Drop(q)
    /\ UNCHANGED member

\* assertNotLastAdmin returns at once: the target it read is no active admin,
\* or the change leaves role and status alone.
SkipCount(q) ==
    /\ req[q].stage = "read"
    /\ ~Counts(req[q].seen, req[q].change)
    /\ req' = [req EXCEPT ![q].stage = "write"]
    /\ UNCHANGED member

Locked(q) == UNION {req[p].locks : p \in Requests \ {q}}

\* Mutated form, for the mutation runs: a count without its lock.
CountUnlocked(q) ==
    LET r == req[q] IN
    /\ r.stage = "read"
    /\ Counts(r.seen, r.change)
    /\ IF ~IsActiveAdmin(Apply(r.seen, r.change)) /\ Cardinality(ActiveAdmins) <= 1
       THEN Drop(q)
       ELSE req' = [req EXCEPT ![q].stage = "write"]
    /\ UNCHANGED member

\* ... or counts, waiting for the rows others have locked, and refuses to take
\* the last one (wouldLeaveWithoutAdmin).
CountAdmins(q) ==
    LET r == req[q] IN
    /\ r.stage = "read"
    /\ Counts(r.seen, r.change)
    /\ ActiveAdmins \cap Locked(q) = {}
    /\ IF ~IsActiveAdmin(Apply(r.seen, r.change)) /\ Cardinality(ActiveAdmins) <= 1
       THEN Drop(q)
       ELSE req' = [req EXCEPT ![q].stage = "write", ![q].locks = ActiveAdmins]
    /\ UNCHANGED member

\* The write by id, whatever became of the row since it was read: an update
\* keeps its standing.  A locked row, or the counted range, is waited for.
Write(q) ==
    LET r == req[q]
        now == member[r.target]
        new == Apply(now, r.change)
    IN
    /\ r.stage = "write"
    /\ r.change.kind = "provision" /\ r.seen.standing = "never" => now.standing = "never"
    /\ r.target \notin Locked(q)
    /\ IsActiveAdmin(new) /\ ~IsActiveAdmin(now) => Locked(q) = {}
    /\ member' = [member EXCEPT ![r.target] = new]
    /\ Drop(q)

\* A deadlock, a duplicate key, a lost connection: the transaction is undone.
Rollback(q) ==
    /\ req[q].stage # "idle"
    /\ Drop(q)
    /\ UNCHANGED member

Next == \E q \in Requests :
            \/ \E a, m \in Members, c \in Changes : Admit(q, a, m, c)
            \/ ReadTarget(q)
            \/ Refuse(q)
            \/ SkipCount(q)
            \/ CountAdmins(q)
            \/ Write(q)
            \/ Rollback(q)

Spec == Init /\ [][Next]_vars
-----------------------------------------------------------------------------
(* Properties. *)

HasAdmin == ActiveAdmins # {}

\* assertNotLastAdmin: "rows locked on MySQL so two concurrent demotions cannot
\* both pass".  The lock of the count is enough for every request that read its
\* target as an active admin: the company loses its last one only to a request
\* that read its target before somebody made it an admin.
OnlyStaleReadsLoseTheLast ==
    [][HasAdmin /\ ~HasAdmin' =>
          \E q \in Requests : /\ req[q].stage = "write"
                             /\ ~IsActiveAdmin(req[q].seen)]_vars
-----------------------------------------------------------------------------
(* A statement of the repository the code does not keep. *)

\* assertNotLastAdmin: "The company needs at least one active admin".
AnActiveAdmin == HasAdmin
=============================================================================
