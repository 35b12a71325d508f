----------------------------- MODULE Assignment -----------------------------
(***************************************************************************)
(* The assignment engine: who owns a conversation.  Auto-assignment, an    *)
(* agent's claim, a supervisor's assignment and the removal of a member    *)
(* are MySQL transactions (REPEATABLE READ) over the assignment history    *)
(* and the owner column of the conversation.                               *)
(*                                                                         *)
(* The first three lock the conversation row (FOR UPDATE) and read from    *)
(* the snapshot the next statement opens, so lock and reads are one step.  *)
(* The UPDATE that closes the active row reads the current rows and locks  *)
(* them; the insert, the owner column and the commit follow.  A removal    *)
(* takes no conversation lock: it reads, closes the rows it read (locking  *)
(* them), and commits once nobody holds its conversations.  Outcomes that  *)
(* write nothing (SKIPPED, CONFLICT, ...) leave no trace and are not steps.*)
(*                                                                         *)
(* Times are the order of the rows.  Conversations stay open: nothing in   *)
(* the code moves conversations.status to closed or archived.              *)
(***************************************************************************)
EXTENDS Naturals, Sequences, FiniteSets

CONSTANTS Convs,          \* conversations of one company
          Members,        \* its members; ids are ordered
          Supervisors,    \* members with role admin or supervisor
          Txns,           \* transactions that may run at a time
          None,           \* no member, conversation or transaction
          AutoAssign,     \* company_settings.auto_assign_enabled
          MaxOpen,        \* company_settings.auto_assign_max_open, 0: no cap
          Sticky,         \* company_settings.auto_assign_sticky
          Removable,      \* bound: members that may be removed
          MaxRows         \* bound: history rows the transactions may start from

ASSUME MembersAssumption ==
    /\ Members \subseteq Nat
    /\ Supervisors \subseteq Members
    /\ Removable \subseteq Members
    /\ None \notin Members \cup Convs \cup Txns

ASSUME SettingsAssumption ==
    /\ {AutoAssign, Sticky} \subseteq BOOLEAN
    /\ {MaxOpen, MaxRows} \subseteq Nat

ASSUME FiniteAssumption == IsFiniteSet(Convs) /\ IsFiniteSet(Txns)

VARIABLES rows,     \* conversation_assignments, in the order they were inserted
          owner,    \* conversations.assigned_member_id
          gone,     \* soft-deleted members
          lock,     \* which transaction holds the row of a conversation
          txn       \* the running transactions

vars == <<rows, owner, gone, lock, txn>>

Reasons == {"auto", "claim", "manual", "transfer", "release"}
Row == [conv : Convs, member : Members, reason : Reasons,
        by : Members \cup {None}, open : BOOLEAN]

\* chosen, closing: a transaction that assigns; read, releasing: a removal.
Stages == {"idle", "chosen", "closing", "read", "releasing"}
Txn == [stage : Stages, conv : Convs \cup {None}, member : Members \cup {None},
        reason : Reasons \cup {"none"}, by : Members \cup {None},
        closes : SUBSET Nat, convs : SUBSET Convs]

Idle == [stage |-> "idle", conv |-> None, member |-> None, reason |-> "none",
         by |-> None, closes |-> {}, convs |-> {}]

TypeOK ==
    /\ rows \in Seq(Row)
    /\ owner \in [Convs -> Members \cup {None}]
    /\ gone \in SUBSET Removable
    /\ lock \in [Convs -> Txns \cup {None}]
    /\ txn \in [Txns -> Txn]

Init ==
    /\ rows  = <<>>
    /\ owner = [x \in Convs |-> None]
    /\ gone  = {}
    /\ lock  = [x \in Convs |-> None]
    /\ txn   = [t \in Txns |-> Idle]
-----------------------------------------------------------------------------
OpenRows(x)  == {i \in 1..Len(rows) : rows[i].conv = x /\ rows[i].open}
OpenOf(m)    == {i \in 1..Len(rows) : rows[i].member = m /\ rows[i].open}
ActiveMembers == Members \ gone

\* The member of the active row of a conversation, if it has one.
Holder(x) ==
    IF OpenRows(x) = {} THEN None
    ELSE rows[CHOOSE i \in OpenRows(x) : TRUE].member

\* A history with some of its rows closed.
Closed(s, closes) ==
    [i \in 1..Len(s) |-> IF i \in closes THEN [s[i] EXCEPT !.open = FALSE]
                                         ELSE s[i]]

\* loadCandidates: open conversations and latest open assignment of a member.
Load(m) == Cardinality(OpenOf(m))
LastAssigned(m) ==
    IF OpenOf(m) = {} THEN 0
    ELSE CHOOSE i \in OpenOf(m) : \A j \in OpenOf(m) : j <= i

\* findPreviousMemberId: who the newest row of the conversation names.
RowsOf(x) == {i \in 1..Len(rows) : rows[i].conv = x}
Previous(x) ==
    IF RowsOf(x) = {} THEN None
    ELSE rows[CHOOSE i \in RowsOf(x) : \A j \in RowsOf(x) : j <= i].member

\* Mutated forms, for the mutation runs: the cap off by one, the previous
\* agent taken without asking whether there is one.
EligibleAtCap == {m \in ActiveMembers : MaxOpen > 0 => Load(m) <= MaxOpen}
\* selectAssignmentCandidate: below the cap; the previous agent if sticky;
\* else the least load, the oldest assignment, the lowest id.
Eligible == {m \in ActiveMembers : MaxOpen > 0 => Load(m) < MaxOpen}

Before(m, n) ==
    \/ Load(m) < Load(n)
    \/ Load(m) = Load(n) /\ LastAssigned(m) < LastAssigned(n)
    \/ Load(m) = Load(n) /\ LastAssigned(m) = LastAssigned(n) /\ m <= n

Candidate(x) ==
    IF Sticky /\ Previous(x) \in Eligible
    THEN Previous(x)
    ELSE CHOOSE m \in Eligible : \A n \in Eligible : Before(m, n)
-----------------------------------------------------------------------------
Busy == {t \in Txns : txn[t].stage # "idle"}

\* Mutated forms, for the mutation runs: no FOR UPDATE; a claim that does not
\* look at the active row; the owner column forgotten; closed rows that
\* outlive a rolled back transaction.
ChooseUnlocked(t, x, m, reason, by) ==
    /\ txn[t].stage = "idle"
    /\ Len(rows) + Cardinality(Busy) < MaxRows
    /\ txn' = [txn EXCEPT ![t] = [Idle EXCEPT !.stage = "chosen", !.conv = x,
                                     !.member = m, !.reason = reason, !.by = by]]
    /\ UNCHANGED <<rows, owner, gone, lock>>

ClaimTakesOver(t, x, m) ==
    /\ m \in ActiveMembers
    /\ txn[t].stage = "idle"
    /\ lock[x] = None
    /\ Len(rows) + Cardinality(Busy) < MaxRows
    /\ lock' = [lock EXCEPT ![x] = t]
    /\ txn' = [txn EXCEPT ![t] = [Idle EXCEPT !.stage = "chosen", !.conv = x,
                                     !.member = m, !.reason = "claim"]]
    /\ UNCHANGED <<rows, owner, gone>>

CommitForgettingOwner(t) ==
    LET x == txn[t].conv IN
    /\ txn[t].stage = "closing"
    /\ rows' = Append(Closed(rows, txn[t].closes),
                      [conv |-> x, member |-> txn[t].member,
                       reason |-> txn[t].reason, by |-> txn[t].by, open |-> TRUE])
    /\ lock' = [lock EXCEPT ![x] = None]
    /\ txn' = [txn EXCEPT ![t] = Idle]
    /\ UNCHANGED <<gone, owner>>

RollbackKeepingCloses(t) ==
    /\ txn[t].stage # "idle"
    /\ rows' = IF txn[t].stage = "releasing" THEN Closed(rows, txn[t].closes)
                                            ELSE rows
    /\ lock' = [x \in Convs |-> IF lock[x] = t THEN None ELSE lock[x]]
    /\ txn' = [txn EXCEPT ![t] = Idle]
    /\ UNCHANGED <<owner, gone>>

\* lockConversation, and the decision taken on its snapshot.
Choose(t, x, m, reason, by) ==
    /\ txn[t].stage = "idle"
    /\ lock[x] = None
    /\ Len(rows) + Cardinality(Busy) < MaxRows
    /\ lock' = [lock EXCEPT ![x] = t]
    /\ txn' = [txn EXCEPT ![t] = [Idle EXCEPT !.stage = "chosen", !.conv = x,
                                     !.member = m, !.reason = reason, !.by = by]]
    /\ UNCHANGED <<rows, owner, gone>>

\* ensureAssigned: a customer's message in, or a conversation just released.
EnsureAssigned(t, x) ==
    /\ AutoAssign
    /\ OpenRows(x) = {}
    /\ Eligible # {}
    /\ Choose(t, x, Candidate(x), "auto", None)

\* claimForUser, claimForMember: a free conversation, by an active member.
Claim(t, x, m) ==
    /\ m \in ActiveMembers
    /\ OpenRows(x) = {}
    /\ Choose(t, x, m, "claim", None)

\* assignToAgent: taking a conversation from its owner is up to supervisors.
AssignToAgent(t, x, m, requester) ==
    /\ m \in ActiveMembers
    /\ IF Holder(x) \in {None, m}
       THEN Choose(t, x, m, "manual", None)
       ELSE /\ requester \in Supervisors \cap ActiveMembers
            /\ Choose(t, x, m, "transfer", requester)

\* The rows other transactions have updated and not committed.
LockedRows(t) ==
    UNION {txn[u].closes : u \in {v \in Txns \ {t} :
                                    txn[v].stage \in {"closing", "releasing"}}}

\* closeActiveAssignment: an UPDATE sees the rows as they are now, and waits
\* for the ones another transaction has locked.
CloseActive(t) ==
    /\ txn[t].stage = "chosen"
    /\ OpenRows(txn[t].conv) \cap LockedRows(t) = {}
    /\ txn' = [txn EXCEPT ![t].stage = "closing",
                          ![t].closes = OpenRows(txn[t].conv)]
    /\ UNCHANGED <<rows, owner, gone, lock>>

\* The rest of `assign`: the new row, the owner column, the commit.
CommitAssign(t) ==
    LET x == txn[t].conv IN
    /\ txn[t].stage = "closing"
    /\ rows' = Append(Closed(rows, txn[t].closes),
                      [conv |-> x, member |-> txn[t].member,
                       reason |-> txn[t].reason, by |-> txn[t].by, open |-> TRUE])
    /\ owner' = [owner EXCEPT ![x] = txn[t].member]
    /\ lock' = [lock EXCEPT ![x] = None]
    /\ txn' = [txn EXCEPT ![t] = Idle]
    /\ UNCHANGED gone
-----------------------------------------------------------------------------
(* CompanyMemberService.remove with releaseConversations in its transaction *)

\* releaseWithin reads the active rows and the conversations the member owns.
ReadOwned(t, m) ==
    /\ txn[t].stage = "idle"
    /\ m \in Removable \ gone
    /\ txn' = [txn EXCEPT ![t] =
                  [Idle EXCEPT !.stage = "read", !.member = m,
                               !.convs = {rows[i].conv : i \in OpenOf(m)}
                                         \cup {x \in Convs : owner[x] = m},
                               !.closes = OpenOf(m)]]
    /\ UNCHANGED <<rows, owner, gone, lock>>

\* It closes the rows it read by id, whatever became of them since.
CloseOwned(t) ==
    /\ txn[t].stage = "read"
    /\ txn[t].closes \cap LockedRows(t) = {}
    /\ txn' = [txn EXCEPT ![t].stage = "releasing"]
    /\ UNCHANGED <<rows, owner, gone, lock>>

\* Any order of the conversations of a multi-row insert.
Orders(S) == {f \in [1..Cardinality(S) -> S] :
                 \A i, j \in 1..Cardinality(S) : f[i] = f[j] => i = j}

\* The owner column is cleared, the release rows and the member's soft delete
\* are committed; the UPDATE waits for the conversations others have locked.
CommitRemove(t) ==
    LET m == txn[t].member IN
    /\ txn[t].stage = "releasing"
    /\ \A x \in txn[t].convs : lock[x] = None
    /\ \E order \in Orders(txn[t].convs) :
          rows' = Closed(rows, txn[t].closes)
                  \o [i \in DOMAIN order |->
                        [conv |-> order[i], member |-> m, reason |-> "release",
                         by |-> None, open |-> FALSE]]
    /\ owner' = [x \in Convs |-> IF x \in txn[t].convs THEN None ELSE owner[x]]
    /\ gone' = gone \cup {m}
    /\ txn' = [txn EXCEPT ![t] = Idle]
    /\ UNCHANGED lock
-----------------------------------------------------------------------------
\* A deadlock victim, a lock wait timeout or a lost connection: the database
\* rolls the transaction back, the handler logs it or the request fails.
Rollback(t) ==
    /\ txn[t].stage # "idle"
    /\ lock' = [x \in Convs |-> IF lock[x] = t THEN None ELSE lock[x]]
    /\ txn' = [txn EXCEPT ![t] = Idle]
    /\ UNCHANGED <<rows, owner, gone>>

Next ==
    \E t \in Txns :
        \/ \E x \in Convs : EnsureAssigned(t, x)
        \/ \E x \in Convs, m \in Members : Claim(t, x, m)
        \/ \E x \in Convs, m, r \in Members : AssignToAgent(t, x, m, r)
        \/ CloseActive(t)
        \/ CommitAssign(t)
        \/ \E m \in Members : ReadOwned(t, m)
        \/ CloseOwned(t)
        \/ CommitRemove(t)
        \/ Rollback(t)

Spec == Init /\ [][Next]_vars
-----------------------------------------------------------------------------
(* Properties. *)

\* Class doc: "Una sola asignación activa por conversación", with assign,
\* claim, auto-assign and removals racing on the conversation.
OneActive == \A x \in Convs : \A i, j \in OpenRows(x) : i = j

\* Class doc: a manual assignment or a claim freezes the owner.  A conversation
\* goes from one owner straight to another only by a supervisor's transfer: no
\* claim or automatic assignment that decided on older data overwrites it.
OwnershipFrozen ==
    [][\A x \in Convs :
          Holder(x) # None /\ Holder(x)' # None /\ Holder(x)' # Holder(x) =>
              LET last == rows'[Len(rows')] IN
              last.reason = "transfer" /\ last.by \in Supervisors]_vars

\* The owners of the conversations, and the history without what closes a row.
Owners == [x \in Convs |-> Holder(x)]
Log == [i \in 1..Len(rows) |-> [conv |-> rows[i].conv, member |-> rows[i].member,
                                reason |-> rows[i].reason, by |-> rows[i].by]]

Ownership == INSTANCE Ownership WITH holder <- Owners, left <- gone, history <- Log

\* The engine implements what its class doc promises: a free conversation is
\* taken, a supervisor transfers it, its owner leaves, and each of these is
\* added to the history; nothing else changes an owner, whatever interleaves.
ImplementsOwnership == Ownership!Spec

OwnerMatches == \A x \in Convs : owner[x] = Holder(x)

\* The owner column follows the active row through every assignment, claim,
\* transfer and rollback, removals that are under way or rolled back included,
\* until a member has been removed.
OwnerFollowsActive == gone = {} => OwnerMatches

\* The cap is read from snapshots: transactions on other conversations may
\* push a member past it, but by no more than one conversation each.
OvershootBounded ==
    MaxOpen > 0 =>
        \A m \in Members :
            Cardinality({i \in OpenOf(m) : rows[i].reason = "auto"})
                < MaxOpen + Cardinality(Txns)

\* Sticky assignment (releaseWithin, listUnassigned): a conversation is lost
\* only to a transfer or to its owner's removal, so the member of the newest
\* row of a conversation without owner has left the company.
OnlyRemovalReleases ==
    \A x \in Convs : RowsOf(x) # {} /\ OpenRows(x) = {} => Previous(x) \in gone
-----------------------------------------------------------------------------
(* Statements of the repository the code does not keep.  OwnerMatchesActive *)
(* has a configuration to run by hand; so would the other, with a removal.  *)

\* schema.dbml: assigned_member_id is the "current assignee (denormalized from
\* conversation_assignments)", after a removal too.
OwnerMatchesActive == OwnerMatches

\* conversation-assignment.release.int.spec.ts:226: "never assigns work to a
\* soft-deleted member"; GLOSSARY.md:87: the open conversations of a removed
\* member go back to the queue.
RemovedOwnNothing == \A x \in Convs : Holder(x) \notin gone
=============================================================================
