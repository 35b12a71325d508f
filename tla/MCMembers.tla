----------------------------- MODULE MCMembers -----------------------------
(* Instances of TeamAdmins and Presence for TLC: the role of a member, and *)
(* whether one is there.                                                   *)
EXTENDS TeamAdmins, Presence, TLC

CONSTANTS ana, luis, eva, q1, q2, s1, s2

Update(role, status) == [kind |-> "update", role |-> role, status |-> status]
Remove == [kind |-> "remove", role |-> None, status |-> None]
Provision(role) == [kind |-> "provision", role |-> role, status |-> None]

Anything == {Update("agent", None), Update("admin", None), Update(None, "inactive"),
             Remove, Provision("admin")}

In(role) == [standing |-> "in", role |-> role, status |-> "active"]
Never == [standing |-> "never", role |-> "agent", status |-> "inactive"]

AdminSupervisorNew == ana :> In("admin") @@ luis :> In("supervisor") @@ eva :> Never

\* Requests and sockets are interchangeable names.  As only one component ever
\* moves, the exchange may be of names of both.
Exchanges == {f @@ g : f \in Permutations({q1, q2}), g \in Permutations({s1, s2})}
Symmetry == {f \in Exchanges : f[q1] = q1 <=> f[s1] = s1}

\* The two share no variable, so that no interleaving of theirs shows
\* anything: one of them moves, while the other is where it begins.
MembersInit == Init /\ PresenceInit
MembersNext ==
    \/ PresenceInit /\ Next /\ UNCHANGED presenceVars
    \/ Init /\ PresenceNext /\ UNCHANGED vars
MembersSpec == MembersInit /\ [][MembersNext]_<<vars, presenceVars>>
=============================================================================
