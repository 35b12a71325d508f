------------------------------ MODULE Ownership ------------------------------
(***************************************************************************)
(* What the assignment engine promises about the owner of a conversation   *)
(* (the class comment of conversation-assignment.service.ts and            *)
(* docs/database): one owner at most; who claims or is given a free        *)
(* conversation owns it; from one owner to the next it goes by a           *)
(* supervisor's transfer alone; an owner loses it only by leaving the      *)
(* company; and every act is added to a history that is never rewritten.   *)
(* Assignment is shown to implement this specification.                    *)
(***************************************************************************)
EXTENDS Naturals, Sequences, FiniteSets

CONSTANTS Convs,          \* conversations of one company
          Members,        \* its members
          Supervisors,    \* members who may transfer
          None            \* nobody

VARIABLES holder,     \* who owns a conversation, None if nobody
          left,       \* members who have left the company
          history     \* what was done, conversation_assignments

vars == <<holder, left, history>>

Act(x, m, reason, by) == [conv |-> x, member |-> m, reason |-> reason, by |-> by]

Init ==
    /\ holder  = [x \in Convs |-> None]
    /\ left    = {}
    /\ history = <<>>

\* A free conversation is claimed, or is given to a member.
Take(x, m) ==
    /\ holder[x] = None
    /\ \E reason \in {"auto", "claim", "manual"} :
           history' = Append(history, Act(x, m, reason, None))
    /\ holder' = [holder EXCEPT ![x] = m]
    /\ UNCHANGED left

\* The owner is given its own conversation.
Confirm(x, m) ==
    /\ holder[x] = m
    /\ history' = Append(history, Act(x, m, "manual", None))
    /\ UNCHANGED <<holder, left>>

\* A supervisor gives a conversation to another member.
Transfer(x, m) ==
    /\ holder[x] # m
    /\ \E supervisor \in Supervisors :
           history' = Append(history, Act(x, m, "transfer", supervisor))
    /\ holder' = [holder EXCEPT ![x] = m]
    /\ UNCHANGED left

\* The conversations in any order.
Orders(S) == {f \in [1..Cardinality(S) -> S] :
                 \A i, j \in 1..Cardinality(S) : f[i] = f[j] => i = j}

\* A member leaves and conversations of its own become free, each with a row of
\* the history.  Rows are written for others too: those it has lost meanwhile.
Leave(m) ==
    /\ left' = left \cup {m}
    /\ \E released \in SUBSET Convs :
        /\ \E order \in Orders(released) :
               history' = history \o [i \in 1..Cardinality(released) |->
                                         Act(order[i], m, "release", None)]
        /\ \E freed \in SUBSET {x \in released : holder[x] = m} :
               holder' = [x \in Convs |-> IF x \in freed THEN None ELSE holder[x]]

Next ==
    \/ \E x \in Convs, m \in Members : Take(x, m) \/ Confirm(x, m) \/ Transfer(x, m)
    \/ \E m \in Members : Leave(m)

\* [][Next]_vars, with the stutter first for a checker that tries the disjuncts
\* in order: most steps of a specification that implements this one are stutters.
Spec == Init /\ [][UNCHANGED vars \/ Next]_vars
=============================================================================
