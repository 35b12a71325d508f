------------------------------ MODULE MCRooms ------------------------------
(* Instances of ThreadAccess and Sessions for TLC: who may be in a room of  *)
(* the gateway, and whose sockets it drops.                                 *)
EXTENDS ThreadAccess, Sessions, TLC

CONSTANTS x1, x2, x3, t1, t2, b1, b2

\* Conversations with nobody in their threads, transactions and browsers are
\* interchangeable names.  As only one component ever moves, an exchange may be
\* of names of both.
Exchanges == {f @@ g @@ h : f \in Permutations({x2, x3}), g \in Permutations({t1, t2}),
                            h \in Permutations({b1, b2})}
Symmetry == {f \in Exchanges : f[x2] = x2 <=> f[b1] = b1}

\* The two share no variable, so that no interleaving of theirs shows
\* anything: one of them moves, while the other is where it begins.
RoomsInit == ThreadInit /\ SessionsInit
RoomsNext ==
    \/ SessionsInit /\ ThreadNext /\ UNCHANGED sessionsVars
    \/ ThreadInit /\ SessionsNext /\ UNCHANGED accessVars
RoomsSpec == RoomsInit /\ [][RoomsNext]_<<accessVars, sessionsVars>>
=============================================================================
