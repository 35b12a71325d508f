---------------------------- MODULE ThreadAccess ----------------------------
(***************************************************************************)
(* Who reads a conversation's thread while the assignment engine moves it: *)
(* the rooms of the gateway composed with Assignment.  An agent joins the  *)
(* room of a conversation that is free or hers, on a read she does not     *)
(* hold on to; after its commit an assignment makes the other agents leave *)
(* the room, in a notice of its own that may come late, fail, or name a    *)
(* member who has lost the conversation since.                             *)
(*                                                                         *)
(* Admins and supervisors join any thread and are never made to leave.     *)
(* Fetching the sockets of a room and making them leave is one step, with  *)
(* the in-memory adapter of socket.io.                                     *)
(***************************************************************************)
EXTENDS Assignment

CONSTANTS Watched,    \* bound: the conversations whose threads are opened
          Openers     \* bound: the members who open them, one socket each

ASSUME ThreadsAssumption == Watched \subseteq Convs /\ Openers \subseteq Members

VARIABLES room,       \* sockets in the room of a conversation
          joining,    \* joins that have passed the access check
          notice,     \* what the handler of a transaction still has to notify
          excused     \* who may have been missed: an overtaken join, a failed notice

threadVars == <<room, joining, notice, excused>>
accessVars == <<vars, threadVars>>

Notice == [at : {"none", "reread", "lookup", "revoke"}, conv : Watched \cup {None},
           member : Members \cup {None}]

NoNotice == [at |-> "none", conv |-> None, member |-> None]

ThreadTypeOK ==
    /\ room \in [Watched -> SUBSET Openers]
    /\ joining \subseteq Openers \X Watched
    /\ notice \in [Txns -> Notice]
    /\ excused \subseteq Openers \X Watched

ThreadInit ==
    /\ Init
    /\ room = [x \in Watched |-> {}]
    /\ joining = {}
    /\ notice = [t \in Txns |-> NoNotice]
    /\ excused = {}

Agent(m) == m \notin Supervisors

\* An agent in the thread of a conversation that is somebody else's.
Stranger(m, x) ==
    /\ m \in room[x] \ gone
    /\ Agent(m)
    /\ Holder(x) \notin {None, m}

-----------------------------------------------------------------------------
(* handleJoin: the access check, then the room.                             *)

\* canJoinConversation: an active member, and for an agent a free conversation
\* or one of her own.
CanJoin(m, x) ==
    /\ <<m, x>> \notin joining
    /\ m \in ActiveMembers
    /\ Agent(m) => Holder(x) \in {None, m}
    /\ joining' = joining \cup {<<m, x>>}
    /\ UNCHANGED <<vars, room, notice, excused>>

Enter(m, x) ==
    /\ <<m, x>> \in joining
    /\ joining' = joining \ {<<m, x>>}
    /\ room' = [room EXCEPT ![x] = @ \cup {m}]
    /\ excused' = IF Holder(x) \in {None, m} THEN excused
                                             ELSE excused \cup {<<m, x>>}
    /\ UNCHANGED <<vars, notice>>

\* The agent goes elsewhere, or the socket is lost.
LeaveThread(m, x) ==
    /\ m \in room[x]
    /\ room' = [room EXCEPT ![x] = @ \ {m}]
    /\ excused' = excused \ {<<m, x>>}
    /\ UNCHANGED <<vars, joining, notice>>
-----------------------------------------------------------------------------
(* The engine, whose handlers go on to notify what they committed.          *)

\* What a handler does before it has something to notify, or with nothing.
Engine(t) ==
    /\ notice[t] = NoNotice
    /\ \/ \E x \in Convs : EnsureAssigned(t, x)
       \/ \E x \in Convs, m \in Members : Claim(t, x, m)
       \/ \E x \in Convs, m, r \in Members : AssignToAgent(t, x, m, r)
       \/ CloseActive(t)
       \/ \E m \in Members : ReadOwned(t, m)
       \/ CloseOwned(t)
       \/ CommitRemove(t)
       \/ Rollback(t)
    /\ UNCHANGED threadVars

\* Mutated form, for the mutation runs: a claim that tells nobody.
AssignSilently(t) ==
    /\ CommitAssign(t)
    /\ notice' = IF txn[t].conv \in Watched /\ txn[t].reason # "claim"
                 THEN [notice EXCEPT ![t] = [at |-> "lookup", conv |-> txn[t].conv,
                                             member |-> txn[t].member]]
                 ELSE notice
    /\ UNCHANGED <<room, joining, excused>>

\* ConversationsService: an automatic assignment and the claim of a user read
\* the active assignment again, the others know whom to notify.
AssignAndNotify(t) ==
    LET x == txn[t].conv
        known == [at |-> "lookup", conv |-> x, member |-> txn[t].member]
        reread == [at |-> "reread", conv |-> x, member |-> None]
    IN
    /\ CommitAssign(t)
    /\ IF x \in Watched
       THEN \/ txn[t].reason # "auto" /\ notice' = [notice EXCEPT ![t] = known]
            \/ txn[t].reason \in {"auto", "claim"}
               /\ notice' = [notice EXCEPT ![t] = reread]
       ELSE notice' = notice
    /\ UNCHANGED <<room, joining, excused>>

\* getActiveAssignment, after the commit.
RereadActive(t) ==
    LET x == notice[t].conv IN
    /\ notice[t].at = "reread"
    /\ notice' = [notice EXCEPT ![t] =
            IF Holder(x) = None THEN NoNotice
            ELSE [at |-> "lookup", conv |-> x, member |-> Holder(x)]]
    /\ UNCHANGED <<vars, room, joining, excused>>

\* notifyAssigned: nothing is done for a member who was removed meanwhile.
FindMember(t) ==
    /\ notice[t].at = "lookup"
    /\ notice' = [notice EXCEPT ![t] =
            IF @.member \in gone THEN NoNotice ELSE [@ EXCEPT !.at = "revoke"]]
    /\ UNCHANGED <<vars, room, joining, excused>>

\* revokeConversationAccess: every agent but the member it names leaves.
RevokeAccess(t) ==
    LET x == notice[t].conv
        out == {m \in room[x] : Agent(m) /\ m # notice[t].member}
    IN
    /\ notice[t].at = "revoke"
    /\ room' = [room EXCEPT ![x] = @ \ out]
    /\ excused' = excused \ {<<m, x>> : m \in out}
    /\ notice' = [notice EXCEPT ![t] = NoNotice]
    /\ UNCHANGED <<vars, joining>>

\* A read of the notice fails, or the process goes: it is logged at most.
NoticeFails(t) ==
    /\ notice[t].at # "none"
    /\ excused' = excused \cup (room[notice[t].conv] \X {notice[t].conv})
    /\ notice' = [notice EXCEPT ![t] = NoNotice]
    /\ UNCHANGED <<vars, room, joining>>

ThreadNext ==
    \/ \E t \in Txns :
        \/ Engine(t) \/ AssignAndNotify(t)
        \/ RereadActive(t) \/ FindMember(t) \/ RevokeAccess(t) \/ NoticeFails(t)
    \/ \E m \in Openers, x \in Watched :
        CanJoin(m, x) \/ Enter(m, x) \/ LeaveThread(m, x)

ThreadSpec == ThreadInit /\ [][ThreadNext]_accessVars
-----------------------------------------------------------------------------
(* Properties. *)

\* The notice that takes the other agents out of a thread is on its way.
Announced(x) ==
    \E t \in Txns : /\ notice[t].conv = x
                    /\ notice[t].at = "reread" \/ notice[t].member = Holder(x)

\* Gateway doc: "agents other than the new owner lose the thread".  An agent
\* reads the thread of somebody else's conversation only while the notice of
\* the assignment that took it is on its way, after a join that an assignment
\* overtook or a notice that failed, or when the owner has been removed:
\* notices that come late, or in another order than their commits, miss nobody.
StrangersLeave ==
    \A x \in Watched, m \in Openers :
        Stranger(m, x) => \/ Announced(x)
                          \/ <<m, x>> \in excused
                          \/ Holder(x) \in gone

(* Statement of the repository the code does not keep, in a configuration   *)
(* to run by hand.                                                          *)

\* conversation.gateway.ts:166: it is "agents other than the new owner" who
\* lose the thread, never the owner.
OwnerKeepsTheThread ==
    [][\A x \in Watched, m \in Openers, t \in Txns :
          RevokeAccess(t) /\ notice[t].conv = x /\ Holder(x) = m /\ m \in room[x] =>
              m \in room'[x]]_accessVars
=============================================================================
