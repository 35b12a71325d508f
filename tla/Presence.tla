-------------------------------- MODULE Presence --------------------------------
(***************************************************************************)
(* Whether a member is online: the sockets of the member in the gateway    *)
(* (ConversationGateway) and the intervals the gateway and the member open *)
(* and close in `presence_intervals` (PresenceService), each handler cut   *)
(* at its awaits.  Nothing orders the handlers of one member and nothing   *)
(* locks the row of the open interval.                                     *)
(*                                                                         *)
(* One member of one company.  Whether a handshake is accepted is left     *)
(* open here; module Sessions decides it.  The dates of the intervals and  *)
(* the published changes are left out.                                     *)
(***************************************************************************)
EXTENDS Naturals, FiniteSets

CONSTANTS
    Sockets,      \* sockets of the member's browser tabs
    Puts,         \* PUT /presence requests that may run at a time
    MaxHandlers,  \* bound: connected, and disconnected, handlers at a time
    MaxFaults     \* bound: statements and Redis commands that fail, and
                  \* restarts of the process

ASSUME PresenceAssumption ==
    IsFiniteSet(Puts) /\ {MaxHandlers, MaxFaults} \subseteq Nat

VARIABLES
    socket,    \* what each socket is to the gateway
    finding,   \* connected handlers that look for the open interval
    starting,  \* those that found none and insert one
    closing,   \* disconnected handlers that close the open ones
    put,       \* setState of each request
    interval,  \* open rows of presence_intervals
    pref,      \* presence:pref of the member, in Redis
    muddle,    \* observer: what has gone wrong since all was in order
    faults

presenceVars == <<socket, finding, starting, closing, put, interval, pref, muddle,
                  faults>>

States == {"available", "away"}
Causes == {"crossed", "doubled", "orphaned", "remote", "failed"}

\* `found` holds the identifier of the interval that the request will close.
Put == [at: {"idle", "find", "close", "start"}, state: States, found: SUBSET Nat]
NoPut == [at |-> "idle", state |-> "available", found |-> {}]

\* A new row: its identifier is held by no row and no request.
Fresh(state) ==
    [id |-> CHOOSE n \in 1..(Cardinality(interval) + Cardinality(Puts) + 1) :
                /\ \A i \in interval : i.id # n
                /\ \A p \in Puts : n \notin put[p].found,
     state |-> state]

PresenceInit ==
    /\ socket = [s \in Sockets |-> "off"]
    /\ finding = 0 /\ starting = 0 /\ closing = 0
    /\ put = [p \in Puts |-> NoPut]
    /\ interval = {}
    /\ pref = "available"
    /\ muddle = {}
    /\ faults = 0

Putting == \E p \in Puts : put[p].at # "idle"
Opening == finding + starting > 0 \/ Putting
Online == \E s \in Sockets : socket[s] = "in"

\* What a handler that opens intervals, or closes them, may run into.
OpenerBegins ==
    (IF closing > 0 THEN {"crossed"} ELSE {}) \cup (IF Opening THEN {"doubled"} ELSE {})
CloserBegins == IF Opening THEN {"crossed"} ELSE {}

Fault == faults < MaxFaults /\ faults' = faults + 1

-----------------------------------------------------------------------------
(* The gateway.                                                             *)

Connect(s) ==
    /\ socket[s] = "off"
    /\ finding + starting < MaxHandlers
    /\ socket' = [socket EXCEPT ![s] = "handshake"]
    /\ UNCHANGED <<finding, starting, closing, put, interval, pref, muddle, faults>>

RefuseSocket(s) ==
    /\ socket[s] \in {"handshake", "gone"}
    /\ socket' = [socket EXCEPT ![s] = "off"]
    /\ UNCHANGED <<finding, starting, closing, put, interval, pref, muddle, faults>>

\* handleConnection goes on although the socket closed meanwhile, and its
\* handleDisconnect knew no user.
Accept(s) ==
    /\ socket[s] \in {"handshake", "gone"}
    /\ finding + starting < MaxHandlers
    /\ socket' = [socket EXCEPT ![s] = IF @ = "gone" THEN "off" ELSE "in"]
    /\ finding' = finding + 1
    /\ muddle' = muddle \cup OpenerBegins
                        \cup (IF socket[s] = "gone" THEN {"orphaned"} ELSE {})
    /\ UNCHANGED <<starting, closing, put, interval, pref, faults>>

DropEachSocket(s) ==
    /\ socket[s] = "in"
    /\ closing < MaxHandlers
    /\ socket' = [socket EXCEPT ![s] = "off"]
    /\ closing' = closing + 1
    /\ muddle' = muddle \cup CloserBegins
    /\ UNCHANGED <<finding, starting, put, interval, pref, faults>>

\* handleDisconnect: only the last socket of the user counts.
DropSocket(s) ==
    /\ socket[s] = "in"
    /\ closing < MaxHandlers
    /\ socket' = [socket EXCEPT ![s] = "off"]
    /\ IF \E t \in Sockets \ {s} : socket[t] = "in"
       THEN UNCHANGED <<closing, muddle>>
       ELSE closing' = closing + 1 /\ muddle' = muddle \cup CloserBegins
    /\ UNCHANGED <<finding, starting, put, interval, pref, faults>>

DropInHandshake(s) ==
    /\ socket[s] = "handshake"
    /\ socket' = [socket EXCEPT ![s] = "gone"]
    /\ UNCHANGED <<finding, starting, closing, put, interval, pref, muddle, faults>>

\* disconnectUser drops the sockets one after the other, in one go.
DisconnectUser ==
    /\ Online
    /\ closing < MaxHandlers
    /\ socket' = [s \in Sockets |-> IF socket[s] = "in" THEN "off" ELSE socket[s]]
    /\ closing' = closing + 1
    /\ muddle' = muddle \cup CloserBegins
    /\ UNCHANGED <<finding, starting, put, interval, pref, faults>>

-----------------------------------------------------------------------------
(* connected and disconnected.                                              *)

FindOpenAnyway ==
    /\ finding > 0
    /\ finding' = finding - 1
    /\ starting' = starting + 1
    /\ UNCHANGED <<socket, closing, put, interval, pref, muddle, faults>>

FindOpen ==
    /\ finding > 0
    /\ finding' = finding - 1
    /\ starting' = IF interval = {} THEN starting + 1 ELSE starting
    /\ UNCHANGED <<socket, closing, put, interval, pref, muddle, faults>>

\* A preference that cannot be read is `available`.
Start ==
    /\ starting > 0
    /\ starting' = starting - 1
    /\ \/ /\ interval' = interval \cup {Fresh(pref)}
          /\ UNCHANGED <<muddle, faults>>
       \/ /\ Fault
          /\ interval' = interval \cup {Fresh("available")}
          /\ muddle' = muddle \cup {"failed"}
    /\ UNCHANGED <<socket, finding, closing, put, pref>>

\* All is in order again if this was the last thing to do and nobody is there.
CloseOpen ==
    /\ closing > 0
    /\ closing' = closing - 1
    /\ interval' = {}
    /\ muddle' = IF closing > 1 \/ Opening \/ Online THEN muddle ELSE {}
    /\ UNCHANGED <<socket, finding, starting, put, pref, faults>>

-----------------------------------------------------------------------------
(* setState, statement by statement.                                        *)

SetPreference(p, state) ==
    /\ put[p].at = "idle"
    /\ put' = [put EXCEPT ![p] = [at |-> "find", state |-> state, found |-> {}]]
    /\ \/ pref' = state /\ UNCHANGED faults
          /\ muddle' = muddle \cup OpenerBegins \cup (IF Online THEN {} ELSE {"remote"})
       \/ Fault /\ UNCHANGED pref
          /\ muddle' = muddle \cup OpenerBegins \cup {"failed"}
    /\ UNCHANGED <<socket, finding, starting, closing, interval>>

FindCurrent(p) ==
    /\ put[p].at = "find"
    /\ \/ /\ interval = {}
          /\ put' = [put EXCEPT ![p].at = "start"]
       \/ \E i \in interval :
            put' = [put EXCEPT ![p] =
                IF i.state = put[p].state THEN NoPut
                ELSE [@ EXCEPT !.at = "close", !.found = {i.id}]]
    /\ UNCHANGED <<socket, finding, starting, closing, interval, pref, muddle, faults>>

CloseCurrent(p) ==
    /\ put[p].at = "close"
    /\ interval' = {i \in interval : i.id \notin put[p].found}
    /\ put' = [put EXCEPT ![p].at = "start"]
    /\ UNCHANGED <<socket, finding, starting, closing, pref, muddle, faults>>

StartNew(p) ==
    /\ put[p].at = "start"
    /\ interval' = interval \cup {Fresh(put[p].state)}
    /\ put' = [put EXCEPT ![p] = NoPut]
    /\ UNCHANGED <<socket, finding, starting, closing, pref, muddle, faults>>

-----------------------------------------------------------------------------
\* A statement fails: its handler ends (trackPresence logs it).
FailStatement ==
    /\ Fault
    /\ muddle' = muddle \cup {"failed"}
    /\ \/ finding > 0 /\ finding' = finding - 1 /\ UNCHANGED <<starting, closing, put>>
       \/ starting > 0 /\ starting' = starting - 1 /\ UNCHANGED <<finding, closing, put>>
       \/ closing > 0 /\ closing' = closing - 1 /\ UNCHANGED <<finding, starting, put>>
       \/ \E p \in Puts : /\ put[p].at # "idle"
                          /\ put' = [put EXCEPT ![p] = NoPut]
                          /\ UNCHANGED <<finding, starting, closing>>
    /\ UNCHANGED <<socket, interval, pref>>

\* The process dies and comes up: onApplicationBootstrap closes what is open,
\* or logs that it could not.
Restart ==
    /\ Fault
    /\ socket' = [s \in Sockets |-> "off"]
    /\ finding' = 0 /\ starting' = 0 /\ closing' = 0
    /\ put' = [p \in Puts |-> NoPut]
    /\ \/ interval' = {} /\ muddle' = {}
       \/ UNCHANGED interval /\ muddle' = muddle \cup {"failed"}
    /\ UNCHANGED pref

PresenceNext ==
    \/ \E s \in Sockets : \/ Connect(s) \/ RefuseSocket(s) \/ Accept(s)
                          \/ DropSocket(s) \/ DropInHandshake(s)
    \/ DisconnectUser
    \/ FindOpen \/ Start \/ CloseOpen
    \/ \E p \in Puts : \/ \E state \in States : SetPreference(p, state)
                       \/ FindCurrent(p) \/ CloseCurrent(p) \/ StartNew(p)
    \/ FailStatement
    \/ Restart

PresenceSpec == PresenceInit /\ [][PresenceNext]_presenceVars

-----------------------------------------------------------------------------
Quiet == closing = 0 /\ ~Opening

(* "A member is online while the gateway holds at least one of their        *)
(* sockets", in the state they chose (presence.service.ts): so it is when   *)
(* nothing runs, if since the last orderly departure or restart no handlers *)
(* crossed, no socket closed in its handshake, no state was set without a   *)
(* socket and no statement failed.                                          *)
OnlineMeansASocket ==
    Quiet /\ muddle = {} =>
        /\ Online <=> interval # {}
        /\ \A i \in interval : i.state = pref

(* A member has at most one open interval, at every moment and whatever     *)
(* crosses, fails or restarts, unless two handlers that open intervals      *)
(* overlap; the next orderly departure closes both (findOpen takes the open *)
(* one to be unique).                                                       *)
OneOpenInterval == "doubled" \notin muddle => Cardinality(interval) <= 1

(* The rows and handlers are well formed.                                   *)
PresenceTypeOK ==
    /\ socket \in [Sockets -> {"off", "handshake", "gone", "in"}]
    /\ finding \in Nat /\ starting \in Nat
    /\ finding + starting <= MaxHandlers /\ closing \in 0..MaxHandlers
    /\ put \in [Puts -> Put]
    /\ interval \subseteq [id: Nat \ {0}, state: States]
    /\ pref \in States /\ muddle \subseteq Causes
    /\ faults \in 0..MaxFaults
================================================================================
