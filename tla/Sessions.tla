-------------------------------- MODULE Sessions --------------------------------
(***************************************************************************)
(* The tokens of one user, which carry the memberships of their moment,    *)
(* and what makes a token stale when the memberships change: a marker in   *)
(* the shared cache, this process's own view of it, and the sockets that   *)
(* are dropped (SessionRevocationService, AuthService, the handshake of    *)
(* ConversationGateway).                                                   *)
(*                                                                         *)
(* One API process; the lookups of its HTTP requests do to its view what   *)
(* those of the handshakes do.  The cache is a memory and a Redis layer    *)
(* (external), and Redis answers in the order it was asked.  Markers and   *)
(* tokens live equally long and do not expire here.                        *)
(***************************************************************************)
EXTENDS Naturals, FiniteSets

CONSTANTS
    Browsers,         \* sockets of the user
    MaxClaimChanges,  \* bound: changes of the user's memberships
    MaxClock,         \* bound: readings of Date.now() that differ, from 1
    MaxTokens,        \* bound: tokens issued
    MaxFailures       \* bound: restarts of the process and cache commands that fail

ASSUME SessionsAssumption ==
    {MaxClaimChanges, MaxClock, MaxTokens, MaxFailures} \subseteq Nat \ {0}

VARIABLES
    claims,  \* memberships in the database, as the number of their changes
    revoke,  \* the revocation each change calls for
    marker,  \* auth:stale:<user> in the cache, 0 if there is none
    local,   \* the entry of this process for the user
    issued,  \* tokens in the hands of the user's browsers
    reads,   \* claims that an issueToken under way has read
    connection,  \* what each socket is to the gateway
    clock,
    failures

sessionsVars == <<claims, revoke, marker, local, issued, reads, connection, clock, failures>>

ClaimChanges == 1..MaxClaimChanges
Times == 0..MaxClock  \* 0: no marker
Tokens == [claims: 0..MaxClaimChanges, ts: 1..MaxClock]

\* Where a view of the marker comes from: an answer that was on its way while
\* a revocation marked its user is `raced`, a failed lookup an `outage`.
Sources == {"revoke", "cache", "raced", "outage"}

FirstToken == [claims |-> 0, ts |-> 1]
NoConnection == [at |-> "off", token |-> FirstToken, heard |-> 0, from |-> "cache"]

SessionsInit ==
    /\ claims = 0
    /\ revoke = [k \in ClaimChanges |-> [at |-> "none", staleAt |-> 0]]
    /\ marker = 0
    /\ local = [staleAt |-> 0, fresh |-> FALSE, from |-> "cache"]
    /\ issued = {FirstToken}
    /\ reads = {}
    /\ connection = [s \in Browsers |-> NoConnection]
    /\ clock = 1
    /\ failures = 0

Failure == failures < MaxFailures /\ failures' = failures + 1

-----------------------------------------------------------------------------
(* A change of memberships and its revocation.                              *)

\* The change commits; the revocation is called after that.
ChangeClaims ==
    /\ claims < MaxClaimChanges
    /\ claims' = claims + 1
    /\ revoke' = [revoke EXCEPT ![claims + 1].at = "due"]
    /\ UNCHANGED <<marker, local, issued, reads, connection, clock, failures>>

MarkNothing(k) ==
    /\ revoke[k].at = "due"
    /\ revoke' = [revoke EXCEPT ![k] = [at |-> "marked", staleAt |-> clock]]
    /\ UNCHANGED <<claims, marker, local, issued, reads, connection, clock, failures>>

MarkLocally(k) ==
    /\ revoke[k].at = "due"
    /\ revoke' = [revoke EXCEPT ![k] = [at |-> "marked", staleAt |-> clock]]
    /\ local' = [staleAt |-> clock, fresh |-> TRUE, from |-> "revoke"]
    /\ UNCHANGED <<claims, marker, issued, reads, connection, clock, failures>>

StoreMarker(k) ==
    /\ revoke[k].at = "marked"
    /\ \A j \in ClaimChanges : revoke[j].at = "marked" => revoke[k].staleAt <= revoke[j].staleAt
    /\ marker' = revoke[k].staleAt
    /\ revoke' = [revoke EXCEPT ![k].at = "stored"]
    /\ UNCHANGED <<claims, local, issued, reads, connection, clock, failures>>

DropAll == connection' = [s \in Browsers |-> IF connection[s].at = "in" THEN NoConnection ELSE connection[s]]

\* disconnectUser, once the cache has answered: what it was asked before the
\* marker has been answered too.
Kick(k) ==
    /\ revoke[k].at = "stored"
    /\ \A s \in Browsers : connection[s].at = "reply" /\ connection[s].from = "cache"
                            => connection[s].heard >= revoke[k].staleAt
    /\ revoke' = [revoke EXCEPT ![k].at = "done"]
    /\ DropAll
    /\ UNCHANGED <<claims, marker, local, issued, reads, clock, failures>>

\* A set that fails may have reached a layer of the cache; the event goes out.
StoreFails(k) ==
    /\ revoke[k].at = "marked"
    /\ Failure
    /\ marker' \in {marker, revoke[k].staleAt}
    /\ revoke' = [revoke EXCEPT ![k].at = "unstored"]
    /\ DropAll
    /\ UNCHANGED <<claims, local, issued, reads, clock>>

-----------------------------------------------------------------------------
(* issueToken: login and refreshMemberships.                                *)

FindActiveClaims ==
    /\ reads = {}
    /\ reads' = {claims}
    /\ UNCHANGED <<claims, revoke, marker, local, issued, connection, clock, failures>>

Sign ==
    /\ Cardinality(issued) < MaxTokens
    /\ \E c \in reads : issued' = issued \cup {[claims |-> c, ts |-> clock]}
    /\ reads' = {}
    /\ UNCHANGED <<claims, revoke, marker, local, connection, clock, failures>>

-----------------------------------------------------------------------------
(* The handshake of a socket: isStale, then the user's rooms.               *)

Decide(s, token, staleAt, from) ==
    connection' = [connection EXCEPT ![s] =
        IF token.ts < staleAt THEN NoConnection
        ELSE [at |-> "in", token |-> token, heard |-> staleAt, from |-> from]]

\* The view of this process is good for STALE_MARKER_LOCAL_TTL_MS.
Handshake(s) ==
    /\ connection[s].at = "off"
    /\ \E token \in issued :
        IF local.fresh
        THEN Decide(s, token, local.staleAt, local.from)
        ELSE connection' = [connection EXCEPT ![s] =
                [at |-> "ask", token |-> token, heard |-> local.staleAt, from |-> "outage"]]
    /\ UNCHANGED <<claims, revoke, marker, local, issued, reads, clock, failures>>

Lookup(s) ==
    /\ connection[s].at = "ask"
    /\ connection' = [connection EXCEPT ![s].at = "reply", ![s].heard = marker, ![s].from = "cache"]
    /\ UNCHANGED <<claims, revoke, marker, local, issued, reads, clock, failures>>

LookupFails(s) ==
    /\ connection[s].at = "ask"
    /\ Failure
    /\ connection' = [connection EXCEPT ![s].at = "reply"]
    /\ UNCHANGED <<claims, revoke, marker, local, issued, reads, clock>>

\* The answer becomes the view of the process, whatever was there.
Reply(s) ==
    LET me == connection[s]
        from == IF me.from = "cache" /\ \E k \in ClaimChanges :
                        /\ revoke[k].at \in {"marked", "stored", "done"}
                        /\ me.heard < revoke[k].staleAt
                THEN "raced" ELSE me.from
    IN  /\ me.at = "reply"
        /\ local' = [staleAt |-> me.heard, fresh |-> TRUE, from |-> from]
        /\ Decide(s, me.token, me.heard, from)
        /\ UNCHANGED <<claims, revoke, marker, issued, reads, clock, failures>>

Leave(s) ==
    /\ connection[s].at = "in"
    /\ connection' = [connection EXCEPT ![s] = NoConnection]
    /\ UNCHANGED <<claims, revoke, marker, local, issued, reads, clock, failures>>

-----------------------------------------------------------------------------
Tick ==
    /\ clock < MaxClock
    /\ clock' = clock + 1
    /\ UNCHANGED <<claims, revoke, marker, local, issued, reads, connection, failures>>

ViewExpires ==
    /\ local.fresh
    /\ local' = [local EXCEPT !.fresh = FALSE]
    /\ UNCHANGED <<claims, revoke, marker, issued, reads, connection, clock, failures>>

\* The process dies with its sockets, its view and what it was doing.
RestartProcess ==
    /\ Failure
    /\ connection' = [s \in Browsers |-> NoConnection]
    /\ local' = [staleAt |-> 0, fresh |-> FALSE, from |-> "cache"]
    /\ reads' = {}
    /\ revoke' = [k \in ClaimChanges |-> [revoke[k] EXCEPT !.at =
            CASE @ \in {"due", "marked"} -> "lost" [] @ = "stored" -> "done" [] OTHER -> @]]
    /\ UNCHANGED <<claims, marker, issued, clock>>

SessionsNext ==
    \/ ChangeClaims \/ FindActiveClaims \/ Sign \/ Tick \/ ViewExpires \/ RestartProcess
    \/ \E k \in ClaimChanges : MarkLocally(k) \/ StoreMarker(k) \/ Kick(k) \/ StoreFails(k)
    \/ \E s \in Browsers : \/ Handshake(s) \/ Lookup(s) \/ LookupFails(s) \/ Reply(s) \/ Leave(s)

SessionsSpec == SessionsInit /\ [][SessionsNext]_sessionsVars

-----------------------------------------------------------------------------
(* Entries, tokens and sockets are well formed.                             *)
SessionsTypeOK ==
    /\ claims \in 0..MaxClaimChanges
    /\ revoke \in [ClaimChanges -> [at: {"none", "due", "marked", "stored", "done", "unstored", "lost"},
                               staleAt: Times]]
    /\ marker \in Times
    /\ local \in [staleAt: Times, fresh: BOOLEAN, from: Sources]
    /\ issued \subseteq Tokens
    /\ reads \in {{}} \cup {{c} : c \in 0..MaxClaimChanges}
    /\ connection \in [Browsers -> [at: {"off", "ask", "reply", "in"}, token: Tokens,
                               heard: Times, from: Sources]]
    /\ clock \in 1..MaxClock
    /\ failures \in 0..MaxFailures

(* Once a change of memberships has been revoked, no socket lives on the    *)
(* claims of before, through restarts and other revocations that fail,      *)
(* unless its token was signed after the marker from claims read before the *)
(* change, or it was let in on a failed lookup or by a view that an answer  *)
(* from before the marker had overwritten (isStale, disconnectUser).        *)
OldClaimsHaveACause ==
    \A s \in Browsers, k \in ClaimChanges :
        /\ connection[s].at = "in" /\ revoke[k].at = "done"
        /\ connection[s].token.claims < k
        => \/ connection[s].token.ts >= revoke[k].staleAt
           \/ connection[s].from \in {"raced", "outage"}

(* "A token issued before the marker is rejected with token_stale", while   *)
(* nothing fails: none that was issued before gets in or stays.         *)
StaleTokensRejected ==
    \A s \in Browsers, k \in ClaimChanges :
        /\ failures = 0
        /\ connection[s].at = "in" /\ revoke[k].at = "done"
        => connection[s].token.ts >= revoke[k].staleAt
================================================================================
