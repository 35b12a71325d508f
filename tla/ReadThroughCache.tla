-------------------------- MODULE ReadThroughCache --------------------------
(***************************************************************************)
(* The read-through caches of the reports and of the company tables in     *)
(* Redis (AnalyticsCacheService, WorkspaceTableCache).  A cached result is *)
(* kept under the versions of the scopes it depends on; a change is        *)
(* written to the database, then bumps the versions, and is announced to   *)
(* the clients, which fetch again.  The reports elect the request that     *)
(* computes with a lock that has no owner; the tables do not.              *)
(*                                                                         *)
(* What a scope covers is the number of changes made to it.  The rules are *)
(* the settings the reports are measured with: a request reads them before *)
(* it looks at the cache (AnalyticsService.context).                       *)
(***************************************************************************)
EXTENDS Naturals, FiniteSets

CONSTANTS Scopes,          \* what the result depends on
          RuleScopes,      \* scopes a change of the settings bumps, or none
          Kinds,           \* what is cached: reports, tables
          Requests,        \* reads under way
          Writers,         \* changes under way
          FollowAttempts,  \* times a follower polls
          MaxChanges,      \* bound: changes
          MaxFaults        \* bound: statements that fail, keys whose time is up,
                           \* requests that die

ASSUME CacheAssumption ==
    /\ RuleScopes \subseteq Scopes
    /\ Kinds \subseteq {"report", "table"}
    /\ {FollowAttempts, MaxChanges, MaxFaults} \subseteq Nat

VARIABLES
    kind,        \* whether it is a report or a table that is cached
    db, rules,   \* changes of each scope, and of the settings, in MySQL
    version,     \* Redis: the version of each scope,
    cached,      \* the results under their keys,
    locked,      \* and the keys with a lock
    req, change, \* reads and changes under way
    pending,     \* changes to be announced when the batch is over
    told,        \* changes of each scope, and of the settings, clients know of
    unbumped,    \* observer: scopes with an INCR that failed
    slack,       \* observer: keys whose lock did not keep the others out
    changes, faults

store == <<kind, db, rules>>
redis == <<version, cached, locked>>
news == <<pending, told, unbumped>>
bounds == <<changes, faults>>
vars == <<store, redis, req, change, news, slack, bounds>>

Key == [Scopes -> 0..MaxChanges]
None == [s \in {} |-> 0]
Nothing == [s \in {} |-> 0]

NoRequest == [at |-> "idle", key |-> None, read |-> Nothing, rules |-> 0,
              leader |-> FALSE, polls |-> 0, asked |-> Nothing, askedRules |-> 0]
NoChange == [at |-> "idle", left |-> {}, of |-> {}, rules |-> FALSE, gen |-> 0]

Init ==
    /\ kind \in Kinds
    /\ db = [s \in Scopes |-> 0] /\ rules = 0
    /\ version = [s \in Scopes |-> 0]
    /\ cached = {} /\ locked = {}
    /\ req = [r \in Requests |-> NoRequest]
    /\ change = [w \in Writers |-> NoChange]
    /\ pending = {}
    /\ told = [scopes |-> [s \in Scopes |-> 0], rules |-> 0]
    /\ unbumped = {} /\ slack = {}
    /\ changes = 0 /\ faults = 0

Fault == faults < MaxFaults /\ faults' = faults + 1
Goto(r, at) ==
    req' = [req EXCEPT ![r] = CASE at = "idle" -> NoRequest
                                [] at = "done" -> [@ EXCEPT !.at = at, !.key = None, !.leader = FALSE,
                                                            !.polls = 0]
                                [] OTHER       -> [@ EXCEPT !.at = at]]
Under(key) == {e \in cached : e.key = key}
-----------------------------------------------------------------------------
(* A change: the row, the versions, the announcement *)

WriteData(w, s) ==
    /\ change[w].at = "idle" /\ changes < MaxChanges
    /\ changes' = changes + 1
    /\ db' = [db EXCEPT ![s] = @ + 1]
    /\ change' = [change EXCEPT ![w] = [at |-> "bump", left |-> {s}, of |-> {s},
                                        rules |-> FALSE, gen |-> db[s] + 1]]
    /\ UNCHANGED <<kind, rules, redis, req, news, slack, faults>>

\* ServiceSettingsService.update.
WriteRules(w) ==
    /\ kind = "report" /\ RuleScopes # {}
    /\ change[w].at = "idle" /\ changes < MaxChanges
    /\ changes' = changes + 1
    /\ rules' = rules + 1
    /\ change' = [change EXCEPT ![w] = [at |-> "bump", left |-> RuleScopes, of |-> RuleScopes,
                                        rules |-> TRUE, gen |-> rules + 1]]
    /\ UNCHANGED <<kind, db, redis, req, news, slack, faults>>

\* INCR, for each of the scopes.
Bump(w, s) ==
    /\ change[w].at = "bump" /\ s \in change[w].left
    /\ version' = [version EXCEPT ![s] = @ + 1]
    /\ change' = [change EXCEPT ![w].left = @ \ {s},
                                ![w].at = IF change[w].left = {s} THEN "signal" ELSE "bump"]
    /\ UNCHANGED <<store, cached, locked, req, news, slack, bounds>>

\* A failure is logged; the change is announced all the same.
BumpFails(w) ==
    /\ change[w].at = "bump"
    /\ Fault
    /\ unbumped' = unbumped \cup change[w].left
    /\ change' = [change EXCEPT ![w].left = {}, ![w].at = "signal"]
    /\ UNCHANGED <<store, redis, req, pending, told, slack, changes>>

\* Mutated form, for the mutation runs: the bump is not awaited.
SignalAtOnce(w) ==
    /\ change[w].at \in {"bump", "signal"}
    /\ pending' = pending \cup {[of |-> change[w].of, rules |-> change[w].rules,
                                 gen |-> change[w].gen]}
    /\ IF change[w].at = "signal" THEN change' = [change EXCEPT ![w] = NoChange]
                                  ELSE UNCHANGED change
    /\ UNCHANGED <<store, redis, req, told, unbumped, slack, bounds>>

\* AnalyticsEventsService.signal, behind the bump it awaits.
Signal(w) ==
    /\ change[w].at = "signal"
    /\ pending' = pending \cup {[of |-> change[w].of, rules |-> change[w].rules,
                                 gen |-> change[w].gen]}
    /\ change' = [change EXCEPT ![w] = NoChange]
    /\ UNCHANGED <<store, redis, req, told, unbumped, slack, bounds>>

Newest(known, gens) == CHOOSE n \in gens \cup {known} : \A m \in gens \cup {known} : m <= n

\* One announcement for the changes of the last ANALYTICS_BATCH_MS.
Flush ==
    /\ pending # {}
    /\ told' = [scopes |-> [s \in Scopes |->
                              Newest(told.scopes[s], {n.gen : n \in {m \in pending : ~m.rules /\ s \in m.of}})],
                rules  |-> Newest(told.rules, {n.gen : n \in {m \in pending : m.rules}})]
    /\ pending' = {}
    /\ UNCHANGED <<store, redis, req, change, unbumped, slack, bounds>>
-----------------------------------------------------------------------------
(* A read: wrap *)

\* A client asks, on its own or because it was told.
ReadRules(r) ==
    /\ req[r].at = "idle"
    /\ req' = [req EXCEPT ![r] = [NoRequest EXCEPT !.at = "versions", !.rules = rules,
                                     !.asked = told.scopes, !.askedRules = told.rules]]
    /\ UNCHANGED <<store, redis, change, news, slack, bounds>>

ReadVersions(r) ==
    /\ req[r].at = "versions"
    /\ req' = [req EXCEPT ![r].at = "lookup", ![r].key = version]
    /\ UNCHANGED <<store, redis, change, news, slack, bounds>>

Hit(r, next) ==
    \/ \E e \in Under(req[r].key) :
          req' = [req EXCEPT ![r] = [@ EXCEPT !.at = "done", !.key = None, !.polls = 0,
                                              !.read = e.read, !.rules = e.rules]]
    \/ Under(req[r].key) = {} /\ next

Lookup(r) ==
    /\ req[r].at = "lookup"
    /\ Hit(r, Goto(r, IF kind = "report" THEN "lock" ELSE "compute"))
    /\ UNCHANGED <<store, redis, change, news, slack, bounds>>

\* Without Redis the result is computed and not stored.
LookupFails(r) ==
    /\ req[r].at \in {"versions", "lookup"}
    /\ Fault
    /\ req' = [req EXCEPT ![r].at = "compute", ![r].key = None]
    /\ UNCHANGED <<store, redis, change, news, slack, changes>>

\* Mutated form, for the mutation runs: SET without NX.
TakeLockAnyway(r) ==
    /\ req[r].at = "lock"
    /\ locked' = locked \cup {req[r].key}
    /\ req' = [req EXCEPT ![r].at = "compute", ![r].leader = TRUE]
    /\ UNCHANGED <<store, version, cached, change, news, slack, bounds>>

\* SET NX: the first one leads.
TakeLock(r) ==
    /\ req[r].at = "lock"
    /\ IF req[r].key \in locked
       THEN Goto(r, "poll") /\ UNCHANGED locked
       ELSE /\ locked' = locked \cup {req[r].key}
            /\ req' = [req EXCEPT ![r].at = "compute", ![r].leader = TRUE]
    /\ UNCHANGED <<store, version, cached, change, news, slack, bounds>>

\* An error makes a leader too.
LeadBlindly(r) ==
    /\ req[r].at = "lock"
    /\ Fault
    /\ req' = [req EXCEPT ![r].at = "compute", ![r].leader = TRUE]
    /\ slack' = slack \cup {req[r].key}
    /\ UNCHANGED <<store, redis, change, news, changes>>

\* Mutated form, for the mutation runs: a follower waits for the result.
PollForEver(r) ==
    /\ req[r].at = "poll"
    /\ Hit(r, UNCHANGED req)
    /\ UNCHANGED <<store, redis, change, news, slack, bounds>>

\* A follower polls the result, and in the end computes it too.
Poll(r) ==
    LET last == req[r].polls >= FollowAttempts IN
    /\ req[r].at = "poll"
    /\ IF last THEN Goto(r, "compute")
       ELSE Hit(r, req' = [req EXCEPT ![r].polls = @ + 1])
    /\ slack' = IF last THEN slack \cup {req[r].key} ELSE slack
    /\ UNCHANGED <<store, redis, change, news, bounds>>

Finish(r) == IF req[r].key = None THEN "done" ELSE "store"

\* compute(): a query for each of the scopes.
Query(r, s) ==
    /\ req[r].at = "compute" /\ s \notin DOMAIN req[r].read
    /\ LET seen == DOMAIN req[r].read \cup {s}
       IN  req' = [req EXCEPT
              ![r].read = [t \in seen |-> IF t = s THEN db[s] ELSE req[r].read[t]],
              ![r].at = IF seen = Scopes THEN Finish(r) ELSE "compute"]
    /\ UNCHANGED <<store, redis, change, news, slack, bounds>>

QueryFails(r) ==
    /\ req[r].at = "compute"
    /\ Fault
    /\ Goto(r, IF req[r].leader THEN "unlock" ELSE "idle")
    /\ UNCHANGED <<store, redis, change, news, slack, changes>>

Store(r) ==
    /\ req[r].at = "store"
    /\ cached' = (cached \ Under(req[r].key))
                   \cup {[key |-> req[r].key, read |-> req[r].read, rules |-> req[r].rules]}
    /\ Goto(r, IF req[r].leader THEN "unlock" ELSE "done")
    /\ UNCHANGED <<store, version, locked, change, news, slack, bounds>>

StoreFails(r) ==
    /\ req[r].at = "store"
    /\ Fault
    /\ Goto(r, IF req[r].leader THEN "unlock" ELSE "done")
    /\ UNCHANGED <<store, redis, change, news, slack, changes>>

Answered(r) == IF DOMAIN req[r].read = Scopes THEN "done" ELSE "idle"

\* DEL, whosever lock it is by now.
Unlock(r) ==
    /\ req[r].at = "unlock"
    /\ locked' = locked \ {req[r].key}
    /\ Goto(r, Answered(r))
    /\ UNCHANGED <<store, version, cached, change, news, slack, bounds>>

UnlockFails(r) ==
    /\ req[r].at = "unlock"
    /\ Fault
    /\ Goto(r, Answered(r))
    /\ UNCHANGED <<store, redis, change, news, slack, changes>>

Respond(r) ==
    /\ req[r].at = "done"
    /\ Goto(r, "idle")
    /\ UNCHANGED <<store, redis, change, news, slack, bounds>>
-----------------------------------------------------------------------------
(* Time, and processes that die *)

Expire(e) ==
    /\ e \in cached
    /\ Fault
    /\ cached' = cached \ {e}
    /\ UNCHANGED <<store, version, locked, req, change, news, slack, changes>>

ExpireLock(key) ==
    /\ key \in locked
    /\ Fault
    /\ locked' = locked \ {key}
    /\ slack' = slack \cup {key}
    /\ UNCHANGED <<store, version, cached, req, change, news, changes>>

Die(r) ==
    /\ req[r].at # "idle"
    /\ Fault
    /\ Goto(r, "idle")
    /\ UNCHANGED <<store, redis, change, news, slack, changes>>

Read(r) ==
    \/ ReadVersions(r) \/ Lookup(r) \/ TakeLock(r) \/ Poll(r)
    \/ \E s \in Scopes : Query(r, s)
    \/ Store(r) \/ Unlock(r) \/ Respond(r)

Fail(r) ==
    LookupFails(r) \/ LeadBlindly(r) \/ QueryFails(r) \/ StoreFails(r) \/ UnlockFails(r) \/ Die(r)

Next ==
    \/ \E w \in Writers : \/ WriteRules(w) \/ BumpFails(w) \/ Signal(w)
                          \/ \E s \in Scopes : WriteData(w, s) \/ Bump(w, s)
    \/ \E r \in Requests : ReadRules(r) \/ Read(r) \/ Fail(r)
    \/ \E e \in cached : Expire(e)
    \/ \E key \in locked : ExpireLock(key)
    \/ Flush

Spec == Init /\ [][Next]_vars

\* The calls a request waits for end, with an answer or an error.
FairSpec == Spec /\ \A r \in Requests : WF_vars(Read(r))
-----------------------------------------------------------------------------
(* Properties. *)

\* AnalyticsCacheService: "stale entries are never read again": whoever asks
\* after a change was announced is given a result that has it, cached or not,
\* unless the INCR of the change failed.
AnnouncedChangesAreRead ==
    \A r \in Requests : req[r].at = "done" =>
        \A s \in Scopes \ unbumped : req[r].read[s] >= req[r].asked[s]

\* "Single-flight: the first request computes under a short SET NX lock": two
\* requests compute one result at a time only if the lock expired, a follower
\* had polled in vain, or Redis failed.
OneFlight ==
    kind = "report" => \A r, q \in Requests :
        /\ r # q
        /\ req[r].at = "compute" /\ req[q].at = "compute"
        /\ req[r].key = req[q].key /\ req[r].key # None
        => req[r].key \in slack

\* "concurrent ones wait for its result": but not for ever, whatever becomes of
\* the request that leads.
RequestsEnd == \A r \in Requests : req[r].at # "idle" ~> req[r].at = "idle"

\* ServiceSettingsService.update: "Every duration and SLA state is measured
\* against these settings": whoever asks after new settings were announced is
\* given a result that was measured with them.
AnnouncedRulesAreUsed ==
    \A r \in Requests :
        req[r].at = "done" /\ unbumped = {} => req[r].rules >= req[r].askedRules
=============================================================================
