--------------------------------- MODULE Spend ---------------------------------
(***************************************************************************)
(* What a company spends on billable messages, its monthly budget with the *)
(* alerts at 80 % and 100 %, and the settings row that holds the budget    *)
(* (SpendService).  Three services write that row.  All but one of their   *)
(* writes read it, change the entity in memory and save the entity: the    *)
(* save reads the row again and updates every column in which the entity   *)
(* differs from it (TypeORM, external).  Nothing locks the row, so a       *)
(* column that another request changed meanwhile is put back.              *)
(*                                                                         *)
(* Money is a whole number of some unit.  The realtime signals and the     *)
(* texts of the notifications are left out, and the admins of a company    *)
(* are one reader.  The row exists: whatever creates a company inserts it. *)
(***************************************************************************)
EXTENDS Naturals, FiniteSets

CONSTANTS
    Requests,     \* requests and report handlers that may run at a time
    Deliveries,   \* sent messages the provider reports on
    Budgets,      \* monthlyBudgetUsd; 0 stands for NULL
    Rates,        \* usdPerUnit of the billable category
    DefaultRate,  \* the one of the pricing adapter
    LastMonth,    \* bound: months, counted from 1
    MaxSettingChanges,  \* bound: changes of settings and rates
    MaxFailures   \* bound: statements that fail

ASSUME SpendAssumption ==
    /\ Budgets \subseteq Nat
    /\ Rates \subseteq Nat /\ DefaultRate \in Rates
    /\ IsFiniteSet(Deliveries)
    /\ LastMonth \in Nat \ {0}
    /\ {MaxSettingChanges, MaxFailures} \subseteq Nat

VARIABLES
    settings,   \* row of `company_settings`
    rate,       \* row of `channel_rates`
    charge,     \* table `channel_charges`, by message
    month,      \* the month it is now
    request,    \* what each request is doing
    raised,     \* observer: alerts stored this month since the last budget
    heard,      \* observer: levels alerted this month
    asked,      \* observer: settings as the last request for each asked
    stale,      \* observer: an entity was saved after its row had changed
    putBack,    \* observer: columns a save wrote that its request did not change
    repriced,   \* observer: a rate was changed
    changes, failures

spendVars == <<settings, rate, charge, month, request, raised, heard, asked,
               stale, putBack, repriced, changes, failures>>

Levels == {"warning", "exceeded"}
NoAlert == [month |-> 0, level |-> "none"]
Alerts == [month: 1..LastMonth, level: Levels] \cup {NoAlert}

\* `hours` stands for the columns of ServiceSettingsService, `auto` for those
\* of CompanyService.
Columns == {"budget", "paused", "alert", "hours", "auto"}
Settings == [budget: Budgets \cup {0}, paused: BOOLEAN, alert: Alerts,
             hours: BOOLEAN, auto: BOOLEAN]
Defaults == [budget |-> 0, paused |-> FALSE, alert |-> NoAlert,
             hours |-> FALSE, auto |-> TRUE]

\* `entity` is the row as the request read and changed it, `wants` the columns
\* it was asked to change, `diff` those its save will write, `next` what
\* follows the save.
RequestStages == {"idle", "save", "update", "check", "sum", "notify"}
Request == [at: RequestStages, entity: Settings, wants: SUBSET Columns,
            diff: SUBSET Columns, old: BOOLEAN, next: {"idle", "check", "notify"}]
Waiting == [at |-> "idle", entity |-> Defaults, wants |-> {}, diff |-> {},
         old |-> FALSE, next |-> "idle"]

Uncharged == [kind |-> "none", month |-> 0]

SpendInit ==
    /\ settings = Defaults
    /\ rate = DefaultRate
    /\ charge = [m \in Deliveries |-> Uncharged]
    /\ month = 1
    /\ request = [r \in Requests |-> Waiting]
    /\ raised = [l \in Levels |-> 0]
    /\ heard = {}
    /\ asked = Defaults
    /\ stale = FALSE /\ putBack = {} /\ repriced = FALSE
    /\ changes = 0 /\ failures = 0

\* What the charges of the current month come to, at the rates of now.
Total == rate * Cardinality({m \in Deliveries :
                                charge[m] = [kind |-> "billable", month |-> month]})

\* thresholdOf, with BUDGET_WARNING_SHARE = 0.8.
ThresholdOf(total, budget) ==
    CASE total >= budget                         -> "exceeded"
      [] total < budget /\ 5 * total >= 4 * budget -> "warning"
      [] OTHER                                   -> "none"

Start(r, entity, wants, next) ==
    request' = [request EXCEPT ![r] = [at |-> "save", entity |-> entity, wants |-> wants,
                                       diff |-> {}, old |-> FALSE, next |-> next]]

-----------------------------------------------------------------------------
(* The requests.                                                            *)

\* recordReport: the first report of a message is its charge; the provider
\* may report a message of an earlier month.
RecordReport(r, m, billable, at) ==
    /\ request[r].at = "idle"
    /\ at <= month
    /\ charge[m] = Uncharged
    /\ charge' = [charge EXCEPT ![m] =
            [kind |-> IF billable THEN "billable" ELSE "free", month |-> at]]
    /\ request' = IF billable THEN [request EXCEPT ![r].at = "check"] ELSE request
    /\ UNCHANGED <<settings, rate, month, raised, heard, asked, stale, putBack, repriced,
                   changes, failures>>

Change == changes < MaxSettingChanges /\ changes' = changes + 1

UpdateBudget(r, budget) ==
    /\ request[r].at = "idle"
    /\ Change
    /\ Start(r, [settings EXCEPT !.budget = budget, !.alert = NoAlert],
             {"budget", "alert"}, "check")
    /\ UNCHANGED <<settings, rate, charge, month, raised, heard, asked, stale, putBack,
                   repriced, failures>>

SetPaused(r, paused) ==
    /\ request[r].at = "idle"
    /\ Change
    /\ Start(r, [settings EXCEPT !.paused = paused], {"paused"}, "idle")
    /\ UNCHANGED <<settings, rate, charge, month, raised, heard, asked, stale, putBack,
                   repriced, failures>>

UpdateServiceSettings(r, hours) ==
    /\ request[r].at = "idle"
    /\ Change
    /\ Start(r, [settings EXCEPT !.hours = hours], {"hours"}, "idle")
    /\ UNCHANGED <<settings, rate, charge, month, raised, heard, asked, stale, putBack,
                   repriced, failures>>

\* updateAssignmentSettings updates its columns and no other.
UpdateAssignmentSettings(auto) ==
    /\ Change
    /\ settings' = [settings EXCEPT !.auto = auto]
    /\ asked' = [asked EXCEPT !.auto = auto]
    /\ request' = [r \in Requests |-> [request[r] EXCEPT !.old =
            @ \/ (request[r].at # "idle" /\ auto # settings.auto)]]
    /\ UNCHANGED <<rate, charge, month, raised, heard, stale, putBack, repriced, failures>>

UpdateRates(usd) ==
    /\ usd # rate
    /\ Change
    /\ rate' = usd
    /\ repriced' = TRUE
    /\ UNCHANGED <<settings, charge, month, request, raised, heard, asked, stale, putBack, failures>>

-----------------------------------------------------------------------------
(* save: the columns that differ now are the ones it updates next.          *)

Compare(r) ==
    /\ request[r].at = "save"
    /\ request' = [request EXCEPT ![r].at = "update", ![r].diff =
            {c \in Columns : request[r].entity[c] # settings[c]}]
    /\ UNCHANGED <<settings, rate, charge, month, raised, heard, asked, stale, putBack,
                   repriced, changes, failures>>

Update(r) ==
    LET me == request[r]
        saved == [c \in Columns |-> IF c \in me.diff THEN me.entity[c] ELSE settings[c]]
    IN  /\ me.at = "update"
        /\ settings' = saved
        /\ stale' = (stale \/ me.old)
        /\ putBack' = putBack \cup (me.diff \ me.wants)
        /\ asked' = [c \in Columns |-> IF c \in me.wants THEN me.entity[c] ELSE asked[c]]
        /\ raised' = CASE "budget" \in me.wants -> [l \in Levels |-> 0]
                       [] me.next = "notify" /\ me.entity.alert.month = month ->
                            [raised EXCEPT ![me.entity.alert.level] = @ + 1]
                       [] OTHER -> raised
        /\ request' = [q \in Requests |->
                IF q = r
                THEN [Waiting EXCEPT !.at = me.next, !.entity = [Defaults EXCEPT !.alert =
                        IF me.next = "notify" THEN me.entity.alert ELSE NoAlert]]
                ELSE [request[q] EXCEPT !.old =
                        @ \/ (request[q].at # "idle" /\ saved # settings)]]
        /\ UNCHANGED <<rate, charge, month, heard, repriced, changes, failures>>

-----------------------------------------------------------------------------
(* checkBudget.                                                             *)

ReadSettings(r) ==
    /\ request[r].at = "check"
    /\ request' = [request EXCEPT ![r] =
            IF settings.budget = 0 THEN Waiting
            ELSE [Waiting EXCEPT !.at = "sum", !.entity = settings]]
    /\ UNCHANGED <<settings, rate, charge, month, raised, heard, asked, stale, putBack,
                   repriced, changes, failures>>

SumByLevel(r) ==
    LET entity == request[r].entity
        level == ThresholdOf(Total, entity.budget)
        quiet == level = "none" \/ entity.alert.level \in {level, "exceeded"}
    IN  /\ request[r].at = "sum"
        /\ request' = [request EXCEPT ![r] =
                IF quiet THEN Waiting
                ELSE [@ EXCEPT !.at = "save", !.wants = {"alert"}, !.next = "notify", !.entity =
                        [entity EXCEPT !.alert = [month |-> month, level |-> level]]]]
        /\ UNCHANGED <<settings, rate, charge, month, raised, heard, asked, stale, putBack,
                       repriced, changes, failures>>

SumEachTime(r) ==
    LET entity == request[r].entity
        level == ThresholdOf(Total, entity.budget)
    IN  /\ request[r].at = "sum"
        /\ request' = [request EXCEPT ![r] =
                IF level = "none" THEN Waiting
                ELSE [@ EXCEPT !.at = "save", !.wants = {"alert"}, !.next = "notify", !.entity =
                        [entity EXCEPT !.alert = [month |-> month, level |-> level]]]]
        /\ UNCHANGED <<settings, rate, charge, month, raised, heard, asked, stale, putBack,
                       repriced, changes, failures>>

\* The month, the rates and the charges are read one after the other; a charge
\* or a rate that comes in between is one that came before.
Sum(r) ==
    LET entity == request[r].entity
        level == ThresholdOf(Total, entity.budget)
        key == [month |-> month, level |-> level]
        quiet == \/ level = "none"
                 \/ entity.alert \in {key, [month |-> month, level |-> "exceeded"]}
    IN  /\ request[r].at = "sum"
        /\ request' = [request EXCEPT ![r] =
                IF quiet THEN Waiting
                ELSE [@ EXCEPT !.at = "save", !.wants = {"alert"}, !.next = "notify", !.entity =
                        [entity EXCEPT !.alert = key]]]
        /\ UNCHANGED <<settings, rate, charge, month, raised, heard, asked, stale, putBack,
                       repriced, changes, failures>>

NotifyAdmins(r) ==
    LET alert == request[r].entity.alert IN
    /\ request[r].at = "notify"
    /\ heard' = IF alert.month = month THEN heard \cup {alert.level} ELSE heard
    /\ request' = [request EXCEPT ![r] = Waiting]
    /\ UNCHANGED <<settings, rate, charge, month, raised, asked, stale, putBack, repriced,
                   changes, failures>>

\* A statement fails or the process dies: the rest of the request is not done.
FailRequest(r) ==
    /\ request[r].at # "idle"
    /\ failures < MaxFailures
    /\ failures' = failures + 1
    /\ request' = [request EXCEPT ![r] = Waiting]
    /\ UNCHANGED <<settings, rate, charge, month, raised, heard, asked, stale, putBack,
                   repriced, changes>>

NewMonth ==
    /\ month < LastMonth
    /\ month' = month + 1
    /\ raised' = [l \in Levels |-> 0]
    /\ heard' = {}
    /\ UNCHANGED <<settings, rate, charge, request, asked, stale, putBack, repriced, changes, failures>>

SpendNext ==
    \/ NewMonth
    \/ \E auto \in BOOLEAN : UpdateAssignmentSettings(auto)
    \/ \E usd \in Rates : UpdateRates(usd)
    \/ \E r \in Requests :
        \/ \E m \in Deliveries, billable \in BOOLEAN, at \in 1..LastMonth :
                RecordReport(r, m, billable, at)
        \/ \E budget \in Budgets \cup {0} : UpdateBudget(r, budget)
        \/ \E paused \in BOOLEAN : SetPaused(r, paused)
        \/ \E hours \in BOOLEAN : UpdateServiceSettings(r, hours)
        \/ Compare(r) \/ Update(r) \/ ReadSettings(r) \/ Sum(r) \/ NotifyAdmins(r)
        \/ FailRequest(r)

SpendSpec == SpendInit /\ [][SpendNext]_spendVars

-----------------------------------------------------------------------------
(* The rows and the requests are well formed (CompanySettings entity).      *)
SpendTypeOK ==
    /\ settings \in Settings /\ asked \in Settings
    /\ rate \in Rates
    /\ charge \in [Deliveries -> [kind: {"free", "billable"}, month: 1..LastMonth]
                               \cup {Uncharged}]
    /\ month \in 1..LastMonth
    /\ request \in [Requests -> Request]
    /\ raised \in [Levels -> Nat] /\ heard \subseteq Levels
    /\ stale \in BOOLEAN /\ putBack \subseteq Columns /\ repriced \in BOOLEAN
    /\ changes \in 0..MaxSettingChanges /\ failures \in 0..MaxFailures

NothingUnderWay == \A r \in Requests : request[r].at = "idle"

Due(l) ==
    /\ settings.budget # 0
    /\ ThresholdOf(Total, settings.budget) = l

(* When nothing runs, nothing failed and no rate was changed, the level     *)
(* that the spend of the month has reached was alerted this month, or the   *)
(* higher one was: reports, budgets and saves of the other settings may     *)
(* overlap as they like, alerts may be repeated but none is lost, unless a  *)
(* stale save puts another budget back, which nobody checks (checkBudget:   *)
(* every charge and every new budget is followed by a check).               *)
AlertNotLost ==
    NothingUnderWay /\ failures = 0 /\ ~repriced /\ "budget" \notin putBack =>
        /\ Due("exceeded") => "exceeded" \in heard
        /\ Due("warning") => heard # {}

(* As long as no entity is saved over a row that changed after it was read, *)
(* every setting is what the last request for it asked, none is put back,   *)
(* and each level is stored at most once a month and budget: stale saves   *)
(* are the only way to lose a pause or to repeat an alert (setPaused,       *)
(* updateBudget, checkBudget).                                              *)
OnlyStaleSavesLose ==
    ~stale =>
        /\ \A c \in Columns \ {"alert"} : settings[c] = asked[c]
        /\ putBack = {}
        /\ \A l \in Levels : raised[l] <= 1

(* "the manual pause of billable sends" (spend.service.ts): a pause that    *)
(* was answered stays until a request lifts it.                             *)
PauseKept == settings.paused = asked.paused
================================================================================
