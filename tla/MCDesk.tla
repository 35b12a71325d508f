------------------------------- MODULE MCDesk -------------------------------
(* Instances of Customers, StagedUploads and BusinessHours for TLC: whom   *)
(* the team writes to, what it attaches and how its time is measured.      *)
EXTENDS Customers, StagedUploads, BusinessHours, TLC

CONSTANTS s1, s2, p1, p2, r1, r2, u1, m1, m2, m3, a1, a2

\* One person on two channels.
OnePerson == s1 :> p1 @@ s2 :> p1

\* Two messages share an upload; a third one, which is foreign, names it too.
Shared == m1 :> u1 @@ m2 :> u1 @@ m3 :> u1

\* Zones without a transition, and with one either way, east and west.
AnyZone == {[at |-> t, before |-> b, after |-> a] : t \in {6, 7}, b \in -1..1, a \in -2..2}

\* A week of two days, each closed or with one shift, a split shift or shifts
\* that overlap; or no schedule.
Shifts == {{}, {<<0, 2>>}, {<<1, 3>>}, {<<0, 1>>, <<2, 3>>}, {<<0, 2>>, <<1, 3>>}}
AnySchedule == {s \in [0..1 -> SUBSET Interval] : s[0] \in Shifts /\ s[1] \in Shifts} \cup {<<>>}
FirstInstants == 1..5

\* Requests and processes are interchangeable names.  As only one component
\* ever moves, the exchange may be of names of both.
Exchanges == {f @@ g : f \in Permutations({r1, r2}), g \in Permutations({a1, a2})}
Symmetry == {f \in Exchanges : f[r1] = r1 <=> f[a1] = a1}

\* The three share no variable, so that no interleaving of theirs shows
\* anything: one of them moves, while the others are where they begin, at one
\* state where there are several.
NoCustomers == Init /\ Absent = Customer
NoSpan == HoursInit /\ zone.before = 0 /\ zone.after = 0 /\ zone.at = 6
                    /\ schedule = <<>> /\ from = 1 /\ to = 1

DeskInit == Init /\ UploadsInit /\ HoursInit /\ (NoCustomers \/ NoSpan)
DeskNext ==
    \/ UploadsInit /\ NoSpan /\ Next /\ UNCHANGED <<stagedVars, hoursVars>>
    \/ NoCustomers /\ NoSpan /\ UploadsNext /\ UNCHANGED <<vars, hoursVars>>
    \/ NoCustomers /\ UploadsInit /\ HoursNext /\ UNCHANGED <<vars, stagedVars>>
DeskSpec == DeskInit /\ [][DeskNext]_<<vars, stagedVars, hoursVars>>
=============================================================================
