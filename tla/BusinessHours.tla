--------------------------- MODULE BusinessHours ---------------------------
(***************************************************************************)
(* How long a case has been open on the company's clock: the loop of       *)
(* businessSeconds (src/lib/business-time.ts) over the local days of a     *)
(* span, and isWithinBusinessHours, which says of one instant whether the  *)
(* company is open.  Response times, SLA states and handling times are     *)
(* measured with the one and nothing but their agreement says they are     *)
(* right.                                                                  *)
(*                                                                         *)
(* A day has DayLength ticks and a week Week days; a date is the number of *)
(* the day.  The schedule gives a weekday its intervals; the empty one     *)
(* stands for null, a company that works round the clock.                  *)
(***************************************************************************)
EXTENDS ZonedTime, FiniteSets

CONSTANTS DayLength,   \* ticks of a day without a transition
          Week,        \* days of a week
          Zones,       \* zones a company may choose
          Schedules,   \* business hours it may set: weekday -> intervals
          Starts,      \* instants a span may begin at
          Longest,     \* bound: ticks of a span
          MaxDays      \* MAX_DAYS, the hard stop of the loop

\* TimeIntervalSchema: start < end, and no later than the day's last minute.
Interval == {iv \in (0..(DayLength - 1)) \X (0..(DayLength - 1)) : iv[1] < iv[2]}

ASSUME HoursAssumption ==
    /\ DayLength \in Nat \ {0} /\ Week \in Nat \ {0}
    /\ Zones \subseteq Zone
    /\ Schedules \subseteq [0..(Week - 1) -> SUBSET Interval] \cup {<<>>}
    /\ Starts \subseteq Int
    /\ Longest \in Nat /\ MaxDays \in Nat \ {0}

VARIABLES zone, schedule,   \* the company's
          from, to,         \* the span that is measured
          day,              \* local days counted so far
          counted,          \* intervals of the next day that are counted too
          total,            \* business time counted so far
          done

hoursVars == <<zone, schedule, from, to, day, counted, total, done>>
input == <<zone, schedule, from, to>>

Weekday(date) == date % Week
FirstDate == CalendarDay(LocalTime(zone, from), DayLength)
Date == FirstDate + day

\* The instant of a time of a date, given in ticks since midnight.
InstantOn(date, time) == ZonedTimeToUtc(zone, date * DayLength + time)

RoundTheClock == schedule = <<>>
NeverOpen == ~RoundTheClock /\ \A w \in DOMAIN schedule : schedule[w] = {}
Intervals(date) == IF RoundTheClock THEN {} ELSE schedule[Weekday(date)]
Walked == ~done /\ from < to /\ ~RoundTheClock /\ ~NeverOpen

HoursInit ==
    /\ zone \in Zones
    /\ schedule \in Schedules
    /\ from \in Starts
    /\ to \in {from + length : length \in 0..Longest}
    /\ day = 0 /\ counted = {} /\ total = 0 /\ done = FALSE

\* An empty span, or a company that never or always works, is not walked through.
ReturnEarly ==
    /\ ~done
    /\ to <= from \/ RoundTheClock \/ NeverOpen
    /\ total' = IF RoundTheClock THEN Latest(0, to - from) ELSE 0
    /\ done' = TRUE
    /\ UNCHANGED <<input, day, counted>>

\* Mutated form, for the mutation runs: the span does not clip the opening.
OverlapUnclipped(date, iv) ==
    Latest(0, Least(InstantOn(date, iv[2]), to) - InstantOn(date, iv[1]))

Overlap(date, iv) ==
    Latest(0, Least(InstantOn(date, iv[2]), to) - Latest(InstantOn(date, iv[1]), from))

\* The loop is in a day of the span.
InDay == Walked /\ day < MaxDays /\ InstantOn(Date, 0) < to

\* One interval of the day.
CountInterval ==
    /\ InDay
    /\ \E iv \in Intervals(Date) \ counted :
           /\ total' = total + Overlap(Date, iv)
           /\ counted' = counted \cup {iv}
    /\ UNCHANGED <<input, day, done>>

NextDay ==
    /\ InDay
    /\ counted = Intervals(Date)
    /\ day' = day + 1 /\ counted' = {}
    /\ UNCHANGED <<input, total, done>>

\* The next day begins after the span, or the loop has done its last day.
Return ==
    /\ Walked
    /\ day = MaxDays \/ to <= InstantOn(Date, 0)
    /\ done' = TRUE
    /\ UNCHANGED <<input, day, counted, total>>

HoursNext == ReturnEarly \/ CountInterval \/ NextDay \/ Return

HoursSpec == HoursInit /\ [][HoursNext]_hoursVars

IsWithinBusinessHours(instant) ==
    LET local == LocalTime(zone, instant)
        time  == local % DayLength
    IN  RoundTheClock \/ \E iv \in schedule[Weekday(CalendarDay(local, DayLength))] :
            iv[1] <= time /\ time < iv[2]
-----------------------------------------------------------------------------
(* Properties. *)

\* The times the loop has had to convert: midnights, openings and closings of
\* the days so far and of the next.
Conversions ==
    UNION {{date * DayLength + time :
               time \in {0} \cup UNION {{iv[1], iv[2]} : iv \in Intervals(date)}} :
           date \in FirstDate..Date}

OnceEach == \A local \in Conversions : Cardinality(InstantsOf(zone, local)) = 1
WellConverted == \A local \in Conversions : Converts(zone, local)

Disjoint ==
    \A w \in DOMAIN schedule :
        \A a, b \in schedule[w] : a = b \/ a[2] <= b[1] \/ b[2] <= a[1]

\* How far the loop has got: the whole span, or the days it has done.
Reached == IF done /\ day < MaxDays THEN to ELSE Least(to, InstantOn(Date, 0))

OpenTime == Cardinality({t \in from..(Reached - 1) : IsWithinBusinessHours(t)})

\* business-time.ts: at every turn of the loop, the business time of the days
\* done is the number of instants of the span at which isWithinBusinessHours
\* says that the company is open.  Where the clock changes inside an interval
\* the two agree too, as long as no opening, closing or midnight is a time that
\* is skipped, repeated or misread, and no two intervals of a day overlap.
AgreesWithClock ==
    OnceEach /\ WellConverted /\ Disjoint /\ counted = {} => total = OpenTime

\* business-time.ts: "only the overlap with each day's open intervals (on the
\* company timezone, DST-aware) counts": that the clock changes somewhere in the
\* week does no harm to times that are neither skipped nor repeated.
DstAware == done /\ OnceEach /\ Disjoint => total = OpenTime

\* zoned-time.ts: "Inside a DST gap the time shifts forward": the instant shows a
\* later time than the one that is skipped.
GapsShiftForward ==
    \A local \in Conversions :
        Skipped(zone, local) => LocalTime(zone, ZonedTimeToUtc(zone, local)) > local

\* zoned-time.ts: "inside an overlap the earlier instant wins".
EarlierInstantWins ==
    \A local \in Conversions :
        \A t \in InstantsOf(zone, local) : ZonedTimeToUtc(zone, local) <= t
=============================================================================
