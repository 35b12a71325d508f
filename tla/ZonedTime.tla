----------------------------- MODULE ZonedTime -----------------------------
(***************************************************************************)
(* Conversions between instants and the wall clock of a zone               *)
(* (src/lib/zoned-time.ts), over integers: an instant and a wall-clock     *)
(* time are counted in ticks from one epoch, as Date.UTC counts them.      *)
(*                                                                         *)
(* A zone is what Intl knows of it around one transition: its offset       *)
(* before and after the instant `at`.  The clock is put forward when       *)
(* `after` is the larger, back when it is the smaller.                     *)
(***************************************************************************)
EXTENDS Integers

Zone == [at : Int, before : Int, after : Int]

OffsetAt(zone, instant) == IF instant < zone.at THEN zone.before ELSE zone.after

\* zonedParts: what the clock of the zone shows.
LocalTime(zone, instant) == instant + OffsetAt(zone, instant)

Least(a, b) == IF a < b THEN a ELSE b
Latest(a, b) == IF a < b THEN b ELSE a

\* The offset is looked up twice: at the local time taken for an instant, and
\* at the instant this gives.
ZonedTimeToUtc(zone, local) ==
    LET first  == local - OffsetAt(zone, local)
        second == local - OffsetAt(zone, first)
    IN  Least(first, second)

CalendarDay(local, dayLength) == local \div dayLength
-----------------------------------------------------------------------------
(* Reference: what a wall-clock time is, without a way to compute it. *)

\* The instants at which the clock shows `local`: none when it is skipped, two
\* when it comes twice.
InstantsOf(zone, local) ==
    {t \in {local - zone.before, local - zone.after} : LocalTime(zone, t) = local}

Skipped(zone, local) == InstantsOf(zone, local) = {}

Converts(zone, local) == LocalTime(zone, ZonedTimeToUtc(zone, local)) = local
=============================================================================
