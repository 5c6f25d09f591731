------------------------------ MODULE CardDate ------------------------------
(***************************************************************************)
(* Card_date: the time stamps of cards, "YYYY-MM-DDTHH:MM:SS" followed by    *)
(* "Z" or an offset.  parse turns one into an instant, toIso8601 prints an   *)
(* instant as a UTC stamp.  An instant is a number of minutes since 1970;   *)
(* offsets are whole minutes, so seconds pass through unchanged (a fraction *)
(* of a second is dropped) and are left out.                               *)
(*                                                                         *)
(* A stamp is the record of its fields; its zone is that of the offset:      *)
(* sign (0 for "Z"), hours and minutes.                                    *)
(***************************************************************************)
EXTENDS Integers, Sequences

CONSTANTS
    FirstYear, LastYear  \* bound: the years stamps may be of

ASSUME CardDateAssumption == FirstYear \in Nat /\ LastYear \in Nat

IsLeap(year) == year % 4 = 0 /\ (year % 100 # 0 \/ year % 400 = 0)

\* Leap years before the given one.
LeapsBefore(year) == ((year - 1) \div 4) - ((year - 1) \div 100) + ((year - 1) \div 400)

DaysBefore == <<0, 31, 59, 90, 120, 151, 181, 212, 243, 273, 304, 334>>

DayNumber(year, month, day) ==
    365 * (year - 1970) + LeapsBefore(year) - LeapsBefore(1970)
        + DaysBefore[month] + (IF month > 2 /\ IsLeap(year) THEN 1 ELSE 0) + day - 1

\* timegm (external).
Timegm(s) == DayNumber(s.year, s.month, s.day) * 1440 + s.hour * 60 + s.minute

\* gmtime (external).
Gmtime(instant) ==
    LET number == instant \div 1440
        within == instant % 1440
        year == CHOOSE y \in (FirstYear - 1)..(LastYear + 1) :
                    DayNumber(y, 1, 1) <= number /\ number < DayNumber(y + 1, 1, 1)
        month == CHOOSE m \in 1..12 :
                    /\ DayNumber(year, m, 1) <= number
                    /\ m = 12 \/ number < DayNumber(year, m + 1, 1)
    IN  [year |-> year, month |-> month,
         day |-> 1 + number - DayNumber(year, month, 1),
         hour |-> within \div 60, minute |-> within % 60]

\* Mutant: the offset is applied the wrong way round.
OffsetMinutesReversed(zone) == (0 - zone.sign) * (zone.hours * 60 + zone.minutes)

\* offset_seconds, in minutes.
OffsetMinutes(zone) == zone.sign * (zone.hours * 60 + zone.minutes)

\* What parse throws at is no stamp (ReadDate of CardJson).
Parse(s) == Timegm(s) - OffsetMinutes(s.zone)

ToIso8601(instant) == Gmtime(instant)

---------------------------------------------------------------------------
(* The same by the calendar on the wall. *)

DaysIn(year, month) ==
    IF month = 2 THEN IF IsLeap(year) THEN 29 ELSE 28
    ELSE IF month \in {4, 6, 9, 11} THEN 30 ELSE 31

\* A date and a time of day, with an offset of less than a day.
IsStamp(s) ==
    /\ s.year \in FirstYear..LastYear /\ s.month \in 1..12
    /\ s.day \in 1..DaysIn(s.year, s.month)
    /\ s.hour \in 0..23 /\ s.minute \in 0..59
    /\ s.zone.sign \in -1..1 /\ s.zone.hours \in 0..23 /\ s.zone.minutes \in 0..59

NextDay(d) ==
    IF d.day < DaysIn(d.year, d.month)
    THEN [year |-> d.year, month |-> d.month, day |-> d.day + 1]
    ELSE IF d.month < 12 THEN [year |-> d.year, month |-> d.month + 1, day |-> 1]
    ELSE [year |-> d.year + 1, month |-> 1, day |-> 1]

DayBefore(d) ==
    IF d.day > 1 THEN [year |-> d.year, month |-> d.month, day |-> d.day - 1]
    ELSE IF d.month > 1
         THEN [year |-> d.year, month |-> d.month - 1, day |-> DaysIn(d.year, d.month - 1)]
    ELSE [year |-> d.year - 1, month |-> 12, day |-> 31]

\* What a clock in Greenwich shows when one in the stamp's zone shows the stamp.
InGreenwich(s) ==
    LET today == [year |-> s.year, month |-> s.month, day |-> s.day]
        minutes == s.hour * 60 + s.minute
                      - s.zone.sign * (s.zone.hours * 60 + s.zone.minutes)
        date == IF minutes < 0 THEN DayBefore(today)
                ELSE IF minutes >= 1440 THEN NextDay(today) ELSE today
        m == minutes % 1440
    IN  [year |-> date.year, month |-> date.month, day |-> date.day,
         hour |-> m \div 60, minute |-> m % 60]
=============================================================================
