------------------------------ MODULE KstTime ------------------------------
(***************************************************************************)
(* Calendar arithmetic of app/utils/timezone.py.  An instant is a number   *)
(* of whole hours since some UTC midnight; a calendar day is the number of *)
(* the day that starts at hour 24 * day on the clock it is read from.  KST *)
(* runs nine hours ahead of UTC the whole year.  Minutes are left out:     *)
(* only the half-hour slots of the insights look at them.                  *)
(***************************************************************************)
EXTENDS Integers

KstOffset == 9

Day == Int        \* a calendar day
Instant == Int    \* an aware datetime, as hours on the UTC clock

\* kst_date_to_utc: midnight in Korea of a calendar day, as a UTC datetime.
KstDateToUtc(day) == 24 * day - KstOffset

\* kst_naive_to_utc: a reading of a Korean clock, as a UTC datetime.
KstNaiveToUtc(reading) == reading - KstOffset

\* utc_to_kst: what a Korean clock shows, hours counted from its own midnight 0.
UtcToKst(t) == t + KstOffset

\* datetime.date() and .hour of a reading.
DateOf(reading) == reading \div 24
HourOf(reading) == reading % 24

\* datetime.date(): the calendar day a datetime shows on its own (UTC) clock.
UtcDate(t) == t \div 24
=============================================================================
