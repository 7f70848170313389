------------------------------- MODULE TxDate -------------------------------
(***************************************************************************)
(* How the inventory feeds compare two time stamps.                        *)
(*                                                                         *)
(* Time is counted in whole hours: t is the t-th hour after the start of   *)
(* the observation, which began at hour StartHour of some day.  The code   *)
(* never compares the instants themselves.  It parses the text of both     *)
(* with the pattern "yyyy-MM-dd hh:mm:ss.SSS", whose hh is the hour of a   *)
(* twelve hour clock: the lenient parser reads 12 as 0 and leaves 13 to 23 *)
(* as they are.  The second comparison of the class also formats with that *)
(* pattern before it parses, which folds the afternoon onto the morning.   *)
(***************************************************************************)
EXTENDS Integers

CONSTANT StartHour

ASSUME StartHourAssumption == StartHour \in 0..23

Hour(t) == (StartHour + t) % 24
Midnight(t) == (StartHour + t) - Hour(t)

\* Mutants of Parsed: the hour of a twelve hour clock, and no date.
ParsedHalfDay(t) == Midnight(t) + (Hour(t) % 12)
ParsedTimeOnly(t) == IF Hour(t) = 12 THEN 0 ELSE Hour(t)

\* The instant that parsing the text of t yields.
Parsed(t) == Midnight(t) + (IF Hour(t) = 12 THEN 0 ELSE Hour(t))

\* The instant that formatting t and parsing the result yields.
Reparsed(t) == Midnight(t) + (Hour(t) % 12)

\* validateTimeDifferenceWithMS(a, b): is a strictly later than b?
Later(a, b) == Parsed(b) - Parsed(a) < 0

\* Mutant of LaterUTC: the operands are swapped.
EarlierUTC(a, b) == Reparsed(a) - Reparsed(b) < 0

\* validateTimeDifference(a, b), the comparison of the master data feeds.
LaterUTC(a, b) == Reparsed(b) - Reparsed(a) < 0
=============================================================================
