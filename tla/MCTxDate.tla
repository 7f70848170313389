------------------------------ MODULE MCTxDate ------------------------------
(* All pairs of instants within Hours hours, for the comparisons of TxDate. *)
EXTENDS TxDate

CONSTANT Hours

VARIABLES x, y

Init == x = 0 /\ y = 0

Next == \/ x < Hours /\ x' = x + 1 /\ y' = y
        \/ y < Hours /\ y' = y + 1 /\ x' = x

Spec == Init /\ [][Next]_<<x, y>>

\* Outside the hour after noon the comparison of the inventory feeds is the
\* order of time, across noon and across midnight.
OrderedOutsideNoon == Hour(x) # 12 /\ Hour(y) # 12 => (Later(x, y) <=> x > y)

\* Dates of different days are ordered, whatever the hours: only the order
\* within one day can be wrong, for both comparisons.
DaysAreOrdered ==
  Midnight(x) # Midnight(y) => (Later(x, y) <=> x > y) /\ (LaterUTC(x, y) <=> x > y)

\* The comparison of the master data feeds is right within a half day.
OrderedWithinHalfDay ==
  Midnight(x) = Midnight(y) /\ (Hour(x) < 12 <=> Hour(y) < 12)
    => (LaterUTC(x, y) <=> x > y)

\* What the comment of the comparison promises.
ComparesDates == Later(x, y) <=> x > y
=============================================================================
