---------------------------- MODULE TxDateProofs ----------------------------
(* Theorems about the comparisons of TxDate, for every start and length. *)
EXTENDS MCTxDate, TLAPS

Instants == x \in Nat /\ y \in Nat

LEMMA InstantsInductive == Spec => []Instants
<1>1. Init => Instants BY DEF Init, Instants
<1>2. Instants /\ [Next]_<<x, y>> => Instants' BY DEF Instants, Next
<1> QED BY <1>1, <1>2, PTL DEF Spec

LEMMA HourRange ==
  ASSUME NEW t \in Nat
  PROVE  /\ Hour(t) \in 0..23
         /\ Midnight(t) \in Int
         /\ Midnight(t) + Hour(t) = StartHour + t
BY StartHourAssumption DEF Hour, Midnight

\* Two different midnights are a day or more apart.
LEMMA MidnightsApart ==
  ASSUME NEW a \in Nat, NEW b \in Nat, Midnight(a) > Midnight(b)
  PROVE  Midnight(a) >= Midnight(b) + 24
<1> DEFINE p == StartHour + a
           q == StartHour + b
<1>1. p \in Nat /\ q \in Nat BY StartHourAssumption
<1>2. p - (p % 24) = 24 * (p \div 24) /\ q - (q % 24) = 24 * (q \div 24)
  <2> HIDE DEF p, q
  <2> QED BY <1>1
<1>3. p \div 24 \in Int /\ q \div 24 \in Int
  <2> HIDE DEF p, q
  <2> QED BY <1>1
<1> QED BY <1>2, <1>3 DEF Midnight, Hour

\* The comparison the inventory feeds use is the order of time between any two
\* instants outside the hour after noon, however far apart.
THEOREM NoonIsTheOnlyHour == Spec => []OrderedOutsideNoon
<1>1. Instants => OrderedOutsideNoon
  <2> SUFFICES ASSUME Instants, Hour(x) # 12, Hour(y) # 12 PROVE Later(x, y) <=> x > y
    BY DEF OrderedOutsideNoon
  <2>1. Parsed(x) = StartHour + x /\ Parsed(y) = StartHour + y
    BY HourRange DEF Instants, Parsed
  <2> QED BY <2>1, StartHourAssumption DEF Instants, Later
<1> QED BY <1>1, InstantsInductive, PTL

\* Both comparisons order any two instants of different days.
THEOREM DaysOrdered == Spec => []DaysAreOrdered
<1>1. ASSUME Instants PROVE DaysAreOrdered
  <2> SUFFICES ASSUME Midnight(x) # Midnight(y)
               PROVE  (Later(x, y) <=> x > y) /\ (LaterUTC(x, y) <=> x > y)
    BY DEF DaysAreOrdered
  <2>1. /\ Hour(x) \in 0..23 /\ Hour(y) \in 0..23
        /\ Midnight(x) \in Int /\ Midnight(y) \in Int
        /\ Midnight(x) + Hour(x) = StartHour + x /\ Midnight(y) + Hour(y) = StartHour + y
    BY <1>1, HourRange DEF Instants
  <2>2. Midnight(x) >= Midnight(y) + 24 \/ Midnight(y) >= Midnight(x) + 24
    BY <1>1, <2>1, MidnightsApart DEF Instants
  <2>3. \A h \in 0..23 : h % 12 \in 0..23 OBVIOUS
  <2>4. Hour(x) % 12 \in 0..23 /\ Hour(y) % 12 \in 0..23 BY <2>1, <2>3
  <2> QED BY <1>1, <2>1, <2>2, <2>4, StartHourAssumption
          DEF Instants, Later, LaterUTC, Parsed, Reparsed
<1> QED BY <1>1, InstantsInductive, PTL

\* Within a half day the hours of a twelve hour clock are in order.
THEOREM HalfDaysOrdered == Spec => []OrderedWithinHalfDay
<1>1. ASSUME Instants PROVE OrderedWithinHalfDay
  <2> SUFFICES ASSUME Midnight(x) = Midnight(y), Hour(x) < 12 <=> Hour(y) < 12
               PROVE  LaterUTC(x, y) <=> x > y
    BY DEF OrderedWithinHalfDay
  <2>1. /\ Hour(x) \in 0..23 /\ Hour(y) \in 0..23 /\ Midnight(x) \in Int
        /\ Midnight(x) + Hour(x) = StartHour + x /\ Midnight(x) + Hour(y) = StartHour + y
    BY <1>1, HourRange DEF Instants
  <2>2. \A h \in 0..23 : h % 12 = IF h < 12 THEN h ELSE h - 12 OBVIOUS
  <2>3. /\ Hour(x) % 12 = IF Hour(x) < 12 THEN Hour(x) ELSE Hour(x) - 12
        /\ Hour(y) % 12 = IF Hour(y) < 12 THEN Hour(y) ELSE Hour(y) - 12
    BY <2>1, <2>2
  <2>4. Reparsed(y) - Reparsed(x) = Hour(y) - Hour(x)
    BY <2>1, <2>3 DEF Reparsed
  <2> QED BY <1>1, <2>1, <2>4, StartHourAssumption DEF Instants, LaterUTC
<1> QED BY <1>1, InstantsInductive, PTL
=============================================================================
