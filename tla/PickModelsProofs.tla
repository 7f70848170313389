-------------------------- MODULE PickModelsProofs --------------------------
(***************************************************************************)
(* For shipments of any length and lines of any size: the operations of a  *)
(* pick session move units between required and short and lose none, no    *)
(* line is picked beyond its order, no missing piece hides behind a        *)
(* reason, and the model of a finished shipment accounts for its units.    *)
(* The loops over the lines, of what is shown and of what is noted, do     *)
(* what their properties say for every list of lines.                      *)
(*                                                                         *)
(* Inductive is that each line is Fine: a shortage is a natural number     *)
(* because no more was picked than ordered, and a line with a reason was   *)
(* cut to what was picked.  Each operation is proved for one line, then    *)
(* for the shipment.                                                       *)
(***************************************************************************)
EXTENDS PickModels, SequenceTheorems, DataInduction, TLAPS

Fine(l) == /\ l \in ShipmentLine /\ Number(l.picked) <= OfQty(l)
           /\ l.reason # Void => ~Missing(l)
IInv == TypeOK /\ \A i \in DOMAIN lines : Fine(lines[i])

-----------------------------------------------------------------------------
(* One line *)

LEMMA Numbers ==
  /\ \A v \in Nat \cup {Void} : Number(v) \in Nat
  /\ \A n \in Nat : Number(n) = n
BY VoidAssumption DEF Number

LEMMA LineNumbers ==
  ASSUME NEW l \in ShipmentLine
  PROVE  /\ l.qty \in Nat /\ Number(l.picked) \in Nat /\ Number(l.short) \in Nat
         /\ OfQty(l) \in Nat /\ OfQty(l) = l.qty + Number(l.short)
<1>1. l.qty \in Nat /\ l.picked \in Nat \cup {Void} /\ l.short \in Nat \cup {Void}
  BY DEF ShipmentLine
<1>2. Number(l.picked) \in Nat /\ Number(l.short) \in Nat BY <1>1, Numbers
<1>3. OfQty(l) = l.qty + Number(l.short) BY DEF OfQty
<1> QED BY <1>1, <1>2, <1>3

LEMMA ScannedLine ==
  ASSUME NEW l \in ShipmentLine, Fine(l), NEW n \in Nat, NEW s, s = ProcessScanned(n, l),
         ValidateScannedQuantity(s), NEW m, m = Stored(s, PickedChange(s))
  PROVE  Fine(m) /\ OfQty(m) = OfQty(l)
<1> DEFINE p == Number(l.picked) + n
<1>1. p \in Nat BY LineNumbers
<1>2. s \in ShipmentLine /\ s.picked = p /\ s.qty = l.qty /\ s.short = l.short
      /\ s.reason = l.reason
  BY <1>1 DEF ProcessScanned, ShipmentLine
<1>3. Number(p) = p BY <1>1, Numbers
<1>4. PickedChange(s) = Change(p, Void, Void) BY <1>2, <1>3 DEF PickedChange
<1>5. p <= OfQty(s) BY <1>2 DEF ValidateScannedQuantity
<1>a. s.qty \in Nat /\ s.short \in Nat \cup {Void} BY <1>2 DEF ShipmentLine
<1>b. m = [s EXCEPT !.picked = p, !.qty = s.qty, !.short = s.short]
  BY <1>4 DEF Stored, Change
<1>6. m \in ShipmentLine /\ m.picked = p /\ m.qty = l.qty /\ m.short = l.short
      /\ m.reason = l.reason
  BY <1>1, <1>2, <1>a, <1>b DEF ShipmentLine
<1>c. l.reason # Void => p >= l.qty
  BY LineNumbers DEF Fine, Missing
<1>d. l.qty \in Nat BY LineNumbers
<1>7. OfQty(s) = l.qty + Number(l.short) /\ OfQty(l) = l.qty + Number(l.short)
  BY <1>2 DEF OfQty
<1> HIDE DEF p
<1>8. m.qty + Number(m.short) = OfQty(l) BY <1>6, <1>7
<1>9. Number(m.picked) <= OfQty(l) BY <1>3, <1>5, <1>6, <1>7
<1>e. m.reason # Void => ~Missing(m) BY <1>1, <1>3, <1>6, <1>c, <1>d DEF Missing
<1> QED BY <1>6, <1>8, <1>9, <1>e DEF Fine, OfQty

LEMMA ShortLine ==
  ASSUME NEW l \in ShipmentLine, Fine(l), NEW reason \in Reason,
         NEW m, m = Shortened(l, reason)
  PROVE  Fine(m) /\ OfQty(m) = OfQty(l)
<1> DEFINE n == Number(l.picked)
           t == (l.qty - n) + Number(l.short)
           k == Stored(l, ShortageChange(l, reason))
<1>1. n \in Nat /\ l.qty \in Nat /\ Number(l.short) \in Nat /\ n <= OfQty(l)
      /\ OfQty(l) = l.qty + Number(l.short)
  BY LineNumbers DEF Fine
<1>2. t \in Nat /\ n + t = OfQty(l) BY <1>1
<1>3. ShortageChange(l, reason) = Change(n, n, t) BY DEF ShortageChange, Reason
<1> HIDE DEF n, t
<1>a. n # Void /\ t # Void BY <1>1, <1>2, VoidAssumption
<1>b. k = [l EXCEPT !.picked = n, !.qty = n, !.short = t] BY <1>3, <1>a DEF Stored, Change, k
<1>4. k \in ShipmentLine /\ k.picked = n /\ k.qty = n /\ k.short = t
  BY <1>1, <1>2, <1>b DEF ShipmentLine
<1>5. m = [k EXCEPT !.reason = reason] BY DEF Shortened
<1> HIDE DEF k
<1>6. m \in ShipmentLine /\ m.picked = n /\ m.qty = n /\ m.short = t
  BY <1>4, <1>5 DEF ShipmentLine
<1>7. Number(n) = n /\ Number(t) = t BY <1>1, <1>2, Numbers
<1>8. m.qty + Number(m.short) = OfQty(l) BY <1>2, <1>6, <1>7
<1>9. Number(m.picked) <= OfQty(l) BY <1>1, <1>6, <1>7 DEF n
<1>c. ~Missing(m) BY <1>1, <1>6, <1>7 DEF Missing
<1> QED BY <1>6, <1>8, <1>9, <1>c DEF Fine, OfQty

LEMMA AllLine ==
  ASSUME NEW l \in ShipmentLine, NEW m, m = Stored(l, PickedAllChange(l))
  PROVE  Fine(m) /\ OfQty(m) = OfQty(l)
<1>1. l.qty \in Nat /\ Number(l.short) \in Nat /\ OfQty(l) = l.qty + Number(l.short)
  BY LineNumbers
<1>2. m = Stored(l, Change(l.qty, Void, Void)) BY DEF PickedAllChange
<1>a. l.short \in Nat \cup {Void} BY DEF ShipmentLine
<1>b. m = [l EXCEPT !.picked = l.qty, !.qty = l.qty, !.short = l.short]
  BY <1>2 DEF Stored, Change
<1>3. m \in ShipmentLine /\ m.picked = l.qty /\ m.qty = l.qty /\ m.short = l.short
  BY <1>1, <1>a, <1>b DEF ShipmentLine
<1>4. Number(l.qty) = l.qty BY <1>1, Numbers
<1>5. m.qty + Number(m.short) = OfQty(l) BY <1>1, <1>3
<1>6. Number(m.picked) <= OfQty(l) BY <1>1, <1>3, <1>4
<1>7. ~Missing(m) BY <1>1, <1>3, <1>4 DEF Missing
<1> QED BY <1>3, <1>5, <1>6, <1>7 DEF Fine, OfQty

LEMMA AgainLine ==
  ASSUME NEW l \in ShipmentLine, Fine(l), NEW m, m = Restarted(l)
  PROVE  Fine(m) /\ OfQty(m) = OfQty(l)
<1> DEFINE p == IF Number(l.short) > 0 THEN l.picked ELSE 0
<1>1. l.qty \in Nat /\ Number(l.short) \in Nat /\ l.picked \in Nat \cup {Void}
      /\ OfQty(l) = l.qty + Number(l.short)
  BY LineNumbers DEF ShipmentLine
<1> DEFINE k == Stored(l, StartOverChange(l))
<1>2. k = Stored(l, Change(p, Void, Void)) /\ m = [k EXCEPT !.reason = Void]
  BY DEF StartOverChange, Restarted
<1>3. p \in Nat \cup {Void} /\ Number(p) <= OfQty(l) BY <1>1, Numbers DEF Fine
<1> HIDE DEF p
<1>a. l.short \in Nat \cup {Void} BY DEF ShipmentLine
<1> HIDE DEF k
<1>b. k = [l EXCEPT !.picked = p, !.qty = l.qty, !.short = l.short]
  BY <1>2 DEF Stored, Change
<1>c. k \in ShipmentLine /\ k.picked = p /\ k.qty = l.qty /\ k.short = l.short
  BY <1>1, <1>3, <1>a, <1>b DEF ShipmentLine
<1>4. m \in ShipmentLine /\ m.picked = p /\ m.qty = l.qty /\ m.short = l.short /\ m.reason = Void
  BY <1>2, <1>c DEF ShipmentLine
<1>5. m.qty + Number(m.short) = OfQty(l) BY <1>1, <1>4
<1>6. Number(m.picked) <= OfQty(l) BY <1>3, <1>4
<1> QED BY <1>4, <1>5, <1>6 DEF Fine, OfQty

-----------------------------------------------------------------------------
(* The session *)

LEMMA LinesAreFine == IInv => \A i \in DOMAIN lines : lines[i] \in ShipmentLine /\ Fine(lines[i])
BY DEF IInv, Fine

\* What an operation does to line i of the shipment.
LEMMA OneKeeps ==
  ASSUME IInv, NEW i \in DOMAIN lines, NEW m, Fine(m), OfQty(m) = OfQty(lines[i]),
         lines' = [lines EXCEPT ![i] = m], steps' \in 0..MaxSteps
  PROVE  IInv' /\ \A k \in DOMAIN lines : OfQty(lines'[k]) = OfQty(lines[k])
<1>1. lines \in Seq(ShipmentLine) BY DEF IInv, TypeOK
<1>2. \A k \in DOMAIN lines : lines'[k] = IF k = i THEN m ELSE lines[k] BY <1>1
<1>3. lines' \in Seq(ShipmentLine) /\ DOMAIN lines' = DOMAIN lines BY <1>1 DEF Fine
<1>4. \A k \in DOMAIN lines' : Fine(lines'[k]) BY <1>2, <1>3, LinesAreFine
<1>5. IInv' BY <1>3, <1>4 DEF IInv, TypeOK, Fine, Missing, Number, OfQty
<1> QED BY <1>2, <1>5

\* What an operation does to all lines.
LEMMA AllKeeps ==
  ASSUME IInv, lines' = [i \in DOMAIN lines |-> lines'[i]], steps' \in 0..MaxSteps,
         \A i \in DOMAIN lines : Fine(lines'[i]) /\ OfQty(lines'[i]) = OfQty(lines[i])
  PROVE  IInv' /\ \A k \in DOMAIN lines : OfQty(lines'[k]) = OfQty(lines[k])
<1>1. lines \in Seq(ShipmentLine) /\ DOMAIN lines = 1..Len(lines) /\ Len(lines) \in Nat
  BY DEF IInv, TypeOK
<1>2. lines' = [i \in 1..Len(lines) |-> lines'[i]] BY <1>1
<1>3. \A i \in 1..Len(lines) : lines'[i] \in ShipmentLine BY <1>1 DEF Fine
<1>4. lines' \in Seq(ShipmentLine) /\ DOMAIN lines' = DOMAIN lines BY <1>1, <1>2, <1>3
<1>5. \A k \in DOMAIN lines' : Fine(lines'[k]) BY <1>4
<1>6. IInv' BY <1>4, <1>5 DEF IInv, TypeOK, Fine, Missing, Number, OfQty
<1> QED BY <1>6

\* Every operation keeps the invariant and what was ordered of the lines there are.
LEMMA StepKeeps ==
  ASSUME IInv, Next
  PROVE  IInv' /\ \A k \in DOMAIN lines : OfQty(lines'[k]) = OfQty(lines[k])
<1>a. \A i \in DOMAIN lines : lines[i] \in ShipmentLine /\ Fine(lines[i]) BY LinesAreFine
<1>b. Step => steps' \in 0..MaxSteps BY StepsAssumption DEF Step, IInv, TypeOK
<1>1. ASSUME NEW l \in Opening, Load(l) PROVE IInv' /\ \A k \in DOMAIN lines : OfQty(lines'[k]) = OfQty(lines[k])
  <2>1. lines \in Seq(ShipmentLine) /\ Len(lines) \in Nat BY DEF IInv, TypeOK
  <2>2. l \in ShipmentLine /\ Fine(l)
    <3>1. l \in ShipmentLine /\ Number(l.picked) <= l.qty
      BY StepsAssumption DEF Opening, ShipmentLine
    <3>2. l.reason = Void BY DEF Opening
    <3> QED BY <3>1, <3>2, LineNumbers DEF Fine
  <2>3. lines' = Append(lines, l) BY <1>1 DEF Load
  <2>4. lines' \in Seq(ShipmentLine) BY <2>1, <2>2, <2>3
  <2>5. \A k \in DOMAIN lines' : lines'[k] = IF k = Len(lines) + 1 THEN l ELSE lines[k]
    BY <2>1, <2>2, <2>3
  <2>6. DOMAIN lines' = 1..(Len(lines) + 1) /\ DOMAIN lines = 1..Len(lines) BY <2>1, <2>2, <2>3
  <2>7. \A k \in DOMAIN lines' : Fine(lines'[k]) BY <1>a, <2>2, <2>5, <2>6
  <2>8. IInv' BY <1>1, <1>b, <2>4, <2>7 DEF IInv, TypeOK, Fine, Missing, Load, Number, OfQty
  <2>9. \A k \in DOMAIN lines : lines'[k] = lines[k] BY <2>1, <2>5, <2>6
  <2> QED BY <2>8, <2>9
<1>2. ASSUME NEW i \in DOMAIN lines \cup {NoLine}, NEW n \in 1..2, Scan(i, n)
      PROVE  IInv' /\ \A k \in DOMAIN lines : OfQty(lines'[k]) = OfQty(lines[k])
  <2> DEFINE s == ProcessScanned(n, lines[i])
             shown == i # NoLine /\ ~lines[i].bundle
  <2>1. CASE shown /\ ValidateScannedQuantity(s)
    <3>1. lines' = [lines EXCEPT ![i] = Stored(s, PickedChange(s))] /\ i \in DOMAIN lines
      BY <1>2, <2>1 DEF Scan
    <3>2. Fine(Stored(s, PickedChange(s))) /\ OfQty(Stored(s, PickedChange(s))) = OfQty(lines[i])
      BY <1>a, <2>1, ScannedLine
    <3> QED BY <1>2, <1>b, <3>1, <3>2, OneKeeps DEF Scan
  <2>2. CASE ~(shown /\ ValidateScannedQuantity(s))
    <3>1. lines' = lines BY <1>2, <2>2 DEF Scan
    <3> QED BY <1>2, <1>b, <3>1 DEF Scan, IInv, TypeOK, Fine, Missing, Number, OfQty
  <2> QED BY <2>1, <2>2
<1>3. ASSUME NEW i \in DOMAIN lines, NEW reason \in Reason, MarkShort(i, reason)
      PROVE  IInv' /\ \A k \in DOMAIN lines : OfQty(lines'[k]) = OfQty(lines[k])
  <2> DEFINE m == Shortened(lines[i], reason)
  <2>1. lines' = [lines EXCEPT ![i] = m] BY <1>3 DEF MarkShort
  <2>2. Fine(m) /\ OfQty(m) = OfQty(lines[i]) BY <1>a, ShortLine
  <2> QED BY <1>3, <1>b, <2>1, <2>2, OneKeeps DEF MarkShort
<1>6. ASSUME NEW i \in DOMAIN lines, NEW reason \in Reason, MarkAllShort(i, reason)
      PROVE  IInv' /\ \A k \in DOMAIN lines : OfQty(lines'[k]) = OfQty(lines[k])
  <2> DEFINE m(k) == IF Missing(lines[k]) THEN Shortened(lines[k], reason) ELSE lines[k]
  <2>1. lines' = [k \in DOMAIN lines |-> m(k)] /\ Step BY <1>6 DEF MarkAllShort
  <2>2. \A k \in DOMAIN lines : Fine(m(k)) /\ OfQty(m(k)) = OfQty(lines[k])
    BY <1>a, ShortLine
  <2>3. \A k \in DOMAIN lines : lines'[k] = m(k) BY <2>1
  <2> HIDE DEF m
  <2>4. lines' = [k \in DOMAIN lines |-> lines'[k]] BY <2>1, <2>3
  <2> QED BY <1>b, <2>1, <2>2, <2>3, <2>4, AllKeeps
<1>4. CASE PickAll
  <2>1. lines' = [i \in DOMAIN lines |-> Stored(lines[i], PickedAllChange(lines[i]))] /\ Step
    BY <1>4 DEF PickAll
  <2>2. \A i \in DOMAIN lines : lines'[i] = Stored(lines[i], PickedAllChange(lines[i])) BY <2>1
  <2>3. \A i \in DOMAIN lines : Fine(lines'[i]) /\ OfQty(lines'[i]) = OfQty(lines[i])
    BY <1>a, <2>2, AllLine
  <2> QED BY <1>b, <2>1, <2>3, AllKeeps
<1>5. CASE StartOver
  <2>1. lines' = [i \in DOMAIN lines |-> Restarted(lines[i])] /\ Step
    BY <1>5 DEF StartOver
  <2>2. \A i \in DOMAIN lines : lines'[i] = Restarted(lines[i]) BY <2>1
  <2>3. \A i \in DOMAIN lines : Fine(lines'[i]) /\ OfQty(lines'[i]) = OfQty(lines[i])
    BY <1>a, <2>2, AgainLine
  <2> QED BY <1>b, <2>1, <2>3, AllKeeps
<1> QED BY <1>1, <1>2, <1>3, <1>4, <1>5, <1>6 DEF Next

LEMMA InitOK == Init => IInv
BY StepsAssumption DEF Init, IInv, TypeOK

LEMMA StutterOK == IInv /\ UNCHANGED vars => IInv'
BY DEF vars, IInv, TypeOK, Fine, Missing, Number, OfQty

LEMMA Inductive == Spec => []IInv
<1>1. IInv /\ [Next]_vars => IInv' BY StepKeeps, StutterOK
<1> QED BY InitOK, <1>1, PTL DEF Spec

-----------------------------------------------------------------------------
(* The lines that are shown: the loop is a fold, a recursion on the number  *)
(* of its turns *)

State == [j : Nat \ {0}, left : Seq(Nat)]
Start(ls) == [j |-> 1, left |-> [i \in DOMAIN ls |-> i]]
Turns(ls) == CHOOSE iter : iter = [T \in SUBSET DOMAIN ls |->
               IF T = {} THEN Start(ls) ELSE Spliced(iter[T \ {Max(T)}], ls)]

LEMMA Removed ==
  ASSUME NEW s \in Seq(Nat), NEW i \in 1..Len(s)
  PROVE  /\ RemoveAt(s, i) \in Seq(Nat) /\ Len(RemoveAt(s, i)) = Len(s) - 1
         /\ \A k \in 1..(Len(s) - 1) :
              RemoveAt(s, i)[k] = IF k < i THEN s[k] ELSE s[k + 1]
<1> DEFINE r == RemoveAt(s, i)
           u == SubSeq(s, 1, i - 1)
           v == SubSeq(s, i + 1, Len(s))
<1>1. /\ u \in Seq(Nat) /\ Len(u) = i - 1
      /\ \A k \in 1..(i - 1) : u[k] = s[k]
  <2>1. \A k \in 1..(i - 1) : s[k] \in Nat OBVIOUS
  <2>2. (IF 1 <= i - 1 THEN (i - 1) - 1 + 1 ELSE 0) = i - 1 OBVIOUS
  <2>3. \A k \in 1..(i - 1) : 1 + k - 1 = k OBVIOUS
  <2> QED BY <2>1, <2>2, <2>3, SubSeqProperties
<1>2. /\ v \in Seq(Nat) /\ Len(v) = Len(s) - i
      /\ \A k \in 1..(Len(s) - i) : v[k] = s[i + k]
  <2>1. \A k \in (i + 1)..Len(s) : s[k] \in Nat OBVIOUS
  <2>2. (IF i + 1 <= Len(s) THEN Len(s) - (i + 1) + 1 ELSE 0) = Len(s) - i OBVIOUS
  <2>3. \A k \in 1..(Len(s) - i) : (i + 1) + k - 1 = i + k OBVIOUS
  <2> QED BY <2>1, <2>2, <2>3, SubSeqProperties
<1> DEFINE w == u \o v
<1>3. r = w BY DEF RemoveAt
<1> HIDE DEF u, v, r
<1>4. /\ w \in Seq(Nat) /\ Len(w) = Len(u) + Len(v)
      /\ \A k \in 1..(Len(u) + Len(v)) : w[k] = IF k <= Len(u) THEN u[k] ELSE v[k - Len(u)]
  BY <1>1, <1>2, ConcatProperties
<1> HIDE DEF w
<1>5. ASSUME NEW k \in 1..(Len(s) - 1) PROVE r[k] = IF k < i THEN s[k] ELSE s[k + 1]
  <2>a. k \in 1..(Len(u) + Len(v)) /\ Len(u) = i - 1 /\ i \in Int BY <1>1, <1>2
  <2>1. CASE k < i
    <3>1. k <= Len(u) /\ k \in 1..(i - 1) BY <2>a, <2>1
    <3> QED BY <1>1, <1>3, <1>4, <2>a, <2>1, <3>1
  <2>2. CASE k >= i
    <3>1. k - Len(u) \in 1..(Len(s) - i) /\ i + (k - Len(u)) = k + 1 /\ ~(k <= Len(u))
      BY <1>1, <1>2, <2>a, <2>2
    <3>2. r[k] = v[k - Len(u)] BY <1>3, <1>4, <2>a, <3>1
    <3>3. v[k - Len(u)] = s[i + (k - Len(u))] BY <1>2, <3>1
    <3>4. ~(k < i) BY <2>a, <2>2
    <3> QED BY <3>1, <3>2, <3>3, <3>4
  <2> QED BY <2>a, <2>1, <2>2
<1> QED BY <1>1, <1>2, <1>3, <1>4, <1>5 DEF r

LEMMA SplicedType == ASSUME NEW at \in State, NEW ls PROVE Spliced(at, ls) \in State
<1>1. at.j \in Nat \ {0} /\ at.left \in Seq(Nat) BY DEF State
<1>2. at.j + 1 \in Nat \ {0} BY <1>1
<1>3. at.j <= Len(at.left) => RemoveAt(at.left, at.j) \in Seq(Nat) BY <1>1, Removed
<1>4. at.j <= Len(at.left) \/ at.j > Len(at.left) BY <1>1
<1> QED BY <1>1, <1>2, <1>3, <1>4 DEF Spliced, State

\* The loop as a recursion on the turns.
LEMMA TurnsEquation ==
  ASSUME NEW ls \in Seq(ShipmentLine)
  PROVE  /\ DisplayModel(ls) = Turns(ls)[DOMAIN ls].left
         /\ Turns(ls)[{}] = Start(ls)
         /\ \A t \in 1..Len(ls) :
              Turns(ls)[1..t] = Spliced(Turns(ls)[1..(t - 1)], ls)
<1> DEFINE n == Len(ls)
           F == [p \in State \X (1..n) |-> Spliced(p[1], ls)]
           Next1(g) == [T \in SUBSET DOMAIN ls |->
                          IF T = {} THEN Start(ls) ELSE Spliced(g[T \ {Max(T)}], ls)]
<1>1. DisplayModel(ls) = Turns(ls)[DOMAIN ls].left
  BY DEF DisplayModel, FoldLeft, MapThenFoldSet, Turns, Start
<1>2. n \in Nat /\ DOMAIN ls = 1..n OBVIOUS
<1>3. Start(ls) \in State
  <2>1. [i \in 1..n |-> i] \in Seq(Nat) BY <1>2
  <2> QED BY <1>2, <2>1 DEF Start, State
<1>4. F \in [State \X (1..n) -> State] BY SplicedType
<1>a. PICK g : FoldsLeft(g, n, State, Start(ls), F)
  <2> HIDE DEF F
  <2> QED BY <1>2, <1>3, <1>4, FoldRecursion
<1>5. /\ g \in [SUBSET (1..n) -> State]
      /\ \A T \in SUBSET (1..n) :
           g[T] = IF T = {} THEN Start(ls) ELSE F[<<g[T \ {Max(T)}], Max(T)>>]
  <2> HIDE DEF F
  <2> QED BY <1>a DEF FoldsLeft
<1>6. ASSUME NEW T \in SUBSET (1..n), T # {}
      PROVE  F[<<g[T \ {Max(T)}], Max(T)>>] = Spliced(g[T \ {Max(T)}], ls)
  <2>1. Max(T) \in 1..n BY <1>2, <1>6, GreatestNumber
  <2>2. g[T \ {Max(T)}] \in State BY <1>5
  <2> QED BY <2>1, <2>2
<1>7. g = Next1(g)
  <2>1. g = [T \in SUBSET (1..n) |-> g[T]] BY <1>5
  <2> HIDE DEF F
  <2> QED BY <1>2, <1>5, <1>6, <2>1
<1> DEFINE h == Turns(ls)
<1>8. h = Next1(h) BY <1>7, Zenon DEF Turns
<1> HIDE DEF h
<1>9. \A T \in SUBSET (1..n) : h[T] = IF T = {} THEN Start(ls) ELSE Spliced(h[T \ {Max(T)}], ls)
  BY <1>2, <1>8
<1>10. ASSUME NEW t \in 1..n PROVE h[1..t] = Spliced(h[1..(t - 1)], ls)
  <2>1. Max(1..t) = t /\ (1..t) \ {t} = 1..(t - 1) BY GreatestOfRange
  <2>2. 1..t \in SUBSET (1..n) /\ t \in 1..t BY <1>2
  <2>3. 1..t # {} BY <2>2
  <2> QED BY <1>9, <2>1, <2>2, <2>3
<1> QED BY <1>1, <1>9, <1>10 DEF h

\* After t turns the lines up to t are sorted out, the others untouched; j is the
\* first of those.
Turned(at, ls, t) ==
  LET n == Len(at.left) IN
  /\ at \in State
  /\ at.j - 1 <= n /\ n - (at.j - 1) = Len(ls) - t
  /\ \A a \in at.j..n : at.left[a] = t + 1 + (a - at.j)
  /\ \A a \in 1..(at.j - 1) : at.left[a] \in 1..t /\ ~Hidden(ls[at.left[a]])
  /\ \A a, b \in 1..(at.j - 1) : a < b => at.left[a] < at.left[b]
  /\ \A i \in 1..t : ~Hidden(ls[i]) => \E a \in 1..(at.j - 1) : at.left[a] = i

LEMMA OneTurn ==
  ASSUME NEW ls \in Seq(ShipmentLine), NEW t \in 0..(Len(ls) - 1), NEW at, Turned(at, ls, t)
  PROVE  Turned(Spliced(at, ls), ls, t + 1)
<1> DEFINE n == Len(at.left)
           j == at.j
           left == at.left
           to == Spliced(at, ls)
<1>1. /\ Len(ls) \in Nat /\ t \in Nat /\ t < Len(ls) /\ at \in State
      /\ j \in Nat \ {0} /\ left \in Seq(Nat) /\ n \in Nat /\ n = Len(left)
  BY DEF Turned, State
<1>2. /\ n - (j - 1) = Len(ls) - t /\ j <= n
      /\ \A a \in j..n : left[a] = t + 1 + (a - j)
      /\ \A a \in 1..(j - 1) : left[a] \in 1..t /\ ~Hidden(ls[left[a]])
      /\ \A a, b \in 1..(j - 1) : a < b => left[a] < left[b]
      /\ \A i \in 1..t : ~Hidden(ls[i]) => \E a \in 1..(j - 1) : left[a] = i
  <2>1. n - (j - 1) = Len(ls) - t BY DEF Turned
  <2>2. j <= n BY <1>1, <2>1
  <2> QED BY <2>1, <2>2 DEF Turned
<1> HIDE DEF n, j, left
<1>3. left[j] = t + 1 /\ ~(j > n) BY <1>1, <1>2
<1>4. to \in State BY <1>1, SplicedType
<1>5. CASE Hidden(ls[t + 1])
  <2> DEFINE r == RemoveAt(left, j)
  <2>1. to = [at EXCEPT !.left = r] BY <1>3, <1>5 DEF Spliced, n, j, left
  <2>2. /\ Len(r) = n - 1
        /\ \A k \in 1..(n - 1) : r[k] = IF k < j THEN left[k] ELSE left[k + 1]
    <3>1. j \in 1..Len(left) /\ n = Len(left) BY <1>1, <1>2
    <3> QED BY <1>1, <3>1, Removed
  <2> HIDE DEF r
  <2>3. to.j = j /\ to.left = r BY <1>1, <2>1 DEF State, j
  <2> HIDE DEF to
  <2>4. \A a \in j..(n - 1) : r[a] = (t + 1) + 1 + (a - j)
    <3> SUFFICES ASSUME NEW a \in j..(n - 1) PROVE r[a] = (t + 1) + 1 + (a - j) OBVIOUS
    <3>1. a + 1 \in j..n /\ a \in 1..(n - 1) /\ ~(a < j) BY <1>1
    <3>2. left[a + 1] = t + 1 + ((a + 1) - j) BY <1>2, <3>1
    <3> QED BY <1>1, <2>2, <3>1, <3>2
  <2>5. \A a \in 1..(j - 1) : r[a] = left[a]
    <3> SUFFICES ASSUME NEW a \in 1..(j - 1) PROVE r[a] = left[a] OBVIOUS
    <3>1. a \in 1..(n - 1) /\ a < j BY <1>1, <1>2
    <3> QED BY <2>2, <3>1
  <2>6. \A i \in 1..(t + 1) : ~Hidden(ls[i]) => \E a \in 1..(j - 1) : r[a] = i
    <3> SUFFICES ASSUME NEW i \in 1..(t + 1), ~Hidden(ls[i])
                 PROVE  \E a \in 1..(j - 1) : r[a] = i
      OBVIOUS
    <3>1. i \in 1..t BY <1>1, <1>5
    <3>2. PICK a \in 1..(j - 1) : left[a] = i BY <1>2, <3>1
    <3> QED BY <2>5, <3>2
  <2>7. \A a \in 1..(j - 1) : r[a] \in 1..(t + 1) /\ ~Hidden(ls[r[a]]) BY <1>1, <1>2, <2>5
  <2>8. \A a, b \in 1..(j - 1) : a < b => r[a] < r[b] BY <1>2, <2>5
  <2>9. j - 1 <= n - 1 /\ (n - 1) - (j - 1) = Len(ls) - (t + 1) BY <1>1, <1>2
  <2>10. to.j \in Nat /\ Len(to.left) = n - 1 BY <1>1, <2>2, <2>3
  <2>11. \A a \in to.j..Len(to.left) : to.left[a] = (t + 1) + 1 + (a - to.j)
    BY <2>3, <2>4, <2>10
  <2>12. /\ to.j - 1 <= Len(to.left) /\ Len(to.left) - (to.j - 1) = Len(ls) - (t + 1)
         /\ \A a \in 1..(to.j - 1) : to.left[a] \in 1..(t + 1) /\ ~Hidden(ls[to.left[a]])
         /\ \A a, b \in 1..(to.j - 1) : a < b => to.left[a] < to.left[b]
         /\ \A i \in 1..(t + 1) : ~Hidden(ls[i]) => \E a \in 1..(to.j - 1) : to.left[a] = i
    BY <2>3, <2>6, <2>7, <2>8, <2>9, <2>10
  <2>13. Turned(to, ls, t + 1) BY <1>4, <2>11, <2>12 DEF Turned
  <2> QED BY <2>13 DEF to
<1>6. CASE ~Hidden(ls[t + 1])
  <2>1. to = [at EXCEPT !.j = j + 1] BY <1>3, <1>6 DEF Spliced, n, j, left
  <2>2. to.j = j + 1 /\ to.left = left BY <1>1, <2>1 DEF State, j, left
  <2> HIDE DEF to
  <2>3. \A a \in (j + 1)..n : left[a] = (t + 1) + 1 + (a - (j + 1)) BY <1>1, <1>2
  <2>4. \A a \in 1..j : left[a] \in 1..(t + 1) /\ ~Hidden(ls[left[a]])
    BY <1>1, <1>2, <1>3, <1>6
  <2>5. \A a, b \in 1..j : a < b => left[a] < left[b] BY <1>1, <1>2, <1>3
  <2>6. \A i \in 1..(t + 1) : ~Hidden(ls[i]) => \E a \in 1..j : left[a] = i
    <3> SUFFICES ASSUME NEW i \in 1..(t + 1), ~Hidden(ls[i]) PROVE \E a \in 1..j : left[a] = i
      OBVIOUS
    <3>1. CASE i = t + 1 BY <1>1, <1>3, <3>1
    <3>2. CASE i # t + 1
      <4>1. i \in 1..t BY <1>1, <3>2
      <4>2. PICK a \in 1..(j - 1) : left[a] = i BY <1>2, <4>1
      <4> QED BY <1>1, <4>2
    <3> QED BY <3>1, <3>2
  <2>7. (j + 1) - 1 = j /\ j <= n /\ n - j = Len(ls) - (t + 1) BY <1>1, <1>2
  <2>8. Len(to.left) = n BY <1>1, <2>2
  <2>9. \A a \in to.j..Len(to.left) : to.left[a] = (t + 1) + 1 + (a - to.j)
    BY <2>2, <2>3, <2>8
  <2>10. /\ to.j - 1 <= Len(to.left) /\ Len(to.left) - (to.j - 1) = Len(ls) - (t + 1)
         /\ \A a \in 1..(to.j - 1) : to.left[a] \in 1..(t + 1) /\ ~Hidden(ls[to.left[a]])
         /\ \A a, b \in 1..(to.j - 1) : a < b => to.left[a] < to.left[b]
         /\ \A i \in 1..(t + 1) : ~Hidden(ls[i]) => \E a \in 1..(to.j - 1) : to.left[a] = i
    BY <1>1, <2>2, <2>4, <2>5, <2>6, <2>7, <2>8
  <2>11. Turned(to, ls, t + 1) BY <1>4, <2>9, <2>10 DEF Turned
  <2> QED BY <2>11 DEF to
<1> QED BY <1>5, <1>6

\* What is left is what is shown.
LEMMA TurnsFilter ==
  ASSUME NEW ls \in Seq(ShipmentLine)
  PROVE  Lists(DisplayModel(ls), {i \in DOMAIN ls : ~Hidden(ls[i])})
<1> DEFINE n == Len(ls)
           h == Turns(ls)
           S == {t \in Nat : Turned(h[1..t], ls, t)}
<1>1. n \in Nat /\ DOMAIN ls = 1..n OBVIOUS
<1>2. /\ DisplayModel(ls) = h[1..n].left /\ h[{}] = Start(ls)
      /\ \A t \in 1..n : h[1..t] = Spliced(h[1..(t - 1)], ls)
  BY <1>1, TurnsEquation
<1> HIDE DEF h
<1>3. 0 \in S
  <2> DEFINE left == [i \in 1..n |-> i]
  <2>1. h[1..0] = [j |-> 1, left |-> left] BY <1>1, <1>2 DEF Start
  <2>2. left \in Seq(Nat) /\ Len(left) = n BY <1>1
  <2>3. \A a \in 1..n : left[a] = a OBVIOUS
  <2> HIDE DEF left
  <2> QED BY <1>1, <2>1, <2>2, <2>3 DEF Turned, State
<1>4. ASSUME NEW t \in 0..(n - 1), t \in S PROVE t + 1 \in S
  <2>1. Turned(h[1..t], ls, t) BY <1>4
  <2>2. Turned(Spliced(h[1..t], ls), ls, t + 1) BY <2>1, OneTurn
  <2>3. t + 1 \in 1..n /\ (t + 1) - 1 = t BY <1>1
  <2>4. h[1..(t + 1)] = Spliced(h[1..t], ls) BY <1>2, <2>3
  <2> QED BY <2>2, <2>3, <2>4
<1>5. n \in S
  <2> HIDE DEF S, n
  <2>1. \A t \in 0..n : t \in S BY <1>1, <1>3, <1>4, RangeByInduction
  <2> QED BY <1>1, <2>1
<1> DEFINE at == h[1..n]
           d == at.left
<1>6. Turned(at, ls, n) BY <1>5
<1> HIDE DEF S, at
<1>7. Len(d) \in Nat /\ d \in Seq(Nat) /\ at.j \in Nat \ {0} BY <1>6 DEF Turned, State
<1>8. Len(d) = at.j - 1 /\ DOMAIN d = 1..Len(d) BY <1>1, <1>6, <1>7 DEF Turned
<1>9. /\ \A a \in DOMAIN d : d[a] \in 1..n /\ ~Hidden(ls[d[a]])
      /\ \A a, b \in DOMAIN d : a < b => d[a] < d[b]
      /\ \A i \in 1..n : ~Hidden(ls[i]) => \E a \in DOMAIN d : d[a] = i
  BY <1>6, <1>8 DEF Turned
<1>10. DisplayModel(ls) = d BY <1>2 DEF at
<1> HIDE DEF d
<1> QED BY <1>1, <1>9, <1>10 DEF Lists, ToSet

-----------------------------------------------------------------------------
(* The notes: a fold over the lines *)

Note == [order : Order, lines : Seq(Nat)]
Collects(ls) == CHOOSE iter : iter = [T \in SUBSET DOMAIN ls |->
                  IF T = {} THEN <<>> ELSE Noted(iter[T \ {Max(T)}], ls, Max(T))]
EntryOf(notes, o) == SelectInSeq(notes, LAMBDA n : n.order = o)

LEMMA EntryFound ==
  ASSUME NEW notes \in Seq(Note), NEW o
  PROVE  \/ EntryOf(notes, o) = 0 /\ \A n \in 1..Len(notes) : notes[n].order # o
         \/ EntryOf(notes, o) \in 1..Len(notes) /\ notes[EntryOf(notes, o)].order = o
<1> DEFINE I == {n \in 1..Len(notes) : notes[n].order = o}
<1>1. EntryOf(notes, o) = IF I # {} THEN Min(I) ELSE 0 BY DEF EntryOf, SelectInSeq
<1>2. I # {} => Min(I) \in I
  <2> SUFFICES ASSUME I # {} PROVE Min(I) \in I OBVIOUS
  <2>1. I \in SUBSET Nat OBVIOUS
  <2> HIDE DEF I
  <2> QED BY <2>1, LeastNumber DEF Min
<1> QED BY <1>1, <1>2

\* What one line does to the notes: nothing, a line more in an entry, an entry more.
OneMore(to, notes, ls, i) ==
  /\ to \in Seq(Note)
  /\ \/ ~Missing(ls[i]) /\ to = notes
     \/ /\ Missing(ls[i])
        /\ \E e \in 1..Len(notes) :
             /\ notes[e].order = ls[i].order /\ Len(to) = Len(notes)
             /\ \A n \in 1..Len(notes) \ {e} : to[n] = notes[n]
             /\ to[e].order = notes[e].order /\ to[e].lines = Append(notes[e].lines, i)
     \/ /\ Missing(ls[i]) /\ \A n \in 1..Len(notes) : notes[n].order # ls[i].order
        /\ Len(to) = Len(notes) + 1
        /\ \A n \in 1..Len(notes) : to[n] = notes[n]
        /\ to[Len(notes) + 1].order = ls[i].order /\ to[Len(notes) + 1].lines = <<i>>

LEMMA OneNoted ==
  ASSUME NEW notes \in Seq(Note), NEW ls \in Seq(ShipmentLine), NEW i \in 1..Len(ls)
  PROVE  OneMore(Noted(notes, ls, i), notes, ls, i)
<1> DEFINE to == Noted(notes, ls, i)
           o == ls[i].order
           e == EntryOf(notes, o)
           new == [order |-> o, lines |-> <<i>>]
<1>1. to = CASE ~Missing(ls[i]) -> notes
             [] Missing(ls[i]) /\ e > 0 -> [notes EXCEPT ![e].lines = Append(@, i)]
             [] OTHER -> Append(notes, new)
  BY DEF Noted, EntryOf, NoteForLine
<1>a. ls[i] \in ShipmentLine OBVIOUS
<1>b. o \in Order BY <1>a DEF ShipmentLine
<1>2. o \in Order /\ i \in Nat /\ Len(notes) \in Nat BY <1>b
<1>3. \/ e = 0 /\ \A n \in 1..Len(notes) : notes[n].order # o
      \/ e \in 1..Len(notes) /\ notes[e].order = o
  BY EntryFound
<1> HIDE DEF e, o, to
<1>4. CASE ~Missing(ls[i])
  <2>1. to = notes BY <1>1, <1>4
  <2> QED BY <1>4, <2>1 DEF OneMore, to
<1>5. CASE Missing(ls[i]) /\ e = 0
  <2>1. to = Append(notes, new) BY <1>1, <1>5
  <2>2. new \in Note /\ new.order = o /\ new.lines = <<i>> BY <1>2 DEF Note
  <2> HIDE DEF new
  <2>3. to \in Seq(Note) /\ Len(to) = Len(notes) + 1 /\ to[Len(notes) + 1] = new
        /\ \A n \in 1..Len(notes) : to[n] = notes[n]
    BY <2>1, <2>2, AppendProperties
  <2>4. OneMore(to, notes, ls, i) BY <1>3, <1>5, <2>2, <2>3 DEF OneMore, o
  <2> QED BY <2>4 DEF to
<1>6. CASE Missing(ls[i]) /\ e \in 1..Len(notes) /\ notes[e].order = o
  <2>1. to = [notes EXCEPT ![e] = [notes[e] EXCEPT !.lines = Append(notes[e].lines, i)]]
    BY <1>1, <1>2, <1>6
  <2>a. notes[e] \in Note BY <1>6
  <2>b. notes[e].lines \in Seq(Nat) BY <2>a DEF Note
  <2>2. notes[e] \in Note /\ Append(notes[e].lines, i) \in Seq(Nat)
    BY <1>2, <2>a, <2>b, AppendProperties
  <2> DEFINE m == [notes[e] EXCEPT !.lines = Append(notes[e].lines, i)]
  <2>3. m \in Note /\ m.order = notes[e].order /\ m.lines = Append(notes[e].lines, i)
    BY <2>2 DEF Note
  <2> HIDE DEF m
  <2>4. to = [notes EXCEPT ![e] = m] BY <2>1 DEF m
  <2>5. to \in Seq(Note) /\ Len(to) = Len(notes) /\ to[e] = m
        /\ \A n \in 1..Len(notes) \ {e} : to[n] = notes[n]
    BY <1>6, <2>3, <2>4
  <2>6. OneMore(to, notes, ls, i) BY <1>6, <2>3, <2>5 DEF OneMore, o
  <2> QED BY <2>6 DEF to
<1> QED BY <1>3, <1>4, <1>5, <1>6

LEMMA NotedType ==
  ASSUME NEW notes \in Seq(Note), NEW ls \in Seq(ShipmentLine), NEW i \in 1..Len(ls)
  PROVE  Noted(notes, ls, i) \in Seq(Note)
BY OneNoted DEF OneMore

LEMMA CollectsEquation ==
  ASSUME NEW ls \in Seq(ShipmentLine)
  PROVE  /\ NotesForShortageLines(ls) = Collects(ls)[DOMAIN ls]
         /\ Collects(ls)[{}] = <<>>
         /\ \A t \in 1..Len(ls) : Collects(ls)[1..t] = Noted(Collects(ls)[1..(t - 1)], ls, t)
<1> DEFINE n == Len(ls)
           V == Seq(Note)
           F == [p \in V \X (1..n) |-> Noted(p[1], ls, p[2])]
           Next1(g) == [T \in SUBSET DOMAIN ls |->
                          IF T = {} THEN <<>> ELSE Noted(g[T \ {Max(T)}], ls, Max(T))]
           id == [i \in DOMAIN ls |-> i]
           Next2(g) == [T \in SUBSET DOMAIN id |->
                          IF T = {} THEN <<>> ELSE Noted(g[T \ {Max(T)}], ls, id[Max(T)])]
<1>1. n \in Nat /\ DOMAIN ls = 1..n OBVIOUS
<1>2. NotesForShortageLines(ls) = (CHOOSE iter : iter = Next2(iter))[DOMAIN id]
  BY DEF NotesForShortageLines, FoldLeft, MapThenFoldSet
<1>3. ASSUME NEW g PROVE Next1(g) = Next2(g)
  <2>1. ASSUME NEW T \in SUBSET (1..n), T # {} PROVE id[Max(T)] = Max(T)
    <3>1. Max(T) \in 1..n BY <1>1, <2>1, GreatestNumber
    <3> QED BY <1>1, <3>1
  <2>2. DOMAIN id = DOMAIN ls OBVIOUS
  <2> HIDE DEF id
  <2> QED BY <1>1, <2>1, <2>2
<1>4. F \in [V \X (1..n) -> V] BY NotedType
<1>5. PICK g : FoldsLeft(g, n, V, <<>>, F)
  <2>1. <<>> \in V OBVIOUS
  <2> HIDE DEF F, V
  <2> QED BY <1>1, <1>4, <2>1, FoldRecursion
<1>6. /\ g \in [SUBSET (1..n) -> V]
      /\ \A T \in SUBSET (1..n) :
           g[T] = IF T = {} THEN <<>> ELSE F[<<g[T \ {Max(T)}], Max(T)>>]
  <2> HIDE DEF F, V
  <2> QED BY <1>5 DEF FoldsLeft
<1>7. ASSUME NEW T \in SUBSET (1..n), T # {}
      PROVE  F[<<g[T \ {Max(T)}], Max(T)>>] = Noted(g[T \ {Max(T)}], ls, Max(T))
  <2>1. Max(T) \in 1..n BY <1>1, <1>7, GreatestNumber
  <2>2. g[T \ {Max(T)}] \in V BY <1>6
  <2> QED BY <2>1, <2>2
<1>8. g = Next1(g)
  <2>1. g = [T \in SUBSET (1..n) |-> g[T]] BY <1>6
  <2> HIDE DEF F, V
  <2> QED BY <1>1, <1>6, <1>7, <2>1
<1> DEFINE h == Collects(ls)
<1>9. h = Next1(h) BY <1>8, Zenon DEF Collects
<1> HIDE DEF Next1, Next2, id
<1>10. (CHOOSE iter : iter = Next2(iter)) = CHOOSE iter : iter = Next1(iter) BY <1>3
<1>11. NotesForShortageLines(ls) = h[DOMAIN ls]
  <2>1. DOMAIN id = DOMAIN ls BY DEF id
  <2>2. h = CHOOSE iter : iter = Next1(iter) BY Zenon DEF Collects, Next1
  <2> QED BY <1>2, <1>10, <2>1, <2>2
<1> HIDE DEF h
<1>12. \A T \in SUBSET (1..n) : h[T] = IF T = {} THEN <<>> ELSE Noted(h[T \ {Max(T)}], ls, Max(T))
  BY <1>1, <1>9 DEF Next1
<1>13. ASSUME NEW t \in 1..n PROVE h[1..t] = Noted(h[1..(t - 1)], ls, t)
  <2>1. Max(1..t) = t /\ (1..t) \ {t} = 1..(t - 1) BY GreatestOfRange
  <2>2. 1..t \in SUBSET (1..n) /\ t \in 1..t BY <1>1
  <2>3. 1..t # {} BY <2>2
  <2> QED BY <1>12, <2>1, <2>2, <2>3
<1> QED BY <1>11, <1>12, <1>13 DEF h

\* After t lines every entry lists the missing lines up to t of its order.
Entry(l, ls, t, o) ==
  /\ l \in Seq(Nat)
  /\ \A a, b \in 1..Len(l) : a < b => l[a] < l[b]
  /\ \A a \in 1..Len(l) : l[a] \in 1..t /\ Missing(ls[l[a]]) /\ ls[l[a]].order = o
  /\ \A i \in 1..t : Missing(ls[i]) /\ ls[i].order = o => \E a \in 1..Len(l) : l[a] = i

Collected(notes, ls, t) ==
  /\ notes \in Seq(Note)
  /\ \A m, n \in 1..Len(notes) : notes[m].order = notes[n].order => m = n
  /\ \A n \in 1..Len(notes) : Entry(notes[n].lines, ls, t, notes[n].order)
  /\ \A i \in 1..t : Missing(ls[i]) => \E n \in 1..Len(notes) : notes[n].order = ls[i].order

LEMMA EntryKept ==
  ASSUME NEW ls, NEW t \in Nat, NEW l, NEW o, Entry(l, ls, t, o),
         ~(Missing(ls[t + 1]) /\ ls[t + 1].order = o)
  PROVE  Entry(l, ls, t + 1, o)
<1>1. \A i \in 1..(t + 1) : i \in 1..t \/ i = t + 1 OBVIOUS
<1>2. \A i \in 1..t : i \in 1..(t + 1) OBVIOUS
<1> QED BY <1>1, <1>2, Zenon DEF Entry

LEMMA EntryGrows ==
  ASSUME NEW ls, NEW t \in Nat, NEW l, NEW o, Entry(l, ls, t, o),
         Missing(ls[t + 1]), ls[t + 1].order = o
  PROVE  Entry(Append(l, t + 1), ls, t + 1, o)
<1> DEFINE k == Append(l, t + 1)
<1>1. l \in Seq(Nat) /\ Len(l) \in Nat BY DEF Entry
<1>2. /\ k \in Seq(Nat) /\ Len(k) = Len(l) + 1 /\ k[Len(l) + 1] = t + 1
      /\ \A a \in 1..Len(l) : k[a] = l[a]
  BY <1>1, AppendProperties
<1> HIDE DEF k
<1>3. \A a \in 1..Len(k) : a \in 1..Len(l) \/ a = Len(l) + 1 BY <1>1, <1>2
<1>4. \A a \in 1..Len(l) : a \in 1..Len(k) /\ a < Len(l) + 1 BY <1>1, <1>2
<1>5. \A a \in 1..Len(l) : l[a] \in 1..t /\ Missing(ls[l[a]]) /\ ls[l[a]].order = o
  BY DEF Entry
<1>6. \A a \in 1..Len(k) : k[a] \in 1..(t + 1) /\ Missing(ls[k[a]]) /\ ls[k[a]].order = o
  <2> SUFFICES ASSUME NEW a \in 1..Len(k)
               PROVE  k[a] \in 1..(t + 1) /\ Missing(ls[k[a]]) /\ ls[k[a]].order = o
    OBVIOUS
  <2>1. CASE a \in 1..Len(l)
    <3>1. k[a] = l[a] /\ l[a] \in 1..t BY <1>2, <1>5, <2>1
    <3>2. k[a] \in 1..(t + 1) BY <3>1
    <3> QED BY <1>5, <2>1, <3>1, <3>2
  <2>2. CASE a = Len(l) + 1 BY <1>2, <2>2
  <2> QED BY <1>3, <2>1, <2>2
<1>7. \A a, b \in 1..Len(k) : a < b => k[a] < k[b]
  <2> SUFFICES ASSUME NEW a \in 1..Len(k), NEW b \in 1..Len(k), a < b PROVE k[a] < k[b]
    OBVIOUS
  <2>1. a \in 1..Len(l) BY <1>1, <1>2
  <2>2. k[a] = l[a] /\ l[a] \in 1..t BY <1>2, <1>5, <2>1
  <2>3. CASE b = Len(l) + 1 BY <1>2, <2>2, <2>3
  <2>4. CASE b \in 1..Len(l) BY <1>2, <2>1, <2>4 DEF Entry
  <2> QED BY <1>3, <2>3, <2>4
<1>8. ASSUME NEW i \in 1..(t + 1), Missing(ls[i]), ls[i].order = o
      PROVE  \E a \in 1..Len(k) : k[a] = i
  <2>1. CASE i = t + 1
    <3>1. Len(l) + 1 \in 1..Len(k) BY <1>1, <1>2
    <3> QED BY <1>2, <2>1, <3>1
  <2>2. CASE i \in 1..t
    <3>1. PICK a \in 1..Len(l) : l[a] = i BY <1>8, <2>2 DEF Entry
    <3> QED BY <1>2, <1>4, <3>1
  <2> QED BY <2>1, <2>2
<1>9. Entry(k, ls, t + 1, o) BY <1>2, <1>6, <1>7, <1>8 DEF Entry
<1> QED BY <1>9 DEF k

LEMMA OneCollected ==
  ASSUME NEW ls \in Seq(ShipmentLine), NEW t \in 0..(Len(ls) - 1), NEW notes,
         Collected(notes, ls, t)
  PROVE  Collected(Noted(notes, ls, t + 1), ls, t + 1)
<1> DEFINE i == t + 1
           to == Noted(notes, ls, i)
<1>1. t \in Nat /\ i \in 1..Len(ls) /\ notes \in Seq(Note) /\ Len(notes) \in Nat
  BY DEF Collected
<1>2. OneMore(to, notes, ls, i) BY <1>1, OneNoted
<1>3. /\ \A m, n \in 1..Len(notes) : notes[m].order = notes[n].order => m = n
      /\ \A n \in 1..Len(notes) : Entry(notes[n].lines, ls, t, notes[n].order)
      /\ \A k \in 1..t : Missing(ls[k]) => \E n \in 1..Len(notes) : notes[n].order = ls[k].order
  BY DEF Collected
<1>4. to \in Seq(Note) BY <1>2 DEF OneMore
<1>5. \A k \in 1..i : k \in 1..t \/ k = i BY <1>1
<1> HIDE DEF to
<1>6. CASE ~Missing(ls[i]) /\ to = notes
  <2>1. \A n \in 1..Len(notes) : Entry(notes[n].lines, ls, t + 1, notes[n].order)
    BY <1>1, <1>3, <1>6, EntryKept
  <2>2. Collected(to, ls, i) BY <1>3, <1>4, <1>5, <1>6, <2>1 DEF Collected
  <2> QED BY <2>2 DEF to
<1>7. ASSUME Missing(ls[i]), NEW e \in 1..Len(notes), notes[e].order = ls[i].order,
             Len(to) = Len(notes), \A n \in 1..Len(notes) \ {e} : to[n] = notes[n],
             to[e].order = notes[e].order, to[e].lines = Append(notes[e].lines, i)
      PROVE  Collected(to, ls, i)
  <2>1. \A n \in 1..Len(notes) : to[n].order = notes[n].order BY <1>7
  <2>2. ASSUME NEW n \in 1..Len(notes) PROVE Entry(to[n].lines, ls, i, to[n].order)
    <3>0. Entry(notes[n].lines, ls, t, notes[n].order) BY <1>3
    <3>1. CASE n = e
      <4>1. Entry(Append(notes[e].lines, t + 1), ls, t + 1, notes[e].order)
        BY <1>1, <1>7, <3>0, <3>1, EntryGrows
      <4> QED BY <1>7, <3>1, <4>1
    <3>2. CASE n # e
      <4>1. notes[n].order # ls[i].order BY <1>3, <1>7, <3>2
      <4>2. Entry(notes[n].lines, ls, t + 1, notes[n].order) BY <1>1, <3>0, <4>1, EntryKept
      <4> QED BY <1>7, <3>2, <4>2
    <3> QED BY <3>1, <3>2
  <2>3. \A m, n \in 1..Len(to) : to[m].order = to[n].order => m = n BY <1>3, <1>7, <2>1
  <2>4. ASSUME NEW k \in 1..i, Missing(ls[k])
        PROVE  \E n \in 1..Len(to) : to[n].order = ls[k].order
    <3>1. \E n \in 1..Len(notes) : notes[n].order = ls[k].order BY <1>3, <1>5, <1>7, <2>4
    <3> QED BY <1>7, <2>1, <3>1
  <2> QED BY <1>4, <1>7, <2>2, <2>3, <2>4 DEF Collected
<1>8. ASSUME Missing(ls[i]), \A n \in 1..Len(notes) : notes[n].order # ls[i].order,
             Len(to) = Len(notes) + 1, \A n \in 1..Len(notes) : to[n] = notes[n],
             to[Len(notes) + 1].order = ls[i].order, to[Len(notes) + 1].lines = <<i>>
      PROVE  Collected(to, ls, i)
  <2> DEFINE w == Len(notes) + 1
  <2>1. /\ w \in 1..Len(to)
        /\ \A n \in 1..Len(to) : n \in 1..Len(notes) \/ n = w
        /\ \A n \in 1..Len(notes) : n \in 1..Len(to)
    BY <1>1, <1>8
  <2>2. ASSUME NEW n \in 1..Len(to) PROVE Entry(to[n].lines, ls, i, to[n].order)
    <3>1. CASE n \in 1..Len(notes)
      <4>1. notes[n].order # ls[i].order BY <1>8, <3>1
      <4>2. Entry(notes[n].lines, ls, t, notes[n].order) BY <1>3, <3>1
      <4>3. Entry(notes[n].lines, ls, t + 1, notes[n].order) BY <1>1, <4>1, <4>2, EntryKept
      <4> QED BY <1>8, <3>1, <4>3
    <3>2. CASE n = w
      <4> DEFINE l == <<i>>
      <4>1. l \in Seq(Nat) /\ Len(l) = 1 /\ l[1] = i BY <1>1
      <4> HIDE DEF l
      <4>2. \A a \in 1..Len(l) : a = 1 BY <4>1
      <4>3. \A k \in 1..t : ~(Missing(ls[k]) /\ ls[k].order = ls[i].order) BY <1>3, <1>8
      <4>4. 1 \in 1..Len(l) /\ i \in 1..i BY <1>1, <4>1
      <4>5. \A a, b \in 1..Len(l) : ~(a < b) BY <4>1
      <4>6. Entry(l, ls, i, ls[i].order)
        BY <1>5, <1>8, <4>1, <4>2, <4>3, <4>4, <4>5, Zenon DEF Entry
      <4>7. to[n].lines = l /\ to[n].order = ls[i].order BY <1>8, <3>2 DEF l
      <4> QED BY <4>6, <4>7
    <3> QED BY <2>1, <3>1, <3>2
  <2>3. ASSUME NEW m \in 1..Len(to), NEW n \in 1..Len(to), to[m].order = to[n].order
        PROVE  m = n
    <3> HIDE DEF w
    <3> QED BY <1>3, <1>8, <2>1, <2>3 DEF w
  <2>4. ASSUME NEW k \in 1..i, Missing(ls[k])
        PROVE  \E n \in 1..Len(to) : to[n].order = ls[k].order
    <3>1. CASE k = i BY <1>8, <2>1, <3>1
    <3>2. CASE k \in 1..t
      <4>1. PICK n \in 1..Len(notes) : notes[n].order = ls[k].order BY <1>3, <2>4, <3>2
      <4> QED BY <1>8, <2>1, <4>1
    <3> QED BY <1>5, <3>1, <3>2
  <2> QED BY <1>4, <2>2, <2>3, <2>4 DEF Collected
<1> QED
  <2>1. Collected(to, ls, i) BY <1>2, <1>6, <1>7, <1>8 DEF OneMore, to
  <2> QED BY <2>1 DEF to

\* What the notes say at the end.
LEMMA NotesCollected ==
  ASSUME NEW ls \in Seq(ShipmentLine)
  PROVE  Collected(NotesForShortageLines(ls), ls, Len(ls))
<1> DEFINE n == Len(ls)
           h == Collects(ls)
           S == {t \in Nat : Collected(h[1..t], ls, t)}
<1>1. n \in Nat /\ DOMAIN ls = 1..n OBVIOUS
<1>2. /\ NotesForShortageLines(ls) = h[1..n] /\ h[{}] = <<>>
      /\ \A t \in 1..n : h[1..t] = Noted(h[1..(t - 1)], ls, t)
  BY <1>1, CollectsEquation
<1> HIDE DEF h
<1>3. 0 \in S
  <2>1. h[1..0] = <<>> BY <1>2
  <2>2. <<>> \in Seq(Note) /\ Len(<<>>) = 0 OBVIOUS
  <2>3. Collected(h[1..0], ls, 0) BY <2>1, <2>2 DEF Collected
  <2> QED BY <2>3
<1>4. ASSUME NEW t \in 0..(n - 1), t \in S PROVE t + 1 \in S
  <2>1. Collected(h[1..t], ls, t) BY <1>4
  <2>2. Collected(Noted(h[1..t], ls, t + 1), ls, t + 1) BY <2>1, OneCollected
  <2>3. t + 1 \in 1..n /\ (t + 1) - 1 = t BY <1>1
  <2>4. h[1..(t + 1)] = Noted(h[1..t], ls, t + 1) BY <1>2, <2>3
  <2> QED BY <2>2, <2>3, <2>4
<1>5. n \in S
  <2> HIDE DEF S, n
  <2>1. \A t \in 0..n : t \in S BY <1>1, <1>3, <1>4, RangeByInduction
  <2> QED BY <1>1, <2>1
<1> QED BY <1>2, <1>5

LEMMA NotesListLines ==
  ASSUME lines \in Seq(ShipmentLine)
  PROVE  NotesNameShortLines
<1> DEFINE notes == NotesForShortageLines(lines)
           n == Len(lines)
<1>1. n \in Nat /\ DOMAIN lines = 1..n OBVIOUS
<1>2. Collected(notes, lines, n) BY NotesCollected
<1> HIDE DEF notes
<1>3. notes \in Seq(Note) /\ DOMAIN notes = 1..Len(notes) BY <1>2 DEF Collected
<1>4. ASSUME NEW k \in DOMAIN notes
      PROVE  Lists(notes[k].lines,
                   {i \in DOMAIN lines : Missing(lines[i]) /\ lines[i].order = notes[k].order})
  <2> DEFINE l == notes[k].lines
             o == notes[k].order
  <2>1. Entry(l, lines, n, o) BY <1>2, <1>3 DEF Collected
  <2> HIDE DEF l, o
  <2>2. DOMAIN l = 1..Len(l) BY <2>1 DEF Entry
  <2>3. /\ \A a \in 1..Len(l) : l[a] \in 1..n /\ Missing(lines[l[a]]) /\ lines[l[a]].order = o
        /\ \A i \in 1..n : Missing(lines[i]) /\ lines[i].order = o => \E a \in 1..Len(l) : l[a] = i
        /\ \A a, b \in 1..Len(l) : a < b => l[a] < l[b]
    BY <2>1 DEF Entry
  <2>4. {l[a] : a \in DOMAIN l} = {i \in 1..n : Missing(lines[i]) /\ lines[i].order = o}
    <3>1. ASSUME NEW a \in 1..Len(l)
          PROVE  l[a] \in {i \in 1..n : Missing(lines[i]) /\ lines[i].order = o}
      BY <2>3
    <3>2. ASSUME NEW i \in 1..n, Missing(lines[i]), lines[i].order = o
          PROVE  i \in {l[a] : a \in 1..Len(l)}
      BY <2>3, <3>2
    <3> QED BY <2>2, <3>1, <3>2
  <2>5. Lists(l, {i \in 1..n : Missing(lines[i]) /\ lines[i].order = o})
    BY <2>2, <2>3, <2>4 DEF Lists, ToSet
  <2> QED BY <1>1, <2>5 DEF l, o
<1>5. \A i, k \in DOMAIN notes : notes[i].order = notes[k].order => i = k
  BY <1>2, <1>3 DEF Collected
<1>6. \A i \in DOMAIN lines : Missing(lines[i]) => \E k \in DOMAIN notes :
                                                      notes[k].order = lines[i].order
  BY <1>1, <1>2, <1>3 DEF Collected
<1> QED BY <1>4, <1>5, <1>6 DEF NotesNameShortLines, notes

-----------------------------------------------------------------------------
(* What leaves the inventory: a fold over the lines *)

Stock == [line : Nat, qty : Nat]
Gathers(ls) == CHOOSE iter : iter = [T \in SUBSET DOMAIN ls |->
                 IF T = {} THEN <<>> ELSE Listed(iter[T \ {Max(T)}], ls, Max(T))]
IsPicked(l) == Number(l.picked) > 0

LEMMA ListedType ==
  ASSUME NEW inv \in Seq(Stock), NEW ls \in Seq(ShipmentLine), NEW i \in 1..Len(ls)
  PROVE  Listed(inv, ls, i) \in Seq(Stock)
<1>1. ls[i] \in ShipmentLine OBVIOUS
<1>2. Taken(ls, i) \in Stock BY <1>1, LineNumbers DEF Taken, Stock
<1> QED BY <1>2 DEF Listed

LEMMA GathersEquation ==
  ASSUME NEW ls \in Seq(ShipmentLine)
  PROVE  /\ Inventory(ls) = Gathers(ls)[DOMAIN ls]
         /\ Gathers(ls)[{}] = <<>>
         /\ \A t \in 1..Len(ls) : Gathers(ls)[1..t] = Listed(Gathers(ls)[1..(t - 1)], ls, t)
<1> DEFINE n == Len(ls)
           V == Seq(Stock)
           F == [p \in V \X (1..n) |-> Listed(p[1], ls, p[2])]
           Next1(g) == [T \in SUBSET DOMAIN ls |->
                          IF T = {} THEN <<>> ELSE Listed(g[T \ {Max(T)}], ls, Max(T))]
           id == [i \in DOMAIN ls |-> i]
           Next2(g) == [T \in SUBSET DOMAIN id |->
                          IF T = {} THEN <<>> ELSE Listed(g[T \ {Max(T)}], ls, id[Max(T)])]
<1>1. n \in Nat /\ DOMAIN ls = 1..n OBVIOUS
<1>2. Inventory(ls) = (CHOOSE iter : iter = Next2(iter))[DOMAIN id]
  BY DEF Inventory, FoldLeft, MapThenFoldSet
<1>3. ASSUME NEW g PROVE Next1(g) = Next2(g)
  <2>1. ASSUME NEW T \in SUBSET (1..n), T # {} PROVE id[Max(T)] = Max(T)
    <3>1. Max(T) \in 1..n BY <1>1, <2>1, GreatestNumber
    <3> QED BY <1>1, <3>1
  <2>2. DOMAIN id = DOMAIN ls OBVIOUS
  <2> HIDE DEF id
  <2> QED BY <1>1, <2>1, <2>2
<1>4. F \in [V \X (1..n) -> V] BY ListedType
<1>5. PICK g : FoldsLeft(g, n, V, <<>>, F)
  <2>1. <<>> \in V OBVIOUS
  <2> HIDE DEF F, V
  <2> QED BY <1>1, <1>4, <2>1, FoldRecursion
<1>6. /\ g \in [SUBSET (1..n) -> V]
      /\ \A T \in SUBSET (1..n) :
           g[T] = IF T = {} THEN <<>> ELSE F[<<g[T \ {Max(T)}], Max(T)>>]
  <2> HIDE DEF F, V
  <2> QED BY <1>5 DEF FoldsLeft
<1>7. ASSUME NEW T \in SUBSET (1..n), T # {}
      PROVE  F[<<g[T \ {Max(T)}], Max(T)>>] = Listed(g[T \ {Max(T)}], ls, Max(T))
  <2>1. Max(T) \in 1..n BY <1>1, <1>7, GreatestNumber
  <2>2. g[T \ {Max(T)}] \in V BY <1>6
  <2> QED BY <2>1, <2>2
<1>8. g = Next1(g)
  <2>1. g = [T \in SUBSET (1..n) |-> g[T]] BY <1>6
  <2> HIDE DEF F, V
  <2> QED BY <1>1, <1>6, <1>7, <2>1
<1> DEFINE h == Gathers(ls)
<1>9. h = Next1(h) BY <1>8, Zenon DEF Gathers
<1> HIDE DEF Next1, Next2, id
<1>10. (CHOOSE iter : iter = Next2(iter)) = CHOOSE iter : iter = Next1(iter) BY <1>3
<1>11. Inventory(ls) = h[DOMAIN ls]
  <2>1. DOMAIN id = DOMAIN ls BY DEF id
  <2>2. h = CHOOSE iter : iter = Next1(iter) BY Zenon DEF Gathers, Next1
  <2> QED BY <1>2, <1>10, <2>1, <2>2
<1> HIDE DEF h
<1>12. \A T \in SUBSET (1..n) : h[T] = IF T = {} THEN <<>> ELSE Listed(h[T \ {Max(T)}], ls, Max(T))
  BY <1>1, <1>9 DEF Next1
<1>13. ASSUME NEW t \in 1..n PROVE h[1..t] = Listed(h[1..(t - 1)], ls, t)
  <2>1. Max(1..t) = t /\ (1..t) \ {t} = 1..(t - 1) BY GreatestOfRange
  <2>2. 1..t \in SUBSET (1..n) /\ t \in 1..t BY <1>1
  <2>3. 1..t # {} BY <2>2
  <2> QED BY <1>12, <2>1, <2>2, <2>3
<1> QED BY <1>11, <1>12, <1>13 DEF h

\* After t lines those up to t are listed of which something was picked.
Gathered(inv, ls, t) ==
  /\ inv \in Seq(Stock)
  /\ \A a, b \in 1..Len(inv) : a < b => inv[a].line < inv[b].line
  /\ \A a \in 1..Len(inv) : inv[a].line \in 1..t /\ IsPicked(ls[inv[a].line])
  /\ \A i \in 1..t : IsPicked(ls[i]) => \E a \in 1..Len(inv) : inv[a].line = i

LEMMA OneGathered ==
  ASSUME NEW ls \in Seq(ShipmentLine), NEW t \in 0..(Len(ls) - 1), NEW inv, Gathered(inv, ls, t)
  PROVE  Gathered(Listed(inv, ls, t + 1), ls, t + 1)
<1> DEFINE i == t + 1
           to == Listed(inv, ls, i)
           new == Taken(ls, i)
           w == Len(inv) + 1
<1>1. /\ t \in Nat /\ i \in 1..Len(ls) /\ inv \in Seq(Stock) /\ Len(inv) \in Nat
      /\ \A a, b \in 1..Len(inv) : a < b => inv[a].line < inv[b].line
      /\ \A a \in 1..Len(inv) : inv[a].line \in 1..t /\ IsPicked(ls[inv[a].line])
      /\ \A k \in 1..t : IsPicked(ls[k]) => \E a \in 1..Len(inv) : inv[a].line = k
  BY DEF Gathered
<1>2. \A k \in 1..i : k \in 1..t \/ k = i BY <1>1
<1>3. to \in Seq(Stock) BY <1>1, ListedType
<1>4. CASE ~IsPicked(ls[i])
  <2>1. to = inv BY <1>4 DEF Listed, IsPicked
  <2> HIDE DEF to
  <2>2. \A a \in 1..Len(to) : to[a].line \in 1..i /\ IsPicked(ls[to[a].line])
    <3>1. 1..t \subseteq 1..i BY <1>1
    <3> HIDE DEF i
    <3> QED BY <1>1, <2>1, <3>1
  <2> HIDE DEF i
  <2>3. \A k \in 1..i : IsPicked(ls[k]) => \E a \in 1..Len(to) : to[a].line = k
    BY <1>1, <1>2, <1>4, <2>1
  <2>4. Gathered(to, ls, i) BY <1>1, <2>1, <2>2, <2>3 DEF Gathered
  <2> QED BY <2>4 DEF to, i
<1>5. CASE IsPicked(ls[i])
  <2>1. to = Append(inv, new) BY <1>5 DEF Listed, IsPicked
  <2>2. new.line = i /\ new \in Stock BY <1>1, LineNumbers DEF Taken, Stock
  <2> HIDE DEF new, to
  <2>3. Len(to) = w /\ to[w] = new /\ \A a \in 1..Len(inv) : to[a] = inv[a]
    BY <1>1, <2>1, <2>2, AppendProperties
  <2>4. \A a \in 1..w : a \in 1..Len(inv) \/ a = w BY <1>1
  <2>5. ASSUME NEW a \in 1..w PROVE to[a].line \in 1..i /\ IsPicked(ls[to[a].line])
    <3>1. CASE a = w
      <4>1. i \in 1..i BY <1>1
      <4> QED BY <1>5, <2>2, <2>3, <3>1, <4>1
    <3>2. CASE a \in 1..Len(inv)
      <4>1. inv[a].line \in 1..t /\ IsPicked(ls[inv[a].line]) BY <1>1, <3>2
      <4>2. inv[a].line \in 1..i BY <1>1, <4>1
      <4> QED BY <2>3, <3>2, <4>1, <4>2
    <3> QED BY <2>4, <3>1, <3>2
  <2>6. ASSUME NEW a \in 1..w, NEW b \in 1..w, a < b PROVE to[a].line < to[b].line
    <3>1. a \in 1..Len(inv) BY <1>1, <2>6
    <3>2. to[a].line = inv[a].line /\ inv[a].line \in 1..t BY <1>1, <2>3, <3>1
    <3>3. CASE b = w BY <1>1, <2>2, <2>3, <3>2, <3>3
    <3>4. CASE b \in 1..Len(inv) BY <1>1, <2>3, <2>6, <3>1, <3>4
    <3> QED BY <2>4, <3>3, <3>4
  <2>7. ASSUME NEW k \in 1..i, IsPicked(ls[k]) PROVE \E a \in 1..w : to[a].line = k
    <3>1. w \in 1..w /\ \A a \in 1..Len(inv) : a \in 1..w BY <1>1
    <3>2. CASE k = i BY <2>2, <2>3, <3>1, <3>2
    <3>3. CASE k \in 1..t
      <4>1. PICK a \in 1..Len(inv) : inv[a].line = k BY <1>1, <2>7, <3>3
      <4> QED BY <2>3, <3>1, <4>1
    <3> QED BY <1>2, <3>2, <3>3
  <2>8. Gathered(to, ls, i) BY <1>3, <2>3, <2>5, <2>6, <2>7 DEF Gathered
  <2> QED BY <2>8 DEF to
<1> QED BY <1>4, <1>5

\* What is listed at the end.
LEMMA InventoryGathered ==
  ASSUME NEW ls \in Seq(ShipmentLine)
  PROVE  Gathered(Inventory(ls), ls, Len(ls))
<1> DEFINE n == Len(ls)
           h == Gathers(ls)
           S == {t \in Nat : Gathered(h[1..t], ls, t)}
<1>1. n \in Nat /\ DOMAIN ls = 1..n OBVIOUS
<1>2. /\ Inventory(ls) = h[1..n] /\ h[{}] = <<>>
      /\ \A t \in 1..n : h[1..t] = Listed(h[1..(t - 1)], ls, t)
  BY <1>1, GathersEquation
<1> HIDE DEF h
<1>3. 0 \in S
  <2>1. h[1..0] = <<>> BY <1>2
  <2>2. <<>> \in Seq(Stock) /\ Len(<<>>) = 0 OBVIOUS
  <2>3. Gathered(h[1..0], ls, 0) BY <2>1, <2>2 DEF Gathered
  <2> QED BY <2>3
<1>4. ASSUME NEW t \in 0..(n - 1), t \in S PROVE t + 1 \in S
  <2>1. Gathered(h[1..t], ls, t) BY <1>4
  <2>2. Gathered(Listed(h[1..t], ls, t + 1), ls, t + 1) BY <2>1, OneGathered
  <2>3. t + 1 \in 1..n /\ (t + 1) - 1 = t BY <1>1
  <2>4. h[1..(t + 1)] = Listed(h[1..t], ls, t + 1) BY <1>2, <2>3
  <2> QED BY <2>2, <2>3, <2>4
<1>5. n \in S
  <2> HIDE DEF S, n
  <2>1. \A t \in 0..n : t \in S BY <1>1, <1>3, <1>4, RangeByInduction
  <2> QED BY <1>1, <2>1
<1> QED BY <1>2, <1>5

LEMMA InventoryListsPicked ==
  ASSUME NEW ls \in Seq(ShipmentLine)
  PROVE  LET taken == FinishCall(ls)[2].lines IN
         Lists([k \in DOMAIN taken |-> taken[k].line], {i \in DOMAIN ls : IsPicked(ls[i])})
<1> DEFINE inv == Inventory(ls)
           n == Len(ls)
           at == [k \in DOMAIN inv |-> inv[k].line]
<1>1. n \in Nat /\ DOMAIN ls = 1..n OBVIOUS
<1>2. FinishCall(ls)[2].lines = inv BY DEF FinishCall
<1>3. Gathered(inv, ls, n) BY InventoryGathered
<1> HIDE DEF inv
<1>4. DOMAIN inv = 1..Len(inv) BY <1>3 DEF Gathered
<1>5. DOMAIN at = 1..Len(inv) /\ \A a \in 1..Len(inv) : at[a] = inv[a].line BY <1>4
<1>6. \A a, b \in DOMAIN at : a < b => at[a] < at[b] BY <1>3, <1>5 DEF Gathered
<1>7. {at[a] : a \in DOMAIN at} = {i \in DOMAIN ls : IsPicked(ls[i])}
  BY <1>1, <1>3, <1>5 DEF Gathered
<1>8. Lists(at, {i \in DOMAIN ls : IsPicked(ls[i])})
  <2> HIDE DEF at
  <2> QED BY <1>6, <1>7 DEF Lists, ToSet
<1> QED BY <1>2, <1>8

-----------------------------------------------------------------------------
(* The theorems *)

\* Quantities are never negative: the differences that are sent as shortages
\* (getShortageChangeShipmentModel) stay natural numbers.
THEOREM TypesKept == Spec => []TypeOK
<1>1. IInv => TypeOK BY DEF IInv
<1> QED BY Inductive, <1>1, PTL

\* However often a line is rescanned after a shortage, it is never saved as picked
\* beyond what was ordered of it (validateScannedQuantity).
THEOREM NothingBeyond == Spec => []NothingBeyondOrder
<1>1. IInv => NothingBeyondOrder BY DEF IInv, Fine, NothingBeyondOrder
<1> QED BY Inductive, <1>1, PTL

\* No operation changes what was ordered of a line: units move between required and
\* short (getOfQty, getShortageChangeShipmentModel).
THEOREM UnitsAreKept == Spec => UnitsKept
<1>1. IInv /\ [Next]_vars => [\A i \in DOMAIN lines : OfQty(lines'[i]) = OfQty(lines[i])]_vars
  BY StepKeeps
<1> QED BY Inductive, <1>1, PTL DEF Spec, UnitsKept

\* No missing piece hides behind a reason: hasShortages finds every one, although it
\* asks only lines without a reason.
THEOREM ShortagesAreSeenHolds == Spec => []ShortagesAreSeen
<1>1. ASSUME IInv PROVE ShortagesAreSeen
  <2>1. \A i \in DOMAIN lines : lines[i].reason # Void => ~Missing(lines[i])
    BY <1>1, LinesAreFine DEF Fine
  <2> QED BY <2>1 DEF ShortagesAreSeen, HasShortages
<1>2. IInv => ShortagesAreSeen BY <1>1
<1> QED BY Inductive, <1>2, PTL

\* The model of a finished shipment without overages accounts for every unit, and asks
\* to cancel exactly the shipments of which nothing is left; the inventory is told of the
\* lines of which something is left (getChangeShipmentModel, getInvokeUEModel).
THEOREM FinishAccountsHolds == Spec => []FinishAccounts
<1>1. IInv => FinishAccounts
  <2> SUFFICES ASSUME IInv, ~HasOverages(lines)
               PROVE  LET change == ChangeShipment(lines)
                          after == [i \in DOMAIN lines |-> Stored(lines[i], change.lines[i])] IN
                      /\ \A i \in DOMAIN lines :
                           ~(Missing(lines[i]) /\ Number(lines[i].short) > 0)
                             => OfQty(after[i]) = OfQty(lines[i])
                      /\ change.cancel <=> \A i \in DOMAIN lines : after[i].qty = 0
                      /\ LET taken == FinishCall(lines)[2].lines IN
                         Lists([k \in DOMAIN taken |-> taken[k].line],
                               {i \in DOMAIN lines : after[i].qty > 0})
    BY DEF FinishAccounts
  <2> DEFINE change == ChangeShipment(lines)
             after == [i \in DOMAIN lines |-> Stored(lines[i], change.lines[i])]
             n(i) == Number(lines[i].picked)
             t(i) == IF Missing(lines[i]) THEN lines[i].qty - n(i) ELSE Void
  <2>1. ASSUME NEW i \in DOMAIN lines
        PROVE  /\ lines[i] \in ShipmentLine
               /\ lines[i].qty \in Nat /\ n(i) \in Nat /\ Number(lines[i].short) \in Nat
               /\ n(i) <= lines[i].qty /\ OfQty(lines[i]) = lines[i].qty + Number(lines[i].short)
    BY LinesAreFine, LineNumbers DEF HasOverages
  <2>2. ASSUME NEW i \in DOMAIN lines
        PROVE  /\ after[i].qty = n(i)
               /\ after[i].short = IF t(i) = Void THEN lines[i].short ELSE t(i)
    <3>1. t(i) \in Nat \cup {Void} BY <2>1 DEF Missing
    <3>2. change.lines[i] = Change(n(i), n(i), t(i)) BY DEF ChangeShipment, FinishChange
    <3>3. after[i] = Stored(lines[i], Change(n(i), n(i), t(i))) BY <3>2
    <3>4. n(i) # Void /\ n(i) \in Nat /\ lines[i] \in ShipmentLine BY <2>1, VoidAssumption
    <3>5. lines[i].short \in Nat \cup {Void} BY <3>4 DEF ShipmentLine
    <3> HIDE DEF n, t, after
    <3> DEFINE u == IF t(i) = Void THEN lines[i].short ELSE t(i)
    <3>6. after[i] = [lines[i] EXCEPT !.picked = n(i), !.qty = n(i), !.short = u]
      BY <3>3, <3>4 DEF Stored, Change
    <3>7. u \in Nat \cup {Void} BY <3>1, <3>5
    <3> HIDE DEF u
    <3>8. after[i].qty = n(i) /\ after[i].short = u BY <3>4, <3>6, <3>7 DEF ShipmentLine
    <3> QED BY <3>8 DEF u
  <2>3. ASSUME NEW i \in DOMAIN lines, ~(Missing(lines[i]) /\ Number(lines[i].short) > 0)
        PROVE  OfQty(after[i]) = OfQty(lines[i])
    <3>1. OfQty(after[i]) = n(i) + Number(after[i].short) BY <2>2 DEF OfQty
    <3>2. CASE Missing(lines[i])
      <4>1. t(i) = lines[i].qty - n(i) /\ t(i) \in Nat /\ t(i) # Void
        BY <3>2, <2>1, VoidAssumption
      <4>2. Number(after[i].short) = lines[i].qty - n(i) BY <4>1, <2>2, Numbers
      <4>3. Number(lines[i].short) = 0 BY <3>2, <2>3, <2>1
      <4> HIDE DEF n, t, after
      <4> QED BY <3>1, <4>2, <4>3, <2>1
    <3>3. CASE ~Missing(lines[i])
      <4>1. after[i].short = lines[i].short BY <3>3, <2>2
      <4>2. n(i) = lines[i].qty BY <3>3, <2>1 DEF Missing
      <4> HIDE DEF n, t, after
      <4> QED BY <3>1, <4>1, <4>2, <2>1
    <3> QED BY <3>2, <3>3
  <2>4. change.cancel <=> \A i \in DOMAIN lines : after[i].qty = 0
    <3>1. change.cancel <=> \A i \in DOMAIN lines : ~(n(i) > 0)
      BY DEF ChangeShipment, HasAnyLinePicked
    <3>2. \A i \in DOMAIN lines : n(i) \in Nat /\ after[i].qty = n(i) BY <2>1, <2>2
    <3> HIDE DEF n, after, change
    <3>3. \A i \in DOMAIN lines : ~(n(i) > 0) <=> after[i].qty = 0 BY <3>2
    <3> QED BY <3>1, <3>3
  <2>5. LET taken == FinishCall(lines)[2].lines IN
        Lists([k \in DOMAIN taken |-> taken[k].line], {i \in DOMAIN lines : after[i].qty > 0})
    <3>1. \A i \in DOMAIN lines : IsPicked(lines[i]) <=> after[i].qty > 0
      BY <2>2 DEF IsPicked
    <3> HIDE DEF after
    <3>2. {i \in DOMAIN lines : after[i].qty > 0} = {i \in DOMAIN lines : IsPicked(lines[i])}
      BY <3>1
    <3>3. lines \in Seq(ShipmentLine) BY DEF IInv, TypeOK
    <3> QED BY <3>2, <3>3, InventoryListsPicked
  <2> QED BY <2>3, <2>4, <2>5
<1> QED BY Inductive, <1>1, PTL

\* Marking the line announced as the last shortage leaves nothing of the shipment, for
\* any number of lines: those with a reason were cut to what was picked of them, which
\* is nothing (isLastShortageLineForCancellingShipment).
THEOREM LastShortageLeavesNothingHolds == Spec => []LastShortageLeavesNothing
<1>1. ASSUME IInv PROVE LastShortageLeavesNothing
  <2> SUFFICES ASSUME NEW k \in DOMAIN lines, IsLastShortageLine(lines, k)
               PROVE  LET after == [lines EXCEPT ![k] = Shortened(@, "AllInventoryShortage")] IN
                      \A i \in DOMAIN lines : after[i].qty = 0 /\ Number(after[i].picked) = 0
    BY DEF LastShortageLeavesNothing
  <2> DEFINE m == Shortened(lines[k], "AllInventoryShortage")
             after == [lines EXCEPT ![k] = m]
  <2> SUFFICES ASSUME NEW i \in DOMAIN lines
               PROVE  after[i].qty = 0 /\ Number(after[i].picked) = 0
    OBVIOUS
  <2>1. after[i] = IF i = k THEN m ELSE lines[i] OBVIOUS
  <2>2. /\ Fine(lines[i]) /\ lines[i] \in ShipmentLine
        /\ lines[i].qty \in Nat /\ Number(lines[i].short) \in Nat
        /\ Number(lines[i].picked) \in Nat /\ ~(Number(lines[i].picked) > 0)
    BY <1>1, LinesAreFine, LineNumbers DEF IsLastShortageLine, HasAnyLinePicked
  <2>3. CASE i = k
    <3> DEFINE l == lines[i]
               t == l.qty + Number(l.short)
    <3>1. l \in ShipmentLine /\ l.qty \in Nat /\ Number(l.short) \in Nat /\ Number(l.picked) = 0
      BY <2>2
    <3>2. ShortageChange(l, "AllInventoryShortage") = Change(0, 0, t)
      BY <3>1 DEF ShortageChange
    <3>3. t \in Nat /\ 0 # Void /\ t # Void BY <3>1, VoidAssumption
    <3>5. m = [Stored(l, Change(0, 0, t)) EXCEPT !.reason = "AllInventoryShortage"]
      BY <2>3, <3>2 DEF Shortened
    <3> HIDE DEF t, l
    <3>4. Stored(l, Change(0, 0, t)) = [l EXCEPT !.picked = 0, !.qty = 0, !.short = t]
      BY <3>3 DEF Stored, Change
    <3>6. m.picked = 0 /\ m.qty = 0 BY <3>1, <3>4, <3>5 DEF ShipmentLine
    <3> QED BY <2>1, <2>3, <3>6, Numbers
  <2>4. CASE i # k
    <3>1. lines[i].reason # Void BY <2>4 DEF IsLastShortageLine
    <3>2. ~(Number(lines[i].picked) < lines[i].qty) BY <2>2, <3>1 DEF Fine, Missing
    <3> QED BY <2>1, <2>2, <2>4, <3>2
  <2> QED BY <2>3, <2>4
<1>2. IInv => LastShortageLeavesNothing BY <1>1
<1> QED BY Inductive, <1>2, PTL

\* Splicing lines out of the array that the loop walks through leaves exactly the
\* lines that are shown, in their order, whatever the lines
\* (getBackroomPickShipmentDisplayModel).
THEOREM DisplayIsFilterHolds == Spec => []DisplayIsFilter
<1>1. IInv => DisplayIsFilter BY TurnsFilter DEF IInv, TypeOK, DisplayIsFilter
<1> QED BY Inductive, <1>1, PTL

\* Every short line is noted once, under its own order, however the lines of the
\* orders are mixed (getNotesForShortageLines).
THEOREM NotesNameShortLinesHolds == Spec => []NotesNameShortLines
<1>1. IInv => NotesNameShortLines BY NotesListLines DEF IInv, TypeOK
<1> QED BY Inductive, <1>1, PTL
=============================================================================
