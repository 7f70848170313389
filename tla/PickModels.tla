----------------------------- MODULE PickModels -----------------------------
(***************************************************************************)
(* The models that the pick screens exchange with the server               *)
(* (BackroomPickUpUtils): what a scan, a shortage and the end of picking   *)
(* compute for the lines of a shipment, and what is noted on the orders.   *)
(*                                                                         *)
(* A line is named by its position in the shipment.  Numbers that the      *)
(* server leaves out are Void, and count as 0 wherever the screens ask     *)
(* isVoid(...) ? 0 : Number(...).  A session loads the lines, scans them,  *)
(* marks them short and starts over, in any order; the server stores what  *)
(* it is sent.                                                             *)
(***************************************************************************)
EXTENDS Integers, SequencesExt

CONSTANTS
  Order,     \* the orders whose lines share a shipment
  Void,      \* no number, no reason
  MaxQty,    \* bound: the quantity a line is loaded with
  MaxLines,  \* bound: the lines of a shipment
  MaxSteps   \* bound: lines loaded and operations on them

ASSUME VoidAssumption == Void \notin Nat /\ Void # "AllInventoryShortage"
ASSUME StepsAssumption == MaxQty \in Nat /\ MaxLines \in Nat /\ MaxSteps \in Nat

VARIABLES
  lines,     \* ShipmentLines.ShipmentLine, with what was entered on the screen
  steps      \* how many operations there were

vars == <<lines, steps>>

Reason == {"AllInventoryShortage"}     \* getShortageReasonList

ShipmentLine == [order : Order, qty : Nat, picked : Nat \cup {Void},
                 short : Nat \cup {Void}, reason : Reason \cup {Void}, bundle : BOOLEAN]

Number(v) == IF v = Void THEN 0 ELSE v

-----------------------------------------------------------------------------
(* Questions about lines *)

OfQty(l) == l.qty + Number(l.short)
Missing(l) == Number(l.picked) < l.qty

HasShortages(ls) == \E i \in DOMAIN ls : Missing(ls[i]) /\ ls[i].reason = Void
HasOverages(ls) == \E i \in DOMAIN ls : Number(ls[i].picked) > ls[i].qty
HasAnyLinePicked(ls) == \E i \in DOMAIN ls : Number(ls[i].picked) > 0

\* Mutant of ValidateScannedQuantity: the shortage counts twice.
ValidateScannedLoose(l) ==
  l.picked # Void /\ l.picked <= OfQty(l) + Number(l.short)
\* A count is saved unless it exceeds what was ordered of the line.
ValidateScannedQuantity(l) == l.picked # Void /\ l.picked <= OfQty(l)

\* Mutant of IsLastShortageLine: lines without a reason are not looked for.
IsLastShortageUnresolved(ls, k) == ~HasAnyLinePicked(ls)
\* Is k the last line without a reason, of a shipment of which nothing is picked?
IsLastShortageLine(ls, k) ==
  ~HasAnyLinePicked(ls) /\ \A i \in DOMAIN ls \ {k} : ls[i].reason # Void

-----------------------------------------------------------------------------
(* What is sent for a line: quantities that are Void stay as they are *)

Change(picked, qty, short) == [picked |-> picked, qty |-> qty, short |-> short]

PickedChange(l) == Change(Number(l.picked), Void, Void)

\* Mutant of ShortageChange: what was short before is replaced.
ShortageChangeAfresh(l, reason) ==
  LET n == Number(l.picked) IN
  Change(n, IF reason = "AllInventoryShortage" THEN n ELSE l.qty, l.qty - n)
\* Mutant of ShortageChange: the difference is taken the other way round.
ShortageChangeSwapped(l, reason) ==
  LET n == Number(l.picked) IN
  Change(n, IF reason = "AllInventoryShortage" THEN n ELSE l.qty, (n - l.qty) + Number(l.short))
\* Mutant of ShortageChange: the required quantity is not cut.
ShortageChangeUncut(l, reason) ==
  LET n == Number(l.picked) IN
  Change(n, l.qty, (l.qty - n) + Number(l.short))
\* With an inventory shortage the required quantity is cut to what is picked.
ShortageChange(l, reason) ==
  LET n == Number(l.picked) IN
  Change(n, IF reason = "AllInventoryShortage" THEN n ELSE l.qty, (l.qty - n) + Number(l.short))

PickedAllChange(l) == Change(l.qty, Void, Void)

\* Lines that were found short keep what was picked of them.
StartOverChange(l) ==
  Change(IF Number(l.short) > 0 THEN l.picked ELSE 0, Void, Void)

\* Mutant of FinishChange: a missing quantity leaves the requirement.
FinishChangeKeeping(l) ==
  Change(Number(l.picked), l.qty, IF Missing(l) THEN l.qty - Number(l.picked) ELSE Void)
FinishChange(l) ==
  Change(Number(l.picked), Number(l.picked), IF Missing(l) THEN l.qty - Number(l.picked) ELSE Void)

\* The end of picking: what changes, and whether the shipment is to be cancelled.  Of
\* this model nothing is sent (FinishCall).
ChangeShipment(ls) == [lines  |-> [i \in DOMAIN ls |-> FinishChange(ls[i])],
                       cancel |-> ~HasAnyLinePicked(ls)]

\* The server stores a change (the changeShipment of the mashups).
Stored(l, change) ==
  [l EXCEPT !.picked = change.picked,
            !.qty = IF change.qty = Void THEN @ ELSE change.qty,
            !.short = IF change.short = Void THEN @ ELSE change.short]

-----------------------------------------------------------------------------
(* Notes: one entry for each order, one note for each of its short lines *)

\* The note of one line, under its order.
NoteForLine(ls, i) == [order |-> ls[i].order, lines |-> <<i>>]

\* Mutant of Noted: an order that has an entry is not looked for.
NotedApart(notes, ls, i) ==
  IF Missing(ls[i]) THEN Append(notes, NoteForLine(ls, i)) ELSE notes
\* A line joins the entry of its order, or opens one.
Noted(notes, ls, i) ==
  LET at == SelectInSeq(notes, LAMBDA n : n.order = ls[i].order) IN
  CASE ~Missing(ls[i]) -> notes
    [] Missing(ls[i]) /\ at > 0 -> [notes EXCEPT ![at].lines = Append(@, i)]
    [] OTHER -> Append(notes, NoteForLine(ls, i))

NotesForShortageLines(ls) ==
  FoldLeft(LAMBDA notes, i : Noted(notes, ls, i), <<>>, [i \in DOMAIN ls |-> i])

-----------------------------------------------------------------------------
(* The call that ends picking *)

\* What the inventory of the store is told of one line.
Taken(ls, i) == [line |-> i, qty |-> Number(ls[i].picked)]

\* The lines of which something was picked.
Listed(inventory, ls, i) ==
  IF Number(ls[i].picked) > 0 THEN Append(inventory, Taken(ls, i)) ELSE inventory

Inventory(ls) ==
  FoldLeft(LAMBDA inventory, i : Listed(inventory, ls, i), <<>>, [i \in DOMAIN ls |-> i])

\* Four calls in one.  The changes of the shipment are computed, and left out: its two
\* calls have its key and status alone, and that of the orders has no order, because the
\* notes are a list of calls themselves.
FinishCall(ls) ==
  << [name |-> "changeShipment", lines |-> <<>>],
     [name |-> "invokeUE", lines |-> Inventory(ls)],
     [name |-> "changeShipmentStatus", lines |-> <<>>],
     [name |-> "changeOrder", lines |-> <<>>] >>

-----------------------------------------------------------------------------
(* Lines to show: bundle parents and empty lines are spliced out in a loop *)

Hidden(l) == l.bundle \/ l.qty = 0

\* Mutant of Spliced: the index moves on after a line is taken out.
SplicedSkipping(at, ls) ==
  IF at.j > Len(at.left) THEN at
  ELSE [j |-> at.j + 1,
        left |-> IF Hidden(ls[at.left[at.j]]) THEN RemoveAt(at.left, at.j) ELSE at.left]
\* One turn of the loop: the line at j is taken out, or j moves on.
Spliced(at, ls) ==
  IF at.j > Len(at.left) THEN at
  ELSE IF Hidden(ls[at.left[at.j]]) THEN [at EXCEPT !.left = RemoveAt(@, at.j)]
       ELSE [at EXCEPT !.j = @ + 1]

DisplayModel(ls) ==
  FoldLeft(LAMBDA at, turn : Spliced(at, ls),
           [j |-> 1, left |-> [i \in DOMAIN ls |-> i]], ls).left

-----------------------------------------------------------------------------
(* A session *)

Init == lines = <<>> /\ steps = 0

Step == steps < MaxSteps /\ steps' = steps + 1

\* A line as the server has it: nothing is picked beyond what is required.
Load(l) ==
  /\ Step /\ Len(lines) < MaxLines /\ (\A i \in DOMAIN lines : lines[i].reason = Void)
  /\ lines' = Append(lines, l)

Opening == {l \in [order : Order, qty : 0..MaxQty, picked : {Void, 1}, short : {Void, 1},
                   reason : {Void}, bundle : BOOLEAN] :
              Number(l.picked) <= l.qty /\ (l.bundle => l.picked = Void)}

ProcessScanned(n, l) == [l EXCEPT !.picked = Number(@) + n]

\* A code is translated to a line of the shipment; NoLine is a code without translation,
\* or that of a line which is not the shipment's.
NoLine == 0

\* n pieces of line i are scanned: its panel, told by an event, saves them unless they
\* are too many.  When no panel shows the line, a message says so and nothing changes.
Scan(i, n) ==
  /\ Step
  /\ lines' = IF i = NoLine \/ lines[i].bundle THEN lines
              ELSE LET l == ProcessScanned(n, lines[i]) IN
                   IF ValidateScannedQuantity(l)
                   THEN [lines EXCEPT ![i] = Stored(l, PickedChange(l))] ELSE lines

\* The reason is kept with the line on the screen.
Shortened(l, reason) == [Stored(l, ShortageChange(l, reason)) EXCEPT !.reason = reason]
MarkShort(i, reason) ==
  /\ Step /\ Missing(lines[i])
  /\ lines' = [lines EXCEPT ![i] = Shortened(@, reason)]

\* With the box for all lines ticked no change is sent: the server marks each of them.
MarkAllShort(i, reason) ==
  /\ Step /\ Missing(lines[i])
  /\ lines' = [k \in DOMAIN lines |->
                IF Missing(lines[k]) THEN Shortened(lines[k], reason) ELSE lines[k]]

PickAll ==
  /\ Step /\ lines # <<>>
  /\ lines' = [i \in DOMAIN lines |-> Stored(lines[i], PickedAllChange(lines[i]))]

\* Picking is started over when the screen is opened again, which has no reasons yet.
Restarted(l) == [Stored(l, StartOverChange(l)) EXCEPT !.reason = Void]
StartOver ==
  /\ Step /\ lines # <<>>
  /\ lines' = [i \in DOMAIN lines |-> Restarted(lines[i])]

Next ==
  \/ \E l \in Opening : Load(l)
  \/ \E i \in DOMAIN lines \cup {NoLine}, n \in 1..2 : Scan(i, n)
  \/ \E i \in DOMAIN lines, reason \in Reason : MarkShort(i, reason) \/ MarkAllShort(i, reason)
  \/ PickAll \/ StartOver

Spec == Init /\ [][Next]_vars

-----------------------------------------------------------------------------
(* Properties *)

\* Lines are lines: quantities are never negative, whatever was subtracted.
TypeOK == lines \in Seq(ShipmentLine) /\ steps \in 0..MaxSteps

\* Scans, shortages, "pick all" and starting over leave what was ordered of every
\* line: a unit moves between required and short, none is lost (getOfQty,
\* getShortageChangeShipmentModel, getChangeShipmentInputToUpdateBPQty).
UnitsKept ==
  [][\A i \in DOMAIN lines : OfQty(lines'[i]) = OfQty(lines[i])]_vars

\* No line is ever picked beyond what was ordered of it, whatever is scanned after a
\* shortage was marked (validateScannedQuantity).
NothingBeyondOrder == \A i \in DOMAIN lines : Number(lines[i].picked) <= OfQty(lines[i])

\* s lists the positions of S, each once and in their order.
Lists(s, S) == ToSet(s) = S /\ \A a, b \in DOMAIN s : a < b => s[a] < s[b]

\* The model of a finished shipment without overages accounts for every unit of its lines, unless
\* a line that was short before is missing more; it asks for the shipment to be
\* cancelled exactly when nothing is left of it (getChangeShipmentModel; what the code
\* sends of it is said at FinishCall); and the loop that lists what leaves the inventory
\* names exactly the lines of which something is left, each once (getInvokeUEModel).
FinishAccounts ==
  lines # <<>> /\ ~HasOverages(lines) =>
    LET change == ChangeShipment(lines)
        after == [i \in DOMAIN lines |-> Stored(lines[i], change.lines[i])] IN
    /\ \A i \in DOMAIN lines :
         ~(Missing(lines[i]) /\ Number(lines[i].short) > 0) => OfQty(after[i]) = OfQty(lines[i])
    /\ change.cancel <=> \A i \in DOMAIN lines : after[i].qty = 0
    /\ LET taken == FinishCall(lines)[2].lines IN
       Lists([k \in DOMAIN taken |-> taken[k].line], {i \in DOMAIN lines : after[i].qty > 0})

\* hasShortages passes over lines that have a reason: no piece that is missing hides
\* there, whatever is scanned or picked after the shortage (hasShortages against
\* getShortageChangeShipmentModel).
ShortagesAreSeen == HasShortages(lines) <=> \E i \in DOMAIN lines : Missing(lines[i])

\* The notes name every short line once, under its own order, and no order has two
\* entries, however the lines of the orders are mixed (getNotesForShortageLines).
NotesNameShortLines ==
  LET notes == NotesForShortageLines(lines) IN
  /\ \A m, n \in DOMAIN notes : notes[m].order = notes[n].order => m = n
  /\ \A n \in DOMAIN notes :
       Lists(notes[n].lines,
             {i \in DOMAIN lines : Missing(lines[i]) /\ lines[i].order = notes[n].order})
  /\ \A i \in DOMAIN lines : Missing(lines[i]) => \E n \in DOMAIN notes : notes[n].order = lines[i].order

\* Taking lines out of the array that is walked through leaves exactly the lines that
\* are shown, in their order (getBackroomPickShipmentDisplayModel).
DisplayIsFilter ==
  Lists(DisplayModel(lines), {i \in DOMAIN lines : ~Hidden(lines[i])})

\* Marking the line that is announced as the last shortage of a shipment of which
\* nothing is picked leaves nothing of the shipment: no piece is required, picked or
\* missing (isLastShortageLineForCancellingShipment).  The code leaves it at that: the
\* Cancel that getShortageChangeShipmentModel once added is commented out.
LastShortageLeavesNothing ==
  \A k \in DOMAIN lines :
    Missing(lines[k]) /\ IsLastShortageLine(lines, k) =>
      LET after == [lines EXCEPT ![k] = Shortened(@, "AllInventoryShortage")] IN
      \A i \in DOMAIN lines : after[i].qty = 0 /\ Number(after[i].picked) = 0
=============================================================================
