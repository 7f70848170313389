----------------------------- MODULE PickLedger -----------------------------
(***************************************************************************)
(* What picking a shipment promises, whatever happens on the screen: every *)
(* unit that was ordered is either required of its line or short, no line  *)
(* is picked beyond what is required of it, and a shipment that was        *)
(* finished stays finished.                                                *)
(***************************************************************************)
EXTENDS Integers

CONSTANTS Line, Ordered
VARIABLES order, status

vars == <<order, status>>

OrderLine == [qty : Nat, short : Nat, picked : Nat, done : BOOLEAN]

Init == /\ order \in [Line -> OrderLine]
        /\ \A l \in Line : /\ order[l].qty + order[l].short = Ordered[l]
                           /\ order[l].picked <= order[l].qty
        /\ status = "picking"

\* A line is counted again; what is required of it stays.
Count(l) ==
  \E n \in 0..order[l].qty :
    order'[l] = [order[l] EXCEPT !.picked = n, !.done = (n = order[l].qty)]

\* What is missing of a line becomes its shortage.
Shorten(l) ==
  \E n \in 0..Ordered[l] :
    order'[l] = [qty |-> n, short |-> Ordered[l] - n, picked |-> n, done |-> TRUE]

\* One step may concern several lines.
Record ==
  /\ order' = [l \in Line |-> order'[l]]
  /\ \A l \in Line : order'[l] = order[l] \/ Count(l) \/ Shorten(l)
  /\ UNCHANGED status

Finish == status' = "picked" /\ UNCHANGED order

Next == Record \/ Finish

Spec == Init /\ [][Next]_vars
=============================================================================
