----------------------------- MODULE MCSortScan -----------------------------
(* An instance of SortScan for TLC: a line of three pieces of which one is    *)
(* short already, and a line of one piece.                                    *)
EXTENDS SortScan, TLC

CONSTANTS l1, l2

MCOrdered == l1 :> 3 @@ l2 :> 1

Opened(qty, short, picked) ==
  [qty |-> qty, short |-> short, picked |-> picked, done |-> picked = qty]

MCOpenings == {l1 :> Opened(2, 1, 0) @@ l2 :> Opened(1, 0, 0)}
=============================================================================
