------------------------------ MODULE Chunking ------------------------------
(***************************************************************************)
(* How IndgManageInventoryMismatch cuts a store's adjustments into chunks. *)
(*                                                                         *)
(* Its counter starts at 1 and a chunk is sent when the counter has        *)
(* reached MaxItems BEFORE the next line is added, so a chunk holds        *)
(* MaxItems - 1 lines; what is left, possibly nothing, is sent at the end. *)
(* With MaxItems = 1 the first chunk is sent empty and the counter then    *)
(* passes MaxItems for good.  ChunkLoop checks these closed forms against  *)
(* the loop itself.                                                        *)
(***************************************************************************)
EXTENDS Integers, Sequences

CONSTANT MaxItems   \* property MAX_ITEM_ELEMENT_COUNT

ASSUME MaxItemsAssumption == MaxItems \in Nat \ {0}

Width == MaxItems - 1

\* The number of chunks of the lines s, for MaxItems > 1.
NumChunks(s) == IF s = <<>> THEN 1 ELSE (Len(s) + Width - 1) \div Width

Chunks(s) ==
  IF MaxItems = 1
  THEN IF s = <<>> THEN << <<>> >> ELSE << <<>>, s >>
  ELSE [j \in 1..NumChunks(s) |->
          SubSeq(s, (j - 1) * Width + 1, IF j * Width < Len(s) THEN j * Width ELSE Len(s))]
=============================================================================
