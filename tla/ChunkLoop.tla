------------------------------ MODULE ChunkLoop ------------------------------
(***************************************************************************)
(* The loop of IndgManageInventoryMismatch.pushInputForAdjustInventory,    *)
(* one iteration per step, against the closed form InvSync uses.           *)
(***************************************************************************)
EXTENDS Chunking

CONSTANTS Lines,     \* what a line can be
          MaxLines   \* bound on the lines of one store

VARIABLES input,     \* the lines of the feed, then those left in the map
          pos,       \* how many have been taken
          doc,       \* adjustInventoryDoc, the chunk being filled
          count,     \* itratorCount
          sent,      \* what was put on the queue
          done

vars == <<input, pos, doc, count, sent, done>>

Init ==
  /\ input \in UNION {[1..n -> Lines] : n \in 0..MaxLines}
  /\ pos = 0 /\ doc = <<>> /\ count = 1 /\ sent = <<>> /\ done = FALSE

\* Mutants of Iterate: the chunk is full one line later, the line that starts
\* a chunk is lost, and the counter starts again at 0.
IterateLate ==
  /\ pos < Len(input)
  /\ pos' = pos + 1
  /\ IF count > MaxItems
     THEN sent' = Append(sent, doc) /\ doc' = <<input[pos + 1]>> /\ count' = 2
     ELSE doc' = Append(doc, input[pos + 1]) /\ count' = count + 1 /\ UNCHANGED sent
  /\ UNCHANGED <<input, done>>
IterateLosing ==
  /\ pos < Len(input)
  /\ pos' = pos + 1
  /\ IF count = MaxItems
     THEN sent' = Append(sent, doc) /\ doc' = <<>> /\ count' = 2
     ELSE doc' = Append(doc, input[pos + 1]) /\ count' = count + 1 /\ UNCHANGED sent
  /\ UNCHANGED <<input, done>>
IterateFromZero ==
  /\ pos < Len(input)
  /\ pos' = pos + 1
  /\ IF count = MaxItems
     THEN sent' = Append(sent, doc) /\ doc' = <<input[pos + 1]>> /\ count' = 0
     ELSE doc' = Append(doc, input[pos + 1]) /\ count' = count + 1 /\ UNCHANGED sent
  /\ UNCHANGED <<input, done>>

Iterate ==
  /\ pos < Len(input)
  /\ pos' = pos + 1
  /\ IF count = MaxItems
     THEN /\ sent' = Append(sent, doc)
          /\ doc' = <<input[pos + 1]>>
          /\ count' = 2
     ELSE /\ doc' = Append(doc, input[pos + 1])
          /\ count' = count + 1
          /\ UNCHANGED sent
  /\ UNCHANGED <<input, done>>

PushLast ==
  /\ pos = Len(input) /\ ~done
  /\ sent' = Append(sent, doc)
  /\ done' = TRUE
  /\ UNCHANGED <<input, pos, doc, count>>

Next == Iterate \/ PushLast

Spec == Init /\ [][Next]_vars

\* The loop sends what the closed form says, for every number of lines,
\* including none and an exact multiple of the chunk size.
LoopSendsChunks == done => sent = Chunks(input)

\* Along the way no line is lost, repeated or reordered across chunks, and no
\* chunk but the last is short of its size.
NothingLost ==
  LET f[j \in 0..Len(sent)] == IF j = 0 THEN <<>> ELSE f[j - 1] \o sent[j]
  IN  /\ f[Len(sent)] \o (IF done THEN <<>> ELSE doc) = SubSeq(input, 1, pos)
      /\ MaxItems > 1 /\ ~done => \A j \in DOMAIN sent : Len(sent[j]) = MaxItems - 1

TypeOK ==
  /\ pos \in 0..Len(input) /\ count \in 1..(Len(input) + 1)
  /\ doc \in Seq(Lines) /\ sent \in Seq(Seq(Lines)) /\ done \in BOOLEAN
=============================================================================
