--------------------------- MODULE ChunkLoopProofs ---------------------------
(***************************************************************************)
(* The chunking loop computes the closed form that InvSync uses, for every *)
(* chunk size and every number of lines.                                   *)
(*                                                                         *)
(* While the loop runs, every chunk that was sent is full and the one that *)
(* is being filled holds the lines from there to where the loop is; it is  *)
(* empty only before the first line.  A chunk size of 1 is a case of its   *)
(* own: one empty chunk, then everything.  What was sent is joined by a    *)
(* recursion on the chunks; appending a chunk appends its lines.           *)
(***************************************************************************)
EXTENDS ChunkLoop, SequenceTheorems, DataInduction, TLAPS

Begin(j) == (j - 1) * Width + 1
Piece(j) == SubSeq(input, Begin(j), j * Width)

\* The loop with room for a line in a chunk.
Fills ==
  /\ sent \in Seq(Seq(Lines))
  /\ doc = SubSeq(input, Len(sent) * Width + 1, pos)
  /\ count \in 1..MaxItems
  /\ pos = Len(sent) * Width + (count - 1)
  /\ sent # <<>> => count > 1
  /\ \A j \in 1..Len(sent) : sent[j] = Piece(j)

\* The loop without.
Overflows ==
  IF pos = 0 THEN sent = <<>> /\ doc = <<>> /\ count = 1
  ELSE sent = << <<>> >> /\ doc = SubSeq(input, 1, pos) /\ count > 1

LoopInv ==
  /\ input \in Seq(Lines) /\ pos \in 0..Len(input) /\ count \in Nat /\ done \in BOOLEAN
  /\ done => pos = Len(input) /\ sent = Chunks(input)
  /\ ~done => IF MaxItems = 1 THEN Overflows ELSE Fills

\* d lines after q full chunks make q + 1 chunks.
LEMMA RoundedUp ==
  ASSUME NEW w \in Nat \ {0}, NEW q \in Nat, NEW d \in 1..w
  PROVE  (q * w + d + w - 1) \div w = q + 1
<1> DEFINE n == q * w + d + w - 1
<1>1. n = (q + 1) * w + (d - 1)
  <2>1. (q + 1) * w = q * w + w OBVIOUS
  <2>2. q * w \in Nat OBVIOUS
  <2> QED BY <2>1, <2>2
<1>2. d - 1 \in 0..(w - 1) OBVIOUS
<1>3. \A k \in Nat, r \in 0..(w - 1) : (k * w + r) \div w = k OBVIOUS
<1> QED BY <1>1, <1>2, <1>3

LEMMA SubSeqGrows ==
  ASSUME NEW S, NEW s \in Seq(S), NEW a \in Nat \ {0}, NEW p \in Nat, a <= p + 1, p + 1 <= Len(s)
  PROVE  Append(SubSeq(s, a, p), s[p + 1]) = SubSeq(s, a, p + 1)
<1> DEFINE u == SubSeq(s, a, p)
           v == SubSeq(s, a, p + 1)
<1>1. /\ u \in Seq(S) /\ Len(u) = p - a + 1
      /\ \A i \in 1..(p - a + 1) : u[i] = s[a + i - 1]
  <2>1. \A i \in a..p : s[i] \in S OBVIOUS
  <2>2. (IF a <= p THEN p - a + 1 ELSE 0) = p - a + 1 OBVIOUS
  <2> QED BY <2>1, <2>2, SubSeqProperties
<1>2. /\ v \in Seq(S) /\ Len(v) = p - a + 2
      /\ \A i \in 1..(p - a + 2) : v[i] = s[a + i - 1]
  <2>1. \A i \in a..(p + 1) : s[i] \in S OBVIOUS
  <2>2. (IF a <= p + 1 THEN (p + 1) - a + 1 ELSE 0) = p - a + 2 OBVIOUS
  <2> QED BY <2>1, <2>2, SubSeqProperties
<1> HIDE DEF u, v
<1>3. s[p + 1] \in S OBVIOUS
<1>4. Append(u, s[p + 1]) \in Seq(S) /\ Len(Append(u, s[p + 1])) = Len(v)
  BY <1>1, <1>2, <1>3
<1>5. \A i \in 1..Len(v) : Append(u, s[p + 1])[i] = v[i]
  <2> SUFFICES ASSUME NEW i \in 1..Len(v) PROVE Append(u, s[p + 1])[i] = v[i] OBVIOUS
  <2>1. CASE i <= Len(u) BY <1>1, <1>2, <1>3, <2>1
  <2>2. CASE i = Len(u) + 1
    <3>1. a + i - 1 = p + 1 BY <1>1, <2>2
    <3>2. v[i] = s[p + 1] BY <1>2, <3>1
    <3>3. Append(u, s[p + 1])[i] = s[p + 1]
      <4>1. \A r : r \in S => Append(u, r)[Len(u) + 1] = r BY <1>1
      <4> QED BY <1>3, <2>2, <4>1
    <3> QED BY <3>2, <3>3
  <2> QED BY <1>1, <1>2, <2>1, <2>2
<1>6. \A i \in 1..Len(Append(u, s[p + 1])) : Append(u, s[p + 1])[i] = v[i] BY <1>4, <1>5
<1>7. Append(u, s[p + 1]) = v
  <2> DEFINE t == Append(u, s[p + 1])
  <2>1. t \in Seq(S) /\ v \in Seq(S) /\ Len(t) = Len(v) BY <1>2, <1>4
  <2>2. \A i \in 1..Len(t) : t[i] = v[i] BY <1>6
  <2> HIDE DEF t
  <2>3. t = v BY <2>1, <2>2, SeqEqual
  <2> QED BY <2>3 DEF t
<1> QED BY <1>7 DEF u, v

LEMMA SubSeqType ==
  ASSUME NEW S, NEW s \in Seq(S), NEW a \in Nat \ {0}, NEW p \in Int, p <= Len(s)
  PROVE  SubSeq(s, a, p) \in Seq(S)
<1>1. \A i \in a..p : s[i] \in S OBVIOUS
<1> QED BY <1>1, SubSeqProperties

LEMMA SubSeqOne ==
  ASSUME NEW S, NEW s \in Seq(S), NEW i \in 1..Len(s)
  PROVE  SubSeq(s, i, i) = <<s[i]>>
<1>1. i \in Nat \ {0} /\ i - 1 \in Nat /\ (i - 1) + 1 = i OBVIOUS
<1>2. SubSeq(s, i, i - 1) = <<>> BY <1>1, SubSeqEmpty
<1>3. Append(SubSeq(s, i, i - 1), s[(i - 1) + 1]) = SubSeq(s, i, (i - 1) + 1)
  BY <1>1, SubSeqGrows
<1>4. Append(<<>>, s[i]) = <<s[i]>> OBVIOUS
<1> QED BY <1>1, <1>2, <1>3, <1>4

LEMMA AppendOne ==
  ASSUME NEW S, NEW s \in Seq(S), NEW e \in S
  PROVE  /\ Append(s, e) \in Seq(S) /\ Len(Append(s, e)) = Len(s) + 1 /\ Append(s, e) # <<>>
         /\ \A j \in 1..Len(s) : Append(s, e)[j] = s[j]
         /\ Append(s, e)[Len(s) + 1] = e
OBVIOUS

LEMMA LoopStarts == Init => LoopInv
<1> SUFFICES ASSUME Init PROVE LoopInv OBVIOUS
<1>1. input \in Seq(Lines)
  <2>1. PICK n \in 0..MaxLines : input \in [1..n -> Lines] BY DEF Init
  <2> QED BY <2>1
<1>2. Fills \/ MaxItems = 1
  <2> SUFFICES ASSUME MaxItems # 1 PROVE Fills OBVIOUS
  <2>1. Width \in Nat BY MaxItemsAssumption DEF Width
  <2>2. SubSeq(input, 0 * Width + 1, 0) = <<>> BY <2>1, <1>1
  <2> QED BY <2>1, <2>2, MaxItemsAssumption DEF Init, Fills
<1>3. pos = 0 /\ doc = <<>> /\ count = 1 /\ sent = <<>> /\ done = FALSE BY DEF Init
<1>4. Overflows BY <1>3 DEF Overflows
<1>5. Len(input) \in Nat BY <1>1
<1>6. pos \in 0..Len(input) /\ count \in Nat BY <1>3, <1>5
<1>7. done \in BOOLEAN /\ ~done BY Zenon DEF Init
<1>8. IF MaxItems = 1 THEN Overflows ELSE Fills BY <1>2, <1>4
<1> QED BY <1>1, <1>6, <1>7, <1>8 DEF LoopInv

LEMMA LoopIterates == LoopInv /\ Iterate => LoopInv'
<1> SUFFICES ASSUME LoopInv, Iterate PROVE LoopInv' OBVIOUS
<1>1. /\ input \in Seq(Lines) /\ pos \in Nat /\ count \in Nat /\ ~done
      /\ pos' = pos + 1 /\ pos + 1 <= Len(input) /\ input[pos + 1] \in Lines
      /\ UNCHANGED <<input, done>>
  <2>1. input \in Seq(Lines) /\ pos \in 0..Len(input) /\ count \in Nat BY DEF LoopInv
  <2>2. pos < Len(input) /\ pos' = pos + 1 /\ input' = input /\ done' = done BY DEF Iterate
  <2>3. ~done BY <2>1, <2>2 DEF LoopInv
  <2>4. pos \in Nat /\ pos + 1 \in 1..Len(input) BY <2>1, <2>2
  <2>5. input[pos + 1] \in Lines BY <2>1, <2>4
  <2> QED BY <2>1, <2>2, <2>3, <2>4, <2>5
<1>2. count' \in Nat /\ pos' \in 0..Len(input') BY <1>1 DEF Iterate
<1>3. CASE MaxItems = 1
  <2>1. Overflows BY <1>1, <1>3 DEF LoopInv
  <2>2. SubSeq(input, 1, pos') = Append(SubSeq(input, 1, pos), input[pos + 1])
    BY <1>1, SubSeqGrows
  <2>3. CASE pos = 0
    <3>1. sent' = << <<>> >> /\ doc' = <<input[1]>> /\ count' = 2
      BY <1>1, <1>3, <2>1, <2>3 DEF Overflows, Iterate
    <3>2. SubSeq(input, 1, 1) = <<input[1]>> BY <1>1, <2>3, SubSeqOne
    <3> QED BY <1>1, <1>2, <1>3, <2>3, <3>1, <3>2 DEF LoopInv, Overflows
  <2>4. CASE pos # 0
    <3>1. sent' = sent /\ doc' = Append(doc, input[pos + 1]) /\ count' = count + 1
      BY <1>1, <1>3, <2>1, <2>4 DEF Overflows, Iterate
    <3> QED BY <1>1, <1>2, <1>3, <2>1, <2>2, <2>4, <3>1 DEF LoopInv, Overflows
  <2> QED BY <2>3, <2>4
<1>4. CASE MaxItems # 1
  <2> DEFINE n == Len(sent)
  <2>1. Fills BY <1>1, <1>4 DEF LoopInv
  <2>2. Width \in Nat \ {0} /\ MaxItems = Width + 1 BY <1>4, MaxItemsAssumption DEF Width
  <2>3. n \in Nat /\ n * Width \in Nat /\ (n + 1) * Width = n * Width + Width
    BY <2>1, <2>2 DEF Fills
  <2>4. CASE count = MaxItems
    <3>1. sent' = Append(sent, doc) /\ doc' = <<input[pos + 1]>> /\ count' = 2
      BY <2>4 DEF Iterate
    <3>2. pos = (n + 1) * Width BY <2>1, <2>2, <2>3, <2>4 DEF Fills
    <3>3. doc \in Seq(Lines)
      <4>1. n * Width + 1 \in Nat \ {0} /\ pos <= Len(input) BY <1>1, <2>3
      <4>2. SubSeq(input, n * Width + 1, pos) \in Seq(Lines) BY <1>1, <4>1, SubSeqType
      <4> QED BY <2>1, <4>2 DEF Fills
    <3>4. sent' \in Seq(Seq(Lines)) /\ Len(sent') = n + 1 /\ sent' # <<>>
          /\ (\A j \in 1..n : sent'[j] = sent[j]) /\ sent'[n + 1] = doc
      <4>1. sent \in Seq(Seq(Lines)) BY <2>1 DEF Fills
      <4> QED BY <3>1, <3>3, <4>1, AppendOne
    <3>5. doc' = SubSeq(input', Len(sent') * Width + 1, pos')
      <4>1. Len(sent') * Width + 1 = pos + 1 BY <3>2, <3>4
      <4>2. SubSeq(input, pos + 1, pos + 1) = <<input[pos + 1]>> BY <1>1, SubSeqOne
      <4> QED BY <1>1, <3>1, <4>1, <4>2
    <3>6. doc = Piece(n + 1)
      <4>1. Begin(n + 1) = n * Width + 1 BY <2>3 DEF Begin
      <4> QED BY <2>1, <3>2, <4>1 DEF Fills, Piece
    <3>7. \A j \in 1..Len(sent') : sent'[j] = Piece(j)'
      <4>1. \A j \in 1..Len(sent') : Piece(j)' = Piece(j) BY <1>1 DEF Piece, Begin
      <4>2. \A j \in 1..(n + 1) : j \in 1..n \/ j = n + 1 BY <2>3
      <4> QED BY <2>1, <3>4, <3>6, <4>1, <4>2 DEF Fills
    <3>8. pos' = Len(sent') * Width + (count' - 1) BY <1>1, <2>3, <3>1, <3>2, <3>4
    <3>9. count' \in 1..MaxItems BY <2>2, <3>1
    <3>10. Fills' BY <3>1, <3>4, <3>5, <3>7, <3>8, <3>9 DEF Fills
    <3> QED BY <1>1, <1>2, <1>4, <3>10 DEF LoopInv
  <2>5. CASE count # MaxItems
    <3>1. sent' = sent /\ doc' = Append(doc, input[pos + 1]) /\ count' = count + 1
      BY <2>5 DEF Iterate
    <3>2. doc' = SubSeq(input', Len(sent') * Width + 1, pos')
      <4>1. n * Width + 1 \in Nat \ {0} /\ n * Width + 1 <= pos + 1
        <5> DEFINE x == n * Width
        <5>1. x \in Nat /\ pos = x + (count - 1) /\ count - 1 \in Nat BY <2>1, <2>3 DEF Fills
        <5> HIDE DEF x
        <5>2. x + 1 \in Nat \ {0} /\ x + 1 <= pos + 1 BY <5>1
        <5> QED BY <5>2 DEF x
      <4>2. SubSeq(input, n * Width + 1, pos + 1)
              = Append(SubSeq(input, n * Width + 1, pos), input[pos + 1])
        BY <1>1, <4>1, SubSeqGrows
      <4> QED BY <1>1, <2>1, <3>1, <4>2 DEF Fills
    <3>3. \A j \in 1..Len(sent') : sent'[j] = Piece(j)'
      BY <1>1, <2>1, <3>1 DEF Fills, Piece, Begin
    <3>4. count' \in 1..MaxItems /\ pos' = Len(sent') * Width + (count' - 1)
      BY <1>1, <2>1, <2>2, <2>3, <2>5, <3>1 DEF Fills
    <3>5. sent' # <<>> => count' > 1 BY <1>1, <2>1, <3>1 DEF Fills
    <3>6. Fills' BY <2>1, <3>1, <3>2, <3>3, <3>4, <3>5 DEF Fills
    <3> QED BY <1>1, <1>2, <1>4, <3>6 DEF LoopInv
  <2> QED BY <2>4, <2>5
<1> QED BY <1>3, <1>4

LEMMA LoopEnds == LoopInv /\ PushLast => LoopInv'
<1> SUFFICES ASSUME LoopInv, PushLast PROVE LoopInv' OBVIOUS
<1>1. /\ input \in Seq(Lines) /\ pos = Len(input) /\ count \in Nat /\ ~done /\ done'
      /\ sent' = Append(sent, doc) /\ UNCHANGED <<input, pos, doc, count>>
  BY DEF LoopInv, PushLast
<1> SUFFICES sent' = Chunks(input) BY <1>1 DEF LoopInv, Chunks, NumChunks, PushLast
<1>2. SubSeq(input, 1, Len(input)) = input BY <1>1
<1>3. input = <<>> <=> pos = 0 BY <1>1
<1>4. CASE MaxItems = 1
  <2>1. Overflows BY <1>1, <1>4 DEF LoopInv
  <2>2. CASE input = <<>>
    <3>1. sent' = << <<>> >> BY <1>1, <1>3, <2>1, <2>2 DEF Overflows
    <3> QED BY <1>4, <2>2, <3>1 DEF Chunks
  <2>3. CASE input # <<>>
    <3>1. sent = << <<>> >> /\ doc = input BY <1>1, <1>2, <1>3, <2>1, <2>3 DEF Overflows
    <3>2. Append(<< <<>> >>, input) = << <<>>, input >>
      <4> DEFINE S == {<<>>, input}
                 t == Append(<< <<>> >>, input)
                 u == << <<>>, input >>
      <4>1. << <<>> >> \in Seq(S) /\ input \in S /\ Len(<< <<>> >>) = 1 OBVIOUS
      <4>2. t \in Seq(S) /\ Len(t) = 2 /\ t[2] = input BY <4>1, AppendOne
      <4>3. u \in Seq(S) /\ Len(u) = 2 /\ u[1] = <<>> /\ u[2] = input OBVIOUS
      <4>4. t[1] = <<>>
        <5>1. 1 \in 1..Len(<< <<>> >>) /\ << <<>> >>[1] = <<>> OBVIOUS
        <5> QED BY <4>1, <5>1, AppendOne
      <4> HIDE DEF t, u, S
      <4>5. \A i \in 1..Len(t) : t[i] = u[i] BY <4>2, <4>3, <4>4
      <4>6. t = u BY <4>2, <4>3, <4>5, SeqEqual
      <4> QED BY <4>6 DEF t, u
    <3> QED BY <1>1, <1>4, <2>3, <3>1, <3>2 DEF Chunks
  <2> QED BY <2>2, <2>3
<1>5. CASE MaxItems # 1
  <2> DEFINE n == Len(sent)
             d == count - 1
  <2>1. Fills BY <1>1, <1>5 DEF LoopInv
  <2>2. Width \in Nat \ {0} /\ MaxItems = Width + 1 BY <1>5, MaxItemsAssumption DEF Width
  <2>3. /\ n \in Nat /\ n * Width \in Nat /\ (n + 1) * Width = n * Width + Width
        /\ d \in 0..Width /\ Len(input) = n * Width + d
    BY <1>1, <2>1, <2>2 DEF Fills
  <2>4. NumChunks(input) = n + 1
    <3>1. CASE input = <<>>
      <4>1. n * Width = 0 BY <1>1, <2>3, <3>1
      <4>2. n = 0 BY <2>2, <2>3, <4>1
      <4> QED BY <3>1, <4>2 DEF NumChunks
    <3>2. CASE input # <<>>
      <4>1. d \in 1..Width
        <5>1. CASE sent = <<>>
          <6>1. n = 0 BY <5>1
          <6>2. n * Width = 0 BY <2>2, <6>1
          <6> QED BY <1>1, <1>3, <2>3, <3>2, <6>2
        <5>2. CASE sent # <<>> BY <2>1, <2>3, <5>2 DEF Fills
        <5> QED BY <5>1, <5>2
      <4>2. (n * Width + d + Width - 1) \div Width = n + 1
        <5> HIDE DEF n, d
        <5> QED BY <2>2, <2>3, <4>1, RoundedUp
      <4> QED BY <2>3, <3>2, <4>2 DEF NumChunks
    <3> QED BY <3>1, <3>2
  <2>5. ASSUME NEW j \in 1..(n + 1)
        PROVE  sent'[j] = SubSeq(input, Begin(j), IF j * Width < Len(input) THEN j * Width
                                                  ELSE Len(input))
    <3>0. doc \in Seq(Lines)
      <4>1. n * Width + 1 \in Nat \ {0} /\ pos <= Len(input) BY <1>1, <2>3
      <4>2. SubSeq(input, n * Width + 1, pos) \in Seq(Lines) BY <1>1, <4>1, SubSeqType
      <4> QED BY <2>1, <4>2 DEF Fills
    <3>1. CASE j \in 1..n
      <4>1. sent'[j] = Piece(j) BY <1>1, <2>1, <3>1 DEF Fills
      <4>2. j * Width <= n * Width
        <5> HIDE DEF n
        <5> QED BY <2>2, <2>3, <3>1
      <4>3. d >= 1 BY <2>1, <2>3, <3>1 DEF Fills
      <4>4. j * Width \in Nat BY <2>2, <3>1
      <4>5. j * Width < Len(input)
        <5> DEFINE x == n * Width
                   y == j * Width
        <5>1. x \in Nat /\ y \in Nat /\ y <= x /\ Len(input) = x + d /\ d \in Nat /\ d >= 1
          BY <2>3, <4>2, <4>3, <4>4
        <5> HIDE DEF x, y, d
        <5>2. y < Len(input) BY <5>1
        <5> QED BY <5>2 DEF y
      <4> QED BY <4>1, <4>5 DEF Piece
    <3>2. CASE j = n + 1
      <4>1. sent'[j] = SubSeq(input, n * Width + 1, Len(input))
        <5>1. sent'[n + 1] = doc
          <6>1. sent \in Seq(Seq(Lines)) BY <2>1 DEF Fills
          <6> QED BY <1>1, <3>0, <6>1, AppendOne
        <5> QED BY <1>1, <2>1, <3>2, <5>1 DEF Fills
      <4>2. Begin(j) = n * Width + 1 BY <2>3, <3>2 DEF Begin
      <4>3. ~(j * Width < Len(input)) BY <2>2, <2>3, <3>2
      <4> QED BY <4>1, <4>2, <4>3
    <3> QED BY <2>3, <3>1, <3>2
  <2>6. sent' \in Seq(Seq(Lines)) /\ Len(sent') = n + 1
    <3>1. doc \in Seq(Lines)
      <4>1. n * Width + 1 \in Nat \ {0} /\ pos <= Len(input) BY <1>1, <2>3
      <4>2. SubSeq(input, n * Width + 1, pos) \in Seq(Lines) BY <1>1, <4>1, SubSeqType
      <4> QED BY <2>1, <4>2 DEF Fills
    <3> QED BY <1>1, <2>1, <3>1 DEF Fills
  <2>7. sent' = [j \in 1..(n + 1) |-> sent'[j]] BY <2>6
  <2>8. Chunks(input) = [j \in 1..(n + 1) |->
          SubSeq(input, Begin(j), IF j * Width < Len(input) THEN j * Width ELSE Len(input))]
    BY <1>5, <2>4 DEF Chunks, Begin
  <2> QED BY <2>5, <2>7, <2>8
<1> QED BY <1>4, <1>5

\* The counter never runs ahead of the lines.
TypeInv == TypeOK /\ input \in Seq(Lines) /\ count <= pos + 1

LEMMA TypeInvHolds == Spec => []TypeInv
<1>1. Init => TypeInv
  <2> SUFFICES ASSUME Init PROVE TypeInv OBVIOUS
  <2>1. input \in Seq(Lines)
    <3>1. PICK n \in 0..MaxLines : input \in [1..n -> Lines] BY DEF Init
    <3> QED BY <3>1
  <2>2. pos = 0 /\ doc = <<>> /\ count = 1 /\ sent = <<>> BY DEF Init
  <2>3. done \in BOOLEAN BY Zenon DEF Init
  <2>4. Len(input) \in Nat BY <2>1
  <2> QED BY <2>1, <2>2, <2>3, <2>4 DEF TypeInv, TypeOK
<1>2. TypeInv /\ Iterate => TypeInv'
  <2> SUFFICES ASSUME TypeInv, Iterate PROVE TypeInv' OBVIOUS
  <2>1. /\ pos \in Nat /\ pos' = pos + 1 /\ pos + 1 <= Len(input) /\ input' = input
        /\ count \in Nat /\ count >= 1 /\ input \in Seq(Lines) /\ input[pos + 1] \in Lines
    BY DEF TypeInv, TypeOK, Iterate
  <2>2. doc \in Seq(Lines) /\ sent \in Seq(Seq(Lines)) BY DEF TypeInv, TypeOK
  <2>3. doc' \in Seq(Lines) /\ sent' \in Seq(Seq(Lines))
    <3>1. \/ doc' = <<input[pos + 1]>> /\ sent' = Append(sent, doc)
          \/ doc' = Append(doc, input[pos + 1]) /\ sent' = sent
      BY DEF Iterate
    <3>2. <<input[pos + 1]>> \in Seq(Lines) BY <2>1
    <3>3. Append(sent, doc) \in Seq(Seq(Lines)) BY <2>2, AppendOne
    <3>4. Append(doc, input[pos + 1]) \in Seq(Lines) BY <2>1, <2>2, AppendOne
    <3> QED BY <2>2, <3>1, <3>2, <3>3, <3>4
  <2>4. count' = 2 \/ count' = count + 1 BY DEF Iterate
  <2>5. count' <= pos' + 1 /\ count' \in 1..(Len(input) + 1)
    BY <2>1, <2>4 DEF TypeInv
  <2>6. done' \in BOOLEAN BY Zenon DEF TypeInv, TypeOK, Iterate
  <2> QED BY <2>1, <2>3, <2>5, <2>6 DEF TypeInv, TypeOK
<1>3. TypeInv /\ PushLast => TypeInv'
  <2> SUFFICES ASSUME TypeInv, PushLast PROVE TypeInv' OBVIOUS
  <2>1. sent' \in Seq(Seq(Lines)) BY DEF TypeInv, TypeOK, PushLast
  <2>2. done' \in BOOLEAN BY Zenon DEF PushLast
  <2> QED BY <2>1, <2>2 DEF TypeInv, TypeOK, PushLast
<1>4. TypeInv /\ UNCHANGED vars => TypeInv' BY DEF TypeInv, TypeOK, vars
<1>5. TypeInv /\ [Next]_vars => TypeInv' BY <1>2, <1>3, <1>4 DEF Next
<1> QED BY <1>1, <1>5, PTL DEF Spec

\* Every variable of the loop keeps its type, for every chunk size.
THEOREM LoopTypes == Spec => []TypeOK
<1>1. TypeInv => TypeOK BY DEF TypeInv
<1> QED BY TypeInvHolds, <1>1, PTL

LEMMA LoopInvHolds == Spec => []LoopInv
<1>1. LoopInv /\ UNCHANGED vars => LoopInv'
  BY DEF LoopInv, Fills, Overflows, Chunks, NumChunks, Piece, Begin, vars
<1>2. LoopInv /\ [Next]_vars => LoopInv' BY LoopIterates, LoopEnds, <1>1 DEF Next
<1> QED BY LoopStarts, <1>2, PTL DEF Spec

\* The loop of pushInputForAdjustInventory sends the chunks that InvSync takes it
\* to send, for every chunk size and every number of lines.
THEOREM LoopComputesChunks == Spec => []LoopSendsChunks
<1>1. LoopInv => LoopSendsChunks BY DEF LoopInv, LoopSendsChunks
<1> QED BY LoopInvHolds, <1>1, PTL

-----------------------------------------------------------------------------
(* The lines that were sent, as a recursion on the chunks *)

Join(s) == CHOOSE f : f = [j \in 0..Len(s) |-> IF j = 0 THEN <<>> ELSE f[j - 1] \o s[j]]

LEMMA JoinEquation ==
  ASSUME NEW s \in Seq(Seq(Lines))
  PROVE  /\ Join(s)[0] = <<>>
         /\ \A j \in 1..Len(s) : Join(s)[j] = Join(s)[j - 1] \o s[j]
         /\ \A j \in 0..Len(s) : Join(s)[j] \in Seq(Lines)
<1> DEFINE V == Seq(Lines)
           n == Len(s)
           F == [p \in V \X Nat |-> IF p[2] \in 1..n THEN p[1] \o s[p[2]] ELSE p[1]]
           Next1(g) == [j \in 0..n |-> IF j = 0 THEN <<>> ELSE g[j - 1] \o s[j]]
<1>1. n \in Nat /\ <<>> \in V OBVIOUS
<1>2. F \in [V \X Nat -> V]
  <2> SUFFICES ASSUME NEW p \in V \X Nat
               PROVE  (IF p[2] \in 1..n THEN p[1] \o s[p[2]] ELSE p[1]) \in V
    OBVIOUS
  <2>1. p[1] \in Seq(Lines) OBVIOUS
  <2>2. CASE p[2] \in 1..n
    <3>1. s[p[2]] \in Seq(Lines) BY <2>2
    <3> QED BY <2>1, <2>2, <3>1, ConcatProperties
  <2> QED BY <2>1, <2>2
<1> DEFINE a == <<>>
<1>3. PICK g : Recurs(g, n, V, a, F)
  <2>1. a \in V BY <1>1
  <2> HIDE DEF F, V, n, a
  <2> QED BY <1>1, <1>2, <2>1, NumberRecursion
<1>a. g \in [0..n -> V] /\ \A i \in 0..n : g[i] = IF i = 0 THEN <<>> ELSE F[<<g[i - 1], i>>]
  <2> HIDE DEF F, V, n
  <2> QED BY <1>3 DEF Recurs
<1>4. ASSUME NEW i \in 1..n PROVE F[<<g[i - 1], i>>] = g[i - 1] \o s[i]
  <2> HIDE DEF n, V
  <2>1. i \in Nat /\ i - 1 \in 0..n /\ g[i - 1] \in V BY <1>1, <1>a
  <2> QED BY <2>1
<1>5. g = Next1(g)
  <2>1. g = [j \in 0..n |-> g[j]] BY <1>a
  <2> HIDE DEF F, V
  <2>2. \A j \in 0..n : j = 0 \/ j \in 1..n BY <1>1
  <2> QED BY <1>a, <1>4, <2>1, <2>2
<1> DEFINE h == Join(s)
<1>6. h = Next1(h) BY <1>5, Zenon DEF Join
<1> HIDE DEF h
<1> HIDE DEF n
<1>7. \A j \in 0..n : h[j] = IF j = 0 THEN <<>> ELSE h[j - 1] \o s[j] BY <1>6
<1>8. h[0] = <<>> BY <1>1, <1>7
<1>9. \A j \in 1..n : h[j] = h[j - 1] \o s[j]
  <2>1. \A j \in 1..n : j \in 0..n /\ ~(j = 0) BY <1>1
  <2> QED BY <1>7, <2>1, Zenon
<1> DEFINE S == {j \in 0..n : h[j] \in V}
<1>10. 0 \in S
  <2>1. 0 \in 0..n BY <1>1
  <2> QED BY <1>1, <1>8, <2>1, Zenon
<1>11. ASSUME NEW j \in 0..(n - 1), j \in S PROVE j + 1 \in S
  <2>1. j + 1 \in 1..n /\ (j + 1) - 1 = j BY <1>1
  <2>2. h[j + 1] = h[j] \o s[j + 1] BY <1>9, <2>1
  <2>3. h[j] \in Seq(Lines) /\ s[j + 1] \in Seq(Lines) BY <1>11, <2>1 DEF n
  <2>4. h[j + 1] \in Seq(Lines) BY <2>2, <2>3, ConcatProperties
  <2> QED BY <2>1, <2>4
<1>12. \A j \in 0..n : j \in S
  <2> HIDE DEF S
  <2> QED BY <1>1, <1>10, <1>11, RangeByInduction
<1> QED BY <1>8, <1>9, <1>12 DEF h, n

LEMMA JoinAppend ==
  ASSUME NEW s \in Seq(Seq(Lines)), NEW e \in Seq(Lines)
  PROVE  Join(Append(s, e))[Len(s) + 1] = Join(s)[Len(s)] \o e
<1> DEFINE n == Len(s)
           t == Append(s, e)
           S == {j \in 0..n : Join(t)[j] = Join(s)[j]}
<1>1. /\ n \in Nat /\ t \in Seq(Seq(Lines)) /\ Len(t) = n + 1 /\ t[n + 1] = e
      /\ \A j \in 1..n : t[j] = s[j]
  BY AppendOne
<1>a. /\ Join(s)[0] = <<>>
      /\ \A j \in 1..n : Join(s)[j] = Join(s)[j - 1] \o s[j]
  BY JoinEquation
<1>b. /\ Join(t)[0] = <<>>
      /\ \A j \in 1..(n + 1) : Join(t)[j] = Join(t)[j - 1] \o t[j]
  <2> HIDE DEF t, n
  <2> QED BY <1>1, JoinEquation
<1> HIDE DEF t, n
<1>2. 0 \in S BY <1>1, <1>a, <1>b
<1>3. ASSUME NEW j \in 0..(n - 1), j \in S PROVE j + 1 \in S
  <2>0. n \in Nat BY <1>1
  <2>1. j + 1 \in 1..n /\ j + 1 \in 1..(n + 1) /\ (j + 1) - 1 = j BY <2>0
  <2>2. Join(t)[j + 1] = Join(t)[j] \o t[j + 1] BY <1>b, <2>1
  <2>3. Join(s)[j + 1] = Join(s)[j] \o s[j + 1] BY <1>a, <2>1
  <2>4. j + 1 \in 0..n /\ Join(t)[j] = Join(s)[j] BY <1>1, <1>3
  <2>5. Join(t)[j + 1] = Join(s)[j + 1] BY <1>1, <2>1, <2>2, <2>3, <2>4
  <2> QED BY <2>4, <2>5
<1>4. \A j \in 0..n : j \in S
  <2> HIDE DEF S
  <2> QED BY <1>1, <1>2, <1>3, RangeByInduction
<1>5. Join(t)[n] = Join(s)[n] BY <1>1, <1>4
<1>6. n + 1 \in 1..(n + 1) /\ (n + 1) - 1 = n BY <1>1
<1>7. Join(t)[n + 1] = Join(t)[n] \o t[n + 1] BY <1>b, <1>6
<1> QED BY <1>1, <1>5, <1>7 DEF t, n

\* What was sent and what is being filled are the lines up to where the loop is.
Whole == Join(sent)[Len(sent)] \o (IF done THEN <<>> ELSE doc) = SubSeq(input, 1, pos)
JoinInv == TypeInv /\ LoopInv /\ Whole

LEMMA Concats ==
  ASSUME NEW u \in Seq(Lines), NEW d \in Seq(Lines), NEW e \in Lines
  PROVE  /\ u \o <<>> = u /\ u \o <<e>> = Append(u, e)
         /\ u \o Append(d, e) = Append(u \o d, e)
<1>1. u \o <<>> = u BY ConcatEmptySeq
<1>2. u \o <<e>> = Append(u, e) BY AppendIsConcat
<1>3. Append(d, e) = d \o <<e>> BY AppendIsConcat
<1>4. u \o d \in Seq(Lines) /\ <<e>> \in Seq(Lines) BY ConcatProperties
<1>5. Append(u \o d, e) = (u \o d) \o <<e>> BY <1>4, AppendIsConcat
<1>6. u \o (d \o <<e>>) = (u \o d) \o <<e>> BY <1>4, ConcatAssociative
<1> QED BY <1>1, <1>2, <1>3, <1>5, <1>6

LEMMA WholeIterates == JoinInv /\ Iterate => Whole'
<1> SUFFICES ASSUME JoinInv, Iterate PROVE Whole' OBVIOUS
<1> DEFINE u == Join(sent)[Len(sent)]
           e == input[pos + 1]
<1>1. /\ input \in Seq(Lines) /\ pos \in Nat /\ pos < Len(input) /\ pos' = pos + 1
      /\ doc \in Seq(Lines) /\ sent \in Seq(Seq(Lines)) /\ Len(sent) \in Nat
      /\ input' = input
  BY DEF JoinInv, TypeInv, TypeOK, Iterate
<1>a. ~done /\ ~done'
  <2>1. done => pos = Len(input) BY Zenon DEF JoinInv, LoopInv
  <2>2. ~done BY <1>1, <2>1
  <2> QED BY <2>2, Zenon DEF Iterate
<1>2. u \in Seq(Lines)
  <2>1. Len(sent) \in 0..Len(sent) BY <1>1
  <2> QED BY <1>1, <2>1, JoinEquation
<1>3. u \o doc = SubSeq(input, 1, pos) BY <1>a, Zenon DEF JoinInv, Whole
<1>4. e \in Lines BY <1>1
<1>5. Append(SubSeq(input, 1, pos), e) = SubSeq(input, 1, pos + 1) BY <1>1, SubSeqGrows
<1>6. u \o doc \in Seq(Lines) BY <1>1, <1>2, ConcatProperties
<1>7. CASE sent' = Append(sent, doc) /\ doc' = <<e>>
  <2>1. Join(sent')[Len(sent')] = u \o doc BY <1>1, <1>7, JoinAppend
  <2>2. (u \o doc) \o <<e>> = Append(u \o doc, e) BY <1>4, <1>6, AppendIsConcat
  <2>3. Join(sent')[Len(sent')] \o doc' = SubSeq(input', 1, pos')
    BY <1>1, <1>3, <1>5, <1>7, <2>1, <2>2
  <2> QED BY <1>a, <2>3, Zenon DEF Whole
<1>8. CASE sent' = sent /\ doc' = Append(doc, e)
  <2>1. u \o Append(doc, e) = Append(u \o doc, e) BY <1>1, <1>2, <1>4, Concats
  <2>2. Join(sent')[Len(sent')] \o doc' = SubSeq(input', 1, pos')
    BY <1>1, <1>3, <1>5, <1>8, <2>1
  <2> QED BY <1>a, <2>2, Zenon DEF Whole
<1> QED BY <1>7, <1>8 DEF Iterate

LEMMA WholeEnds == JoinInv /\ PushLast => Whole'
<1> SUFFICES ASSUME JoinInv, PushLast PROVE Whole' OBVIOUS
<1> DEFINE u == Join(sent)[Len(sent)]
<1>1. /\ doc \in Seq(Lines) /\ sent \in Seq(Seq(Lines)) /\ Len(sent) \in Nat
      /\ sent' = Append(sent, doc) /\ input' = input /\ pos' = pos
  BY DEF JoinInv, TypeInv, TypeOK, PushLast
<1>2. ~done /\ done' BY Zenon DEF PushLast
<1>3. u \o doc = SubSeq(input, 1, pos) BY <1>2, Zenon DEF JoinInv, Whole
<1>4. Join(sent')[Len(sent')] = u \o doc BY <1>1, JoinAppend
<1>5. u \in Seq(Lines)
  <2>1. Len(sent) \in 0..Len(sent) BY <1>1
  <2> QED BY <1>1, <2>1, JoinEquation
<1>6. u \o doc \in Seq(Lines) BY <1>1, <1>5, ConcatProperties
<1>7. (u \o doc) \o <<>> = u \o doc BY <1>6, ConcatEmptySeq
<1>8. Join(sent')[Len(sent')] \o <<>> = SubSeq(input', 1, pos') BY <1>1, <1>3, <1>4, <1>7
<1> QED BY <1>2, <1>8, Zenon DEF Whole

LEMMA FullChunks ==
  JoinInv /\ MaxItems > 1 /\ ~done => \A j \in DOMAIN sent : Len(sent[j]) = MaxItems - 1
<1> SUFFICES ASSUME JoinInv, MaxItems > 1, ~done, NEW j \in DOMAIN sent
             PROVE  Len(sent[j]) = MaxItems - 1
  OBVIOUS
<1>1. Fills /\ input \in Seq(Lines) /\ pos \in 0..Len(input)
  BY DEF JoinInv, LoopInv
<1> DEFINE n == Len(sent)
           x == j * Width
           y == n * Width
<1>2. Width \in Nat \ {0} /\ MaxItems = Width + 1 BY MaxItemsAssumption DEF Width
<1>3. n \in Nat /\ j \in 1..n /\ sent[j] = Piece(j) BY <1>1 DEF Fills
<1>4. x \in Nat /\ y \in Nat /\ x <= y /\ Begin(j) = x - Width + 1 /\ x >= Width
  <2> HIDE DEF n
  <2>1. x \in Nat /\ y \in Nat BY <1>2, <1>3
  <2>2. x <= y BY <1>2, <1>3
  <2>3. (j - 1) * Width = x - Width /\ (j - 1) * Width \in Nat BY <1>2, <1>3
  <2> QED BY <1>2, <2>1, <2>2, <2>3 DEF Begin
<1>5. pos = y + (count - 1) /\ count \in 1..MaxItems BY <1>1 DEF Fills
<1> HIDE DEF x, y
<1>6. x <= Len(input) /\ Begin(j) \in Nat \ {0} /\ Begin(j) <= x /\ x - Begin(j) + 1 = Width
  BY <1>1, <1>2, <1>4, <1>5
<1>7. Len(SubSeq(input, Begin(j), x)) = Width
  <2>1. \A i \in Begin(j)..x : input[i] \in Lines BY <1>1, <1>4, <1>6
  <2>2. Len(SubSeq(input, Begin(j), x)) = IF Begin(j) <= x THEN x - Begin(j) + 1 ELSE 0
    BY <1>4, <1>6, <2>1, SubSeqProperties
  <2> QED BY <1>6, <2>2
<1>8. Piece(j) = SubSeq(input, Begin(j), x) BY DEF Piece, x
<1>9. Len(sent[j]) = Width BY <1>3, <1>7, <1>8
<1> QED BY <1>2, <1>9

\* No line is lost, repeated or moved across chunks, and no chunk but the last is
\* short, for every chunk size and every number of lines
\* (pushInputForAdjustInventory).
THEOREM LoopLosesNothing == Spec => []NothingLost
<1>1. Init => Whole
  <2> SUFFICES ASSUME Init PROVE Whole OBVIOUS
  <2>1. pos = 0 /\ doc = <<>> /\ sent = <<>> BY DEF Init
  <2>2. <<>> \in Seq(Seq(Lines)) /\ Len(<<>>) = 0 OBVIOUS
  <2>3. Join(sent)[Len(sent)] = <<>> BY <2>1, <2>2, JoinEquation
  <2>4. input \in Seq(Lines) BY LoopStarts DEF LoopInv
  <2>5. SubSeq(input, 1, 0) = <<>> BY <2>4, SubSeqEmpty
  <2>6. <<>> \o <<>> = <<>> OBVIOUS
  <2>7. (IF done THEN <<>> ELSE doc) = <<>> BY <2>1
  <2> QED BY <2>1, <2>3, <2>5, <2>6, <2>7 DEF Whole
<1>2. Whole /\ UNCHANGED vars => Whole'
  <2> SUFFICES ASSUME Whole, UNCHANGED vars PROVE Whole' OBVIOUS
  <2>1. sent' = sent /\ doc' = doc /\ input' = input /\ pos' = pos /\ (done' <=> done)
    BY DEF vars
  <2> QED BY <2>1, Zenon DEF Whole
<1>3. JoinInv /\ [Next]_vars => Whole' BY WholeIterates, WholeEnds, <1>2 DEF Next, JoinInv
<1>4. JoinInv => NothingLost
  <2> SUFFICES ASSUME JoinInv PROVE NothingLost OBVIOUS
  <2>1. Whole BY DEF JoinInv
  <2>2. MaxItems > 1 /\ ~done => \A j \in DOMAIN sent : Len(sent[j]) = MaxItems - 1
    BY FullChunks
  <2> QED BY <2>1, <2>2, Zenon DEF NothingLost, Whole, Join
<1> QED BY TypeInvHolds, LoopInvHolds, <1>1, <1>3, <1>4, PTL DEF Spec, JoinInv
=============================================================================
