------------------------- MODULE InvSyncConvergence -------------------------
(***************************************************************************)
(* Once nothing about an item is on its way, supply is what is in the      *)
(* store (Converged), for every assortment, number of stores, threads,     *)
(* instances and messages, and any order of their arrival.                 *)
(*                                                                         *)
(* Converged speaks of the state in which all is over; what leads there is *)
(* told by three functions of time, which are not variables of the system  *)
(* but exist in every state (KeyInv).  h is what was in the store, b the   *)
(* date of the snapshot or count that supply is based on, a[t] what was    *)
(* applied to supply of changes after t.  From b on h + a changes exactly  *)
(* with the messages that still wait (Balance), so that with none of them  *)
(* left supply = h[b] + a[b] = h[now] + a[now] = stock, by induction on    *)
(* the hours since b (QuietConverges).                                     *)
(*                                                                         *)
(* A step is either about the key: a message is sent (SendKeeps), shipped  *)
(* (ShipKeeps), applied (DeltaKeeps, CountKeeps), a snapshot is compared   *)
(* (CompareKeeps) or its difference applied (AdjustKeeps); or it is aside  *)
(* of it (Aside, AsideKeeps), which covers all the rest.                   *)
(***************************************************************************)
EXTENDS InvSyncProofs

-----------------------------------------------------------------------------
(* What a handler cuts into chunks arrives, each line once                 *)

\* Where line j of chunk q was in the list.
Place(q, j) == IF MaxItems = 1 THEN j ELSE (q - 1) * Width + j

LEMMA Quotients ==
  ASSUME NEW w \in Nat \ {0}, NEW n \in Nat \ {0}
  PROVE  \E q \in Nat \ {0}, j \in 1..w : n = (q - 1) * w + j /\ q = (n + w - 1) \div w
<1> DEFINE T == {k \in Nat : n <= k * w}
<1>1. n \in T
  <2>1. \A x, y \in Nat \ {0} : x <= x * y OBVIOUS
  <2> QED BY <2>1
<1>2. T \in SUBSET Nat /\ T # {} BY <1>1
<1>3. PICK q \in T : \A k \in T : q <= k
  <2> HIDE DEF T
  <2> QED BY <1>2, LeastNumber
<1>4. q \in Nat /\ n <= q * w BY <1>3
<1>5. q # 0
  <2>1. 0 * w = 0 OBVIOUS
  <2> QED BY <1>4, <2>1
<1>6. q - 1 \in Nat /\ (q - 1) \notin T
  <2>1. q - 1 \in Nat /\ ~(q <= q - 1) BY <1>4, <1>5
  <2> QED BY <1>3, <2>1
<1>7. ~(n <= (q - 1) * w) BY <1>6
<1>8. (q - 1) * w \in Nat /\ q * w = (q - 1) * w + w
  <2>1. \A x \in Nat : x * w \in Nat /\ (x + 1) * w = x * w + w OBVIOUS
  <2>2. q = (q - 1) + 1 BY <1>4
  <2> QED BY <1>6, <2>1, <2>2
<1> DEFINE j == n - (q - 1) * w
<1>9. j \in 1..w /\ n = (q - 1) * w + j BY <1>4, <1>7, <1>8
<1>10. (n + w - 1) \div w = q
  <2>1. n + w - 1 = q * w + (j - 1) BY <1>8, <1>9
  <2>2. \A x \in Nat, y \in 0..(w - 1) : (x * w + y) \div w = x OBVIOUS
  <2>3. j - 1 \in 0..(w - 1) BY <1>9
  <2> HIDE DEF j
  <2> QED BY <1>4, <2>1, <2>2, <2>3
<1> HIDE DEF j
<1> QED BY <1>4, <1>5, <1>9, <1>10

\* Places in different chunks are different.
LEMMA QuotientsDiffer ==
  \A w, q, r \in Nat \ {0} : \A i, j \in 1..w :
    (q - 1) * w + i = (r - 1) * w + j => q = r /\ i = j
<1> SUFFICES ASSUME NEW w \in Nat \ {0}, NEW q \in Nat \ {0}, NEW r \in Nat \ {0},
                    NEW i \in 1..w, NEW j \in 1..w, (q - 1) * w + i = (r - 1) * w + j
             PROVE  q = r /\ i = j
  OBVIOUS
<1>1. \A x \in Nat, y \in 0..(w - 1) : (x * w + y) \div w = x OBVIOUS
<1>2. i - 1 \in 0..(w - 1) /\ j - 1 \in 0..(w - 1) /\ q - 1 \in Nat /\ r - 1 \in Nat OBVIOUS
<1>3. (q - 1) * w \in Nat /\ (r - 1) * w \in Nat BY <1>2
<1>4. (q - 1) * w + (i - 1) = (r - 1) * w + (j - 1) BY <1>3
<1>5. q - 1 = r - 1 BY <1>1, <1>2, <1>4
<1>6. q = r BY <1>5
<1> QED BY <1>3, <1>6

LEMMA ChunkPlaces ==
  ASSUME NEW S, NEW s \in Seq(S)
  PROVE  /\ \A q \in DOMAIN Chunks(s) : \A j \in DOMAIN Chunks(s)[q] :
              /\ q \in Nat /\ j \in Nat /\ Place(q, j) \in DOMAIN s
              /\ Chunks(s)[q][j] = s[Place(q, j)]
         /\ \A q, r \in DOMAIN Chunks(s) : \A i \in DOMAIN Chunks(s)[q], j \in DOMAIN Chunks(s)[r] :
              Place(q, i) = Place(r, j) => q = r /\ i = j
         /\ \A i \in DOMAIN s : \E q \in DOMAIN Chunks(s) : \E j \in DOMAIN Chunks(s)[q] :
              Chunks(s)[q][j] = s[i]
<1> DEFINE cs == Chunks(s)
<1>1. CASE MaxItems = 1
  <2>1. \A q \in DOMAIN cs : \A j \in DOMAIN cs[q] : q \in Nat /\ cs[q] = s /\ j \in DOMAIN s
    BY <1>1 DEF Chunks
  <2>2. \A q, r \in DOMAIN cs : \A i \in DOMAIN cs[q], j \in DOMAIN cs[r] : q = r
    BY <1>1 DEF Chunks
  <2>3. \A i \in DOMAIN s : 2 \in DOMAIN cs /\ cs[2] = s BY <1>1 DEF Chunks
  <2>4. \A q, j : Place(q, j) = j BY <1>1 DEF Place
  <2>5. \A j \in DOMAIN s : j \in Nat OBVIOUS
  <2> HIDE DEF cs
  <2>6. \A q \in DOMAIN cs : \A j \in DOMAIN cs[q] :
              /\ q \in Nat /\ j \in Nat /\ Place(q, j) \in DOMAIN s
              /\ cs[q][j] = s[Place(q, j)] BY <2>1, <2>4, <2>5
  <2>7. \A q, r \in DOMAIN cs : \A i \in DOMAIN cs[q], j \in DOMAIN cs[r] :
              Place(q, i) = Place(r, j) => q = r /\ i = j
    BY <2>2, <2>4
  <2>8. \A i \in DOMAIN s : \E q \in DOMAIN cs : \E j \in DOMAIN cs[q] : cs[q][j] = s[i] BY <2>3
  <2> QED BY <2>6, <2>7, <2>8 DEF cs
<1>2. CASE MaxItems # 1
  <2> DEFINE n == NumChunks(s)
             from(q) == (q - 1) * Width + 1
             to(q) == IF q * Width < Len(s) THEN q * Width ELSE Len(s)
  <2>1. Width \in Nat \ {0} BY <1>2, MaxItemsAssumption DEF Width
  <2>2. n \in Nat
    <3>1. (Len(s) + Width - 1) \in Nat BY <2>1
    <3>2. \A x \in Nat, d \in Nat \ {0} : x \div d \in Nat OBVIOUS
    <3> QED BY <2>1, <3>1, <3>2 DEF NumChunks
  <2>3. cs = [q \in 1..n |-> SubSeq(s, from(q), to(q))] BY <1>2 DEF Chunks
  <2>4. ASSUME NEW q \in Nat \ {0}
        PROVE  (q - 1) * Width \in Nat /\ q * Width = (q - 1) * Width + Width
    <3>1. q - 1 \in Nat /\ q = (q - 1) + 1 OBVIOUS
    <3>2. \A x, y \in Nat : x * y \in Nat /\ (x + 1) * y = x * y + y OBVIOUS
    <3> QED BY <2>1, <3>1, <3>2
  <2>5. ASSUME NEW q \in 1..n
        PROVE  /\ \A j \in DOMAIN cs[q] : /\ j \in 1..Width
                                          /\ (q - 1) * Width + j \in DOMAIN s
                                          /\ cs[q][j] = s[(q - 1) * Width + j]
               /\ \A j \in 1..Width : (q - 1) * Width + j \in DOMAIN s => j \in DOMAIN cs[q]
    <3> DEFINE x == (q - 1) * Width
               y == q * Width
    <3>1. x \in Nat /\ y = x + Width /\ from(q) = x + 1 /\ Width \in Nat \ {0}
          /\ to(q) = IF y < Len(s) THEN y ELSE Len(s)
      BY <2>1, <2>2, <2>4
    <3>2. cs[q] = SubSeq(s, from(q), to(q)) BY <2>3
    <3> HIDE DEF x, y, from, to, cs
    <3>3. from(q) \in Nat \ {0} /\ to(q) \in Int /\ to(q) <= Len(s) BY <3>1
    <3>4. \A i \in from(q)..to(q) : s[i] \in S BY <3>3
    <3>5. /\ cs[q] \in Seq(S)
          /\ Len(cs[q]) = IF from(q) <= to(q) THEN to(q) - from(q) + 1 ELSE 0
          /\ \A i \in 1..(to(q) - from(q) + 1) : cs[q][i] = s[from(q) + i - 1]
      BY <3>2, <3>3, <3>4, SubSeqProperties
    <3>6. ASSUME NEW j \in DOMAIN cs[q] PROVE j \in 1..Width /\ x + j \in DOMAIN s /\ cs[q][j] = s[x + j]
      <4>1. from(q) <= to(q) /\ j \in 1..(to(q) - from(q) + 1) BY <3>3, <3>5
      <4>2. from(q) + j - 1 = x + j BY <3>1, <3>3, <4>1
      <4>3. j \in 1..Width /\ x + j <= Len(s) BY <3>1, <4>1
      <4> QED BY <3>1, <3>5, <4>1, <4>2, <4>3
    <3>7. ASSUME NEW j \in 1..Width, x + j \in DOMAIN s PROVE j \in DOMAIN cs[q]
      <4>1. x + j <= to(q) BY <3>1, <3>7
      <4>2. j <= to(q) - from(q) + 1 BY <3>1, <3>3, <4>1
      <4>3. from(q) <= to(q) BY <3>1, <3>3, <4>1
      <4> QED BY <3>3, <3>5, <4>2, <4>3
    <3> QED BY <3>6, <3>7 DEF x
  <2>6. DOMAIN cs = 1..n BY <2>3
  <2>7. \A q, j : Place(q, j) = (q - 1) * Width + j BY <1>2 DEF Place
  <2>8. \A q \in 1..n : q \in Nat \ {0} BY <2>2
  <2>9. \A j \in 1..Width : j \in Nat BY <2>1
  <2> HIDE DEF cs, n
  <2>10. \A q \in DOMAIN cs : \A j \in DOMAIN cs[q] :
              /\ q \in Nat /\ j \in Nat /\ Place(q, j) \in DOMAIN s
              /\ cs[q][j] = s[Place(q, j)]
    BY <2>5, <2>6, <2>7, <2>8, <2>9
  <2>11. ASSUME NEW q \in DOMAIN cs, NEW r \in DOMAIN cs, NEW i \in DOMAIN cs[q], NEW j \in DOMAIN cs[r],
                Place(q, i) = Place(r, j)
         PROVE  q = r /\ i = j
    <3>1. q \in Nat \ {0} /\ r \in Nat \ {0} /\ i \in 1..Width /\ j \in 1..Width BY <2>5, <2>6, <2>8
    <3>2. (q - 1) * Width + i = (r - 1) * Width + j BY <2>7, <2>11
    <3>3. \A y, z \in 1..Width : (q - 1) * Width + y = (r - 1) * Width + z => q = r /\ y = z
      <4> HIDE <3>2
      <4> QED BY <2>1, <3>1, QuotientsDiffer
    <3> QED BY <3>1, <3>2, <3>3
  <2>12. ASSUME NEW i \in DOMAIN s PROVE \E q \in DOMAIN cs : \E j \in DOMAIN cs[q] : cs[q][j] = s[i]
    <3>0. i \in Nat \ {0} /\ i <= Len(s) /\ s # <<>> OBVIOUS
    <3>1. PICK q \in Nat \ {0}, j \in 1..Width : i = (q - 1) * Width + j /\ q = (i + Width - 1) \div Width
      BY <2>1, <3>0, Quotients
    <3>2. q <= n
      <4>1. n = (Len(s) + Width - 1) \div Width BY <3>0 DEF n, NumChunks
      <4>2. \A x, y \in Nat, w \in Nat \ {0} : x <= y => x \div w <= y \div w OBVIOUS
      <4>3. i + Width - 1 \in Nat /\ Len(s) + Width - 1 \in Nat /\ i + Width - 1 <= Len(s) + Width - 1
        BY <2>1, <3>0
      <4> QED BY <2>1, <3>1, <4>1, <4>2, <4>3
    <3>3. q \in 1..n BY <2>2, <3>2
    <3>4. j \in DOMAIN cs[q] /\ cs[q][j] = s[i] BY <2>5, <3>1, <3>3
    <3> QED BY <2>6, <3>3, <3>4
  <2> QED BY <2>10, <2>11, <2>12 DEF cs
<1> QED BY <1>1, <1>2

-----------------------------------------------------------------------------
(* Where the supply of an item is                                          *)

\* The messages about key k that are not applied and not dropped, and their dates.
Busy(c) == delta[c].st \in {"sleep", "awake", "write"}
Pending(k) == {m \in deltaQ : m.key = k}
              \cup {delta[c].msg : c \in {d \in Consumers : Busy(d) /\ delta[d].msg.key = k}}
Due(k) == {p.tx : p \in Pending(k)}

\* The store messages that wait, and those in hand; a line of one that waits
\* although supply includes its date is lost until it is processed again.
Sent(n) == {m \in failed \cup {q \in Elems(feedQ) : q.type = "STORE"} : m.node = n}
InHand(n) ==
  {loader[t].msg : t \in {u \in Loaders : loader[u].st = "store" /\ loader[u].msg.node = n}}
Lost(k) == \E m \in Sent(k[2]) : m.gen <= applied[k]

\* The sum of the log after date t.
EntriesAfter(k, t) == {e \in log : e.key = k /\ e.tx > t}
After(k, t) == Total(EntriesAfter(k, t))

\* The places in load threads and in chunks where a line of key k is in transit.
LoaderSpot(k, t, j) ==
  /\ loader[t].st = "store" /\ loader[t].msg.node = k[2]
  /\ j \in DOMAIN loader[t].lines /\ loader[t].lines[j].item = k[1]
ChunkSpot(k, q, j) ==
  /\ q \in DOMAIN chunkQ /\ chunkQ[q].node = k[2]
  /\ j \in DOMAIN chunkQ[q].lines /\ chunkQ[q].lines[j].item = k[1]
OneSpot(k) ==
  /\ \A t, u \in Loaders : \A i, j \in Nat : LoaderSpot(k, t, i) /\ LoaderSpot(k, u, j) => t = u /\ i = j
  /\ \A q, r, i, j \in Nat : ChunkSpot(k, q, i) /\ ChunkSpot(k, r, j) => q = r /\ i = j
  /\ \A t \in Loaders : \A q, i, j \in Nat : ~(LoaderSpot(k, t, i) /\ ChunkSpot(k, q, j))

\* The order of a set lists every element, and each once.
LEMMA OrdersOnto ==
  ASSUME NEW S, IsFiniteSet(S), NEW s \in Orders(S)
  PROVE  /\ s \in Seq(S)
         /\ \A i, j \in DOMAIN s : s[i] = s[j] => i = j
         /\ \A x \in S : \E j \in DOMAIN s : s[j] = x
<1> DEFINE n == Cardinality(S)
           D == 1..n
<1>1. n \in Nat BY FS_CardinalityType
<1>2. s \in [D -> S] /\ \A i, j \in D : s[i] = s[j] => i = j BY DEF Orders
<1>3. IsFiniteSet(D) /\ Cardinality(D) = n BY <1>1, FS_Interval
<1> HIDE DEF D, n
<1>4. s \in Injection(D, S) BY <1>2 DEF Injection, IsInjective
<1>5. s \in Surjection(D, S) BY <1>3, <1>4, FS_Injection DEF n
<1>6. \A x \in S : \E j \in D : s[j] = x BY <1>5 DEF Surjection
<1>7. DOMAIN s = D BY <1>2
<1> QED BY <1>2, <1>6, <1>7, OrdersType

LEMMA ConcatIs ==
  \A R : \A s, t \in Seq(R) :
    /\ DOMAIN (s \o t) = 1..(Len(s) + Len(t))
    /\ \A j \in 1..Len(s) : j \in DOMAIN (s \o t) /\ (s \o t)[j] = s[j]
    /\ \A j \in 1..Len(t) : j + Len(s) \in DOMAIN (s \o t) /\ (s \o t)[j + Len(s)] = t[j]
OBVIOUS

\* A comparison makes one line for every item of the store.
MismatchLines(m, extra) ==
  [j \in DOMAIN m.lines |-> FeedLine(m, m.lines[j])]
    \o [j \in DOMAIN extra |-> ExtraLine(extra[j], m.node)]

LEMMA OneLineEach ==
  ASSUME TablesOK, NEW m \in Store, NEW extra \in Orders(Items \ FeedItems(m)),
         \A i, j \in DOMAIN m.lines : m.lines[i].item = m.lines[j].item => i = j,
         NEW x \in Items
  PROVE  /\ \E j \in DOMAIN MismatchLines(m, extra) : MismatchLines(m, extra)[j].item = x
         /\ \A i, j \in DOMAIN MismatchLines(m, extra) :
              MismatchLines(m, extra)[i].item = x /\ MismatchLines(m, extra)[j].item = x => i = j
         /\ \A j \in DOMAIN MismatchLines(m, extra) : MismatchLines(m, extra)[j].item = x =>
              \/ /\ x \in FeedItems(m)
                 /\ \E i \in DOMAIN m.lines : m.lines[i].item = x
                                              /\ MismatchLines(m, extra)[j] = FeedLine(m, m.lines[i])
              \/ /\ x \notin FeedItems(m)
                 /\ MismatchLines(m, extra)[j] = ExtraLine(x, m.node)
<1> DEFINE row == [item : Items, qty : Int, tx : Nat]
           S == Items \ FeedItems(m)
           fed == [j \in DOMAIN m.lines |-> FeedLine(m, m.lines[j])]
           rest == [j \in DOMAIN extra |-> ExtraLine(extra[j], m.node)]
           all == MismatchLines(m, extra)
           a == Len(m.lines)
           n == Len(extra)
<1>1. m.lines \in Seq(row) /\ m.node \in Nodes /\ m.gen \in Nat BY DEF Store
<1>2. /\ extra \in Seq(S) /\ \A i, j \in DOMAIN extra : extra[i] = extra[j] => i = j
      /\ \A y \in S : \E j \in DOMAIN extra : extra[j] = y
  <2>1. IsFiniteSet(S) BY SetsAssumption, FS_Subset
  <2> HIDE DEF S
  <2>2. extra \in Orders(S) BY DEF S
  <2> QED BY <2>1, <2>2, OrdersOnto
<1>3. a \in Nat /\ n \in Nat /\ DOMAIN m.lines = 1..a /\ DOMAIN extra = 1..n
  <2> HIDE DEF row, S
  <2> QED BY <1>1, <1>2
<1>4. \A j \in 1..a : fed[j] = FeedLine(m, m.lines[j]) /\ fed[j].item = m.lines[j].item
  BY <1>3 DEF FeedLine
<1>5. \A j \in 1..n : rest[j] = ExtraLine(extra[j], m.node) /\ rest[j].item = extra[j]
  BY <1>3 DEF ExtraLine
<1>6. all \in Seq(Line) /\ all = fed \o rest
  <2>1. extra \in Seq(Items) BY <1>2
  <2> QED BY <2>1, MismatchLinesType DEF MismatchLines
<1> DEFINE R == {fed[j] : j \in 1..a} \cup {rest[j] : j \in 1..n}
<1>7. fed \in Seq(R) /\ Len(fed) = a
  <2>1. fed \in [1..a -> R] BY <1>3
  <2> HIDE DEF fed, a, R
  <2> QED BY <1>3, <2>1
<1>8. rest \in Seq(R) /\ Len(rest) = n
  <2>1. rest \in [1..n -> R] BY <1>3
  <2> HIDE DEF rest, n, R
  <2> QED BY <1>3, <2>1
<1>9. \A j \in 1..a : m.lines[j].item \in FeedItems(m) BY <1>3 DEF FeedItems
<1>10. \A j \in 1..n : extra[j] \in Items /\ extra[j] \notin FeedItems(m) BY <1>2, <1>3
<1>11. x \in FeedItems(m) => \E j \in 1..a : m.lines[j].item = x BY <1>3 DEF FeedItems
<1>12. x \notin FeedItems(m) => \E j \in 1..n : extra[j] = x BY <1>2, <1>3
<1> HIDE DEF row, S, fed, rest, all, a, n, R
<1>13. /\ DOMAIN all = 1..(a + n)
       /\ \A j \in 1..a : j \in DOMAIN all /\ all[j] = fed[j]
       /\ \A j \in 1..n : j + a \in DOMAIN all /\ all[j + a] = rest[j]
  <2>1. /\ DOMAIN (fed \o rest) = 1..(a + n)
        /\ \A j \in 1..a : j \in DOMAIN (fed \o rest) /\ (fed \o rest)[j] = fed[j]
        /\ \A j \in 1..n : j + a \in DOMAIN (fed \o rest) /\ (fed \o rest)[j + a] = rest[j]
    <3>1. fed \in Seq(R) /\ rest \in Seq(R) BY <1>7, <1>8
    <3>a. \A s, t \in Seq(R) :
            /\ DOMAIN (s \o t) = 1..(Len(s) + Len(t))
            /\ \A j \in 1..Len(s) : j \in DOMAIN (s \o t) /\ (s \o t)[j] = s[j]
            /\ \A j \in 1..Len(t) : j + Len(s) \in DOMAIN (s \o t) /\ (s \o t)[j + Len(s)] = t[j]
      BY ConcatIs
    <3>2. /\ DOMAIN (fed \o rest) = 1..(Len(fed) + Len(rest))
          /\ \A j \in 1..Len(fed) : j \in DOMAIN (fed \o rest) /\ (fed \o rest)[j] = fed[j]
          /\ \A j \in 1..Len(rest) : /\ j + Len(fed) \in DOMAIN (fed \o rest)
                                     /\ (fed \o rest)[j + Len(fed)] = rest[j]
      BY <3>1, <3>a, Zenon
    <3>3. Len(fed) = a /\ Len(rest) = n BY <1>7, <1>8
    <3> QED BY <3>2, <3>3
  <2> QED BY <1>6, <2>1
<1>14. ASSUME NEW j \in DOMAIN all
       PROVE  \/ j \in 1..a /\ all[j].item \in FeedItems(m)
              \/ /\ ~(j \in 1..a) /\ j - a \in 1..n /\ j = (j - a) + a
                 /\ all[j] = rest[j - a] /\ all[j].item = extra[j - a]
                 /\ all[j].item \notin FeedItems(m)
  <2>1. CASE j \in 1..a BY <1>4, <1>9, <1>13, <2>1
  <2>2. CASE ~(j \in 1..a)
    <3>1. j - a \in 1..n /\ j = (j - a) + a BY <1>3, <1>13, <2>2
    <3>2. all[j] = rest[j - a] BY <1>13, <3>1
    <3> QED BY <1>5, <1>10, <2>2, <3>1, <3>2
  <2> QED BY <2>1, <2>2
<1>15. \E j \in DOMAIN all : all[j].item = x
  <2>1. CASE x \in FeedItems(m) BY <1>4, <1>11, <1>13, <2>1
  <2>2. CASE x \notin FeedItems(m) BY <1>5, <1>12, <1>13, <2>2
  <2> QED BY <2>1, <2>2
<1>16. ASSUME NEW i \in DOMAIN all, NEW j \in DOMAIN all, all[i].item = x, all[j].item = x PROVE i = j
  <2>1. CASE x \in FeedItems(m)
    <3>1. i \in 1..a /\ j \in 1..a BY <1>14, <1>16, <2>1
    <3>2. m.lines[i].item = m.lines[j].item BY <1>4, <1>13, <1>16, <3>1
    <3> QED BY <1>3, <3>1, <3>2
  <2>2. CASE x \notin FeedItems(m)
    <3>1. i - a \in 1..n /\ j - a \in 1..n /\ extra[i - a] = extra[j - a]
          /\ i = (i - a) + a /\ j = (j - a) + a
      BY <1>14, <1>16, <2>2
    <3>2. i - a = j - a BY <1>2, <1>3, <3>1
    <3> QED BY <3>1, <3>2
  <2> QED BY <2>1, <2>2
<1>17. ASSUME NEW j \in DOMAIN all, all[j].item = x
       PROVE  \/ /\ x \in FeedItems(m)
                 /\ \E i \in DOMAIN m.lines : m.lines[i].item = x /\ all[j] = FeedLine(m, m.lines[i])
              \/ x \notin FeedItems(m) /\ all[j] = ExtraLine(x, m.node)
  <2>1. CASE x \in FeedItems(m)
    <3>1. j \in 1..a BY <1>14, <1>17, <2>1
    <3>2. all[j] = FeedLine(m, m.lines[j]) /\ m.lines[j].item = x BY <1>4, <1>13, <1>17, <3>1
    <3> QED BY <1>3, <2>1, <3>1, <3>2
  <2>2. CASE x \notin FeedItems(m)
    <3>1. j - a \in 1..n /\ all[j] = rest[j - a] /\ extra[j - a] = x BY <1>14, <1>17, <2>2
    <3> QED BY <1>5, <2>2, <3>1
  <2> QED BY <2>1, <2>2
<1> QED BY <1>15, <1>16, <1>17 DEF all

\* What is in transit is what is at the spots.
LEMMA TransitSpots ==
  ASSUME TypeOK, NEW k \in Keys
  PROVE  \A l : l \in InTransit(k) <=>
           \/ \E t \in Loaders : \E j \in Nat : LoaderSpot(k, t, j) /\ l = loader[t].lines[j]
           \/ \E q, j \in Nat : ChunkSpot(k, q, j) /\ l = chunkQ[q].lines[j]
<1> SUFFICES ASSUME NEW l
             PROVE  l \in InTransit(k) <=>
           \/ \E t \in Loaders : \E j \in Nat : LoaderSpot(k, t, j) /\ l = loader[t].lines[j]
           \/ \E q, j \in Nat : ChunkSpot(k, q, j) /\ l = chunkQ[q].lines[j]
  OBVIOUS
<1>1. \A t \in Loaders : loader[t].st = "store" => loader[t].lines \in Seq(Line)
  BY DEF TypeOK, LoadOK, LoaderState, Idle
<1>2. chunkQ \in Seq(Chunk) /\ \A q \in DOMAIN chunkQ : q \in Nat /\ chunkQ[q].lines \in Seq(Line)
  <2>1. chunkQ \in Seq(Chunk) BY DEF TypeOK, SyncOK
  <2>2. \A q \in DOMAIN chunkQ : q \in Nat /\ chunkQ[q] \in Chunk BY <2>1
  <2>3. \A c \in Chunk : c.lines \in Seq(Line) BY DEF Chunk
  <2> QED BY <2>1, <2>2, <2>3
<1>3. \A s \in Seq(Line) : \A j \in DOMAIN s : j \in Nat OBVIOUS
<1>4. l \in InTransit(k) <=>
        \/ \E t \in Loaders : /\ loader[t].st = "store" /\ loader[t].msg.node = k[2]
                              /\ \E j \in DOMAIN loader[t].lines :
                                   l = loader[t].lines[j] /\ l.item = k[1]
        \/ \E q \in DOMAIN chunkQ : /\ chunkQ[q].node = k[2]
                                    /\ \E j \in DOMAIN chunkQ[q].lines :
                                         l = chunkQ[q].lines[j] /\ l.item = k[1]
  <2>1. \A t \in Loaders : l \in LinesOf(k, loader[t].lines) <=>
          \E j \in DOMAIN loader[t].lines : l = loader[t].lines[j] /\ l.item = k[1]
    BY DEF LinesOf, Elems
  <2>2. \A q \in DOMAIN chunkQ : l \in LinesOf(k, chunkQ[q].lines) <=>
          \E j \in DOMAIN chunkQ[q].lines : l = chunkQ[q].lines[j] /\ l.item = k[1]
    BY DEF LinesOf, Elems
  <2>3. l \in InTransit(k) <=>
          \/ \E t \in Loaders : /\ loader[t].st = "store" /\ loader[t].msg.node = k[2]
                                /\ l \in LinesOf(k, loader[t].lines)
          \/ \E q \in DOMAIN chunkQ : chunkQ[q].node = k[2] /\ l \in LinesOf(k, chunkQ[q].lines)
    <3> DEFINE A == UNION {LinesOf(k, loader[t].lines) :
                     t \in {u \in Loaders : loader[u].st = "store" /\ loader[u].msg.node = k[2]}}
               B == UNION {LinesOf(k, c.lines) : c \in {d \in Elems(chunkQ) : d.node = k[2]}}
    <3>1. InTransit(k) = A \cup B BY Zenon DEF InTransit
    <3>2. l \in A <=> \E t \in Loaders : /\ loader[t].st = "store" /\ loader[t].msg.node = k[2]
                                         /\ l \in LinesOf(k, loader[t].lines)
      OBVIOUS
    <3>3. l \in B <=> \E c \in Elems(chunkQ) : c.node = k[2] /\ l \in LinesOf(k, c.lines)
      OBVIOUS
    <3>4. (\E c \in Elems(chunkQ) : c.node = k[2] /\ l \in LinesOf(k, c.lines))
          <=> \E q \in DOMAIN chunkQ : chunkQ[q].node = k[2] /\ l \in LinesOf(k, chunkQ[q].lines)
      BY Zenon DEF Elems
    <3> HIDE DEF A, B
    <3> QED BY <3>1, <3>2, <3>3, <3>4
  <2> QED BY <2>1, <2>2, <2>3
<1>5. (\E t \in Loaders : /\ loader[t].st = "store" /\ loader[t].msg.node = k[2]
                          /\ \E j \in DOMAIN loader[t].lines : l = loader[t].lines[j] /\ l.item = k[1])
      <=> \E t \in Loaders : \E j \in Nat : LoaderSpot(k, t, j) /\ l = loader[t].lines[j]
  BY <1>1, <1>3 DEF LoaderSpot
<1>6. (\E q \in DOMAIN chunkQ : /\ chunkQ[q].node = k[2]
                                /\ \E j \in DOMAIN chunkQ[q].lines :
                                     l = chunkQ[q].lines[j] /\ l.item = k[1])
      <=> \E q, j \in Nat : ChunkSpot(k, q, j) /\ l = chunkQ[q].lines[j]
  BY <1>2, <1>3 DEF ChunkSpot
<1> QED BY <1>4, <1>5, <1>6

-----------------------------------------------------------------------------
(* Messages, readings and dates of the log                                 *)

\* Every message that is not worked off has a date of its own, after the start.
OneEach ==
  /\ \A m \in deltaQ : m.tx \in 2..now
  /\ \A m, n \in deltaQ : m.tx = n.tx => m = n
  /\ \A c \in Consumers : Busy(c) => /\ delta[c].msg.tx \in 2..now
                                     /\ \A m \in deltaQ : m.tx # delta[c].msg.tx
  /\ \A c, d \in Consumers : Busy(c) /\ Busy(d) /\ c # d => delta[c].msg.tx # delta[d].msg.tx

LogDated == \A e \in log : e.tx \in Times

\* What an instance is about to write: a delta as it is, a count with what was
\* logged after it, unless another writer or the emptying of the log was noted.
ReadsRight(c, m, q) ==
  /\ ~m.abs => q = m.qty
  /\ m.abs /\ c \notin raced /\ (\A d \in cut[m.key] : d <= m.tx) => q = m.qty + After(m.key, m.tx)
ReadInv == \A c \in Consumers : delta[c].st = "write" => ReadsRight(c, delta[c].msg, delta[c].qty)

\* What a step does to the messages between SAP and supply.
LEMMA Flow ==
  ASSUME TypeOK, [Next]_vars
  PROVE  \/ UNCHANGED <<deltaQ, delta>> /\ now' \in {now, now + 1}
         \/ /\ now' = now + 1 /\ UNCHANGED delta
            /\ \E m \in Delta : m.tx = now' /\ deltaQ' = deltaQ \cup {m}
         \/ /\ now' = now
            /\ \E c \in Consumers : \E m \in deltaQ :
                 /\ ~Busy(c) /\ delta'[c].msg = m /\ deltaQ' = deltaQ \ {m}
                 /\ \A d \in Consumers \ {c} : delta'[d] = delta[d]
         \/ /\ now' = now /\ UNCHANGED deltaQ
            /\ \A d \in Consumers : Busy(d)' => Busy(d) /\ delta'[d].msg = delta[d].msg
<1> USE DEF TypeOK
<1>0. ServerOK /\ EnvOK /\ delta \in [Consumers -> ConsumerState] BY DEF ServerOK
<1>1. ASSUME NEW k \in Keys, NEW q \in Int, NEW b \in BOOLEAN, now' = now + 1,
             deltaQ' = deltaQ \cup {[abs |-> b, key |-> k, qty |-> q, tx |-> now', gen |-> now']}
      PROVE  \E m \in Delta : m.tx = now' /\ deltaQ' = deltaQ \cup {m}
  <2> DEFINE m == [abs |-> b, key |-> k, qty |-> q, tx |-> now', gen |-> now']
  <2>1. m \in Delta /\ m.tx = now' BY <1>0, <1>1 DEF Delta, EnvOK
  <2>2. deltaQ' = deltaQ \cup {m} BY <1>1
  <2> HIDE DEF m
  <2> QED BY <2>1, <2>2
<1>2. CASE Outside
  <2>1. ASSUME NEW k \in Keys, NEW d \in {-1, 1}, Post(k, d)
        PROVE  now' = now + 1 /\ UNCHANGED delta /\ \E m \in Delta : m.tx = now' /\ deltaQ' = deltaQ \cup {m}
    <3>1. d \in Int /\ FALSE \in BOOLEAN OBVIOUS
    <3>2. now' = now + 1 /\ UNCHANGED delta
          /\ deltaQ' = deltaQ \cup {[abs |-> FALSE, key |-> k, qty |-> d, tx |-> now', gen |-> now']}
      BY <2>1 DEF Post, Spend
    <3> QED BY <1>1, <3>1, <3>2
  <2>2. ASSUME NEW k \in Keys, NEW q \in InitialSupply, Count(k, q)
        PROVE  now' = now + 1 /\ UNCHANGED delta /\ \E m \in Delta : m.tx = now' /\ deltaQ' = deltaQ \cup {m}
    <3>1. q \in Int /\ TRUE \in BOOLEAN BY BoundsAssumption
    <3>2. now' = now + 1 /\ UNCHANGED delta
          /\ deltaQ' = deltaQ \cup {[abs |-> TRUE, key |-> k, qty |-> q, tx |-> now', gen |-> now']}
      BY <2>2 DEF Count, Spend
    <3> QED BY <1>1, <3>1, <3>2
  <2>3. (\E k \in Keys : Ship(k)) \/ SendSOF \/ SendStores \/ Reprocess
          => UNCHANGED <<deltaQ, delta>> /\ now' \in {now, now + 1}
    BY DEF Ship, SendSOF, SendStores, Reprocess, Spend, server, env
  <2> QED BY <1>2, <2>1, <2>2, <2>3 DEF Outside
<1>3. ASSUME NEW t \in Loaders, LoadStep(t) PROVE UNCHANGED <<deltaQ, delta>> /\ now' = now
  BY <1>3 DEF LoadStep, ManageDeltaServer, GetMismatch, PushInputForAdjustInventory,
              DuplicateStatusKey, ReceiveEOF, SleepAgain, SeeNoStatus, TriggerFullSync, server, env
<1>4. AdjustInventory \/ RejectEmptyChunk => UNCHANGED <<deltaQ, delta>> /\ now' = now
  BY DEF AdjustInventory, RejectEmptyChunk, server, env
<1>5. UNCHANGED vars => UNCHANGED <<deltaQ, delta>> /\ now' = now BY DEF vars, server, env
<1>6. ASSUME now' = now, UNCHANGED deltaQ, NEW c \in Consumers, NEW s,
             delta' = [delta EXCEPT ![c] = s],
             s.st \in {"sleep", "awake", "write"} => Busy(c) /\ s.msg = delta[c].msg
      PROVE  /\ now' = now /\ UNCHANGED deltaQ
             /\ \A d \in Consumers : Busy(d)' => Busy(d) /\ delta'[d].msg = delta[d].msg
  <2>1. delta'[c] = s /\ \A d \in Consumers \ {c} : delta'[d] = delta[d] BY <1>0, <1>6
  <2> QED BY <1>6, <2>1 DEF Busy
<1>7. Idle.st = "idle" /\ Down.st = "down" BY DEF Idle, Down
<1>8. ASSUME NEW c \in Consumers, DeltaStep(c)
      PROVE  \/ /\ now' = now
                /\ \E d \in Consumers : \E m \in deltaQ :
                     /\ ~Busy(d) /\ delta'[d].msg = m /\ deltaQ' = deltaQ \ {m}
                     /\ \A e \in Consumers \ {d} : delta'[e] = delta[e]
             \/ /\ now' = now /\ UNCHANGED deltaQ
                /\ \A d \in Consumers : Busy(d)' => Busy(d) /\ delta'[d].msg = delta[d].msg
  <2>1. ASSUME NEW m \in deltaQ, ReceiveDelta(c, m)
        PROVE  /\ now' = now /\ ~Busy(c) /\ delta'[c].msg = m /\ deltaQ' = deltaQ \ {m}
               /\ \A e \in Consumers \ {c} : delta'[e] = delta[e]
    BY <1>0, <2>1 DEF ReceiveDelta, Busy, env
  <2>2. CASE SleepTillEOF(c)
    <3>1. delta' = [delta EXCEPT ![c] = [delta[c] EXCEPT !.st = "awake"]]
          /\ now' = now /\ UNCHANGED deltaQ /\ Busy(c)
      BY <1>0, <2>2 DEF SleepTillEOF, Busy, env
    <3>2. delta[c] \in [st : {"sleep", "awake"}, msg : Delta]
      BY <1>0, <2>2 DEF SleepTillEOF, ConsumerState, Idle, Down
    <3>3. [delta[c] EXCEPT !.st = "awake"].msg = delta[c].msg BY <3>2
    <3> QED BY <1>6, <3>1, <3>3
  <2>3. CASE ReadTables(c)
    <3> DEFINE m == delta[c].msg
               q == m.qty + (IF m.abs THEN LogTotal(m.key, m.tx) ELSE 0)
               s == [st |-> "write", msg |-> m, qty |-> q]
    <3>1. now' = now /\ UNCHANGED deltaQ /\ Busy(c)
          /\ delta' = [delta EXCEPT ![c] = IF Applicable(m) THEN s ELSE Idle]
      BY <2>3 DEF ReadTables, Busy, env
    <3>2. s.msg = m OBVIOUS
    <3> HIDE DEF s
    <3>3. CASE Applicable(m)
      <4>1. delta' = [delta EXCEPT ![c] = s] BY <3>1, <3>3
      <4> QED BY <1>6, <3>1, <3>2, <4>1
    <3>4. CASE ~Applicable(m)
      <4>1. delta' = [delta EXCEPT ![c] = Idle] BY <3>1, <3>4
      <4> QED BY <1>6, <1>7, <3>1, <4>1
    <3> QED BY <3>3, <3>4
  <2>4. CASE ApplyDelta(c) \/ ApplyCount(c)
    <3>1. now' = now /\ UNCHANGED deltaQ /\ delta' = [delta EXCEPT ![c] = Idle]
      BY <2>4 DEF ApplyDelta, ApplyCount, Written, env
    <3> QED BY <1>6, <1>7, <3>1
  <2>5. CASE StopServer(c)
    <3>1. now' = now /\ UNCHANGED deltaQ /\ delta' = [delta EXCEPT ![c] = Down]
      BY <2>5 DEF StopServer, env
    <3> QED BY <1>6, <1>7, <3>1
  <2> QED BY <1>8, <2>1, <2>2, <2>3, <2>4, <2>5 DEF DeltaStep
<1>9. CASE RunStopScript \/ RunStartScript
  <2>1. now' = now /\ UNCHANGED deltaQ BY <1>9 DEF RunStopScript, RunStartScript, env
  <2>2. UNCHANGED delta \/ \E c \in Consumers : delta' = [delta EXCEPT ![c] = Idle]
    BY <1>9 DEF RunStopScript, RunStartScript
  <2> QED BY <1>6, <1>7, <2>1, <2>2
<1> QED BY <1>2, <1>3, <1>4, <1>5, <1>8, <1>9 DEF Next

LEMMA OneEachKeeps == TypeOK /\ EnvDated /\ OneEach /\ [Next]_vars => OneEach'
<1> SUFFICES ASSUME TypeOK, EnvDated, OneEach, [Next]_vars PROVE OneEach' OBVIOUS
<1>0. now \in Nat BY DEF TypeOK, EnvOK
<1>1. CASE UNCHANGED <<deltaQ, delta>> /\ now' \in {now, now + 1}
  BY <1>0, <1>1 DEF OneEach, Busy
<1>2. ASSUME NEW m \in Delta, m.tx = now', deltaQ' = deltaQ \cup {m}, now' = now + 1, UNCHANGED delta
      PROVE  OneEach'
  <2>1. \A n \in deltaQ : n.tx \in 2..now' /\ n.tx # m.tx BY <1>0, <1>2 DEF OneEach
  <2>2. \A c \in Consumers : Busy(c) => delta[c].msg.tx \in 2..now' /\ delta[c].msg.tx # m.tx
    BY <1>0, <1>2 DEF OneEach
  <2>3. m.tx \in 2..now'
    <3>1. now # 0 BY DEF EnvDated
    <3> QED BY <1>0, <1>2, <3>1
  <2> QED BY <1>2, <2>1, <2>2, <2>3 DEF OneEach, Busy
<1>3. ASSUME now' = now, NEW c \in Consumers, NEW m \in deltaQ, ~Busy(c), delta'[c].msg = m,
             deltaQ' = deltaQ \ {m}, \A d \in Consumers \ {c} : delta'[d] = delta[d]
      PROVE  OneEach'
  <2>1. m.tx \in 2..now /\ \A n \in deltaQ' : n.tx # m.tx BY <1>3 DEF OneEach
  <2>2. \A d \in Consumers \ {c} : Busy(d) => delta[d].msg.tx # m.tx BY <1>3 DEF OneEach
  <2> QED BY <1>3, <2>1, <2>2 DEF OneEach, Busy
<1>4. CASE /\ now' = now /\ UNCHANGED deltaQ
           /\ \A d \in Consumers : Busy(d)' => Busy(d) /\ delta'[d].msg = delta[d].msg
  BY <1>4 DEF OneEach
<1> QED BY <1>1, <1>2, <1>3, <1>4, Flow

LEMMA GreaterIsLater ==
  ASSUME NEW a \in Times, NEW b \in Times, a > b
  PROVE  Later(a, b)
<1>1. \A t \in Times : t \in Nat /\ Hour(t) \in 0..23 /\ Midnight(t) + Hour(t) = StartHour + t
  BY StartHourAssumption DEF Times, Hour, Midnight
<1>2. \A t \in Times : Parsed(t) = StartHour + t BY <1>1 DEF Times, Parsed
<1> QED BY <1>1, <1>2, StartHourAssumption DEF Later

\* The entries of the log about a key, and those after a date, are finitely many.
Entries(k) == {e \in log : e.key = k}

LEMMA EntriesFinite ==
  ASSUME TypeOK, NEW k, NEW t
  PROVE  EntriesAfter(k, t) \in SUBSET LogEntry /\ IsFiniteSet(EntriesAfter(k, t))
BY FS_Subset DEF TypeOK, TablesOK, EntriesAfter

LEMMA AfterType ==
  ASSUME TypeOK
  PROVE  \A k, t : After(k, t) \in Int
<1> SUFFICES ASSUME NEW k, NEW t PROVE After(k, t) \in Int OBVIOUS
<1> DEFINE S == EntriesAfter(k, t)
<1>1. S \in SUBSET LogEntry /\ IsFiniteSet(S) BY EntriesFinite
<1> HIDE DEF S
<1>2. Total(S) \in Int BY <1>1, TotalType
<1> QED BY <1>2 DEF S, After

LEMMA AfterNone ==
  ASSUME NEW k, NEW t, EntriesAfter(k, t) = {}
  PROVE  After(k, t) = 0
BY TotalNone DEF After

\* What a cycle count reads of the log is what was logged after its date.
LEMMA ReadsAfter ==
  ASSUME LogDated, NEW k, NEW t \in Times
  PROVE  LogTotal(k, t) = After(k, t)
<1>1. \A e \in log : Later(e.tx, t) <=> e.tx > t BY LaterIsLater, GreaterIsLater DEF LogDated
<1>2. {e \in log : e.key = k /\ Later(e.tx, t)} = EntriesAfter(k, t) BY <1>1 DEF EntriesAfter
<1> QED BY <1>2, Zenon DEF LogTotal, After, Total

\* A log with one more entry of key k.
LEMMA AfterAdd ==
  ASSUME TypeOK, TypeOK', NEW e \in LogEntry, e \notin log, log' = log \cup {e}
  PROVE  /\ \A t \in Nat : After(e.key, t)' = After(e.key, t) + (IF e.tx > t THEN e.qty ELSE 0)
         /\ \A k \in Keys, t \in Nat : k # e.key => After(k, t)' = After(k, t)
<1>0. e.tx \in Nat /\ e.qty \in Int BY DEF LogEntry
<1>1. ASSUME NEW t \in Nat
      PROVE  After(e.key, t)' = After(e.key, t) + (IF e.tx > t THEN e.qty ELSE 0)
  <2>0. After(e.key, t) \in Int BY AfterType
  <2>1. CASE e.tx > t
    <3> DEFINE S == EntriesAfter(e.key, t)'
               R == EntriesAfter(e.key, t)
    <3>1. R = S \ {e} /\ e \in S BY <2>1 DEF EntriesAfter
    <3>2. S \in SUBSET LogEntry /\ IsFiniteSet(S)
      BY FS_Subset DEF TypeOK, TablesOK, EntriesAfter
    <3>3. After(e.key, t)' = Total(S) /\ After(e.key, t) = Total(R) BY DEF After
    <3> HIDE DEF S, R
    <3>4. Total(S) = e.qty + Total(S \ {e}) BY <3>1, <3>2, TotalWithout
    <3>5. Total(S) = e.qty + Total(R) BY <3>1, <3>4
    <3>6. Total(R) \in Int BY <2>0, <3>3
    <3> QED BY <1>0, <2>1, <3>3, <3>5, <3>6
  <2>2. CASE ~(e.tx > t)
    <3>1. EntriesAfter(e.key, t)' = EntriesAfter(e.key, t) BY <2>2 DEF EntriesAfter
    <3>2. After(e.key, t)' = After(e.key, t) BY <3>1 DEF After
    <3> QED BY <2>0, <2>2, <3>2
  <2> QED BY <2>1, <2>2
<1>2. ASSUME NEW k \in Keys, NEW t \in Nat, k # e.key PROVE After(k, t)' = After(k, t)
  <2>1. EntriesAfter(k, t)' = EntriesAfter(k, t) BY <1>2 DEF EntriesAfter
  <2> QED BY <2>1 DEF After
<1> QED BY <1>1, <1>2

\* Nothing about key k is gone from the log but what was noted, and nothing is new.
LEMMA AfterCut ==
  ASSUME TypeOK, NEW k, Entries(k)' \subseteq Entries(k),
         \A e \in Entries(k) : e \in Entries(k)' \/ e.tx \in cut'[k],
         NEW t \in Nat, \A d \in cut'[k] : d <= t
  PROVE  After(k, t)' = After(k, t)
<1>1. EntriesAfter(k, t)' = EntriesAfter(k, t)
  <2>1. \A e \in log : e.tx \in Nat BY DEF TypeOK, TablesOK, LogEntry
  <2>2. EntriesAfter(k, t) = {e \in Entries(k) : e.tx > t} BY DEF EntriesAfter, Entries
  <2>3. EntriesAfter(k, t)' = {e \in Entries(k)' : e.tx > t} BY DEF EntriesAfter, Entries
  <2>4. \A e \in Entries(k) : e.tx \in Nat BY <2>1 DEF Entries
  <2>5. \A e \in Entries(k) : e.tx > t => e \in Entries(k)' BY <2>4
  <2> QED BY <2>2, <2>3, <2>5
<1> QED BY <1>1 DEF After

\* The log changes when it is emptied, and with a shipment or an applied delta.
LEMMA LogSteps ==
  ASSUME [Next]_vars
  PROVE  \/ UNCHANGED <<log, cut>>
         \/ \E t \in Loaders : ManageDeltaServer(t)
         \/ \E k \in Keys : Ship(k)
         \/ \E c \in Consumers : ApplyDelta(c)
<1>1. Outside => UNCHANGED <<log, cut>> \/ \E k \in Keys : Ship(k)
  BY DEF Outside, Post, Count, SendSOF, SendStores, Reprocess, tables, history
<1>2. ASSUME NEW t \in Loaders, LoadStep(t) PROVE UNCHANGED <<log, cut>> \/ ManageDeltaServer(t)
  BY <1>2 DEF LoadStep, GetMismatch, PushInputForAdjustInventory, DuplicateStatusKey, ReceiveEOF,
              SleepAgain, SeeNoStatus, TriggerFullSync, tables, history
<1>3. AdjustInventory \/ RejectEmptyChunk => UNCHANGED <<log, cut>>
  BY DEF AdjustInventory, RejectEmptyChunk, tables, history
<1>4. ASSUME NEW c \in Consumers, DeltaStep(c) PROVE UNCHANGED <<log, cut>> \/ ApplyDelta(c)
  BY <1>4 DEF DeltaStep, ReceiveDelta, SleepTillEOF, ReadTables, ApplyCount, StopServer,
              Written, tables, history
<1>5. RunStopScript \/ RunStartScript => UNCHANGED <<log, cut>>
  BY DEF RunStopScript, RunStartScript, tables, history
<1>6. UNCHANGED vars => UNCHANGED <<log, cut>> BY DEF vars, tables, history
<1> QED BY <1>1, <1>2, <1>3, <1>4, <1>5, <1>6 DEF Next

LEMMA LogDatedKeeps == TypeOK /\ DatesInv /\ DatesInv' /\ LogDated /\ [Next]_vars => LogDated'
<1> SUFFICES ASSUME TypeOK, DatesInv, DatesInv', LogDated, [Next]_vars PROVE LogDated' OBVIOUS
<1>1. CASE UNCHANGED log BY <1>1 DEF LogDated
<1>2. ASSUME NEW t \in Loaders, ManageDeltaServer(t) PROVE LogDated'
  BY <1>2 DEF ManageDeltaServer, LogDated
<1>3. ASSUME NEW k \in Keys, Ship(k) PROVE LogDated'
  <2>1. lastTx'[k] = now' BY <1>3 DEF Ship, TypeOK, EnvOK
  <2>2. now' \in Times BY <2>1 DEF DatesInv, EnvDated
  <2>3. log' = log \cup {[key |-> k, qty |-> -1, tx |-> now']} BY <1>3 DEF Ship
  <2> QED BY <2>2, <2>3 DEF LogDated
<1>4. ASSUME NEW c \in Consumers, ApplyDelta(c) PROVE LogDated'
  <2> DEFINE m == delta[c].msg
  <2>1. m.tx \in Times BY <1>4 DEF ApplyDelta, DatesInv, ServerDated, DatedDelta
  <2>2. log' = log \cup {[key |-> m.key, qty |-> m.qty, tx |-> m.tx]} BY <1>4 DEF ApplyDelta
  <2> HIDE DEF m
  <2> QED BY <2>1, <2>2 DEF LogDated
<1> QED BY <1>1, <1>2, <1>3, <1>4, LogSteps

\* A step that leaves alone what an instance has read, or notes that it did not.
LEMMA ReadKeeps ==
  ASSUME TypeOK, ReadInv,
         \A c \in Consumers : delta'[c].st = "write" =>
           /\ delta'[c] = delta[c]
           /\ c \notin raced' => c \notin raced
           /\ c \notin raced' => \A t \in Nat : (\A d \in cut'[delta[c].msg.key] : d <= t) =>
                /\ \A d \in cut[delta[c].msg.key] : d <= t
                /\ After(delta[c].msg.key, t)' = After(delta[c].msg.key, t)
  PROVE  ReadInv'
<1> SUFFICES ASSUME NEW c \in Consumers, delta'[c].st = "write"
             PROVE  ReadsRight(c, delta[c].msg, delta[c].qty)' 
  BY DEF ReadInv
<1> DEFINE m == delta[c].msg
           q == delta[c].qty
<1>1. delta'[c] = delta[c] /\ delta[c].st = "write" OBVIOUS
<1>2. m.tx \in Nat BY <1>1, ConsumerType DEF TypeOK, Delta
<1>3. ReadsRight(c, m, q) BY <1>1 DEF ReadInv
<1>4. c \notin raced' /\ (\A d \in cut'[m.key] : d <= m.tx) =>
        /\ c \notin raced /\ (\A d \in cut[m.key] : d <= m.tx)
        /\ After(m.key, m.tx)' = After(m.key, m.tx)
  BY <1>1, <1>2
<1>5. m' = m /\ q' = q BY <1>1
<1>6. /\ ~m.abs => q = m.qty
      /\ m.abs /\ c \notin raced' /\ (\A d \in cut'[m.key] : d <= m.tx)
           => q = m.qty + After(m.key, m.tx)'
  <2> HIDE DEF m, q
  <2> QED BY <1>3, <1>4 DEF ReadsRight
<1> QED BY <1>1, <1>6 DEF ReadsRight

LEMMA ReadInvKeeps == TypeOK /\ DatesInv /\ LogDated /\ ReadInv /\ [Next]_vars => ReadInv'
<1> SUFFICES ASSUME TypeOK, DatesInv, LogDated, ReadInv, [Next]_vars PROVE ReadInv' OBVIOUS
<1>0. ServerOK /\ TablesOK /\ HistoryOK /\ delta \in [Consumers -> ConsumerState]
  BY DEF TypeOK, ServerOK
<1>a. \A c \in Consumers : delta[c].st = "write" => delta[c].msg.key \in Keys
  BY <1>0, ConsumerType DEF Delta
<1>1. ASSUME UNCHANGED log, UNCHANGED cut, raced \subseteq raced',
             \A c \in Consumers : delta'[c].st = "write" => delta'[c] = delta[c]
      PROVE  ReadInv'
  <2>1. \A k, t : After(k, t)' = After(k, t) BY <1>1 DEF After, EntriesAfter
  <2> QED BY <1>1, <2>1, ReadKeeps
<1>2. ASSUME NEW k \in Keys, NEW e \in LogEntry, e.key = k, log' = log \cup {e}, UNCHANGED cut,
             \A c \in Consumers : delta'[c].st = "write" =>
               /\ delta'[c] = delta[c] /\ (c \notin raced' => c \notin raced)
               /\ (c \notin raced' => c \notin Readers(k))
      PROVE  ReadInv'
  <2>1. \A j : j # k => \A t \in Nat : After(j, t)' = After(j, t)
    BY <1>2 DEF After, EntriesAfter
  <2>2. \A c \in Consumers : delta'[c].st = "write" /\ c \notin raced' => delta[c].msg.key # k
    BY <1>2 DEF Readers
  <2> QED BY <1>2, <2>1, <2>2, ReadKeeps
<1>3. CASE Outside
  <2>1. ASSUME NEW k \in Keys, Ship(k) PROVE ReadInv'
    <3> DEFINE e == [key |-> k, qty |-> -1, tx |-> now']
    <3>1. now' \in Nat BY <2>1 DEF Ship, Spend, TypeOK, EnvOK
    <3>2. e \in LogEntry /\ e.key = k BY <3>1 DEF LogEntry
    <3>3. log' = log \cup {e} /\ UNCHANGED <<cut, delta>> /\ raced' = raced \cup Readers(k)
      BY <2>1 DEF Ship, server
    <3> HIDE DEF e
    <3> QED BY <1>2, <3>2, <3>3
  <2>2. ~(\E k \in Keys : Ship(k)) => UNCHANGED <<log, cut, raced, delta>>
    BY <1>3 DEF Outside, Post, Count, SendSOF, SendStores, Reprocess, tables, history, server
  <2> QED BY <1>1, <2>1, <2>2
<1>4. ASSUME NEW t \in Loaders, LoadStep(t) PROVE ReadInv'
  <2>1. CASE ManageDeltaServer(t)
    <3>1. UNCHANGED <<delta, raced>> /\ log' = {}
          /\ cut' = [k \in Keys |-> cut[k] \cup {e.tx : e \in {f \in log : f.key = k}}]
      BY <2>1 DEF ManageDeltaServer, server
    <3>2. ASSUME NEW k \in Keys, NEW s \in Nat, \A d \in cut'[k] : d <= s
          PROVE  (\A d \in cut[k] : d <= s) /\ After(k, s)' = After(k, s)
      <4>1. cut'[k] = cut[k] \cup {e.tx : e \in {f \in log : f.key = k}} BY <3>1
      <4>2. \A e \in Entries(k) : e.tx \in cut'[k] BY <4>1 DEF Entries
      <4>3. Entries(k)' \subseteq Entries(k) BY <3>1 DEF Entries
      <4>4. After(k, s)' = After(k, s) BY <3>2, <4>2, <4>3, AfterCut
      <4> QED BY <3>2, <4>1, <4>4
    <3> QED BY <1>a, <3>1, <3>2, ReadKeeps
  <2>2. ~ManageDeltaServer(t) => UNCHANGED <<log, cut, raced, delta>>
    BY <1>4 DEF LoadStep, GetMismatch, PushInputForAdjustInventory, DuplicateStatusKey, ReceiveEOF,
                SleepAgain, SeeNoStatus, TriggerFullSync, tables, history, server
  <2> QED BY <1>1, <2>1, <2>2
<1>5. CASE AdjustInventory \/ RejectEmptyChunk
  <2>1. UNCHANGED <<log, cut, delta>> /\ raced \subseteq raced'
    BY <1>5 DEF AdjustInventory, RejectEmptyChunk, tables, history, server
  <2> QED BY <1>1, <2>1
<1>6. CASE UNCHANGED vars BY <1>1, <1>6 DEF vars, tables, history, server
<1>7. CASE RunStopScript \/ RunStartScript
  <2>1. UNCHANGED <<log, cut, raced>> BY <1>7 DEF RunStopScript, RunStartScript, tables, history
  <2>2. \A d \in Consumers : delta'[d] = delta[d] \/ delta'[d].st = "idle"
    BY <1>0, <1>7 DEF RunStopScript, RunStartScript, Idle
  <2> QED BY <1>1, <2>1, <2>2
<1>8. ASSUME NEW c \in Consumers, NEW s, delta' = [delta EXCEPT ![c] = s], s.st # "write",
             UNCHANGED <<log, cut, raced>>
      PROVE  ReadInv'
  <2>1. \A d \in Consumers : delta'[d].st = "write" => delta'[d] = delta[d] BY <1>0, <1>8
  <2> QED BY <1>1, <1>8, <2>1
<1>9. ASSUME NEW c \in Consumers, DeltaStep(c) PROVE ReadInv'
  <2>0. Idle.st = "idle" /\ Down.st = "down" BY DEF Idle, Down
  <2>1. ASSUME NEW m \in deltaQ, ReceiveDelta(c, m) PROVE ReadInv'
    <3>1. delta' = [delta EXCEPT ![c] = [st |-> "sleep", msg |-> m]] /\ UNCHANGED <<log, cut, raced>>
      BY <2>1 DEF ReceiveDelta, tables, history
    <3>2. [st |-> "sleep", msg |-> m].st # "write" OBVIOUS
    <3> QED BY <1>8, <3>1, <3>2
  <2>2. CASE SleepTillEOF(c)
    <3>1. delta' = [delta EXCEPT ![c] = [delta[c] EXCEPT !.st = "awake"]] /\ UNCHANGED <<log, cut, raced>>
      BY <1>0, <2>2 DEF SleepTillEOF, tables, history
    <3>2. delta[c] \in [st : {"sleep", "awake"}, msg : Delta]
      BY <1>0, <2>2 DEF SleepTillEOF, ConsumerState, Idle, Down
    <3>3. [delta[c] EXCEPT !.st = "awake"].st # "write" BY <3>2
    <3> QED BY <1>8, <3>1, <3>3
  <2>3. CASE StopServer(c)
    BY <1>8, <2>0, <2>3 DEF StopServer, tables, history
  <2>4. CASE ReadTables(c)
    <3> DEFINE m == delta[c].msg
               q == m.qty + (IF m.abs THEN LogTotal(m.key, m.tx) ELSE 0)
               s == [st |-> "write", msg |-> m, qty |-> q]
    <3>1. delta[c].st = "awake" /\ UNCHANGED <<log, cut, raced>>
          /\ delta' = [delta EXCEPT ![c] = IF Applicable(m) THEN s ELSE Idle]
      BY <2>4 DEF ReadTables, tables, history
    <3>2. CASE ~Applicable(m)
      <4>1. delta' = [delta EXCEPT ![c] = Idle] BY <3>1, <3>2
      <4> QED BY <1>8, <2>0, <3>1, <4>1
    <3>3. CASE Applicable(m)
      <4>1. s.msg = m /\ s.qty = q OBVIOUS
      <4>2. m \in DatedDelta BY <3>1 DEF DatesInv, ServerDated
      <4>3. m.tx \in Times /\ m.qty \in Int BY <4>2 DEF DatedDelta, Delta
      <4>4. m.abs => q = m.qty + After(m.key, m.tx) BY <4>3, ReadsAfter
      <4>5. ~m.abs => q = m.qty BY <4>3
      <4>6. delta'[c] = s /\ \A d \in Consumers \ {c} : delta'[d] = delta[d] BY <1>0, <3>1, <3>3
      <4>7. \A k, t : After(k, t)' = After(k, t) BY <3>1 DEF After, EntriesAfter
      <4> HIDE DEF s, q, m
      <4>8. ASSUME NEW d \in Consumers, delta'[d].st = "write"
            PROVE  ReadsRight(d, delta[d].msg, delta[d].qty)'
        <5>1. CASE d = c
          <6>1. delta'[d].msg = m /\ delta'[d].qty = q BY <4>1, <4>6, <5>1
          <6> QED BY <4>4, <4>5, <4>7, <6>1 DEF ReadsRight
        <5>2. CASE d # c
          <6>1. delta'[d] = delta[d] BY <4>6, <5>2
          <6>2. ReadsRight(d, delta[d].msg, delta[d].qty) BY <4>8, <6>1 DEF ReadInv
          <6> QED BY <3>1, <4>7, <6>1, <6>2 DEF ReadsRight
        <5> QED BY <5>1, <5>2
      <4> QED BY <4>8 DEF ReadInv
    <3> QED BY <3>2, <3>3
  <2>5. CASE ApplyDelta(c)
    <3> DEFINE m == delta[c].msg
               e == [key |-> m.key, qty |-> m.qty, tx |-> m.tx]
    <3>1. m.key \in Keys /\ e \in LogEntry /\ e.key = m.key
      BY <1>0, <2>5, ConsumerType DEF ApplyDelta, Delta, LogEntry
    <3>2. /\ log' = log \cup {e} /\ UNCHANGED cut /\ delta' = [delta EXCEPT ![c] = Idle]
          /\ raced' = (raced \cup Readers(m.key)) \ {c}
      BY <2>5 DEF ApplyDelta, Written
    <3>3. delta'[c].st # "write" /\ \A d \in Consumers \ {c} : delta'[d] = delta[d]
      BY <1>0, <2>0, <3>2
    <3> HIDE DEF e, m
    <3>4. \A d \in Consumers : delta'[d].st = "write" =>
            /\ delta'[d] = delta[d] /\ (d \notin raced' => d \notin raced)
            /\ (d \notin raced' => d \notin Readers(m.key))
      BY <3>2, <3>3
    <3> QED BY <1>2, <3>1, <3>2, <3>4
  <2>6. CASE ApplyCount(c)
    <3> DEFINE k == delta[c].msg.key
    <3>1. UNCHANGED <<log, cut>> /\ delta' = [delta EXCEPT ![c] = Idle]
          /\ raced' = (raced \cup Readers(k)) \ {c}
      BY <2>6 DEF ApplyCount, Written
    <3>2. delta'[c].st # "write" /\ \A d \in Consumers \ {c} : delta'[d] = delta[d]
      BY <1>0, <2>0, <3>1
    <3>3. \A j, t : After(j, t)' = After(j, t) BY <3>1 DEF After, EntriesAfter
    <3>4. \A d \in Consumers : delta'[d].st = "write" =>
            delta'[d] = delta[d] /\ (d \notin raced' => d \notin raced)
      BY <3>1, <3>2
    <3> HIDE DEF k
    <3> QED BY <3>1, <3>3, <3>4, ReadKeeps
  <2> QED BY <1>9, <2>1, <2>2, <2>3, <2>4, <2>5, <2>6 DEF DeltaStep
<1> QED BY <1>3, <1>4, <1>5, <1>6, <1>7, <1>9 DEF Next

-----------------------------------------------------------------------------
(* What supply accounts for                                                *)

\* A control record lets message p pass.
Below(d, p) == d.tx < p.tx /\ d.gen < p.tx

KeyBounds(k) ==
  /\ applied[k] \in 1..now /\ lastTx[k] <= now
  /\ ctrl[k].tx <= now /\ ctrl[k].gen <= now

\* What is logged is applied, and no message is both logged and pending.
LogInv(k) == \A e \in Entries(k) : e.tx <= applied[k] /\ e.tx \notin Due(k)

\* Messages newer than everything applied pass the control record.
Behind(k) == \A p \in Pending(k) : p.tx > applied[k] => Below(ctrl[k], p)

\* A line in transit has a quantity, or nothing to adjust; a line of a listed item
\* carries the date of the last message that its snapshot includes, or a later one.
LinesInv(k) == \A l \in InTransit(k) :
  /\ ~l.hasQty => l.adj = 0
  /\ l.gen # 0 => /\ l.tx <= l.gen /\ l.gen <= applied[k]
                  /\ \A p \in Pending(k) : p.tx <= l.gen => p.tx <= l.tx
InHandInv(k) == \A m \in InHand(k[2]) : m.gen <= applied[k]

Facts(k) == KeyBounds(k) /\ LogInv(k) /\ Behind(k) /\ LinesInv(k) /\ InHandInv(k)

\* h tells what was in the store, from the start to now: every pending message
\* tells of its change, and nothing else changed since the last applied date.
Told(k, h) ==
  /\ h[now] = stock[k]
  /\ \A p \in Pending(k) : /\ p.gen = p.tx /\ p.tx <= lastTx[k]
                           /\ h[p.tx] = IF p.abs THEN p.qty ELSE h[p.tx - 1] + p.qty
Still(k, h) == \A t \in 1..(now - 1) : t >= applied[k] /\ t + 1 \notin Due(k) => h[t + 1] = h[t]

\* A store message tells what was in the store when its snapshot was taken.
Tells(m, k, h) ==
  /\ m.gen \in 1..now
  /\ \A i, j \in DOMAIN m.lines : m.lines[i].item = m.lines[j].item => i = j
  /\ k[1] \in FeedItems(m) =>
       \A j \in DOMAIN m.lines : m.lines[j].item = k[1] =>
         /\ m.lines[j].qty = h[m.gen] /\ m.lines[j].tx <= m.gen
         /\ \A p \in Pending(k) : p.tx <= m.gen => p.tx <= m.lines[j].tx
  /\ k[1] \notin FeedItems(m) => h[m.gen] = 0 /\ \A p \in Pending(k) : p.tx > m.gen
FeedInv(k, h) == \A m \in Sent(k[2]) \cup InHand(k[2]) : Tells(m, k, h)

\* b is the date of the snapshot or count that supply is based on, a[t] what was
\* applied to it of changes after t: what it lacks are the pending messages.
Balance(k, h, b, a) ==
  \A t \in b..(now - 1) : /\ t + 1 \in Due(k) => a[t + 1] = a[t]
                          /\ t + 1 \notin Due(k) => h[t + 1] + a[t + 1] = h[t] + a[t]
Logged(k, b, a) == \A t \in b..now : (\A d \in cut[k] : d <= t) => a[t] = After(k, t)
Ahead(k, b) == \A p \in Pending(k) : p.tx > b => Below(ctrl[k], p)
OnRecord(k, h, b, a) ==
  InTransit(k) = {} => /\ supply[k] = h[b] + a[b]
                       /\ \A p \in Pending(k) : p.tx <= b => ctrl[k].tx >= p.tx
OnTheWay(k, h, b, a) == \A l \in InTransit(k) :
  /\ supply[k] + l.adj = h[b] + a[b]
  /\ l.gen = b \/ (l.gen = 0 /\ \A p \in Pending(k) : p.tx > b)
Accounts(k, h, b, a) ==
  /\ b \in 1..now /\ a[now] = 0
  /\ Balance(k, h, b, a) /\ Logged(k, b, a) /\ Ahead(k, b)
  /\ OnRecord(k, h, b, a) /\ OnTheWay(k, h, b, a)
Claim(k, h) ==
  ~drift[k] /\ ~Lost(k) => OneSpot(k) /\ \E b \in Nat, a \in [Nat -> Int] : Accounts(k, h, b, a)

Story(k, h) == Told(k, h) /\ Still(k, h) /\ FeedInv(k, h) /\ Claim(k, h)
KeyInv(k) == Facts(k) /\ \E h \in [Nat -> Int] : Story(k, h)

Base == TypeOK /\ DatesInv /\ OneEach /\ LogDated /\ ReadInv

LEMMA PendingFacts ==
  ASSUME TypeOK, DatesInv, OneEach, NEW k \in Keys
  PROVE  /\ \A p \in Pending(k) : /\ p \in Delta /\ p.key = k /\ p.tx \in 2..now
                                  /\ p.tx \in Times /\ p.gen \in Times
         /\ \A p, q \in Pending(k) : p.tx = q.tx => p = q
<1>1. \A p \in Pending(k) : p.key = k /\ (p \in deltaQ \/ \E c \in Consumers : Busy(c) /\ p = delta[c].msg)
  BY DEF Pending
<1>2. \A c \in Consumers : Busy(c) => delta[c].msg \in DatedDelta
  BY DEF Busy, DatesInv, ServerDated
<1>3. \A p \in Pending(k) : p \in DatedDelta BY <1>1, <1>2 DEF DatesInv, ServerDated
<1>4. \A p \in Pending(k) : p.tx \in 2..now BY <1>1 DEF OneEach
<1>5. ASSUME NEW p \in Pending(k), NEW q \in Pending(k), p.tx = q.tx PROVE p = q
  <2>1. CASE p \in deltaQ /\ q \in deltaQ BY <1>5, <2>1 DEF OneEach
  <2>2. ASSUME p \in deltaQ, NEW c \in Consumers, Busy(c), q = delta[c].msg PROVE FALSE
    BY <1>5, <2>2 DEF OneEach
  <2>3. ASSUME q \in deltaQ, NEW c \in Consumers, Busy(c), p = delta[c].msg PROVE FALSE
    BY <1>5, <2>3 DEF OneEach
  <2>4. ASSUME NEW c \in Consumers, Busy(c), p = delta[c].msg,
               NEW d \in Consumers, Busy(d), q = delta[d].msg
        PROVE  p = q
    <3>1. c = d BY <1>5, <2>4 DEF OneEach
    <3> QED BY <2>4, <3>1
  <2> QED BY <1>1, <2>1, <2>2, <2>3, <2>4
<1> QED BY <1>1, <1>3, <1>4, <1>5 DEF DatedDelta

LEMMA TransitType ==
  ASSUME TypeOK, NEW k \in Keys
  PROVE  \A l \in InTransit(k) : l \in Line
<1>1. \A t \in Loaders : loader[t].st = "store" => loader[t].lines \in Seq(Line)
  BY DEF TypeOK, LoadOK, LoaderState, Idle
<1>2. \A q \in DOMAIN chunkQ : chunkQ[q].lines \in Seq(Line)
  <2>1. chunkQ \in Seq(Chunk) BY DEF TypeOK, SyncOK
  <2>2. \A q \in DOMAIN chunkQ : chunkQ[q] \in Chunk BY <2>1
  <2> QED BY <2>2 DEF Chunk
<1>3. \A s \in Seq(Line) : \A j \in DOMAIN s : s[j] \in Line OBVIOUS
<1>4. ASSUME NEW t \in Loaders, NEW j \in Nat, LoaderSpot(k, t, j) PROVE loader[t].lines[j] \in Line
  BY <1>1, <1>3, <1>4 DEF LoaderSpot
<1>5. ASSUME NEW q \in Nat, NEW j \in Nat, ChunkSpot(k, q, j) PROVE chunkQ[q].lines[j] \in Line
  BY <1>2, <1>3, <1>5 DEF ChunkSpot
<1> QED BY <1>4, <1>5, TransitSpots

LEMMA SentType ==
  ASSUME TypeOK, NEW n
  PROVE  Sent(n) \subseteq Store /\ InHand(n) \subseteq Store
<1>1. InHand(n) \subseteq Store BY DEF TypeOK, LoadOK, LoaderState, Idle, InHand
<1>2. \A q \in Elems(feedQ) : q \in Store \cup Mark BY ElemsType DEF TypeOK, LoadOK
<1>3. \A q \in Elems(feedQ) : q.type = "STORE" => q \in Store BY <1>2 DEF Mark
<1>4. Sent(n) \subseteq Store BY <1>3 DEF Sent, TypeOK, LoadOK
<1> QED BY <1>1, <1>4

\* When nothing speaks of a key any more, supply is what is in the store.
LEMMA QuietConverges ==
  ASSUME Base, NEW k \in Keys, KeyInv(k), Quiet(k), ~drift[k]
  PROVE  supply[k] = stock[k]
<1>0. TypeOK /\ now \in Nat BY DEF Base, TypeOK, EnvOK
<1>1. Sent(k[2]) = {}
  <2>1. \A q \in Elems(feedQ) : q.type = "STORE" => q.node # k[2] BY DEF Quiet, Elems
  <2>2. \A m \in failed : m.node # k[2] BY DEF Quiet
  <2> QED BY <2>1, <2>2 DEF Sent
<1>2. Pending(k) = {} /\ Due(k) = {}
  <2>1. \A m \in deltaQ : m.key # k BY DEF Quiet, Waiting
  <2>2. \A c \in Consumers : Busy(c) => delta[c].msg.key # k BY DEF Quiet, Waiting, Busy
  <2>3. Pending(k) = {} BY <2>1, <2>2 DEF Pending
  <2> QED BY <2>3 DEF Due
<1>3. ~Lost(k) /\ InTransit(k) = {} BY <1>1 DEF Lost, Quiet
<1>4. PICK h \in [Nat -> Int] : Story(k, h) BY DEF KeyInv
<1>5. PICK b \in Nat, a \in [Nat -> Int] : Accounts(k, h, b, a)
  BY <1>3, <1>4 DEF Story, Claim
<1>6. b \in 1..now /\ a[now] = 0 /\ supply[k] = h[b] + a[b] BY <1>3, <1>5 DEF Accounts, OnRecord
<1>7. \A t \in b..(now - 1) : h[t + 1] + a[t + 1] = h[t] + a[t]
  BY <1>2, <1>5 DEF Accounts, Balance
<1>8. h[now] = stock[k] BY <1>4 DEF Story, Told
<1> DEFINE S == {n \in Nat : h[b + n] + a[b + n] = h[b] + a[b]}
           m == now - b
<1>9. m \in Nat /\ now = b + m BY <1>0, <1>6
<1>10. 0 \in S
  <2>1. b + 0 = b BY <1>6
  <2> QED BY <2>1
<1>11. ASSUME NEW n \in 0..(m - 1), n \in S PROVE n + 1 \in S
  <2>1. b + n \in b..(now - 1) /\ b + (n + 1) = (b + n) + 1 /\ n + 1 \in Nat BY <1>0, <1>6
  <2> QED BY <1>7, <1>11, <2>1
<1>12. \A n \in 0..m : n \in S
  <2> HIDE DEF S, m
  <2> QED BY <1>9, <1>10, <1>11, RangeByInduction
<1>13. m \in S
  <2> HIDE DEF S
  <2> QED BY <1>9, <1>12
<1>14. h[now] + a[now] = h[b] + a[b] BY <1>9, <1>13
<1>15. h[now] \in Int BY <1>0
<1> QED BY <1>6, <1>8, <1>14, <1>15

-----------------------------------------------------------------------------
(* Steps aside of a key                                                    *)

\* A snapshot taken in this step.
TellsNow(m, k) ==
  /\ now' = now + 1 /\ m.gen = now'
  /\ \A i, j \in DOMAIN m.lines : m.lines[i].item = m.lines[j].item => i = j
  /\ k[1] \in FeedItems(m) =>
       \A j \in DOMAIN m.lines : m.lines[j].item = k[1] =>
         m.lines[j].qty = stock[k] /\ m.lines[j].tx = lastTx[k]
  /\ k[1] \notin FeedItems(m) => stock[k] = 0 /\ Pending(k) = {}

\* Messages may be dropped that the control record does not let pass, store
\* messages may be sent, moved and lost; lines may only go where one is lost.
MessagesAside(k) ==
  /\ Pending(k)' \subseteq Pending(k)
  /\ \A p \in Pending(k) : p \in Pending(k)' \/ ~Below(ctrl[k], p)
StoresAside(k) ==
  /\ Sent(k[2]) \subseteq Sent(k[2])'
  /\ \A m \in Sent(k[2])' : m \in Sent(k[2]) \cup InHand(k[2]) \/ TellsNow(m, k)
  /\ InHand(k[2])' \subseteq InHand(k[2])
LinesAside(k) ==
  /\ InTransit(k)' \subseteq InTransit(k)
  /\ ~Lost(k)' => InTransit(k)' = InTransit(k) /\ (OneSpot(k) => OneSpot(k)')
LogAside(k) ==
  /\ cut[k] \subseteq cut'[k] /\ Entries(k)' \subseteq Entries(k)
  /\ \A e \in Entries(k) : e \in Entries(k)' \/ e.tx \in cut'[k]
KeyAside(k) ==
  /\ stock'[k] = stock[k] /\ lastTx'[k] = lastTx[k] /\ applied'[k] = applied[k]
  /\ supply'[k] = supply[k] /\ drift'[k] = drift[k] /\ ctrl'[k] = ctrl[k]
Aside(k) ==
  /\ now' \in {now, now + 1}
  /\ KeyAside(k) /\ LogAside(k) /\ MessagesAside(k) /\ StoresAside(k) /\ LinesAside(k)

LEMMA KeyTypes ==
  ASSUME TypeOK, NEW k \in Keys
  PROVE  /\ now \in Nat /\ stock[k] \in Int /\ lastTx[k] \in Nat /\ applied[k] \in Nat
         /\ supply[k] \in Int /\ ctrl[k].tx \in Nat /\ ctrl[k].gen \in Nat
         /\ cut[k] \subseteq Nat /\ drift[k] \in BOOLEAN
BY DEF TypeOK, EnvOK, TablesOK, HistoryOK, Dates

LEMMA AsideFacts ==
  ASSUME Base, NEW k \in Keys, Facts(k), Aside(k)
  PROVE  Facts(k)'
<1> USE DEF Facts, Aside, KeyAside
<1>0. TypeOK /\ now \in Nat /\ Pending(k)' \subseteq Pending(k)
  BY DEF Base, TypeOK, EnvOK, MessagesAside
<1>1. KeyBounds(k)' BY <1>0, KeyTypes DEF KeyBounds
<1>2. LogInv(k)'
  <2>1. Due(k)' \subseteq Due(k) BY <1>0 DEF Due
  <2> QED BY <2>1 DEF LogInv, LogAside
<1>3. Behind(k)' BY <1>0 DEF Behind
<1>4. LinesInv(k)' BY <1>0 DEF LinesInv, LinesAside
<1>5. InHandInv(k)' BY DEF InHandInv, StoresAside
<1> QED BY <1>1, <1>2, <1>3, <1>4, <1>5

LEMMA AsideStory ==
  ASSUME Base, NEW k \in Keys, Facts(k), Aside(k), NEW h \in [Nat -> Int], Story(k, h)
  PROVE  \E g \in [Nat -> Int] : Story(k, g)'
<1> USE DEF Facts, KeyAside
<1>0. TypeOK /\ DatesInv /\ OneEach BY DEF Base
<1>a. /\ now \in Nat /\ now' \in Nat /\ now' \in {now, now + 1} /\ applied[k] \in Nat /\ lastTx[k] \in Nat
      /\ stock[k] \in Int /\ cut[k] \subseteq Nat
  BY <1>0, KeyTypes DEF Aside
<1>b. /\ KeyAside(k) /\ LogAside(k) /\ MessagesAside(k) /\ StoresAside(k) /\ LinesAside(k)
      /\ KeyBounds(k) /\ Behind(k) /\ LogInv(k)
      /\ Told(k, h) /\ Still(k, h) /\ FeedInv(k, h) /\ Claim(k, h)
  BY DEF Aside, Story
<1>c. now \in Nat /\ (now' = now \/ now' = now + 1) /\ applied[k] \in Nat BY <1>a
<1>1. PICK g \in [Nat -> Int] : g[now'] = h[now] /\ \A t \in Nat : t <= now => g[t] = h[t]
  <2> DEFINE f == [t \in Nat |-> IF t = now + 1 THEN h[now] ELSE h[t]]
  <2>1. f \in [Nat -> Int] /\ f[now'] = h[now] /\ \A t \in Nat : t <= now => f[t] = h[t] BY <1>a
  <2> HIDE DEF f
  <2> QED BY <2>1
<1>2. \A p \in Pending(k) : p.tx \in 2..now /\ p.tx <= lastTx[k] BY <1>0, <1>b, PendingFacts DEF Told
<1>3. \A p \in Pending(k)' : p \in Pending(k) BY <1>b DEF MessagesAside
<1>4. \A t \in Due(k)' : t \in Due(k) BY <1>3 DEF Due
<1>5. \A t \in Due(k) : t \in Due(k)' \/ \E p \in Pending(k) : p.tx = t /\ ~Below(ctrl[k], p)
  BY <1>b DEF Due, MessagesAside
<1>6. Told(k, g)'
  <2>1. g[now'] = stock'[k] BY <1>1, <1>b DEF Told
  <2>2. ASSUME NEW p \in Pending(k)'
        PROVE  /\ p.gen = p.tx /\ p.tx <= lastTx'[k]
               /\ g[p.tx] = IF p.abs THEN p.qty ELSE g[p.tx - 1] + p.qty
    <3>1. p \in Pending(k) /\ p.tx \in 2..now BY <1>2, <1>3
    <3>2. g[p.tx] = h[p.tx] /\ g[p.tx - 1] = h[p.tx - 1] BY <1>1, <1>a, <3>1
    <3> QED BY <1>b, <3>1, <3>2 DEF Told
  <2> QED BY <2>1, <2>2 DEF Told
<1>7. Still(k, g)'
  <2> SUFFICES ASSUME NEW t \in 1..(now' - 1), t >= applied'[k], t + 1 \notin Due(k)'
               PROVE  g[t + 1] = g[t]
    BY DEF Still
  <2>0. applied'[k] = applied[k] /\ t \in Nat BY <1>a, <1>b
  <2>1. CASE t + 1 = now + 1
    <3>1. t = now BY <1>c, <2>0, <2>1
    <3>2. now' = t + 1 \/ now' = t BY <1>c, <3>1
    <3>3. now' = t + 1
      <4>1. now' # t BY <1>c, <2>0
      <4> QED BY <3>2, <4>1
    <3> QED BY <1>1, <2>0, <3>1, <3>3
  <2>2. CASE t + 1 # now + 1
    <3>0. t <= now' - 1 BY <1>c
    <3>1. t + 1 <= now /\ t <= now /\ t \in 1..(now - 1) BY <1>c, <2>0, <2>2, <3>0
    <3>2. t + 1 \notin Due(k)
      <4> SUFFICES ASSUME t + 1 \in Due(k) PROVE FALSE OBVIOUS
      <4>1. PICK p \in Pending(k) : p.tx = t + 1 /\ ~Below(ctrl[k], p) BY <1>5
      <4>2. p.tx > applied[k] BY <1>a, <2>0, <4>1
      <4> QED BY <1>b, <4>1, <4>2 DEF Behind
    <3>3. h[t + 1] = h[t] BY <1>b, <2>0, <3>1, <3>2 DEF Still
    <3> QED BY <1>1, <2>0, <3>1, <3>3
  <2> QED BY <2>1, <2>2
<1>8. FeedInv(k, g)'
  <2> SUFFICES ASSUME NEW m, m \in Sent(k[2])' \cup InHand(k[2])' PROVE Tells(m, k, g)'
    BY DEF FeedInv
  <2>1. CASE m \in Sent(k[2]) \cup InHand(k[2])
    <3>1. Tells(m, k, h) BY <1>b, <2>1 DEF FeedInv
    <3>2. m.gen \in 1..now /\ m.gen \in 1..now' /\ g[m.gen] = h[m.gen] BY <1>1, <1>a, <3>1 DEF Tells
    <3> QED BY <1>3, <3>1, <3>2 DEF Tells, FeedItems
  <2>2. CASE TellsNow(m, k)
    <3>1. m.gen \in 1..now' /\ g[m.gen] = stock[k] /\ m.gen = now + 1
      BY <1>1, <1>a, <1>b, <2>2 DEF TellsNow, Told
    <3>2. \A p \in Pending(k)' : p.tx <= lastTx[k] /\ Pending(k) # {} BY <1>2, <1>3
    <3>3. lastTx[k] <= now + 1 BY <1>a, <1>b DEF KeyBounds
    <3> QED BY <2>2, <3>1, <3>2, <3>3 DEF Tells, TellsNow, FeedItems
  <2> QED BY <1>b, <2>1, <2>2 DEF StoresAside
<1>9. Claim(k, g)'
  <2> SUFFICES ASSUME ~drift'[k], ~Lost(k)'
               PROVE  OneSpot(k)' /\ \E b \in Nat, a \in [Nat -> Int] : Accounts(k, g, b, a)'
    BY DEF Claim
  <2>1. ~drift[k] /\ ~Lost(k) BY <1>b DEF Lost, StoresAside
  <2>2. OneSpot(k)' /\ InTransit(k)' = InTransit(k) BY <1>b, <2>1 DEF Claim, LinesAside
  <2>3. PICK b \in Nat, a \in [Nat -> Int] : Accounts(k, h, b, a) BY <1>b, <2>1 DEF Claim
  <2>4. a[now] = 0 /\ b \in 1..now BY <2>3 DEF Accounts
  <2>5. PICK c \in [Nat -> Int] : c[now'] = 0 /\ \A t \in Nat : t <= now => c[t] = a[t]
    <3> DEFINE f == [t \in Nat |-> IF t = now + 1 THEN 0 ELSE a[t]]
    <3>1. f \in [Nat -> Int] /\ f[now'] = 0 /\ \A t \in Nat : t <= now => f[t] = a[t] BY <1>a, <2>4
    <3> HIDE DEF f
    <3> QED BY <3>1
  <2>6. b \in 1..now' /\ g[b] = h[b] /\ c[b] = a[b] BY <1>1, <1>a, <2>4, <2>5
  <2>7. Balance(k, g, b, c)'
    <3> SUFFICES ASSUME NEW t \in b..(now' - 1)
                 PROVE  /\ t + 1 \in Due(k)' => c[t + 1] = c[t]
                        /\ t + 1 \notin Due(k)' => g[t + 1] + c[t + 1] = g[t] + c[t]
      BY DEF Balance
    <3>0. t \in Nat /\ b <= t /\ t <= now' - 1 BY <1>c, <2>4
    <3>1. CASE t + 1 = now + 1
      <4>0. t = now BY <1>c, <3>0, <3>1
      <4>a. now' # now BY <1>c, <3>0, <4>0
      <4>1. t = now /\ now' = t + 1 BY <1>c, <4>0, <4>a
      <4>2. t + 1 \notin Due(k)' BY <1>2, <1>4, <1>a, <4>1 DEF Due
      <4>3. g[t + 1] = g[t] /\ c[t + 1] = c[t] BY <1>1, <1>a, <2>4, <2>5, <4>1
      <4> QED BY <4>2, <4>3
    <3>2. CASE t + 1 # now + 1
      <4>1. t + 1 <= now /\ t <= now /\ t \in b..(now - 1) BY <1>c, <2>4, <3>0, <3>2
      <4>2. g[t + 1] = h[t + 1] /\ g[t] = h[t] /\ c[t + 1] = a[t + 1] /\ c[t] = a[t]
        BY <1>1, <2>5, <3>0, <4>1
      <4>3. t + 1 \in Due(k) => t + 1 \in Due(k)'
        <5> SUFFICES ASSUME t + 1 \in Due(k), t + 1 \notin Due(k)' PROVE FALSE OBVIOUS
        <5>1. PICK p \in Pending(k) : p.tx = t + 1 /\ ~Below(ctrl[k], p) BY <1>5
        <5>2. p.tx > b BY <2>4, <3>0, <4>1, <5>1
        <5> QED BY <2>3, <5>1, <5>2 DEF Accounts, Ahead
      <4>4. /\ t + 1 \in Due(k) => a[t + 1] = a[t]
            /\ t + 1 \notin Due(k) => h[t + 1] + a[t + 1] = h[t] + a[t]
        BY <2>3, <4>1 DEF Accounts, Balance
      <4> QED BY <1>4, <4>2, <4>3, <4>4
    <3> QED BY <3>1, <3>2
  <2>8. Logged(k, b, c)'
    <3> SUFFICES ASSUME NEW t \in b..now', \A d \in cut'[k] : d <= t PROVE c[t] = After(k, t)'
      BY DEF Logged
    <3>0. t \in Nat BY <1>a, <2>4
    <3>1. After(k, t)' = After(k, t) BY <1>0, <1>b, <3>0, AfterCut DEF LogAside
    <3>2. CASE t <= now
      <4>1. t \in b..now /\ (\A d \in cut[k] : d <= t) BY <1>a, <1>b, <3>0, <3>2 DEF LogAside
      <4>2. a[t] = After(k, t) BY <2>3, <4>1 DEF Accounts, Logged
      <4> QED BY <2>5, <3>0, <3>1, <3>2, <4>2
    <3>3. CASE ~(t <= now)
      <4>1. t = now' /\ t > now BY <1>a, <3>0, <3>3
      <4>2. \A e \in Entries(k) : e.tx <= now
        <5>1. \A e \in Entries(k) : e.tx \in Nat BY <1>0 DEF TypeOK, TablesOK, LogEntry, Entries
        <5> QED BY <1>a, <1>b, <5>1 DEF LogInv, KeyBounds
      <4>3. EntriesAfter(k, t) = {}
        <5>1. \A e \in Entries(k) : e.tx \in Nat BY <1>0 DEF TypeOK, TablesOK, LogEntry, Entries
        <5>2. \A e \in Entries(k) : ~(e.tx > t) BY <1>a, <3>0, <4>1, <4>2, <5>1
        <5> QED BY <5>2 DEF EntriesAfter, Entries
      <4>4. After(k, t) = 0 BY <4>3, AfterNone
      <4> QED BY <2>5, <3>1, <4>1, <4>4
    <3> QED BY <3>2, <3>3
  <2>9. Ahead(k, b)' BY <1>3, <1>b, <2>3 DEF Accounts, Ahead
  <2>10. OnRecord(k, g, b, c)' BY <1>3, <1>b, <2>2, <2>3, <2>6 DEF Accounts, OnRecord
  <2>11. OnTheWay(k, g, b, c)' BY <1>3, <1>b, <2>2, <2>3, <2>6 DEF Accounts, OnTheWay
  <2>12. Accounts(k, g, b, c)' BY <2>5, <2>6, <2>7, <2>8, <2>9, <2>10, <2>11 DEF Accounts
  <2> QED BY <2>2, <2>5, <2>12
<1> QED BY <1>1, <1>6, <1>7, <1>8, <1>9 DEF Story

LEMMA AsideKeeps ==
  ASSUME Base, NEW k \in Keys, KeyInv(k), Aside(k)
  PROVE  KeyInv(k)'
<1>1. Facts(k) /\ Facts(k)' BY AsideFacts DEF KeyInv
<1>2. PICK h \in [Nat -> Int] : Story(k, h) BY DEF KeyInv
<1>3. \E g \in [Nat -> Int] : Story(k, g)' BY <1>1, <1>2, AsideStory
<1> QED BY <1>1, <1>3 DEF KeyInv

-----------------------------------------------------------------------------
(* Steps that change what supply is to become                              *)

LEMMA SameViews ==
  /\ UNCHANGED <<deltaQ, delta>> => \A k : Pending(k)' = Pending(k)
  /\ UNCHANGED <<feedQ, failed>> => \A n : Sent(n)' = Sent(n)
  /\ UNCHANGED loader => \A n : InHand(n)' = InHand(n)
  /\ UNCHANGED <<loader, chunkQ>> => \A k : InTransit(k)' = InTransit(k) /\ OneSpot(k)' = OneSpot(k)
<1>1. UNCHANGED <<deltaQ, delta>> => \A k : Pending(k)' = Pending(k) BY DEF Pending, Busy
<1>2. UNCHANGED <<feedQ, failed>> => \A n : Sent(n)' = Sent(n) BY DEF Sent, Elems
<1>3. UNCHANGED loader => \A n : InHand(n)' = InHand(n) BY DEF InHand
<1>4. UNCHANGED <<loader, chunkQ>> => \A k : InTransit(k)' = InTransit(k)
  BY DEF InTransit, LinesOf, Elems
<1>5. UNCHANGED <<loader, chunkQ>> => \A k : OneSpot(k)' = OneSpot(k)
  BY DEF OneSpot, LoaderSpot, ChunkSpot
<1> QED BY <1>1, <1>2, <1>3, <1>4, <1>5

\* Nothing is logged after the last applied date.
LEMMA AfterApplied ==
  ASSUME TypeOK, NEW k \in Keys, LogInv(k), NEW t \in Nat, t >= applied[k]
  PROVE  After(k, t) = 0
<1>1. \A e \in Entries(k) : e.tx \in Nat /\ e.tx <= applied[k]
  BY DEF TypeOK, TablesOK, LogEntry, Entries, LogInv
<1>2. applied[k] \in Nat BY KeyTypes
<1>3. \A e \in Entries(k) : ~(e.tx > t) BY <1>1, <1>2
<1>4. EntriesAfter(k, t) = {} BY <1>3 DEF EntriesAfter, Entries
<1> QED BY <1>4, AfterNone

\* A message about key k is sent: a movement that is posted, or a count.
Sends(k, p) ==
  /\ now' = now + 1 /\ p.tx = now' /\ p.gen = now' /\ Pending(k)' = Pending(k) \cup {p}
  /\ stock'[k] = (IF p.abs THEN p.qty ELSE stock[k] + p.qty) /\ lastTx'[k] = now'
  /\ applied'[k] = applied[k] /\ supply'[k] = supply[k] /\ drift'[k] = drift[k] /\ ctrl'[k] = ctrl[k]
  /\ UNCHANGED <<log, cut>> /\ Sent(k[2])' = Sent(k[2]) /\ InHand(k[2])' = InHand(k[2])
  /\ InTransit(k)' = InTransit(k) /\ OneSpot(k)' = OneSpot(k)

LEMMA SendKeeps ==
  ASSUME Base, NEW k \in Keys, KeyInv(k), NEW p \in Delta, Sends(k, p)
  PROVE  KeyInv(k)'
<1>0. TypeOK /\ DatesInv /\ OneEach BY DEF Base
<1>a. /\ now \in Nat /\ applied[k] \in Nat /\ lastTx[k] \in Nat /\ stock[k] \in Int
      /\ ctrl[k].tx \in Nat /\ ctrl[k].gen \in Nat /\ cut[k] \subseteq Nat /\ p.qty \in Int
  BY <1>0, KeyTypes DEF Delta
<1>b. KeyBounds(k) /\ LogInv(k) /\ Behind(k) /\ LinesInv(k) /\ InHandInv(k) BY DEF KeyInv, Facts
<1>c. applied[k] <= now /\ lastTx[k] <= now /\ ctrl[k].tx <= now /\ ctrl[k].gen <= now /\ applied[k] \in 1..now
  BY <1>b DEF KeyBounds
<1>d. /\ now' = now + 1 /\ p.tx = now' /\ p.gen = now'
      /\ \A q \in Pending(k)' : q \in Pending(k) \/ q = p
      /\ Due(k)' = Due(k) \cup {now'}
  BY DEF Sends, Due
<1>e. \A q \in Pending(k) : q.tx \in 2..now BY <1>0, PendingFacts
<1>f. Entries(k)' = Entries(k) /\ \A e \in Entries(k) : e.tx \in Nat
  BY <1>0 DEF Entries, Sends, TypeOK, TablesOK, LogEntry
<1>g. Below(ctrl[k], p) BY <1>a, <1>c, <1>d DEF Below
<1>h. Sent(k[2])' = Sent(k[2]) /\ InHand(k[2])' = InHand(k[2]) /\ InTransit(k)' = InTransit(k)
      /\ ctrl'[k] = ctrl[k] /\ applied'[k] = applied[k] /\ supply'[k] = supply[k] /\ cut'[k] = cut[k]
      /\ lastTx'[k] = now' /\ drift'[k] = drift[k]
  BY DEF Sends
<1>1. Facts(k)'
  <2>1. KeyBounds(k)' BY <1>a, <1>c, <1>d, <1>h, <1>b DEF KeyBounds
  <2>2. LogInv(k)'
    <3>1. \A e \in Entries(k) : e.tx # now' BY <1>a, <1>b, <1>c, <1>d, <1>f DEF LogInv
    <3> QED BY <1>b, <1>d, <1>f, <1>h, <3>1 DEF LogInv
  <2>3. Behind(k)' BY <1>b, <1>d, <1>g, <1>h DEF Behind
  <2>4. LinesInv(k)'
    <3>1. ASSUME NEW l \in InTransit(k), l.gen # 0 PROVE ~(p.tx <= l.gen)
      <4>1. l.gen \in Nat BY <1>0, TransitType DEF Line
      <4>2. l.gen <= applied[k] BY <1>b, <3>1 DEF LinesInv
      <4> QED BY <1>a, <1>c, <1>d, <4>1, <4>2
    <3> QED BY <1>b, <1>d, <1>h, <3>1 DEF LinesInv
  <2>5. InHandInv(k)' BY <1>b, <1>h DEF InHandInv
  <2> QED BY <2>1, <2>2, <2>3, <2>4, <2>5 DEF Facts
<1>2. PICK h \in [Nat -> Int] : Story(k, h) BY DEF KeyInv
<1>3. Told(k, h) /\ Still(k, h) /\ FeedInv(k, h) /\ Claim(k, h) BY <1>2 DEF Story
<1>4. PICK g \in [Nat -> Int] : g[now'] = stock'[k] /\ \A t \in Nat : t <= now => g[t] = h[t]
  <2> DEFINE f == [t \in Nat |-> IF t = now + 1 THEN (IF p.abs THEN p.qty ELSE stock[k] + p.qty) ELSE h[t]]
  <2>1. f \in [Nat -> Int] /\ f[now'] = stock'[k] /\ \A t \in Nat : t <= now => f[t] = h[t]
    BY <1>a, <1>d DEF Sends
  <2> HIDE DEF f
  <2> QED BY <2>1
<1>5. Told(k, g)'
  <2>1. ASSUME NEW q \in Pending(k)
        PROVE  /\ q.gen = q.tx /\ q.tx <= lastTx'[k]
               /\ g[q.tx] = IF q.abs THEN q.qty ELSE g[q.tx - 1] + q.qty
    <3>1. g[q.tx] = h[q.tx] /\ g[q.tx - 1] = h[q.tx - 1] BY <1>4, <1>a, <1>e
    <3>2. q.tx <= now' BY <1>a, <1>d, <1>e
    <3> QED BY <1>3, <1>h, <3>1, <3>2 DEF Told
  <2>2. g[p.tx] = IF p.abs THEN p.qty ELSE g[p.tx - 1] + p.qty
    <3>1. p.tx - 1 = now BY <1>a, <1>d
    <3>2. g[now] = stock[k] BY <1>3, <1>4, <1>a DEF Told
    <3>3. g[p.tx] = IF p.abs THEN p.qty ELSE stock[k] + p.qty BY <1>4, <1>d DEF Sends
    <3> QED BY <3>1, <3>2, <3>3
  <2>3. p.gen = p.tx /\ p.tx <= lastTx'[k] BY <1>a, <1>d, <1>h
  <2> QED BY <1>4, <1>d, <2>1, <2>2, <2>3 DEF Told
<1>6. Still(k, g)'
  <2> SUFFICES ASSUME NEW t \in 1..(now' - 1), t >= applied'[k], t + 1 \notin Due(k)'
               PROVE  g[t + 1] = g[t]
    BY DEF Still
  <2>1. t + 1 # now' /\ t + 1 \notin Due(k) BY <1>d
  <2>2. t \in 1..(now - 1) /\ t + 1 <= now /\ t <= now /\ t \in Nat BY <1>a, <1>d, <2>1
  <2>3. h[t + 1] = h[t] BY <1>3, <1>h, <2>1, <2>2 DEF Still
  <2> QED BY <1>4, <2>2, <2>3
<1>7. FeedInv(k, g)'
  <2> SUFFICES ASSUME NEW m \in Sent(k[2]) \cup InHand(k[2]) PROVE Tells(m, k, g)'
    BY <1>h DEF FeedInv
  <2>1. Tells(m, k, h) BY <1>3 DEF FeedInv
  <2>2. m.gen \in 1..now /\ m.gen \in 1..now' /\ g[m.gen] = h[m.gen] /\ ~(p.tx <= m.gen) /\ p.tx > m.gen
    BY <1>4, <1>a, <1>d, <2>1 DEF Tells
  <2> QED BY <1>d, <2>1, <2>2 DEF Tells, FeedItems
<1>8. Claim(k, g)'
  <2> SUFFICES ASSUME ~drift'[k], ~Lost(k)'
               PROVE  OneSpot(k)' /\ \E b \in Nat, a \in [Nat -> Int] : Accounts(k, g, b, a)'
    BY DEF Claim
  <2>1. ~drift[k] /\ ~Lost(k) BY <1>h DEF Lost
  <2>2. OneSpot(k)' BY <1>3, <2>1 DEF Claim, Sends
  <2>3. PICK b \in Nat, a \in [Nat -> Int] : Accounts(k, h, b, a) BY <1>3, <2>1 DEF Claim
  <2>4. a[now] = 0 /\ b \in 1..now /\ b \in 1..now' /\ b <= now /\ ~(p.tx <= b) /\ p.tx > b
    BY <1>a, <1>d, <2>3 DEF Accounts
  <2>5. PICK c \in [Nat -> Int] : c[now'] = 0 /\ \A t \in Nat : t <= now => c[t] = a[t]
    <3> DEFINE f == [t \in Nat |-> IF t = now + 1 THEN 0 ELSE a[t]]
    <3>1. f \in [Nat -> Int] /\ f[now'] = 0 /\ \A t \in Nat : t <= now => f[t] = a[t] BY <1>a, <1>d, <2>4
    <3> HIDE DEF f
    <3> QED BY <3>1
  <2>6. g[b] = h[b] /\ c[b] = a[b] BY <1>4, <2>4, <2>5
  <2>7. Balance(k, g, b, c)'
    <3> SUFFICES ASSUME NEW t \in b..(now' - 1)
                 PROVE  /\ t + 1 \in Due(k)' => c[t + 1] = c[t]
                        /\ t + 1 \notin Due(k)' => g[t + 1] + c[t + 1] = g[t] + c[t]
      BY DEF Balance
    <3>0. t \in Nat /\ t <= now /\ b <= t BY <1>a, <1>d, <2>4
    <3>1. CASE t = now
      <4>1. t + 1 \in Due(k)' /\ c[t + 1] = 0 /\ c[t] = 0 BY <1>d, <2>4, <2>5, <3>0, <3>1
      <4> QED BY <4>1
    <3>2. CASE t # now
      <4>1. t + 1 <= now /\ t + 1 \in Nat /\ t \in b..(now - 1) /\ t + 1 # now' BY <1>a, <1>d, <3>0, <3>2
      <4>2. g[t + 1] = h[t + 1] /\ g[t] = h[t] /\ c[t + 1] = a[t + 1] /\ c[t] = a[t]
        BY <1>4, <2>5, <3>0, <4>1
      <4>3. t + 1 \in Due(k)' <=> t + 1 \in Due(k) BY <1>d, <4>1
      <4>4. /\ t + 1 \in Due(k) => a[t + 1] = a[t]
            /\ t + 1 \notin Due(k) => h[t + 1] + a[t + 1] = h[t] + a[t]
        BY <2>3, <4>1 DEF Accounts, Balance
      <4> QED BY <4>2, <4>3, <4>4
    <3> QED BY <3>1, <3>2
  <2>8. Logged(k, b, c)'
    <3> SUFFICES ASSUME NEW t \in b..now', \A d \in cut'[k] : d <= t PROVE c[t] = After(k, t)'
      BY DEF Logged
    <3>0. t \in Nat /\ b <= t BY <1>a, <1>d, <2>4
    <3>1. After(k, t)' = After(k, t) BY DEF After, EntriesAfter, Sends
    <3>2. CASE t <= now
      <4>1. t \in b..now BY <1>a, <2>4, <3>0, <3>2
      <4>2. a[t] = After(k, t) BY <1>h, <2>3, <4>1 DEF Accounts, Logged
      <4> QED BY <2>5, <3>0, <3>1, <3>2, <4>2
    <3>3. CASE t = now'
      <4>1. t >= applied[k] BY <1>a, <1>c, <1>d, <3>3
      <4>2. After(k, t) = 0 BY <1>0, <1>b, <3>0, <4>1, AfterApplied
      <4> QED BY <2>5, <3>1, <3>3, <4>2
    <3> QED BY <1>a, <1>d, <3>0, <3>2, <3>3
  <2>9. Ahead(k, b)' BY <1>d, <1>g, <1>h, <2>3 DEF Accounts, Ahead
  <2>10. OnRecord(k, g, b, c)' BY <1>d, <1>h, <2>3, <2>4, <2>6 DEF Accounts, OnRecord
  <2>11. OnTheWay(k, g, b, c)' BY <1>d, <1>h, <2>3, <2>4, <2>6 DEF Accounts, OnTheWay
  <2>12. Accounts(k, g, b, c)' BY <2>4, <2>5, <2>7, <2>8, <2>9, <2>10, <2>11 DEF Accounts
  <2> QED BY <2>2, <2>12
<1> QED BY <1>1, <1>5, <1>6, <1>7, <1>8 DEF Story, KeyInv

\* A piece of key k is shipped: off the store, off supply, and on the log.
LEMMA ShipKeeps ==
  ASSUME Base, TypeOK', NEW k \in Keys, KeyInv(k), Ship(k)
  PROVE  KeyInv(k)'
<1>0. TypeOK /\ DatesInv /\ OneEach BY DEF Base
<1>a. /\ now \in Nat /\ applied[k] \in Nat /\ lastTx[k] \in Nat /\ stock[k] \in Int /\ supply[k] \in Int
      /\ ctrl[k].tx \in Nat /\ ctrl[k].gen \in Nat /\ cut[k] \subseteq Nat
  BY <1>0, KeyTypes
<1>b. KeyBounds(k) /\ LogInv(k) /\ Behind(k) /\ LinesInv(k) /\ InHandInv(k) BY DEF KeyInv, Facts
<1>c. applied[k] <= now /\ lastTx[k] <= now /\ ctrl[k].tx <= now /\ ctrl[k].gen <= now /\ applied[k] \in 1..now
  BY <1>b DEF KeyBounds
<1> DEFINE e == [key |-> k, qty |-> -1, tx |-> now']
<1>d. /\ now' = now + 1 /\ log' = log \cup {e}
      /\ UNCHANGED <<ctrl, cut, drift, feedQ, failed, loader, chunkQ, deltaQ, delta>>
      /\ stock' = [stock EXCEPT ![k] = @ - 1] /\ lastTx' = [lastTx EXCEPT ![k] = now']
      /\ supply' = [supply EXCEPT ![k] = @ - 1] /\ applied' = [applied EXCEPT ![k] = now']
  BY DEF Ship, Spend, load, sync, server
<1>e. e \in LogEntry /\ e.key = k /\ e.qty = -1 /\ e.tx = now'
  <2>1. now' \in Nat BY <1>a, <1>d
  <2> QED BY <2>1 DEF LogEntry
<1> HIDE DEF e
<1>f. /\ stock'[k] = stock[k] - 1 /\ lastTx'[k] = now' /\ supply'[k] = supply[k] - 1 /\ applied'[k] = now'
      /\ ctrl'[k] = ctrl[k] /\ cut'[k] = cut[k] /\ drift'[k] = drift[k]
  BY <1>d, <1>0 DEF TypeOK, EnvOK, TablesOK, HistoryOK
<1>g. /\ Pending(k)' = Pending(k) /\ Sent(k[2])' = Sent(k[2]) /\ InHand(k[2])' = InHand(k[2])
      /\ InTransit(k)' = InTransit(k) /\ OneSpot(k)' = OneSpot(k)
  BY <1>d, SameViews
<1>h. Due(k)' = Due(k) BY <1>g DEF Due
<1>i. \A q \in Pending(k) : q.tx \in 2..now BY <1>0, PendingFacts
<1>j. \A t \in Due(k) : t \in Nat /\ t <= now BY <1>a, <1>i DEF Due
<1>k. Entries(k)' = Entries(k) \cup {e} /\ \A f \in Entries(k) : f.tx \in Nat /\ f.tx <= applied[k]
  BY <1>0, <1>b, <1>d, <1>e DEF Entries, TypeOK, TablesOK, LogEntry, LogInv
<1>l. e \notin log
  <2>1. e \in log => e \in Entries(k) BY <1>e DEF Entries
  <2> QED BY <1>a, <1>c, <1>d, <1>e, <1>k, <2>1
<1>1. Facts(k)'
  <2>1. KeyBounds(k)' BY <1>a, <1>c, <1>d, <1>f DEF KeyBounds
  <2>2. LogInv(k)'
    <3>1. \A f \in Entries(k) : f.tx <= now' BY <1>a, <1>c, <1>d, <1>k
    <3>2. e.tx \notin Due(k) /\ e.tx <= now' BY <1>a, <1>d, <1>e, <1>j
    <3>3. \A f \in Entries(k) : f.tx \notin Due(k) BY <1>b DEF LogInv
    <3> QED BY <1>f, <1>h, <1>k, <3>1, <3>2, <3>3 DEF LogInv
  <2>3. Behind(k)'
    <3>1. \A q \in Pending(k) : ~(q.tx > now') BY <1>a, <1>d, <1>i
    <3> QED BY <1>f, <1>g, <3>1 DEF Behind
  <2>4. LinesInv(k)'
    <3>1. ASSUME NEW l \in InTransit(k), l.gen # 0 PROVE l.gen <= now'
      <4>1. l.gen \in Nat BY <1>0, TransitType DEF Line
      <4>2. l.gen <= applied[k] BY <1>b, <3>1 DEF LinesInv
      <4> QED BY <1>a, <1>c, <1>d, <4>1, <4>2
    <3> QED BY <1>b, <1>f, <1>g, <3>1 DEF LinesInv
  <2>5. InHandInv(k)'
    <3>1. ASSUME NEW m \in InHand(k[2]) PROVE m.gen <= now'
      <4>1. m.gen \in Nat BY <1>0, SentType DEF Store
      <4>2. m.gen <= applied[k] BY <1>b DEF InHandInv
      <4> QED BY <1>a, <1>c, <1>d, <4>1, <4>2
    <3> QED BY <1>f, <1>g, <3>1 DEF InHandInv
  <2> QED BY <2>1, <2>2, <2>3, <2>4, <2>5 DEF Facts
<1>2. PICK h \in [Nat -> Int] : Story(k, h) BY DEF KeyInv
<1>3. Told(k, h) /\ Still(k, h) /\ FeedInv(k, h) /\ Claim(k, h) BY <1>2 DEF Story
<1>4. PICK g \in [Nat -> Int] : g[now'] = stock[k] - 1 /\ \A t \in Nat : t <= now => g[t] = h[t]
  <2> DEFINE f == [t \in Nat |-> IF t = now + 1 THEN stock[k] - 1 ELSE h[t]]
  <2>1. f \in [Nat -> Int] /\ f[now'] = stock[k] - 1 /\ \A t \in Nat : t <= now => f[t] = h[t]
    BY <1>a, <1>d
  <2> HIDE DEF f
  <2> QED BY <2>1
<1>5. Told(k, g)'
  <2>1. ASSUME NEW q \in Pending(k)
        PROVE  /\ q.gen = q.tx /\ q.tx <= lastTx'[k]
               /\ g[q.tx] = IF q.abs THEN q.qty ELSE g[q.tx - 1] + q.qty
    <3>1. g[q.tx] = h[q.tx] /\ g[q.tx - 1] = h[q.tx - 1] BY <1>4, <1>a, <1>i
    <3>2. q.tx <= now' BY <1>a, <1>d, <1>i
    <3> QED BY <1>3, <1>f, <3>1, <3>2 DEF Told
  <2> QED BY <1>4, <1>f, <1>g, <2>1 DEF Told
<1>6. Still(k, g)'
  <2>1. \A t \in 1..(now' - 1) : ~(t >= applied'[k]) BY <1>a, <1>d, <1>f
  <2> QED BY <2>1 DEF Still
<1>7. FeedInv(k, g)'
  <2> SUFFICES ASSUME NEW m \in Sent(k[2]) \cup InHand(k[2]) PROVE Tells(m, k, g)'
    BY <1>g DEF FeedInv
  <2>1. Tells(m, k, h) BY <1>3 DEF FeedInv
  <2>2. m.gen \in 1..now /\ m.gen \in 1..now' /\ g[m.gen] = h[m.gen] BY <1>4, <1>a, <1>d, <2>1 DEF Tells
  <2> QED BY <1>g, <2>1, <2>2 DEF Tells, FeedItems
<1>8. Claim(k, g)'
  <2> SUFFICES ASSUME ~drift'[k], ~Lost(k)'
               PROVE  OneSpot(k)' /\ \E b \in Nat, a \in [Nat -> Int] : Accounts(k, g, b, a)'
    BY DEF Claim
  <2>1. ~Lost(k)
    <3> SUFFICES ASSUME NEW m \in Sent(k[2]), m.gen <= applied[k] PROVE FALSE BY DEF Lost
    <3>1. ~(m.gen <= now') BY <1>f, <1>g DEF Lost
    <3>2. m.gen \in 1..now BY <1>3 DEF FeedInv, Tells
    <3> QED BY <1>a, <1>d, <3>1, <3>2
  <2>2. ~drift[k] /\ OneSpot(k)' BY <1>3, <1>f, <1>g, <2>1 DEF Claim
  <2>3. PICK b \in Nat, a \in [Nat -> Int] : Accounts(k, h, b, a) BY <1>3, <2>1, <2>2 DEF Claim
  <2>4. a[now] = 0 /\ b \in 1..now /\ b \in 1..now' /\ b <= now BY <1>a, <1>d, <2>3 DEF Accounts
  <2>5. PICK c \in [Nat -> Int] : c[now'] = 0 /\ \A t \in Nat : t <= now => c[t] = a[t] - 1
    <3> DEFINE f == [t \in Nat |-> IF t = now + 1 THEN 0 ELSE a[t] - 1]
    <3>1. f \in [Nat -> Int] /\ f[now'] = 0 /\ \A t \in Nat : t <= now => f[t] = a[t] - 1 BY <1>a, <1>d, <2>4
    <3> HIDE DEF f
    <3> QED BY <3>1
  <2>6. g[b] = h[b] /\ c[b] = a[b] - 1 /\ g[b] \in Int /\ a[b] \in Int BY <1>4, <2>4, <2>5
  <2>7. Balance(k, g, b, c)'
    <3> SUFFICES ASSUME NEW t \in b..(now' - 1)
                 PROVE  /\ t + 1 \in Due(k) => c[t + 1] = c[t]
                        /\ t + 1 \notin Due(k) => g[t + 1] + c[t + 1] = g[t] + c[t]
      BY <1>h DEF Balance
    <3>0. t \in Nat /\ t <= now /\ b <= t BY <1>a, <1>d, <2>4
    <3>1. CASE t = now
      <4>1. t + 1 \notin Due(k) BY <1>a, <1>j, <3>1
      <4>2. g[t + 1] = stock[k] - 1 /\ c[t + 1] = 0 BY <1>4, <1>d, <2>5, <3>1
      <4>3. g[t] = stock[k] /\ c[t] = -1 BY <1>3, <1>4, <1>a, <2>4, <2>5, <3>1 DEF Told
      <4> QED BY <1>a, <4>1, <4>2, <4>3
    <3>2. CASE t # now
      <4>1. t + 1 <= now /\ t + 1 \in Nat /\ t \in b..(now - 1) BY <1>a, <3>0, <3>2
      <4>2. g[t + 1] = h[t + 1] /\ g[t] = h[t] /\ c[t + 1] = a[t + 1] - 1 /\ c[t] = a[t] - 1
        BY <1>4, <2>5, <3>0, <4>1
      <4>3. h[t + 1] \in Int /\ h[t] \in Int /\ a[t + 1] \in Int /\ a[t] \in Int BY <3>0, <4>1
      <4>4. /\ t + 1 \in Due(k) => a[t + 1] = a[t]
            /\ t + 1 \notin Due(k) => h[t + 1] + a[t + 1] = h[t] + a[t]
        BY <2>3, <4>1 DEF Accounts, Balance
      <4> QED BY <4>2, <4>3, <4>4
    <3> QED BY <3>1, <3>2
  <2>8. Logged(k, b, c)'
    <3> SUFFICES ASSUME NEW t \in b..now', \A d \in cut'[k] : d <= t PROVE c[t] = After(k, t)'
      BY DEF Logged
    <3>0. t \in Nat /\ b <= t BY <1>a, <1>d, <2>4
    <3>1. After(k, t)' = After(k, t) + (IF e.tx > t THEN e.qty ELSE 0)
      BY <1>0, <1>d, <1>e, <1>l, <3>0, AfterAdd
    <3>a. After(k, t) \in Int BY <1>0, AfterType
    <3>2. CASE t <= now
      <4>1. t \in b..now /\ e.tx > t BY <1>a, <1>d, <1>e, <2>4, <3>0, <3>2
      <4>2. a[t] = After(k, t) BY <1>f, <2>3, <4>1 DEF Accounts, Logged
      <4>3. After(k, t)' = After(k, t) - 1 BY <1>e, <3>1, <3>a, <4>1
      <4>4. c[t] = a[t] - 1 BY <2>5, <3>0, <3>2
      <4> QED BY <4>2, <4>3, <4>4
    <3>3. CASE t = now'
      <4>1. t >= applied[k] BY <1>a, <1>c, <1>d, <3>3
      <4>2. After(k, t) = 0 BY <1>0, <1>b, <3>0, <4>1, AfterApplied
      <4>3. ~(e.tx > t) BY <1>a, <1>d, <1>e, <3>3
      <4>4. After(k, t)' = 0 BY <3>1, <4>2, <4>3
      <4> QED BY <2>5, <3>3, <4>4
    <3> QED BY <1>a, <1>d, <3>0, <3>2, <3>3
  <2>9. Ahead(k, b)' BY <1>f, <1>g, <2>3 DEF Accounts, Ahead
  <2>10. OnRecord(k, g, b, c)'
    <3>1. InTransit(k) = {} => supply'[k] = g[b] + c[b]
      BY <1>a, <1>f, <2>3, <2>6 DEF Accounts, OnRecord
    <3> QED BY <1>f, <1>g, <2>3, <3>1 DEF Accounts, OnRecord
  <2>11. OnTheWay(k, g, b, c)'
    <3>1. ASSUME NEW l \in InTransit(k) PROVE supply'[k] + l.adj = g[b] + c[b]
      <4>1. l.adj \in Int BY <1>0, TransitType DEF Line
      <4>2. supply[k] + l.adj = h[b] + a[b] BY <2>3 DEF Accounts, OnTheWay
      <4> QED BY <1>a, <1>f, <2>6, <4>1, <4>2
    <3> QED BY <1>g, <2>3, <3>1 DEF Accounts, OnTheWay
  <2>12. Accounts(k, g, b, c)' BY <2>4, <2>5, <2>7, <2>8, <2>9, <2>10, <2>11 DEF Accounts
  <2> QED BY <2>2, <2>12
<1> QED BY <1>1, <1>5, <1>6, <1>7, <1>8 DEF Story, KeyInv

\* The message an instance has worked off or dropped is no longer pending.
LEMMA WorkedOff ==
  ASSUME TypeOK, OneEach, NEW c \in Consumers, Busy(c), UNCHANGED deltaQ, delta' = [delta EXCEPT ![c] = Idle]
  PROVE  /\ \A k : delta[c].msg.key # k => Pending(k)' = Pending(k)
         /\ \A k : delta[c].msg.key = k => /\ delta[c].msg \in Pending(k)
                                           /\ Pending(k)' = Pending(k) \ {delta[c].msg}
<1>1. delta'[c] = Idle /\ \A d \in Consumers \ {c} : delta'[d] = delta[d]
  BY DEF TypeOK, ServerOK
<1>2. ~Busy(c)' /\ \A d \in Consumers \ {c} : Busy(d)' = Busy(d) BY <1>1 DEF Busy, Idle
<1>3. \A m \in deltaQ : m # delta[c].msg BY DEF OneEach
<1>4. \A d \in Consumers \ {c} : Busy(d) => delta[d].msg # delta[c].msg BY DEF OneEach
<1> DEFINE M == delta[c].msg
<1>5. ASSUME NEW k
      PROVE  \A p : p \in Pending(k)' <=> p \in Pending(k) /\ p # M
  <2>1. \A p : p \in Pending(k)' <=>
          (p \in deltaQ /\ p.key = k) \/ \E d \in Consumers \ {c} : Busy(d) /\ p = delta[d].msg /\ p.key = k
    BY <1>1, <1>2 DEF Pending
  <2>2. \A p : p \in Pending(k) <=>
          (p \in deltaQ /\ p.key = k) \/ \E d \in Consumers : Busy(d) /\ p = delta[d].msg /\ p.key = k
    BY DEF Pending
  <2> QED BY <1>3, <1>4, <2>1, <2>2
<1>6. \A k : M.key = k => M \in Pending(k) BY DEF Pending
<1>7. \A k : M.key # k => M \notin Pending(k) BY DEF Pending
<1> HIDE DEF M
<1>8. ASSUME NEW k, M.key # k PROVE Pending(k)' = Pending(k)
  <2>1. \A p : p \in Pending(k)' <=> p \in Pending(k) BY <1>5, <1>7, <1>8
  <2> QED BY <2>1
<1>9. ASSUME NEW k, M.key = k PROVE M \in Pending(k) /\ Pending(k)' = Pending(k) \ {M}
  <2>1. \A p : p \in Pending(k)' <=> p \in Pending(k) /\ p # M BY <1>5
  <2>2. Pending(k)' = Pending(k) \ {M} BY <2>1
  <2> QED BY <1>6, <1>9, <2>2
<1> QED BY <1>8, <1>9 DEF M

\* Message p about key k reaches supply, or is dropped.
Applies(k, p) ==
  /\ now' = now /\ p \in Pending(k) /\ Pending(k)' = Pending(k) \ {p}
  /\ stock'[k] = stock[k] /\ lastTx'[k] = lastTx[k] /\ applied'[k] = Latest(applied[k], p.tx)
  /\ UNCHANGED cut /\ Sent(k[2])' = Sent(k[2]) /\ InHand(k[2])' = InHand(k[2])
  /\ InTransit(k)' = InTransit(k) /\ OneSpot(k)' = OneSpot(k)

LEMMA AppliesFacts ==
  ASSUME Base, NEW k \in Keys, Facts(k), NEW p, Applies(k, p),
         Entries(k)' = Entries(k) \/ \E e : Entries(k)' = Entries(k) \cup {e} /\ e.tx = p.tx,
         ctrl'[k] = ctrl[k] \/ ctrl'[k] = [tx |-> p.tx, gen |-> p.tx]
  PROVE  Facts(k)'
<1>0. TypeOK /\ DatesInv /\ OneEach BY DEF Base
<1>a. /\ now \in Nat /\ applied[k] \in Nat /\ lastTx[k] \in Nat /\ ctrl[k].tx \in Nat /\ ctrl[k].gen \in Nat
  BY <1>0, KeyTypes
<1>b. KeyBounds(k) /\ LogInv(k) /\ Behind(k) /\ LinesInv(k) /\ InHandInv(k) BY DEF Facts
<1>c. applied[k] <= now /\ lastTx[k] <= now /\ ctrl[k].tx <= now /\ ctrl[k].gen <= now /\ applied[k] \in 1..now
  BY <1>b DEF KeyBounds
<1>d. /\ now' = now /\ lastTx'[k] = lastTx[k] /\ p \in Pending(k) /\ Pending(k)' = Pending(k) \ {p}
      /\ InHand(k[2])' = InHand(k[2]) /\ InTransit(k)' = InTransit(k)
  BY DEF Applies
<1>e. \A q \in Pending(k) : q.tx \in 2..now /\ q.tx \in Nat BY <1>0, <1>a, PendingFacts
<1>f. \A q \in Pending(k) : q.tx = p.tx => q = p BY <1>0, <1>d, PendingFacts
<1>g. Due(k)' \subseteq Due(k) /\ p.tx \notin Due(k)' BY <1>d, <1>f DEF Due
<1>h. /\ applied'[k] \in Nat /\ applied'[k] >= applied[k] /\ applied'[k] >= p.tx /\ applied'[k] <= now
      /\ applied'[k] = applied[k] \/ applied'[k] = p.tx
  BY <1>a, <1>c, <1>d, <1>e DEF Applies, Latest
<1>1. KeyBounds(k)'
  <2>1. p.tx \in 2..now /\ p.tx <= now BY <1>a, <1>d, <1>e
  <2>2. ctrl'[k].tx <= now /\ ctrl'[k].gen <= now BY <1>c, <2>1
  <2> QED BY <1>a, <1>c, <1>d, <1>h, <2>2 DEF KeyBounds
<1>2. LogInv(k)'
  <2>1. \A e \in Entries(k)' : e \in Entries(k) \/ e.tx = p.tx OBVIOUS
  <2>2. \A e \in Entries(k) : e.tx \in Nat BY <1>0 DEF Entries, TypeOK, TablesOK, LogEntry
  <2>3. \A e \in Entries(k) : e.tx <= applied'[k] BY <1>a, <1>b, <1>h, <2>2 DEF LogInv
  <2> QED BY <1>b, <1>g, <1>h, <2>1, <2>3 DEF LogInv
<1>3. Behind(k)'
  <2> SUFFICES ASSUME NEW q \in Pending(k)', q.tx > applied'[k] PROVE Below(ctrl'[k], q)
    BY DEF Behind
  <2>1. q \in Pending(k) /\ q.tx \in Nat /\ p.tx \in Nat BY <1>d, <1>e
  <2>2. q.tx > applied[k] /\ q.tx > p.tx /\ p.tx < q.tx BY <1>a, <1>h, <2>1
  <2>3. Below(ctrl[k], q) BY <1>b, <2>1, <2>2 DEF Behind
  <2>4. Below([tx |-> p.tx, gen |-> p.tx], q) BY <2>2 DEF Below
  <2> QED BY <2>3, <2>4
<1>4. LinesInv(k)'
  <2>1. ASSUME NEW l \in InTransit(k), l.gen # 0 PROVE l.gen <= applied'[k]
    <3>1. l.gen \in Nat BY <1>0, TransitType DEF Line
    <3>2. l.gen <= applied[k] BY <1>b, <2>1 DEF LinesInv
    <3> QED BY <1>a, <1>h, <3>1, <3>2
  <2> QED BY <1>b, <1>d, <2>1 DEF LinesInv
<1>5. InHandInv(k)'
  <2>1. ASSUME NEW m \in InHand(k[2]) PROVE m.gen <= applied'[k]
    <3>1. m.gen \in Nat BY <1>0, SentType DEF Store
    <3>2. m.gen <= applied[k] BY <1>b DEF InHandInv
    <3> QED BY <1>a, <1>h, <3>1, <3>2
  <2> QED BY <1>d, <2>1 DEF InHandInv
<1> QED BY <1>1, <1>2, <1>3, <1>4, <1>5 DEF Facts

\* What is known of the store stays known; a snapshot that was not included still is not.
LEMMA AppliesTold ==
  ASSUME Base, NEW k \in Keys, Facts(k), NEW p, Applies(k, p),
         NEW h \in [Nat -> Int], Told(k, h), Still(k, h), FeedInv(k, h)
  PROVE  /\ Told(k, h)' /\ Still(k, h)' /\ FeedInv(k, h)' 
         /\ Lost(k) => Lost(k)'
         /\ \A t \in Nat : t + 1 \in Due(k)' <=> t + 1 \in Due(k) /\ t + 1 # p.tx
<1>0. TypeOK /\ DatesInv /\ OneEach BY DEF Base
<1>a. /\ now \in Nat /\ applied[k] \in Nat BY <1>0, KeyTypes
<1>c. applied[k] \in 1..now BY DEF Facts, KeyBounds
<1>d. /\ now' = now /\ lastTx'[k] = lastTx[k] /\ p \in Pending(k) /\ Pending(k)' = Pending(k) \ {p}
      /\ Sent(k[2])' = Sent(k[2]) /\ InHand(k[2])' = InHand(k[2]) /\ stock'[k] = stock[k]
  BY DEF Applies
<1>e. p.tx \in Nat BY <1>0, <1>a, <1>d, PendingFacts
<1>f. \A q \in Pending(k) : q.tx = p.tx => q = p BY <1>0, <1>d, PendingFacts
<1>g. \A t : t \in Due(k)' <=> t \in Due(k) /\ t # p.tx BY <1>d, <1>f DEF Due
<1>h. /\ applied'[k] \in Nat /\ applied'[k] >= applied[k] /\ applied'[k] >= p.tx
  BY <1>a, <1>e DEF Applies, Latest
<1>1. Told(k, h)' BY <1>d DEF Told
<1>2. Still(k, h)'
  <2> SUFFICES ASSUME NEW t \in 1..(now - 1), t >= applied'[k], t + 1 \notin Due(k)'
               PROVE  h[t + 1] = h[t]
    BY <1>d DEF Still
  <2>1. t >= applied[k] /\ t + 1 # p.tx BY <1>a, <1>e, <1>h
  <2>2. t + 1 \notin Due(k) BY <1>g, <2>1
  <2> QED BY <2>1, <2>2 DEF Still
<1>3. FeedInv(k, h)' BY <1>d DEF FeedInv, Tells, FeedItems
<1>4. Lost(k) => Lost(k)'
  <2> SUFFICES ASSUME NEW m \in Sent(k[2]), m.gen <= applied[k] PROVE m.gen <= applied'[k]
    BY <1>d DEF Lost
  <2>1. m.gen \in Nat BY <1>0, SentType DEF Store
  <2> QED BY <1>a, <1>h, <2>1
<1> QED BY <1>1, <1>2, <1>3, <1>4, <1>g

\* What a message that an instance writes has to do with its key.
LEMMA WritesWhat ==
  ASSUME Base, NEW c \in Consumers, delta[c].st = "write"
  PROVE  /\ Busy(c) /\ delta[c].msg \in Pending(delta[c].msg.key) /\ delta[c].msg.key \in Keys
         /\ delta[c].msg \in DatedDelta /\ delta[c].msg \in Delta /\ delta[c].msg.tx \in Nat
         /\ ctrl[delta[c].msg.key].tx \in Times \cup {0}
         /\ Applicable(delta[c].msg) => ctrl[delta[c].msg.key].tx < delta[c].msg.tx
<1> DEFINE m == delta[c].msg
<1>1. Busy(c) /\ m \in Pending(m.key) BY DEF Busy, Pending
<1>2. m \in DatedDelta BY DEF Base, DatesInv, ServerDated
<1>3. m \in Delta /\ m.tx \in Times BY <1>2 DEF DatedDelta
<1>4. m.key \in Keys /\ m.tx \in Nat BY <1>3 DEF Delta
<1>5. ctrl[m.key].tx \in Times \cup {0} BY <1>4 DEF Base, DatesInv, CtrlDated
<1> HIDE DEF m
<1>6. Applicable(m) => m.tx > ctrl[m.key].tx BY <1>3, <1>5, AppliedIsLater DEF Applicable
<1>7. ctrl[m.key].tx \in Nat BY <1>5 DEF Times
<1>8. Applicable(m) => ctrl[m.key].tx < m.tx BY <1>4, <1>6, <1>7
<1> QED BY <1>1, <1>2, <1>3, <1>4, <1>5, <1>8 DEF m

\* A relative adjustment is applied: what followed it is as it was, what preceded
\* it lacks it no longer.
LEMMA DeltaKeeps ==
  ASSUME Base, TypeOK', NEW c \in Consumers, ApplyDelta(c), NEW k \in Keys, k = delta[c].msg.key, KeyInv(k)
  PROVE  KeyInv(k)'
<1>0. TypeOK /\ DatesInv /\ OneEach /\ ReadInv BY DEF Base
<1>1. PICK p : p = delta[c].msg /\ k = delta[c].msg.key OBVIOUS
<1>2. delta[c].st = "write" /\ ~p.abs BY <1>1 DEF ApplyDelta
<1>3. /\ Busy(c) /\ k \in Keys /\ p \in Pending(k) /\ p.key = k /\ p \in Delta /\ p.tx \in Nat /\ p.qty \in Int
      /\ ctrl[k].tx \in Nat
      /\ Applicable(p) => ctrl[k].tx < p.tx
  <2>1. /\ Busy(c) /\ k \in Keys /\ p \in Pending(k) /\ p.key = k /\ p \in Delta /\ p.tx \in Nat
        /\ Applicable(p) => ctrl[k].tx < p.tx
    BY <1>1, <1>2, WritesWhat
  <2> QED BY <1>0, <2>1, KeyTypes DEF Delta
<1>4. delta[c].qty = p.qty
  <2>1. ReadsRight(c, p, delta[c].qty) BY <1>0, <1>1, <1>2 DEF ReadInv
  <2> QED BY <1>2, <2>1 DEF ReadsRight
<1> DEFINE e == [key |-> k, qty |-> p.qty, tx |-> p.tx]
<1>5. /\ supply' = [supply EXCEPT ![k] = @ + p.qty] /\ log' = log \cup {e}
      /\ drift' = [drift EXCEPT ![k] = \/ @
                                       \/ ~Applicable(p)
                                       \/ \E l \in InTransit(k) : l.gen = 0 \/ l.gen >= p.tx]
      /\ applied' = [applied EXCEPT ![k] = Latest(@, p.tx)] /\ delta' = [delta EXCEPT ![c] = Idle]
      /\ UNCHANGED <<ctrl, cut, now, stock, lastTx, feedQ, failed, loader, chunkQ, deltaQ>>
  BY <1>1, <1>4 DEF ApplyDelta, Written, env, load, sync
<1>6. e \in LogEntry /\ e.key = k /\ e.qty = p.qty /\ e.tx = p.tx BY <1>3 DEF LogEntry
<1> HIDE DEF e
<1>a. now \in Nat /\ applied[k] \in Nat /\ supply[k] \in Int /\ cut[k] \subseteq Nat BY <1>0, <1>3, KeyTypes
<1>7. /\ supply'[k] = supply[k] + p.qty /\ applied'[k] = Latest(applied[k], p.tx)
      /\ ~drift'[k] => /\ ~drift[k] /\ Applicable(p)
                       /\ \A l \in InTransit(k) : l.gen # 0 /\ ~(l.gen >= p.tx)
  BY <1>0, <1>3, <1>5 DEF TypeOK, TablesOK, HistoryOK
<1>8. Pending(k)' = Pending(k) \ {p} BY <1>0, <1>1, <1>3, <1>5, WorkedOff
<1>9. Applies(k, p) BY <1>3, <1>5, <1>7, <1>8, SameViews DEF Applies
<1>10. Facts(k) /\ LogInv(k) /\ KeyBounds(k) BY <1>1 DEF KeyInv, Facts
<1>11. Entries(k)' = Entries(k) \cup {e} BY <1>5, <1>6 DEF Entries
<1>12. Facts(k)'
  <2>1. \E f : Entries(k)' = Entries(k) \cup {f} /\ f.tx = p.tx BY <1>6, <1>11
  <2> QED BY <1>3, <1>5, <1>9, <1>10, <2>1, AppliesFacts
<1>13. PICK h \in [Nat -> Int] : Story(k, h) BY <1>1 DEF KeyInv
<1>14. Told(k, h) /\ Still(k, h) /\ FeedInv(k, h) /\ Claim(k, h) BY <1>13 DEF Story
<1>15. /\ Told(k, h)' /\ Still(k, h)' /\ FeedInv(k, h)' /\ (Lost(k) => Lost(k)')
       /\ \A t \in Nat : t + 1 \in Due(k)' <=> t + 1 \in Due(k) /\ t + 1 # p.tx
  BY <1>3, <1>9, <1>10, <1>14, AppliesTold
<1>16. Claim(k, h)'
  <2> SUFFICES ASSUME ~drift'[k], ~Lost(k)'
               PROVE  OneSpot(k)' /\ \E b \in Nat, a \in [Nat -> Int] : Accounts(k, h, b, a)'
    BY DEF Claim
  <2>1. ~drift[k] /\ ~Lost(k) /\ ctrl[k].tx < p.tx /\ \A l \in InTransit(k) : l.gen # 0 /\ ~(l.gen >= p.tx)
    <3>1. ~drift[k] /\ Applicable(p) /\ \A l \in InTransit(k) : l.gen # 0 /\ ~(l.gen >= p.tx) BY <1>7
    <3>2. ctrl[k].tx < p.tx BY <1>3, <3>1
    <3>3. ~Lost(k) BY <1>15
    <3> QED BY <3>1, <3>2, <3>3
  <2>2. OneSpot(k)' BY <1>9, <1>14, <2>1 DEF Claim, Applies
  <2>3. PICK b \in Nat, a \in [Nat -> Int] : Accounts(k, h, b, a) BY <1>14, <2>1 DEF Claim
  <2>4. a[now] = 0 /\ b \in 1..now BY <2>3 DEF Accounts
  <2>5. b < p.tx
    <3>1. CASE InTransit(k) = {}
      <4>1. p.tx <= b => ctrl[k].tx >= p.tx BY <1>3, <2>3, <3>1 DEF Accounts, OnRecord
      <4> QED BY <1>3, <2>1, <4>1
    <3>2. ASSUME NEW l \in InTransit(k) PROVE b < p.tx
      <4>1. l.gen = b /\ ~(l.gen >= p.tx) BY <2>1, <2>3 DEF Accounts, OnTheWay
      <4>2. ~(b >= p.tx) BY <4>1
      <4> QED BY <1>3, <4>2
    <3> QED BY <3>1, <3>2
  <2>6. PICK g \in [Nat -> Int] : \A t \in Nat : g[t] = a[t] + (IF p.tx > t THEN p.qty ELSE 0)
    <3> DEFINE f == [t \in Nat |-> a[t] + (IF p.tx > t THEN p.qty ELSE 0)]
    <3>1. f \in [Nat -> Int] BY <1>3
    <3>2. \A t \in Nat : f[t] = a[t] + (IF p.tx > t THEN p.qty ELSE 0) OBVIOUS
    <3> HIDE DEF f
    <3> QED BY <3>1, <3>2
  <2>7. g[now] = 0 /\ g[b] = a[b] + p.qty /\ h[b] \in Int /\ a[b] \in Int
    <3>1. p.tx <= now /\ ~(p.tx > now) BY <1>0, <1>3, <1>a, PendingFacts
    <3> QED BY <1>3, <1>a, <2>4, <2>5, <2>6, <3>1
  <2>8. Balance(k, h, b, g)'
    <3> SUFFICES ASSUME NEW t \in b..(now - 1)
                 PROVE  /\ t + 1 \in Due(k)' => g[t + 1] = g[t]
                        /\ t + 1 \notin Due(k)' => h[t + 1] + g[t + 1] = h[t] + g[t]
      BY <1>5 DEF Balance
    <3>1. t \in Nat /\ t + 1 \in Nat BY <1>a
    <3>2. t + 1 \in Due(k)' <=> t + 1 \in Due(k) /\ t + 1 # p.tx BY <1>15, <3>1
    <3>3. /\ t + 1 \in Due(k) => a[t + 1] = a[t]
          /\ t + 1 \notin Due(k) => h[t + 1] + a[t + 1] = h[t] + a[t]
      BY <2>3 DEF Accounts, Balance
    <3>4. h[t + 1] \in Int /\ h[t] \in Int /\ a[t + 1] \in Int /\ a[t] \in Int BY <3>1
    <3>5. CASE t + 1 = p.tx
      <4>1. t + 1 \in Due(k) BY <1>3, <3>5 DEF Due
      <4>2. g[t + 1] = a[t + 1] /\ g[t] = a[t] + p.qty BY <1>3, <2>6, <3>1, <3>4, <3>5
      <4>3. h[t + 1] = h[t] + p.qty
        <5>1. h[p.tx] = h[p.tx - 1] + p.qty BY <1>2, <1>3, <1>14 DEF Told
        <5>2. p.tx - 1 = t BY <3>1, <3>5
        <5> QED BY <3>5, <5>1, <5>2
      <4> QED BY <1>3, <3>2, <3>3, <3>4, <3>5, <4>1, <4>2, <4>3
    <3>6. CASE t + 1 # p.tx
      <4>1. \/ g[t + 1] = a[t + 1] /\ g[t] = a[t]
            \/ g[t + 1] = a[t + 1] + p.qty /\ g[t] = a[t] + p.qty
        <5>1. p.tx > t + 1 <=> p.tx > t BY <1>3, <3>1, <3>6
        <5>2. g[t + 1] = a[t + 1] + (IF p.tx > t + 1 THEN p.qty ELSE 0) BY <2>6, <3>1
        <5>3. g[t] = a[t] + (IF p.tx > t THEN p.qty ELSE 0) BY <2>6, <3>1
        <5>4. CASE p.tx > t BY <5>1, <5>2, <5>3, <5>4
        <5>5. CASE ~(p.tx > t)
          <6>1. g[t + 1] = a[t + 1] + 0 BY <5>1, <5>2, <5>5
          <6>2. g[t] = a[t] + 0 BY <5>3, <5>5
          <6> QED BY <3>4, <6>1, <6>2
        <5> QED BY <5>4, <5>5
      <4>2. t + 1 \in Due(k) => g[t + 1] = g[t] BY <3>3, <4>1
      <4>3. t + 1 \notin Due(k) => h[t + 1] + g[t + 1] = h[t] + g[t] BY <1>3, <3>3, <3>4, <4>1
      <4> QED BY <3>2, <3>6, <4>2, <4>3
    <3> QED BY <3>5, <3>6
  <2>9. Logged(k, b, g)'
    <3> SUFFICES ASSUME NEW t \in b..now, \A d \in cut[k] : d <= t PROVE g[t] = After(k, t)'
      BY <1>5 DEF Logged
    <3>1. t \in Nat BY <1>a
    <3>2. e \notin log
      <4>1. e \in log => e \in Entries(k) BY <1>6 DEF Entries
      <4>2. p.tx \in Due(k) BY <1>3 DEF Due
      <4> QED BY <1>6, <1>10, <4>1, <4>2 DEF LogInv
    <3>3. After(k, t)' = After(k, t) + (IF p.tx > t THEN p.qty ELSE 0)
      BY <1>0, <1>5, <1>6, <3>1, <3>2, AfterAdd
    <3>4. a[t] = After(k, t) BY <2>3 DEF Accounts, Logged
    <3> QED BY <2>6, <3>1, <3>3, <3>4
  <2>10. Ahead(k, b)' BY <1>5, <1>8, <2>3 DEF Accounts, Ahead
  <2>11. InTransit(k)' = InTransit(k) BY <1>9 DEF Applies
  <2>12. OnRecord(k, h, b, g)'
    <3>1. InTransit(k) = {} => supply'[k] = h[b] + g[b]
      <4>1. InTransit(k) = {} => supply[k] = h[b] + a[b] BY <2>3 DEF Accounts, OnRecord
      <4> QED BY <1>3, <1>a, <1>7, <2>7, <4>1
    <3> QED BY <1>5, <1>8, <2>3, <2>11, <3>1 DEF Accounts, OnRecord
  <2>13. OnTheWay(k, h, b, g)'
    <3>1. ASSUME NEW l \in InTransit(k) PROVE supply'[k] + l.adj = h[b] + g[b]
      <4>1. l.adj \in Int BY <1>0, <1>3, TransitType DEF Line
      <4>2. supply[k] + l.adj = h[b] + a[b] BY <2>3 DEF Accounts, OnTheWay
      <4> QED BY <1>3, <1>a, <1>7, <2>7, <4>1, <4>2
    <3> QED BY <1>8, <2>3, <2>11, <3>1 DEF Accounts, OnTheWay
  <2>14. Accounts(k, h, b, g)' BY <1>5, <2>4, <2>7, <2>8, <2>9, <2>10, <2>12, <2>13 DEF Accounts
  <2> QED BY <2>2, <2>14
<1> QED BY <1>12, <1>15, <1>16 DEF Story, KeyInv

\* Where nothing is in transit, the place of the line is no question.
LEMMA NoSpot ==
  ASSUME TypeOK, NEW k \in Keys, InTransit(k) = {}
  PROVE  OneSpot(k)
<1>1. ASSUME NEW t \in Loaders, NEW j \in Nat, LoaderSpot(k, t, j) PROVE FALSE
  <2>1. PICK l : l = loader[t].lines[j] OBVIOUS
  <2>a. \E u \in Loaders : \E i \in Nat : LoaderSpot(k, u, i) /\ l = loader[u].lines[i] BY <1>1, <2>1
  <2>2. l \in InTransit(k) BY <2>a, TransitSpots, Zenon
  <2> QED BY <2>2
<1>2. ASSUME NEW q \in Nat, NEW j \in Nat, ChunkSpot(k, q, j) PROVE FALSE
  <2>1. PICK l : l = chunkQ[q].lines[j] OBVIOUS
  <2>2. l \in InTransit(k) BY <1>2, <2>1, TransitSpots
  <2> QED BY <2>2
<1> QED BY <1>1, <1>2 DEF OneSpot

\* A cycle count is applied: supply is what was counted and what was logged since,
\* and so it is known again what it is based on.
LEMMA CountKeeps ==
  ASSUME Base, TypeOK', NEW c \in Consumers, ApplyCount(c), NEW k \in Keys, k = delta[c].msg.key, KeyInv(k)
  PROVE  KeyInv(k)'
<1>0. TypeOK /\ DatesInv /\ OneEach /\ ReadInv BY DEF Base
<1>1. PICK p : p = delta[c].msg /\ k = delta[c].msg.key OBVIOUS
<1>2. delta[c].st = "write" /\ p.abs BY <1>1 DEF ApplyCount
<1>3. /\ Busy(c) /\ p \in Pending(k) /\ p.key = k /\ p \in Delta /\ p.tx \in Nat /\ p.qty \in Int
      /\ ctrl[k].tx \in Nat
      /\ Applicable(p) => ctrl[k].tx < p.tx
  <2>1. /\ Busy(c) /\ p \in Pending(k) /\ p.key = k /\ p \in Delta /\ p.tx \in Nat
        /\ Applicable(p) => ctrl[k].tx < p.tx
    BY <1>1, <1>2, WritesWhat
  <2> QED BY <1>0, <2>1, KeyTypes DEF Delta
<1>4. c \notin raced => Applicable(p) BY <1>0, <1>1, <1>2 DEF DatesInv, Fresh
<1>5. /\ ctrl' = [ctrl EXCEPT ![k] = [tx |-> p.tx, gen |-> p.gen]]
      /\ supply' = [supply EXCEPT ![k] = delta[c].qty]
      /\ drift' = [drift EXCEPT ![k] = \/ c \in raced
                                       \/ InTransit(k) # {}
                                       \/ \E d \in cut[k] : d > p.tx
                                       \/ applied[k] > p.tx /\ @]
      /\ applied' = [applied EXCEPT ![k] = Latest(@, p.tx)] /\ delta' = [delta EXCEPT ![c] = Idle]
      /\ UNCHANGED <<log, cut, now, stock, lastTx, feedQ, failed, loader, chunkQ, deltaQ>>
  BY <1>1 DEF ApplyCount, Written, env, load, sync
<1>a. now \in Nat /\ applied[k] \in Nat /\ supply[k] \in Int /\ cut[k] \subseteq Nat BY <1>0, KeyTypes
<1>6. /\ supply'[k] = delta[c].qty /\ applied'[k] = Latest(applied[k], p.tx)
      /\ ctrl'[k] = [tx |-> p.tx, gen |-> p.gen]
      /\ ~drift'[k] => /\ c \notin raced /\ InTransit(k) = {}
                       /\ \A d \in cut[k] : ~(d > p.tx)
                       /\ ~(applied[k] > p.tx /\ drift[k])
  BY <1>0, <1>5 DEF TypeOK, TablesOK, HistoryOK
<1>7. Pending(k)' = Pending(k) \ {p} BY <1>0, <1>1, <1>3, <1>5, WorkedOff
<1>8. Applies(k, p) BY <1>3, <1>5, <1>6, <1>7, SameViews DEF Applies
<1>9. Facts(k) /\ LogInv(k) /\ KeyBounds(k) BY DEF KeyInv, Facts
<1>10. PICK h \in [Nat -> Int] : Story(k, h) BY DEF KeyInv
<1>11. Told(k, h) /\ Still(k, h) /\ FeedInv(k, h) /\ Claim(k, h) BY <1>10 DEF Story
<1>12. p.gen = p.tx /\ h[p.tx] = p.qty BY <1>2, <1>3, <1>11 DEF Told
<1>13. ctrl'[k] = [tx |-> p.tx, gen |-> p.tx] BY <1>6, <1>12
<1>14. Facts(k)'
  <2>1. Entries(k)' = Entries(k) BY <1>5 DEF Entries
  <2> QED BY <1>8, <1>9, <1>13, <2>1, AppliesFacts
<1>15. /\ Told(k, h)' /\ Still(k, h)' /\ FeedInv(k, h)' /\ (Lost(k) => Lost(k)')
       /\ \A t \in Nat : t + 1 \in Due(k)' <=> t + 1 \in Due(k) /\ t + 1 # p.tx
  BY <1>8, <1>9, <1>11, AppliesTold
<1>16. Claim(k, h)'
  <2> SUFFICES ASSUME ~drift'[k], ~Lost(k)'
               PROVE  OneSpot(k)' /\ \E b \in Nat, a \in [Nat -> Int] : Accounts(k, h, b, a)'
    BY DEF Claim
  <2>1. /\ c \notin raced /\ InTransit(k) = {} /\ \A d \in cut[k] : ~(d > p.tx)
        /\ ~(applied[k] > p.tx /\ drift[k])
    BY <1>6
  <2>2. ~Lost(k) BY <1>15
  <2>3. ctrl[k].tx < p.tx BY <1>3, <1>4, <2>1
  <2>4. OneSpot(k)' BY <1>0, <1>8, <2>1, NoSpot DEF Applies
  <2>5. \A d \in cut[k] : d <= p.tx BY <1>3, <1>a, <2>1
  <2>6. supply'[k] = p.qty + After(k, p.tx)
    <3>1. ReadsRight(c, p, delta[c].qty) BY <1>0, <1>1, <1>2 DEF ReadInv
    <3> QED BY <1>2, <1>3, <1>6, <2>1, <2>5, <3>1 DEF ReadsRight
  <2>7. p.tx \in 1..now
    <3>1. p.tx \in 2..now BY <1>0, <1>3, PendingFacts
    <3> QED BY <1>a, <3>1
  <2>8. \A t : After(k, t)' = After(k, t) BY <1>5 DEF After, EntriesAfter
  <2>a. After(k, p.tx) \in Int BY <1>0, AfterType
  \* What the count can be accounted for with.
  <2>9. ASSUME NEW a \in [Nat -> Int], a[now] = 0, a[p.tx] = After(k, p.tx),
               \A t \in p.tx..(now - 1) : t + 1 # p.tx =>
                 /\ t + 1 \in Due(k) => a[t + 1] = a[t]
                 /\ t + 1 \notin Due(k) => h[t + 1] + a[t + 1] = h[t] + a[t],
               \A t \in p.tx..now : (\A d \in cut[k] : d <= t) => a[t] = After(k, t)
        PROVE  Accounts(k, h, p.tx, a)'
    <3>1. Balance(k, h, p.tx, a)'
      <4> SUFFICES ASSUME NEW t \in p.tx..(now - 1)
                   PROVE  /\ t + 1 \in Due(k)' => a[t + 1] = a[t]
                          /\ t + 1 \notin Due(k)' => h[t + 1] + a[t + 1] = h[t] + a[t]
        BY <1>5 DEF Balance
      <4>1. t \in Nat /\ t + 1 # p.tx BY <1>3, <1>a
      <4> QED BY <1>15, <2>9, <4>1
    <3>2. Logged(k, p.tx, a)' BY <1>5, <2>8, <2>9 DEF Logged
    <3>3. Ahead(k, p.tx)'
      <4> SUFFICES ASSUME NEW q \in Pending(k)', q.tx > p.tx PROVE Below(ctrl'[k], q) BY DEF Ahead
      <4>1. q.tx \in Nat BY <1>0, <1>7, <1>a, PendingFacts
      <4> QED BY <1>3, <1>13, <4>1 DEF Below
    <3>4. OnRecord(k, h, p.tx, a)'
      <4>1. \A q \in Pending(k)' : q.tx <= p.tx => ctrl'[k].tx >= q.tx
        <5>1. \A q \in Pending(k)' : q.tx \in Nat BY <1>0, <1>7, <1>a, PendingFacts
        <5> QED BY <1>3, <1>13, <5>1
      <4>2. supply'[k] = h[p.tx] + a[p.tx] BY <1>12, <2>6, <2>9
      <4> QED BY <4>1, <4>2 DEF OnRecord
    <3>5. OnTheWay(k, h, p.tx, a)' BY <1>8, <2>1 DEF OnTheWay, Applies
    <3> QED BY <1>5, <2>7, <2>9, <3>1, <3>2, <3>3, <3>4, <3>5 DEF Accounts
  <2>10. CASE applied[k] <= p.tx
    <3>1. PICK z \in [Nat -> Int] : \A t \in Nat : z[t] = 0
      <4> DEFINE f == [t \in Nat |-> 0]
      <4>1. f \in [Nat -> Int] /\ \A t \in Nat : f[t] = 0 OBVIOUS
      <4> HIDE DEF f
      <4> QED BY <4>1
    <3>2. \A t \in Nat : t >= p.tx => After(k, t) = 0
      <4> SUFFICES ASSUME NEW t \in Nat, t >= p.tx PROVE After(k, t) = 0 OBVIOUS
      <4>1. t >= applied[k] BY <1>3, <1>a, <2>10
      <4> QED BY <1>0, <1>9, <4>1, AfterApplied
    <3>3. ASSUME NEW t \in p.tx..(now - 1), t + 1 \notin Due(k) PROVE h[t + 1] = h[t]
      <4>1. t \in 1..(now - 1) /\ t >= applied[k] BY <1>3, <1>a, <2>7, <2>10
      <4> QED BY <1>11, <3>3, <4>1 DEF Still
    <3>4. \A t \in p.tx..(now - 1) : t \in Nat /\ t + 1 \in Nat /\ z[t] = 0 /\ z[t + 1] = 0
      BY <1>3, <1>a, <3>1
    <3>5. \A t \in p.tx..now : t \in Nat /\ z[t] = After(k, t) BY <1>3, <1>a, <3>1, <3>2
    <3>6. z[now] = 0 /\ z[p.tx] = After(k, p.tx) BY <1>3, <1>a, <3>1, <3>2
    <3>7. Accounts(k, h, p.tx, z)' BY <2>9, <3>3, <3>4, <3>5, <3>6
    <3> QED BY <1>3, <2>4, <3>7
  <2>11. CASE ~(applied[k] <= p.tx)
    <3>1. ~drift[k] BY <1>3, <1>a, <2>1, <2>11
    <3>2. PICK b \in Nat, a \in [Nat -> Int] : Accounts(k, h, b, a) BY <1>11, <2>2, <3>1 DEF Claim
    <3>3. a[now] = 0 /\ b \in 1..now BY <3>2 DEF Accounts
    <3>4. b < p.tx
      <4>1. p.tx <= b => ctrl[k].tx >= p.tx BY <1>3, <2>1, <3>2 DEF Accounts, OnRecord
      <4> QED BY <1>3, <2>3, <4>1
    <3>5. p.tx..(now - 1) \subseteq b..(now - 1) /\ p.tx..now \subseteq b..now /\ p.tx \in b..now
      BY <1>3, <1>a, <2>7, <3>4
    <3>6. a[p.tx] = After(k, p.tx) BY <2>5, <3>2, <3>5 DEF Accounts, Logged
    <3>7. \A t \in p.tx..(now - 1) : t + 1 # p.tx =>
            /\ t + 1 \in Due(k) => a[t + 1] = a[t]
            /\ t + 1 \notin Due(k) => h[t + 1] + a[t + 1] = h[t] + a[t]
      BY <3>2, <3>5 DEF Accounts, Balance
    <3>8. \A t \in p.tx..now : (\A d \in cut[k] : d <= t) => a[t] = After(k, t)
      BY <3>2, <3>5 DEF Accounts, Logged
    <3>9. Accounts(k, h, p.tx, a)' BY <2>9, <3>3, <3>6, <3>7, <3>8
    <3> QED BY <1>3, <2>4, <3>9
  <2> QED BY <2>10, <2>11
<1> QED BY <1>14, <1>15, <1>16 DEF Story, KeyInv

\* The lines in transit, before a step and after it.
LEMMA TransitMeans ==
  ASSUME NEW k, NEW l
  PROVE  /\ l \in InTransit(k) <=>
              \/ \E t \in Loaders : /\ loader[t].st = "store" /\ loader[t].msg.node = k[2]
                                    /\ l \in LinesOf(k, loader[t].lines)
              \/ \E c \in Elems(chunkQ) : c.node = k[2] /\ l \in LinesOf(k, c.lines)
         /\ l \in InTransit(k)' <=>
              \/ \E t \in Loaders : /\ loader'[t].st = "store" /\ loader'[t].msg.node = k[2]
                                    /\ l \in LinesOf(k, loader'[t].lines)
              \/ \E c \in Elems(chunkQ') : c.node = k[2] /\ l \in LinesOf(k, c.lines)
<1>1. l \in InTransit(k) <=>
        \/ \E t \in Loaders : /\ loader[t].st = "store" /\ loader[t].msg.node = k[2]
                              /\ l \in LinesOf(k, loader[t].lines)
        \/ \E c \in Elems(chunkQ) : c.node = k[2] /\ l \in LinesOf(k, c.lines)
  <2> DEFINE A == UNION {LinesOf(k, loader[t].lines) :
                     t \in {u \in Loaders : loader[u].st = "store" /\ loader[u].msg.node = k[2]}}
             B == UNION {LinesOf(k, c.lines) : c \in {d \in Elems(chunkQ) : d.node = k[2]}}
  <2>1. InTransit(k) = A \cup B BY Zenon DEF InTransit
  <2>2. l \in A <=> \E t \in Loaders : /\ loader[t].st = "store" /\ loader[t].msg.node = k[2]
                                       /\ l \in LinesOf(k, loader[t].lines)
    OBVIOUS
  <2>3. l \in B <=> \E c \in Elems(chunkQ) : c.node = k[2] /\ l \in LinesOf(k, c.lines)
    OBVIOUS
  <2> HIDE DEF A, B
  <2> QED BY <2>1, <2>2, <2>3
<1>2. l \in InTransit(k)' <=>
        \/ \E t \in Loaders : /\ loader'[t].st = "store" /\ loader'[t].msg.node = k[2]
                              /\ l \in LinesOf(k, loader'[t].lines)
        \/ \E c \in Elems(chunkQ') : c.node = k[2] /\ l \in LinesOf(k, c.lines)
  <2> DEFINE A == UNION {LinesOf(k, loader'[t].lines) :
                     t \in {u \in Loaders : loader'[u].st = "store" /\ loader'[u].msg.node = k[2]}}
             B == UNION {LinesOf(k, c.lines) : c \in {d \in Elems(chunkQ') : d.node = k[2]}}
  <2>1. InTransit(k)' = A \cup B BY Zenon DEF InTransit, Elems
  <2>2. l \in A <=> \E t \in Loaders : /\ loader'[t].st = "store" /\ loader'[t].msg.node = k[2]
                                       /\ l \in LinesOf(k, loader'[t].lines)
    OBVIOUS
  <2>3. l \in B <=> \E c \in Elems(chunkQ') : c.node = k[2] /\ l \in LinesOf(k, c.lines)
    OBVIOUS
  <2> HIDE DEF A, B
  <2> QED BY <2>1, <2>2, <2>3
<1> QED BY <1>1, <1>2

LEMMA CompareMakes ==
  ASSUME NEW t \in Loaders, GetMismatch(t), NEW m, m = Head(feedQ)
  PROVE  \E extra \in Orders(Items \ FeedItems(m)) :
           loader' = [loader EXCEPT ![t] = [st |-> "store", msg |-> m, lines |-> MismatchLines(m, extra)]]
<1>1. PICK extra \in Orders(Items \ FeedItems(Head(feedQ))) :
        loader' = [loader EXCEPT ![t] = [st |-> "store", msg |-> Head(feedQ),
                                         lines |-> MismatchLines(Head(feedQ), extra)]]
  BY DEF GetMismatch, MismatchLines
<1> QED BY <1>1

\* What a comparison does to the messages and the threads.
LEMMA CompareWhat ==
  ASSUME TypeOK, NEW t \in Loaders, GetMismatch(t), NEW m, m = Head(feedQ)
  PROVE  /\ m \in Store /\ m.type = "STORE" /\ Elems(feedQ) = {m} \cup Elems(feedQ')
         /\ loader[t].st = "idle"
         /\ \A u \in Loaders \ {t} : loader'[u] = loader[u]
         /\ loader'[t].st = "store" /\ loader'[t].msg = m
         /\ UNCHANGED <<now, stock, lastTx, failed, chunkQ, ctrl, log, supply, deltaQ, delta, cut>>
         /\ \A k \in Keys : k[2] = m.node =>
              /\ drift'[k] = (applied[k] > m.gen \/ InTransit(k) # {})
              /\ applied'[k] = Latest(applied[k], m.gen)
         /\ \A k \in Keys : k[2] # m.node => drift'[k] = drift[k] /\ applied'[k] = applied[k]
<1>1. Receive(t, "STORE") BY DEF GetMismatch
<1>2. m \in Store /\ m.type = "STORE"
  <2>1. LoadOK BY DEF TypeOK
  <2> QED BY <1>1, <2>1, ReceiveType DEF Receive
<1>3. Elems(feedQ) = {m} \cup Elems(feedQ')
  <2>1. feedQ \in Seq(Store \cup Mark) BY DEF TypeOK, LoadOK
  <2> QED BY <1>1, <2>1, ElemsTail DEF Receive
<1>4. PICK extra \in Orders(Items \ FeedItems(m)) :
        loader' = [loader EXCEPT ![t] = [st |-> "store", msg |-> m, lines |-> MismatchLines(m, extra)]]
  BY CompareMakes
<1>5. loader \in [Loaders -> LoaderState] BY DEF TypeOK, LoadOK
<1>6. loader'[t] = [st |-> "store", msg |-> m, lines |-> MismatchLines(m, extra)]
      /\ \A u \in Loaders \ {t} : loader'[u] = loader[u]
  BY <1>4, <1>5
<1>7. UNCHANGED <<now, stock, lastTx, failed, chunkQ, ctrl, log, supply, deltaQ, delta, cut>>
  BY DEF GetMismatch, env, sync, tables, server
<1>8. \A k \in Keys : k[2] = m.node =>
              /\ drift'[k] = (applied[k] > m.gen \/ InTransit(k) # {})
              /\ applied'[k] = Latest(applied[k], m.gen)
  BY DEF GetMismatch
<1>9. \A k \in Keys : k[2] # m.node => drift'[k] = drift[k] /\ applied'[k] = applied[k]
  BY DEF GetMismatch
<1>10. loader[t].st = "idle" BY <1>1 DEF Receive
<1>11. loader'[t].st = "store" /\ loader'[t].msg = m BY <1>6
<1> QED BY <1>2, <1>3, <1>6, <1>7, <1>8, <1>9, <1>10, <1>11, Zenon

\* The messages that wait and those in hand.
LEMMA CompareMoves ==
  ASSUME TypeOK, NEW t \in Loaders, GetMismatch(t), NEW m, m = Head(feedQ), NEW n
  PROVE  /\ Sent(n)' \subseteq Sent(n) /\ Sent(n) \subseteq Sent(n)' \cup {m}
         /\ m.node = n => m \in Sent(n)
         /\ m.node # n => Sent(n)' = Sent(n) /\ InHand(n)' = InHand(n)
         /\ InHand(n)' \subseteq InHand(n) \cup {m} /\ InHand(n) \subseteq InHand(n)'
<1>1. /\ m.type = "STORE" /\ Elems(feedQ) = {m} \cup Elems(feedQ') /\ failed' = failed
      /\ loader[t].st = "idle" /\ loader'[t].st = "store" /\ loader'[t].msg = m
      /\ \A u \in Loaders \ {t} : loader'[u] = loader[u]
  BY CompareWhat
<1>2. \A x : x \in Sent(n)' <=> x.node = n /\ (x \in failed \/ (x \in Elems(feedQ') /\ x.type = "STORE"))
  BY <1>1 DEF Sent, Elems
<1>3. \A x : x \in Sent(n) <=> x.node = n /\ (x \in failed \/ (x \in Elems(feedQ) /\ x.type = "STORE"))
  BY DEF Sent
<1>4. Sent(n)' \subseteq Sent(n) /\ Sent(n) \subseteq Sent(n)' \cup {m} /\ (m.node = n => m \in Sent(n))
  BY <1>1, <1>2, <1>3
<1>5. m.node # n => Sent(n)' = Sent(n)
  <2>1. m.node # n => \A x : x \in Sent(n)' <=> x \in Sent(n) BY <1>1, <1>2, <1>3
  <2> QED BY <2>1
<1>6. \A x : x \in InHand(n)' <=> \E u \in Loaders : /\ loader'[u].st = "store" /\ loader'[u].msg.node = n
                                                     /\ x = loader'[u].msg
  BY DEF InHand
<1>7. \A x : x \in InHand(n) <=> \E u \in Loaders : /\ loader[u].st = "store" /\ loader[u].msg.node = n
                                                    /\ x = loader[u].msg
  BY DEF InHand
<1>8. InHand(n)' \subseteq InHand(n) \cup {m} /\ InHand(n) \subseteq InHand(n)'
  BY <1>1, <1>6, <1>7
<1>9. m.node # n => InHand(n)' = InHand(n)
  <2>1. m.node # n => \A x : x \in InHand(n)' <=> x \in InHand(n) BY <1>1, <1>6, <1>7
  <2> QED BY <2>1
<1> QED BY <1>4, <1>5, <1>8, <1>9

LEMMA CompareLines ==
  ASSUME TypeOK, NEW t \in Loaders, GetMismatch(t), NEW m, m = Head(feedQ), NEW k \in Keys
  PROVE  /\ m.node # k[2] => InTransit(k)' = InTransit(k) /\ OneSpot(k)' = OneSpot(k)
         /\ \A l \in InTransit(k)' : l \in InTransit(k) \/ (m.node = k[2] /\ l \in LinesOf(k, loader'[t].lines))
<1>1. /\ chunkQ' = chunkQ
      /\ loader[t].st = "idle" /\ loader'[t].st = "store" /\ loader'[t].msg = m
      /\ \A u \in Loaders \ {t} : loader'[u] = loader[u]
  BY CompareWhat
<1>2. ASSUME NEW l
      PROVE  l \in InTransit(k)' <=> l \in InTransit(k) \/ (m.node = k[2] /\ l \in LinesOf(k, loader'[t].lines))
  BY <1>1, TransitMeans
<1>3. m.node # k[2] => InTransit(k)' = InTransit(k)
  <2>1. m.node # k[2] => \A l : l \in InTransit(k)' <=> l \in InTransit(k) BY <1>2
  <2> QED BY <2>1
<1>4. m.node # k[2] => OneSpot(k)' = OneSpot(k)
  <2>1. m.node # k[2] => \A u \in Loaders, j \in Nat : LoaderSpot(k, u, j)' <=> LoaderSpot(k, u, j)
    BY <1>1 DEF LoaderSpot
  <2>2. \A q, j \in Nat : ChunkSpot(k, q, j)' <=> ChunkSpot(k, q, j) BY <1>1 DEF ChunkSpot
  <2> QED BY <2>1, <2>2 DEF OneSpot
<1> QED BY <1>2, <1>3, <1>4

\* A store message lists an item at most once.
ListsOnce(m) == \A i, j \in DOMAIN m.lines : m.lines[i].item = m.lines[j].item => i = j

\* A comparison that no change has overtaken, with no line of the store's item on
\* the way, makes the one line that takes supply to the snapshot.
LEMMA CompareSpot ==
  ASSUME TypeOK, NEW t \in Loaders, GetMismatch(t), NEW m, m = Head(feedQ), NEW k \in Keys, m.node = k[2],
         ListsOnce(m)
  PROVE  /\ \A l \in LinesOf(k, loader'[t].lines) :
              \/ k[1] \in FeedItems(m) /\ \E i \in DOMAIN m.lines : /\ m.lines[i].item = k[1]
                                                                    /\ l = FeedLine(m, m.lines[i])
              \/ k[1] \notin FeedItems(m) /\ l = ExtraLine(k[1], m.node)
         /\ InTransit(k)' # {}
         /\ InTransit(k) = {} => OneSpot(k)'
<1>1. /\ m \in Store /\ chunkQ' = chunkQ
      /\ loader[t].st = "idle" /\ loader'[t].st = "store" /\ loader'[t].msg = m
      /\ \A u \in Loaders \ {t} : loader'[u] = loader[u]
  BY CompareWhat
<1>2. PICK extra \in Orders(Items \ FeedItems(m)) :
        loader' = [loader EXCEPT ![t] = [st |-> "store", msg |-> m, lines |-> MismatchLines(m, extra)]]
  BY CompareMakes
<1>3. PICK L : L = MismatchLines(m, extra) /\ loader'[t].lines = L
  BY <1>2 DEF TypeOK, LoadOK
<1>4. k[1] \in Items BY DEF Keys
<1>5. TablesOK BY DEF TypeOK
<1>6. /\ \E j \in DOMAIN L : L[j].item = k[1]
      /\ \A i, j \in DOMAIN L : L[i].item = k[1] /\ L[j].item = k[1] => i = j
      /\ \A j \in DOMAIN L : L[j].item = k[1] =>
           \/ k[1] \in FeedItems(m) /\ \E i \in DOMAIN m.lines : /\ m.lines[i].item = k[1]
                                                                 /\ L[j] = FeedLine(m, m.lines[i])
           \/ k[1] \notin FeedItems(m) /\ L[j] = ExtraLine(k[1], m.node)
  BY <1>1, <1>3, <1>4, <1>5, OneLineEach DEF ListsOnce
<1>7. \A l : l \in LinesOf(k, L) <=> \E j \in DOMAIN L : l = L[j] /\ L[j].item = k[1]
  BY DEF LinesOf, Elems
<1>8. PICK j0 \in DOMAIN L : L[j0].item = k[1] BY <1>6
<1>9. InTransit(k)' # {}
  <2>1. L[j0] \in LinesOf(k, L) BY <1>7, <1>8
  <2>2. L[j0] \in InTransit(k)' BY <1>1, <1>3, <2>1, TransitMeans
  <2> QED BY <2>2
<1>10. ASSUME InTransit(k) = {} PROVE OneSpot(k)'
  <2>1. ASSUME NEW u \in Loaders, NEW i \in Nat, LoaderSpot(k, u, i)' 
        PROVE  u = t /\ i \in DOMAIN L /\ L[i].item = k[1]
    <3>1. CASE u = t BY <1>3, <2>1, <3>1 DEF LoaderSpot
    <3>2. CASE u # t
      <4>1. LoaderSpot(k, u, i) BY <1>1, <2>1, <3>2 DEF LoaderSpot
      <4>2. loader[u].lines[i] \in LinesOf(k, loader[u].lines) BY <4>1 DEF LoaderSpot, LinesOf, Elems
      <4>3. loader[u].lines[i] \in InTransit(k) BY <4>1, <4>2, TransitMeans DEF LoaderSpot
      <4> QED BY <1>10, <4>3
    <3> QED BY <3>1, <3>2
  <2>2. ASSUME NEW q \in Nat, NEW i \in Nat, ChunkSpot(k, q, i)' PROVE FALSE
    <3>1. ChunkSpot(k, q, i) BY <1>1, <2>2 DEF ChunkSpot
    <3>2. chunkQ[q] \in Elems(chunkQ) /\ chunkQ[q].node = k[2]
          /\ chunkQ[q].lines[i] \in LinesOf(k, chunkQ[q].lines)
      BY <3>1 DEF ChunkSpot, LinesOf, Elems
    <3>3. chunkQ[q].lines[i] \in InTransit(k) BY <3>2, TransitMeans
    <3> QED BY <1>10, <3>3
  <2>3. \A u, v \in Loaders : \A i, j \in Nat : LoaderSpot(k, u, i)' /\ LoaderSpot(k, v, j)' => u = v /\ i = j
    BY <1>6, <2>1
  <2> QED BY <2>2, <2>3 DEF OneSpot
<1>11. \A l \in LinesOf(k, L) :
              \/ k[1] \in FeedItems(m) /\ \E i \in DOMAIN m.lines : /\ m.lines[i].item = k[1]
                                                                    /\ l = FeedLine(m, m.lines[i])
              \/ k[1] \notin FeedItems(m) /\ l = ExtraLine(k[1], m.node)
  BY <1>6, <1>7
<1> QED BY <1>3, <1>9, <1>10, <1>11

\* A store message is compared with supply.
LEMMA CompareKeeps ==
  ASSUME Base, NEW t \in Loaders, GetMismatch(t), NEW k \in Keys, Head(feedQ).node = k[2], KeyInv(k)
  PROVE  KeyInv(k)'
<1>0. TypeOK /\ DatesInv /\ OneEach BY DEF Base
<1>1. PICK m : m = Head(feedQ) OBVIOUS
<1>2. /\ m \in Store /\ m.node = k[2] /\ m.gen \in Nat
      /\ UNCHANGED <<now, stock, lastTx, ctrl, log, supply, deltaQ, delta, cut>>
      /\ applied'[k] = Latest(applied[k], m.gen)
      /\ ~drift'[k] => ~(applied[k] > m.gen) /\ InTransit(k) = {}
  <2>1. m \in Store /\ m.node = k[2] BY <1>0, <1>1, CompareWhat
  <2>2. drift'[k] = (applied[k] > m.gen \/ InTransit(k) # {}) /\ applied'[k] = Latest(applied[k], m.gen)
    BY <1>0, <1>1, <2>1, CompareWhat
  <2>3. UNCHANGED <<now, stock, lastTx, ctrl, log, supply, deltaQ, delta, cut>>
    BY <1>0, <1>1, CompareWhat
  <2>4. m.gen \in Nat BY <2>1 DEF Store
  <2> QED BY <2>1, <2>2, <2>3, <2>4
<1>3. /\ Sent(k[2])' \subseteq Sent(k[2]) /\ m \in Sent(k[2])
      /\ InHand(k[2])' \subseteq InHand(k[2]) \cup {m}
      /\ Sent(k[2]) \subseteq Sent(k[2])' \cup {m}
  BY <1>0, <1>1, <1>2, CompareMoves
<1>4. \A l \in InTransit(k)' : l \in InTransit(k) \/ l \in LinesOf(k, loader'[t].lines)
  BY <1>0, <1>1, <1>2, CompareLines
<1>5. Pending(k)' = Pending(k) /\ Due(k)' = Due(k) /\ Entries(k)' = Entries(k) /\ \A x : After(k, x)' = After(k, x)
  <2>1. Pending(k)' = Pending(k) BY <1>2, SameViews
  <2> QED BY <1>2, <2>1 DEF Due, Entries, After, EntriesAfter
<1>a. /\ now \in Nat /\ applied[k] \in Nat /\ supply[k] \in Int
      /\ applied'[k] \in Nat /\ applied'[k] >= applied[k] /\ applied'[k] >= m.gen
      /\ (applied'[k] = applied[k] \/ applied'[k] = m.gen)
  <2>1. now \in Nat /\ applied[k] \in Nat /\ supply[k] \in Int BY <1>0, KeyTypes
  <2> QED BY <1>2, <2>1 DEF Latest
<1>b. KeyBounds(k) /\ LogInv(k) /\ Behind(k) /\ LinesInv(k) /\ InHandInv(k) BY DEF KeyInv, Facts
<1>6. PICK h \in [Nat -> Int] : Story(k, h) BY DEF KeyInv
<1>7. Told(k, h) /\ Still(k, h) /\ FeedInv(k, h) /\ Claim(k, h) BY <1>6 DEF Story
<1>8. Tells(m, k, h) /\ m.gen \in 1..now BY <1>3, <1>7 DEF FeedInv, Tells
<1>9. ListsOnce(m) BY <1>8 DEF Tells, ListsOnce
<1>10. /\ \A l \in LinesOf(k, loader'[t].lines) :
              \/ k[1] \in FeedItems(m) /\ \E i \in DOMAIN m.lines : /\ m.lines[i].item = k[1]
                                                                    /\ l = FeedLine(m, m.lines[i])
              \/ k[1] \notin FeedItems(m) /\ l = ExtraLine(k[1], m.node)
       /\ InTransit(k)' # {}
       /\ InTransit(k) = {} => OneSpot(k)'
  BY <1>0, <1>1, <1>2, <1>9, CompareSpot
<1>11. k = <<k[1], m.node>> BY <1>2 DEF Keys
<1>12. \A i \in DOMAIN m.lines : m.lines[i].qty \in Int /\ m.lines[i].tx \in Nat
  <2> DEFINE row == [item : Items, qty : Int, tx : Nat]
  <2>1. m.lines \in Seq(row) BY <1>2 DEF Store
  <2>2. \A r \in row : r.qty \in Int /\ r.tx \in Nat OBVIOUS
  <2> HIDE DEF row
  <2>3. \A i \in DOMAIN m.lines : m.lines[i] \in row BY <2>1
  <2> QED BY <2>2, <2>3
<1>13. \A q \in Pending(k) : q.tx \in Nat BY <1>0, <1>a, PendingFacts
<1>14. ASSUME NEW l \in LinesOf(k, loader'[t].lines)
       PROVE  /\ ~l.hasQty => l.adj = 0
              /\ l.gen # 0 => /\ l.gen = m.gen /\ l.tx <= l.gen
                              /\ \A q \in Pending(k) : q.tx <= l.gen => q.tx <= l.tx
              /\ l.gen = 0 => \A q \in Pending(k) : q.tx > m.gen
              /\ supply[k] + l.adj = h[m.gen]
              /\ l.gen \in {0, m.gen}
  <2>1. ASSUME NEW i \in DOMAIN m.lines, m.lines[i].item = k[1], k[1] \in FeedItems(m),
               l = FeedLine(m, m.lines[i])
        PROVE  /\ ~l.hasQty => l.adj = 0
               /\ l.gen = m.gen /\ l.tx <= l.gen
               /\ \A q \in Pending(k) : q.tx <= l.gen => q.tx <= l.tx
               /\ supply[k] + l.adj = h[m.gen] /\ m.gen # 0
    <3>1. /\ m.lines[i].qty = h[m.gen] /\ m.lines[i].tx <= m.gen
          /\ \A q \in Pending(k) : q.tx <= m.gen => q.tx <= m.lines[i].tx
      BY <1>8, <2>1 DEF Tells
    <3> DEFINE diff == m.lines[i].qty - supply[k]
    <3>2. /\ l.gen = m.gen /\ l.adj = diff /\ l.hasQty = (diff # 0)
          /\ l.tx = IF diff = 0 THEN m.gen ELSE m.lines[i].tx
      BY <1>11, <2>1 DEF FeedLine
    <3>3. diff \in Int /\ supply[k] + diff = m.lines[i].qty BY <1>12, <1>a
    <3> HIDE DEF diff
    <3>4. ~l.hasQty => l.adj = 0 BY <3>2
    <3>5. l.tx = m.gen \/ l.tx = m.lines[i].tx BY <3>2
    <3>6. l.tx <= m.gen BY <1>2, <3>1, <3>5
    <3>7. \A q \in Pending(k) : q.tx <= l.gen => q.tx <= l.tx BY <3>1, <3>2, <3>5
    <3>8. supply[k] + l.adj = h[m.gen] BY <3>1, <3>2, <3>3
    <3>9. m.gen # 0 BY <1>8
    <3> QED BY <3>2, <3>4, <3>6, <3>7, <3>8, <3>9
  <2>2. ASSUME k[1] \notin FeedItems(m), l = ExtraLine(k[1], m.node)
        PROVE  /\ l.hasQty /\ l.gen = 0 /\ supply[k] + l.adj = h[m.gen]
               /\ \A q \in Pending(k) : q.tx > m.gen
    <3>1. h[m.gen] = 0 /\ \A q \in Pending(k) : q.tx > m.gen BY <1>8, <2>2 DEF Tells
    <3>2. l.hasQty /\ l.gen = 0 /\ l.adj = 0 - supply[k] BY <1>11, <2>2 DEF ExtraLine
    <3> QED BY <1>a, <3>1, <3>2
  <2> QED BY <1>10, <2>1, <2>2
<1>15. Facts(k)'
  <2>1. KeyBounds(k)' 
    <3>1. applied[k] <= now /\ applied[k] \in 1..now BY <1>b DEF KeyBounds
    <3>2. applied'[k] \in 1..now BY <1>8, <1>a, <3>1
    <3> QED BY <1>2, <1>b, <3>2 DEF KeyBounds
  <2>2. LogInv(k)'
    <3>1. \A e \in Entries(k) : e.tx \in Nat BY <1>0 DEF Entries, TypeOK, TablesOK, LogEntry
    <3>2. \A e \in Entries(k) : e.tx <= applied'[k] BY <1>a, <1>b, <3>1 DEF LogInv
    <3> QED BY <1>5, <1>b, <3>2 DEF LogInv
  <2>3. Behind(k)'
    <3>1. \A q \in Pending(k) : q.tx > applied'[k] => q.tx > applied[k] BY <1>a, <1>13
    <3> QED BY <1>2, <1>5, <1>b, <3>1 DEF Behind
  <2>4. LinesInv(k)'
    <3>1. ASSUME NEW l \in InTransit(k), l.gen # 0 PROVE l.gen <= applied'[k]
      <4>1. l.gen \in Nat BY <1>0, TransitType DEF Line
      <4>2. l.gen <= applied[k] BY <1>b, <3>1 DEF LinesInv
      <4> QED BY <1>a, <4>1, <4>2
    <3>2. ASSUME NEW l \in InTransit(k)'
          PROVE  /\ ~l.hasQty => l.adj = 0
                 /\ l.gen # 0 => /\ l.tx <= l.gen /\ l.gen <= applied'[k]
                                 /\ \A q \in Pending(k) : q.tx <= l.gen => q.tx <= l.tx
      <4>1. CASE l \in InTransit(k) BY <1>b, <3>1, <4>1 DEF LinesInv
      <4>2. CASE l \in LinesOf(k, loader'[t].lines)
        <5>1. m.gen <= applied'[k] BY <1>2, <1>a
        <5> QED BY <1>14, <4>2, <5>1
      <4> QED BY <1>4, <4>1, <4>2
    <3> QED BY <1>5, <3>2 DEF LinesInv
  <2>5. InHandInv(k)'
    <3>1. ASSUME NEW x \in InHand(k[2]) PROVE x.gen <= applied'[k]
      <4>1. x.gen \in Nat BY <1>0, SentType DEF Store
      <4>2. x.gen <= applied[k] BY <1>b DEF InHandInv
      <4> QED BY <1>a, <4>1, <4>2
    <3>2. m.gen <= applied'[k] BY <1>2, <1>a
    <3> QED BY <1>3, <3>1, <3>2 DEF InHandInv
  <2> QED BY <2>1, <2>2, <2>3, <2>4, <2>5 DEF Facts
<1>16. Told(k, h)' BY <1>2, <1>5, <1>7 DEF Told
<1>17. Still(k, h)'
  <2>1. \A x \in 1..(now - 1) : x >= applied'[k] => x >= applied[k] BY <1>a
  <2> QED BY <1>2, <1>5, <1>7, <2>1 DEF Still
<1>18. FeedInv(k, h)'
  <2>1. Sent(k[2])' \cup InHand(k[2])' \subseteq Sent(k[2]) \cup InHand(k[2]) BY <1>3
  <2> QED BY <1>2, <1>5, <1>7, <2>1 DEF FeedInv, Tells, FeedItems
<1>19. Claim(k, h)'
  <2> SUFFICES ASSUME ~drift'[k]
               PROVE  OneSpot(k)' /\ \E b \in Nat, a \in [Nat -> Int] : Accounts(k, h, b, a)'
    BY DEF Claim
  <2>1. ~(applied[k] > m.gen) /\ InTransit(k) = {} /\ OneSpot(k)' BY <1>2, <1>10
  <2>2. applied[k] <= m.gen BY <1>2, <1>a, <2>1
  <2>3. PICK z \in [Nat -> Int] : \A x \in Nat : z[x] = 0
    <3> DEFINE f == [x \in Nat |-> 0]
    <3>1. f \in [Nat -> Int] /\ \A x \in Nat : f[x] = 0 OBVIOUS
    <3> HIDE DEF f
    <3> QED BY <3>1
  <2>4. Balance(k, h, m.gen, z)'
    <3> SUFFICES ASSUME NEW x \in m.gen..(now - 1)
                 PROVE  /\ x + 1 \in Due(k) => z[x + 1] = z[x]
                        /\ x + 1 \notin Due(k) => h[x + 1] + z[x + 1] = h[x] + z[x]
      BY <1>2, <1>5 DEF Balance
    <3>1. x \in Nat /\ x + 1 \in Nat /\ x \in 1..(now - 1) /\ x >= applied[k] BY <1>2, <1>8, <1>a, <2>2
    <3>2. z[x] = 0 /\ z[x + 1] = 0 BY <2>3, <3>1
    <3>3. x + 1 \notin Due(k) => h[x + 1] = h[x] BY <1>7, <3>1 DEF Still
    <3> QED BY <3>2, <3>3
  <2>5. Logged(k, m.gen, z)'
    <3> SUFFICES ASSUME NEW x \in m.gen..now PROVE z[x] = After(k, x) BY <1>2, <1>5 DEF Logged
    <3>1. x \in Nat /\ x >= applied[k] BY <1>2, <1>a, <2>2
    <3>2. After(k, x) = 0 BY <1>0, <1>b, <3>1, AfterApplied
    <3> QED BY <2>3, <3>1, <3>2
  <2>6. Ahead(k, m.gen)'
    <3>1. \A q \in Pending(k) : q.tx > m.gen => q.tx > applied[k] BY <1>2, <1>13, <1>a, <2>2
    <3> QED BY <1>2, <1>5, <1>b, <3>1 DEF Ahead, Behind
  <2>7. OnRecord(k, h, m.gen, z)' BY <1>10 DEF OnRecord
  <2>8. OnTheWay(k, h, m.gen, z)'
    <3> SUFFICES ASSUME NEW l \in InTransit(k)'
                 PROVE  /\ supply[k] + l.adj = h[m.gen] + z[m.gen]
                        /\ l.gen = m.gen \/ (l.gen = 0 /\ \A q \in Pending(k) : q.tx > m.gen)
      BY <1>2, <1>5 DEF OnTheWay
    <3>1. l \in LinesOf(k, loader'[t].lines) BY <1>4, <2>1
    <3>2. z[m.gen] = 0 /\ h[m.gen] \in Int BY <1>2, <2>3
    <3> QED BY <1>14, <3>1, <3>2
  <2>9. z[now] = 0 BY <1>a, <2>3
  <2>10. Accounts(k, h, m.gen, z)' BY <1>2, <1>8, <2>4, <2>5, <2>6, <2>7, <2>8, <2>9 DEF Accounts
  <2> QED BY <1>2, <2>1, <2>10
<1> QED BY <1>15, <1>16, <1>17, <1>18, <1>19 DEF Story, KeyInv

\* The first chunk is taken off the queue.
LEMMA TakenLines ==
  ASSUME TypeOK, NEW k \in Keys, chunkQ # <<>>, chunkQ' = Tail(chunkQ), UNCHANGED loader
  PROVE  /\ InTransit(k)' \subseteq InTransit(k)
         /\ Head(chunkQ).node = k[2] => LinesOf(k, Head(chunkQ).lines) \subseteq InTransit(k)
         /\ Head(chunkQ).node # k[2] \/ LinesOf(k, Head(chunkQ).lines) = {} => InTransit(k)' = InTransit(k)
         /\ OneSpot(k) => OneSpot(k)'
         /\ OneSpot(k) /\ Head(chunkQ).node = k[2] /\ LinesOf(k, Head(chunkQ).lines) # {} => InTransit(k)' = {}
<1>1. chunkQ \in Seq(Chunk) BY DEF TypeOK, SyncOK
<1>2. PICK c : c = Head(chunkQ) OBVIOUS
<1>3. Elems(chunkQ) = {c} \cup Elems(chunkQ') BY <1>1, <1>2, ElemsTail
<1>4. ASSUME NEW l PROVE l \in InTransit(k) <=> l \in InTransit(k)' \/ (c.node = k[2] /\ l \in LinesOf(k, c.lines))
  BY <1>3, TransitMeans
<1>5. InTransit(k)' \subseteq InTransit(k) BY <1>4
<1>6. c.node = k[2] => LinesOf(k, c.lines) \subseteq InTransit(k) BY <1>4
<1>7. c.node # k[2] \/ LinesOf(k, c.lines) = {} => InTransit(k)' = InTransit(k)
  <2>1. c.node # k[2] \/ LinesOf(k, c.lines) = {} => \A l : l \in InTransit(k)' <=> l \in InTransit(k)
    BY <1>4
  <2> QED BY <2>1
<1>8. /\ 1 \in DOMAIN chunkQ /\ chunkQ[1] = c
      /\ \A q \in DOMAIN chunkQ' : /\ q \in Nat \ {0} /\ q + 1 \in DOMAIN chunkQ /\ chunkQ'[q] = chunkQ[q + 1]
  BY <1>1, <1>2
<1>9. \A q, j \in Nat : ChunkSpot(k, q, j)' => /\ ChunkSpot(k, q + 1, j) /\ q \in Nat \ {0} /\ q + 1 \in Nat
  BY <1>8 DEF ChunkSpot
<1>10. \A t, j : LoaderSpot(k, t, j)' <=> LoaderSpot(k, t, j) BY DEF LoaderSpot
<1>11. ASSUME OneSpot(k) PROVE OneSpot(k)'
  <2>1. ASSUME NEW q \in Nat, NEW r \in Nat, NEW i \in Nat, NEW j \in Nat,
               ChunkSpot(k, q, i)', ChunkSpot(k, r, j)'
        PROVE  q = r /\ i = j
    <3>1. q + 1 = r + 1 /\ i = j BY <1>9, <1>11, <2>1 DEF OneSpot
    <3> QED BY <3>1
  <2>2. ASSUME NEW t \in Loaders, NEW q \in Nat, NEW i \in Nat, NEW j \in Nat,
               LoaderSpot(k, t, i)', ChunkSpot(k, q, j)'
        PROVE  FALSE
    BY <1>9, <1>10, <1>11, <2>2 DEF OneSpot
  <2>3. \A t, u \in Loaders : \A i, j \in Nat : LoaderSpot(k, t, i)' /\ LoaderSpot(k, u, j)' => t = u /\ i = j
    BY <1>10, <1>11 DEF OneSpot
  <2> QED BY <2>1, <2>2, <2>3 DEF OneSpot
<1>12. ASSUME OneSpot(k), c.node = k[2], LinesOf(k, c.lines) # {} PROVE InTransit(k)' = {}
  <2>1. PICK j : j \in DOMAIN c.lines /\ c.lines[j].item = k[1] BY <1>12 DEF LinesOf, Elems
  <2>2. c \in Chunk BY <1>1, <1>8
  <2>3. c.lines \in Seq(Line) BY <2>2 DEF Chunk
  <2>4. j \in Nat BY <2>1, <2>3
  <2>5. ChunkSpot(k, 1, j) BY <1>8, <1>12, <2>1 DEF ChunkSpot
  <2>6. \A t \in Loaders : \A i \in Nat : ~LoaderSpot(k, t, i) BY <1>12, <2>4, <2>5 DEF OneSpot
  <2>7. ASSUME NEW q \in Nat, NEW i \in Nat, ChunkSpot(k, q, i)' PROVE FALSE
    <3>1. q + 1 = 1 /\ q \in Nat \ {0} BY <1>9, <1>12, <2>4, <2>5, <2>7 DEF OneSpot
    <3> QED BY <3>1
  <2>8. ASSUME NEW t \in Loaders, loader[t].st = "store", loader[t].msg.node = k[2],
               NEW l \in LinesOf(k, loader[t].lines)
        PROVE  FALSE
    <3>1. PICK i \in DOMAIN loader[t].lines : loader[t].lines[i].item = k[1] BY <2>8 DEF LinesOf, Elems
    <3>2. loader[t].lines \in Seq(Line) BY <2>8 DEF TypeOK, LoadOK, LoaderState, Idle
    <3>3. i \in Nat BY <3>2
    <3> QED BY <2>6, <2>8, <3>1, <3>3 DEF LoaderSpot
  <2>9. ASSUME NEW d \in Elems(chunkQ'), d.node = k[2], NEW l \in LinesOf(k, d.lines) PROVE FALSE
    <3>1. PICK q \in DOMAIN chunkQ' : d = chunkQ'[q] BY DEF Elems
    <3>2. PICK i \in DOMAIN d.lines : d.lines[i].item = k[1] BY DEF LinesOf, Elems
    <3>3. d \in Chunk /\ q \in Nat BY <1>1, <1>8, <3>1
    <3>4. d.lines \in Seq(Line) BY <3>3 DEF Chunk
    <3>5. i \in Nat BY <3>4
    <3>6. ChunkSpot(k, q, i)' BY <2>9, <3>1, <3>2 DEF ChunkSpot
    <3> QED BY <2>7, <3>3, <3>5, <3>6
  <2>10. \A l : l \notin InTransit(k)' BY <2>8, <2>9, TransitMeans
  <2> QED BY <2>10
<1> QED BY <1>2, <1>5, <1>6, <1>7, <1>11, <1>12

\* Something waits for a key when a message about it is pending.
LEMMA WaitingIsPending ==
  ASSUME TypeOK, NEW k
  PROVE  Waiting(k) <=> Pending(k) # {}
<1>1. \A c \in Consumers : delta[c].st \notin {"idle", "down"} <=> Busy(c)
  BY DEF TypeOK, ServerOK, ConsumerState, Idle, Down, Busy
<1> QED BY <1>1 DEF Waiting, Pending

\* What the adjust server does to a key that its chunk adjusts.
LEMMA AdjustWhat ==
  ASSUME TypeOK, AdjustInventory, NEW k \in Keys, k[2] = Head(chunkQ).node,
         LinesOf(k, Head(chunkQ).lines) # {}
  PROVE  \E l \in LinesOf(k, Head(chunkQ).lines) :
           /\ ctrl'[k] = Recorded(ctrl[k], l)
           /\ supply'[k] = IF l.hasQty THEN supply[k] + l.adj ELSE supply[k]
           /\ applied'[k] = (IF l.gen = 0 /\ ctrl[k] = NoRecord /\ Waiting(k)
                             THEN Latest(applied[k], now) ELSE applied[k])
           /\ ~drift'[k] => ~drift[k] /\ ~(l.gen = 0 /\ ctrl[k] = NoRecord /\ Waiting(k))
<1>1. PICK c : c = Head(chunkQ) OBVIOUS
<1>2. PICK l : l = LineOf(c, k) OBVIOUS
<1>3. l \in LinesOf(k, c.lines) BY <1>1, <1>2 DEF LineOf
<1>4. ctrl'[k] = Recorded(ctrl[k], l) BY <1>1, <1>2 DEF AdjustInventory
<1>5. supply'[k] = IF l.hasQty THEN supply[k] + l.adj ELSE supply[k] BY <1>1, <1>2 DEF AdjustInventory
<1>6. applied'[k] = (IF l.gen = 0 /\ ctrl[k] = NoRecord /\ Waiting(k)
                     THEN Latest(applied[k], now) ELSE applied[k])
  BY <1>1, <1>2 DEF AdjustInventory
<1>7. drift'[k] = (drift[k] \/ (l.gen = 0 /\ ctrl[k] = NoRecord /\ Waiting(k)))
  BY <1>1, <1>2 DEF AdjustInventory
<1>8. ~drift'[k] => ~drift[k] /\ ~(l.gen = 0 /\ ctrl[k] = NoRecord /\ Waiting(k)) BY <1>7
<1> QED BY <1>1, <1>3, <1>4, <1>5, <1>6, <1>8

\* A chunk adjusts supply, and with it the control record.
LEMMA AdjustKeeps ==
  ASSUME Base, AdjustInventory, NEW k \in Keys, k[2] = Head(chunkQ).node,
         LinesOf(k, Head(chunkQ).lines) # {}, KeyInv(k)
  PROVE  KeyInv(k)'
<1>0. TypeOK /\ DatesInv /\ OneEach BY DEF Base
<1>a. now \in Nat /\ applied[k] \in Nat /\ supply[k] \in Int /\ ctrl[k].tx \in Nat /\ ctrl[k].gen \in Nat
  BY <1>0, KeyTypes
<1>b. KeyBounds(k) /\ LogInv(k) /\ Behind(k) /\ LinesInv(k) /\ InHandInv(k) BY DEF KeyInv, Facts
<1>c. applied[k] <= now /\ applied[k] \in 1..now /\ ctrl[k].tx <= now /\ ctrl[k].gen <= now
  BY <1>b DEF KeyBounds
<1>1. PICK l \in LinesOf(k, Head(chunkQ).lines) :
           /\ ctrl'[k] = Recorded(ctrl[k], l)
           /\ supply'[k] = IF l.hasQty THEN supply[k] + l.adj ELSE supply[k]
           /\ applied'[k] = (IF l.gen = 0 /\ ctrl[k] = NoRecord /\ Waiting(k)
                             THEN Latest(applied[k], now) ELSE applied[k])
           /\ ~drift'[k] => ~drift[k] /\ ~(l.gen = 0 /\ ctrl[k] = NoRecord /\ Waiting(k))
  BY <1>0, AdjustWhat
<1>2. /\ chunkQ # <<>> /\ chunkQ' = Tail(chunkQ)
      /\ UNCHANGED <<loader, now, stock, lastTx, feedQ, failed, log, cut, deltaQ, delta>>
  BY DEF AdjustInventory, env, load, server
<1>3. /\ InTransit(k)' \subseteq InTransit(k) /\ l \in InTransit(k)
      /\ OneSpot(k) => OneSpot(k)' /\ InTransit(k)' = {}
  BY <1>0, <1>2, TakenLines
<1>4. Pending(k)' = Pending(k) /\ Due(k)' = Due(k) /\ Entries(k)' = Entries(k) /\ \A x : After(k, x)' = After(k, x)
  <2>1. Pending(k)' = Pending(k) BY <1>2, SameViews
  <2> QED BY <1>2, <2>1 DEF Due, Entries, After, EntriesAfter
<1>5. Sent(k[2])' = Sent(k[2]) /\ InHand(k[2])' = InHand(k[2]) BY <1>2, SameViews
<1>6. Waiting(k) <=> Pending(k) # {} BY <1>0, WaitingIsPending
<1>7. l \in Line /\ l.adj \in Int /\ l.gen \in Nat /\ l.tx \in Nat
  <2>1. l \in Line BY <1>0, <1>3, TransitType
  <2> QED BY <2>1 DEF Line
<1>8. supply'[k] = supply[k] + l.adj
  <2>1. ~l.hasQty => l.adj = 0 BY <1>3, <1>b DEF LinesInv
  <2> QED BY <1>1, <1>7, <1>a, <2>1
<1>9. l.gen # 0 => /\ l.tx <= l.gen /\ l.gen <= applied[k]
                   /\ \A q \in Pending(k) : q.tx <= l.gen => q.tx <= l.tx
  BY <1>3, <1>b DEF LinesInv
<1>10. \A q \in Pending(k) : q.tx \in 2..now /\ q.tx \in Nat BY <1>0, <1>a, PendingFacts
<1>d. applied'[k] \in Nat /\ applied'[k] >= applied[k] /\ applied'[k] <= now
      /\ (applied'[k] = applied[k] \/ applied'[k] = now)
  BY <1>1, <1>a, <1>c DEF Latest
<1>11. \/ l.gen # 0 /\ ctrl'[k] = [tx |-> l.tx, gen |-> l.gen]
       \/ l.gen = 0 /\ ctrl[k] = NoRecord /\ ctrl'[k] = [tx |-> now, gen |-> now]
       \/ l.gen = 0 /\ ctrl[k] # NoRecord /\ ctrl'[k] = ctrl[k]
  BY <1>1 DEF Recorded
<1>12. Facts(k)'
  <2>1. KeyBounds(k)'
    <3>1. ctrl'[k].tx <= now /\ ctrl'[k].gen <= now
      <4>1. CASE l.gen # 0 /\ ctrl'[k] = [tx |-> l.tx, gen |-> l.gen]
        <5>1. l.tx <= now /\ l.gen <= now BY <1>7, <1>9, <1>a, <1>c, <4>1
        <5> QED BY <4>1, <5>1
      <4>2. CASE ctrl'[k] = [tx |-> now, gen |-> now] BY <1>a, <4>2
      <4>3. CASE ctrl'[k] = ctrl[k] BY <1>c, <4>3
      <4> QED BY <1>11, <4>1, <4>2, <4>3
    <3>2. applied'[k] \in 1..now BY <1>a, <1>c, <1>d
    <3> QED BY <1>2, <1>b, <3>1, <3>2 DEF KeyBounds
  <2>2. LogInv(k)'
    <3>1. \A e \in Entries(k) : e.tx \in Nat BY <1>0 DEF Entries, TypeOK, TablesOK, LogEntry
    <3>2. \A e \in Entries(k) : e.tx <= applied'[k] BY <1>a, <1>b, <1>d, <3>1 DEF LogInv
    <3> QED BY <1>4, <1>b, <3>2 DEF LogInv
  <2>3. Behind(k)'
    <3> SUFFICES ASSUME NEW q \in Pending(k), q.tx > applied'[k] PROVE Below(ctrl'[k], q)
      BY <1>4 DEF Behind
    <3>1. q.tx \in Nat /\ q.tx <= now /\ q.tx > applied[k] BY <1>10, <1>a, <1>d
    <3>2. CASE l.gen # 0 /\ ctrl'[k] = [tx |-> l.tx, gen |-> l.gen]
      <4>1. l.tx < q.tx /\ l.gen < q.tx BY <1>7, <1>9, <1>a, <3>1, <3>2
      <4> QED BY <3>2, <4>1 DEF Below
    <3>3. CASE l.gen = 0 /\ ctrl[k] = NoRecord
      <4>1. Waiting(k) BY <1>6
      <4>2. applied'[k] = Latest(applied[k], now) BY <1>1, <3>3, <4>1
      <4>3. applied'[k] >= now BY <1>a, <4>2 DEF Latest
      <4> QED BY <1>a, <1>d, <3>1, <4>3
    <3>4. CASE ctrl'[k] = ctrl[k] BY <1>b, <3>1, <3>4 DEF Behind
    <3> QED BY <1>11, <3>2, <3>3, <3>4
  <2>4. LinesInv(k)'
    <3>1. ASSUME NEW x \in InTransit(k), x.gen # 0 PROVE x.gen <= applied'[k]
      <4>1. x.gen \in Nat BY <1>0, TransitType DEF Line
      <4>2. x.gen <= applied[k] BY <1>b, <3>1 DEF LinesInv
      <4> QED BY <1>a, <1>d, <4>1, <4>2
    <3> QED BY <1>3, <1>4, <1>b, <3>1 DEF LinesInv
  <2>5. InHandInv(k)'
    <3>1. ASSUME NEW x \in InHand(k[2]) PROVE x.gen <= applied'[k]
      <4>1. x.gen \in Nat BY <1>0, SentType DEF Store
      <4>2. x.gen <= applied[k] BY <1>b DEF InHandInv
      <4> QED BY <1>a, <1>d, <4>1, <4>2
    <3> QED BY <1>5, <3>1 DEF InHandInv
  <2> QED BY <2>1, <2>2, <2>3, <2>4, <2>5 DEF Facts
<1>13. PICK h \in [Nat -> Int] : Story(k, h) BY DEF KeyInv
<1>14. Told(k, h) /\ Still(k, h) /\ FeedInv(k, h) /\ Claim(k, h) BY <1>13 DEF Story
<1>15. Told(k, h)' BY <1>2, <1>4, <1>14 DEF Told
<1>16. Still(k, h)'
  <2>1. \A x \in 1..(now - 1) : x >= applied'[k] => x >= applied[k] BY <1>a, <1>d
  <2> QED BY <1>2, <1>4, <1>14, <2>1 DEF Still
<1>17. FeedInv(k, h)' BY <1>2, <1>4, <1>5, <1>14 DEF FeedInv, Tells, FeedItems
<1>18. Claim(k, h)'
  <2> SUFFICES ASSUME ~drift'[k], ~Lost(k)'
               PROVE  OneSpot(k)' /\ \E b \in Nat, a \in [Nat -> Int] : Accounts(k, h, b, a)'
    BY DEF Claim
  <2>1. ~drift[k] /\ ~(l.gen = 0 /\ ctrl[k] = NoRecord /\ Waiting(k)) BY <1>1
  <2>2. applied'[k] = applied[k] BY <1>1, <2>1
  <2>3. ~Lost(k) BY <1>5, <2>2 DEF Lost
  <2>4. OneSpot(k) BY <1>14, <2>1, <2>3 DEF Claim
  <2>5. OneSpot(k)' /\ InTransit(k)' = {} BY <1>3, <2>4
  <2>6. PICK b \in Nat, a \in [Nat -> Int] : Accounts(k, h, b, a) BY <1>14, <2>1, <2>3 DEF Claim
  <2>7. supply[k] + l.adj = h[b] + a[b] /\ (l.gen = b \/ (l.gen = 0 /\ \A q \in Pending(k) : q.tx > b))
    BY <1>3, <2>6 DEF Accounts, OnTheWay
  <2>8. Balance(k, h, b, a)' BY <1>2, <1>4, <2>6 DEF Accounts, Balance
  <2>9. Logged(k, b, a)' BY <1>2, <1>4, <2>6 DEF Accounts, Logged
  <2>10. b \in 1..now /\ b # 0 BY <2>6 DEF Accounts
  <2>11. Ahead(k, b)'
    <3> SUFFICES ASSUME NEW q \in Pending(k), q.tx > b PROVE Below(ctrl'[k], q) BY <1>4 DEF Ahead
    <3>1. CASE l.gen # 0 /\ ctrl'[k] = [tx |-> l.tx, gen |-> l.gen]
      <4>1. l.gen = b BY <2>7, <3>1
      <4>2. l.tx < q.tx /\ l.gen < q.tx BY <1>7, <1>9, <1>10, <3>1, <4>1
      <4> QED BY <3>1, <4>2 DEF Below
    <3>2. CASE l.gen = 0 /\ ctrl[k] = NoRecord BY <1>6, <2>1, <3>2
    <3>3. CASE ctrl'[k] = ctrl[k] BY <2>6, <3>3 DEF Accounts, Ahead
    <3> QED BY <1>11, <3>1, <3>2, <3>3
  <2>12. OnRecord(k, h, b, a)'
    <3>1. ASSUME NEW q \in Pending(k), q.tx <= b PROVE ctrl'[k].tx >= q.tx
      <4>1. ~(q.tx > b) BY <1>10, <3>1
      <4>2. l.gen # 0 /\ l.gen = b BY <2>7, <2>10, <4>1
      <4>3. q.tx <= l.tx BY <1>9, <3>1, <4>2
      <4>4. ctrl'[k].tx = l.tx BY <1>11, <4>2
      <4> QED BY <1>7, <1>10, <4>3, <4>4
    <3> QED BY <1>4, <1>8, <2>7, <3>1 DEF OnRecord
  <2>13. OnTheWay(k, h, b, a)' BY <2>5 DEF OnTheWay
  <2>14. Accounts(k, h, b, a)' BY <1>2, <2>6, <2>8, <2>9, <2>11, <2>12, <2>13 DEF Accounts
  <2> QED BY <2>5, <2>14
<1> QED BY <1>12, <1>15, <1>16, <1>17, <1>18 DEF Story, KeyInv

-----------------------------------------------------------------------------
(* The steps that are aside of a key                                       *)

SameMessages(k) == Pending(k)' = Pending(k)
SameStores(k) == Sent(k[2])' = Sent(k[2]) /\ InHand(k[2])' = InHand(k[2])
SameLines(k) == InTransit(k)' = InTransit(k) /\ OneSpot(k)' = OneSpot(k)
SameLog(k) == Entries(k)' = Entries(k) /\ cut'[k] = cut[k]

LEMMA NearlySame ==
  ASSUME NEW k, now' \in {now, now + 1}, KeyAside(k)
  PROVE  /\ SameMessages(k) => MessagesAside(k)
         /\ SameStores(k) => StoresAside(k)
         /\ SameLines(k) => LinesAside(k)
         /\ SameLog(k) => LogAside(k)
         /\ LogAside(k) /\ MessagesAside(k) /\ StoresAside(k) /\ LinesAside(k) => Aside(k)
BY DEF SameMessages, SameStores, SameLines, SameLog, MessagesAside, StoresAside, LinesAside, LogAside, Aside

LEMMA SameWhen ==
  ASSUME NEW k
  PROVE  /\ UNCHANGED <<deltaQ, delta>> => SameMessages(k)
         /\ UNCHANGED <<feedQ, failed, loader>> => SameStores(k)
         /\ UNCHANGED <<loader, chunkQ>> => SameLines(k)
         /\ UNCHANGED <<log, cut>> => SameLog(k)
         /\ UNCHANGED <<stock, lastTx, applied, supply, drift, ctrl>> => KeyAside(k)
<1>1. UNCHANGED <<log, cut>> => SameLog(k) BY DEF SameLog, Entries
<1>2. UNCHANGED <<stock, lastTx, applied, supply, drift, ctrl>> => KeyAside(k) BY DEF KeyAside
<1>3. UNCHANGED <<deltaQ, delta>> => SameMessages(k) BY SameViews DEF SameMessages
<1>4. UNCHANGED <<feedQ, failed, loader>> => SameStores(k) BY SameViews DEF SameStores
<1>5. UNCHANGED <<loader, chunkQ>> => SameLines(k) BY SameViews DEF SameLines
<1> QED BY <1>1, <1>2, <1>3, <1>4, <1>5

\* The outside does something to another key, or sends or resends a feed.
LEMMA OtherKeyAside ==
  ASSUME TypeOK, NEW k \in Keys, NEW j \in Keys, j # k,
         \/ \E d \in {-1, 1} : Post(j, d)
         \/ \E q \in InitialSupply : Count(j, q)
         \/ Ship(j)
  PROVE  Aside(k)
<1>0. EnvOK /\ TablesOK /\ HistoryOK BY DEF TypeOK
<1>1. ASSUME NEW p, p.key = j, deltaQ' = deltaQ \cup {p}, UNCHANGED delta PROVE SameMessages(k)
  BY <1>1 DEF Pending, SameMessages, Busy
<1>2. ASSUME NEW d \in {-1, 1}, Post(j, d) PROVE Aside(k)
  <2> DEFINE p == [abs |-> FALSE, key |-> j, qty |-> d, tx |-> now', gen |-> now']
  <2>1. /\ p.key = j /\ deltaQ' = deltaQ \cup {p} /\ UNCHANGED <<delta, load, sync, tables, history>>
        /\ now' = now + 1
        /\ stock'[k] = stock[k] /\ lastTx'[k] = lastTx[k]
    BY <1>0, <1>2 DEF Post, Spend, EnvOK
  <2> HIDE DEF p
  <2>2. SameMessages(k) BY <1>1, <2>1
  <2>3. KeyAside(k) BY <2>1 DEF KeyAside, tables, history
  <2>4. SameStores(k) /\ SameLines(k) /\ SameLog(k) BY <2>1, SameWhen DEF load, sync, tables, history
  <2> QED BY <2>1, <2>2, <2>3, <2>4, NearlySame
<1>3. ASSUME NEW q \in InitialSupply, Count(j, q) PROVE Aside(k)
  <2> DEFINE p == [abs |-> TRUE, key |-> j, qty |-> q, tx |-> now', gen |-> now']
  <2>1. /\ p.key = j /\ deltaQ' = deltaQ \cup {p} /\ UNCHANGED <<delta, load, sync, tables, history>>
        /\ now' = now + 1
        /\ stock'[k] = stock[k] /\ lastTx'[k] = lastTx[k]
    BY <1>0, <1>3 DEF Count, Spend, EnvOK
  <2> HIDE DEF p
  <2>2. SameMessages(k) BY <1>1, <2>1
  <2>3. KeyAside(k) BY <2>1 DEF KeyAside, tables, history
  <2>4. SameStores(k) /\ SameLines(k) /\ SameLog(k) BY <2>1, SameWhen DEF load, sync, tables, history
  <2> QED BY <2>1, <2>2, <2>3, <2>4, NearlySame
<1>4. CASE Ship(j)
  <2> DEFINE e == [key |-> j, qty |-> -1, tx |-> now']
  <2>1. /\ e.key = j /\ log' = log \cup {e} /\ now' = now + 1
        /\ UNCHANGED <<load, sync, server, ctrl, cut, drift>>
    BY <1>4 DEF Ship, Spend
  <2>2. stock'[k] = stock[k] /\ lastTx'[k] = lastTx[k] /\ supply'[k] = supply[k] /\ applied'[k] = applied[k]
    BY <1>0, <1>4 DEF Ship, EnvOK, TablesOK, HistoryOK
  <2> HIDE DEF e
  <2>3. SameLog(k) BY <2>1 DEF SameLog, Entries
  <2>4. KeyAside(k) BY <2>1, <2>2 DEF KeyAside
  <2>5. SameMessages(k) /\ SameStores(k) /\ SameLines(k) BY <2>1, SameWhen DEF load, sync, server
  <2> QED BY <2>1, <2>3, <2>4, <2>5, NearlySame
<1> QED BY <1>2, <1>3, <1>4

\* A message that joins the feed, or leaves it.
LEMMA SentWith ==
  ASSUME NEW n, NEW x, Elems(feedQ') = Elems(feedQ) \cup {x}, failed' \subseteq failed,
         \A m \in failed : m \in failed' \/ (m = x /\ m.type = "STORE"),
         x.type = "STORE" => x \in failed
  PROVE  Sent(n)' = Sent(n)
<1>1. \A m : m \in Sent(n)' <=> m.node = n /\ (m \in failed' \/ (m \in Elems(feedQ') /\ m.type = "STORE"))
  BY DEF Sent, Elems
<1>2. \A m : m \in Sent(n) <=> m.node = n /\ (m \in failed \/ (m \in Elems(feedQ) /\ m.type = "STORE"))
  BY DEF Sent
<1>3. \A m : m \in Sent(n)' <=> m \in Sent(n) BY <1>1, <1>2
<1> QED BY <1>3

LEMMA AppendsOne ==
  ASSUME TypeOK, NEW x \in Store \cup Mark, feedQ' = Append(feedQ, x)
  PROVE  Elems(feedQ') = Elems(feedQ) \cup {x}
<1> DEFINE S == Store \cup Mark
<1>1. feedQ \in Seq(S) /\ <<x>> \in Seq(S) BY DEF TypeOK, LoadOK
<1>2. feedQ' = feedQ \o <<x>> BY <1>1
<1>3. Elems(<<x>>) = {x} BY DEF Elems
<1> HIDE DEF S
<1>4. Elems(feedQ \o <<x>>) = Elems(feedQ) \cup Elems(<<x>>) BY <1>1, ElemsConcat
<1> QED BY <1>2, <1>3, <1>4

LEMMA ResendAside ==
  ASSUME TypeOK, NEW k \in Keys, SendSOF \/ Reprocess
  PROVE  Aside(k)
<1>1. CASE SendSOF
  <2>1. PICK x : x = [type |-> "SOF"] OBVIOUS
  <2>2. x \in Mark /\ x.type # "STORE" BY <2>1 DEF Mark
  <2>3. /\ feedQ' = Append(feedQ, x) /\ now' = now + 1
        /\ UNCHANGED <<stock, lastTx, failed, loader, sync, tables, server, history>>
    BY <1>1, <2>1 DEF SendSOF, Spend
  <2>4. Elems(feedQ') = Elems(feedQ) \cup {x} BY <2>2, <2>3, AppendsOne
  <2>5. Sent(k[2])' = Sent(k[2]) BY <2>2, <2>3, <2>4, SentWith
  <2>6. SameStores(k) BY <2>3, <2>5, SameViews DEF SameStores
  <2>7. KeyAside(k) /\ SameMessages(k) /\ SameLines(k) /\ SameLog(k)
    BY <2>3, SameWhen DEF sync, tables, server, history
  <2> QED BY <2>3, <2>6, <2>7, NearlySame
<1>2. CASE Reprocess
  <2>1. PICK x \in failed : failed' = failed \ {x} /\ feedQ' = Append(feedQ, x)
    BY <1>2 DEF Reprocess
  <2>2. UNCHANGED <<env, loader, sync, tables, server, history>> BY <1>2 DEF Reprocess
  <2>3. x \in Store /\ x.type = "STORE" BY DEF TypeOK, LoadOK, Store
  <2>4. Elems(feedQ') = Elems(feedQ) \cup {x} BY <2>1, <2>3, AppendsOne
  <2>5. Sent(k[2])' = Sent(k[2]) BY <2>1, <2>3, <2>4, SentWith
  <2>6. SameStores(k) BY <2>2, <2>5, SameViews DEF SameStores
  <2>7. KeyAside(k) /\ SameMessages(k) /\ SameLines(k) /\ SameLog(k) /\ now' = now
    BY <2>2, SameWhen DEF env, sync, tables, server, history
  <2> QED BY <2>6, <2>7, NearlySame
<1> QED BY <1>1, <1>2

\* A feed of the stores is sent: it tells what is in them.
LEMMA FeedTells ==
  ASSUME Base, NEW k \in Keys, KeyInv(k), now' = now + 1,
         NEW o \in Orders(Listed(k[2])), NEW m, m = StoreFeed(k[2], o)
  PROVE  TellsNow(m, k)
<1>0. TypeOK /\ DatesInv /\ OneEach /\ now \in Nat BY DEF Base, TypeOK, EnvOK
<1>1. k[1] \in Items /\ k[2] \in Nodes /\ k = <<k[1], k[2]>> BY DEF Keys
<1>2. Listed(k[2]) \in SUBSET Items /\ IsFiniteSet(Listed(k[2]))
  BY SetsAssumption, FS_Subset DEF Listed
<1>3. /\ \A i, j \in DOMAIN o : o[i] = o[j] => i = j
      /\ \A x \in Listed(k[2]) : \E j \in DOMAIN o : o[j] = x
  BY <1>2, OrdersOnto
<1>4. PICK s : s = m.lines OBVIOUS
<1>a. m.gen = now + 1 /\ DOMAIN s = DOMAIN o
  BY <1>4 DEF StoreFeed
<1>b. \A j \in DOMAIN o : s[j].item = o[j] BY <1>4 DEF StoreFeed
<1>c. \A j \in DOMAIN o : s[j].qty = stock[<<o[j], k[2]>>] /\ s[j].tx = lastTx[<<o[j], k[2]>>]
  BY <1>4 DEF StoreFeed
<1>d. FeedItems(m) = {s[j].item : j \in DOMAIN s} BY <1>4 DEF FeedItems
<1>e. PICK x : x = k[1] OBVIOUS
<1>5. x \notin FeedItems(m) => stock[k] = 0 /\ Pending(k) = {}
  <2> SUFFICES ASSUME x \notin FeedItems(m) PROVE stock[k] = 0 /\ Pending(k) = {} OBVIOUS
  <2>1. x \notin Listed(k[2])
    <3>1. \A j \in DOMAIN s : s[j].item # x BY <1>d
    <3>2. \A j \in DOMAIN o : o[j] # x BY <1>a, <1>b, <3>1
    <3> QED BY <1>3, <3>2
  <2>2. stock[k] = 0 /\ ~(lastTx[k] > 1) BY <1>1, <1>e, <2>1 DEF Listed
  <2>3. PICK h \in [Nat -> Int] : Told(k, h) BY DEF KeyInv, Story
  <2>4. ASSUME NEW p \in Pending(k) PROVE FALSE
    <3>1. p.tx \in 2..now /\ p.tx <= lastTx[k] /\ lastTx[k] \in Nat
      BY <1>0, <2>3, KeyTypes, PendingFacts DEF Told
    <3> QED BY <1>0, <2>2, <3>1
  <2> QED BY <2>2, <2>4
<1>6. \A j \in DOMAIN s : s[j].item = x => s[j].qty = stock[k] /\ s[j].tx = lastTx[k]
  <2> SUFFICES ASSUME NEW j \in DOMAIN s, s[j].item = x
               PROVE  s[j].qty = stock[k] /\ s[j].tx = lastTx[k]
    OBVIOUS
  <2>1. o[j] = k[1] /\ j \in DOMAIN o BY <1>a, <1>b, <1>e
  <2>2. <<o[j], k[2]>> = k BY <1>1, <2>1
  <2> QED BY <1>c, <2>1, <2>2
<1>7. \A i, j \in DOMAIN s : s[i].item = s[j].item => i = j
  <2> SUFFICES ASSUME NEW i \in DOMAIN s, NEW j \in DOMAIN s, s[i].item = s[j].item PROVE i = j
    OBVIOUS
  <2>1. i \in DOMAIN o /\ j \in DOMAIN o BY <1>a
  <2>2. o[i] = o[j] BY <1>b, <2>1
  <2> QED BY <1>3, <2>1, <2>2
<1>8. m.gen = now' BY <1>a
<1> QED BY <1>4, <1>5, <1>6, <1>7, <1>8, <1>e DEF TellsNow

LEMMA SendStoresAside ==
  ASSUME Base, NEW k \in Keys, KeyInv(k), SendStores
  PROVE  Aside(k)
<1>0. TypeOK /\ EnvOK /\ LoadOK BY DEF Base, TypeOK
<1> DEFINE shops == {n \in Nodes : Listed(n) # {}}
<1>1. PICK nodes \in Orders(shops), order \in [Nodes -> UNION {Orders(S) : S \in SUBSET Items}] :
        /\ \A n \in Nodes : order[n] \in Orders(Listed(n))
        /\ feedQ' = feedQ \o [j \in DOMAIN nodes |-> StoreFeed(nodes[j], order[nodes[j]])]
                          \o <<[type |-> "EOF"]>>
  BY DEF SendStores
<1>2. nodes \in Seq(Nodes)
  <2>1. shops \in SUBSET Nodes /\ IsFiniteSet(shops) BY SetsAssumption, FS_Subset
  <2>2. nodes \in Seq(shops) BY <2>1, OrdersType
  <2> QED BY <2>1, <2>2
<1>3. \A n \in Nodes : order[n] \in Seq(Items)
  <2> SUFFICES ASSUME NEW n \in Nodes PROVE order[n] \in Seq(Items) OBVIOUS
  <2>1. Listed(n) \in SUBSET Items BY DEF Listed
  <2>2. IsFiniteSet(Listed(n)) BY <2>1, SetsAssumption, FS_Subset
  <2>3. order[n] \in Seq(Listed(n)) BY <1>1, <2>2, OrdersType
  <2> QED BY <2>1, <2>3
<1> DEFINE feed(j) == StoreFeed(nodes[j], order[nodes[j]])
           stores == [j \in DOMAIN nodes |-> feed(j)]
           eof == <<[type |-> "EOF"]>>
           R == Store \cup Mark
<1>4. \A j \in 1..Len(nodes) : feed(j) \in Store BY <1>0, <1>2, <1>3, StoreFeedType
<1>5. stores \in Seq(Store) /\ DOMAIN stores = DOMAIN nodes /\ \A j \in DOMAIN nodes : stores[j] = feed(j)
  <2> HIDE DEF feed
  <2>1. [j \in 1..Len(nodes) |-> feed(j)] \in [1..Len(nodes) -> Store] BY <1>4
  <2>2. Len(nodes) \in Nat /\ DOMAIN nodes = 1..Len(nodes) BY <1>2
  <2> QED BY <2>1, <2>2, FunctionSeq
<1>6. eof \in Seq(Mark) /\ Elems(eof) = {[type |-> "EOF"]} BY DEF Mark, Elems
<1>7. feedQ' = feedQ \o stores \o eof /\ now' = now + 1 BY <1>1 DEF SendStores
<1>8. UNCHANGED <<stock, lastTx, failed, loader, sync, tables, server, history>> BY DEF SendStores
<1>9. \A n \in Nodes : \A o \in Seq(Items) : StoreFeed(n, o).node = n BY DEF StoreFeed
<1>10. \A j \in DOMAIN nodes : nodes[j] \in Nodes /\ feed(j).node = nodes[j]
  BY <1>2, <1>3, <1>9
<1> HIDE DEF stores, eof, feed
<1>11. Elems(feedQ') = Elems(feedQ) \cup Elems(stores) \cup Elems(eof)
  <2>1. feedQ \in Seq(R) BY <1>0 DEF LoadOK
  <2>2. stores \in Seq(R) /\ eof \in Seq(R) BY <1>5, <1>6
  <2> HIDE DEF R
  <2>3. feedQ \o stores \in Seq(R) /\ Elems(feedQ \o stores) = Elems(feedQ) \cup Elems(stores)
    BY <2>1, <2>2, ElemsConcat
  <2>4. PICK x : x = feedQ \o stores OBVIOUS
  <2>5. x \in Seq(R) BY <2>3, <2>4
  <2>6. Elems(x \o eof) = Elems(x) \cup Elems(eof) BY <2>2, <2>5, ElemsConcat
  <2> QED BY <1>7, <2>3, <2>4, <2>6
<1>12. \A x : x \in Sent(k[2])' <=> x.node = k[2] /\ (x \in failed \/ (x \in Elems(feedQ') /\ x.type = "STORE"))
  BY <1>8 DEF Sent, Elems
<1>13. \A x : x \in Sent(k[2]) <=> x.node = k[2] /\ (x \in failed \/ (x \in Elems(feedQ) /\ x.type = "STORE"))
  BY DEF Sent
<1>14. Sent(k[2]) \subseteq Sent(k[2])' BY <1>11, <1>12, <1>13
<1>15. ASSUME NEW m \in Sent(k[2])', m \notin Sent(k[2]) PROVE TellsNow(m, k)
  <2>1. m \in Elems(stores) /\ m.node = k[2]
    <3>1. [type |-> "EOF"].type # "STORE" OBVIOUS
    <3>2. m \in Elems(feedQ') /\ m.type = "STORE" /\ m.node = k[2] /\ m \notin Elems(feedQ)
      BY <1>12, <1>13, <1>15
    <3> QED BY <1>6, <1>11, <3>1, <3>2
  <2>2. PICK j \in DOMAIN nodes : m = feed(j) BY <1>5, <2>1 DEF Elems
  <2>3. m = StoreFeed(k[2], order[k[2]]) /\ k[2] \in Nodes BY <1>10, <2>1, <2>2 DEF feed
  <2>4. order[k[2]] \in Orders(Listed(k[2])) BY <1>1, <2>3
  <2> QED BY <1>7, <2>3, <2>4, FeedTells
<1>16. StoresAside(k) BY <1>8, <1>14, <1>15, SameViews DEF StoresAside
<1>17. KeyAside(k) /\ SameMessages(k) /\ SameLines(k) /\ SameLog(k)
  BY <1>8, SameWhen DEF sync, tables, server, history
<1> QED BY <1>7, <1>16, <1>17, NearlySame

\* A message of the feed that is not of a store is taken.
LEMMA TailSent ==
  ASSUME TypeOK, NEW t \in Loaders, NEW type, type # "STORE", Receive(t, type), UNCHANGED failed
  PROVE  \A n : Sent(n)' = Sent(n)
<1> SUFFICES ASSUME NEW n PROVE Sent(n)' = Sent(n) OBVIOUS
<1>1. PICK x : x = Head(feedQ) OBVIOUS
<1>2. Elems(feedQ) = {x} \cup Elems(feedQ') /\ x.type # "STORE"
  <2>1. feedQ \in Seq(Store \cup Mark) BY DEF TypeOK, LoadOK
  <2> QED BY <1>1, <2>1, ElemsTail DEF Receive
<1>3. \A m : m \in Sent(n)' <=> m.node = n /\ (m \in failed \/ (m \in Elems(feedQ') /\ m.type = "STORE"))
  BY DEF Sent, Elems
<1>4. \A m : m \in Sent(n) <=> m.node = n /\ (m \in failed \/ (m \in Elems(feedQ) /\ m.type = "STORE"))
  BY DEF Sent
<1>5. \A m : m \in Sent(n)' <=> m \in Sent(n) BY <1>2, <1>3, <1>4
<1> QED BY <1>5

\* A thread that has no store in hand goes to another state without one.
LEMMA NoStoreInHand ==
  ASSUME NEW t \in Loaders, loader[t].st # "store", loader'[t].st # "store",
         \A u \in Loaders \ {t} : loader'[u] = loader[u], UNCHANGED chunkQ
  PROVE  /\ \A n : InHand(n)' = InHand(n)
         /\ \A k : SameLines(k)
<1>1. \A u \in Loaders : /\ loader'[u].st = "store" <=> loader[u].st = "store"
                         /\ loader[u].st = "store" => loader'[u] = loader[u]
  OBVIOUS
<1>2. ASSUME NEW n PROVE InHand(n)' = InHand(n)
  <2>1. \A x : x \in InHand(n)' <=> x \in InHand(n) BY <1>1 DEF InHand
  <2> QED BY <2>1
<1>3. ASSUME NEW k PROVE InTransit(k)' = InTransit(k)
  <2>1. \A l : l \in InTransit(k)' <=> l \in InTransit(k) BY <1>1, TransitMeans
  <2> QED BY <2>1
<1>4. ASSUME NEW k PROVE OneSpot(k)' = OneSpot(k)
  <2>1. \A u \in Loaders, j \in Nat : LoaderSpot(k, u, j)' <=> LoaderSpot(k, u, j)
    BY <1>1 DEF LoaderSpot
  <2>2. \A q, j : ChunkSpot(k, q, j)' <=> ChunkSpot(k, q, j) BY DEF ChunkSpot
  <2> QED BY <2>1, <2>2 DEF OneSpot
<1> QED BY <1>2, <1>3, <1>4 DEF SameLines

LEMMA SofAside ==
  ASSUME TypeOK, NEW t \in Loaders, ManageDeltaServer(t), NEW k \in Keys
  PROVE  Aside(k)
<1>1. /\ Receive(t, "SOF") /\ log' = {}
      /\ cut' = [j \in Keys |-> cut[j] \cup {e.tx : e \in {f \in log : f.key = j}}]
      /\ UNCHANGED <<env, failed, loader, sync, ctrl, supply, server, applied, drift>>
  BY DEF ManageDeltaServer
<1>2. SameStores(k) BY <1>1, TailSent, SameViews DEF SameStores
<1>3. cut'[k] = cut[k] \cup {e.tx : e \in {f \in log : f.key = k}} BY <1>1
<1>4. LogAside(k)
  <2>1. \A e \in Entries(k) : e.tx \in cut'[k] BY <1>3 DEF Entries
  <2>2. Entries(k)' = {} BY <1>1 DEF Entries
  <2> QED BY <1>3, <2>1, <2>2 DEF LogAside
<1>5. KeyAside(k) /\ SameMessages(k) /\ SameLines(k) /\ now' = now
  BY <1>1, SameWhen DEF env, sync, server
<1> QED BY <1>2, <1>4, <1>5, NearlySame

\* What an idle thread, or one that waits for the end of a feed, does besides.
LEMMA WaitAside ==
  ASSUME TypeOK, NEW t \in Loaders, NEW k \in Keys,
         ReceiveEOF(t) \/ SleepAgain(t) \/ SeeNoStatus(t) \/ TriggerFullSync(t)
  PROVE  Aside(k)
<1>0. loader \in [Loaders -> LoaderState] BY DEF TypeOK, LoadOK
<1>1. Sent(k[2])' = Sent(k[2])
  <2>1. CASE ReceiveEOF(t) BY <2>1, TailSent DEF ReceiveEOF
  <2>2. CASE SleepAgain(t) \/ SeeNoStatus(t) \/ TriggerFullSync(t)
    BY <2>2, SameViews DEF SleepAgain, SeeNoStatus, TriggerFullSync
  <2> QED BY <2>1, <2>2
<1>2. loader[t].st # "store" /\ loader'[t].st # "store" /\ \A u \in Loaders \ {t} : loader'[u] = loader[u]
  <2>1. CASE ReceiveEOF(t)
    <3>1. loader' = [loader EXCEPT ![t] = [st |-> "sleep", frames |-> 1]] /\ loader[t].st = "idle"
      BY <2>1 DEF ReceiveEOF, Receive
    <3>2. loader'[t] = [st |-> "sleep", frames |-> 1] BY <1>0, <3>1
    <3> QED BY <1>0, <3>1, <3>2
  <2>2. ASSUME loader[t].st \in {"sleep", "unwind"} 
        PROVE  loader[t] \in [st : {"sleep", "unwind"}, frames : Nat \ {0}]
    BY <1>0, <2>2 DEF LoaderState, Idle
  <2>3. CASE SleepAgain(t)
    <3>1. loader' = [loader EXCEPT ![t].frames = @ + 1] /\ loader[t].st = "sleep"
      BY <2>3 DEF SleepAgain
    <3> QED BY <1>0, <2>2, <3>1
  <2>4. CASE SeeNoStatus(t)
    <3>1. loader' = [loader EXCEPT ![t].st = "unwind"] /\ loader[t].st = "sleep"
      BY <2>4 DEF SeeNoStatus
    <3> QED BY <1>0, <2>2, <3>1
  <2>5. CASE TriggerFullSync(t)
    <3>1. loader' = [loader EXCEPT ![t] = Unwound(loader[t])] /\ loader[t].st = "unwind"
      BY <2>5 DEF TriggerFullSync
    <3>2. loader'[t] = Unwound(loader[t]) BY <1>0, <3>1
    <3>3. Unwound(loader[t]).st # "store" BY <2>2, <3>1 DEF Unwound, Idle
    <3> QED BY <1>0, <3>1, <3>2, <3>3
  <2> QED BY <2>1, <2>3, <2>4, <2>5
<1>3. UNCHANGED <<env, sync, tables, server, history>>
  BY DEF ReceiveEOF, SleepAgain, SeeNoStatus, TriggerFullSync
<1>4. SameLines(k) /\ InHand(k[2])' = InHand(k[2]) BY <1>2, <1>3, NoStoreInHand DEF sync
<1>5. SameStores(k) BY <1>1, <1>4 DEF SameStores
<1>6. KeyAside(k) /\ SameMessages(k) /\ SameLog(k) /\ now' = now
  BY <1>3, SameWhen DEF env, tables, server, history
<1> QED BY <1>4, <1>5, <1>6, NearlySame

\* The comparison of another store.
LEMMA CompareAside ==
  ASSUME TypeOK, NEW t \in Loaders, GetMismatch(t), NEW k \in Keys, Head(feedQ).node # k[2]
  PROVE  Aside(k)
<1>1. PICK m : m = Head(feedQ) /\ m.node # k[2] OBVIOUS
<1>2. /\ UNCHANGED <<now, stock, lastTx, failed, chunkQ, ctrl, log, supply, deltaQ, delta, cut>>
      /\ drift'[k] = drift[k] /\ applied'[k] = applied[k]
  BY <1>1, CompareWhat
<1>3. Sent(k[2])' = Sent(k[2]) /\ InHand(k[2])' = InHand(k[2])
  <2>1. PICK n : n = k[2] OBVIOUS
  <2>2. Sent(n)' = Sent(n) /\ InHand(n)' = InHand(n) BY <1>1, <2>1, CompareMoves
  <2> QED BY <2>1, <2>2
<1>4. InTransit(k)' = InTransit(k) /\ OneSpot(k)' = OneSpot(k) BY <1>1, CompareLines
<1>5. SameStores(k) /\ SameLines(k) BY <1>3, <1>4 DEF SameStores, SameLines
<1>6. KeyAside(k) BY <1>2 DEF KeyAside
<1>7. SameMessages(k) /\ SameLog(k) BY <1>2, SameWhen
<1> QED BY <1>2, <1>5, <1>6, <1>7, NearlySame

\* A thread hands its lines over to chunks at the end of the queue.
HandsOver(t, s, n, cs, new) ==
  /\ loader[t].st = "store" /\ loader[t].msg.node = n /\ loader[t].lines = s /\ s \in Seq(Line)
  /\ loader'[t] = Idle /\ \A u \in Loaders \ {t} : loader'[u] = loader[u]
  /\ cs = Chunks(s) /\ DOMAIN new = DOMAIN cs /\ chunkQ' = chunkQ \o new
  /\ \A q \in DOMAIN cs : new[q].node = n /\ new[q].lines = cs[q]
  /\ Elems(chunkQ') = Elems(chunkQ) \cup Elems(new)
  /\ Len(chunkQ) \in Nat
  /\ \A q \in DOMAIN chunkQ' :
       \/ q \in DOMAIN chunkQ /\ chunkQ'[q] = chunkQ[q]
       \/ \E r \in DOMAIN cs : r \in Nat /\ q = r + Len(chunkQ) /\ chunkQ'[q] = new[r]

LEMMA PushHandsOver ==
  ASSUME TypeOK, NEW t \in Loaders, PushInputForAdjustInventory(t)
  PROVE  \E s, n, cs, new : HandsOver(t, s, n, cs, new)
<1>1. PICK s : s = loader[t].lines OBVIOUS
<1>2. PICK n : n = loader[t].msg.node OBVIOUS
<1>3. PICK cs : cs = Chunks(s) OBVIOUS
<1>4. PICK new : new = NewChunks(s, n) OBVIOUS
<1>5. /\ s \in Seq(Line) /\ n \in Nodes /\ nextKey \in Nat /\ chunkQ \in Seq(Chunk)
      /\ loader \in [Loaders -> LoaderState] /\ loader[t].st = "store"
  <2>1. loader[t].st = "store" BY DEF PushInputForAdjustInventory
  <2>2. loader[t].lines \in Seq(Line) /\ loader[t].msg.node \in Nodes
    BY <2>1 DEF TypeOK, LoadOK, LoaderState, Idle, Store
  <2>3. nextKey \in Nat /\ chunkQ \in Seq(Chunk) BY DEF TypeOK, SyncOK
  <2>4. loader \in [Loaders -> LoaderState] BY DEF TypeOK, LoadOK
  <2> QED BY <1>1, <1>2, <2>1, <2>2, <2>3, <2>4
<1>6. new \in Seq(Chunk) BY <1>4, <1>5, NewChunksType
<1>7. loader' = [loader EXCEPT ![t] = Idle] /\ chunkQ' = chunkQ \o new
  BY <1>1, <1>2, <1>4 DEF PushInputForAdjustInventory, NewChunks
<1>8. DOMAIN new = DOMAIN cs /\ \A q \in DOMAIN cs : new[q].node = n /\ new[q].lines = cs[q]
  BY <1>3, <1>4 DEF NewChunks
<1>9. Elems(chunkQ') = Elems(chunkQ) \cup Elems(new) BY <1>5, <1>6, <1>7, ElemsConcat
<1>10. loader'[t] = Idle /\ \A u \in Loaders \ {t} : loader'[u] = loader[u] BY <1>5, <1>7
<1>11. ASSUME NEW q \in DOMAIN chunkQ'
       PROVE  \/ q \in DOMAIN chunkQ /\ chunkQ'[q] = chunkQ[q]
              \/ \E r \in DOMAIN cs : r \in Nat /\ q = r + Len(chunkQ) /\ chunkQ'[q] = new[r]
  <2>1. q \in 1..(Len(chunkQ) + Len(new)) /\ DOMAIN new = 1..Len(new) /\ DOMAIN chunkQ = 1..Len(chunkQ)
        /\ Len(new) \in Nat /\ Len(chunkQ) \in Nat
    BY <1>5, <1>6, <1>7
  <2>2. CASE q <= Len(chunkQ)
    <3>1. q \in DOMAIN chunkQ BY <2>1, <2>2
    <3>2. (chunkQ \o new)[q] = chunkQ[q] BY <1>5, <1>6, <2>1, <2>2
    <3> QED BY <1>7, <3>1, <3>2
  <2>3. CASE ~(q <= Len(chunkQ))
    <3>1. PICK r : r = q - Len(chunkQ) OBVIOUS
    <3>2. r \in 1..Len(new) /\ q = r + Len(chunkQ) BY <2>1, <2>3, <3>1
    <3>3. (chunkQ \o new)[q] = new[r] BY <1>5, <1>6, <2>1, <2>3, <3>1
    <3> QED BY <1>7, <1>8, <2>1, <3>2, <3>3
  <2> QED BY <2>2, <2>3
<1>12. Len(chunkQ) \in Nat BY <1>5
<1>13. HandsOver(t, s, n, cs, new)
  BY <1>1, <1>2, <1>3, <1>5, <1>7, <1>8, <1>9, <1>10, <1>11, <1>12, Zenon DEF HandsOver
<1> QED BY <1>13

\* No line is lost on the way, and none is made.
LEMMA HandedLines ==
  ASSUME NEW k, NEW t \in Loaders, NEW s, NEW n, NEW cs, NEW new, HandsOver(t, s, n, cs, new)
  PROVE  InTransit(k)' = InTransit(k)
<1>1. /\ loader[t].st = "store" /\ loader[t].msg.node = n /\ loader[t].lines = s /\ s \in Seq(Line)
      /\ loader'[t].st # "store" /\ \A u \in Loaders \ {t} : loader'[u] = loader[u]
      /\ cs = Chunks(s) /\ DOMAIN new = DOMAIN cs
      /\ \A q \in DOMAIN cs : new[q].node = n /\ new[q].lines = cs[q]
      /\ Elems(chunkQ') = Elems(chunkQ) \cup Elems(new)
  BY DEF HandsOver, Idle
<1>2. ASSUME NEW l, NEW c \in Elems(new), l \in LinesOf(k, c.lines) PROVE c.node = n /\ l \in LinesOf(k, s)
  <2>1. PICK q \in DOMAIN cs : c = new[q] BY <1>1 DEF Elems
  <2>2. PICK j \in DOMAIN cs[q] : l = cs[q][j] /\ l.item = k[1] BY <1>1, <1>2, <2>1 DEF LinesOf, Elems
  <2>3. Place(q, j) \in DOMAIN s /\ cs[q][j] = s[Place(q, j)] BY <1>1, ChunkPlaces
  <2>4. l \in LinesOf(k, s) BY <2>2, <2>3 DEF LinesOf, Elems
  <2> QED BY <1>1, <2>1, <2>4
<1>3. ASSUME NEW l \in LinesOf(k, s) PROVE \E c \in Elems(new) : c.node = n /\ l \in LinesOf(k, c.lines)
  <2>1. PICK i \in DOMAIN s : l = s[i] /\ l.item = k[1] BY DEF LinesOf, Elems
  <2>2. PICK q \in DOMAIN cs : \E j \in DOMAIN cs[q] : cs[q][j] = s[i] BY <1>1, ChunkPlaces
  <2>3. PICK j \in DOMAIN cs[q] : cs[q][j] = s[i] BY <2>2
  <2>4. l \in LinesOf(k, cs[q]) BY <2>1, <2>3 DEF LinesOf, Elems
  <2>5. new[q] \in Elems(new) /\ new[q].node = n /\ new[q].lines = cs[q] BY <1>1 DEF Elems
  <2> QED BY <2>4, <2>5
<1>4. ASSUME NEW l PROVE l \in InTransit(k)' <=> l \in InTransit(k)
  <2>1. l \in InTransit(k)' => l \in InTransit(k) BY <1>1, <1>2, TransitMeans
  <2>2. l \in InTransit(k) => l \in InTransit(k)' 
    <3>1. ASSUME NEW u \in Loaders, loader[u].st = "store", loader[u].msg.node = k[2],
                 l \in LinesOf(k, loader[u].lines)
          PROVE  l \in InTransit(k)'
      <4>1. CASE u = t
        <5>1. PICK c \in Elems(new) : c.node = n /\ l \in LinesOf(k, c.lines) BY <1>1, <1>3, <3>1, <4>1
        <5> QED BY <1>1, <3>1, <4>1, <5>1, TransitMeans
      <4>2. CASE u # t BY <1>1, <3>1, <4>2, TransitMeans
      <4> QED BY <4>1, <4>2
    <3>2. ASSUME NEW c \in Elems(chunkQ), c.node = k[2], l \in LinesOf(k, c.lines)
          PROVE  l \in InTransit(k)'
      BY <1>1, <3>2, TransitMeans
    <3> QED BY <3>1, <3>2, TransitMeans
  <2> QED BY <2>1, <2>2
<1> QED BY <1>4

\* The lines that are in one place go to one place.
LEMMA HandedSpots ==
  ASSUME NEW k, NEW t \in Loaders, NEW s, NEW n, NEW cs, NEW new, HandsOver(t, s, n, cs, new),
         OneSpot(k)
  PROVE  OneSpot(k)'
<1>1. /\ loader[t].st = "store" /\ loader[t].msg.node = n /\ loader[t].lines = s /\ s \in Seq(Line)
      /\ loader'[t].st # "store" /\ \A u \in Loaders \ {t} : loader'[u] = loader[u]
      /\ cs = Chunks(s) /\ DOMAIN new = DOMAIN cs
      /\ \A q \in DOMAIN cs : new[q].node = n /\ new[q].lines = cs[q]
      /\ Len(chunkQ) \in Nat
      /\ \A q \in DOMAIN chunkQ' :
           \/ q \in DOMAIN chunkQ /\ chunkQ'[q] = chunkQ[q]
           \/ \E r \in DOMAIN cs : r \in Nat /\ q = r + Len(chunkQ) /\ chunkQ'[q] = new[r]
  BY DEF HandsOver, Idle
<1> DEFINE Made(q, j, r) == /\ r \in DOMAIN cs /\ r \in Nat /\ q = r + Len(chunkQ) /\ j \in DOMAIN cs[r]
                            /\ LoaderSpot(k, t, Place(r, j)) /\ Place(r, j) \in Nat
<1>2. ASSUME NEW q \in Nat, NEW j \in Nat, ChunkSpot(k, q, j)'
      PROVE  ChunkSpot(k, q, j) \/ \E r : Made(q, j, r)
  <2>1. q \in DOMAIN chunkQ' /\ chunkQ'[q].node = k[2] /\ j \in DOMAIN chunkQ'[q].lines
        /\ chunkQ'[q].lines[j].item = k[1]
    BY <1>2 DEF ChunkSpot
  <2>2. CASE q \in DOMAIN chunkQ /\ chunkQ'[q] = chunkQ[q] BY <2>1, <2>2 DEF ChunkSpot
  <2>3. ASSUME NEW r \in DOMAIN cs, r \in Nat, q = r + Len(chunkQ), chunkQ'[q] = new[r]
        PROVE  Made(q, j, r)
    <3>1. n = k[2] /\ j \in DOMAIN cs[r] /\ cs[r][j].item = k[1] BY <1>1, <2>1, <2>3
    <3>2. Place(r, j) \in DOMAIN s /\ cs[r][j] = s[Place(r, j)] BY <1>1, <3>1, ChunkPlaces
    <3>3. Place(r, j) \in Nat BY <1>1, <3>2
    <3>4. LoaderSpot(k, t, Place(r, j)) BY <1>1, <3>1, <3>2 DEF LoaderSpot
    <3> QED BY <2>3, <3>1, <3>3, <3>4
  <2> QED BY <1>1, <2>1, <2>2, <2>3
<1>3. ASSUME NEW u \in Loaders, NEW j \in Nat, LoaderSpot(k, u, j)' PROVE u # t /\ LoaderSpot(k, u, j)
  BY <1>1, <1>3 DEF LoaderSpot
<1>4. ASSUME NEW q, NEW j, NEW r, NEW p, NEW i, NEW z, Made(q, j, r), Made(p, i, z) PROVE q = p /\ j = i
  <2>1. Place(r, j) = Place(z, i) BY <1>4 DEF OneSpot
  <2>2. r = z /\ j = i BY <1>1, <1>4, <2>1, ChunkPlaces
  <2> QED BY <1>4, <2>2
<1> HIDE DEF Made
<1>5. ASSUME NEW q \in Nat, NEW j \in Nat, NEW p, NEW i, NEW z, ChunkSpot(k, q, j), Made(p, i, z) PROVE FALSE
  BY <1>5 DEF OneSpot, Made
<1>6. ASSUME NEW u \in Loaders, u # t, NEW j \in Nat, NEW p, NEW i, NEW z, LoaderSpot(k, u, j), Made(p, i, z)
      PROVE  FALSE
  BY <1>6 DEF OneSpot, Made
<1>7. ASSUME NEW q \in Nat, NEW r \in Nat, NEW i \in Nat, NEW j \in Nat,
             ChunkSpot(k, q, i)', ChunkSpot(k, r, j)'
      PROVE  q = r /\ i = j
  <2>1. ChunkSpot(k, q, i) \/ \E z : Made(q, i, z) BY <1>2, <1>7
  <2>2. ChunkSpot(k, r, j) \/ \E z : Made(r, j, z) BY <1>2, <1>7
  <2>3. ChunkSpot(k, q, i) /\ ChunkSpot(k, r, j) => q = r /\ i = j BY DEF OneSpot
  <2> QED BY <1>4, <1>5, <2>1, <2>2, <2>3
<1>8. ASSUME NEW u \in Loaders, NEW q \in Nat, NEW i \in Nat, NEW j \in Nat,
             LoaderSpot(k, u, i)', ChunkSpot(k, q, j)'
      PROVE  FALSE
  <2>1. u # t /\ LoaderSpot(k, u, i) BY <1>3, <1>8
  <2>2. ChunkSpot(k, q, j) \/ \E z : Made(q, j, z) BY <1>2, <1>8
  <2>3. ~(LoaderSpot(k, u, i) /\ ChunkSpot(k, q, j)) BY DEF OneSpot
  <2> QED BY <1>6, <2>1, <2>2, <2>3
<1>9. ASSUME NEW u \in Loaders, NEW v \in Loaders, NEW i \in Nat, NEW j \in Nat,
             LoaderSpot(k, u, i)', LoaderSpot(k, v, j)'
      PROVE  u = v /\ i = j
  <2>1. LoaderSpot(k, u, i) /\ LoaderSpot(k, v, j) BY <1>3, <1>9
  <2> QED BY <2>1 DEF OneSpot
<1> QED BY <1>7, <1>8, <1>9 DEF OneSpot

\* A thread that is done with a store has it no longer in hand.
LEMMA LaidDown ==
  ASSUME NEW t \in Loaders, loader'[t].st # "store", \A u \in Loaders \ {t} : loader'[u] = loader[u]
  PROVE  \A n : InHand(n)' \subseteq InHand(n)
BY DEF InHand

LEMMA PushAside ==
  ASSUME TypeOK, NEW t \in Loaders, PushInputForAdjustInventory(t), NEW k \in Keys
  PROVE  Aside(k)
<1>1. PICK s, n, cs, new : HandsOver(t, s, n, cs, new) BY PushHandsOver
<1>2. InTransit(k)' = InTransit(k) /\ (OneSpot(k) => OneSpot(k)') BY <1>1, HandedLines, HandedSpots
<1>3. loader'[t].st # "store" /\ \A u \in Loaders \ {t} : loader'[u] = loader[u]
  BY <1>1 DEF HandsOver, Idle
<1>4. InHand(k[2])' \subseteq InHand(k[2]) BY <1>3, LaidDown
<1>5. UNCHANGED <<env, feedQ, failed, tables, server, history>> BY DEF PushInputForAdjustInventory
<1>6. StoresAside(k)
  <2>1. Sent(k[2])' = Sent(k[2]) BY <1>5, SameViews
  <2> QED BY <1>4, <2>1 DEF StoresAside
<1>7. LinesAside(k) BY <1>2 DEF LinesAside
<1>8. KeyAside(k) /\ SameMessages(k) /\ SameLog(k) /\ now' = now
  BY <1>5, SameWhen DEF env, tables, server, history
<1> QED BY <1>6, <1>7, <1>8, NearlySame

\* A store message whose handler throws waits again; supply already counts as
\* compared with it, so that it is lost until it is processed again.
LEMMA DuplicateAside ==
  ASSUME TypeOK, NEW t \in Loaders, DuplicateStatusKey(t), NEW k \in Keys, InHandInv(k)
  PROVE  Aside(k)
<1>1. /\ loader[t].st = "store" /\ failed' = failed \cup {loader[t].msg} /\ loader' = [loader EXCEPT ![t] = Idle]
      /\ UNCHANGED <<now, stock, lastTx, sending, feedQ, sync, tables, server, control, history>>
  BY DEF DuplicateStatusKey
<1>2. loader'[t].st # "store" /\ \A u \in Loaders \ {t} : loader'[u] = loader[u]
  BY <1>1 DEF TypeOK, LoadOK, Idle
<1>3. PICK m : m = loader[t].msg OBVIOUS
<1>4. PICK n : n = k[2] OBVIOUS
<1>5. m.node = n => m \in InHand(n) BY <1>1, <1>3 DEF InHand
<1>6. \A x : x \in Sent(n)' <=> x.node = n /\ (x \in failed' \/ (x \in Elems(feedQ) /\ x.type = "STORE"))
  BY <1>1 DEF Sent, Elems
<1>7. \A x : x \in Sent(n) <=> x.node = n /\ (x \in failed \/ (x \in Elems(feedQ) /\ x.type = "STORE"))
  BY DEF Sent
<1>8. Sent(n) \subseteq Sent(n)' /\ \A x \in Sent(n)' : x \in Sent(n) \/ (x = m /\ m.node = n)
  BY <1>1, <1>3, <1>6, <1>7
<1>9. InHand(n)' \subseteq InHand(n) BY <1>2, LaidDown
<1>10. StoresAside(k) BY <1>4, <1>5, <1>8, <1>9 DEF StoresAside
<1>11. m.node = n => m \in Sent(n)' BY <1>1, <1>3, <1>6
<1>12. m.node = n => Lost(k)'
  <2>1. m.node = n => m.gen <= applied[k] BY <1>4, <1>5 DEF InHandInv
  <2>2. applied'[k] = applied[k] BY <1>1 DEF history
  <2> QED BY <1>4, <1>11, <2>1, <2>2 DEF Lost
<1>13. chunkQ' = chunkQ BY <1>1 DEF sync
<1>14. InTransit(k)' \subseteq InTransit(k)
  <2>1. \A l : l \in InTransit(k)' => l \in InTransit(k) BY <1>2, <1>13, TransitMeans
  <2> QED BY <2>1
<1>15. m.node # n => InTransit(k)' = InTransit(k)
  <2>1. m.node # n => \A l : l \in InTransit(k)' <=> l \in InTransit(k)
    BY <1>2, <1>3, <1>4, <1>13, TransitMeans
  <2> QED BY <2>1
<1>16. OneSpot(k) => OneSpot(k)'
  <2>1. \A u \in Loaders, j \in Nat : LoaderSpot(k, u, j)' => LoaderSpot(k, u, j)
    BY <1>2 DEF LoaderSpot
  <2>2. \A q, j : ChunkSpot(k, q, j)' <=> ChunkSpot(k, q, j) BY <1>13 DEF ChunkSpot
  <2> QED BY <2>1, <2>2 DEF OneSpot
<1>17. LinesAside(k) BY <1>12, <1>14, <1>15, <1>16 DEF LinesAside
<1>18. KeyAside(k) /\ SameMessages(k) /\ SameLog(k)
  BY <1>1, SameWhen DEF tables, server, history
<1> QED BY <1>1, <1>10, <1>17, <1>18, NearlySame

\* A chunk is applied that has no line of the key, or one without lines fails.
LEMMA ChunkAside ==
  ASSUME TypeOK, NEW k \in Keys,
         \/ AdjustInventory /\ ~(k[2] = Head(chunkQ).node /\ LinesOf(k, Head(chunkQ).lines) # {})
         \/ RejectEmptyChunk
  PROVE  Aside(k)
<1>1. chunkQ # <<>> /\ chunkQ' = Tail(chunkQ)
      /\ UNCHANGED <<env, load, log, server, cut>>
  BY DEF AdjustInventory, RejectEmptyChunk, tables, history
<1>2. Head(chunkQ).node # k[2] \/ LinesOf(k, Head(chunkQ).lines) = {}
  <2>1. RejectEmptyChunk => LinesOf(k, Head(chunkQ).lines) = {}
    BY DEF RejectEmptyChunk, LinesOf, Elems
  <2> QED BY <2>1
<1>3. LinesAside(k)
  <2>1. UNCHANGED loader BY <1>1 DEF load
  <2>2. InTransit(k)' = InTransit(k) /\ (OneSpot(k) => OneSpot(k)') BY <1>1, <1>2, <2>1, TakenLines
  <2> QED BY <2>2 DEF LinesAside
<1>4. ctrl'[k] = ctrl[k] /\ supply'[k] = supply[k] /\ applied'[k] = applied[k] /\ drift'[k] = drift[k]
  <2>1. CASE AdjustInventory
    <3>1. PICK c : c = Head(chunkQ) OBVIOUS
    <3>2. ~(k[2] = c.node /\ LinesOf(k, c.lines) # {}) BY <1>2, <3>1
    <3>3. ctrl'[k] = ctrl[k] BY <2>1, <3>1, <3>2 DEF AdjustInventory
    <3>4. supply'[k] = supply[k] BY <2>1, <3>1, <3>2 DEF AdjustInventory
    <3>5. applied'[k] = applied[k] BY <2>1, <3>1, <3>2 DEF AdjustInventory
    <3>6. drift'[k] = (drift[k] \/ FALSE) BY <2>1, <3>1, <3>2 DEF AdjustInventory
    <3>7. drift[k] \in BOOLEAN BY KeyTypes
    <3>8. drift'[k] = drift[k] BY <3>6, <3>7
    <3> QED BY <3>3, <3>4, <3>5, <3>8
  <2>2. CASE RejectEmptyChunk BY <2>2 DEF RejectEmptyChunk, tables, history
  <2> QED BY <2>1, <2>2
<1>5. KeyAside(k) BY <1>1, <1>4 DEF KeyAside, env
<1>6. SameMessages(k) /\ SameStores(k) /\ SameLog(k) /\ now' = now
  BY <1>1, SameWhen DEF env, load, server
<1> QED BY <1>3, <1>5, <1>6, NearlySame

\* The rest of what the delta server does leaves everything else as it is.
LEMMA OnlyMessages ==
  ASSUME NEW k, UNCHANGED <<env, load, sync, tables, history>>, MessagesAside(k)
  PROVE  Aside(k)
<1>1. KeyAside(k) /\ SameStores(k) /\ SameLines(k) /\ SameLog(k) /\ now' = now
  BY SameWhen DEF env, load, sync, tables, history
<1> QED BY <1>1, NearlySame

\* An instance goes on, with the message that it has, or none.
LEMMA KeepsMessage ==
  ASSUME NEW c \in Consumers, UNCHANGED deltaQ, \A d \in Consumers \ {c} : delta'[d] = delta[d],
         Busy(c)' = Busy(c), Busy(c) => delta'[c].msg = delta[c].msg, NEW k
  PROVE  MessagesAside(k)
<1>1. \A d \in Consumers : /\ Busy(d)' <=> Busy(d)
                           /\ Busy(d) => delta'[d].msg = delta[d].msg
  BY DEF Busy
<1>2. \A p : p \in Pending(k)' <=> p \in Pending(k) BY <1>1 DEF Pending
<1> QED BY <1>2 DEF MessagesAside

\* A message that the control record lets pass is not dropped.
LEMMA PassesWhenBelow ==
  ASSUME Base, NEW k \in Keys, KeyInv(k), NEW p \in Pending(k), Below(ctrl[k], p)
  PROVE  Applicable(p)
<1>1. p.key = k /\ p.tx \in Times /\ p.gen \in Times BY PendingFacts DEF Base
<1>2. PICK h \in [Nat -> Int] : Told(k, h) BY DEF KeyInv, Story
<1>3. p.gen = p.tx BY <1>2 DEF Told
<1>4. ctrl[k].tx \in Times \cup {0} /\ ctrl[k].gen \in Times \cup {0} BY DEF Base, DatesInv, CtrlDated
<1>5. \A d \in Times \cup {0} : d < p.tx => CanApply(p.tx, d)
  <2> SUFFICES ASSUME NEW d \in Times, d < p.tx PROVE CanApply(p.tx, d)
    BY DEF CanApply
  <2>1. p.tx > d BY <1>1 DEF Times
  <2>2. Later(p.tx, d) BY <1>1, <2>1, GreaterIsLater
  <2> QED BY <2>2 DEF CanApply
<1>6. CanApply(p.tx, ctrl[k].tx) /\ CanApply(p.gen, ctrl[k].gen) BY <1>3, <1>4, <1>5 DEF Below
<1> QED BY <1>1, <1>6 DEF Applicable

LEMMA ServerAside ==
  ASSUME Base, NEW c \in Consumers, NEW k \in Keys, KeyInv(k),
         \/ \E m \in deltaQ : ReceiveDelta(c, m)
         \/ SleepTillEOF(c) \/ ReadTables(c) \/ StopServer(c)
  PROVE  Aside(k)
<1>0. TypeOK /\ OneEach /\ delta \in [Consumers -> ConsumerState] BY DEF Base, TypeOK, ServerOK
<1>1. ASSUME NEW m \in deltaQ, ReceiveDelta(c, m) PROVE Aside(k)
  <2>1. /\ delta[c].st = "idle" /\ deltaQ' = deltaQ \ {m}
        /\ delta' = [delta EXCEPT ![c] = [st |-> "sleep", msg |-> m]]
        /\ UNCHANGED <<env, load, sync, tables, history>>
    BY <1>1 DEF ReceiveDelta
  <2>2. /\ ~Busy(c) /\ Busy(c)' /\ delta'[c].msg = m
        /\ \A d \in Consumers \ {c} : delta'[d] = delta[d] /\ Busy(d)' = Busy(d)
    BY <1>0, <2>1 DEF Busy
  <2>3. \A p : p \in Pending(k)' <=>
          (p \in deltaQ' /\ p.key = k) \/ \E d \in Consumers : Busy(d)' /\ p = delta'[d].msg /\ p.key = k
    BY DEF Pending, Busy
  <2>4. \A p : p \in Pending(k) <=>
          (p \in deltaQ /\ p.key = k) \/ \E d \in Consumers : Busy(d) /\ p = delta[d].msg /\ p.key = k
    BY DEF Pending
  <2>5. \A p : p \in Pending(k)' <=> p \in Pending(k) BY <2>1, <2>2, <2>3, <2>4
  <2>6. MessagesAside(k) BY <2>5 DEF MessagesAside
  <2> QED BY <2>1, <2>6, OnlyMessages
<1>2. CASE SleepTillEOF(c)
  <2>1. delta' = [delta EXCEPT ![c] = [delta[c] EXCEPT !.st = "awake"]] /\ UNCHANGED deltaQ
        /\ UNCHANGED <<env, load, sync, tables, history>> /\ delta[c].st = "sleep"
    BY <1>0, <1>2 DEF SleepTillEOF
  <2>2. delta[c] \in [st : {"sleep", "awake"}, msg : Delta]
    BY <1>0, <2>1 DEF ConsumerState, Idle, Down
  <2>3. delta'[c].msg = delta[c].msg /\ delta'[c].st = "awake" BY <1>0, <2>1, <2>2
  <2>4. \A d \in Consumers \ {c} : delta'[d] = delta[d] BY <1>0, <2>1
  <2>5. Busy(c)' = Busy(c) BY <2>1, <2>3 DEF Busy
  <2>6. MessagesAside(k) BY <2>1, <2>3, <2>4, <2>5, KeepsMessage
  <2> QED BY <2>1, <2>6, OnlyMessages
<1>3. CASE ReadTables(c)
  <2> DEFINE m == delta[c].msg
             q == m.qty + (IF m.abs THEN LogTotal(m.key, m.tx) ELSE 0)
             s == [st |-> "write", msg |-> m, qty |-> q]
  <2>1. /\ delta[c].st = "awake" /\ UNCHANGED deltaQ /\ UNCHANGED <<env, load, sync, tables, history>>
        /\ delta' = [delta EXCEPT ![c] = IF Applicable(m) THEN s ELSE Idle]
    BY <1>3 DEF ReadTables
  <2>2. s.msg = m /\ s.st = "write" OBVIOUS
  <2>3. Busy(c) BY <2>1 DEF Busy
  <2> HIDE DEF s
  <2>4. CASE Applicable(m)
    <3>1. delta'[c].msg = m /\ delta'[c].st = "write" /\ \A d \in Consumers \ {c} : delta'[d] = delta[d]
      BY <1>0, <2>1, <2>2, <2>4
    <3>2. Busy(c)' = Busy(c) BY <2>3, <3>1 DEF Busy
    <3>3. MessagesAside(k) BY <2>1, <3>1, <3>2, KeepsMessage
    <3> QED BY <2>1, <3>3, OnlyMessages
  <2>5. CASE ~Applicable(m)
    <3>1. delta' = [delta EXCEPT ![c] = Idle] BY <2>1, <2>5
    <3>2. m.key # k => Pending(k)' = Pending(k) BY <1>0, <2>1, <2>3, <3>1, WorkedOff
    <3>3. m.key = k => m \in Pending(k) /\ Pending(k)' = Pending(k) \ {m}
      BY <1>0, <2>1, <2>3, <3>1, WorkedOff
    <3>4. m \in Pending(k) => ~Below(ctrl[k], m) BY <2>5, PassesWhenBelow
    <3>5. MessagesAside(k)
      <4> HIDE DEF m
      <4> QED BY <3>2, <3>3, <3>4 DEF MessagesAside
    <3> QED BY <2>1, <3>5, OnlyMessages
  <2> QED BY <2>4, <2>5
<1>4. CASE StopServer(c)
  <2>1. delta' = [delta EXCEPT ![c] = Down] /\ UNCHANGED deltaQ /\ delta[c].st = "idle"
        /\ UNCHANGED <<env, load, sync, tables, history>>
    BY <1>4 DEF StopServer
  <2>2. ~Busy(c) /\ Busy(c)' = Busy(c) /\ \A d \in Consumers \ {c} : delta'[d] = delta[d]
    BY <1>0, <2>1 DEF Busy, Down
  <2>3. MessagesAside(k) BY <2>1, <2>2, KeepsMessage
  <2> QED BY <2>1, <2>3, OnlyMessages
<1> QED BY <1>1, <1>2, <1>3, <1>4

LEMMA ScriptAside ==
  ASSUME TypeOK, NEW k \in Keys, RunStopScript \/ RunStartScript
  PROVE  Aside(k)
<1>0. delta \in [Consumers -> ConsumerState] BY DEF TypeOK, ServerOK
<1>1. UNCHANGED <<env, load, sync, tables, history, deltaQ>> BY DEF RunStopScript, RunStartScript
<1>2. UNCHANGED delta \/ \E c \in Consumers : delta[c].st = "down" /\ delta' = [delta EXCEPT ![c] = Idle]
  BY DEF RunStopScript, RunStartScript
<1>3. MessagesAside(k)
  <2>1. CASE UNCHANGED delta
    <3>1. SameMessages(k) BY <1>1, <2>1, SameWhen
    <3> QED BY <3>1 DEF SameMessages, MessagesAside
  <2>2. ASSUME NEW c \in Consumers, delta[c].st = "down", delta' = [delta EXCEPT ![c] = Idle]
        PROVE  MessagesAside(k)
    <3>1. ~Busy(c) /\ Busy(c)' = Busy(c) /\ \A d \in Consumers \ {c} : delta'[d] = delta[d]
      BY <1>0, <2>2 DEF Busy, Idle
    <3> QED BY <1>1, <3>1, KeepsMessage
  <2> QED BY <1>2, <2>1, <2>2
<1> QED BY <1>1, <1>3, OnlyMessages

\* A message about another key reaches supply.
LEMMA WriteAside ==
  ASSUME Base, NEW c \in Consumers, ApplyDelta(c) \/ ApplyCount(c),
         NEW k \in Keys, k # delta[c].msg.key
  PROVE  Aside(k)
<1>0. TypeOK /\ OneEach /\ TablesOK /\ HistoryOK BY DEF Base, TypeOK
<1>1. PICK j : j = delta[c].msg.key OBVIOUS
<1>2. /\ delta' = [delta EXCEPT ![c] = Idle] /\ applied' = [applied EXCEPT ![j] = Latest(@, delta[c].msg.tx)]
      /\ UNCHANGED <<env, load, sync, deltaQ, cut>> /\ Busy(c)
  BY <1>1 DEF ApplyDelta, ApplyCount, Written, Busy
<1>3. supply'[k] = supply[k] /\ ctrl'[k] = ctrl[k] /\ drift'[k] = drift[k] /\ applied'[k] = applied[k]
  <2>1. supply'[k] = supply[k] /\ ctrl'[k] = ctrl[k] BY <1>0, <1>1 DEF ApplyDelta, ApplyCount, TablesOK
  <2>2. drift'[k] = drift[k] BY <1>0, <1>1 DEF ApplyDelta, ApplyCount, HistoryOK
  <2>3. applied'[k] = applied[k] BY <1>0, <1>1, <1>2 DEF HistoryOK
  <2> QED BY <2>1, <2>2, <2>3
<1>4. SameLog(k)
  <2>1. CASE ApplyDelta(c)
    <3>1. PICK e : e = [key |-> j, qty |-> delta[c].msg.qty, tx |-> delta[c].msg.tx] OBVIOUS
    <3>2. e.key # k /\ log' = log \cup {e} BY <1>1, <2>1, <3>1 DEF ApplyDelta
    <3> QED BY <1>2, <3>2 DEF SameLog, Entries
  <2>2. CASE ApplyCount(c) BY <1>2, <2>2, SameWhen DEF ApplyCount
  <2> QED BY <2>1, <2>2
<1>5. SameMessages(k)
  <2>1. Pending(k)' = Pending(k) BY <1>0, <1>2, WorkedOff
  <2> QED BY <2>1 DEF SameMessages
<1>6. KeyAside(k) BY <1>2, <1>3 DEF KeyAside, env
<1>7. SameStores(k) /\ SameLines(k) /\ now' = now BY <1>2, SameWhen DEF env, load, sync
<1> QED BY <1>4, <1>5, <1>6, <1>7, NearlySame

\* Nothing happens.
LEMMA StutterAside ==
  ASSUME NEW k, UNCHANGED vars
  PROVE  Aside(k)
<1>1. KeyAside(k) /\ SameMessages(k) /\ SameStores(k) /\ SameLines(k) /\ SameLog(k) /\ now' = now
  BY SameWhen DEF vars, env, load, sync, tables, server, history
<1> QED BY <1>1, NearlySame

-----------------------------------------------------------------------------
(* Convergence                                                             *)

ConvInv == Base /\ \A k \in Keys : KeyInv(k)

LEMMA BaseStart == Init /\ NothingAtNoon => Base
<1> SUFFICES ASSUME Init, NothingAtNoon PROVE Base OBVIOUS
<1>1. TypeOK /\ DatesInv BY InitType, DatesStart
<1>2. \A c \in Consumers : ~Busy(c) BY DEF Init, Busy, Idle, Down
<1>3. OneEach BY <1>2 DEF Init, OneEach
<1>4. LogDated BY DEF Init, LogDated
<1>5. ReadInv BY <1>2 DEF ReadInv, Busy
<1> QED BY <1>1, <1>3, <1>4, <1>5 DEF Base

LEMMA KeyInvStart ==
  ASSUME Init, TypeOK, NEW k \in Keys
  PROVE  KeyInv(k)
<1>1. /\ now = 1 /\ applied[k] = 1 /\ lastTx[k] = 1 /\ ctrl[k] = NoRecord /\ cut[k] = {} /\ log = {}
      /\ drift[k] = (supply[k] # stock[k])
  BY DEF Init
<1>2. Pending(k) = {} /\ Due(k) = {}
  <2>1. \A c \in Consumers : ~Busy(c) BY DEF Init, Busy, Idle, Down
  <2>2. Pending(k) = {} BY <2>1 DEF Init, Pending
  <2> QED BY <2>2 DEF Due
<1>3. \A t \in Loaders : loader[t].st # "store" BY DEF Init, Idle
<1>4. InTransit(k) = {}
  <2>1. Elems(chunkQ) = {} BY DEF Init, Elems
  <2>2. \A l : l \notin InTransit(k) BY <1>3, <2>1, TransitMeans
  <2> QED BY <2>2
<1>5. Sent(k[2]) = {} /\ InHand(k[2]) = {}
  <2>1. Elems(feedQ) = {} /\ failed = {} BY DEF Init, Elems
  <2>2. Sent(k[2]) = {} BY <2>1 DEF Sent
  <2>3. InHand(k[2]) = {} BY <1>3 DEF InHand
  <2> QED BY <2>2, <2>3
<1>6. Entries(k) = {} /\ \A t : EntriesAfter(k, t) = {} BY <1>1 DEF Entries, EntriesAfter
<1>7. stock[k] \in Int /\ supply[k] \in Int BY KeyTypes
<1>8. Facts(k)
  <2>1. KeyBounds(k) BY <1>1 DEF KeyBounds, NoRecord
  <2>2. LogInv(k) BY <1>6 DEF LogInv
  <2>3. Behind(k) BY <1>2 DEF Behind
  <2>4. LinesInv(k) BY <1>4 DEF LinesInv
  <2>5. InHandInv(k) BY <1>5 DEF InHandInv
  <2> QED BY <2>1, <2>2, <2>3, <2>4, <2>5 DEF Facts
<1>9. PICK h \in [Nat -> Int] : h[1] = stock[k]
  <2>1. [n \in Nat |-> stock[k]] \in [Nat -> Int] /\ [n \in Nat |-> stock[k]][1] = stock[k] BY <1>7
  <2> QED BY <2>1
<1>10. PICK a \in [Nat -> Int] : a[1] = 0
  <2>1. [n \in Nat |-> 0] \in [Nat -> Int] /\ [n \in Nat |-> 0][1] = 0 OBVIOUS
  <2> QED BY <2>1
<1>11. \A t \in 1..(now - 1) : FALSE BY <1>1
<1>12. Told(k, h) BY <1>1, <1>2, <1>9 DEF Told
<1>13. Still(k, h) BY <1>11 DEF Still
<1>14. FeedInv(k, h) BY <1>5 DEF FeedInv
<1>15. Claim(k, h)
  <2> SUFFICES ASSUME ~drift[k] PROVE OneSpot(k) /\ Accounts(k, h, 1, a)
    BY DEF Claim
  <2>1. OneSpot(k) BY <1>4, NoSpot
  <2>2. Balance(k, h, 1, a) BY <1>11 DEF Balance
  <2>3. Logged(k, 1, a)
    <3>1. \A t \in 1..now : a[t] = 0 BY <1>1, <1>10
    <3>2. \A t : After(k, t) = 0 BY <1>6, AfterNone
    <3> QED BY <3>1, <3>2 DEF Logged
  <2>4. Ahead(k, 1) BY <1>2 DEF Ahead
  <2>5. OnRecord(k, h, 1, a)
    <3>1. supply[k] = stock[k] BY <1>1
    <3>2. supply[k] = h[1] + a[1] BY <1>7, <1>9, <1>10, <3>1
    <3> QED BY <1>2, <3>2 DEF OnRecord
  <2>6. OnTheWay(k, h, 1, a) BY <1>4 DEF OnTheWay
  <2>7. 1 \in 1..now /\ a[now] = 0 BY <1>1, <1>10
  <2> QED BY <2>1, <2>2, <2>3, <2>4, <2>5, <2>6, <2>7 DEF Accounts
<1> QED BY <1>8, <1>12, <1>13, <1>14, <1>15 DEF KeyInv, Story

\* A movement or a count is sent for the key itself.
LEMMA OwnSend ==
  ASSUME Base, NEW k \in Keys, KeyInv(k),
         (\E d \in {-1, 1} : Post(k, d)) \/ (\E q \in InitialSupply : Count(k, q))
  PROVE  KeyInv(k)'
<1>0. TypeOK /\ EnvOK BY DEF Base, TypeOK
<1>1. ASSUME NEW b \in BOOLEAN, NEW q \in Int, NEW p,
             p = [abs |-> b, key |-> k, qty |-> q, tx |-> now', gen |-> now'],
             now' = now + 1, deltaQ' = deltaQ \cup {p},
             UNCHANGED <<delta, load, sync, tables, history>>,
             stock'[k] = (IF b THEN q ELSE stock[k] + q), lastTx'[k] = now'
      PROVE  KeyInv(k)'
  <2>1. p \in Delta BY <1>0, <1>1 DEF Delta, EnvOK
  <2>2. p.abs = b /\ p.key = k /\ p.qty = q /\ p.tx = now' /\ p.gen = now' BY <1>1
  <2>3. Pending(k)' = Pending(k) \cup {p}
    <3>1. \A x : x \in Pending(k)' <=>
            (x \in deltaQ' /\ x.key = k) \/ \E d \in Consumers : Busy(d) /\ x = delta[d].msg /\ x.key = k
      BY <1>1 DEF Pending, Busy
    <3>2. \A x : x \in Pending(k) <=>
            (x \in deltaQ /\ x.key = k) \/ \E d \in Consumers : Busy(d) /\ x = delta[d].msg /\ x.key = k
      BY DEF Pending
    <3>3. \A x : x \in Pending(k)' <=> x \in Pending(k) \/ x = p BY <1>1, <2>2, <3>1, <3>2
    <3> QED BY <3>3
  <2>4. /\ Sent(k[2])' = Sent(k[2]) /\ InHand(k[2])' = InHand(k[2])
        /\ InTransit(k)' = InTransit(k) /\ OneSpot(k)' = OneSpot(k)
    BY <1>1, SameViews DEF load, sync
  <2>5. /\ applied'[k] = applied[k] /\ supply'[k] = supply[k] /\ drift'[k] = drift[k] /\ ctrl'[k] = ctrl[k]
        /\ UNCHANGED <<log, cut>>
    BY <1>1 DEF tables, history
  <2>6. stock'[k] = (IF p.abs THEN p.qty ELSE stock[k] + p.qty) BY <1>1, <2>2
  <2>7. Sends(k, p) BY <1>1, <2>2, <2>3, <2>4, <2>5, <2>6 DEF Sends
  <2> QED BY <2>1, <2>7, SendKeeps
<1>2. ASSUME NEW d \in {-1, 1}, Post(k, d) PROVE KeyInv(k)'
  <2>1. PICK p : p = [abs |-> FALSE, key |-> k, qty |-> d, tx |-> now', gen |-> now'] OBVIOUS
  <2>2. /\ now' = now + 1 /\ deltaQ' = deltaQ \cup {p}
        /\ UNCHANGED <<delta, load, sync, tables, history>>
        /\ stock'[k] = stock[k] + d /\ lastTx'[k] = now'
    BY <1>0, <1>2, <2>1 DEF Post, Spend, EnvOK
  <2>3. d \in Int /\ FALSE \in BOOLEAN OBVIOUS
  <2> QED BY <1>1, <2>1, <2>2, <2>3
<1>3. ASSUME NEW q \in InitialSupply, Count(k, q) PROVE KeyInv(k)'
  <2>1. PICK p : p = [abs |-> TRUE, key |-> k, qty |-> q, tx |-> now', gen |-> now'] OBVIOUS
  <2>2. /\ now' = now + 1 /\ deltaQ' = deltaQ \cup {p}
        /\ UNCHANGED <<delta, load, sync, tables, history>>
        /\ stock'[k] = q /\ lastTx'[k] = now'
    BY <1>0, <1>3, <2>1 DEF Count, Spend, EnvOK
  <2>3. q \in Int /\ TRUE \in BOOLEAN BY BoundsAssumption
  <2> QED BY <1>1, <2>1, <2>2, <2>3
<1> QED BY <1>2, <1>3

LEMMA KeyInvKeeps ==
  ASSUME Base, TypeOK', [Next]_vars, NEW k \in Keys, KeyInv(k)
  PROVE  KeyInv(k)'
<1>0. TypeOK BY DEF Base
<1>1. CASE Outside
  <2>1. ASSUME NEW j \in Keys, NEW d \in {-1, 1}, Post(j, d) PROVE KeyInv(k)'
    <3>1. CASE j = k BY <2>1, <3>1, OwnSend
    <3>2. CASE j # k
      <4>1. Aside(k) BY <1>0, <2>1, <3>2, OtherKeyAside
      <4> QED BY <4>1, AsideKeeps
    <3> QED BY <3>1, <3>2
  <2>2. ASSUME NEW j \in Keys, NEW q \in InitialSupply, Count(j, q) PROVE KeyInv(k)'
    <3>1. CASE j = k BY <2>2, <3>1, OwnSend
    <3>2. CASE j # k
      <4>1. Aside(k) BY <1>0, <2>2, <3>2, OtherKeyAside
      <4> QED BY <4>1, AsideKeeps
    <3> QED BY <3>1, <3>2
  <2>3. ASSUME NEW j \in Keys, Ship(j) PROVE KeyInv(k)'
    <3>1. CASE j = k BY <2>3, <3>1, ShipKeeps
    <3>2. CASE j # k
      <4>1. Aside(k) BY <1>0, <2>3, <3>2, OtherKeyAside
      <4> QED BY <4>1, AsideKeeps
    <3> QED BY <3>1, <3>2
  <2>4. CASE SendStores BY <2>4, SendStoresAside, AsideKeeps
  <2>5. CASE SendSOF \/ Reprocess BY <1>0, <2>5, ResendAside, AsideKeeps
  <2> QED BY <1>1, <2>1, <2>2, <2>3, <2>4, <2>5 DEF Outside
<1>2. ASSUME NEW t \in Loaders, LoadStep(t) PROVE KeyInv(k)'
  <2>1. CASE ManageDeltaServer(t) BY <1>0, <2>1, SofAside, AsideKeeps
  <2>2. CASE GetMismatch(t)
    <3>1. CASE Head(feedQ).node = k[2] BY <2>2, <3>1, CompareKeeps
    <3>2. CASE Head(feedQ).node # k[2] BY <1>0, <2>2, <3>2, CompareAside, AsideKeeps
    <3> QED BY <3>1, <3>2
  <2>3. CASE PushInputForAdjustInventory(t) BY <1>0, <2>3, PushAside, AsideKeeps
  <2>4. CASE DuplicateStatusKey(t)
    <3>1. InHandInv(k) BY DEF KeyInv, Facts
    <3> QED BY <1>0, <2>4, <3>1, DuplicateAside, AsideKeeps
  <2>5. CASE ReceiveEOF(t) \/ SleepAgain(t) \/ SeeNoStatus(t) \/ TriggerFullSync(t)
    BY <1>0, <2>5, WaitAside, AsideKeeps
  <2> QED BY <1>2, <2>1, <2>2, <2>3, <2>4, <2>5 DEF LoadStep
<1>3. CASE AdjustInventory
  <2>1. CASE k[2] = Head(chunkQ).node /\ LinesOf(k, Head(chunkQ).lines) # {}
    BY <1>3, <2>1, AdjustKeeps
  <2>2. CASE ~(k[2] = Head(chunkQ).node /\ LinesOf(k, Head(chunkQ).lines) # {})
    BY <1>0, <1>3, <2>2, ChunkAside, AsideKeeps
  <2> QED BY <2>1, <2>2
<1>4. CASE RejectEmptyChunk BY <1>0, <1>4, ChunkAside, AsideKeeps
<1>5. ASSUME NEW c \in Consumers, DeltaStep(c) PROVE KeyInv(k)'
  <2>1. CASE (\E m \in deltaQ : ReceiveDelta(c, m)) \/ SleepTillEOF(c) \/ ReadTables(c) \/ StopServer(c)
    BY <2>1, ServerAside, AsideKeeps
  <2>2. CASE k # delta[c].msg.key /\ (ApplyDelta(c) \/ ApplyCount(c))
    BY <2>2, WriteAside, AsideKeeps
  <2>3. CASE k = delta[c].msg.key /\ ApplyDelta(c) BY <2>3, DeltaKeeps
  <2>4. CASE k = delta[c].msg.key /\ ApplyCount(c) BY <2>4, CountKeeps
  <2> QED BY <1>5, <2>1, <2>2, <2>3, <2>4 DEF DeltaStep
<1>6. CASE RunStopScript \/ RunStartScript BY <1>0, <1>6, ScriptAside, AsideKeeps
<1>7. CASE UNCHANGED vars BY <1>7, StutterAside, AsideKeeps
<1> QED BY <1>1, <1>2, <1>3, <1>4, <1>5, <1>6, <1>7 DEF Next

LEMMA BaseKeeps == Base /\ [Next]_vars /\ NothingAtNoon' => Base' /\ TypeOK'
<1> SUFFICES ASSUME Base, [Next]_vars, NothingAtNoon' PROVE Base' /\ TypeOK' OBVIOUS
<1>0. TypeOK /\ DatesInv /\ OneEach /\ LogDated /\ ReadInv BY DEF Base
<1>1. TypeOK'
  BY <1>0, OutsideType, LoadType, AdjustType, DeltaType, ScriptType, StutterType DEF Next
<1>2. DatesInv' BY <1>0, DatesNext
<1>3. OneEach' BY <1>0, OneEachKeeps DEF DatesInv
<1>4. LogDated' BY <1>0, <1>2, LogDatedKeeps
<1>5. ReadInv' BY <1>0, ReadInvKeeps
<1> QED BY <1>1, <1>2, <1>3, <1>4, <1>5 DEF Base

\* When nothing that speaks of an item is under way any more, what is on record
\* is what is in the store, unless one of the noted interleavings took place.
THEOREM Convergence == Spec /\ []NothingAtNoon => []Converged
<1>1. Init /\ NothingAtNoon => ConvInv
  BY BaseStart, KeyInvStart DEF ConvInv, Base
<1>2. ConvInv /\ [Next]_vars /\ NothingAtNoon' => ConvInv'
  BY BaseKeeps, KeyInvKeeps DEF ConvInv
<1>3. ConvInv => Converged BY QuietConverges DEF ConvInv, Converged
<1> QED BY <1>1, <1>2, <1>3, PTL DEF Spec
=============================================================================
