--------------------------- MODULE InvSyncProofs ---------------------------
(***************************************************************************)
(* Theorems about InvSync, for every value of its constants.               *)
(***************************************************************************)
EXTENDS InvSync, DataInduction

-----------------------------------------------------------------------------
(* Sequences and chunks *)

\* What a queue holds after a message is added or taken.
LEMMA ElemsConcat ==
  ASSUME NEW S, NEW s \in Seq(S), NEW t \in Seq(S)
  PROVE  Elems(s \o t) = Elems(s) \cup Elems(t)
<1>1. \A e : e \in Elems(s) \cup Elems(t) => e \in Elems(s \o t)
  <2> SUFFICES ASSUME NEW e, e \in Elems(s) \cup Elems(t) PROVE e \in Elems(s \o t)
    OBVIOUS
  <2>1. CASE e \in Elems(s)
    <3>1. PICK j \in DOMAIN s : e = s[j] BY <2>1 DEF Elems
    <3>2. j \in DOMAIN (s \o t) /\ (s \o t)[j] = s[j] BY <3>1
    <3> QED BY <3>1, <3>2 DEF Elems
  <2>2. CASE e \in Elems(t)
    <3>1. PICK j \in DOMAIN t : e = t[j] BY <2>2 DEF Elems
    <3>2. Len(s) + j \in DOMAIN (s \o t) /\ (s \o t)[Len(s) + j] = t[j] BY <3>1
    <3> QED BY <3>1, <3>2 DEF Elems
  <2> QED BY <2>1, <2>2
<1>2. \A e : e \in Elems(s \o t) => e \in Elems(s) \cup Elems(t)
  <2> SUFFICES ASSUME NEW e, e \in Elems(s \o t) PROVE e \in Elems(s) \cup Elems(t)
    OBVIOUS
  <2>1. PICK j \in DOMAIN (s \o t) : e = (s \o t)[j] BY DEF Elems
  <2>2. CASE j <= Len(s)
    <3>1. j \in DOMAIN s /\ e = s[j] BY <2>1, <2>2
    <3> QED BY <3>1 DEF Elems
  <2>3. CASE ~(j <= Len(s))
    <3>1. j - Len(s) \in DOMAIN t /\ e = t[j - Len(s)] BY <2>1, <2>3
    <3> QED BY <3>1 DEF Elems
  <2> QED BY <2>2, <2>3
<1> QED BY <1>1, <1>2

LEMMA ElemsTail ==
  ASSUME NEW S, NEW s \in Seq(S), s # <<>>
  PROVE  Elems(s) = {Head(s)} \cup Elems(Tail(s))
<1>1. \A e : e \in Elems(s) => e = Head(s) \/ e \in Elems(Tail(s))
  <2> SUFFICES ASSUME NEW j \in DOMAIN s, j # 1 PROVE s[j] \in Elems(Tail(s))
    BY DEF Elems
  <2>1. j - 1 \in DOMAIN Tail(s) /\ Tail(s)[j - 1] = s[j] OBVIOUS
  <2> QED BY <2>1 DEF Elems
<1>2. Head(s) \in Elems(s) BY DEF Elems
<1>3. \A e : e \in Elems(Tail(s)) => e \in Elems(s)
  <2> SUFFICES ASSUME NEW j \in DOMAIN Tail(s) PROVE Tail(s)[j] \in Elems(s)
    BY DEF Elems
  <2>1. j + 1 \in DOMAIN s /\ Tail(s)[j] = s[j + 1] OBVIOUS
  <2> QED BY <2>1 DEF Elems
<1> QED BY <1>1, <1>2, <1>3

LEMMA ElemsType ==
  ASSUME NEW S, NEW s \in Seq(S)
  PROVE  Elems(s) \subseteq S
BY DEF Elems

\* The mismatch handler sends a finite sequence of chunks, each of lines of
\* the feed.
LEMMA ChunksType ==
  ASSUME NEW S, NEW s \in Seq(S)
  PROVE  Chunks(s) \in Seq(Seq(S))
<1>1. CASE MaxItems = 1 BY <1>1 DEF Chunks
<1>2. CASE MaxItems # 1
  <2>1. Width \in Nat \ {0} BY <1>2, MaxItemsAssumption DEF Width
  <2>2. NumChunks(s) \in Nat
    <3>1. (Len(s) + Width - 1) \in Nat BY <2>1
    <3>2. \A n \in Nat, d \in Nat \ {0} : n \div d \in Nat OBVIOUS
    <3> QED BY <2>1, <3>1, <3>2 DEF NumChunks
  <2>3. ASSUME NEW j \in 1..NumChunks(s)
        PROVE  SubSeq(s, (j - 1) * Width + 1, IF j * Width < Len(s) THEN j * Width ELSE Len(s)) \in Seq(S)
    <3> DEFINE from == (j - 1) * Width + 1
               to == IF j * Width < Len(s) THEN j * Width ELSE Len(s)
    <3>1. from \in Nat \ {0}
      <4>1. (j - 1) \in Nat BY <2>2
      <4>2. \A x, y \in Nat : x * y \in Nat OBVIOUS
      <4>3. (j - 1) * Width \in Nat BY <4>1, <4>2, <2>1
      <4> QED BY <4>3
    <3>2. to \in Int /\ to <= Len(s)
      <4>1. j * Width \in Int BY <2>1, <2>2
      <4> QED BY <4>1
    <3>3. \A i \in from..to : s[i] \in S
      <4> HIDE DEF from, to
      <4> QED BY <3>1, <3>2
    <3> HIDE DEF from, to
    <3>4. SubSeq(s, from, to) \in Seq(S) BY <3>1, <3>2, <3>3, SubSeqProperties
    <3> QED BY <3>4 DEF from, to
  <2> DEFINE piece(j) == SubSeq(s, (j - 1) * Width + 1, IF j * Width < Len(s) THEN j * Width ELSE Len(s))
  <2>4. \A j \in 1..NumChunks(s) : piece(j) \in Seq(S) BY <2>3
  <2>5. Chunks(s) = [j \in 1..NumChunks(s) |-> piece(j)] BY <1>2 DEF Chunks
  <2> HIDE DEF piece
  <2> QED BY <2>2, <2>4, <2>5
<1> QED BY <1>1, <1>2

-----------------------------------------------------------------------------
(* Sums over the adjustment log                                            *)

Total(S) == MapThenSumSet(LAMBDA e : e.qty, S)
TotalIter(S) == CHOOSE iter : iter = [T \in SUBSET S |->
                  IF T = {} THEN 0
                  ELSE (CHOOSE x \in T : TRUE).qty + iter[T \ {CHOOSE x \in T : TRUE}]]

\* Which numbers a recursion gives to the subsets of S.
Totals(g, S) ==
  /\ g \in [SUBSET S -> Int]
  /\ \A T \in SUBSET S :
       g[T] = IF T = {} THEN 0
              ELSE (CHOOSE x \in T : TRUE).qty + g[T \ {CHOOSE x \in T : TRUE}]

LEMMA TotalRecursion ==
  ASSUME NEW S \in SUBSET LogEntry, IsFiniteSet(S)
  PROVE  Total(S) = TotalIter(S)[S] /\ Totals(TotalIter(S), S)
<1> DEFINE c == [T \in SUBSET S |-> CHOOSE x \in T : TRUE]
           F == [p \in Int \X S |-> p[2].qty + p[1]]
           Next1(g) == [T \in SUBSET S |->
                  IF T = {} THEN 0
                  ELSE (CHOOSE x \in T : TRUE).qty + g[T \ {CHOOSE x \in T : TRUE}]]
           h == TotalIter(S)
<1>1. Total(S) = h[S] BY DEF Total, MapThenSumSet, MapThenFoldSet, TotalIter
<1>2. Chooses(c, S) BY DEF Chooses
<1>3. \A e \in S : e.qty \in Int BY DEF LogEntry
<1>4. F \in [Int \X S -> Int] BY <1>3
<1>5. PICK g : Folds(g, S, Int, 0, F, c)
  <2> DEFINE V == Int
  <2>1. 0 \in V /\ F \in [V \X S -> V] BY <1>4
  <2> HIDE DEF F, c, V
  <2>2. \E g : Folds(g, S, V, 0, F, c) BY <1>2, <2>1, SetRecursion
  <2> QED BY <2>2 DEF V
<1>6. /\ g \in [SUBSET S -> Int]
      /\ \A T \in SUBSET S : g[T] = IF T = {} THEN 0 ELSE F[<<g[T \ {c[T]}], c[T]>>]
  <2> HIDE DEF F, c
  <2> QED BY <1>5 DEF Folds
<1>7. ASSUME NEW T \in SUBSET S, T # {}
      PROVE  F[<<g[T \ {c[T]}], c[T]>>]
               = (CHOOSE x \in T : TRUE).qty + g[T \ {CHOOSE x \in T : TRUE}]
  <2>1. c[T] = (CHOOSE x \in T : TRUE) /\ c[T] \in S BY <1>7
  <2>2. g[T \ {c[T]}] \in Int BY <1>6
  <2> HIDE DEF c
  <2>3. F[<<g[T \ {c[T]}], c[T]>>] = c[T].qty + g[T \ {c[T]}] BY <2>1, <2>2
  <2> QED BY <2>1, <2>3
<1>8. g = Next1(g)
  <2>1. g = [T \in SUBSET S |-> g[T]] BY <1>6
  <2> HIDE DEF F, c
  <2> QED BY <1>6, <1>7, <2>1
<1>9. h = Next1(h) BY <1>8, Zenon DEF TotalIter
<1> HIDE DEF h
<1>10. \A T \in SUBSET S : h[T] = IF T = {} THEN 0
              ELSE (CHOOSE x \in T : TRUE).qty + h[T \ {CHOOSE x \in T : TRUE}]
  BY <1>9
<1>11. h = [T \in SUBSET S |-> h[T]] BY <1>9
<1> DEFINE U == {T \in SUBSET S : h[T] \in Int}
<1>12. {} \in U
  <2>1. h[{}] = 0 BY <1>10
  <2> QED BY <2>1
<1>13. ASSUME NEW T \in SUBSET S, IsFiniteSet(T), T # {}, \A x \in T : T \ {x} \in U PROVE T \in U
  <2> DEFINE x == CHOOSE x \in T : TRUE
  <2>1. x \in T /\ h[T] = x.qty + h[T \ {x}] BY <1>10, <1>13
  <2> HIDE DEF x
  <2>2. x.qty \in Int BY <1>3, <2>1
  <2>3. h[T \ {x}] \in Int BY <1>13, <2>1
  <2> QED BY <2>1, <2>2, <2>3
<1>14. \A T \in SUBSET S : IsFiniteSet(T) => T \in U
  <2> HIDE DEF U
  <2> QED BY <1>12, <1>13, SetsByInduction
<1>15. h \in [SUBSET S -> Int]
  <2>1. \A T \in SUBSET S : h[T] \in Int BY <1>14, FS_Subset
  <2> QED BY <1>11, <2>1
<1>16. Totals(h, S) BY <1>10, <1>15 DEF Totals
<1> QED BY <1>1, <1>16 DEF h

\* The recursion over a set and that over a part of it agree.
LEMMA TotalsAgree ==
  ASSUME NEW S \in SUBSET LogEntry, IsFiniteSet(S), NEW R \in SUBSET S, NEW g, Totals(g, S)
  PROVE  Total(R) = g[R]
<1> DEFINE h == TotalIter(R)
<1>0. IsFiniteSet(R) BY FS_Subset
<1>1. Total(R) = h[R] /\ Totals(h, R) BY <1>0, TotalRecursion
<1> HIDE DEF h
<1> DEFINE U == {T \in SUBSET R : h[T] = g[T]}
<1>2. {} \in U BY <1>1 DEF Totals
<1>3. ASSUME NEW T \in SUBSET R, IsFiniteSet(T), T # {}, \A x \in T : T \ {x} \in U PROVE T \in U
  <2> DEFINE x == CHOOSE x \in T : TRUE
  <2>1. h[T] = x.qty + h[T \ {x}] /\ g[T] = x.qty + g[T \ {x}] /\ x \in T
    BY <1>1, <1>3 DEF Totals
  <2> HIDE DEF x
  <2>2. h[T \ {x}] = g[T \ {x}] BY <1>3, <2>1
  <2> QED BY <2>1, <2>2
<1>4. \A T \in SUBSET R : IsFiniteSet(T) => T \in U
  <2> HIDE DEF U
  <2> QED BY <1>2, <1>3, SetsByInduction
<1>5. R \in U BY <1>0, <1>4
<1> QED BY <1>1, <1>5

\* The total of a set is that of the set without any one entry, and this entry.
LEMMA TotalWithout ==
  ASSUME NEW S \in SUBSET LogEntry, IsFiniteSet(S), NEW e \in S
  PROVE  Total(S) = e.qty + Total(S \ {e})
<1> DEFINE g == TotalIter(S)
           U == {T \in SUBSET S : \A x \in T : g[T] = x.qty + g[T \ {x}]}
<1>1. Totals(g, S) BY TotalRecursion
<1>2. \A x \in S : x.qty \in Int BY DEF LogEntry
<1> HIDE DEF g
<1>3. \A T \in SUBSET S : g[T] \in Int BY <1>1 DEF Totals
<1>4. {} \in U OBVIOUS
<1>5. ASSUME NEW T \in SUBSET S, IsFiniteSet(T), T # {}, \A x \in T : T \ {x} \in U PROVE T \in U
  <2> SUFFICES ASSUME NEW x \in T PROVE g[T] = x.qty + g[T \ {x}] OBVIOUS
  <2> DEFINE y == CHOOSE y \in T : TRUE
  <2>1. g[T] = y.qty + g[T \ {y}] /\ y \in T BY <1>1, <1>5 DEF Totals
  <2> HIDE DEF y
  <2>2. CASE x = y BY <2>1, <2>2
  <2>3. CASE x # y
    <3>1. x \in T \ {y} /\ y \in T \ {x} BY <2>1, <2>3
    <3>2. T \ {y} \in U /\ T \ {x} \in U BY <1>5, <2>1
    <3>3. g[T \ {y}] = x.qty + g[(T \ {y}) \ {x}] BY <3>1, <3>2
    <3>4. g[T \ {x}] = y.qty + g[(T \ {x}) \ {y}] BY <3>1, <3>2
    <3>5. (T \ {y}) \ {x} = (T \ {x}) \ {y} OBVIOUS
    <3>6. g[(T \ {x}) \ {y}] \in Int /\ x.qty \in Int /\ y.qty \in Int BY <1>2, <1>3, <2>1
    <3>7. \A p, q, r \in Int : p + (q + r) = q + (p + r) OBVIOUS
    <3>8. g[T] = y.qty + (x.qty + g[(T \ {x}) \ {y}]) BY <2>1, <3>3, <3>5
    <3> QED BY <3>4, <3>6, <3>7, <3>8
  <2> QED BY <2>2, <2>3
<1>6. \A T \in SUBSET S : IsFiniteSet(T) => T \in U
  <2> HIDE DEF U
  <2> QED BY <1>4, <1>5, SetsByInduction
<1>7. g[S] = e.qty + g[S \ {e}] BY <1>6
<1>8. Total(S) = g[S] /\ Total(S \ {e}) = g[S \ {e}] BY <1>1, TotalsAgree
<1> QED BY <1>7, <1>8

LEMMA TotalType ==
  ASSUME NEW S \in SUBSET LogEntry, IsFiniteSet(S)
  PROVE  Total(S) \in Int
<1>1. Totals(TotalIter(S), S) /\ Total(S) = TotalIter(S)[S] BY TotalRecursion
<1>2. \A T \in SUBSET S : TotalIter(S)[T] \in Int BY <1>1 DEF Totals
<1> QED BY <1>1, <1>2

LEMMA TotalNone == Total({}) = 0
<1>1. {} \in SUBSET LogEntry /\ IsFiniteSet({}) BY FS_EmptySet
<1>2. Total({}) = TotalIter({})[{}] /\ Totals(TotalIter({}), {}) BY <1>1, TotalRecursion
<1> QED BY <1>2 DEF Totals
-----------------------------------------------------------------------------
(* Types of what the handlers compute *)

LEMMA OrdersType ==
  ASSUME NEW S, IsFiniteSet(S), NEW s \in Orders(S)
  PROVE  s \in Seq(S)
<1>1. Cardinality(S) \in Nat BY FS_CardinalityType
<1> QED BY <1>1 DEF Orders

LEMMA FunctionInto ==
  \A S, T, f : T \subseteq Nat /\ f \in [S -> T] => f \in [S -> Int]
<1> SUFFICES ASSUME NEW S, NEW T, NEW f \in [S -> T], T \subseteq Nat
             PROVE  f \in [S -> Int]
  OBVIOUS
<1>1. \A n \in T : n \in Int OBVIOUS
<1>2. \A x \in S : f[x] \in Int BY <1>1
<1> QED BY <1>2

LEMMA FunctionSeq ==
  ASSUME NEW R, NEW n \in Nat, NEW g \in [1..n -> R]
  PROVE  g \in Seq(R)
OBVIOUS

LEMMA LatestType == \A a, b \in Nat : Latest(a, b) \in Nat
BY DEF Latest

LEMMA LogTotalType == TablesOK => \A k, tx : LogTotal(k, tx) \in Int
<1> SUFFICES ASSUME TablesOK, NEW k, NEW tx PROVE LogTotal(k, tx) \in Int OBVIOUS
<1> DEFINE S == {e \in log : e.key = k /\ Later(e.tx, tx)}
<1>1. S \in SUBSET LogEntry /\ IsFiniteSet(S) BY FS_Subset DEF TablesOK
<1>2. LogTotal(k, tx) = Total(S) BY DEF LogTotal, Total
<1> HIDE DEF S
<1> QED BY <1>1, <1>2, TotalType

LEMMA StoreFeedType ==
  ASSUME EnvOK, NEW n \in Nodes, NEW order \in Seq(Items)
  PROVE  StoreFeed(n, order) \in Store
<1> DEFINE row(j) == [item |-> order[j], qty |-> stock[<<order[j], n>>],
                      tx |-> lastTx[<<order[j], n>>]]
<1>1. \A j \in 1..Len(order) : row(j) \in [item : Items, qty : Int, tx : Nat]
  BY DEF EnvOK, Keys
<1>2. [j \in DOMAIN order |-> row(j)] \in Seq([item : Items, qty : Int, tx : Nat])
  <2> DEFINE R == [item : Items, qty : Int, tx : Nat]
  <2>1. \A j \in 1..Len(order) : row(j) \in R BY <1>1
  <2> HIDE DEF row, R
  <2>2. [j \in 1..Len(order) |-> row(j)] \in [1..Len(order) -> R] BY <2>1
  <2>3. [j \in DOMAIN order |-> row(j)] \in Seq(R) BY <2>2, FunctionSeq
  <2> QED BY <2>3 DEF R
<1>3. now + 1 \in Nat BY DEF EnvOK
<1> QED BY <1>2, <1>3 DEF StoreFeed, Store

LEMMA MismatchLinesType ==
  ASSUME TablesOK, NEW m \in Store, NEW extra \in Seq(Items)
  PROVE  [j \in DOMAIN m.lines |-> FeedLine(m, m.lines[j])]
           \o [j \in DOMAIN extra |-> ExtraLine(extra[j], m.node)] \in Seq(Line)
<1> DEFINE row == [item : Items, qty : Int, tx : Nat]
<1>1. m.lines \in Seq(row) /\ m.node \in Nodes /\ m.gen \in Nat BY DEF Store
<1>2. \A f \in row : FeedLine(m, f) \in Line
  BY <1>1 DEF FeedLine, Line, TablesOK, Keys
<1>3. \A i \in Items : ExtraLine(i, m.node) \in Line
  BY <1>1 DEF ExtraLine, Line, TablesOK, Keys
<1> HIDE DEF row
<1>4. \A j \in 1..Len(m.lines) : FeedLine(m, m.lines[j]) \in Line BY <1>1, <1>2
<1>5. \A j \in 1..Len(extra) : ExtraLine(extra[j], m.node) \in Line BY <1>3
<1>6. [j \in DOMAIN m.lines |-> FeedLine(m, m.lines[j])] \in Seq(Line) BY <1>1, <1>4
<1>7. [j \in DOMAIN extra |-> ExtraLine(extra[j], m.node)] \in Seq(Line) BY <1>5
<1> QED BY <1>6, <1>7

\* The chunks a handler puts on the queue.
NewChunks(lines, node) ==
  [j \in DOMAIN Chunks(lines) |->
     [key |-> nextKey + j, node |-> node, lines |-> Chunks(lines)[j]]]

LEMMA NewChunksType ==
  ASSUME NEW lines \in Seq(Line), NEW node \in Nodes, nextKey \in Nat
  PROVE  /\ Chunks(lines) \in Seq(Seq(Line))
         /\ NewChunks(lines, node) \in Seq(Chunk)
         /\ Len(NewChunks(lines, node)) = Len(Chunks(lines))
<1>1. Chunks(lines) \in Seq(Seq(Line)) BY ChunksType
<1> DEFINE new(j) == [key |-> nextKey + j, node |-> node, lines |-> Chunks(lines)[j]]
<1>2. \A j \in 1..Len(Chunks(lines)) : new(j) \in Chunk
  <2> DEFINE cs == Chunks(lines)
  <2>1. \A j \in 1..Len(cs) : cs[j] \in Seq(Line) /\ nextKey + j \in Nat
    <3> HIDE DEF cs
    <3> QED BY <1>1 DEF cs
  <2> QED BY <2>1 DEF Chunk
<1>3. NewChunks(lines, node) = [j \in 1..Len(Chunks(lines)) |-> new(j)]
  BY <1>1 DEF NewChunks
<1> HIDE DEF new
<1> QED BY <1>1, <1>2, <1>3

-----------------------------------------------------------------------------
(* Type correctness *)

LEMMA InitType == Init => TypeOK
<1> SUFFICES ASSUME Init PROVE TypeOK OBVIOUS
<1> USE DEF Init
<1>1. EnvOK
  <2>1. stock \in [Keys -> Int] BY BoundsAssumption, FunctionInto
  <2>2. \A b \in Budgets : Bound(b) \in Nat BY BoundsAssumption DEF Budgets, Bound
  <2>3. budget \in [Budgets -> Nat] BY <2>2
  <2> QED BY <2>1, <2>3 DEF EnvOK
<1>2. LoadOK BY DEF LoadOK, LoaderState, Idle
<1>3. SyncOK BY DEF SyncOK
<1>4. TablesOK
  <2>1. supply \in [Keys -> Int] BY BoundsAssumption, FunctionInto
  <2> QED BY <2>1, FS_EmptySet DEF TablesOK, Dates, NoRecord
<1>5. ServerOK BY DEF ServerOK, ConsumerState, Idle, Down
<1>6. ControlOK BY DEF ControlOK
<1>7. HistoryOK BY DEF HistoryOK
<1> QED BY <1>1, <1>2, <1>3, <1>4, <1>5, <1>6, <1>7 DEF TypeOK

LEMMA OutsideType == TypeOK /\ Outside => TypeOK'
<1> SUFFICES ASSUME TypeOK, Outside PROVE TypeOK' OBVIOUS
<1> USE DEF TypeOK
<1>1. ASSUME NEW k \in Keys, NEW d \in {-1, 1}, Post(k, d) PROVE TypeOK'
  <2> USE <1>1 DEF Post, Spend
  <2>1. EnvOK' BY DEF EnvOK, Budgets
  <2>2. ServerOK'
    <3>1. [abs |-> FALSE, key |-> k, qty |-> d, tx |-> now', gen |-> now'] \in Delta
      BY DEF EnvOK, Delta
    <3> QED BY <3>1 DEF ServerOK
  <2> QED BY <2>1, <2>2 DEF LoadOK, SyncOK, TablesOK, ControlOK, HistoryOK,
                            load, sync, tables, control, history
<1>2. ASSUME NEW k \in Keys, NEW q \in InitialSupply, Count(k, q) PROVE TypeOK'
  <2> USE <1>2 DEF Count, Spend
  <2>0. q \in Int BY BoundsAssumption
  <2>1. EnvOK' BY <2>0 DEF EnvOK, Budgets
  <2>2. ServerOK'
    <3>1. [abs |-> TRUE, key |-> k, qty |-> q, tx |-> now', gen |-> now'] \in Delta
      BY <2>0 DEF EnvOK, Delta
    <3> QED BY <3>1 DEF ServerOK
  <2> QED BY <2>1, <2>2 DEF LoadOK, SyncOK, TablesOK, ControlOK, HistoryOK,
                            load, sync, tables, control, history
<1>3. ASSUME NEW k \in Keys, Ship(k) PROVE TypeOK'
  <2> USE <1>3 DEF Ship, Spend
  <2>1. EnvOK' BY DEF EnvOK, Budgets
  <2>2. TablesOK'
    <3>1. [key |-> k, qty |-> -1, tx |-> now'] \in LogEntry BY DEF EnvOK, LogEntry
    <3> QED BY <3>1, FS_AddElement DEF TablesOK
  <2>3. HistoryOK' BY DEF HistoryOK, EnvOK, Readers
  <2> QED BY <2>1, <2>2, <2>3 DEF LoadOK, SyncOK, ServerOK, ControlOK,
                                  load, sync, server, control
<1>4. CASE SendSOF
  <2> USE <1>4 DEF SendSOF, Spend
  <2>1. EnvOK' BY DEF EnvOK, Budgets
  <2>2. LoadOK'
    <3>1. [type |-> "SOF"] \in Store \cup Mark BY DEF Mark
    <3> QED BY <3>1 DEF LoadOK
  <2> QED BY <2>1, <2>2 DEF SyncOK, TablesOK, ServerOK, ControlOK, HistoryOK,
                            sync, tables, server, control, history
<1>5. CASE SendStores
  <2>1. EnvOK'
    <3>1. now' = now + 1 /\ sending' = FALSE /\ UNCHANGED <<stock, lastTx, budget>>
      BY <1>5 DEF SendStores
    <3>2. now \in Nat BY DEF EnvOK
    <3>3. now' \in Nat BY <3>1, <3>2
    <3>4. stock' = stock /\ lastTx' = lastTx /\ budget' = budget BY <3>1
    <3> QED BY <3>1, <3>3, <3>4 DEF EnvOK
  <2>2. feedQ' \in Seq(Store \cup Mark)
    <3> DEFINE shops == {n \in Nodes : Listed(n) # {}}
    <3>1. PICK nodes \in Orders(shops), order \in [Nodes -> UNION {Orders(S) : S \in SUBSET Items}] :
            /\ \A n \in Nodes : order[n] \in Orders(Listed(n))
            /\ feedQ' = feedQ \o [j \in DOMAIN nodes |-> StoreFeed(nodes[j], order[nodes[j]])]
                              \o <<[type |-> "EOF"]>>
      BY <1>5 DEF SendStores
    <3>2. nodes \in Seq(Nodes)
      <4>1. shops \in SUBSET Nodes /\ IsFiniteSet(shops) BY SetsAssumption, FS_Subset
      <4>2. nodes \in Seq(shops) BY <4>1, OrdersType
      <4> QED BY <4>1, <4>2
    <3>3. \A n \in Nodes : order[n] \in Seq(Items)
      <4> SUFFICES ASSUME NEW n \in Nodes PROVE order[n] \in Seq(Items) OBVIOUS
      <4>1. Listed(n) \in SUBSET Items BY DEF Listed
      <4>2. IsFiniteSet(Listed(n)) BY <4>1, SetsAssumption, FS_Subset
      <4>3. order[n] \in Seq(Listed(n)) BY <3>1, <4>2, OrdersType
      <4> QED BY <4>1, <4>3
    <3>4. \A j \in 1..Len(nodes) : StoreFeed(nodes[j], order[nodes[j]]) \in Store
      BY <3>2, <3>3, StoreFeedType
    <3>5. [j \in DOMAIN nodes |-> StoreFeed(nodes[j], order[nodes[j]])] \in Seq(Store)
      <4> DEFINE feed(j) == StoreFeed(nodes[j], order[nodes[j]])
      <4>1. \A j \in 1..Len(nodes) : feed(j) \in Store BY <3>4
      <4> HIDE DEF feed
      <4>2. [j \in 1..Len(nodes) |-> feed(j)] \in [1..Len(nodes) -> Store] BY <4>1
      <4>3. Len(nodes) \in Nat /\ DOMAIN nodes = 1..Len(nodes) BY <3>2
      <4>4. [j \in DOMAIN nodes |-> feed(j)] \in Seq(Store) BY <4>2, <4>3, FunctionSeq
      <4> QED BY <4>4 DEF feed
    <3> DEFINE stores == [j \in DOMAIN nodes |-> StoreFeed(nodes[j], order[nodes[j]])]
               eof == <<[type |-> "EOF"]>>
    <3>6. stores \in Seq(Store \cup Mark) /\ eof \in Seq(Store \cup Mark)
      <4>1. stores \in Seq(Store) BY <3>5
      <4>2. eof \in Seq(Mark) BY DEF Mark
      <4> HIDE DEF stores, eof
      <4> QED BY <4>1, <4>2
    <3>7. feedQ' = feedQ \o stores \o eof BY <3>1
    <3>8. feedQ \in Seq(Store \cup Mark) BY DEF LoadOK
    <3> HIDE DEF stores, eof
    <3> QED BY <3>6, <3>7, <3>8
  <2> QED BY <1>5, <2>1, <2>2 DEF SendStores, LoadOK, SyncOK, TablesOK, ServerOK, ControlOK, HistoryOK,
                            sync, tables, server, control, history
<1>6. CASE Reprocess
  <2> USE <1>6 DEF Reprocess
  <2>1. LoadOK' BY DEF LoadOK
  <2> QED BY <2>1 DEF EnvOK, SyncOK, TablesOK, ServerOK, ControlOK, HistoryOK,
                      env, sync, tables, server, control, history
<1> QED BY <1>1, <1>2, <1>3, <1>4, <1>5, <1>6 DEF Outside

LEMMA ReceiveType ==
  ASSUME LoadOK, NEW t \in Loaders, NEW type, Receive(t, type)
  PROVE  /\ feedQ' \in Seq(Store \cup Mark)
         /\ type = "STORE" => Head(feedQ) \in Store
<1>1. Head(feedQ) \in Store \cup Mark /\ Head(feedQ).type = type
  BY DEF LoadOK, Receive
<1>2. type = "STORE" => Head(feedQ) \notin Mark BY <1>1 DEF Mark
<1> QED BY <1>1, <1>2 DEF LoadOK, Receive

\* A thread that has gone idle, or to another state of the right type.
LEMMA LoaderType ==
  ASSUME LoadOK, NEW t \in Loaders, NEW s \in LoaderState
  PROVE  [loader EXCEPT ![t] = s] \in [Loaders -> LoaderState]
BY DEF LoadOK

LEMMA LoadType ==
  ASSUME TypeOK, NEW t \in Loaders, LoadStep(t)
  PROVE  TypeOK'
<1> USE DEF TypeOK
<1>0. Idle \in LoaderState BY DEF LoaderState
<1>1. CASE ManageDeltaServer(t)
  <2> USE <1>1 DEF ManageDeltaServer
  <2>1. LoadOK' BY ReceiveType DEF LoadOK
  <2>2. TablesOK' BY FS_EmptySet DEF TablesOK
  <2>3. ControlOK' BY DEF ControlOK
  <2>4. HistoryOK'
    <3>1. \A k \in Keys : cut[k] \cup {e.tx : e \in {f \in log : f.key = k}} \in SUBSET Nat
      BY DEF HistoryOK, TablesOK, LogEntry
    <3> QED BY <3>1 DEF HistoryOK
  <2> QED BY <2>1, <2>2, <2>3, <2>4 DEF EnvOK, SyncOK, ServerOK, env, sync, server
<1>2. CASE GetMismatch(t)
  <2> DEFINE m == Head(feedQ)
             lines(extra) == [j \in DOMAIN m.lines |-> FeedLine(m, m.lines[j])]
                               \o [j \in DOMAIN extra |-> ExtraLine(extra[j], m.node)]
  <2>1. m \in Store /\ feedQ' \in Seq(Store \cup Mark)
    BY <1>2, ReceiveType DEF GetMismatch
  <2>2. PICK extra \in Orders(Items \ FeedItems(m)) :
          loader' = [loader EXCEPT ![t] = [st |-> "store", msg |-> m, lines |-> lines(extra)]]
    BY <1>2 DEF GetMismatch
  <2>3. extra \in Seq(Items)
    <3>1. IsFiniteSet(Items \ FeedItems(m)) BY SetsAssumption, FS_Subset
    <3>2. extra \in Seq(Items \ FeedItems(m)) BY <3>1, OrdersType
    <3> QED BY <3>2
  <2>4. lines(extra) \in Seq(Line) BY <2>1, <2>3, MismatchLinesType
  <2>5. LoadOK'
    <3> HIDE DEF m, lines
    <3>1. [st |-> "store", msg |-> m, lines |-> lines(extra)] \in LoaderState
      BY <2>1, <2>4 DEF LoaderState
    <3>2. failed' = failed BY <1>2 DEF GetMismatch
    <3> QED BY <2>1, <2>2, <3>1, <3>2, LoaderType DEF LoadOK
  <2>6. HistoryOK'
    <3>1. m.gen \in Nat BY <2>1 DEF Store
    <3>2. \A k \in Keys : Latest(applied[k], m.gen) \in Nat
      BY <3>1, LatestType DEF HistoryOK
    <3>3. applied' \in [Keys -> Nat]
      BY <1>2, <3>2 DEF GetMismatch, HistoryOK
    <3>4. drift' \in [Keys -> BOOLEAN]
      BY <1>2 DEF GetMismatch, HistoryOK
    <3>5. UNCHANGED <<cut, raced>> BY <1>2 DEF GetMismatch
    <3> QED BY <3>3, <3>4, <3>5 DEF HistoryOK
  <2> QED BY <1>2, <2>5, <2>6 DEF GetMismatch, EnvOK, SyncOK, TablesOK, ServerOK, ControlOK,
                                  env, sync, tables, server, control
<1>3. CASE PushInputForAdjustInventory(t)
  <2> DEFINE lines == loader[t].lines
             node == loader[t].msg.node
             new == NewChunks(lines, node)
  <2>1. lines \in Seq(Line) /\ node \in Nodes
    BY <1>3 DEF PushInputForAdjustInventory, LoadOK, LoaderState, Idle, Store
  <2>2. nextKey \in Nat BY DEF SyncOK
  <2>3. new \in Seq(Chunk) /\ Chunks(lines) \in Seq(Seq(Line))
    BY <2>1, <2>2, NewChunksType
  <2>4. /\ chunkQ' = chunkQ \o new
        /\ status' = status \cup {Id(new[j]) : j \in DOMAIN new}
        /\ nextKey' = nextKey + Len(Chunks(lines))
        /\ stuck' = stuck
    BY <1>3 DEF PushInputForAdjustInventory, NewChunks
  <2>5. LoadOK' BY <1>3, <1>0, LoaderType DEF PushInputForAdjustInventory, LoadOK
  <2>6. SyncOK'
    <3> HIDE DEF lines, node, new
    <3>0. \A c \in Chunk : Id(c) \in Nat \X Nodes BY DEF Id, Chunk
    <3>1. \A j \in DOMAIN new : Id(new[j]) \in Nat \X Nodes BY <2>3, <3>0
    <3>2. Len(Chunks(lines)) \in Nat BY <2>3
    <3> QED BY <2>2, <2>3, <2>4, <3>1, <3>2 DEF SyncOK
  <2> QED BY <1>3, <2>5, <2>6 DEF PushInputForAdjustInventory, EnvOK, TablesOK, ServerOK,
             ControlOK, HistoryOK, env, tables, server, control, history
<1>4. CASE DuplicateStatusKey(t)
  <2> USE <1>4 DEF DuplicateStatusKey
  <2>1. EnvOK' BY DEF EnvOK, Budgets
  <2>2. loader[t].msg \in Store BY DEF LoadOK, LoaderState, Idle
  <2>3. LoadOK' BY <1>0, <2>2, LoaderType DEF LoadOK
  <2> QED BY <2>1, <2>3 DEF SyncOK, TablesOK, ServerOK, ControlOK, HistoryOK,
                            sync, tables, server, control, history
<1>5. CASE ReceiveEOF(t)
  <2> USE <1>5 DEF ReceiveEOF
  <2>1. [st |-> "sleep", frames |-> 1] \in LoaderState BY DEF LoaderState
  <2>2. LoadOK' BY <2>1, ReceiveType, LoaderType DEF LoadOK
  <2> QED BY <2>2 DEF EnvOK, SyncOK, TablesOK, ServerOK, ControlOK, HistoryOK,
                      env, sync, tables, server, control, history
<1>6. ASSUME loader[t].st \in {"sleep", "unwind"}
      PROVE  /\ loader[t].frames \in Nat \ {0}
             /\ \A n \in Nat \ {0} : [loader[t] EXCEPT !.frames = n] \in LoaderState
             /\ [loader[t] EXCEPT !.st = "unwind"] \in LoaderState
  <2> DEFINE W == [st : {"sleep", "unwind"}, frames : Nat \ {0}]
  <2>1. loader[t] \in W BY <1>6 DEF LoadOK, LoaderState, Idle
  <2>2. W \subseteq LoaderState BY DEF LoaderState
  <2>3. \A w \in W, n \in Nat \ {0} : [w EXCEPT !.frames = n] \in W /\ [w EXCEPT !.st = "unwind"] \in W
    OBVIOUS
  <2>4. 1 \in Nat \ {0} OBVIOUS
  <2> QED BY <2>1, <2>2, <2>3, <2>4
<1>7. CASE SleepAgain(t)
  <2> USE <1>7 DEF SleepAgain
  <2>1. loader[t].frames + 1 \in Nat \ {0} BY <1>6
  <2>2. loader' = [loader EXCEPT ![t] = [loader[t] EXCEPT !.frames = loader[t].frames + 1]]
    BY DEF LoadOK
  <2>3. LoadOK' BY <1>6, <2>1, <2>2, LoaderType DEF LoadOK
  <2> QED BY <2>3 DEF EnvOK, SyncOK, TablesOK, ServerOK, ControlOK, HistoryOK,
                      env, sync, tables, server, control, history
<1>8. CASE SeeNoStatus(t)
  <2> USE <1>8 DEF SeeNoStatus
  <2>1. loader' = [loader EXCEPT ![t] = [loader[t] EXCEPT !.st = "unwind"]] BY DEF LoadOK
  <2>2. LoadOK' BY <1>6, <2>1, LoaderType DEF LoadOK
  <2> QED BY <2>2 DEF EnvOK, SyncOK, TablesOK, ServerOK, ControlOK, HistoryOK,
                      env, sync, tables, server, control, history
<1>9. CASE TriggerFullSync(t)
  <2> USE <1>9 DEF TriggerFullSync
  <2>1. Unwound(loader[t]) \in LoaderState
    <3>1. CASE loader[t].frames = 1 BY <1>0, <3>1 DEF Unwound
    <3>2. CASE loader[t].frames # 1
      <4>1. loader[t].frames - 1 \in Nat \ {0} BY <1>6, <3>2
      <4> QED BY <1>6, <3>2, <4>1 DEF Unwound
    <3> QED BY <3>1, <3>2
  <2>3. LoadOK' BY <2>1, LoaderType DEF LoadOK
  <2>4. ControlOK' BY DEF ControlOK
  <2> QED BY <2>3, <2>4 DEF EnvOK, SyncOK, TablesOK, ServerOK, HistoryOK,
                            env, sync, tables, server, history
<1> QED BY <1>1, <1>2, <1>3, <1>4, <1>5, <1>7, <1>8, <1>9 DEF LoadStep

LEMMA RecordedType ==
  ASSUME now \in Nat, NEW old \in Dates, NEW l \in Line
  PROVE  Recorded(old, l) \in Dates
BY DEF Recorded, Dates, Line

LEMMA AdjustType == TypeOK /\ (AdjustInventory \/ RejectEmptyChunk) => TypeOK'
<1> SUFFICES ASSUME TypeOK, AdjustInventory \/ RejectEmptyChunk PROVE TypeOK' OBVIOUS
<1> USE DEF TypeOK
<1> DEFINE c == Head(chunkQ)
<1>1. c \in Chunk /\ chunkQ' \in Seq(Chunk)
  BY DEF AdjustInventory, RejectEmptyChunk, SyncOK
<1>2. CASE AdjustInventory
  <2> DEFINE keys == {k \in Keys : k[2] = c.node /\ LinesOf(k, c.lines) # {}}
  <2>1. ASSUME NEW k \in keys PROVE LineOf(c, k) \in Line
    <3>1. c.lines \in Seq(Line) BY <1>1 DEF Chunk
    <3>2. LinesOf(k, c.lines) \subseteq Line BY <3>1 DEF LinesOf, Elems
    <3> QED BY <3>2 DEF LineOf
  <2>2. SyncOK'
    <3>1. status' \subseteq status /\ stuck' = stuck /\ nextKey' = nextKey
      BY <1>2 DEF AdjustInventory
    <3> QED BY <1>1, <3>1 DEF SyncOK
  <2>3. ctrl' \in [Keys -> Dates]
    <3>1. ctrl' = [k \in Keys |-> IF k \in keys THEN Recorded(ctrl[k], LineOf(c, k)) ELSE ctrl[k]]
      BY <1>2 DEF AdjustInventory
    <3>2. \A k \in Keys : ctrl[k] \in Dates BY DEF TablesOK
    <3>3. \A k \in keys : Recorded(ctrl[k], LineOf(c, k)) \in Dates
      BY <2>1, <3>2, RecordedType DEF EnvOK
    <3> HIDE DEF keys
    <3> QED BY <3>1, <3>2, <3>3
  <2>4. supply' \in [Keys -> Int]
    <3>1. supply' = [k \in Keys |-> IF k \in keys /\ LineOf(c, k).hasQty
                                    THEN supply[k] + LineOf(c, k).adj ELSE supply[k]]
      BY <1>2 DEF AdjustInventory
    <3>2. \A k \in Keys : supply[k] \in Int BY DEF TablesOK
    <3>3. \A k \in keys : LineOf(c, k).adj \in Int BY <2>1 DEF Line
    <3> HIDE DEF keys
    <3> QED BY <3>1, <3>2, <3>3
  <2>5. HistoryOK'
    <3>1. cut' = cut /\ raced' = raced \cup UNION {Readers(k) : k \in keys}
      BY <1>2 DEF AdjustInventory
    <3>2. drift' \in [Keys -> BOOLEAN] BY <1>2 DEF AdjustInventory, HistoryOK
    <3>3. \A k \in Keys : Readers(k) \subseteq Consumers BY DEF Readers
    <3>4. applied' \in [Keys -> Nat]
      BY <1>2, LatestType DEF AdjustInventory, HistoryOK, EnvOK
    <3> QED BY <3>1, <3>2, <3>3, <3>4 DEF HistoryOK
  <2>6. log' = log BY <1>2 DEF AdjustInventory
  <2> QED BY <1>2, <2>2, <2>3, <2>4, <2>5, <2>6
          DEF AdjustInventory, EnvOK, LoadOK, TablesOK, ServerOK, ControlOK,
              env, load, server, control
<1>3. CASE RejectEmptyChunk
  <2>1. Id(c) \in Nat \X Nodes BY <1>1 DEF Id, Chunk
  <2>2. stuck' = stuck \cup {Id(c)} /\ UNCHANGED <<status, nextKey>>
    BY <1>3 DEF RejectEmptyChunk
  <2>3. SyncOK' BY <1>1, <2>1, <2>2 DEF SyncOK
  <2> QED BY <1>3, <2>3 DEF RejectEmptyChunk, EnvOK, LoadOK, TablesOK, ServerOK, ControlOK,
             HistoryOK, env, load, tables, server, control, history
<1> QED BY <1>2, <1>3

LEMMA ConsumerType ==
  ASSUME ServerOK, NEW c \in Consumers
  PROVE  /\ \A s \in ConsumerState : [delta EXCEPT ![c] = s] \in [Consumers -> ConsumerState]
         /\ delta[c].st \in {"sleep", "awake", "write"} => delta[c].msg \in Delta
         /\ delta[c].st = "write" => delta[c].qty \in Int
BY DEF ServerOK, ConsumerState, Idle, Down

LEMMA WrittenType ==
  ASSUME TypeOK, NEW c \in Consumers, NEW k \in Keys, Written(c, k), delta[c].st = "write"
  PROVE  /\ EnvOK' /\ LoadOK' /\ SyncOK' /\ ServerOK' /\ ControlOK'
         /\ applied' \in [Keys -> Nat] /\ cut' = cut /\ raced' \subseteq Consumers
<1> USE DEF TypeOK, Written
<1>1. Idle \in ConsumerState BY DEF ConsumerState
<1>2. ServerOK' BY <1>1, ConsumerType DEF ServerOK
<1>3. delta[c].msg.tx \in Nat BY ConsumerType DEF Delta
<1>4. applied' \in [Keys -> Nat]
  <2>1. Latest(applied[k], delta[c].msg.tx) \in Nat BY <1>3, LatestType DEF HistoryOK
  <2> QED BY <2>1 DEF HistoryOK
<1>5. raced' \subseteq Consumers BY DEF HistoryOK, Readers
<1> QED BY <1>2, <1>4, <1>5 DEF EnvOK, LoadOK, SyncOK, ControlOK, env, load, sync, control

LEMMA DeltaType ==
  ASSUME TypeOK, NEW c \in Consumers, DeltaStep(c)
  PROVE  TypeOK'
<1> USE DEF TypeOK
<1>0. Idle \in ConsumerState /\ Down \in ConsumerState BY DEF ConsumerState
<1>1. ASSUME NEW m \in deltaQ, ReceiveDelta(c, m) PROVE TypeOK'
  <2> USE <1>1 DEF ReceiveDelta
  <2>1. m \in Delta BY DEF ServerOK
  <2>2. [st |-> "sleep", msg |-> m] \in ConsumerState BY <2>1 DEF ConsumerState
  <2>3. ServerOK' BY <2>2, ConsumerType DEF ServerOK
  <2> QED BY <2>3 DEF EnvOK, LoadOK, SyncOK, TablesOK, ControlOK, HistoryOK,
                      env, load, sync, tables, control, history
<1>2. CASE SleepTillEOF(c)
  <2> USE <1>2 DEF SleepTillEOF
  <2>1. [delta[c] EXCEPT !.st = "awake"] \in ConsumerState
    <3> DEFINE S == [st : {"sleep", "awake"}, msg : Delta]
    <3>1. delta[c] \in S BY DEF ServerOK, ConsumerState, Idle, Down
    <3>2. \A s \in S : [s EXCEPT !.st = "awake"] \in S OBVIOUS
    <3>3. S \subseteq ConsumerState BY DEF ConsumerState
    <3> QED BY <3>1, <3>2, <3>3
  <2>2. delta' = [delta EXCEPT ![c] = [delta[c] EXCEPT !.st = "awake"]] BY DEF ServerOK
  <2>3. ServerOK' BY <2>1, <2>2, ConsumerType DEF ServerOK
  <2> QED BY <2>3 DEF EnvOK, LoadOK, SyncOK, TablesOK, ControlOK, HistoryOK,
                      env, load, sync, tables, control, history
<1>3. CASE ReadTables(c)
  <2> USE <1>3 DEF ReadTables
  <2> DEFINE m == delta[c].msg
             q == m.qty + (IF m.abs THEN LogTotal(m.key, m.tx) ELSE 0)
  <2>1. m \in Delta BY ConsumerType
  <2>2. q \in Int
    <3>1. m.qty \in Int BY <2>1 DEF Delta
    <3>2. LogTotal(m.key, m.tx) \in Int BY LogTotalType
    <3> HIDE DEF m
    <3> QED BY <3>1, <3>2
  <2>3. [st |-> "write", msg |-> m, qty |-> q] \in ConsumerState
    <3> HIDE DEF m, q
    <3> QED BY <2>1, <2>2 DEF ConsumerState
  <2>4. ServerOK' BY <1>0, <2>3, ConsumerType DEF ServerOK
  <2> QED BY <2>4 DEF EnvOK, LoadOK, SyncOK, TablesOK, ControlOK, HistoryOK,
                      env, load, sync, tables, control, history
<1>4. CASE ApplyDelta(c)
  <2> DEFINE m == delta[c].msg
  <2>1. m \in Delta /\ delta[c].qty \in Int
    BY <1>4, ConsumerType DEF ApplyDelta
  <2>2. m.key \in Keys /\ m.qty \in Int /\ m.tx \in Nat BY <2>1 DEF Delta
  <2>3. /\ supply' = [supply EXCEPT ![m.key] = supply[m.key] + delta[c].qty]
        /\ log' = log \cup {[key |-> m.key, qty |-> m.qty, tx |-> m.tx]}
        /\ ctrl' = ctrl
        /\ Written(c, m.key) /\ delta[c].st = "write"
    BY <1>4 DEF ApplyDelta, TablesOK
  <2>4. drift' \in [Keys -> BOOLEAN] BY <1>4 DEF ApplyDelta, HistoryOK
  <2> HIDE DEF m
  <2>5. TablesOK'
    <3> DEFINE e == [key |-> m.key, qty |-> m.qty, tx |-> m.tx]
    <3>1. e \in LogEntry BY <2>2 DEF LogEntry
    <3>2. log' = log \cup {e} BY <2>3
    <3> HIDE DEF e
    <3>3. log' \subseteq LogEntry /\ IsFiniteSet(log') BY <3>1, <3>2, FS_AddElement DEF TablesOK
    <3>4. supply' \in [Keys -> Int] BY <2>1, <2>2, <2>3 DEF TablesOK
    <3> QED BY <2>3, <3>3, <3>4 DEF TablesOK
  <2>6. HistoryOK' BY <2>2, <2>3, <2>4, WrittenType DEF HistoryOK
  <2> QED BY <2>2, <2>3, <2>5, <2>6, WrittenType
<1>5. CASE ApplyCount(c)
  <2> DEFINE m == delta[c].msg
  <2>1. m \in Delta /\ delta[c].qty \in Int
    BY <1>5, ConsumerType DEF ApplyCount
  <2>2. m.key \in Keys /\ m.tx \in Nat /\ m.gen \in Nat BY <2>1 DEF Delta
  <2>3. /\ ctrl' = [ctrl EXCEPT ![m.key] = [tx |-> m.tx, gen |-> m.gen]]
        /\ supply' = [supply EXCEPT ![m.key] = delta[c].qty]
        /\ log' = log
        /\ Written(c, m.key) /\ delta[c].st = "write"
    BY <1>5 DEF ApplyCount
  <2>4. drift' \in [Keys -> BOOLEAN]
    BY <1>5 DEF ApplyCount, HistoryOK
  <2> HIDE DEF m
  <2>5. TablesOK' BY <2>1, <2>2, <2>3 DEF TablesOK, Dates
  <2>6. HistoryOK' BY <2>2, <2>3, <2>4, WrittenType DEF HistoryOK
  <2> QED BY <2>2, <2>3, <2>5, <2>6, WrittenType
<1>6. CASE StopServer(c)
  <2> USE <1>6 DEF StopServer
  <2>1. ServerOK' BY <1>0, ConsumerType DEF ServerOK
  <2> QED BY <2>1 DEF EnvOK, LoadOK, SyncOK, TablesOK, ControlOK, HistoryOK,
                      env, load, sync, tables, control, history
<1> QED BY <1>1, <1>2, <1>3, <1>4, <1>5, <1>6 DEF DeltaStep

LEMMA ScriptType == TypeOK /\ (RunStopScript \/ RunStartScript) => TypeOK'
<1> SUFFICES ASSUME TypeOK, RunStopScript \/ RunStartScript PROVE TypeOK' OBVIOUS
<1> USE DEF TypeOK
<1>1. Idle \in ConsumerState BY DEF ConsumerState
<1>2. ControlOK' BY DEF ControlOK, RunStopScript, RunStartScript
<1>3. ServerOK'
  <2>1. CASE RunStopScript BY <2>1 DEF RunStopScript, ServerOK
  <2>2. CASE RunStartScript BY <1>1, <2>2, ConsumerType DEF RunStartScript, ServerOK
  <2> QED BY <2>1, <2>2
<1> QED BY <1>2, <1>3 DEF RunStopScript, RunStartScript, EnvOK, LoadOK, SyncOK, TablesOK,
           HistoryOK, env, load, sync, tables, history

LEMMA StutterType == TypeOK /\ UNCHANGED vars => TypeOK'
BY DEF TypeOK, EnvOK, LoadOK, SyncOK, TablesOK, ServerOK, ControlOK, HistoryOK,
       vars, env, load, sync, tables, server, control, history

\* Every handler, script and outside event keeps every variable within its
\* type, for any assortment, number of stores, threads and instances, chunk
\* size and start of the clock.
THEOREM TypeCorrect == Spec => []TypeOK
<1>1. Init => TypeOK BY InitType
<1>2. TypeOK /\ [Next]_vars => TypeOK'
  BY OutsideType, LoadType, AdjustType, DeltaType, ScriptType, StutterType DEF Next
<1> QED BY <1>1, <1>2, PTL DEF Spec

-----------------------------------------------------------------------------
(* The status table and the queue of chunks *)

\* StatusTracksChunks is not inductive: a new key could be that of a chunk in
\* the queue, or of one that failed.  It is not, since keys only grow.
KeysGrow ==
  /\ \A c \in Elems(chunkQ) : c.key <= nextKey
  /\ \A s \in stuck : s[1] <= nextKey

StatusInv == StatusTracksChunks /\ KeysGrow

\* The chunk that is taken: its key is that of no chunk left.
LEMMA TakeChunk ==
  ASSUME SyncOK, StatusInv, chunkQ # <<>>, chunkQ' = Tail(chunkQ)
  PROVE  /\ Elems(chunkQ) = {Head(chunkQ)} \cup Elems(chunkQ')
         /\ \A c \in Elems(chunkQ') : Id(c) # Id(Head(chunkQ))
         /\ \A a, b \in DOMAIN chunkQ' : Id(chunkQ'[a]) = Id(chunkQ'[b]) => a = b
         /\ \A c \in Elems(chunkQ') : c.key <= nextKey
<1> USE DEF SyncOK
<1>1. Elems(chunkQ) = {Head(chunkQ)} \cup Elems(chunkQ') BY ElemsTail
<1>2. \A a \in DOMAIN chunkQ' : /\ a + 1 \in DOMAIN chunkQ
                                /\ chunkQ'[a] = chunkQ[a + 1]
                                /\ a \in Nat \ {0}
  OBVIOUS
<1>3. \A a, b \in DOMAIN chunkQ : Id(chunkQ[a]) = Id(chunkQ[b]) => a = b
  BY DEF StatusInv, StatusTracksChunks
<1>4. ASSUME NEW a \in DOMAIN chunkQ' PROVE Id(chunkQ'[a]) # Id(Head(chunkQ))
  <2>1. Head(chunkQ) = chunkQ[1] /\ 1 \in DOMAIN chunkQ OBVIOUS
  <2>2. a + 1 # 1 BY <1>2
  <2> QED BY <1>2, <1>3, <2>1, <2>2
<1>5. \A a, b \in DOMAIN chunkQ' : Id(chunkQ'[a]) = Id(chunkQ'[b]) => a = b
  <2> SUFFICES ASSUME NEW a \in DOMAIN chunkQ', NEW b \in DOMAIN chunkQ',
                      Id(chunkQ'[a]) = Id(chunkQ'[b])
               PROVE  a = b
    OBVIOUS
  <2>1. a + 1 = b + 1 BY <1>2, <1>3
  <2> QED BY <1>2, <2>1
<1>6. \A c \in Elems(chunkQ') : Id(c) # Id(Head(chunkQ)) BY <1>4 DEF Elems
<1>7. \A c \in Elems(chunkQ') : c.key <= nextKey BY <1>1 DEF StatusInv, KeysGrow
<1> QED BY <1>1, <1>5, <1>6, <1>7

LEMMA StatusAdjust == TypeOK /\ StatusInv /\ AdjustInventory => StatusInv'
<1> SUFFICES ASSUME TypeOK, StatusInv, AdjustInventory PROVE StatusInv' OBVIOUS
<1>1. /\ chunkQ # <<>> /\ chunkQ' = Tail(chunkQ)
      /\ status' = status \ {Id(Head(chunkQ))}
      /\ UNCHANGED <<stuck, nextKey>>
  BY DEF AdjustInventory
<1>2. SyncOK BY DEF TypeOK
<1>3. Head(chunkQ) \in Elems(chunkQ) /\ Id(Head(chunkQ)) \notin stuck
  BY <1>1, <1>2, TakeChunk DEF StatusInv, StatusTracksChunks
<1>4. status' = {Id(c) : c \in Elems(chunkQ')} \cup stuck'
  BY <1>1, <1>2, <1>3, TakeChunk DEF StatusInv, StatusTracksChunks
<1>5. \A c \in Elems(chunkQ') : Id(c) \notin stuck'
  BY <1>1, <1>2, TakeChunk DEF StatusInv, StatusTracksChunks
<1> QED BY <1>1, <1>2, <1>4, <1>5, TakeChunk DEF StatusInv, StatusTracksChunks, KeysGrow

LEMMA StatusReject == TypeOK /\ StatusInv /\ RejectEmptyChunk => StatusInv'
<1> SUFFICES ASSUME TypeOK, StatusInv, RejectEmptyChunk PROVE StatusInv' OBVIOUS
<1>1. /\ chunkQ # <<>> /\ chunkQ' = Tail(chunkQ)
      /\ stuck' = stuck \cup {Id(Head(chunkQ))}
      /\ UNCHANGED <<status, nextKey>>
  BY DEF RejectEmptyChunk
<1>2. SyncOK BY DEF TypeOK
<1>3. Head(chunkQ) \in Elems(chunkQ) BY <1>1, <1>2, TakeChunk
<1>4. status' = {Id(c) : c \in Elems(chunkQ')} \cup stuck'
  BY <1>1, <1>2, TakeChunk DEF StatusInv, StatusTracksChunks
<1>5. \A c \in Elems(chunkQ') : Id(c) \notin stuck'
  BY <1>1, <1>2, TakeChunk DEF StatusInv, StatusTracksChunks
<1>6. \A s \in stuck' : s[1] <= nextKey'
  <2>1. Head(chunkQ).key <= nextKey BY <1>3 DEF StatusInv, KeysGrow
  <2>2. Id(Head(chunkQ))[1] = Head(chunkQ).key BY DEF Id
  <2> QED BY <1>1, <2>1, <2>2 DEF StatusInv, KeysGrow
<1> QED BY <1>1, <1>2, <1>4, <1>5, <1>6, TakeChunk DEF StatusInv, StatusTracksChunks, KeysGrow

LEMMA StatusPush ==
  ASSUME TypeOK, StatusInv, NEW t \in Loaders, PushInputForAdjustInventory(t)
  PROVE  StatusInv'
<1> DEFINE lines == loader[t].lines
           node == loader[t].msg.node
           new == NewChunks(lines, node)
           n == Len(Chunks(lines))
<1>1. /\ lines \in Seq(Line) /\ node \in Nodes /\ nextKey \in Nat
      /\ chunkQ \in Seq(Chunk) /\ stuck \subseteq Nat \X Nodes
  <2>1. lines \in Seq(Line) /\ node \in Nodes
    BY DEF PushInputForAdjustInventory, TypeOK, LoadOK, LoaderState, Idle, Store
  <2>2. nextKey \in Nat /\ chunkQ \in Seq(Chunk) /\ stuck \subseteq Nat \X Nodes
    BY DEF TypeOK, SyncOK
  <2> QED BY <2>1, <2>2
<1>2. new \in Seq(Chunk) /\ Len(new) = n /\ n \in Nat BY <1>1, NewChunksType
<1>3. /\ chunkQ' = chunkQ \o new
      /\ status' = status \cup {Id(new[j]) : j \in DOMAIN new}
      /\ nextKey' = nextKey + n
      /\ stuck' = stuck
  BY DEF PushInputForAdjustInventory, NewChunks
<1>4. \A j \in DOMAIN new : new[j].key = nextKey + j /\ Id(new[j])[1] = nextKey + j
  BY DEF NewChunks, Id
<1>5. \A c \in Elems(chunkQ) : c.key <= nextKey /\ c.key \in Nat /\ Id(c)[1] = c.key
  BY <1>1, ElemsType DEF StatusInv, KeysGrow, Id, Chunk
<1>6. \A s \in stuck : s[1] <= nextKey BY DEF StatusInv, KeysGrow
<1> HIDE DEF new, n, lines, node
<1>7. Elems(chunkQ') = Elems(chunkQ) \cup Elems(new) BY <1>1, <1>2, <1>3, ElemsConcat
<1>8. \A j \in DOMAIN new : j \in 1..n BY <1>2
<1>9. status' = {Id(c) : c \in Elems(chunkQ')} \cup stuck'
  <2>1. {Id(new[j]) : j \in DOMAIN new} = {Id(c) : c \in Elems(new)} BY DEF Elems
  <2> QED BY <1>3, <1>7, <2>1 DEF StatusInv, StatusTracksChunks
<1>10. \A c \in Elems(chunkQ') : Id(c) \notin stuck'
  <2>1. \A c \in Elems(chunkQ) : Id(c) \notin stuck' BY <1>3 DEF StatusInv, StatusTracksChunks
  <2>2. ASSUME NEW j \in DOMAIN new PROVE Id(new[j]) \notin stuck'
    <3>1. nextKey + j > nextKey BY <1>1, <1>8, <1>2
    <3> QED BY <1>1, <1>3, <1>4, <1>6, <3>1, <1>8
  <2>3. \A c \in Elems(new) : Id(c) \notin stuck' BY <2>2 DEF Elems
  <2> QED BY <1>7, <2>1, <2>3
<1>11. \A a, b \in DOMAIN chunkQ' : Id(chunkQ'[a]) = Id(chunkQ'[b]) => a = b
  <2> SUFFICES ASSUME NEW a \in DOMAIN chunkQ', NEW b \in DOMAIN chunkQ', a < b,
                      Id(chunkQ'[a]) = Id(chunkQ'[b])
               PROVE  FALSE
    <3>1. DOMAIN chunkQ' \subseteq Nat BY <1>1, <1>2, <1>3
    <3> QED BY <3>1
  <2>1. \A i \in DOMAIN chunkQ' :
          \/ i \in DOMAIN chunkQ /\ chunkQ'[i] = chunkQ[i]
          \/ i > Len(chunkQ) /\ i - Len(chunkQ) \in DOMAIN new /\ chunkQ'[i] = new[i - Len(chunkQ)]
    BY <1>1, <1>2, <1>3
  <2>2. CASE b \in DOMAIN chunkQ /\ chunkQ'[b] = chunkQ[b]
    <3>1. a \in DOMAIN chunkQ /\ chunkQ'[a] = chunkQ[a] BY <1>1, <1>2, <1>3, <2>2
    <3>2. a = b BY <2>2, <3>1 DEF StatusInv, StatusTracksChunks
    <3> QED BY <3>2, <1>1, <2>2
  <2>3. CASE b > Len(chunkQ) /\ b - Len(chunkQ) \in DOMAIN new /\ chunkQ'[b] = new[b - Len(chunkQ)]
    <3>1. Id(chunkQ'[b])[1] = nextKey + (b - Len(chunkQ)) /\ b - Len(chunkQ) \in 1..n
      BY <1>4, <1>8, <2>3
    <3>2. CASE a \in DOMAIN chunkQ /\ chunkQ'[a] = chunkQ[a]
      <4>1. chunkQ[a] \in Elems(chunkQ) BY <3>2 DEF Elems
      <4>2. Id(chunkQ'[a])[1] <= nextKey /\ Id(chunkQ'[a])[1] \in Nat BY <1>5, <3>2, <4>1
      <4> QED BY <1>1, <1>2, <3>1, <4>2
    <3>3. CASE a - Len(chunkQ) \in DOMAIN new /\ chunkQ'[a] = new[a - Len(chunkQ)]
      <4>1. Id(chunkQ'[a])[1] = nextKey + (a - Len(chunkQ)) /\ a - Len(chunkQ) \in 1..n
        BY <1>4, <1>8, <3>3
      <4>2. a \in Nat /\ b \in Nat /\ Len(chunkQ) \in Nat BY <1>1, <1>2, <1>3
      <4> QED BY <1>1, <3>1, <4>1, <4>2
    <3> QED BY <2>1, <3>2, <3>3
  <2> QED BY <2>1, <2>2, <2>3
<1>12. KeysGrow'
  <2>1. nextKey' \in Nat /\ nextKey <= nextKey' BY <1>1, <1>2, <1>3
  <2>2. \A c \in Elems(chunkQ) : c.key <= nextKey' BY <1>1, <1>5, <2>1
  <2>3. \A j \in DOMAIN new : new[j].key <= nextKey' BY <1>1, <1>2, <1>3, <1>4, <1>8
  <2>4. \A c \in Elems(new) : c.key <= nextKey' BY <2>3 DEF Elems
  <2>5. \A s \in stuck' : s[1] <= nextKey' BY <1>1, <1>3, <1>6, <2>1
  <2> QED BY <1>7, <2>2, <2>4, <2>5 DEF KeysGrow
<1> QED BY <1>9, <1>10, <1>11, <1>12 DEF StatusInv, StatusTracksChunks

LEMMA StatusUnchanged == StatusInv /\ UNCHANGED sync => StatusInv'
BY DEF sync, StatusInv, StatusTracksChunks, KeysGrow, Elems, Id

\* Only three handlers touch the status table or the queue of chunks.
LEMMA StatusOthers ==
  ASSUME [Next]_vars
  PROVE  \/ UNCHANGED sync \/ AdjustInventory \/ RejectEmptyChunk
         \/ \E t \in Loaders : PushInputForAdjustInventory(t)
<1>1. Outside => UNCHANGED sync
  BY DEF Outside, Post, Count, Ship, SendSOF, SendStores, Reprocess
<1>2. ASSUME NEW t \in Loaders, LoadStep(t)
      PROVE  UNCHANGED sync \/ PushInputForAdjustInventory(t)
  BY <1>2 DEF LoadStep, ManageDeltaServer, GetMismatch, DuplicateStatusKey, ReceiveEOF,
              SleepAgain, SeeNoStatus, TriggerFullSync
<1>3. ASSUME NEW c \in Consumers, DeltaStep(c) PROVE UNCHANGED sync
  BY <1>3 DEF DeltaStep, ReceiveDelta, SleepTillEOF, ReadTables, ApplyDelta, ApplyCount,
              StopServer, Written
<1>4. RunStopScript \/ RunStartScript => UNCHANGED sync BY DEF RunStopScript, RunStartScript
<1>5. UNCHANGED vars => UNCHANGED sync BY DEF vars
<1> QED BY <1>1, <1>2, <1>3, <1>4, <1>5 DEF Next

\* An empty status table means that no adjustment of a full feed is
\* outstanding, for any number of threads, items and chunks: what the delta
\* server and the EOF handler wait for is what they want.
THEOREM StatusCorrect == Spec => []StatusTracksChunks
<1>1. Init => StatusInv
  BY DEF Init, StatusInv, StatusTracksChunks, KeysGrow, Elems
<1>2. TypeOK /\ StatusInv /\ [Next]_vars => StatusInv'
  BY StatusOthers, StatusAdjust, StatusReject, StatusPush, StatusUnchanged
<1>3. StatusInv => StatusTracksChunks BY DEF StatusInv
<1> QED BY <1>1, <1>2, <1>3, TypeCorrect, PTL DEF Spec

-----------------------------------------------------------------------------
(* A load server with one thread *)

\* While the EOF handler returns from its recursion the status table is empty.
UnwindsEmpty == \A t \in Loaders : loader[t].st = "unwind" => status = {}

LEMMA UnwindStep ==
  ASSUME \A t, u \in Loaders : t = u, TypeOK, UnwindsEmpty, [Next]_vars
  PROVE  UnwindsEmpty'
<1> USE DEF UnwindsEmpty
<1>1. CASE UNCHANGED <<loader, status>> BY <1>1
<1>2. ASSUME NEW t \in Loaders, LoadStep(t) PROVE UnwindsEmpty'
  <2>0. \A u \in Loaders : u = t OBVIOUS
  <2>1. ASSUME NEW s, loader' = [loader EXCEPT ![t] = s], s.st # "unwind" PROVE UnwindsEmpty'
    BY <2>0, <2>1 DEF TypeOK, LoadOK
  <2>2. Idle.st # "unwind" BY DEF Idle
  <2>3. CASE ManageDeltaServer(t) BY <2>3, <1>1 DEF ManageDeltaServer, sync
  <2>4. CASE GetMismatch(t)
    <3>1. PICK lines :
            loader' = [loader EXCEPT ![t] = [st |-> "store", msg |-> Head(feedQ), lines |-> lines]]
      BY <2>4 DEF GetMismatch
    <3>2. [st |-> "store", msg |-> Head(feedQ), lines |-> lines].st # "unwind" OBVIOUS
    <3> QED BY <2>1, <3>1, <3>2
  <2>5. CASE PushInputForAdjustInventory(t)
    BY <2>1, <2>2, <2>5 DEF PushInputForAdjustInventory
  <2>6. CASE DuplicateStatusKey(t) BY <2>1, <2>2, <2>6 DEF DuplicateStatusKey
  <2>7. CASE ReceiveEOF(t)
    <3>1. loader' = [loader EXCEPT ![t] = [st |-> "sleep", frames |-> 1]]
      BY <2>7 DEF ReceiveEOF
    <3>2. [st |-> "sleep", frames |-> 1].st # "unwind" OBVIOUS
    <3> QED BY <2>1, <3>1, <3>2
  <2>8. CASE SleepAgain(t)
    BY <2>0, <2>8 DEF SleepAgain, TypeOK, LoadOK
  <2>9. CASE SeeNoStatus(t) BY <2>9 DEF SeeNoStatus, sync
  <2>10. CASE TriggerFullSync(t) BY <2>10 DEF TriggerFullSync, sync
  <2> QED BY <1>2, <2>3, <2>4, <2>5, <2>6, <2>7, <2>8, <2>9, <2>10 DEF LoadStep
<1>3. CASE AdjustInventory BY <1>3 DEF AdjustInventory, load
<1>4. CASE RejectEmptyChunk BY <1>4, <1>1 DEF RejectEmptyChunk, load
<1>5. CASE Outside
  BY <1>5, <1>1 DEF Outside, Post, Count, Ship, SendSOF, SendStores, Reprocess, load, sync
<1>6. ASSUME NEW c \in Consumers, DeltaStep(c) PROVE UnwindsEmpty'
  BY <1>6, <1>1 DEF DeltaStep, ReceiveDelta, SleepTillEOF, ReadTables, ApplyDelta,
                    ApplyCount, StopServer, Written, load, sync
<1>7. CASE RunStopScript \/ RunStartScript
  BY <1>7, <1>1 DEF RunStopScript, RunStartScript, load, sync
<1>8. CASE UNCHANGED vars BY <1>8, <1>1 DEF vars, load, sync
<1> QED BY <1>2, <1>3, <1>4, <1>5, <1>6, <1>7, <1>8 DEF Next

\* Only the EOF handler triggers the RTAM agent.
LEMMA TriggerStep ==
  ASSUME [Next]_vars, triggers' # triggers
  PROVE  \E t \in Loaders : loader[t].st = "unwind"
<1>1. Outside => UNCHANGED triggers
  BY DEF Outside, Post, Count, Ship, SendSOF, SendStores, Reprocess, control
<1>2. ASSUME NEW t \in Loaders, LoadStep(t)
      PROVE  UNCHANGED triggers \/ loader[t].st = "unwind"
  BY <1>2 DEF LoadStep, ManageDeltaServer, GetMismatch, PushInputForAdjustInventory,
              DuplicateStatusKey, ReceiveEOF, SleepAgain, SeeNoStatus, TriggerFullSync, control
<1>3. ASSUME NEW c \in Consumers, DeltaStep(c) PROVE UNCHANGED triggers
  BY <1>3 DEF DeltaStep, ReceiveDelta, SleepTillEOF, ReadTables, ApplyDelta, ApplyCount,
              StopServer, Written, control
<1>4. RunStopScript \/ RunStartScript \/ AdjustInventory \/ RejectEmptyChunk
        => UNCHANGED triggers
  BY DEF RunStopScript, RunStartScript, AdjustInventory, RejectEmptyChunk, control
<1>5. UNCHANGED vars => UNCHANGED triggers BY DEF vars, control
<1> QED BY <1>1, <1>2, <1>3, <1>4, <1>5 DEF Next

\* Nothing has been put aside so far.
NoneAside == budget["abort"] = MaxAborts

\* A thread waits for the end of a feed, or returns from waiting.
Waits == \E t \in Loaders : loader[t].st \in {"sleep", "unwind"}

\* After the end of a feed comes the beginning of the next one.
Aligned(q) == \A j \in 1..(Len(q) - 1) : q[j].type = "EOF" => q[j + 1].type = "SOF"
StartsFeed(q) == q # <<>> => q[1].type = "SOF"

\* The queue while nothing was put aside: the feed that is waited for has no store
\* in it any more, and one that is being sent ends in its SOF.
InOrder ==
  /\ failed = {}
  /\ Aligned(feedQ)
  /\ Waits => StartsFeed(feedQ)
  /\ sending => IF feedQ = <<>> THEN ~Waits ELSE feedQ[Len(feedQ)].type = "SOF"
QueueInv == budget["abort"] <= MaxAborts /\ (NoneAside => InOrder)

LEMMA EmptyQueue ==
  ASSUME NEW S, NEW q \in Seq(S)
  PROVE  q = <<>> <=> Len(q) = 0
OBVIOUS

LEMMA JoinedQueue ==
  ASSUME NEW S, NEW q \in Seq(S), NEW r \in Seq(S)
  PROVE  /\ q \o r \in Seq(S) /\ Len(q \o r) = Len(q) + Len(r) /\ Len(q) \in Nat
         /\ \A j \in 1..Len(q) : (q \o r)[j] = q[j]
         /\ \A j \in 1..Len(r) : (q \o r)[Len(q) + j] = r[j]
OBVIOUS

\* What becomes of the order of the queue when a message is taken from it.
LEMMA TakeInOrder ==
  ASSUME \A t, u \in Loaders : t = u, TypeOK, InOrder, NEW t \in Loaders, NEW type,
         Receive(t, type), UNCHANGED <<failed, sending>>,
         NEW s, loader' = [loader EXCEPT ![t] = s],
         s.st \in {"sleep", "unwind"} => type = "EOF"
  PROVE  InOrder'
<1>1. feedQ \in Seq(Store \cup Mark) /\ feedQ # <<>> /\ feedQ' = Tail(feedQ) /\ feedQ[1].type = type
  BY DEF TypeOK, LoadOK, Receive
<1>2. /\ Len(feedQ') = Len(feedQ) - 1
      /\ \A j \in 1..Len(feedQ') : feedQ'[j] = feedQ[j + 1]
      /\ feedQ' = <<>> <=> Len(feedQ) = 1
  <2> DEFINE q == feedQ
  <2>1. q \in Seq(Store \cup Mark) /\ q # <<>> BY <1>1
  <2> HIDE DEF q
  <2>2. Len(Tail(q)) = Len(q) - 1 /\ \A j \in 1..Len(Tail(q)) : Tail(q)[j] = q[j + 1] BY <2>1
  <2>3. Tail(q) \in Seq(Store \cup Mark) /\ Len(q) \in Nat BY <2>1
  <2>4. Tail(q) = <<>> <=> Len(Tail(q)) = 0 BY <2>3, EmptyQueue
  <2>5. Tail(q) = <<>> <=> Len(q) = 1 BY <2>2, <2>3, <2>4
  <2> QED BY <1>1, <2>2, <2>5 DEF q
<1>3. Aligned(feedQ')
  <2> SUFFICES ASSUME NEW j \in 1..(Len(feedQ') - 1), feedQ'[j].type = "EOF"
               PROVE  feedQ'[j + 1].type = "SOF"
    BY DEF Aligned
  <2>1. j + 1 \in 1..(Len(feedQ) - 1) /\ feedQ'[j] = feedQ[j + 1] /\ feedQ'[j + 1] = feedQ[j + 1 + 1]
    BY <1>1, <1>2
  <2> QED BY <2>1 DEF InOrder, Aligned
<1>4. Waits' => type = "EOF"
  <2>1. \A u \in Loaders : loader'[u] = s BY DEF TypeOK, LoadOK
  <2> QED BY <2>1 DEF Waits
<1>5. type = "EOF" => StartsFeed(feedQ')
  <2> SUFFICES ASSUME type = "EOF", feedQ' # <<>> PROVE feedQ'[1].type = "SOF"
    BY DEF StartsFeed
  <2>1. 1 \in 1..(Len(feedQ) - 1) /\ feedQ'[1] = feedQ[1 + 1] BY <1>1, <1>2
  <2> QED BY <1>1, <2>1 DEF InOrder, Aligned
<1>6. sending => feedQ[Len(feedQ)].type = "SOF" BY <1>1 DEF InOrder
<1>7. sending' => IF feedQ' = <<>> THEN ~Waits' ELSE feedQ'[Len(feedQ')].type = "SOF"
  <2>1. CASE feedQ' = <<>> BY <1>1, <1>2, <1>4, <1>6, <2>1
  <2>2. CASE feedQ' # <<>>
    <3>1. Len(feedQ') \in 1..Len(feedQ') BY <1>1, <1>2, <2>2
    <3>2. feedQ'[Len(feedQ')] = feedQ[Len(feedQ)] BY <1>1, <1>2, <3>1
    <3> QED BY <1>6, <2>2, <3>2
  <2> QED BY <2>1, <2>2
<1> QED BY <1>3, <1>4, <1>5, <1>7 DEF InOrder

\* What SAP appends keeps the order.
LEMMA SendInOrder ==
  ASSUME TypeOK, InOrder, NoneAside, SendSOF \/ SendStores
  PROVE  InOrder' 
<1>1. feedQ \in Seq(Store \cup Mark) /\ UNCHANGED <<failed, loader>> /\ (Waits' <=> Waits)
  BY DEF TypeOK, LoadOK, SendSOF, SendStores, Waits
<1>2. CASE SendSOF
  <2>1. feedQ' = Append(feedQ, [type |-> "SOF"]) BY <1>2 DEF SendSOF
  <2>2. /\ Len(feedQ') = Len(feedQ) + 1 /\ feedQ' # <<>>
        /\ feedQ'[Len(feedQ')].type = "SOF"
        /\ \A j \in 1..Len(feedQ) : feedQ'[j] = feedQ[j]
    BY <1>1, <2>1
  <2>3. Aligned(feedQ')
    <3> SUFFICES ASSUME NEW j \in 1..(Len(feedQ') - 1), feedQ'[j].type = "EOF"
                 PROVE  feedQ'[j + 1].type = "SOF"
      BY DEF Aligned
    <3>1. CASE j = Len(feedQ) BY <1>1, <2>2, <3>1
    <3>2. CASE j # Len(feedQ)
      <4>1. j \in 1..(Len(feedQ) - 1) /\ j + 1 \in 1..Len(feedQ) /\ j \in 1..Len(feedQ)
        BY <1>1, <2>2, <3>2
      <4> QED BY <2>2, <4>1 DEF InOrder, Aligned
    <3> QED BY <3>1, <3>2
  <2>4. Waits => StartsFeed(feedQ')
    <3>1. CASE feedQ = <<>> BY <1>1, <2>2, <3>1 DEF StartsFeed
    <3>2. CASE feedQ # <<>>
      <4>1. 1 \in 1..Len(feedQ) BY <1>1, <3>2
      <4> QED BY <2>2, <3>2, <4>1 DEF InOrder, StartsFeed
    <3> QED BY <3>1, <3>2
  <2> QED BY <1>1, <2>2, <2>3, <2>4 DEF InOrder
<1>3. CASE SendStores
  <2>1. sending /\ ~sending' BY <1>3 DEF SendStores
  <2>2. PICK nodes \in Orders({n \in Nodes : Listed(n) # {}}),
             order \in [Nodes -> UNION {Orders(S) : S \in SUBSET Items}] :
          feedQ' = feedQ \o [j \in DOMAIN nodes |-> StoreFeed(nodes[j], order[nodes[j]])]
                         \o <<[type |-> "EOF"]>>
    BY <1>3 DEF SendStores
  <2> DEFINE stores == [j \in DOMAIN nodes |-> StoreFeed(nodes[j], order[nodes[j]])]
  <2>3. nodes \in Seq(Nodes) /\ DOMAIN nodes = 1..Len(nodes) /\ Len(nodes) \in Nat
    <3> DEFINE shops == {n \in Nodes : Listed(n) # {}}
    <3>1. IsFiniteSet(shops) BY SetsAssumption, FS_Subset
    <3> HIDE DEF shops
    <3>2. nodes \in Seq(shops) BY <2>2, <3>1, OrdersType DEF shops
    <3>3. shops \subseteq Nodes BY DEF shops
    <3>4. \A j \in DOMAIN nodes : nodes[j] \in Nodes BY <3>2, <3>3
    <3> QED BY <3>2, <3>4
  <2>4. \A j \in DOMAIN nodes : stores[j].type = "STORE" BY DEF StoreFeed
  <2>5. DOMAIN stores = 1..Len(nodes) BY <2>3
  <2> HIDE DEF stores
  <2>6. stores \in Seq({stores[j] : j \in 1..Len(nodes)}) /\ Len(stores) = Len(nodes)
    <3>1. stores = [j \in 1..Len(nodes) |-> stores[j]] BY <2>5 DEF stores
    <3> QED BY <2>3, <3>1
  <2>7. /\ Len(feedQ') = Len(feedQ) + Len(nodes) + 1
        /\ \A j \in 1..Len(feedQ) : feedQ'[j] = feedQ[j]
        /\ \A j \in 1..Len(nodes) : feedQ'[Len(feedQ) + j] = stores[j]
        /\ feedQ'[Len(feedQ) + Len(nodes) + 1].type = "EOF"
        /\ feedQ' # <<>>
    <3> DEFINE S == Store \cup Mark \cup {stores[j] : j \in 1..Len(nodes)} \cup {[type |-> "EOF"]}
               q == feedQ
               r == q \o stores
    <3>1. feedQ' = r \o <<[type |-> "EOF"]>> BY <2>2 DEF stores
    <3>2. q \in Seq(S) BY <1>1
    <3>3. stores \in Seq(S) BY <2>6
    <3>4. <<[type |-> "EOF"]>> \in Seq(S) OBVIOUS
    <3> HIDE DEF q, S
    <3>5. /\ r \in Seq(S) /\ Len(r) = Len(q) + Len(nodes)
          /\ \A j \in 1..Len(q) : r[j] = q[j]
          /\ \A j \in 1..Len(nodes) : r[Len(q) + j] = stores[j]
      <4>1. /\ r \in Seq(S) /\ Len(r) = Len(q) + Len(stores)
            /\ \A j \in 1..Len(q) : r[j] = q[j]
            /\ \A j \in 1..Len(stores) : r[Len(q) + j] = stores[j]
        BY <3>2, <3>3, JoinedQueue
      <4> HIDE DEF r
      <4> QED BY <2>6, <4>1
    <3> HIDE DEF r
    <3>6. /\ Len(r \o <<[type |-> "EOF"]>>) = Len(r) + 1
          /\ \A j \in 1..Len(r) : (r \o <<[type |-> "EOF"]>>)[j] = r[j]
          /\ (r \o <<[type |-> "EOF"]>>)[Len(r) + 1] = [type |-> "EOF"]
          /\ r \o <<[type |-> "EOF"]>> # <<>>
      <4> DEFINE end == <<[type |-> "EOF"]>>
      <4>1. end \in Seq(S) /\ Len(end) = 1 /\ end[1] = [type |-> "EOF"] BY <3>4
      <4> HIDE DEF end
      <4>2. r \o end \in Seq(S) /\ Len(r \o end) = Len(r) + 1 /\ Len(r) \in Nat
            /\ (\A j \in 1..Len(r) : (r \o end)[j] = r[j]) /\ (r \o end)[Len(r) + 1] = end[1]
        <5>0. r \in Seq(S) /\ end \in Seq(S) BY <3>5, <4>1
        <5>1. /\ r \o end \in Seq(S) /\ Len(r \o end) = Len(r) + Len(end) /\ Len(r) \in Nat
              /\ \A j \in 1..Len(r) : (r \o end)[j] = r[j]
              /\ \A j \in 1..Len(end) : (r \o end)[Len(r) + j] = end[j]
          BY <5>0, JoinedQueue
        <5>2. 1 \in 1..Len(end) BY <4>1
        <5>3. (r \o end)[Len(r) + 1] = end[1] BY <5>1, <5>2
        <5> QED BY <4>1, <5>1, <5>3
      <4>3. r \o end # <<>> BY <4>2, EmptyQueue
      <4> QED BY <4>1, <4>2, <4>3 DEF end
    <3>7. Len(q) \in Nat BY <3>2
    <3>8. \A j \in 1..Len(q) : j \in 1..Len(r) /\ r[j] = q[j] BY <2>3, <3>5, <3>7
    <3>9. \A j \in 1..Len(nodes) : Len(q) + j \in 1..Len(r) /\ r[Len(q) + j] = stores[j]
      BY <2>3, <3>5, <3>7
    <3> QED BY <3>1, <3>5, <3>6, <3>8, <3>9 DEF q
  <2>8. feedQ # <<>> => feedQ[Len(feedQ)].type = "SOF" BY <2>1 DEF InOrder
  <2>9. Aligned(feedQ')
    <3> SUFFICES ASSUME NEW j \in 1..(Len(feedQ') - 1), feedQ'[j].type = "EOF"
                 PROVE  feedQ'[j + 1].type = "SOF"
      BY DEF Aligned
    <3>0. Len(feedQ) \in Nat BY <1>1
    <3>1. CASE j = Len(feedQ)
      <4>1. feedQ # <<>> /\ feedQ'[j] = feedQ[j] BY <1>1, <2>7, <3>1
      <4> QED BY <2>8, <3>1, <4>1
    <3>2. CASE j < Len(feedQ)
      <4>1. j \in 1..(Len(feedQ) - 1) /\ feedQ'[j] = feedQ[j] /\ feedQ'[j + 1] = feedQ[j + 1]
        BY <2>7, <3>0, <3>2
      <4> QED BY <4>1 DEF InOrder, Aligned
    <3>3. CASE j > Len(feedQ)
      <4>1. j - Len(feedQ) \in 1..Len(nodes) /\ j = Len(feedQ) + (j - Len(feedQ))
        BY <2>3, <2>7, <3>0, <3>3
      <4>2. feedQ'[j] = stores[j - Len(feedQ)] BY <2>7, <4>1
      <4>3. feedQ'[j].type = "STORE" BY <2>3, <2>4, <4>1, <4>2
      <4> QED BY <4>3
    <3> QED BY <3>0, <3>1, <3>2, <3>3
  <2>10. Waits => StartsFeed(feedQ')
    <3> SUFFICES ASSUME Waits PROVE feedQ'[1].type = "SOF" BY DEF StartsFeed
    <3>1. feedQ # <<>> BY <2>1 DEF InOrder
    <3>2. 1 \in 1..Len(feedQ) BY <1>1, <3>1
    <3> QED BY <2>7, <3>1, <3>2 DEF InOrder, StartsFeed
  <2> QED BY <1>1, <2>1, <2>9, <2>10 DEF InOrder
<1> QED BY <1>2, <1>3

\* Steps that leave the queue as it is and make no thread wait.
LEMMA AsideInOrder ==
  ASSUME InOrder, UNCHANGED <<feedQ, failed, sending>>, Waits' => Waits
  PROVE  InOrder'
BY DEF InOrder

LEMMA FeedStep ==
  ASSUME \A t, u \in Loaders : t = u, TypeOK, QueueInv, [Next]_vars
  PROVE  QueueInv'
<1>0. budget["abort"] \in Nat /\ MaxAborts \in Nat /\ budget \in [Budgets -> Nat] /\ "abort" \in Budgets
  BY BoundsAssumption DEF TypeOK, EnvOK, Budgets
<1>1. ASSUME budget'["abort"] = budget["abort"], NoneAside => InOrder' PROVE QueueInv'
  BY <1>1 DEF QueueInv, NoneAside
<1>2. ASSUME budget'["abort"] = budget["abort"], UNCHANGED <<feedQ, failed, sending>>, Waits' => Waits
      PROVE  QueueInv'
  BY <1>1, <1>2, AsideInOrder DEF QueueInv
<1>3. ASSUME UNCHANGED <<env, load>> PROVE QueueInv'
  BY <1>2, <1>3 DEF env, load, Waits
<1>4. ASSUME NEW t \in Loaders, LoadStep(t) PROVE QueueInv'
  <2>0. \A u \in Loaders : u = t OBVIOUS
  <2>1. ASSUME UNCHANGED <<env, failed>>, NEW type, Receive(t, type),
               NEW s, loader' = [loader EXCEPT ![t] = s],
               s.st \in {"sleep", "unwind"} => type = "EOF"
        PROVE  QueueInv'
    <3>1. NoneAside => InOrder' BY <2>1, TakeInOrder DEF QueueInv, env
    <3> QED BY <1>1, <2>1, <3>1 DEF env
  <2>2. ASSUME UNCHANGED <<env, feedQ, failed>>, NEW s, loader' = [loader EXCEPT ![t] = s],
               s.st \in {"sleep", "unwind"} => loader[t].st \in {"sleep", "unwind"}
        PROVE  QueueInv'
    <3>1. loader'[t] = s BY <2>2 DEF TypeOK, LoadOK
    <3>2. Waits' => Waits BY <2>0, <2>2, <3>1 DEF Waits
    <3> QED BY <1>2, <2>2, <3>2 DEF env
  <2>3. Idle.st = "idle" BY DEF Idle
  <2>4. CASE ManageDeltaServer(t)
    <3>1. loader' = [loader EXCEPT ![t] = loader[t]] /\ loader[t].st = "idle"
      BY <2>4 DEF ManageDeltaServer, Receive, TypeOK, LoadOK
    <3>2. UNCHANGED <<env, failed>> /\ Receive(t, "SOF") BY <2>4 DEF ManageDeltaServer
    <3> QED BY <2>1, <3>1, <3>2
  <2>5. CASE GetMismatch(t)
    <3>1. PICK lines :
            loader' = [loader EXCEPT ![t] = [st |-> "store", msg |-> Head(feedQ), lines |-> lines]]
      BY <2>5 DEF GetMismatch
    <3>2. [st |-> "store", msg |-> Head(feedQ), lines |-> lines].st = "store" OBVIOUS
    <3>3. UNCHANGED <<env, failed>> /\ Receive(t, "STORE") BY <2>5 DEF GetMismatch
    <3> QED BY <2>1, <3>1, <3>2, <3>3
  <2>6. CASE PushInputForAdjustInventory(t)
    BY <2>2, <2>3, <2>6 DEF PushInputForAdjustInventory
  <2>7. CASE DuplicateStatusKey(t)
    <3>1. budget'["abort"] = budget["abort"] - 1
      BY <1>0, <2>7 DEF DuplicateStatusKey
    <3> QED BY <1>0, <3>1 DEF QueueInv, NoneAside
  <2>8. CASE ReceiveEOF(t)
    <3>1. loader' = [loader EXCEPT ![t] = [st |-> "sleep", frames |-> 1]]
      BY <2>8 DEF ReceiveEOF
    <3>2. UNCHANGED <<env, failed>> /\ Receive(t, "EOF") BY <2>8 DEF ReceiveEOF
    <3> QED BY <2>1, <3>1, <3>2
  <2>9. CASE SleepAgain(t)
    <3>1. Waits BY <2>9 DEF SleepAgain, Waits
    <3>2. UNCHANGED <<env, feedQ, failed>> BY <2>9 DEF SleepAgain
    <3> QED BY <1>2, <3>1, <3>2 DEF env
  <2>10. CASE SeeNoStatus(t)
    <3>1. Waits BY <2>10 DEF SeeNoStatus, Waits
    <3>2. UNCHANGED <<env, feedQ, failed>> BY <2>10 DEF SeeNoStatus
    <3> QED BY <1>2, <3>1, <3>2 DEF env
  <2>11. CASE TriggerFullSync(t)
    <3>1. Waits BY <2>11 DEF TriggerFullSync, Waits
    <3>2. UNCHANGED <<env, feedQ, failed>> BY <2>11 DEF TriggerFullSync
    <3> QED BY <1>2, <3>1, <3>2 DEF env
  <2> QED BY <1>4, <2>4, <2>5, <2>6, <2>7, <2>8, <2>9, <2>10, <2>11 DEF LoadStep
<1>5. CASE SendSOF
  <2>1. budget'["abort"] = budget["abort"] BY <1>0, <1>5 DEF SendSOF, Spend
  <2> QED BY <1>1, <1>5, <2>1, SendInOrder DEF QueueInv
<1>6. CASE SendStores
  <2>1. budget'["abort"] = budget["abort"] BY <1>6 DEF SendStores
  <2> QED BY <1>1, <1>6, <2>1, SendInOrder DEF QueueInv
<1>7. CASE Reprocess
  <2>1. failed # {} /\ budget' = budget BY <1>7 DEF Reprocess, env
  <2> QED BY <1>1, <2>1 DEF QueueInv, InOrder
<1>8. ASSUME NEW k \in Keys, NEW d \in {-1, 1}, Post(k, d) PROVE QueueInv'
  BY <1>0, <1>2, <1>8 DEF Post, Spend, load, Waits
<1>9. ASSUME NEW k \in Keys, NEW q \in InitialSupply, Count(k, q) PROVE QueueInv'
  BY <1>0, <1>2, <1>9 DEF Count, Spend, load, Waits
<1>10. ASSUME NEW k \in Keys, Ship(k) PROVE QueueInv'
  BY <1>0, <1>2, <1>10 DEF Ship, Spend, load, Waits
<1>11. CASE Outside BY <1>5, <1>6, <1>7, <1>8, <1>9, <1>10, <1>11 DEF Outside
<1>12. CASE AdjustInventory \/ RejectEmptyChunk
  BY <1>3, <1>12 DEF AdjustInventory, RejectEmptyChunk
<1>13. ASSUME NEW c \in Consumers, DeltaStep(c) PROVE QueueInv'
  BY <1>3, <1>13 DEF DeltaStep, ReceiveDelta, SleepTillEOF, ReadTables, ApplyDelta,
                     ApplyCount, StopServer, Written
<1>14. CASE RunStopScript \/ RunStartScript BY <1>3, <1>14 DEF RunStopScript, RunStartScript
<1>15. CASE UNCHANGED vars BY <1>3, <1>15 DEF vars
<1> QED BY <1>4, <1>11, <1>12, <1>13, <1>14, <1>15 DEF Next

\* Were the load server configured with one thread, the RTAM agent would never be
\* triggered with a store in hand or an adjustment outstanding, and never with any
\* store of the feed undone unless a store message had been put aside: the threads
\* and the messages put aside are the two causes of an early trigger, and the
\* recursion of the EOF handler, the scripts and further feeds are none.
THEOREM SingleLoader ==
  ASSUME \A t, u \in Loaders : t = u
  PROVE  Spec => TriggerMissesOnlyPutAside
<1>1. Init => UnwindsEmpty /\ QueueInv
  <2>1. Init => UnwindsEmpty /\ ~Waits BY DEF Init, UnwindsEmpty, Waits, Idle
  <2>2. Init => InOrder BY <2>1 DEF Init, InOrder, Aligned
  <2>3. Init => budget["abort"] = MaxAborts BY DEF Init, Budgets, Bound
  <2> QED BY <2>1, <2>2, <2>3, BoundsAssumption DEF QueueInv
<1>2. TypeOK /\ UnwindsEmpty /\ QueueInv /\ [Next]_vars => UnwindsEmpty' /\ QueueInv'
  BY UnwindStep, FeedStep
<1> DEFINE A == triggers' # triggers =>
                  /\ status = {} /\ \A t \in Loaders : loader[t].st # "store"
                  /\ budget["abort"] = MaxAborts => StoresDone
<1>3. TypeOK /\ UnwindsEmpty /\ QueueInv /\ [Next]_vars => A
  <2> SUFFICES ASSUME TypeOK, UnwindsEmpty, QueueInv, [Next]_vars, triggers' # triggers
               PROVE  /\ status = {} /\ \A t \in Loaders : loader[t].st # "store"
                      /\ budget["abort"] = MaxAborts => StoresDone
    OBVIOUS
  <2>1. PICK t \in Loaders : loader[t].st = "unwind" BY TriggerStep
  <2>2. \A u \in Loaders : u = t OBVIOUS
  <2>3. status = {} /\ \A u \in Loaders : loader[u].st # "store"
    BY <2>1, <2>2 DEF UnwindsEmpty
  <2>4. ASSUME NoneAside PROVE StoresDone
    <3>1. failed = {} /\ StartsFeed(feedQ)
      BY <2>1, <2>4 DEF QueueInv, InOrder, Waits
    <3>2. feedQ # <<>> => Head(feedQ).type = "SOF" BY <3>1 DEF StartsFeed, TypeOK, LoadOK
    <3> QED BY <2>3, <3>1, <3>2 DEF StoresDone
  <2> QED BY <2>3, <2>4 DEF NoneAside
<1>4. TypeOK /\ UnwindsEmpty /\ QueueInv /\ [Next]_vars => [A]_vars BY <1>3
<1> HIDE DEF A
<1>5. Spec => [][A]_vars BY <1>1, <1>2, <1>4, TypeCorrect, PTL DEF Spec
<1> QED BY <1>5 DEF A, TriggerMissesOnlyPutAside

-----------------------------------------------------------------------------
(* The dates of the control table *)

\* The comparison of dates is right outside the hour after noon, so the theorems
\* are about runs in which nothing is dated then: no booking, no snapshot, and no
\* control record that takes the date of its update.
NothingAtNoon ==
  Hour(now) = 12 =>
    /\ \A k \in Keys : lastTx[k] # now /\ ctrl[k].tx # now
    /\ \A j \in DOMAIN feedQ : feedQ[j].type = "STORE" => feedQ[j].gen # now
Times == {t \in Nat \ {0} : Hour(t) # 12}

DatedLine == {l \in Line : l.gen # 0 => l.gen \in Times /\ l.tx \in Times}
DatedStore == {m \in Store : /\ m.gen \in Times
                             /\ \A j \in DOMAIN m.lines : m.lines[j].tx \in Times}
DatedDelta == {m \in Delta : m.tx \in Times /\ m.gen \in Times}

\* Every date between SAP and the control table is that of an event, and only
\* the control table and the lines of items that are not listed have none.
EnvDated == now \in Nat \ {0} /\ \A k \in Keys : lastTx[k] \in Times
LoadDated ==
  /\ feedQ \in Seq(DatedStore \cup Mark) /\ failed \subseteq DatedStore
  /\ \A t \in Loaders : loader[t].st = "store" =>
       loader[t].msg \in DatedStore /\ loader[t].lines \in Seq(DatedLine)
ChunksDated == \A c \in Elems(chunkQ) : c.lines \in Seq(DatedLine)
CtrlDated == \A k \in Keys : ctrl[k].tx \in Times \cup {0} /\ ctrl[k].gen \in Times \cup {0}
ServerDated ==
  /\ deltaQ \subseteq DatedDelta
  /\ \A c \in Consumers : delta[c].st \in {"sleep", "awake", "write"} => delta[c].msg \in DatedDelta

\* What an instance has read of the control table is still so, unless another
\* writer was noted.
Fresh == \A c \in Consumers \ raced : delta[c].st = "write" => Applicable(delta[c].msg)

DatesInv == EnvDated /\ LoadDated /\ ChunksDated /\ CtrlDated /\ ServerDated /\ Fresh

LEMMA LaterIsLater ==
  ASSUME NEW a \in Times, NEW b \in Times, Later(a, b)
  PROVE  a > b
<1>1. \A t \in Times : t \in Nat /\ Hour(t) \in 0..23 /\ Midnight(t) + Hour(t) = StartHour + t
  BY StartHourAssumption DEF Times, Hour, Midnight
<1>2. \A t \in Times : Parsed(t) = StartHour + t BY <1>1 DEF Times, Parsed
<1> QED BY <1>1, <1>2, StartHourAssumption DEF Later

\* A date that can be applied to a record is beyond it.
LEMMA AppliedIsLater ==
  ASSUME NEW a \in Times, NEW b \in Times \cup {0}, CanApply(a, b)
  PROVE  a > b
<1>1. a \in Nat \ {0} BY DEF Times
<1> QED BY <1>1, LaterIsLater DEF CanApply

LEMMA DatesStart == Init /\ NothingAtNoon => DatesInv
<1> SUFFICES ASSUME Init, NothingAtNoon PROVE DatesInv OBVIOUS
<1>2. EnvDated BY DEF Init, NothingAtNoon, Times, EnvDated
<1>3. LoadDated /\ ChunksDated BY DEF Init, LoadDated, ChunksDated, Idle, Elems
<1>4. CtrlDated BY DEF Init, CtrlDated, NoRecord
<1>5. ServerDated /\ Fresh BY DEF Init, ServerDated, Fresh, Idle, Down
<1> QED BY <1>2, <1>3, <1>4, <1>5 DEF DatesInv

LEMMA DatesKeep ==
  /\ EnvDated /\ UNCHANGED <<now, lastTx>> => EnvDated'
  /\ LoadDated /\ UNCHANGED load => LoadDated'
  /\ ChunksDated /\ UNCHANGED chunkQ => ChunksDated'
  /\ CtrlDated /\ UNCHANGED ctrl => CtrlDated'
  /\ ServerDated /\ UNCHANGED <<deltaQ, delta>> => ServerDated'
  /\ Fresh /\ UNCHANGED <<ctrl, delta>> /\ raced \subseteq raced' => Fresh'
BY DEF EnvDated, LoadDated, ChunksDated, CtrlDated, ServerDated, Fresh, Applicable, load, Elems

\* The feed of a store carries the dates of what was booked there.
LEMMA StoresDated ==
  ASSUME EnvOK, LoadOK, EnvDated, LoadDated, SendStores, NothingAtNoon'
  PROVE  feedQ' \in Seq(DatedStore \cup Mark)
<1> DEFINE shops == {n \in Nodes : Listed(n) # {}}
<1>1. PICK nodes \in Orders(shops), order \in [Nodes -> UNION {Orders(S) : S \in SUBSET Items}] :
        /\ \A n \in Nodes : order[n] \in Orders(Listed(n))
        /\ feedQ' = feedQ \o [j \in DOMAIN nodes |-> StoreFeed(nodes[j], order[nodes[j]])]
                          \o <<[type |-> "EOF"]>>
  BY DEF SendStores
<1>2. nodes \in Seq(Nodes)
  <2>1. shops \in SUBSET Nodes /\ IsFiniteSet(shops) BY SetsAssumption, FS_Subset
  <2>2. nodes \in Seq(shops) BY <2>1, OrdersType
  <2> QED BY <2>1, <2>2
<1>3. \A n \in Nodes : order[n] \in Seq(Items)
  <2> SUFFICES ASSUME NEW n \in Nodes PROVE order[n] \in Seq(Items) OBVIOUS
  <2>1. Listed(n) \in SUBSET Items BY DEF Listed
  <2>2. IsFiniteSet(Listed(n)) BY <2>1, SetsAssumption, FS_Subset
  <2>3. order[n] \in Seq(Listed(n)) BY <1>1, <2>2, OrdersType
  <2> QED BY <2>1, <2>3
<1> DEFINE feed(j) == StoreFeed(nodes[j], order[nodes[j]])
           stores == [j \in DOMAIN nodes |-> feed(j)]
           eof == <<[type |-> "EOF"]>>
           Q == DatedStore \cup Mark
<1>4. \A j \in 1..Len(nodes) : feed(j) \in Store BY <1>2, <1>3, StoreFeedType
<1>5. stores \in Seq(Store) /\ Len(stores) = Len(nodes) /\ \A j \in 1..Len(nodes) : stores[j] = feed(j)
  <2> HIDE DEF feed
  <2>1. [j \in 1..Len(nodes) |-> feed(j)] \in [1..Len(nodes) -> Store] BY <1>4
  <2>2. Len(nodes) \in Nat /\ DOMAIN nodes = 1..Len(nodes) BY <1>2
  <2> QED BY <2>1, <2>2, FunctionSeq
<1>6. eof \in Seq(Mark) BY DEF Mark
<1>7. feedQ' = feedQ \o stores \o eof /\ now' = now + 1 BY <1>1 DEF SendStores
<1>8. ASSUME NEW j \in 1..Len(nodes) PROVE feed(j) \in DatedStore
  <2> DEFINE n == nodes[j]
             o == order[n]
  <2>0. n \in Nodes /\ o \in Seq(Items) /\ feed(j) = StoreFeed(n, o) BY <1>2, <1>3
  <2>1. feedQ'[Len(feedQ) + j] = feed(j) /\ Len(feedQ) + j \in DOMAIN feedQ'
    <3> HIDE DEF stores, eof, feed
    <3>1. feedQ \in Seq(Store \cup Mark) BY DEF LoadOK
    <3>2. stores \in Seq(Store \cup Mark) /\ eof \in Seq(Store \cup Mark) BY <1>5, <1>6
    <3>3. j \in 1..Len(stores) /\ stores[j] = feed(j) BY <1>5
    <3> DEFINE R == Store \cup Mark
    <3>4. feedQ \in Seq(R) /\ stores \in Seq(R) /\ eof \in Seq(R) BY <3>1, <3>2
    <3> HIDE DEF R
    <3> QED BY <1>7, <3>3, <3>4
  <2> HIDE DEF n, o
  <2>2. feed(j).type = "STORE" /\ feed(j).gen = now' BY <1>7, <2>0 DEF StoreFeed
  <2>3. Hour(now') # 12 BY <2>1, <2>2 DEF NothingAtNoon
  <2>4. now' \in Times BY <1>7, <2>3 DEF EnvOK, Times
  <2> HIDE DEF feed
  <2>5. ASSUME NEW i \in DOMAIN feed(j).lines PROVE feed(j).lines[i].tx \in Times
    <3>1. i \in DOMAIN o /\ feed(j).lines[i].tx = lastTx[<<o[i], n>>]
      BY <2>0, <2>5 DEF StoreFeed
    <3>2. <<o[i], n>> \in Keys BY <2>0, <3>1 DEF Keys
    <3> QED BY <3>1, <3>2 DEF EnvDated
  <2> QED BY <1>4, <2>2, <2>4, <2>5 DEF DatedStore
<1> HIDE DEF stores, eof, feed
<1>9. stores \in Seq(DatedStore) BY <1>5, <1>8
<1>10. feedQ \in Seq(Q) BY DEF LoadDated
<1>11. stores \in Seq(Q) /\ eof \in Seq(Q) BY <1>6, <1>9
<1> HIDE DEF Q
<1>12. feedQ' \in Seq(Q) BY <1>7, <1>10, <1>11
<1> QED BY <1>12 DEF Q

LEMMA DatesOutside ==
  ASSUME TypeOK, DatesInv, Outside, NothingAtNoon'
  PROVE  DatesInv'
<1> USE DEF DatesInv
<1>0. EnvOK /\ LoadOK /\ ServerOK BY DEF TypeOK
<1>a. now' = now + 1 => now' \in Nat \ {0} BY <1>0 DEF EnvOK
<1>b. ASSUME NEW k \in Keys, now' = now + 1, lastTx' = [lastTx EXCEPT ![k] = now']
      PROVE  now' \in Times /\ EnvDated'
  <2>1. lastTx'[k] = now' /\ \A j \in Keys \ {k} : lastTx'[j] = lastTx[j]
    BY <1>0, <1>b DEF EnvOK
  <2>2. now' \in Times BY <1>a, <1>b, <2>1 DEF NothingAtNoon, Times
  <2>3. \A j \in Keys : lastTx'[j] \in Times BY <2>1, <2>2 DEF EnvDated
  <2> QED BY <1>a, <1>b, <2>2, <2>3 DEF EnvDated
<1>1. ASSUME NEW k \in Keys, NEW q \in Int, NEW b \in BOOLEAN, now' = now + 1,
             lastTx' = [lastTx EXCEPT ![k] = now'],
             deltaQ' = deltaQ \cup {[abs |-> b, key |-> k, qty |-> q, tx |-> now', gen |-> now']},
             UNCHANGED <<load, chunkQ, ctrl, delta, raced>>
      PROVE  DatesInv'
  <2>1. EnvDated' /\ now' \in Times BY <1>1, <1>b
  <2>2. [abs |-> b, key |-> k, qty |-> q, tx |-> now', gen |-> now'] \in DatedDelta
    BY <1>1, <2>1 DEF DatedDelta, Delta, Times
  <2>3. ServerDated' BY <1>1, <2>2 DEF ServerDated
  <2> QED BY <1>1, <2>1, <2>3, DatesKeep
<1>2. ASSUME NEW k \in Keys, NEW d \in {-1, 1}, Post(k, d) PROVE DatesInv'
  <2>1. d \in Int /\ FALSE \in BOOLEAN OBVIOUS
  <2> QED BY <1>1, <1>2, <2>1 DEF Post, Spend, sync, tables, history
<1>3. ASSUME NEW k \in Keys, NEW q \in InitialSupply, Count(k, q) PROVE DatesInv'
  <2>1. q \in Int /\ TRUE \in BOOLEAN BY BoundsAssumption
  <2> QED BY <1>1, <1>3, <2>1 DEF Count, Spend, sync, tables, history
<1>4. ASSUME NEW k \in Keys, Ship(k) PROVE DatesInv'
  <2>1. EnvDated' BY <1>4, <1>b DEF Ship, Spend
  <2>2. UNCHANGED <<load, chunkQ, ctrl, deltaQ, delta>> /\ raced \subseteq raced'
    BY <1>4 DEF Ship, sync, server
  <2> QED BY <2>1, <2>2, DatesKeep
<1>5. CASE SendSOF
  <2>1. EnvDated' BY <1>5, <1>a DEF EnvDated, SendSOF, Spend
  <2>2. UNCHANGED <<failed, loader, chunkQ, ctrl, deltaQ, delta, raced>>
        /\ feedQ' = Append(feedQ, [type |-> "SOF"])
    BY <1>5 DEF SendSOF, sync, tables, server, history
  <2>3. [type |-> "SOF"] \in Mark BY DEF Mark
  <2>4. LoadDated' BY <2>2, <2>3 DEF LoadDated
  <2> QED BY <2>1, <2>2, <2>4, DatesKeep
<1>6. CASE SendStores
  <2>1. EnvDated' BY <1>6, <1>a DEF EnvDated, SendStores
  <2>2. UNCHANGED <<failed, loader, chunkQ, ctrl, deltaQ, delta, raced>>
    BY <1>6 DEF SendStores, sync, tables, server, history
  <2>3. feedQ' \in Seq(DatedStore \cup Mark) BY <1>0, <1>6, StoresDated
  <2>4. LoadDated' BY <2>2, <2>3 DEF LoadDated
  <2> QED BY <2>1, <2>2, <2>4, DatesKeep
<1>7. CASE Reprocess
  <2>1. PICK m \in failed : failed' = failed \ {m} /\ feedQ' = Append(feedQ, m)
    BY <1>7 DEF Reprocess
  <2>2. UNCHANGED <<now, lastTx, loader, chunkQ, ctrl, deltaQ, delta, raced>>
    BY <1>7 DEF Reprocess, env, sync, tables, server, history
  <2>3. LoadDated' BY <2>1, <2>2 DEF LoadDated
  <2> QED BY <2>2, <2>3, DatesKeep
<1> QED BY <1>2, <1>3, <1>4, <1>5, <1>6, <1>7 DEF Outside

\* The lines of a comparison have the dates of the feed, or none.
LEMMA MismatchDated ==
  ASSUME TablesOK, NEW m \in DatedStore, NEW extra \in Seq(Items)
  PROVE  [j \in DOMAIN m.lines |-> FeedLine(m, m.lines[j])]
           \o [j \in DOMAIN extra |-> ExtraLine(extra[j], m.node)] \in Seq(DatedLine)
<1> DEFINE row == [item : Items, qty : Int, tx : Nat]
<1>1. m.lines \in Seq(row) /\ m.node \in Nodes /\ m.gen \in Nat /\ m.gen \in Times
      /\ \A j \in DOMAIN m.lines : m.lines[j].tx \in Times
  BY DEF DatedStore, Store
<1>2. \A f \in row : f.tx \in Times => FeedLine(m, f) \in DatedLine
  BY <1>1 DEF FeedLine, DatedLine, Line, TablesOK, Keys
<1>3. \A i \in Items : ExtraLine(i, m.node) \in DatedLine
  BY <1>1 DEF ExtraLine, DatedLine, Line, TablesOK, Keys
<1> HIDE DEF row
<1>4. \A j \in 1..Len(m.lines) : FeedLine(m, m.lines[j]) \in DatedLine BY <1>1, <1>2
<1>5. \A j \in 1..Len(extra) : ExtraLine(extra[j], m.node) \in DatedLine BY <1>3
<1>6. [j \in DOMAIN m.lines |-> FeedLine(m, m.lines[j])] \in Seq(DatedLine) BY <1>1, <1>4
<1>7. [j \in DOMAIN extra |-> ExtraLine(extra[j], m.node)] \in Seq(DatedLine) BY <1>5
<1> QED BY <1>6, <1>7

\* A message that is taken leaves dated ones.
LEMMA ReceiveDated ==
  ASSUME LoadDated, NEW t \in Loaders, NEW type, Receive(t, type)
  PROVE  /\ feedQ' \in Seq(DatedStore \cup Mark)
         /\ type = "STORE" => Head(feedQ) \in DatedStore
<1>1. Head(feedQ) \in DatedStore \cup Mark /\ Head(feedQ).type = type
  BY DEF LoadDated, Receive
<1>2. type = "STORE" => Head(feedQ) \notin Mark BY <1>1 DEF Mark
<1> QED BY <1>1, <1>2 DEF LoadDated, Receive

\* The new chunks of a comparison are cut from its lines.
LEMMA PushDated ==
  ASSUME TypeOK, LoadDated, ChunksDated, NEW t \in Loaders, PushInputForAdjustInventory(t)
  PROVE  ChunksDated'
<1> DEFINE lines == loader[t].lines
           node == loader[t].msg.node
           new == NewChunks(lines, node)
<1>1. lines \in Seq(DatedLine) /\ lines \in Seq(Line) /\ node \in Nodes
      /\ nextKey \in Nat /\ chunkQ \in Seq(Chunk)
  <2>1. loader[t].st = "store" BY DEF PushInputForAdjustInventory
  <2>2. lines \in Seq(Line) /\ node \in Nodes
    BY <2>1 DEF TypeOK, LoadOK, LoaderState, Idle, Store
  <2>3. lines \in Seq(DatedLine) BY <2>1 DEF LoadDated
  <2>4. nextKey \in Nat /\ chunkQ \in Seq(Chunk) BY DEF TypeOK, SyncOK
  <2> QED BY <2>2, <2>3, <2>4
<1>2. chunkQ' = chunkQ \o new BY DEF PushInputForAdjustInventory, NewChunks
<1> HIDE DEF lines, node
<1>3. new \in Seq(Chunk) /\ Chunks(lines) \in Seq(Seq(DatedLine))
  BY <1>1, NewChunksType, ChunksType
<1>4. ASSUME NEW j \in DOMAIN new PROVE new[j].lines \in Seq(DatedLine)
  <2>1. j \in DOMAIN Chunks(lines) /\ new[j].lines = Chunks(lines)[j] BY DEF NewChunks
  <2> QED BY <1>3, <2>1
<1> HIDE DEF new
<1>5. Elems(chunkQ') = Elems(chunkQ) \cup Elems(new) BY <1>1, <1>2, <1>3, ElemsConcat
<1>6. \A c \in Elems(new) : c.lines \in Seq(DatedLine) BY <1>4 DEF Elems
<1> QED BY <1>5, <1>6 DEF ChunksDated

LEMMA DatesLoad ==
  ASSUME TypeOK, DatesInv, NEW t \in Loaders, LoadStep(t)
  PROVE  DatesInv'
<1> USE DEF DatesInv
<1>0. loader \in [Loaders -> LoaderState] /\ TablesOK BY DEF TypeOK, LoadOK
<1>1. ASSUME NEW s, loader' = [loader EXCEPT ![t] = s], s.st # "store",
             feedQ' \in Seq(DatedStore \cup Mark), failed' \subseteq DatedStore
      PROVE  LoadDated'
  <2>1. \A u \in Loaders : loader'[u].st = "store" => u # t /\ loader'[u] = loader[u]
    BY <1>0, <1>1
  <2> QED BY <1>1, <2>1 DEF LoadDated
<1>2. Idle.st # "store" BY DEF Idle
<1>3. feedQ \in Seq(DatedStore \cup Mark) /\ failed \subseteq DatedStore BY DEF LoadDated
<1>4. CASE ManageDeltaServer(t)
  <2>1. feedQ' \in Seq(DatedStore \cup Mark) BY <1>4, ReceiveDated DEF ManageDeltaServer
  <2>2. UNCHANGED <<now, lastTx, failed, loader, chunkQ, ctrl, deltaQ, delta, raced>>
    BY <1>4 DEF ManageDeltaServer, env, sync, server
  <2>3. LoadDated' BY <2>1, <2>2 DEF LoadDated
  <2> QED BY <2>2, <2>3, DatesKeep
<1>5. CASE GetMismatch(t)
  <2> DEFINE m == Head(feedQ)
             lines(extra) == [j \in DOMAIN m.lines |-> FeedLine(m, m.lines[j])]
                               \o [j \in DOMAIN extra |-> ExtraLine(extra[j], m.node)]
  <2>1. m \in DatedStore /\ feedQ' \in Seq(DatedStore \cup Mark)
    BY <1>5, ReceiveDated DEF GetMismatch
  <2>2. PICK extra \in Orders(Items \ FeedItems(m)) :
          loader' = [loader EXCEPT ![t] = [st |-> "store", msg |-> m, lines |-> lines(extra)]]
    BY <1>5 DEF GetMismatch
  <2>3. extra \in Seq(Items)
    <3>1. IsFiniteSet(Items \ FeedItems(m)) BY SetsAssumption, FS_Subset
    <3>2. extra \in Seq(Items \ FeedItems(m)) BY <3>1, OrdersType
    <3> QED BY <3>2
  <2>4. lines(extra) \in Seq(DatedLine) BY <1>0, <2>1, <2>3, MismatchDated
  <2>5. UNCHANGED <<now, lastTx, failed, chunkQ, ctrl, deltaQ, delta, raced>>
    BY <1>5 DEF GetMismatch, env, sync, tables, server
  <2>6. LoadDated'
    <3> HIDE DEF m, lines
    <3>1. \A u \in Loaders : \/ loader'[u] = loader[u]
                             \/ loader'[u].msg = m /\ loader'[u].lines = lines(extra)
      BY <1>0, <2>2
    <3> QED BY <2>1, <2>4, <2>5, <3>1 DEF LoadDated
  <2> QED BY <2>5, <2>6, DatesKeep
<1>6. CASE PushInputForAdjustInventory(t)
  <2>1. ChunksDated' BY <1>6, PushDated
  <2>2. UNCHANGED <<now, lastTx, feedQ, failed, ctrl, deltaQ, delta, raced>>
        /\ loader' = [loader EXCEPT ![t] = Idle]
    BY <1>6 DEF PushInputForAdjustInventory, env, tables, server, history
  <2>3. LoadDated' BY <1>1, <1>2, <1>3, <2>2
  <2> QED BY <2>1, <2>2, <2>3, DatesKeep
<1>7. CASE DuplicateStatusKey(t)
  <2>1. UNCHANGED <<now, lastTx, feedQ, chunkQ, ctrl, deltaQ, delta, raced>>
        /\ loader' = [loader EXCEPT ![t] = Idle] /\ failed' = failed \cup {loader[t].msg}
        /\ loader[t].st = "store"
    BY <1>7 DEF DuplicateStatusKey, sync, tables, server, history
  <2>2. loader[t].msg \in DatedStore BY <2>1 DEF LoadDated
  <2>3. LoadDated' BY <1>1, <1>2, <1>3, <2>1, <2>2
  <2> QED BY <2>1, <2>3, DatesKeep
<1>8. CASE ReceiveEOF(t)
  <2>1. feedQ' \in Seq(DatedStore \cup Mark) BY <1>8, ReceiveDated DEF ReceiveEOF
  <2>2. UNCHANGED <<now, lastTx, failed, chunkQ, ctrl, deltaQ, delta, raced>>
        /\ loader' = [loader EXCEPT ![t] = [st |-> "sleep", frames |-> 1]]
    BY <1>8 DEF ReceiveEOF, env, sync, tables, server, history
  <2>3. [st |-> "sleep", frames |-> 1].st # "store" OBVIOUS
  <2>4. LoadDated' BY <1>1, <1>3, <2>1, <2>2, <2>3
  <2> QED BY <2>2, <2>4, DatesKeep
<1>9. CASE SleepAgain(t) \/ SeeNoStatus(t) \/ TriggerFullSync(t)
  <2>1. UNCHANGED <<now, lastTx, feedQ, failed, chunkQ, ctrl, deltaQ, delta, raced>>
    BY <1>9 DEF SleepAgain, SeeNoStatus, TriggerFullSync, env, sync, tables, server, history
  <2>2. \A u \in Loaders : loader'[u].st = "store" => loader'[u] = loader[u]
    <3>1. loader[t].st \in {"sleep", "unwind"} BY <1>9 DEF SleepAgain, SeeNoStatus, TriggerFullSync
    <3>2. loader[t] \in [st : {"sleep", "unwind"}, frames : Nat \ {0}]
      BY <1>0, <3>1 DEF LoaderState, Idle
    <3>3. loader'[t].st # "store"
      BY <1>0, <1>9, <3>2 DEF SleepAgain, SeeNoStatus, TriggerFullSync, Unwound, Idle
    <3>4. \A u \in Loaders \ {t} : loader'[u] = loader[u]
      BY <1>0, <1>9 DEF SleepAgain, SeeNoStatus, TriggerFullSync
    <3> QED BY <3>3, <3>4
  <2>3. LoadDated' BY <2>1, <2>2 DEF LoadDated
  <2> QED BY <2>1, <2>3, DatesKeep
<1> QED BY <1>4, <1>5, <1>6, <1>7, <1>8, <1>9 DEF LoadStep

LEMMA DatesAdjust ==
  ASSUME TypeOK, DatesInv, AdjustInventory \/ RejectEmptyChunk, NothingAtNoon'
  PROVE  DatesInv'
<1> USE DEF DatesInv
<1> DEFINE c == Head(chunkQ)
           keys == {k \in Keys : k[2] = c.node /\ LinesOf(k, c.lines) # {}}
<1>0. chunkQ \in Seq(Chunk) /\ ServerOK /\ TablesOK BY DEF TypeOK, SyncOK
<1>1. chunkQ # <<>> /\ chunkQ' = Tail(chunkQ) /\ UNCHANGED <<now, lastTx, load, deltaQ, delta>>
  BY DEF AdjustInventory, RejectEmptyChunk, env, server
<1>2. Elems(chunkQ) = {c} \cup Elems(chunkQ') BY <1>0, <1>1, ElemsTail
<1>3. ChunksDated' BY <1>2 DEF ChunksDated
<1>4. CASE RejectEmptyChunk
  <2>1. UNCHANGED <<ctrl, raced>> BY <1>4 DEF RejectEmptyChunk, tables, history
  <2> QED BY <1>1, <1>3, <2>1, DatesKeep
<1>5. CASE AdjustInventory
  <2>1. ctrl' = [k \in Keys |-> IF k \in keys THEN Recorded(ctrl[k], LineOf(c, k)) ELSE ctrl[k]]
        /\ raced' = raced \cup UNION {Readers(k) : k \in keys}
    BY <1>5 DEF AdjustInventory
  <2>2. ASSUME NEW k \in keys PROVE LineOf(c, k) \in DatedLine
    <3>1. c.lines \in Seq(DatedLine) BY <1>2 DEF ChunksDated
    <3>2. LinesOf(k, c.lines) \subseteq DatedLine BY <3>1 DEF LinesOf, Elems
    <3> QED BY <3>2 DEF LineOf
  <2>3. ASSUME NEW k \in Keys
        PROVE  ctrl'[k].tx \in Times \cup {0} /\ ctrl'[k].gen \in Times \cup {0}
    <3>1. ctrl[k].tx \in Times \cup {0} /\ ctrl[k].gen \in Times \cup {0} BY DEF CtrlDated
    <3>2. CASE k \notin keys BY <2>1, <3>1, <3>2
    <3>3. CASE k \in keys
      <4> DEFINE l == LineOf(c, k)
      <4>1. l \in DatedLine /\ ctrl'[k] = Recorded(ctrl[k], l) BY <2>1, <2>2, <3>3
      <4> HIDE DEF l
      <4>2. CASE l.gen # 0 BY <4>1, <4>2 DEF Recorded, DatedLine
      <4>3. CASE l.gen = 0 /\ ctrl[k] # NoRecord BY <3>1, <4>1, <4>3 DEF Recorded
      <4>4. CASE l.gen = 0 /\ ctrl[k] = NoRecord
        <5>1. ctrl'[k].tx = now' /\ ctrl'[k].gen = now' BY <1>1, <4>1, <4>4 DEF Recorded
        <5>2. now' \in Nat \ {0} BY <1>1 DEF EnvDated
        <5>3. now' \in Times BY <5>1, <5>2 DEF NothingAtNoon, Times
        <5> QED BY <5>1, <5>3
      <4> QED BY <4>2, <4>3, <4>4
    <3> QED BY <3>2, <3>3
  <2> HIDE DEF keys, c
  <2>5. CtrlDated' BY <2>3 DEF CtrlDated
  <2>6. Fresh'
    <3> SUFFICES ASSUME NEW d \in Consumers \ raced', delta[d].st = "write"
                 PROVE  Applicable(delta[d].msg)'
      BY <1>1 DEF Fresh
    <3>1. delta[d].msg.key \in Keys BY <1>0, ConsumerType DEF Delta
    <3>2. d \in Readers(delta[d].msg.key) BY DEF Readers
    <3>3. d \notin raced /\ delta[d].msg.key \notin keys BY <2>1, <3>2
    <3>4. ctrl'[delta[d].msg.key] = ctrl[delta[d].msg.key] BY <2>1, <3>1, <3>3
    <3>5. Applicable(delta[d].msg) BY <3>3 DEF Fresh
    <3> QED BY <1>1, <3>4, <3>5 DEF Applicable
  <2> QED BY <1>1, <1>3, <2>5, <2>6, DatesKeep
<1> QED BY <1>4, <1>5

\* An instance that goes idle, or writes what it has read and leaves the records of
\* the others alone or notes them.
LEMMA DatesWritten ==
  ASSUME TypeOK, DatesInv, NEW c \in Consumers, NEW k \in Keys, Written(c, k),
         \A j \in Keys : j # k => ctrl'[j] = ctrl[j]
  PROVE  ServerDated' /\ Fresh'
<1> USE DEF DatesInv
<1>0. ServerOK BY DEF TypeOK
<1>1. /\ delta' = [delta EXCEPT ![c] = Idle] /\ UNCHANGED deltaQ
      /\ raced' = (raced \cup Readers(k)) \ {c}
  BY DEF Written
<1>2. delta'[c].st = "idle" /\ \A d \in Consumers \ {c} : delta'[d] = delta[d]
  BY <1>0, <1>1 DEF ServerOK, Idle
<1>3. ServerDated' BY <1>1, <1>2 DEF ServerDated
<1>4. Fresh'
  <2> SUFFICES ASSUME NEW d \in Consumers \ raced', delta'[d].st = "write"
               PROVE  Applicable(delta[d].msg)'
    BY DEF Fresh
  <2>1. d # c /\ delta'[d] = delta[d] BY <1>2
  <2>2. d \notin raced /\ d \notin Readers(k) BY <1>1, <2>1
  <2>3. delta[d].msg.key # k /\ delta[d].msg.key \in Keys
    BY <1>0, <2>1, <2>2, ConsumerType DEF Readers, Delta
  <2>4. ctrl'[delta[d].msg.key] = ctrl[delta[d].msg.key] BY <2>3
  <2>5. Applicable(delta[d].msg) BY <2>1, <2>2 DEF Fresh
  <2> QED BY <2>1, <2>4, <2>5 DEF Applicable
<1> QED BY <1>3, <1>4

LEMMA DatesDelta ==
  ASSUME TypeOK, DatesInv, NEW c \in Consumers, DeltaStep(c)
  PROVE  DatesInv'
<1> USE DEF DatesInv
<1>0. ServerOK /\ TablesOK BY DEF TypeOK
<1>1. ASSUME NEW s, delta' = [delta EXCEPT ![c] = s], s.st # "write",
             s.st \in {"sleep", "awake"} => s.msg \in DatedDelta,
             deltaQ' \subseteq deltaQ, UNCHANGED <<now, lastTx, load, chunkQ, ctrl, raced>>
      PROVE  DatesInv'
  <2>1. delta'[c] = s /\ \A d \in Consumers \ {c} : delta'[d] = delta[d]
    BY <1>0, <1>1 DEF ServerOK
  <2>2. ServerDated' BY <1>1, <2>1 DEF ServerDated
  <2>3. Fresh' BY <1>1, <2>1 DEF Fresh, Applicable
  <2> QED BY <1>1, <2>2, <2>3, DatesKeep
<1>2. ASSUME NEW m \in deltaQ, ReceiveDelta(c, m) PROVE DatesInv'
  <2>1. delta' = [delta EXCEPT ![c] = [st |-> "sleep", msg |-> m]] /\ deltaQ' \subseteq deltaQ
        /\ UNCHANGED <<now, lastTx, load, chunkQ, ctrl, raced>>
    BY <1>2 DEF ReceiveDelta, env, sync, tables, history
  <2>2. m \in DatedDelta BY DEF ServerDated
  <2> DEFINE s == [st |-> "sleep", msg |-> m]
  <2>3. s.st = "sleep" /\ s.msg = m OBVIOUS
  <2>4. delta' = [delta EXCEPT ![c] = s] BY <2>1
  <2> HIDE DEF s
  <2>5. s.st # "write" /\ (s.st \in {"sleep", "awake"} => s.msg \in DatedDelta) BY <2>2, <2>3
  <2> QED BY <1>1, <2>1, <2>4, <2>5
<1>3. CASE SleepTillEOF(c)
  <2>1. UNCHANGED <<now, lastTx, load, chunkQ, ctrl, raced, deltaQ>>
    BY <1>3 DEF SleepTillEOF, env, sync, tables, history
  <2>2. delta' = [delta EXCEPT ![c] = [delta[c] EXCEPT !.st = "awake"]]
    BY <1>0, <1>3 DEF SleepTillEOF, ServerOK
  <2>3. delta[c] \in [st : {"sleep", "awake"}, msg : Delta] /\ delta[c].msg \in DatedDelta
    BY <1>0, <1>3 DEF SleepTillEOF, ServerOK, ServerDated, ConsumerState, Idle, Down
  <2>4. [delta[c] EXCEPT !.st = "awake"].st = "awake"
        /\ [delta[c] EXCEPT !.st = "awake"].msg = delta[c].msg
    BY <2>3
  <2> QED BY <1>1, <2>1, <2>2, <2>3, <2>4
<1>4. CASE ReadTables(c)
  <2> DEFINE m == delta[c].msg
             q == m.qty + (IF m.abs THEN LogTotal(m.key, m.tx) ELSE 0)
  <2>1. delta[c].st = "awake" /\ UNCHANGED <<now, lastTx, load, chunkQ, ctrl, raced, deltaQ>>
        /\ delta' = [delta EXCEPT ![c] = IF Applicable(m) THEN [st |-> "write", msg |-> m, qty |-> q]
                                         ELSE Idle]
    BY <1>4 DEF ReadTables, env, sync, tables, history
  <2>2. m \in DatedDelta BY <2>1 DEF ServerDated
  <2>3. CASE ~Applicable(m)
    <3>1. Idle.st = "idle" BY DEF Idle
    <3>2. delta' = [delta EXCEPT ![c] = Idle] BY <2>1, <2>3
    <3> QED BY <1>1, <2>1, <3>1, <3>2
  <2>4. CASE Applicable(m)
    <3>1. delta'[c].msg = m /\ \A d \in Consumers \ {c} : delta'[d] = delta[d]
      BY <1>0, <2>1, <2>4 DEF ServerOK
    <3>2. ServerDated' BY <2>1, <2>2, <3>1 DEF ServerDated
    <3>3. Applicable(m)' BY <2>1, <2>4, <3>1 DEF Applicable
    <3>4. Fresh'
      <4> SUFFICES ASSUME NEW d \in Consumers \ raced, delta'[d].st = "write"
                   PROVE  Applicable(delta[d].msg)' /\ delta'[d].msg = delta[d].msg
        BY <2>1 DEF Fresh, Applicable
      <4>1. CASE d = c
        <5> HIDE DEF m
        <5>1. Applicable(m)' BY <2>1, <2>4, <3>3
        <5> QED BY <3>1, <3>3, <4>1 DEF m
      <4>2. CASE d # c
        <5>1. delta'[d] = delta[d] BY <3>1, <4>2
        <5>2. Applicable(delta[d].msg) BY <5>1 DEF Fresh
        <5> QED BY <2>1, <5>1, <5>2 DEF Applicable
      <4> QED BY <4>1, <4>2
    <3> QED BY <2>1, <3>2, <3>4, DatesKeep
  <2> QED BY <2>3, <2>4
<1>5. CASE ApplyDelta(c)
  <2> DEFINE k == delta[c].msg.key
  <2>1. Written(c, k) /\ ctrl' = ctrl /\ k \in Keys
    BY <1>0, <1>5, ConsumerType DEF ApplyDelta, Delta
  <2>2. ServerDated' /\ Fresh' BY <2>1, DatesWritten
  <2>3. UNCHANGED <<now, lastTx, load, chunkQ>> BY <2>1 DEF Written, env, sync
  <2> QED BY <2>1, <2>2, <2>3, DatesKeep
<1>6. CASE ApplyCount(c)
  <2> DEFINE m == delta[c].msg
             k == m.key
  <2>1. Written(c, k) /\ k \in Keys /\ delta[c].st = "write"
        /\ ctrl' = [ctrl EXCEPT ![k] = [tx |-> m.tx, gen |-> m.gen]]
    BY <1>0, <1>6, ConsumerType DEF ApplyCount, Delta
  <2>2. \A j \in Keys : j # k => ctrl'[j] = ctrl[j] BY <1>0, <2>1 DEF TablesOK
  <2>3. ServerDated' /\ Fresh' BY <2>1, <2>2, DatesWritten
  <2>4. UNCHANGED <<now, lastTx, load, chunkQ>> BY <2>1 DEF Written, env, sync
  <2>5. ctrl'[k] = [tx |-> m.tx, gen |-> m.gen] BY <1>0, <2>1 DEF TablesOK
  <2>6. m.tx \in Times /\ m.gen \in Times BY <2>1 DEF ServerDated, DatedDelta
  <2>7. CtrlDated' BY <2>2, <2>5, <2>6 DEF CtrlDated
  <2> QED BY <2>3, <2>4, <2>7, DatesKeep
<1>7. CASE StopServer(c)
  <2>1. UNCHANGED <<now, lastTx, load, chunkQ, ctrl, raced, deltaQ>>
        /\ delta' = [delta EXCEPT ![c] = Down]
    BY <1>7 DEF StopServer, env, sync, tables, history
  <2>2. Down.st = "down" BY DEF Down
  <2> QED BY <1>1, <2>1, <2>2
<1> QED BY <1>2, <1>3, <1>4, <1>5, <1>6, <1>7 DEF DeltaStep

LEMMA DatesScripts == DatesInv /\ TypeOK /\ (RunStopScript \/ RunStartScript) => DatesInv'
<1> SUFFICES ASSUME DatesInv, TypeOK, RunStopScript \/ RunStartScript PROVE DatesInv' OBVIOUS
<1> USE DEF DatesInv
<1>1. UNCHANGED <<now, lastTx, load, chunkQ, ctrl, raced, deltaQ>>
  BY DEF RunStopScript, RunStartScript, env, sync, tables, history
<1>2. \A d \in Consumers : delta'[d] = delta[d] \/ delta'[d].st = "idle"
  BY DEF RunStopScript, RunStartScript, TypeOK, ServerOK, Idle
<1>3. ServerDated' BY <1>1, <1>2 DEF ServerDated
<1>4. Fresh' BY <1>1, <1>2 DEF Fresh, Applicable
<1> QED BY <1>1, <1>3, <1>4, DatesKeep

LEMMA DatesNext == TypeOK /\ DatesInv /\ [Next]_vars /\ NothingAtNoon' => DatesInv'
<1>1. DatesInv /\ UNCHANGED vars => DatesInv'
  BY DatesKeep DEF DatesInv, vars, env, sync, tables, server, history
<1> QED BY DatesOutside, DatesLoad, DatesAdjust, DatesDelta, DatesScripts, <1>1 DEF Next

\* The step in which an instance changes a control record is that of its own count.
LEMMA WhoRecords ==
  ASSUME TypeOK, [Next]_vars, NEW k \in Keys, NEW c \in Consumers,
         ctrl'[k] # ctrl[k], delta'[c] # delta[c]
  PROVE  ApplyCount(c) /\ delta[c].msg.key = k
<1>0. ServerOK /\ TablesOK BY DEF TypeOK
<1>1. ~UNCHANGED ctrl /\ ~UNCHANGED delta OBVIOUS
<1>2. ~Outside
  BY <1>1 DEF Outside, Post, Count, Ship, SendSOF, SendStores, Reprocess, tables
<1>3. \A t \in Loaders : ~LoadStep(t)
  BY <1>1 DEF LoadStep, ManageDeltaServer, GetMismatch, PushInputForAdjustInventory,
              DuplicateStatusKey, ReceiveEOF, SleepAgain, SeeNoStatus, TriggerFullSync,
              tables, server
<1>4. ~AdjustInventory /\ ~RejectEmptyChunk /\ ~RunStopScript /\ ~RunStartScript /\ ~UNCHANGED vars
  BY <1>1 DEF AdjustInventory, RejectEmptyChunk, RunStopScript, RunStartScript, server, tables, vars
<1>5. PICK d \in Consumers : DeltaStep(d) BY <1>2, <1>3, <1>4 DEF Next
<1>6. ApplyCount(d)
  BY <1>1, <1>5 DEF DeltaStep, ReceiveDelta, SleepTillEOF, ReadTables, ApplyDelta, StopServer, tables
<1>7. d = c BY <1>0, <1>6 DEF ApplyCount, Written, ServerOK
<1>8. delta[c].msg.key = k BY <1>0, <1>6, <1>7 DEF ApplyCount, TablesOK
<1> QED BY <1>6, <1>7, <1>8

\* A count moves a control record forward, in both dates, for any number of
\* instances, however late it is and whatever was recorded since it was sent, as
\* long as no other writer was noted and no event falls into the hour after noon.
THEOREM CountsAdvance == Spec /\ []NothingAtNoon => CountsAdvanceControl
<1> DEFINE Advances == \A k \in Keys, c \in Consumers \ raced :
             ctrl'[k] # ctrl[k] /\ delta'[c] # delta[c] =>
               /\ ctrl'[k].tx > ctrl[k].tx
               /\ ctrl'[k].gen > ctrl[k].gen
<1>1. TypeOK /\ DatesInv /\ [Next]_vars => [Advances]_vars
  <2> SUFFICES ASSUME TypeOK, DatesInv, [Next]_vars, NEW k \in Keys, NEW c \in Consumers \ raced,
                      ctrl'[k] # ctrl[k], delta'[c] # delta[c]
               PROVE  ctrl'[k].tx > ctrl[k].tx /\ ctrl'[k].gen > ctrl[k].gen
    OBVIOUS
  <2> DEFINE m == delta[c].msg
  <2>1. ApplyCount(c) /\ m.key = k BY WhoRecords
  <2>2. delta[c].st = "write" /\ m.abs /\ ctrl' = [ctrl EXCEPT ![k] = [tx |-> m.tx, gen |-> m.gen]]
    BY <2>1 DEF ApplyCount
  <2>3. ctrl'[k].tx = m.tx /\ ctrl'[k].gen = m.gen BY <2>2 DEF TypeOK, TablesOK
  <2>4. m.tx \in Times /\ m.gen \in Times BY <2>2 DEF DatesInv, ServerDated, DatedDelta
  <2>5. ctrl[k].tx \in Times \cup {0} /\ ctrl[k].gen \in Times \cup {0} BY DEF DatesInv, CtrlDated
  <2>6. CanApply(m.tx, ctrl[k].tx) /\ CanApply(m.gen, ctrl[k].gen)
    BY <2>1, <2>2 DEF DatesInv, Fresh, Applicable
  <2> QED BY <2>3, <2>4, <2>5, <2>6, AppliedIsLater
<1> HIDE DEF Advances
<1>2. Spec /\ []NothingAtNoon => [][Advances]_vars
  BY DatesStart, DatesNext, TypeCorrect, <1>1, PTL DEF Spec
<1> QED BY <1>2 DEF Advances, CountsAdvanceControl
=============================================================================
