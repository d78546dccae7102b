------------------------ MODULE ProcessHistory_proofs ------------------------
(***************************************************************************)
(* Proofs about ProcessHistory, for any number of cells and of pushes: no  *)
(* tree leaks, none is used after it was deleted, the trees are kept in    *)
(* chronological order, and dumpHistory() lists each of them once, in      *)
(* that order.                                                             *)
(***************************************************************************)
EXTENDS ProcessHistory, SequenceLemmas, TLAPS

(***************************************************************************)
(* While push() carries a tree, the cells it has passed hold younger trees *)
(* and the others older ones.  Cells fill up without a gap.                *)
(***************************************************************************)
Carrying ==
    elem # 0 =>
        \A c \in Cells, i \in {0, 1} :
            Holds(c, i) =>
                IF c < cell THEN elem < history[c][i] ELSE history[c][i] < elem

NoGap ==
    /\ \A c, d \in Cells : c < d /\ nbitem[d] > 0 => nbitem[c] > 0
    /\ elem # 0 => \A c \in Cells : c < cell => nbitem[c] > 0

Known ==
    /\ \A c \in Cells, i \in {0, 1} :
          Holds(c, i) => history[c][i] > 0 /\ history[c][i] <= pushed
    /\ elem <= pushed

OrderInv == Chronological /\ Carrying /\ NoGap /\ Known

\* Which trees push() has in the cells after each turn of its loop.
LEMMA StoreEffect ==
    ASSUME TypeOK, Store
    PROVE  /\ cell \in Cells /\ nbitem[cell] \in {0, 1}
           /\ \A c \in Cells, i \in {0, 1} :
                history'[c][i] = IF c = cell /\ i = nbitem[cell]
                                 THEN elem ELSE history[c][i]
           /\ \A c \in Cells :
                nbitem'[c] = IF c = cell THEN nbitem[cell] + 1 ELSE nbitem[c]
           /\ history' \in [Cells -> [{0, 1} -> 0..MaxPush]]
<1>1. cell \in Cells /\ nbitem[cell] \in {0, 1}
  BY HistoryAssumption DEF TypeOK, Store, Cells
<1>2. history' = [history EXCEPT ![cell] =
                    [history[cell] EXCEPT ![nbitem[cell]] = elem]]
  BY DEF Store
<1>3. [history[cell] EXCEPT ![nbitem[cell]] = elem] \in [{0, 1} -> 0..MaxPush]
  BY <1>1 DEF TypeOK
<1> QED
  BY <1>1, <1>2, <1>3 DEF TypeOK, Store

LEMMA MoveOnEffect ==
    ASSUME TypeOK, MoveOn
    PROVE  /\ cell \in Cells
           /\ \A c \in Cells, i \in {0, 1} :
                history'[c][i] = IF c = cell /\ i = 0
                                 THEN elem ELSE history[c][i]
           /\ \A c \in Cells :
                nbitem'[c] = IF c = cell THEN 1 ELSE nbitem[c]
           /\ history' \in [Cells -> [{0, 1} -> 0..MaxPush]]
<1>1. cell \in Cells
  BY HistoryAssumption DEF TypeOK, MoveOn, Cells
<1>2. history' = [history EXCEPT ![cell] = [history[cell] EXCEPT ![0] = elem]]
  BY DEF MoveOn
<1>3. [history[cell] EXCEPT ![0] = elem] \in [{0, 1} -> 0..MaxPush]
  BY <1>1 DEF TypeOK
<1> QED
  BY <1>1, <1>2, <1>3 DEF TypeOK, MoveOn

\* Where the trees that a cell holds after a turn were before it.
StoredIn(c, i) ==
    \/ c = cell /\ i = nbitem[cell] /\ history'[c][i] = elem
    \/ /\ Holds(c, i) /\ history'[c][i] = history[c][i]
       /\ ~(c = cell /\ i = nbitem[cell])

MovedIn(c, i) ==
    \/ c = cell /\ i = 0 /\ history'[c][i] = elem
    \/ c # cell /\ Holds(c, i) /\ history'[c][i] = history[c][i]

LEMMA StoreHolds ==
    ASSUME TypeOK, Store, NEW c \in Cells, NEW i \in {0, 1}
    PROVE  Holds(c, i)' <=> StoredIn(c, i)
<1>1. history'[c][i] = IF c = cell /\ i = nbitem[cell]
                      THEN elem ELSE history[c][i]
  BY StoreEffect
<1>2. nbitem'[c] = IF c = cell THEN nbitem[cell] + 1 ELSE nbitem[c]
  BY StoreEffect
<1>3. nbitem[cell] \in {0, 1}
  BY StoreEffect
<1> QED
  BY <1>1, <1>2, <1>3 DEF Holds, StoredIn

LEMMA MoveOnHolds ==
    ASSUME TypeOK, MoveOn, NEW c \in Cells, NEW i \in {0, 1}
    PROVE  Holds(c, i)' <=> MovedIn(c, i)
<1>1. history'[c][i] = IF c = cell /\ i = 0 THEN elem ELSE history[c][i]
  BY MoveOnEffect
<1>2. nbitem'[c] = IF c = cell THEN 1 ELSE nbitem[c]
  BY MoveOnEffect
<1> QED
  BY <1>1, <1>2 DEF Holds, MovedIn

LEMMA TypeStep ==
    ASSUME TypeOK, [Next]_vars
    PROVE  TypeOK'
<1> USE HistoryAssumption DEF TypeOK
<1>1. CASE Push
  BY <1>1 DEF Push
<1>2. CASE Store
  BY <1>2, StoreEffect DEF Store
<1>3. CASE MoveOn
  <2>1. cell \in Cells /\ history' \in [Cells -> [{0, 1} -> 0..MaxPush]]
    BY <1>3, MoveOnEffect
  <2>2. history[cell][0] \in 0..MaxPush /\ history[cell][1] \in 0..MaxPush
    BY <2>1
  <2>3. nbitem' \in [Cells -> 0..2]
    <3>1. nbitem' = [nbitem EXCEPT ![cell] = 1] /\ 1 \in 0..2
      BY <1>3 DEF MoveOn
    <3> QED
      BY <3>1, Zenon
  <2>4. cell' \in 0..NbCell
    BY <1>3, <2>1 DEF MoveOn, Cells
  <2>5. elem' \in 0..MaxPush /\ deleted' \subseteq 0..MaxPush
    BY <1>3, <2>2 DEF MoveOn
  <2>6. destroyed' \in BOOLEAN /\ pushed' \in 0..MaxPush
    BY <1>3 DEF MoveOn
  <2> QED
    BY <2>1, <2>3, <2>4, <2>5, <2>6
<1>4. CASE DropLast
  BY <1>4 DEF DropLast
<1>5. CASE Destroy
  BY <1>5 DEF Destroy, Destroyed, TreesIn
<1>6. CASE UNCHANGED vars
  BY <1>6 DEF vars
<1> QED
  BY <1>1, <1>2, <1>3, <1>4, <1>5, <1>6 DEF Next, Done

LEMMA TreesAreNumbers ==
    ASSUME TypeOK
    PROVE  \A c \in Cells, i \in {0, 1} : history[c][i] \in Nat /\ c \in Int
<1>1. ASSUME NEW c \in Cells, NEW i \in {0, 1} PROVE history[c][i] \in 0..MaxPush
  BY <1>1 DEF TypeOK
<1>2. ASSUME NEW c \in Cells PROVE c \in Int
  BY HistoryAssumption DEF Cells
<1> QED
  BY <1>1, <1>2

LEMMA OrderStep ==
    ASSUME TypeOK, OrderInv, [Next]_vars
    PROVE  OrderInv'
<1> USE HistoryAssumption DEF OrderInv
<1>1. CASE Push
  BY <1>1
     DEF Push, TypeOK, Cells, Chronological, Carrying, NoGap, Known, Holds
<1>2. CASE Store
  <2>1. elem' = 0 /\ cell' = cell /\ pushed' = pushed /\ elem # 0
    BY <1>2 DEF Store
  <2>2. cell \in Cells /\ nbitem[cell] \in {0, 1}
    BY <1>2, StoreEffect
  <2>3. \A c \in Cells, i \in {0, 1} : Holds(c, i)' => StoredIn(c, i)
    BY <1>2, StoreHolds
  <2>4. Chronological'
    <3> SUFFICES ASSUME NEW c \in Cells, NEW d \in Cells,
                        NEW i \in {0, 1}, NEW j \in {0, 1},
                        Holds(c, i)', Holds(d, j)',
                        c < d \/ (c = d /\ i > j)
                 PROVE  history'[d][j] < history'[c][i]
      BY DEF Chronological
    <3>1. /\ history[c][i] \in Nat /\ history[d][j] \in Nat /\ elem \in Nat
          /\ c \in Int /\ d \in Int /\ cell \in Int
      <4>1. elem \in Nat
        BY DEF TypeOK
      <4> QED
        BY <2>2, <4>1, TreesAreNumbers
    <3>2. Holds(c, i) => IF c < cell THEN elem < history[c][i]
                         ELSE history[c][i] < elem
      BY <2>1 DEF Carrying
    <3>3. Holds(d, j) => IF d < cell THEN elem < history[d][j]
                         ELSE history[d][j] < elem
      BY <2>1 DEF Carrying
    <3>4. Holds(c, i) /\ Holds(d, j) => history[d][j] < history[c][i]
      BY DEF Chronological
    <3>5. c = cell /\ Holds(c, i) => i < nbitem[cell]
      BY DEF Holds
    <3> QED
      BY <2>2, <2>3, <3>1, <3>2, <3>3, <3>4, <3>5 DEF StoredIn
  <2>5. Carrying'
    BY <2>1 DEF Carrying
  <2>6. NoGap'
    <3>1. \A c \in Cells :
             nbitem'[c] = IF c = cell THEN nbitem[cell] + 1 ELSE nbitem[c]
      BY <1>2, StoreEffect
    <3>2. ASSUME NEW c \in Cells, NEW d \in Cells, c < d, nbitem'[d] > 0
          PROVE  nbitem'[c] > 0
      <4>1. nbitem[c] \in Nat /\ nbitem[d] \in Nat /\ nbitem[cell] \in Nat
        BY <2>2 DEF TypeOK
      <4>2. nbitem[d] > 0 => nbitem[c] > 0
        BY <3>2 DEF NoGap
      <4>3. d = cell => nbitem[c] > 0
        BY <2>1, <3>2 DEF NoGap
      <4> QED
        BY <2>2, <3>1, <3>2, <4>1, <4>2, <4>3
    <3> QED
      BY <2>1, <3>2 DEF NoGap
  <2>7. Known'
    BY <2>1, <2>3 DEF Known, TypeOK, StoredIn
  <2> QED
    BY <2>4, <2>5, <2>6, <2>7
<1>3. CASE MoveOn
  <2>1. /\ elem' = history[cell][0] /\ cell' = cell + 1 /\ pushed' = pushed
        /\ elem # 0 /\ nbitem[cell] = 2
    BY <1>3 DEF MoveOn
  <2>2. cell \in Cells
    BY <1>3, MoveOnEffect
  <2>3. \A c \in Cells, i \in {0, 1} : Holds(c, i)' => MovedIn(c, i)
    BY <1>3, MoveOnHolds
  <2>4. Holds(cell, 0) /\ Holds(cell, 1)
    BY <2>1 DEF Holds
  <2>5. /\ elem' < elem /\ elem' > 0 /\ elem' \in Nat /\ elem \in Nat
        /\ elem <= pushed /\ pushed \in Nat /\ cell \in Nat
    BY <2>1, <2>2, <2>4 DEF Carrying, Known, TypeOK, Cells
  <2>6. Chronological'
    <3> SUFFICES ASSUME NEW c \in Cells, NEW d \in Cells,
                        NEW i \in {0, 1}, NEW j \in {0, 1},
                        Holds(c, i)', Holds(d, j)',
                        c < d \/ (c = d /\ i > j)
                 PROVE  history'[d][j] < history'[c][i]
      BY DEF Chronological
    <3>1. /\ history[c][i] \in Nat /\ history[d][j] \in Nat
          /\ c \in Int /\ d \in Int
      BY TreesAreNumbers
    <3>2. Holds(c, i) => IF c < cell THEN elem < history[c][i]
                         ELSE history[c][i] < elem
      BY <2>1 DEF Carrying
    <3>3. Holds(d, j) => IF d < cell THEN elem < history[d][j]
                         ELSE history[d][j] < elem
      BY <2>1 DEF Carrying
    <3>4. Holds(c, i) /\ Holds(d, j) => history[d][j] < history[c][i]
      BY DEF Chronological
    <3> QED
      BY <2>3, <2>5, <3>1, <3>2, <3>3, <3>4 DEF MovedIn
  <2>7. Carrying'
    <3> SUFFICES ASSUME NEW c \in Cells, NEW i \in {0, 1}, Holds(c, i)'
                 PROVE  IF c < cell' THEN elem' < history'[c][i]
                        ELSE history'[c][i] < elem'
      BY DEF Carrying
    <3>1. history[c][i] \in Nat /\ c \in Int
      BY DEF TypeOK, Cells
    <3>2. Holds(c, i) => IF c < cell THEN elem < history[c][i]
                         ELSE history[c][i] < elem
      BY <2>1 DEF Carrying
    <3>3. Holds(c, i) /\ cell < c => history[c][i] < history[cell][0]
      BY <2>2, <2>4 DEF Chronological
    <3> QED
      BY <2>1, <2>3, <2>5, <3>1, <3>2, <3>3 DEF MovedIn
  <2>8. NoGap'
    <3>1. \A c \in Cells : nbitem'[c] = IF c = cell THEN 1 ELSE nbitem[c]
      BY <1>3, MoveOnEffect
    <3>2. ASSUME NEW c \in Cells, NEW d \in Cells, c < d, nbitem'[d] > 0
          PROVE  nbitem'[c] > 0
      <4>1. nbitem[c] \in Nat /\ nbitem[d] \in Nat /\ nbitem[cell] \in Nat
        BY <2>2 DEF TypeOK
      <4>2. nbitem[d] > 0 => nbitem[c] > 0
        BY <3>2 DEF NoGap
      <4>3. d = cell => nbitem[c] > 0
        BY <2>1, <3>2 DEF NoGap
      <4> QED
        BY <2>2, <3>1, <3>2, <4>1, <4>2, <4>3
    <3>3. ASSUME NEW c \in Cells, c < cell' PROVE nbitem'[c] > 0
      <4>1. c < cell => nbitem[c] > 0
        BY <2>1 DEF NoGap
      <4> QED
        BY <2>1, <2>2, <3>1, <3>3, <4>1 DEF Cells
    <3> QED
      BY <3>2, <3>3 DEF NoGap
  <2>9. Known'
    <3> SUFFICES ASSUME NEW c \in Cells, NEW i \in {0, 1}, Holds(c, i)'
                 PROVE  history'[c][i] > 0 /\ history'[c][i] <= pushed'
      BY <2>1, <2>5 DEF Known
    <3>1. Holds(c, i) => history[c][i] > 0 /\ history[c][i] <= pushed
      BY DEF Known
    <3> QED
      BY <2>1, <2>3, <2>5, <3>1 DEF MovedIn
  <2> QED
    BY <2>6, <2>7, <2>8, <2>9
<1>4. CASE DropLast
  BY <1>4
     DEF DropLast, TypeOK, Cells, Chronological, Carrying, NoGap, Known, Holds
<1>5. CASE Destroy
  BY <1>5
     DEF Destroy, TypeOK, Cells, Chronological, Carrying, NoGap, Known, Holds
<1>6. CASE UNCHANGED vars
  BY <1>6
     DEF vars, TypeOK, Cells, Chronological, Carrying, NoGap, Known, Holds
<1> QED
  BY <1>1, <1>2, <1>3, <1>4, <1>5, <1>6 DEF Next, Done
-----------------------------------------------------------------------------
(***************************************************************************)
(* What dumpHistory() prints.  While push() runs, the tree it was given   *)
(* is carried at cell 0, or is alone in cell 0 once push() went further.   *)
(***************************************************************************)
Newest ==
    /\ elem = 0 /\ pushed > 0 =>
          nbitem[0] > 0 /\ history[0][nbitem[0] - 1] = pushed
    /\ elem # 0 =>
          IF cell = 0 THEN elem = pushed
                      ELSE nbitem[0] = 1 /\ history[0][0] = pushed

LEMMA NewestStep ==
    ASSUME TypeOK, Newest, [Next]_vars
    PROVE  Newest'
<1> USE HistoryAssumption DEF TypeOK, Newest, Cells
<1>0. 0 \in Cells
  OBVIOUS
<1>1. CASE Push
  BY <1>1 DEF Push
<1>2. CASE Store
  <2>1. cell \in Cells /\ nbitem[cell] \in {0, 1}
    BY <1>2, StoreEffect
  <2>2. /\ \A i \in {0, 1} : history'[0][i] = IF 0 = cell /\ i = nbitem[cell]
                                             THEN elem ELSE history[0][i]
        /\ nbitem'[0] = IF 0 = cell THEN nbitem[cell] + 1 ELSE nbitem[0]
    BY <1>0, <1>2, StoreEffect
  <2>3. elem' = 0 /\ elem # 0 /\ pushed' = pushed
    BY <1>2 DEF Store
  <2>4. CASE cell = 0
    BY <2>1, <2>2, <2>3, <2>4
  <2>5. CASE cell # 0
    BY <2>1, <2>2, <2>3, <2>5
  <2> QED
    BY <2>4, <2>5
<1>3. CASE MoveOn
  <2>1. cell \in Cells
    BY <1>3, MoveOnEffect
  <2>2. /\ history'[0][0] = IF 0 = cell THEN elem ELSE history[0][0]
        /\ nbitem'[0] = IF 0 = cell THEN 1 ELSE nbitem[0]
    BY <1>0, <1>3, MoveOnEffect
  <2>3. cell' = cell + 1 /\ elem # 0 /\ pushed' = pushed /\ nbitem[cell] = 2
    BY <1>3 DEF MoveOn
  <2>4. cell' # 0 /\ nbitem'[0] = 1 /\ history'[0][0] = pushed'
    BY <2>1, <2>2, <2>3
  <2> QED
    BY <2>4
<1>4. CASE DropLast
  BY <1>4 DEF DropLast
<1>5. CASE Destroy
  BY <1>5 DEF Destroy
<1>6. CASE UNCHANGED vars
  BY <1>6 DEF vars
<1> QED
  BY <1>1, <1>2, <1>3, <1>4, <1>5, <1>6 DEF Next, Done

\* The loop of dumpHistory(), seen as a function of the cells it has still to
\* visit, is what its definition says: a function that satisfies it exists.
IsLoop(f, limit, m) ==
    f = [n \in 0..m |->
           IF n = 0 THEN <<>> ELSE Printed(n - 1, limit) \o f[n - 1]]

LEMMA LoopGrows ==
    ASSUME NEW limit, NEW m \in 1..NbCell, NEW f, IsLoop(f, limit, m - 1)
    PROVE  \E g : IsLoop(g, limit, m)
<1> USE HistoryAssumption
<1> DEFINE body(h, n) == IF n = 0 THEN <<>> ELSE Printed(n - 1, limit) \o h[n - 1]
           g == [n \in 0..m |-> body(f, n)]
<1>1. f = [n \in 0..m - 1 |-> body(f, n)]
  BY DEF IsLoop
<1>2. ASSUME NEW n \in 0..m - 1 PROVE f[n] = body(f, n)
  <2> HIDE DEF body
  <2> QED
    BY <1>1
<1>3. ASSUME NEW n \in 0..m PROVE g[n] = body(f, n)
  OBVIOUS
<1>4. ASSUME NEW n \in 0..m PROVE g[n] = body(g, n)
  <2>1. CASE n = 0
    BY <1>3, <2>1
  <2>2. CASE n # 0
    <3>1. n - 1 \in 0..m - 1 /\ n - 1 \in 0..m
      BY <2>2
    <3> HIDE DEF g
    <3>2. g[n - 1] = f[n - 1]
      BY <1>2, <1>3, <3>1
    <3> QED
      BY <1>3, <2>2, <3>2
  <2> QED
    BY <2>1, <2>2
<1>5. g = [n \in 0..m |-> body(g, n)]
  <2>1. g = [n \in 0..m |-> g[n]]
    OBVIOUS
  <2> HIDE DEF g, body
  <2> QED
    BY <1>4, <2>1
<1>6. IsLoop(g, limit, m)
  BY <1>5 DEF IsLoop
<1> QED
  BY <1>6

LEMMA LoopExists ==
    ASSUME NEW limit
    PROVE  \E f : IsLoop(f, limit, NbCell)
<1> DEFINE S == {m \in 0..NbCell : \E f : IsLoop(f, limit, m)}
<1>1. 0 \in S
  <2>1. IsLoop([n \in 0..0 |-> <<>>], limit, 0)
    BY DEF IsLoop
  <2> QED
    BY <2>1, HistoryAssumption
<1>2. ASSUME NEW m \in 1..NbCell, m - 1 \in S PROVE m \in S
  BY <1>2, LoopGrows, HistoryAssumption
<1> HIDE DEF S
<1>3. 0..NbCell \subseteq S
  BY <1>1, <1>2, Induction, HistoryAssumption
<1> QED
  BY <1>3, HistoryAssumption DEF S

LEMMA DumpIsLoop ==
    ASSUME NEW limit
    PROVE  \E f : IsLoop(f, limit, NbCell) /\ Dump(limit) = f[NbCell] \o MostRecent
<1> DEFINE body(h, n) == IF n = 0 THEN <<>> ELSE Printed(n - 1, limit) \o h[n - 1]
           loop == CHOOSE f : f = [n \in 0..NbCell |-> body(f, n)]
<1>1. \E f : f = [n \in 0..NbCell |-> body(f, n)]
  BY LoopExists DEF IsLoop
<1>2. loop = [n \in 0..NbCell |-> body(loop, n)]
  <2> HIDE DEF body
  <2> QED
    BY <1>1, Zenon
<1>3. IsLoop(loop, limit, NbCell)
  <2> HIDE DEF loop
  <2> QED
    BY <1>2 DEF IsLoop
<1>4. Dump(limit) = loop[NbCell] \o MostRecent
  BY Zenon DEF Dump
<1> QED
  BY <1>3, <1>4

\* What the loop has printed after the cells from n - 1 down to 0.
Ordered(out, limit, n) ==
    /\ out \in Seq(Nat)
    /\ \A k \in 1..Len(out) :
          /\ out[k] > limit
          /\ \E c \in 0..n - 1 : Holds(c, 0) /\ history[c][0] = out[k]
    /\ \A k \in 1..Len(out) - 1 : out[k] < out[k + 1]
    /\ n > 0 /\ Holds(0, 0) /\ history[0][0] > limit =>
          out # <<>> /\ out[Len(out)] = history[0][0]

LEMMA LoopOrdered ==
    ASSUME TypeOK, Chronological, NEW limit \in Nat,
           NEW f, IsLoop(f, limit, NbCell)
    PROVE  Ordered(f[NbCell], limit, NbCell)
<1> USE HistoryAssumption
<1> DEFINE S == {n \in 0..NbCell : Ordered(f[n], limit, n)}
<1>1. f[0] = <<>>
  BY DEF IsLoop
<1>2. ASSUME NEW n \in 1..NbCell
      PROVE  f[n] = Printed(n - 1, limit) \o f[n - 1]
  <2> DEFINE body(m) == IF m = 0 THEN <<>> ELSE Printed(m - 1, limit) \o f[m - 1]
  <2>1. f = [m \in 0..NbCell |-> body(m)]
    BY DEF IsLoop
  <2>2. n \in 0..NbCell /\ n # 0
    OBVIOUS
  <2>3. f[n] = body(n)
    <3> HIDE DEF body
    <3> QED
      BY <2>1, <2>2
  <2> QED
    BY <2>2, <2>3
<1>3. 0 \in S
  <2>1. Ordered(<<>>, limit, 0)
    BY DEF Ordered
  <2> QED
    BY <1>1, <2>1
<1>4. ASSUME NEW n \in 1..NbCell, n - 1 \in S PROVE n \in S
  <2> DEFINE out == f[n - 1]
             t == history[n - 1][0]
  <2>1. f[n] = Printed(n - 1, limit) \o out
    BY <1>2
  <2>2. Ordered(out, limit, n - 1)
    BY <1>4
  <2>3. n - 1 \in Cells /\ t \in Nat /\ nbitem[n - 1] \in 0..2
    <3>1. n - 1 \in Cells
      BY DEF Cells
    <3> QED
      BY <3>1, TreesAreNumbers DEF TypeOK
  <2> HIDE DEF S, out, t
  <2>4. CASE nbitem[n - 1] # 0 /\ t > limit
    <3>1. f[n] = <<t>> \o out /\ Holds(n - 1, 0)
      BY <2>1, <2>3, <2>4 DEF Printed, Holds, t
    <3>2. /\ out \in Seq(Nat) /\ f[n] \in Seq(Nat) /\ Len(f[n]) = Len(out) + 1
          /\ f[n][1] = t
          /\ \A k \in 2..Len(f[n]) : f[n][k] = out[k - 1] /\ k - 1 \in 1..Len(out)
      BY <2>2, <2>3, <3>1 DEF Ordered
    <3>3. \A k \in 1..Len(out) : t < out[k]
      <4> SUFFICES ASSUME NEW k \in 1..Len(out) PROVE t < out[k]
        OBVIOUS
      <4>1. PICK c \in 0..n - 2 : Holds(c, 0) /\ history[c][0] = out[k]
        BY <2>2 DEF Ordered
      <4>2. c \in Cells /\ c < n - 1
        BY DEF Cells
      <4> QED
        BY <2>3, <3>1, <4>1, <4>2 DEF Chronological, t
    <3>4. \A k \in 1..Len(f[n]) :
             /\ f[n][k] > limit
             /\ \E c \in 0..n - 1 : Holds(c, 0) /\ history[c][0] = f[n][k]
      <4> SUFFICES ASSUME NEW k \in 1..Len(f[n])
                   PROVE  /\ f[n][k] > limit
                          /\ \E c \in 0..n - 1 :
                                Holds(c, 0) /\ history[c][0] = f[n][k]
        OBVIOUS
      <4>1. CASE k = 1
        BY <2>4, <3>1, <3>2, <4>1 DEF t
      <4>2. CASE k # 1
        <5>1. k \in 2..Len(f[n])
          BY <3>2, <4>2
        <5>2. f[n][k] = out[k - 1] /\ k - 1 \in 1..Len(out)
          BY <3>2, <5>1
        <5>3. PICK c \in 0..n - 2 : Holds(c, 0) /\ history[c][0] = out[k - 1]
          <6>1. \A j \in 1..Len(out) :
                   \E c \in 0..n - 2 : Holds(c, 0) /\ history[c][0] = out[j]
            BY <2>2 DEF Ordered
          <6> QED
            BY <5>2, <6>1
        <5>4. out[k - 1] > limit
          <6>1. \A j \in 1..Len(out) : out[j] > limit
            BY <2>2 DEF Ordered
          <6> QED
            BY <5>2, <6>1
        <5> QED
          BY <5>2, <5>3, <5>4
      <4> QED
        BY <4>1, <4>2
    <3>5. \A k \in 1..Len(f[n]) - 1 : f[n][k] < f[n][k + 1]
      <4> SUFFICES ASSUME NEW k \in 1..Len(f[n]) - 1
                   PROVE  f[n][k] < f[n][k + 1]
        OBVIOUS
      <4>1. k + 1 \in 2..Len(f[n]) /\ k \in 1..Len(out)
        BY <3>2
      <4>2. f[n][k + 1] = out[k]
        BY <3>2, <4>1
      <4>3. CASE k = 1
        BY <3>2, <3>3, <4>1, <4>2, <4>3
      <4>4. CASE k # 1
        <5>1. k \in 2..Len(f[n]) /\ k - 1 \in 1..Len(out) - 1
          BY <3>2, <4>1, <4>4
        <5>2. f[n][k] = out[k - 1] /\ out[k - 1] < out[(k - 1) + 1]
          BY <2>2, <3>2, <5>1 DEF Ordered
        <5> QED
          BY <4>2, <5>2
      <4> QED
        BY <4>3, <4>4
    <3>6. Holds(0, 0) /\ history[0][0] > limit =>
             f[n] # <<>> /\ f[n][Len(f[n])] = history[0][0]
      <4>1. CASE n = 1
        <5>1. out = <<>>
          BY <1>1, <4>1 DEF out
        <5> QED
          BY <3>2, <4>1, <5>1 DEF t
      <4>2. CASE n # 1
        <5> SUFFICES ASSUME Holds(0, 0), history[0][0] > limit
                     PROVE  f[n] # <<>> /\ f[n][Len(f[n])] = history[0][0]
          OBVIOUS
        <5>1. out # <<>> /\ out[Len(out)] = history[0][0]
          BY <2>2, <4>2 DEF Ordered
        <5>2. Len(out) > 0 /\ Len(f[n]) \in 2..Len(f[n])
          BY <3>2, <5>1
        <5> QED
          BY <3>2, <5>1, <5>2
      <4> QED
        BY <4>1, <4>2
    <3> QED
      BY <3>2, <3>4, <3>5, <3>6 DEF Ordered, S
  <2>5. CASE ~(nbitem[n - 1] # 0 /\ t > limit)
    <3>1. f[n] = out
      <4>1. Printed(n - 1, limit) = <<>>
        BY <2>5 DEF Printed, t
      <4>2. out \in Seq(Nat)
        BY <2>2 DEF Ordered
      <4>3. <<>> \o out = out
        BY <4>2
      <4> QED
        BY <2>1, <4>1, <4>3, Zenon
    <3>2. n - 1 = 0 => ~(Holds(0, 0) /\ history[0][0] > limit)
      BY <2>3, <2>5 DEF Holds, t
    <3>3. ASSUME NEW k \in 1..Len(out)
          PROVE  /\ out[k] > limit
                 /\ \E c \in 0..n - 1 : Holds(c, 0) /\ history[c][0] = out[k]
      <4>1. /\ out[k] > limit
            /\ \E c \in 0..n - 1 - 1 : Holds(c, 0) /\ history[c][0] = out[k]
        BY <2>2, Zenon DEF Ordered
      <4>2. 0..n - 1 - 1 \subseteq 0..n - 1
        OBVIOUS
      <4> QED
        BY <4>1, <4>2, Zenon
    <3>4. Holds(0, 0) /\ history[0][0] > limit =>
             out # <<>> /\ out[Len(out)] = history[0][0]
      BY <2>2, <3>2 DEF Ordered
    <3>5. Ordered(out, limit, n)
      <4>1. /\ out \in Seq(Nat)
            /\ \A k \in 1..Len(out) - 1 : out[k] < out[k + 1]
        BY <2>2, Zenon DEF Ordered
      <4> QED
        BY <3>3, <3>4, <4>1, Zenon DEF Ordered
    <3> QED
      BY <3>1, <3>5 DEF S
  <2> QED
    BY <2>4, <2>5
<1> HIDE DEF S
<1>5. 0..NbCell \subseteq S
  BY <1>3, <1>4, Induction, HistoryAssumption
<1> QED
  BY <1>5 DEF S
-----------------------------------------------------------------------------
(***************************************************************************)
(* The life of a tree.                                                     *)
(***************************************************************************)
LifeInv ==
    /\ 1..pushed \subseteq Kept \cup Carried \cup deleted
    /\ deleted \subseteq 1..pushed
    /\ ~destroyed => (Kept \cup Carried) \cap deleted = {}
    /\ destroyed => elem = 0 /\ 1..pushed \subseteq deleted

\* No two places hold the same tree.
LEMMA Distinct ==
    ASSUME TypeOK, Chronological,
           NEW c \in Cells, NEW d \in Cells, NEW i \in {0, 1}, NEW j \in {0, 1},
           Holds(c, i), Holds(d, j), history[c][i] = history[d][j]
    PROVE  c = d /\ i = j
<1>1. c \in Int /\ d \in Int /\ history[c][i] \in Int
  BY DEF Cells, TypeOK
<1>2. ~(c < d) /\ ~(c = d /\ i > j)
  BY <1>1 DEF Chronological
<1>3. ~(d < c) /\ ~(d = c /\ j > i)
  BY <1>1 DEF Chronological
<1> QED
  BY <1>1, <1>2, <1>3

LEMMA KeptTrees ==
    ASSUME TypeOK, NEW t
    PROVE  t \in Kept <=>
             \E c \in Cells, i \in {0, 1} : Holds(c, i) /\ history[c][i] = t
BY DEF Kept, TreesIn, TypeOK

LEMMA LifeStep ==
    ASSUME TypeOK, TypeOK', OrderInv, LifeInv, [Next]_vars
    PROVE  LifeInv'
<1>1. CASE Push
  <2>1. Kept' = Kept
    BY <1>1 DEF Push, Kept, TreesIn, Holds
  <2> QED
    BY <1>1, <2>1 DEF Push, LifeInv, Carried, OrderInv, Known, TypeOK, Kept,
                      TreesIn
<1>2. CASE Store
  <2>1. elem # 0 /\ elem' = 0 /\ UNCHANGED <<pushed, deleted, destroyed>>
    BY <1>2 DEF Store
  <2>2. cell \in Cells /\ nbitem[cell] \in {0, 1}
    BY <1>2, StoreEffect
  <2>3. \A c \in Cells, i \in {0, 1} : Holds(c, i)' <=> StoredIn(c, i)
    BY <1>2, StoreHolds
  <2>4. ASSUME NEW t PROVE t \in Kept' <=> t \in Kept \/ t = elem
    <3>1. \A c \in Cells, i \in {0, 1} :
             history'[c][i] = IF c = cell /\ i = nbitem[cell]
                              THEN elem ELSE history[c][i]
      BY <1>2, StoreEffect
    <3>2. t \in Kept' <=>
            \E c \in Cells, i \in {0, 1} : Holds(c, i)' /\ history'[c][i] = t
      BY DEF Kept, TreesIn, TypeOK
    <3>3. t \in Kept <=>
            \E c \in Cells, i \in {0, 1} : Holds(c, i) /\ history[c][i] = t
      BY KeptTrees
    <3>4. ~Holds(cell, nbitem[cell])
      BY <2>2 DEF Holds
    <3> QED
      BY <2>2, <2>3, <3>1, <3>2, <3>3, <3>4 DEF StoredIn
  <2> QED
    BY <2>1, <2>4 DEF LifeInv, Carried
<1>3. CASE MoveOn
  <2> DEFINE x == history[cell][1]
  <2>1. /\ elem' = history[cell][0] /\ nbitem[cell] = 2 /\ elem # 0
        /\ deleted' = deleted \cup {x} /\ UNCHANGED <<pushed, destroyed>>
    BY <1>3 DEF MoveOn
  <2>2. cell \in Cells
    BY <1>3, MoveOnEffect
  <2>3. Holds(cell, 0) /\ Holds(cell, 1)
    BY <2>1 DEF Holds
  <2>4. /\ x \in Kept /\ elem' \in Kept /\ elem' # x
        /\ x # elem /\ elem' # 0 /\ x \in 1..pushed
    <3>1. x # elem' BY <2>1, <2>2, <2>3, Distinct DEF OrderInv
    <3>2. x < elem /\ elem' > 0 /\ x > 0 /\ x <= pushed /\ x \in Nat /\ elem \in Nat
      BY <2>1, <2>2, <2>3
         DEF OrderInv, Carrying, Known, TypeOK, Cells
    <3>3. x \in Kept /\ elem' \in Kept
      BY <2>1, <2>2, <2>3, KeptTrees
    <3> QED
      BY <2>1, <3>1, <3>2, <3>3 DEF TypeOK
  <2>5. \A c \in Cells, i \in {0, 1} : Holds(c, i)' <=> MovedIn(c, i)
    BY <1>3, MoveOnHolds
  <2>6. \A c \in Cells, i \in {0, 1} :
           history'[c][i] = IF c = cell /\ i = 0 THEN elem ELSE history[c][i]
    BY <1>3, MoveOnEffect
  <2>7. \A t : t \in Kept' <=>
          \E c \in Cells, i \in {0, 1} : Holds(c, i)' /\ history'[c][i] = t
    BY DEF Kept, TreesIn, TypeOK
  <2>8. elem \in Kept'
    BY <2>2, <2>5, <2>6, <2>7 DEF MovedIn
  <2>9. ASSUME NEW t \in Kept' PROVE t = elem \/ (t \in Kept /\ t # x)
    <3>1. PICK c \in Cells, i \in {0, 1} : Holds(c, i)' /\ history'[c][i] = t
      BY <2>7
    <3>2. CASE c = cell /\ i = 0
      BY <2>6, <3>1, <3>2
    <3>3. CASE c # cell /\ Holds(c, i) /\ history[c][i] = t
      BY <2>2, <2>3, <3>3, Distinct, KeptTrees DEF OrderInv
    <3> QED
      BY <2>5, <3>1, <3>2, <3>3 DEF MovedIn
  <2>10. ASSUME NEW t \in Kept PROVE t \in Kept' \/ t = x \/ t = elem'
    <3>1. PICK c \in Cells, i \in {0, 1} : Holds(c, i) /\ history[c][i] = t
      BY KeptTrees
    <3>2. CASE c = cell
      BY <2>1, <3>1, <3>2
    <3>3. CASE c # cell
      BY <2>5, <2>6, <2>7, <3>1, <3>3 DEF MovedIn
    <3> QED
      BY <3>2, <3>3
  <2> QED
    BY <2>1, <2>4, <2>8, <2>9, <2>10 DEF LifeInv, Carried
<1>4. CASE DropLast
  <2>1. Kept' = Kept
    BY <1>4 DEF DropLast, Kept, TreesIn, Holds
  <2>2. elem \notin Kept /\ elem \in 1..pushed
    <3>1. elem \in Nat /\ cell = NbCell /\ elem # 0
      BY <1>4 DEF DropLast, TypeOK
    <3>2. ASSUME NEW c \in Cells, NEW i \in {0, 1}, Holds(c, i)
          PROVE  history[c][i] # elem
      <4>1. c < cell
        BY <3>1, HistoryAssumption DEF Cells
      <4>2. elem < history[c][i]
        BY <3>1, <3>2, <4>1 DEF OrderInv, Carrying
      <4>3. history[c][i] \in Nat
        BY <3>2 DEF TypeOK
      <4> QED
        BY <3>1, <4>2, <4>3
    <3> QED
      BY <3>1, <3>2, KeptTrees DEF OrderInv, Known, TypeOK
  <2> QED
    BY <1>4, <2>1, <2>2 DEF DropLast, LifeInv, Carried
<1>5. CASE Destroy
  <2>1. Kept' = Kept
    BY <1>5 DEF Destroy, Kept, TreesIn, Holds
  <2>2. Destroyed = Kept
    <3>1. ASSUME NEW c \in Cells, NEW i \in {0, 1}, Holds(c, i)
          PROVE  \A d \in 0..c : nbitem[d] > 0
      <4>1. nbitem[c] > 0
        BY <3>1 DEF Holds, TypeOK
      <4>2. ASSUME NEW d \in 0..c PROVE d \in Cells /\ (d < c \/ d = c)
        BY HistoryAssumption DEF Cells
      <4> QED
        BY <4>1, <4>2 DEF OrderInv, NoGap
    <3> QED
      BY <3>1 DEF Destroyed, Kept, TreesIn
  <2>3. Kept \subseteq 1..pushed
    BY KeptTrees DEF OrderInv, Known, TypeOK
  <2> QED
    BY <1>5, <2>1, <2>2, <2>3 DEF Destroy, LifeInv, Carried
<1>6. CASE UNCHANGED vars
  BY <1>6 DEF vars, LifeInv, Kept, Carried, TreesIn, Holds
<1> QED
  BY <1>1, <1>2, <1>3, <1>4, <1>5, <1>6 DEF Next, Done

HistoryInv == TypeOK /\ OrderInv /\ LifeInv /\ Newest

LEMMA HistoryInvariant == Spec => []HistoryInv
<1>1. Init => HistoryInv
  <2> SUFFICES ASSUME Init PROVE HistoryInv
    OBVIOUS
  <2>1. TypeOK
    <3>1. /\ pushed \in 0..MaxPush /\ cell \in 0..NbCell /\ elem \in 0..MaxPush
          /\ deleted \subseteq 0..MaxPush
      BY HistoryAssumption DEF Init
    <3>5. destroyed \in BOOLEAN
      BY Zenon DEF Init
    <3>2. [i \in {0, 1} |-> 0] \in [{0, 1} -> 0..MaxPush] /\ 0 \in 0..2
      BY HistoryAssumption
    <3>3. nbitem \in [Cells -> 0..2]
      BY <3>2 DEF Init
    <3>4. history \in [Cells -> [{0, 1} -> 0..MaxPush]]
      <4> DEFINE empty == [i \in {0, 1} |-> 0]
      <4>1. history = [c \in Cells |-> empty]
        BY DEF Init
      <4> HIDE DEF empty
      <4> QED
        BY <3>2, <4>1 DEF empty
    <3> QED
      BY <3>1, <3>3, <3>4, <3>5 DEF TypeOK
  <2>2. \A c \in Cells, i \in {0, 1} : ~Holds(c, i)
    BY DEF Init, Holds
  <2>3. OrderInv
    BY <2>1, <2>2
       DEF Init, OrderInv, Chronological, Carrying, NoGap, Known, TypeOK
  <2>4. LifeInv
    BY <2>2 DEF Init, LifeInv, Kept, Carried, TreesIn
  <2>5. Newest
    BY DEF Init, Newest
  <2> QED
    BY <2>1, <2>3, <2>4, <2>5 DEF HistoryInv
<1>2. HistoryInv /\ [Next]_vars => HistoryInv'
  BY TypeStep, OrderStep, LifeStep, NewestStep DEF HistoryInv
<1> QED
  BY <1>1, <1>2, PTL DEF Spec

\* The arrays are never indexed out of their bounds, whatever is pushed.
THEOREM HistoryTypes == Spec => []TypeOK
BY HistoryInvariant, PTL DEF HistoryInv

\* Older trees are in deeper cells, and no tree is stored twice.
THEOREM HistoryInOrder == Spec => []Chronological
BY HistoryInvariant, PTL DEF HistoryInv, OrderInv

\* push() and the destructor delete every tree that is no longer kept.
THEOREM NoTreeLeaks == Spec => []NothingLeaks
<1>1. HistoryInv => NothingLeaks
  BY DEF HistoryInv, LifeInv, NothingLeaks
<1> QED
  BY <1>1, HistoryInvariant, PTL

\* No tree is deleted, once or twice, while the history still holds it.
THEOREM NoTreeDangles == Spec => []NothingDangles
<1>1. HistoryInv => NothingDangles
  BY DEF HistoryInv, LifeInv, NothingDangles
<1> QED
  BY <1>1, HistoryInvariant, PTL

\* dumpHistory() prints the samples that were not displayed yet from the oldest
\* to the last one, which is always there, and none of them twice.
THEOREM DumpIsChronicle == Spec => []DumpInOrder
<1>1. ASSUME HistoryInv PROVE DumpInOrder
  <2> USE HistoryAssumption
  <2> SUFFICES ASSUME elem = 0, pushed > 0, NEW limit \in 0..pushed - 1
               PROVE  LET d == Dump(limit) IN
                      /\ d # <<>> /\ d[Len(d)] = pushed
                      /\ \A k \in 1..Len(d) - 1 : d[k] < d[k + 1] /\ d[k] > limit
    BY DEF DumpInOrder
  <2>1. TypeOK /\ Chronological /\ Newest /\ pushed \in Nat /\ limit \in Nat
        /\ limit < pushed /\ 0 \in Cells
    BY <1>1 DEF HistoryInv, OrderInv, TypeOK, Cells
  <2>2. PICK f : IsLoop(f, limit, NbCell) /\ Dump(limit) = f[NbCell] \o MostRecent
    BY DumpIsLoop
  <2> DEFINE out == f[NbCell]
  <2>3. Ordered(out, limit, NbCell)
    BY <2>1, <2>2, LoopOrdered
  <2>4. nbitem[0] \in {1, 2} /\ history[0][nbitem[0] - 1] = pushed
    BY <2>1 DEF Newest, TypeOK
  <2> HIDE DEF out
  <2>5. /\ out \in Seq(Nat)
        /\ \A k \in 1..Len(out) : out[k] > limit
        /\ \A k \in 1..Len(out) - 1 : out[k] < out[k + 1]
    BY <2>3 DEF Ordered
  <2>6. CASE nbitem[0] = 1
    <3>1. Dump(limit) = out
      <4>1. MostRecent = <<>>
        BY <2>6 DEF MostRecent
      <4> QED
        BY <2>2, <2>5, <4>1 DEF out
    <3>2. out # <<>> /\ out[Len(out)] = pushed
      BY <2>1, <2>3, <2>4, <2>6 DEF Ordered, Holds
    <3>3. \A k \in 1..Len(out) - 1 : k \in 1..Len(out)
      BY <2>5
    <3> QED
      BY <2>5, <3>1, <3>2, <3>3
  <2>7. CASE nbitem[0] = 2
    <3> DEFINE d == Dump(limit)
    <3>1. d = out \o <<pushed>>
      <4>1. MostRecent = <<pushed>>
        BY <2>4, <2>7 DEF MostRecent
      <4> QED
        BY <2>2, <4>1 DEF out
    <3> HIDE DEF d
    <3>2. /\ d \in Seq(Nat) /\ Len(d) = Len(out) + 1 /\ d[Len(d)] = pushed
          /\ \A k \in 1..Len(out) : d[k] = out[k]
      BY <2>1, <2>5, <3>1
    <3>3. ASSUME NEW k \in 1..Len(out) PROVE out[k] < pushed
      <4>1. \A j \in 1..Len(out) :
               \E c \in 0..NbCell - 1 : Holds(c, 0) /\ history[c][0] = out[j]
        BY <2>3 DEF Ordered
      <4>2. PICK c \in Cells : Holds(c, 0) /\ history[c][0] = out[k]
        BY <4>1 DEF Cells
      <4>3. Holds(0, 1) /\ history[0][1] = pushed
        BY <2>4, <2>7 DEF Holds
      <4>4. 0 < c \/ 0 = c
        BY DEF Cells
      <4> QED
        BY <2>1, <4>2, <4>3, <4>4 DEF Chronological
    <3>4. ASSUME NEW k \in 1..Len(d) - 1 PROVE d[k] < d[k + 1] /\ d[k] > limit
      <4>1. k \in 1..Len(out) /\ d[k] = out[k] /\ out[k] > limit
        BY <2>5, <3>2
      <4>2. CASE k = Len(out)
        BY <3>2, <3>3, <4>1, <4>2
      <4>3. CASE k # Len(out)
        <5>1. k \in 1..Len(out) - 1 /\ k + 1 \in 1..Len(out)
          BY <2>5, <4>1, <4>3
        <5> QED
          BY <2>5, <3>2, <4>1, <5>1
      <4> QED
        BY <4>2, <4>3
    <3>5. d # <<>>
      BY <2>5, <3>2
    <3> QED
      BY <3>2, <3>4, <3>5 DEF d
  <2> QED
    BY <2>4, <2>6, <2>7
<1> QED
  BY <1>1, HistoryInvariant, PTL
=============================================================================
