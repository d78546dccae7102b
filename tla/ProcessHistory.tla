--------------------------- MODULE ProcessHistory ---------------------------
(***************************************************************************)
(* class ProcessHistory (ProcessHistory.hh): the process trees sampled by  *)
(* Watcher, which owns none of them after push().  Cell c holds at most    *)
(* two trees; when a tree comes to a full cell, the second one is deleted, *)
(* the first one moves to the next cell and the new one takes its place.   *)
(* The deeper the cell, the further apart in time are its trees.           *)
(*                                                                         *)
(* A tree is named by its rank: the n-th tree that is pushed is n.  push() *)
(* is modelled turn by turn of its loop, dumpHistory() as the sequence of  *)
(* trees it prints.                                                        *)
(***************************************************************************)
EXTENDS Integers, Sequences

CONSTANTS
    NbCell,     \* number of cells (10 in Watcher)
    MaxPush     \* how many trees are pushed (bound)

ASSUME HistoryAssumption == NbCell \in Nat \ {0} /\ MaxPush \in Nat

VARIABLES
    nbitem,     \* how many trees each cell holds
    history,    \* history[c][i] is history[2*c+i] of the code
    pushed,     \* the last tree that was pushed
    cell,       \* the cell push() is at, NbCell after the last one
    elem,       \* the tree that it carries, 0 when push() is not running
    deleted,    \* the trees that were deleted
    destroyed   \* has the destructor run?

vars == <<nbitem, history, pushed, cell, elem, deleted, destroyed>>

Cells == 0..NbCell - 1

TypeOK ==
    /\ nbitem \in [Cells -> 0..2]
    /\ history \in [Cells -> [{0, 1} -> 0..MaxPush]]
    /\ pushed \in 0..MaxPush
    /\ cell \in 0..NbCell
    /\ elem \in 0..MaxPush
    /\ deleted \subseteq 0..MaxPush
    /\ destroyed \in BOOLEAN

Init ==
    /\ nbitem = [c \in Cells |-> 0]
    /\ history = [c \in Cells |-> [i \in {0, 1} |-> 0]]
    /\ pushed = 0
    /\ cell = 0 /\ elem = 0
    /\ deleted = {}
    /\ destroyed = FALSE

\* push() is called with a new tree.
Push ==
    /\ ~destroyed /\ elem = 0
    /\ pushed < MaxPush
    /\ pushed' = pushed + 1
    /\ elem' = pushed + 1
    /\ cell' = 0
    /\ UNCHANGED <<nbitem, history, deleted, destroyed>>

\* There is room in the cell: the loop ends.
Store ==
    /\ elem # 0 /\ cell < NbCell /\ nbitem[cell] < 2
    /\ history' = [history EXCEPT ![cell][nbitem[cell]] = elem]
    /\ nbitem' = [nbitem EXCEPT ![cell] = @ + 1]
    /\ elem' = 0
    /\ UNCHANGED <<pushed, cell, deleted, destroyed>>

\* The cell is full: its first tree goes on to the next cell.
MutDeleteFirst ==
    /\ elem # 0 /\ cell < NbCell /\ nbitem[cell] = 2
    /\ deleted' = deleted \cup {history[cell][0]}
    /\ history' = [history EXCEPT ![cell][0] = elem]
    /\ nbitem' = [nbitem EXCEPT ![cell] = 1]
    /\ elem' = history[cell][0]
    /\ cell' = cell + 1
    /\ UNCHANGED <<pushed, destroyed>>

MutNewGoesOn ==
    /\ elem # 0 /\ cell < NbCell /\ nbitem[cell] = 2
    /\ deleted' = deleted \cup {history[cell][1]}
    /\ nbitem' = [nbitem EXCEPT ![cell] = 1]
    /\ cell' = cell + 1
    /\ UNCHANGED <<history, elem, pushed, destroyed>>

MoveOn ==
    /\ elem # 0 /\ cell < NbCell /\ nbitem[cell] = 2
    /\ deleted' = deleted \cup {history[cell][1]}
    /\ history' = [history EXCEPT ![cell][0] = elem]
    /\ nbitem' = [nbitem EXCEPT ![cell] = 1]
    /\ elem' = history[cell][0]
    /\ cell' = cell + 1
    /\ UNCHANGED <<pushed, destroyed>>

\* if (move) drop(elem): the tree that leaves the last cell is deleted.
MutForgetLast ==
    /\ elem # 0 /\ cell = NbCell
    /\ elem' = 0
    /\ UNCHANGED <<nbitem, history, pushed, cell, deleted, destroyed>>

DropLast ==
    /\ elem # 0 /\ cell = NbCell
    /\ deleted' = deleted \cup {elem}
    /\ elem' = 0
    /\ UNCHANGED <<nbitem, history, pushed, cell, destroyed>>

\* The destructor stops at the first empty cell.
Holds(c, i) == i < nbitem[c]
TreesIn(cells) ==
    {t \in 0..MaxPush : \E c \in cells, i \in {0, 1} : Holds(c, i) /\ history[c][i] = t}
Destroyed == TreesIn({c \in Cells : \A d \in 0..c : nbitem[d] > 0})

Destroy ==
    /\ ~destroyed /\ elem = 0
    /\ destroyed' = TRUE
    /\ deleted' = deleted \cup Destroyed
    /\ UNCHANGED <<nbitem, history, pushed, cell, elem>>

Done == destroyed /\ UNCHANGED vars

Next == Push \/ Store \/ MoveOn \/ DropLast \/ Destroy \/ Done

Spec == Init /\ [][Next]_vars

(***************************************************************************)
(* dumpHistory(): the first tree of each cell, the deepest cell first, if  *)
(* it is more recent than limit, then the second tree of cell 0.           *)
(***************************************************************************)
Printed(c, limit) ==
    IF nbitem[c] # 0 /\ history[c][0] > limit THEN <<history[c][0]>> ELSE <<>>
MostRecent == IF nbitem[0] = 2 THEN <<history[0][1]>> ELSE <<>>

MutShallowFirst(limit) ==
    LET loop[n \in 0..NbCell] ==
          IF n = 0 THEN <<>> ELSE loop[n - 1] \o Printed(n - 1, limit)
    IN  loop[NbCell] \o MostRecent

\* loop[n] is what the loop prints once its variable, cell, is n - 1.
Dump(limit) ==
    LET loop[n \in 0..NbCell] ==
          IF n = 0 THEN <<>> ELSE Printed(n - 1, limit) \o loop[n - 1]
    IN  loop[NbCell] \o MostRecent
-----------------------------------------------------------------------------
Kept == TreesIn(Cells)
Carried == IF elem = 0 THEN {} ELSE {elem}

\* Every tree that was pushed is stored, or carried by push(), or deleted:
\* none is lost, and at the end the destructor leaves none.
NothingLeaks ==
    /\ 1..pushed \subseteq Kept \cup Carried \cup deleted
    /\ destroyed => 1..pushed \subseteq deleted

\* No tree is deleted while the history or push() still refers to it, so the
\* tree Watcher goes on using after push(), the last one, is alive.
NothingDangles ==
    ~destroyed => (Kept \cup Carried) \cap deleted = {}

\* The trees of a cell are older than those of the cells before it, and in a
\* cell the first is the older one: no tree is stored twice.
Chronological ==
    \A c, d \in Cells, i, j \in {0, 1} :
        /\ Holds(c, i) /\ Holds(d, j)
        /\ c < d \/ (c = d /\ i > j)
        => history[d][j] < history[c][i]

\* What is printed is in chronological order, ends with the last sample, and
\* tells nothing twice: a sample that was displayed already is printed again
\* only if it is the last one.
DumpInOrder ==
    elem = 0 /\ pushed > 0 =>
        \A limit \in 0..pushed - 1 :
            LET d == Dump(limit) IN
            /\ d # <<>> /\ d[Len(d)] = pushed
            /\ \A i \in 1..Len(d) - 1 : d[i] < d[i + 1] /\ d[i] > limit
=============================================================================
