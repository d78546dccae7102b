--------------------------- MODULE Watcher_proofs ---------------------------
(***************************************************************************)
(* Proofs about Watcher, for any number of processes, any limits and any   *)
(* periods: types, what is left of the solver when runsolver reports, the  *)
(* delay before SIGKILL, the last sweep, the memory flag of the summary,   *)
(* and the CPU time that is counted.                                       *)
(***************************************************************************)
EXTENDS Watcher, SequenceLemmas, FiniteSetTheorems, WellFoundedInduction, TLAPS

\* The processes keep their types under each call that changes them.
LEMMA SolverStepType ==
    ASSUME SolverTypeOK, SolverStep
    PROVE  SolverTypeOK'
<1> USE ProcessesAssumption DEF SolverTypeOK, Procs, Runsolver, Running
<1>1. PICK p \in Procs :
        \/ Compute(p)
        \/ Die(p)
        \/ \E q \in Procs : Fork(p, q) \/ WaitFor(p, q)
  BY DEF SolverStep
<1>2. CASE Compute(p)
  BY <1>2 DEF Compute
<1>3. CASE Die(p)
  BY <1>3 DEF Die
<1>4. ASSUME NEW q \in Procs, Fork(p, q)
      PROVE  SolverTypeOK'
  BY <1>4 DEF Fork
<1>5. ASSUME NEW q \in Procs, WaitFor(p, q)
      PROVE  SolverTypeOK'
  BY <1>5 DEF WaitFor
<1> QED
  BY <1>1, <1>2, <1>3, <1>4, <1>5

LEMMA ReapType ==
    ASSUME SolverTypeOK, NEW p \in Procs, Reap(p)
    PROVE  SolverTypeOK'
BY ProcessesAssumption DEF SolverTypeOK, Reap, Procs, Runsolver

LEMMA KillType ==
    ASSUME SolverTypeOK, NEW p \in Procs, NEW sig, Kill(p, sig)
    PROVE  SolverTypeOK'
BY ProcessesAssumption
   DEF SolverTypeOK, Kill, Die, Procs, Runsolver, procVars

LEMMA PidsGivenType == PidsGiven \in Nat
<1>1. IsFiniteSet(1..NProcs)
  BY FS_Interval, ProcessesAssumption
<1>2. IsFiniteSet({p \in Procs : status[p] # "none"})
  BY <1>1, FS_Subset DEF Procs
<1> QED
  BY <1>2, FS_CardinalityType DEF PidsGiven

\* Every step keeps the types of all variables.
LEMMA TypeStep ==
    ASSUME TypeOK, [Next]_vars
    PROVE  TypeOK'
<1> USE ProcessesAssumption, WatcherAssumption
<1> USE DEF TypeOK, MainTypeOK, StopTypeOK, TickTypeOK, TreeTypeOK,
            mainVars, stopVars, treeVars, tickVars, termVars, Reasons, None
<1>1. CASE WaitPid
  <2>1. PICK p \in Procs : Reap(p) /\ childstatus' = p
    BY <1>1 DEF WaitPid
  <2>2. SolverTypeOK'
    BY <2>1, ReapType
  <2> QED
    BY <1>1, <2>1, <2>2 DEF WaitPid
<1>2. CASE Account
  BY <1>2 DEF Account, procVars, SolverTypeOK
<1>3. CASE NoMoreChild
  <2>1. solverIsRunning' \in BOOLEAN
    BY <1>3 DEF NoMoreChild
  <2> QED
    BY <1>3, <2>1 DEF NoMoreChild, procVars, SolverTypeOK
<1>4. CASE Report
  BY <1>4 DEF Report, procVars, SolverTypeOK
<1>5. CASE SignalHandler
  <2>1. stopSolverRequested' \in BOOLEAN
    BY <1>5 DEF SignalHandler
  <2>2. stopReason' \in Reasons \cup {None} /\ handlerPc' \in {"requested", "done"}
    BY <1>5 DEF SignalHandler
  <2> QED
    BY <1>5, <2>1, <2>2 DEF SignalHandler, procVars, SolverTypeOK
<1>6. CASE Loop
  BY <1>6 DEF Loop, procVars, SolverTypeOK
<1>7. CASE Tick
  <2>1. tree' \in SUBSET Procs /\ todo' \in SUBSET Procs /\ treeCPU' \in Nat
        /\ link' \in [Procs -> Procs \cup {Runsolver}]
        /\ treeHasAllProcesses' \in BOOLEAN
    BY <1>7 DEF Tick, StartRead, StartUpdate, Existing
  <2>2. watcherPc' \in {"read", "update"} /\ treeCompleted' \in Nat
    BY <1>7 DEF Tick
  <2>3. TickTypeOK'
    BY <1>7 DEF Tick, NextSubcount, ReadClock
  <2>4. SolverTypeOK' /\ MainTypeOK' /\ StopTypeOK'
    BY <1>7 DEF Tick, procVars, SolverTypeOK
  <2> QED
    BY <2>1, <2>2, <2>3, <2>4
<1>8. CASE ReadProcess
  <2>1. SolverTypeOK' /\ MainTypeOK' /\ StopTypeOK' /\ TickTypeOK'
    BY <1>8 DEF ReadProcess, SharedUnchanged, procVars, SolverTypeOK
  <2>2. TreeTypeOK'
    BY <1>8 DEF ReadProcess, Found, Running, SolverTypeOK
  <2> QED
    BY <2>1, <2>2
<1>9. CASE UpdateProcess
  <2>1. SolverTypeOK' /\ MainTypeOK' /\ StopTypeOK' /\ TickTypeOK'
    BY <1>9 DEF UpdateProcess, SharedUnchanged, procVars, SolverTypeOK
  <2>2. TreeTypeOK'
    <3>1. PICK p \in todo :
            \/ /\ treeCPU' = treeCPU + cpu[p]
               /\ todo' = todo \ {p}
               /\ UNCHANGED <<tree, link, treeHasAllProcesses, watcherPc>>
            \/ StartRead /\ watcherPc' = "read"
            \/ /\ tree' = tree \ {p}
               /\ link' = [link EXCEPT ![p] = Runsolver]
               /\ todo' = todo \ {p}
               /\ UNCHANGED <<treeCPU, treeHasAllProcesses, watcherPc>>
      BY <1>9 DEF UpdateProcess
    <3>2. treeCompleted' \in Nat /\ watcherPc' \in {"read", "update"}
      BY <1>9 DEF UpdateProcess
    <3>3. CASE StartRead /\ watcherPc' = "read"
      BY <3>2, <3>3 DEF StartRead, Existing
    <3> QED
      BY <3>1, <3>2, <3>3 DEF SolverTypeOK
  <2> QED
    BY <2>1, <2>2
<1>10. CASE SampleTooLate
  BY <1>10 DEF SampleTooLate, procVars, SolverTypeOK
<1>11. CASE CheckLimits
  <2>1. PICK vsize \in VSizes, memory \in Memories :
          /\ maxVSize' = IF vsize > maxVSize THEN vsize ELSE maxVSize
          /\ StopIfExceeded(Exceeded(vsize, memory))
    BY <1>11 DEF CheckLimits
  <2>2. stopSolverRequested' \in BOOLEAN
    BY <2>1 DEF StopIfExceeded
  <2>3. stopReason' \in Reasons \cup {None}
    <3>1. Exceeded(vsize, memory) \subseteq {"cpu", "wall", "vsize", "memory"}
      BY DEF Exceeded
    <3>2. CASE Exceeded(vsize, memory) = {}
      BY <2>1, <3>2 DEF StopIfExceeded
    <3>3. CASE Exceeded(vsize, memory) # {}
      <4>1. \E r \in Exceeded(vsize, memory) :
              \A s \in Exceeded(vsize, memory) : Overrides[s] <= Overrides[r]
        <5> DEFINE E == Exceeded(vsize, memory)
        <5>1. CASE "memory" \in E
          BY <3>1, <5>1 DEF Overrides
        <5>2. CASE "memory" \notin E /\ "vsize" \in E
          BY <3>1, <5>2 DEF Overrides
        <5>3. CASE "memory" \notin E /\ "vsize" \notin E /\ "wall" \in E
          BY <3>1, <5>3 DEF Overrides
        <5>4. CASE E = {"cpu"}
          BY <5>4 DEF Overrides
        <5> QED
          BY <3>1, <3>3, <5>1, <5>2, <5>3, <5>4
      <4>2. stopReason' \in Exceeded(vsize, memory)
        BY <2>1, <3>3, <4>1 DEF StopIfExceeded
      <4> QED
        BY <3>1, <4>2
    <3> QED
      BY <3>2, <3>3
  <2> QED
    BY <1>11, <2>1, <2>2, <2>3 DEF CheckLimits, procVars, SolverTypeOK
<1>12. CASE DisplayRereads
  BY <1>12 DEF DisplayRereads, StartRead, Existing, procVars, SolverTypeOK
<1>13. CASE EndDisplay
  BY <1>13 DEF EndDisplay, procVars, SolverTypeOK
<1>14. CASE StopNotRequested
  BY <1>14 DEF StopNotRequested, procVars, SolverTypeOK
<1>15. CASE PrintReason
  BY <1>15, PidsGivenType DEF PrintReason, procVars, SolverTypeOK
<1>16. CASE BeginTerm
  BY <1>16 DEF BeginTerm, procVars, SolverTypeOK
<1>17. CASE WaitToKill
  BY <1>17 DEF WaitToKill, procVars, SolverTypeOK
<1>18. CASE BeginKill
  BY <1>18 DEF BeginKill, procVars, SolverTypeOK
<1>19. CASE SignalProcess
  <2>1. PICK p \in todo :
          /\ todo' = todo \ {p}
          /\ Kill(p, IF watcherPc = "term" THEN "SIGTERM" ELSE "SIGKILL")
    BY <1>19 DEF SignalProcess
  <2>2. SolverTypeOK'
    BY <2>1, KillType
  <2> QED
    BY <1>19, <2>1, <2>2 DEF SignalProcess, SharedUnchanged
<1>20. CASE EndTerm
  BY <1>20 DEF EndTerm, procVars, SolverTypeOK
<1>21. CASE EndKill
  <2>1. solverIsRunning' \in BOOLEAN
    BY <1>21 DEF EndKill
  <2> QED
    BY <1>21, <2>1 DEF EndKill, procVars, SolverTypeOK
<1>22. CASE FinalList
  BY <1>22, PidsGivenType
     DEF FinalList, StartRead, Existing, procVars, SolverTypeOK
<1>23. CASE FinalSurvivors
  BY <1>23 DEF FinalSurvivors, procVars, SolverTypeOK
<1>24. CASE WatcherEnds
  BY <1>24 DEF WatcherEnds, procVars, SolverTypeOK
<1>25. CASE SolverRuns
  BY <1>25, SolverStepType DEF SolverRuns
<1>26. CASE UNCHANGED vars
  BY <1>26 DEF vars, procVars, SolverTypeOK
<1> QED
  BY <1>1, <1>2, <1>3, <1>4, <1>5, <1>6, <1>7, <1>8, <1>9, <1>10, <1>11, <1>12,
     <1>13, <1>14, <1>15, <1>16, <1>17, <1>18, <1>19, <1>20, <1>21, <1>22,
     <1>23, <1>24, <1>25, <1>26
     DEF Next, MainStep, WatcherStep, SampleStep, StopStep, FinalStep, Terminated

\* The variables of runsolver and of the solver always have their types.
THEOREM TypeCorrect == Spec => []TypeOK
<1>1. Init => TypeOK
  <2> SUFFICES ASSUME Init PROVE TypeOK
    OBVIOUS
  <2> USE ProcessesAssumption, WatcherAssumption DEF Init
  <2>1. SolverTypeOK
    BY DEF SolverInit, SolverTypeOK, Procs, Child, Runsolver
  <2>2. handlerPc \in {"armed", "done"}
    OBVIOUS
  <2>3. solverIsRunning \in BOOLEAN /\ stopSolverRequested \in BOOLEAN
        /\ firstSecond \in BOOLEAN /\ treeHasAllProcesses \in BOOLEAN
    OBVIOUS
  <2>4. MainTypeOK /\ StopTypeOK
    BY <2>2, <2>3 DEF MainTypeOK, StopTypeOK, Reasons, None
  <2>5. TickTypeOK /\ TreeTypeOK
    BY <2>3 DEF TickTypeOK, TreeTypeOK, Procs, Runsolver
  <2> QED
    BY <2>1, <2>4, <2>5 DEF TypeOK
<1>2. TypeOK /\ [Next]_vars => TypeOK'
  BY TypeStep
<1> QED
  BY <1>1, <1>2, PTL DEF Spec
-----------------------------------------------------------------------------
(***************************************************************************)
(* runsolver is a subreaper: an existing process is a child of runsolver   *)
(* or of a running process with a smaller pid, so some child of runsolver  *)
(* exists as long as any process does.                                     *)
(***************************************************************************)
ParentsRun ==
    \A p \in Existing :
        ppid[p] = Runsolver \/ (ppid[p] \in Running /\ ppid[p] < p)

PidsInOrder ==
    \A p, q \in Procs : p < q /\ status[p] = "none" => status[q] = "none"

ReapInv == ParentsRun /\ PidsInOrder /\ AllReapedAtEnd

\* A nonempty set of pids has a smallest one.
LEMMA SmallestPid ==
    ASSUME NEW S \in SUBSET Procs, S # {}
    PROVE  \E p \in S : \A q \in S : p <= q
<1>1. S \subseteq Nat
  BY ProcessesAssumption DEF Procs
<1>2. PICK p \in S : \A q \in S : ~(<<q, p>> \in OpToRel(<, Nat))
  BY <1>1, NatLessThanWellFounded, WFMin
<1>3. \A q \in S : ~(q < p)
  BY <1>1, <1>2 DEF OpToRel
<1> QED
  BY <1>1, <1>3

LEMMA RunsolverHasChild ==
    ASSUME TypeOK, ParentsRun, Existing # {}
    PROVE  ChildrenOf(Runsolver) # {}
<1>1. Existing \in SUBSET Procs
  BY DEF Existing
<1>2. PICK p \in Existing : \A q \in Existing : p <= q
  BY <1>1, SmallestPid
<1>3. ppid[p] = Runsolver
  BY <1>1, <1>2, ProcessesAssumption
     DEF ParentsRun, Existing, Running, Procs, Runsolver
<1> QED
  BY <1>2, <1>3 DEF ChildrenOf

\* The processes keep this shape whatever happens to them.
LEMMA DieShape ==
    ASSUME SolverTypeOK, ParentsRun, PidsInOrder, NEW p \in Procs, Die(p)
    PROVE  ParentsRun' /\ PidsInOrder'
<1> USE ProcessesAssumption DEF SolverTypeOK, Die, Running, Existing, Procs
<1>1. ParentsRun'
  BY DEF ParentsRun, Runsolver
<1>2. PidsInOrder'
  BY DEF PidsInOrder
<1> QED
  BY <1>1, <1>2

LEMMA GoneShape ==
    ASSUME SolverTypeOK, ParentsRun, PidsInOrder, NEW p \in Procs,
           status[p] = "zombie", status' = [status EXCEPT ![p] = "gone"],
           UNCHANGED ppid
    PROVE  ParentsRun' /\ PidsInOrder'
<1> USE ProcessesAssumption DEF SolverTypeOK, Running, Existing, Procs
<1>1. ParentsRun'
  BY DEF ParentsRun, Runsolver
<1>2. PidsInOrder'
  BY DEF PidsInOrder
<1> QED
  BY <1>1, <1>2

LEMMA ForkShape ==
    ASSUME SolverTypeOK, ParentsRun, PidsInOrder,
           NEW p \in Procs, NEW q \in Procs, Fork(p, q)
    PROVE  ParentsRun' /\ PidsInOrder'
<1> USE ProcessesAssumption DEF SolverTypeOK, Fork, Running, Existing, Procs
<1>1. p < q
  BY DEF PidsInOrder
<1>2. ParentsRun'
  BY <1>1 DEF ParentsRun, Runsolver
<1>3. PidsInOrder'
  BY DEF PidsInOrder
<1> QED
  BY <1>2, <1>3

LEMMA SolverShape ==
    ASSUME SolverTypeOK, ParentsRun, PidsInOrder, SolverStep
    PROVE  ParentsRun' /\ PidsInOrder'
<1>1. PICK p \in Procs :
        \/ Compute(p)
        \/ Die(p)
        \/ \E q \in Procs : Fork(p, q) \/ WaitFor(p, q)
  BY DEF SolverStep
<1>2. CASE Compute(p)
  BY <1>2 DEF Compute, ParentsRun, PidsInOrder, Existing, Running
<1>3. CASE Die(p)
  BY <1>3, DieShape
<1>4. ASSUME NEW q \in Procs, Fork(p, q)
      PROVE  ParentsRun' /\ PidsInOrder'
  BY <1>4, ForkShape
<1>5. ASSUME NEW q \in Procs, WaitFor(p, q)
      PROVE  ParentsRun' /\ PidsInOrder'
  BY <1>5, GoneShape DEF WaitFor
<1> QED
  BY <1>1, <1>2, <1>3, <1>4, <1>5

LEMMA ReapStep ==
    ASSUME TypeOK, ReapInv, [Next]_vars
    PROVE  ReapInv'
<1> USE DEF ReapInv
<1> DEFINE Same == UNCHANGED <<procVars, mainPc>>
<1>1. CASE Same
  BY <1>1 DEF procVars, ParentsRun, PidsInOrder, AllReapedAtEnd, Existing, Running
<1>2. CASE WaitPid
  <2>1. PICK p \in Procs : Reap(p)
    BY <1>2 DEF WaitPid
  <2>2. ParentsRun' /\ PidsInOrder'
    BY <2>1, GoneShape DEF Reap, TypeOK
  <2>3. AllReapedAtEnd'
    BY <1>2 DEF WaitPid, AllReapedAtEnd
  <2> QED
    BY <2>2, <2>3
<1>3. CASE Account
  BY <1>3 DEF Account, procVars, ParentsRun, PidsInOrder, AllReapedAtEnd,
              Existing, Running
<1>4. CASE NoMoreChild
  <2>1. Existing = {}
    BY <1>4, RunsolverHasChild DEF NoMoreChild, NothingToWaitFor
  <2> QED
    BY <1>4, <2>1 DEF NoMoreChild, procVars, ParentsRun, PidsInOrder,
                      AllReapedAtEnd, Existing, Running
<1>5. CASE Report
  BY <1>5 DEF Report, procVars, ParentsRun, PidsInOrder, AllReapedAtEnd,
              Existing, Running
<1>6. CASE SignalProcess
  <2>1. PICK p \in Procs, sig \in {"SIGTERM", "SIGKILL"} : Kill(p, sig)
    BY <1>6 DEF SignalProcess, TypeOK, TreeTypeOK
  <2>2. UNCHANGED mainPc
    BY <1>6 DEF SignalProcess, SharedUnchanged, mainVars
  <2>3. CASE Die(p)
    <3>1. ParentsRun' /\ PidsInOrder'
      BY <2>3, DieShape DEF TypeOK
    <3>2. AllReapedAtEnd'
      BY <2>2, <2>3 DEF AllReapedAtEnd, Die, Existing, Running
    <3> QED
      BY <3>1, <3>2
  <2> QED
    BY <1>1, <2>1, <2>2, <2>3 DEF Kill
<1>7. CASE SolverRuns
  <2>1. ParentsRun' /\ PidsInOrder'
    BY <1>7, SolverShape DEF SolverRuns, TypeOK
  <2>2. AllReapedAtEnd'
    <3>1. SUFFICES ASSUME mainPc' \in {"join", "done"} PROVE FALSE
      BY <1>7, <2>1 DEF AllReapedAtEnd
    <3>2. Running = {}
      BY <1>7, <3>1 DEF SolverRuns, mainVars, AllReapedAtEnd, Existing, Running
    <3> QED
      BY <1>7, <3>2 DEF SolverRuns, SolverStep, Compute, Die, Fork, WaitFor
  <2> QED
    BY <2>1, <2>2
<1>8. CASE SignalHandler \/ Loop \/ SampleStep
  BY <1>1, <1>8
     DEF SignalHandler, Loop, SampleStep, Tick, ReadProcess, UpdateProcess,
         SampleTooLate, CheckLimits, DisplayRereads, EndDisplay,
         SharedUnchanged, mainVars
<1>9. CASE StopStep \/ FinalStep
  BY <1>1, <1>6, <1>9
     DEF StopStep, FinalStep, StopNotRequested, PrintReason, BeginTerm,
         WaitToKill, BeginKill, EndTerm, EndKill, FinalList, FinalSurvivors,
         WatcherEnds, mainVars
<1>10. CASE UNCHANGED vars
  BY <1>1, <1>10 DEF vars, mainVars
<1> QED
  BY <1>2, <1>3, <1>4, <1>5, <1>7, <1>8, <1>9, <1>10
     DEF Next, MainStep, WatcherStep, Terminated

\* When runsolver prints its report, no process of the solver is left, however
\* many there were and whoever their parents were.
THEOREM AllReaped == Spec => []AllReapedAtEnd
<1>1. Init => ReapInv
  BY ProcessesAssumption
     DEF Init, SolverInit, ReapInv, ParentsRun, PidsInOrder, AllReapedAtEnd,
         Existing, Running, Procs, Child, Runsolver
<1>2. TypeOK /\ ReapInv /\ [Next]_vars => ReapInv'
  BY ReapStep
<1>3. ReapInv => AllReapedAtEnd
  BY DEF ReapInv
<1> QED
  BY <1>1, <1>2, <1>3, TypeCorrect, PTL DEF Spec
-----------------------------------------------------------------------------
(***************************************************************************)
(* The grace period.  stopSolverState counts the turns of the loop since   *)
(* the stop was announced; a turn contains one tick, so the number of      *)
(* ticks follows it.  The loop is left when the period is over, or when    *)
(* the main thread found nothing to wait for, and then nothing is left to  *)
(* kill (AllReapedAtEnd).                                                  *)
(***************************************************************************)
Waited(n) == ticksSinceTerm >= n \/ ticksSinceTerm = KillTicks

BeforeTick == {"stopDisplay", "stopDisplayRead", "term", "loop", "tick"}
AfterTick == {"read", "update", "display", "displayRead", "stop"}
MainHasEnded == mainPc \in {"join", "done"}

TurnsAreTicks ==
    stopSolverState > 0 =>
        /\ printedReason # "unprinted"
        /\ watcherPc \in BeforeTick => Waited(stopSolverState - 1)
        /\ watcherPc \in AfterTick => Waited(stopSolverState)

LoopIsLeft ==
    /\ ~solverIsRunning => ticksSinceTerm = KillTicks \/ MainHasEnded
    /\ watcherPc \in {"final", "finalRead"} =>
          \/ ticksSinceTerm = KillTicks
          \/ MainHasEnded /\ (watcherPc = "finalRead" => tree = {})

GraceInv == TurnsAreTicks /\ LoopIsLeft /\ KillAfterGrace

LEMMA GraceStep ==
    ASSUME TypeOK, AllReapedAtEnd, GraceInv, [Next]_vars
    PROVE  GraceInv'
<1> USE WatcherAssumption
    DEF GraceInv, TurnsAreTicks, LoopIsLeft, KillAfterGrace, Waited, BeforeTick,
        AfterTick, MainHasEnded, TypeOK, MainTypeOK, StopTypeOK, TickTypeOK,
        TreeTypeOK, mainVars, stopVars, treeVars, tickVars, termVars
<1>1. CASE MainStep
  BY <1>1 DEF MainStep, WaitPid, Account, NoMoreChild, Report
<1>2. CASE SignalHandler
  BY <1>2 DEF SignalHandler
<1>3. CASE Loop
  BY <1>3 DEF Loop
<1>4. CASE Tick
  BY <1>4 DEF Tick
<1>5. CASE ReadProcess
  <2>1. CASE watcherPc # "finalRead"
    BY <1>5, <2>1 DEF ReadProcess, SharedUnchanged
  <2>2. CASE watcherPc = "finalRead" /\ ~MainHasEnded
    BY <1>5, <2>2 DEF ReadProcess, SharedUnchanged
  <2>3. CASE watcherPc = "finalRead" /\ MainHasEnded
    <3>1. Running = {}
      BY <2>3 DEF AllReapedAtEnd, Existing, Running
    <3>2. UNCHANGED tree
      BY <1>5, <3>1 DEF ReadProcess, Found
    <3> QED
      BY <1>5, <2>3, <3>2 DEF ReadProcess, SharedUnchanged
  <2> QED
    BY <2>1, <2>2, <2>3
<1>6. CASE UpdateProcess
  BY <1>6 DEF UpdateProcess, SharedUnchanged
<1>7. CASE SampleTooLate
  BY <1>7 DEF SampleTooLate
<1>8. CASE CheckLimits
  BY <1>8 DEF CheckLimits
<1>9. CASE DisplayRereads \/ EndDisplay
  BY <1>9 DEF DisplayRereads, EndDisplay, Displayed
<1>10. CASE StopNotRequested
  BY <1>10 DEF StopNotRequested
<1>11. CASE PrintReason
  BY <1>11 DEF PrintReason, Reasons, None
<1>12. CASE BeginTerm
  BY <1>12 DEF BeginTerm, StopDisplayed
<1>13. CASE WaitToKill
  BY <1>13 DEF WaitToKill
<1>14. CASE BeginKill
  BY <1>14 DEF BeginKill, GraceOver
<1>15. CASE SignalProcess
  BY <1>15 DEF SignalProcess, SharedUnchanged
<1>16. CASE EndTerm \/ EndKill
  BY <1>16 DEF EndTerm, EndKill
<1>17. CASE FinalList
  BY <1>17 DEF FinalList, StartRead
<1>18. CASE FinalSurvivors
  BY <1>18 DEF FinalSurvivors
<1>19. CASE WatcherEnds
  BY <1>19 DEF WatcherEnds
<1>20. CASE SolverRuns
  BY <1>20 DEF SolverRuns
<1>21. CASE UNCHANGED vars
  BY <1>21 DEF vars
<1> QED
  BY <1>1, <1>2, <1>3, <1>4, <1>5, <1>6, <1>7, <1>8, <1>9, <1>10, <1>11, <1>12,
     <1>13, <1>14, <1>15, <1>16, <1>17, <1>18, <1>19, <1>20, <1>21
     DEF Next, WatcherStep, SampleStep, StopStep, FinalStep, Terminated

\* No process is sent SIGKILL, in the stop sequence or in the last sweep,
\* before KillTicks ticks have passed since the stop was announced.
THEOREM GraceIsGiven == Spec => []KillAfterGrace
<1>1. Init => GraceInv
  BY WatcherAssumption
     DEF Init, GraceInv, TurnsAreTicks, LoopIsLeft, KillAfterGrace
<1>2. TypeOK /\ AllReapedAtEnd /\ GraceInv /\ [Next]_vars => GraceInv'
  BY GraceStep
<1>3. GraceInv => KillAfterGrace
  BY DEF GraceInv
<1> QED
  BY <1>1, <1>2, <1>3, TypeCorrect, AllReaped, PTL DEF Spec
-----------------------------------------------------------------------------
(***************************************************************************)
(* A summary that says "out of memory": the watcher asks for the stop in   *)
(* the same sample that raises the maximum up to the limit.                *)
(***************************************************************************)
MemInv == VSizeLimit # 0 /\ maxVSize >= VSizeLimit => stopSolverRequested

LEMMA MemStep ==
    ASSUME TypeOK, MemInv, [Next]_vars
    PROVE  MemInv'
<1> USE DEF MemInv, mainVars, stopVars, treeVars, tickVars, termVars
<1>1. CASE CheckLimits
  <2>1. PICK vsize \in VSizes, memory \in Memories :
          /\ maxVSize' = IF vsize > maxVSize THEN vsize ELSE maxVSize
          /\ StopIfExceeded(Exceeded(vsize, memory))
    BY <1>1 DEF CheckLimits
  <2>2. CASE VSizeLimit # 0 /\ vsize >= VSizeLimit
    <3>1. "vsize" \in Exceeded(vsize, memory)
      BY <2>2 DEF Exceeded
    <3> QED
      BY <2>1, <3>1 DEF StopIfExceeded
  <2>3. CASE ~(VSizeLimit # 0 /\ vsize >= VSizeLimit)
    BY <2>1, <2>3 DEF StopIfExceeded
  <2> QED
    BY <2>2, <2>3
<1>2. CASE MainStep
  BY <1>2 DEF MainStep, WaitPid, Account, NoMoreChild, Report
<1>3. CASE SignalHandler
  <2>1. UNCHANGED maxVSize /\ (stopSolverRequested => stopSolverRequested')
    BY <1>3 DEF SignalHandler
  <2> QED
    BY <2>1
<1>4. CASE Loop
  BY <1>4 DEF Loop
<1>5. CASE Tick \/ ReadProcess \/ UpdateProcess \/ SampleTooLate
           \/ DisplayRereads \/ EndDisplay
  BY <1>5 DEF Tick, ReadProcess, UpdateProcess, SampleTooLate, DisplayRereads,
              EndDisplay, SharedUnchanged
<1>6. CASE StopStep \/ FinalStep
  BY <1>6
     DEF StopStep, FinalStep, StopNotRequested, PrintReason, BeginTerm,
         WaitToKill, BeginKill, SignalProcess, EndTerm, EndKill, FinalList,
         FinalSurvivors, WatcherEnds, SharedUnchanged
<1>7. CASE SolverRuns
  BY <1>7 DEF SolverRuns
<1>8. CASE UNCHANGED vars
  BY <1>8 DEF vars
<1> QED
  BY <1>1, <1>2, <1>3, <1>4, <1>5, <1>6, <1>7, <1>8
     DEF Next, WatcherStep, SampleStep, Terminated

\* memOut in the summary of watchPID() says that a sample exceeded the limit of
\* the size of the processes: then stopSolver() was called, whatever came first.
THEOREM MemOutMeansStop == Spec => []MemOutOnlyIfStopped
<1>1. Init => MemInv
  BY WatcherAssumption DEF Init, MemInv
<1>2. TypeOK /\ MemInv /\ [Next]_vars => MemInv'
  BY MemStep
<1>3. TypeOK /\ MemInv => MemOutOnlyIfStopped
  BY WatcherAssumption DEF MemInv, MemOutOnlyIfStopped, MemOut, TypeOK, TickTypeOK
<1> QED
  BY <1>1, <1>2, <1>3, TypeCorrect, PTL DEF Spec
-----------------------------------------------------------------------------
(***************************************************************************)
(* The last sweep.  What it may list has a pid given before, so whoever is *)
(* forked later does not count; the pids are read in order, so that the    *)
(* parent of a process that is read, if it runs, was found before it.      *)
(***************************************************************************)
Listed == Running \cap 1..pidsAtSweep
Sweeping == {"finalRead", "finalKill", "done"}

SweepInv ==
    /\ watcherPc \in Sweeping =>
          \A p \in 1..pidsAtSweep : p \in Procs /\ status[p] # "none"
    /\ watcherPc = "finalRead" => Listed \subseteq todo \cup tree
    /\ watcherPc = "finalKill" => Listed \subseteq todo
    /\ SweepComplete

\* The pids that were given are the first ones.
LEMMA GivenPids ==
    ASSUME PidsInOrder
    PROVE  \A p \in 1..PidsGiven : p \in Procs /\ status[p] # "none"
<1> DEFINE Given == {p \in Procs : status[p] # "none"}
<1>1. SUFFICES ASSUME NEW p \in 1..PidsGiven, p \notin Given PROVE FALSE
  OBVIOUS
<1>2. IsFiniteSet(Given) /\ Cardinality(Given) \in Nat
  <2>1. IsFiniteSet(1..NProcs)
    BY FS_Interval, ProcessesAssumption
  <2> QED
    BY <2>1, FS_Subset, FS_CardinalityType DEF Procs
<1>3. Given \subseteq 1..p - 1
  <2>1. SUFFICES ASSUME NEW q \in Given PROVE q < p
    BY <1>2, ProcessesAssumption DEF Procs, PidsGiven
  <2>2. CASE p \in Procs
    BY <1>1, <2>2, ProcessesAssumption DEF PidsInOrder, Procs
  <2>3. CASE p \notin Procs
    BY <1>2, <2>3, ProcessesAssumption DEF Procs, PidsGiven
  <2> QED
    BY <2>2, <2>3
<1>4. Cardinality(1..p - 1) = p - 1 /\ IsFiniteSet(1..p - 1)
  <2>1. 1 \in Int /\ p - 1 \in Int /\ p >= 1
    BY <1>2 DEF PidsGiven
  <2>2. /\ IsFiniteSet(1..p - 1)
        /\ Cardinality(1..p - 1) = IF 1 > p - 1 THEN 0 ELSE p - 1 - 1 + 1
    BY <2>1, FS_Interval
  <2> QED
    BY <2>1, <2>2
<1>5. Cardinality(Given) <= p - 1
  BY <1>3, <1>4, FS_Subset
<1> QED
  BY <1>2, <1>5 DEF PidsGiven

\* Nothing that was listed starts to run, and pids are not taken back.
LEMMA NoneIsListedAgain ==
    ASSUME SolverTypeOK, SolverStep \/ (\E p \in Procs : Die(p) \/ Reap(p)) \/ UNCHANGED procVars,
           NEW n, \A p \in 1..n : p \in Procs /\ status[p] # "none"
    PROVE  /\ \A p \in 1..n : status'[p] # "none"
           /\ \A p \in 1..n : p \in Running' => p \in Running
<1> USE DEF SolverTypeOK, Running
<1>1. CASE \E p \in Procs : Compute(p)
  BY <1>1 DEF Compute
<1>2. CASE \E p \in Procs : Die(p)
  BY <1>2 DEF Die
<1>3. CASE \E p \in Procs, q \in Procs : Fork(p, q)
  BY <1>3 DEF Fork
<1>4. CASE \E p \in Procs, q \in Procs : WaitFor(p, q)
  BY <1>4 DEF WaitFor
<1>5. CASE \E p \in Procs : Reap(p)
  BY <1>5 DEF Reap
<1>6. CASE UNCHANGED procVars
  BY <1>6 DEF procVars
<1> QED
  BY <1>1, <1>2, <1>3, <1>4, <1>5, <1>6 DEF SolverStep

\* A step that leaves the sweep alone.
LEMMA SweepKept ==
    ASSUME TypeOK, SweepInv, UNCHANGED <<watcherPc, pidsAtSweep, tree, todo>>,
           SolverStep \/ (\E p \in Procs : Die(p) \/ Reap(p)) \/ UNCHANGED procVars
    PROVE  SweepInv'
<1>1. CASE watcherPc \in Sweeping
  <2>1. /\ \A p \in 1..pidsAtSweep : status'[p] # "none"
        /\ \A p \in 1..pidsAtSweep : p \in Running' => p \in Running
    BY <1>1, NoneIsListedAgain DEF SweepInv, TypeOK
  <2> QED
    BY <1>1, <2>1 DEF SweepInv, Listed, SweepComplete
<1>2. CASE watcherPc \notin Sweeping
  BY <1>2 DEF SweepInv, Sweeping, SweepComplete
<1> QED
  BY <1>1, <1>2

LEMMA SweepReads ==
    ASSUME TypeOK, ParentsRun, SweepInv, ReadProcess
    PROVE  SweepInv'
<1>1. /\ UNCHANGED <<watcherPc, pidsAtSweep, procVars>>
      /\ watcherPc \in {"read", "displayRead", "stopDisplayRead", "finalRead"}
  BY DEF ReadProcess, SharedUnchanged
<1>2. UNCHANGED <<status, ppid>> /\ Running' = Running /\ Listed' = Listed
  BY <1>1 DEF procVars, Running, Listed
<1>3. CASE watcherPc = "finalRead"
  <2>1. PICK p \in todo :
          /\ \A q \in todo : p <= q
          /\ todo' = todo \ {p}
          /\ IF Found(p) THEN tree' = tree \cup {p} ELSE UNCHANGED tree
    BY DEF ReadProcess
  <2>2. ASSUME p \in Listed
        PROVE  Found(p)
    <3>1. p \in Running /\ p \in Procs /\ pidsAtSweep \in Nat
      BY <2>2 DEF Listed, Running, TypeOK, StopTypeOK
    <3>2. ppid[p] = Runsolver \/ (ppid[p] \in Running /\ ppid[p] < p)
      BY <3>1 DEF ParentsRun, Existing, Running
    <3>3. CASE ppid[p] \in Running /\ ppid[p] < p
      <4>1. ppid[p] \in Listed
        BY <2>2, <3>1, <3>3, ProcessesAssumption DEF Listed, Running, Procs
      <4>2. ppid[p] \notin todo
        BY <2>1, <3>1, <3>3, ProcessesAssumption DEF Running, Procs
      <4> QED
        BY <1>3, <3>1, <4>1, <4>2 DEF SweepInv, Found
    <3> QED
      BY <3>1, <3>2, <3>3 DEF Found
  <2>3. Listed' \subseteq todo' \cup tree'
    BY <1>2, <1>3, <2>1, <2>2 DEF SweepInv
  <2> QED
    BY <1>1, <1>2, <1>3, <2>3 DEF SweepInv, SweepComplete
<1>4. CASE watcherPc # "finalRead"
  BY <1>1, <1>4 DEF SweepInv, Sweeping, SweepComplete
<1> QED
  BY <1>3, <1>4

LEMMA SweepKills ==
    ASSUME TypeOK, SweepInv, SignalProcess
    PROVE  SweepInv'
<1>1. PICK p \in todo :
        /\ todo' = todo \ {p}
        /\ Kill(p, IF watcherPc = "term" THEN "SIGTERM" ELSE "SIGKILL")
  BY DEF SignalProcess
<1>2. /\ UNCHANGED <<watcherPc, pidsAtSweep, tree>> /\ p \in Procs
      /\ watcherPc \in {"term", "kill", "finalKill"}
  BY <1>1 DEF SignalProcess, SharedUnchanged, TypeOK, TreeTypeOK
<1>3. Die(p) \/ UNCHANGED procVars
  BY <1>1 DEF Kill
<1>4. CASE watcherPc = "finalKill"
  <2>1. /\ \A q \in 1..pidsAtSweep : q \in Procs /\ status'[q] # "none"
        /\ Listed' \subseteq Listed
    BY <1>2, <1>3, <1>4, NoneIsListedAgain DEF SweepInv, TypeOK, Sweeping, Listed
  <2>2. p \notin Running'
    BY <1>1, <1>2, <1>4 DEF Kill, Die, Running, procVars, TypeOK, SolverTypeOK
  <2>3. Listed' \subseteq todo'
    BY <1>1, <1>4, <2>1, <2>2 DEF SweepInv, Listed
  <2> QED
    BY <1>2, <1>4, <2>1, <2>3 DEF SweepInv, SweepComplete
<1>5. CASE watcherPc # "finalKill"
  BY <1>2, <1>5 DEF SweepInv, Sweeping, SweepComplete
<1> QED
  BY <1>4, <1>5

LEMMA SweepStep ==
    ASSUME TypeOK, ParentsRun, PidsInOrder, SweepInv, [Next]_vars
    PROVE  SweepInv'
<1> USE DEF mainVars, treeVars, tickVars, termVars
<1>1. CASE WaitPid
  BY <1>1, SweepKept DEF WaitPid
<1>2. CASE Account \/ NoMoreChild \/ Report \/ SignalHandler
  BY <1>2, SweepKept DEF Account, NoMoreChild, Report, SignalHandler
<1>3. CASE SolverRuns
  BY <1>3, SweepKept DEF SolverRuns
<1>4. CASE UNCHANGED vars
  BY <1>4, SweepKept DEF vars
<1>5. CASE ReadProcess
  BY <1>5, SweepReads
<1>6. CASE SignalProcess
  BY <1>6, SweepKills
<1>7. CASE FinalList
  <2>1. /\ todo' = Existing /\ pidsAtSweep' = PidsGiven /\ UNCHANGED procVars
        /\ watcherPc' = "finalRead"
    BY <1>7 DEF FinalList, StartRead
  <2>2. \A p \in 1..pidsAtSweep' : p \in Procs /\ status'[p] # "none"
    BY <2>1, GivenPids DEF procVars
  <2>3. Listed' \subseteq todo'
    BY <2>1 DEF Listed, Running, Existing, procVars
  <2> QED
    BY <2>1, <2>2, <2>3 DEF SweepInv, SweepComplete
<1>8. CASE FinalSurvivors \/ WatcherEnds
  <2>1. UNCHANGED <<pidsAtSweep, status>> /\ Listed' = Listed
    BY <1>8 DEF FinalSurvivors, WatcherEnds, procVars, Listed, Running
  <2> QED
    BY <1>8, <2>1
       DEF FinalSurvivors, WatcherEnds, SweepInv, Sweeping, Listed, SweepComplete
<1>9. CASE Loop \/ Tick \/ UpdateProcess \/ SampleTooLate \/ CheckLimits
           \/ DisplayRereads \/ EndDisplay
  <2>1. watcherPc' \notin Sweeping
    BY <1>9 DEF Loop, Tick, UpdateProcess, SampleTooLate, CheckLimits, DisplayRereads,
                EndDisplay, Sweeping
  <2> QED
    BY <2>1 DEF SweepInv, Sweeping, SweepComplete
<1>10. CASE StopNotRequested \/ PrintReason \/ BeginTerm \/ WaitToKill \/ BeginKill
            \/ EndTerm \/ EndKill
  <2>1. watcherPc' \notin Sweeping
    BY <1>10 DEF StopNotRequested, PrintReason, BeginTerm, WaitToKill, BeginKill,
                 EndTerm, EndKill, Sweeping
  <2> QED
    BY <2>1 DEF SweepInv, Sweeping, SweepComplete
<1> QED
  BY <1>1, <1>2, <1>3, <1>4, <1>5, <1>6, <1>7, <1>8, <1>9, <1>10
     DEF Next, MainStep, WatcherStep, SampleStep, StopStep, FinalStep, Terminated

LEMMA ShapeInit == Init => ReapInv
BY ProcessesAssumption
   DEF Init, SolverInit, ReapInv, ParentsRun, PidsInOrder, AllReapedAtEnd,
       Existing, Running, Procs, Child, Runsolver

\* When the watcher thread ends, no process runs that its last look at /proc
\* could list, however the processes fork, die and are adopted meanwhile.
THEOREM SweepMissesNone == Spec => []SweepComplete
<1>1. Init => SweepInv
  BY DEF Init, SweepInv, Sweeping, SweepComplete
<1>2. TypeOK /\ ReapInv /\ [Next]_vars => ReapInv'
  BY ReapStep
<1>3. TypeOK /\ ReapInv /\ SweepInv /\ [Next]_vars => SweepInv'
  BY SweepStep DEF ReapInv
<1>4. SweepInv => SweepComplete
  BY DEF SweepInv
<1> QED
  BY <1>1, <1>2, <1>3, <1>4, ShapeInit, TypeCorrect, PTL DEF Spec
-----------------------------------------------------------------------------
(***************************************************************************)
(* CPU time.  Sums(a, c): a[n] is the CPU time c of the first n processes. *)
(* With the time of the processes that runsolver reaped, the whole of it   *)
(* is what the solver used.  Time moves from a process to its parent, that *)
(* is to a smaller pid or to runsolver, so the time below a pid never gets *)
(* less: a sample that reads the pids in order, and began with a time of   *)
(* the reaped processes read before, cannot count a second twice.          *)
(***************************************************************************)
Sums(a, c) ==
    /\ a \in [0..NProcs -> Int]
    /\ a[0] = 0
    /\ \A n \in 1..NProcs : a[n] = a[n - 1] + c[n]

Total(a) == Sums(a, cpu) /\ a[NProcs] + childrenCPU = used

\* From one state to the next the time below a pid gets no less.
Grows(a, k, b, m) == \A n \in 0..NProcs : a[n] + k <= b[n] + m

\* Each prefix sum is at most the next ones.
LEMMA SumsGrow ==
    ASSUME NEW c \in [Procs -> Nat], NEW a, Sums(a, c)
    PROVE  \A m, n \in 0..NProcs : m <= n => a[m] <= a[n]
<1>1. SUFFICES ASSUME NEW m \in 0..NProcs
               PROVE  \A n \in 0..NProcs : m <= n => a[m] <= a[n]
  OBVIOUS
<1> DEFINE S == {n \in 0..NProcs : m <= n => a[m] <= a[n]}
<1>2. \A n \in 0..NProcs : a[n] \in Int
  BY DEF Sums
<1>3. 0 \in S
  BY <1>2, ProcessesAssumption
<1>4. ASSUME NEW n \in 1..NProcs, n - 1 \in S
      PROVE  n \in S
  <2>1. n \in 0..NProcs /\ n - 1 \in 0..NProcs /\ c[n] \in Nat /\ a[n] = a[n - 1] + c[n]
    BY ProcessesAssumption DEF Sums, Procs
  <2> QED
    BY <1>2, <1>4, <2>1
<1> HIDE DEF S
<1>5. 0..NProcs \subseteq S
  BY <1>3, <1>4, Induction, ProcessesAssumption
<1> QED
  BY <1>5 DEF S

LEMMA SumOfNothing ==
    ASSUME NEW c \in [Procs -> Nat], NEW a, Sums(a, c), \A p \in Procs : c[p] = 0
    PROVE  a[NProcs] = 0
<1> DEFINE S == {n \in 0..NProcs : a[n] = 0}
<1>1. 0 \in S
  BY ProcessesAssumption DEF Sums
<1>2. ASSUME NEW n \in 1..NProcs, n - 1 \in S
      PROVE  n \in S
  BY <1>2, ProcessesAssumption DEF Sums, Procs
<1> HIDE DEF S
<1>3. 0..NProcs \subseteq S
  BY <1>1, <1>2, Induction, ProcessesAssumption
<1> QED
  BY <1>3, ProcessesAssumption DEF S

\* One process uses one unit more.
LEMMA ComputeSums ==
    ASSUME SolverTypeOK, NEW a, Total(a), NEW p \in Procs, Compute(p)
    PROVE  \E b : Total(b)' /\ Grows(a, childrenCPU, b, childrenCPU')
<1> DEFINE b == [n \in 0..NProcs |-> IF p <= n THEN a[n] + 1 ELSE a[n]]
<1>1. /\ \A n \in 0..NProcs : a[n] \in Int /\ b[n] = IF p <= n THEN a[n] + 1 ELSE a[n]
      /\ a[0] = 0 /\ \A n \in 1..NProcs : a[n] = a[n - 1] + cpu[n]
  BY DEF Total, Sums
<1>2. /\ childrenCPU' = childrenCPU /\ used' = used + 1 /\ childrenCPU \in Nat /\ used \in Int
      /\ p \in 1..NProcs /\ NProcs \in Nat
      /\ a[NProcs] + childrenCPU = used
  BY ProcessesAssumption DEF Compute, SolverTypeOK, Procs, Total
<1>7. cpu' = [cpu EXCEPT ![p] = cpu[p] + 1] /\ cpu \in [Procs -> Nat]
  BY DEF Compute, SolverTypeOK
<1>8. b \in [0..NProcs -> Int]
  BY <1>1
<1> HIDE DEF b
<1>3. b[0] = 0
  BY <1>1, <1>2
<1>4. ASSUME NEW n \in 1..NProcs
      PROVE  b[n] = b[n - 1] + cpu'[n]
  <2>1. /\ n \in 0..NProcs /\ n - 1 \in 0..NProcs /\ cpu[n] \in Nat
        /\ cpu'[n] = IF n = p THEN cpu[n] + 1 ELSE cpu[n]
    BY <1>2, <1>7 DEF Procs
  <2> QED
    BY <1>1, <1>2, <2>1
<1>5. b[NProcs] + childrenCPU' = used'
  BY <1>1, <1>2
<1>6. Grows(a, childrenCPU, b, childrenCPU')
  BY <1>1, <1>2 DEF Grows
<1> QED
  BY <1>3, <1>4, <1>5, <1>6, <1>8 DEF Total, Sums

\* The time of p moves to q, its parent.
LEMMA WaitForSums ==
    ASSUME SolverTypeOK, ParentsRun, NEW a, Total(a),
           NEW q \in Procs, NEW p \in Procs, WaitFor(q, p)
    PROVE  \E b : Total(b)' /\ Grows(a, childrenCPU, b, childrenCPU')
<1> DEFINE b == [n \in 0..NProcs |-> IF q <= n /\ n < p THEN a[n] + cpu[p] ELSE a[n]]
<1>1. /\ \A n \in 0..NProcs :
            a[n] \in Int /\ b[n] = IF q <= n /\ n < p THEN a[n] + cpu[p] ELSE a[n]
      /\ a[0] = 0 /\ \A n \in 1..NProcs : a[n] = a[n - 1] + cpu[n]
  BY DEF Total, Sums
<1>2. q < p
  BY ProcessesAssumption
     DEF WaitFor, ChildrenOf, ParentsRun, Existing, Running, Procs, Runsolver
<1>3. /\ cpu' = [cpu EXCEPT ![q] = @ + cpu[p], ![p] = 0]
      /\ childrenCPU' = childrenCPU /\ used' = used
      /\ cpu \in [Procs -> Nat] /\ childrenCPU \in Nat /\ used \in Int
      /\ p \in 1..NProcs /\ q \in 1..NProcs /\ NProcs \in Nat
      /\ a[NProcs] + childrenCPU = used
  BY ProcessesAssumption DEF WaitFor, SolverTypeOK, Procs, Total
<1>4. cpu[p] \in Nat
  BY <1>3 DEF Procs
<1>5. b \in [0..NProcs -> Int]
  BY <1>1, <1>4
<1> HIDE DEF b
<1>6. b[0] = 0
  BY <1>1, <1>3
<1>7. ASSUME NEW n \in 1..NProcs
      PROVE  b[n] = b[n - 1] + cpu'[n]
  <2>1. /\ n \in 0..NProcs /\ n - 1 \in 0..NProcs /\ cpu[n] \in Nat
        /\ cpu'[n] = IF n = p THEN 0 ELSE IF n = q THEN cpu[n] + cpu[p] ELSE cpu[n]
    BY <1>2, <1>3 DEF Procs
  <2> QED
    BY <1>1, <1>2, <1>3, <1>4, <2>1
<1>8. b[NProcs] + childrenCPU' = used'
  BY <1>1, <1>3
<1>9. Grows(a, childrenCPU, b, childrenCPU')
  BY <1>1, <1>3, <1>4 DEF Grows
<1> QED
  BY <1>5, <1>6, <1>7, <1>8, <1>9 DEF Total, Sums

\* The time of p moves to runsolver.
LEMMA ReapSums ==
    ASSUME SolverTypeOK, NEW a, Total(a), NEW p \in Procs, Reap(p)
    PROVE  \E b : Total(b)' /\ Grows(a, childrenCPU, b, childrenCPU')
<1> DEFINE b == [n \in 0..NProcs |-> IF p <= n THEN a[n] - cpu[p] ELSE a[n]]
<1>1. /\ \A n \in 0..NProcs :
            a[n] \in Int /\ b[n] = IF p <= n THEN a[n] - cpu[p] ELSE a[n]
      /\ a[0] = 0 /\ \A n \in 1..NProcs : a[n] = a[n - 1] + cpu[n]
  BY DEF Total, Sums
<1>2. /\ cpu' = [cpu EXCEPT ![p] = 0]
      /\ childrenCPU' = childrenCPU + cpu[p] /\ used' = used
      /\ cpu \in [Procs -> Nat] /\ childrenCPU \in Nat /\ used \in Int
      /\ p \in 1..NProcs /\ NProcs \in Nat
      /\ a[NProcs] + childrenCPU = used
  BY ProcessesAssumption DEF Reap, SolverTypeOK, Procs, Total
<1>3. cpu[p] \in Nat
  BY <1>2 DEF Procs
<1>4. b \in [0..NProcs -> Int]
  BY <1>1, <1>3
<1> HIDE DEF b
<1>5. b[0] = 0
  BY <1>1, <1>2
<1>6. ASSUME NEW n \in 1..NProcs
      PROVE  b[n] = b[n - 1] + cpu'[n]
  <2>1. /\ n \in 0..NProcs /\ n - 1 \in 0..NProcs /\ cpu[n] \in Nat
        /\ cpu'[n] = IF n = p THEN 0 ELSE cpu[n]
    BY <1>2 DEF Procs
  <2> QED
    BY <1>1, <1>2, <1>3, <2>1
<1>7. b[NProcs] + childrenCPU' = used'
  BY <1>1, <1>2, <1>3
<1>8. Grows(a, childrenCPU, b, childrenCPU')
  BY <1>1, <1>2, <1>3 DEF Grows
<1> QED
  BY <1>4, <1>5, <1>6, <1>7, <1>8 DEF Total, Sums

LEMMA KeptSums ==
    ASSUME SolverTypeOK, NEW a, Total(a), UNCHANGED <<cpu, childrenCPU, used>>
    PROVE  \E b : Total(b)' /\ Grows(a, childrenCPU, b, childrenCPU')
<1>1. Total(a)'
  BY DEF Total, Sums
<1>2. Grows(a, childrenCPU, a, childrenCPU')
  BY DEF Grows, Total, Sums, SolverTypeOK
<1> QED
  BY <1>1, <1>2

\* What the processes and the kernel do.
ProcStep == SolverStep \/ (\E p \in Procs : Die(p) \/ Reap(p)) \/ UNCHANGED procVars

LEMMA SumsStep ==
    ASSUME SolverTypeOK, ParentsRun, NEW a, Total(a), ProcStep
    PROVE  \E b : Total(b)' /\ Grows(a, childrenCPU, b, childrenCPU')
<1>1. CASE \E p \in Procs : Compute(p)
  BY <1>1, ComputeSums
<1>2. CASE \E p \in Procs, q \in Procs : WaitFor(p, q)
  BY <1>2, WaitForSums
<1>3. CASE \E p \in Procs : Reap(p)
  BY <1>3, ReapSums
<1>4. CASE (\E p \in Procs : Die(p) \/ \E q \in Procs : Fork(p, q)) \/ UNCHANGED procVars
  BY <1>4, KeptSums DEF Die, Fork, procVars
<1> QED
  BY <1>1, <1>2, <1>3, <1>4 DEF ProcStep, SolverStep

\* A process that does not exist has no CPU time, and what was used remains.
NoTimeOfOthers == \A p \in Procs : status[p] \in {"none", "gone"} => cpu[p] = 0

LEMMA OthersStep ==
    ASSUME SolverTypeOK, NoTimeOfOthers, ProcStep
    PROVE  NoTimeOfOthers' /\ used <= used' /\ childrenCPU <= childrenCPU'
<1> USE DEF SolverTypeOK, NoTimeOfOthers, Running
<1>1. CASE \E p \in Procs : Compute(p)
  BY <1>1 DEF Compute
<1>2. CASE \E p \in Procs, q \in Procs : WaitFor(p, q)
  <2>1. PICK p \in Procs, q \in Procs : WaitFor(p, q)
    BY <1>2
  <2>2. p # q /\ cpu[q] \in Nat /\ cpu[p] \in Nat
    BY <2>1 DEF WaitFor
  <2> QED
    BY <2>1, <2>2 DEF WaitFor
<1>3. CASE \E p \in Procs : Reap(p)
  BY <1>3 DEF Reap
<1>4. CASE \E p \in Procs : Die(p)
  BY <1>4 DEF Die
<1>5. CASE \E p \in Procs, q \in Procs : Fork(p, q)
  BY <1>5 DEF Fork
<1>6. CASE UNCHANGED procVars
  BY <1>6 DEF procVars
<1> QED
  BY <1>1, <1>2, <1>3, <1>4, <1>5, <1>6 DEF ProcStep, SolverStep

Sampling == {"read", "update", "displayRead", "stopDisplayRead", "finalRead"}

\* The sample counts no more than the time below the pid that is read next.
SampledBelow(a) == \A q \in todo : treeCPU + treeCompleted <= a[q - 1] + childrenCPU

CPUInv ==
    /\ \E a : Total(a) /\ (watcherPc \in Sampling => SampledBelow(a))
    /\ SampleNotOvercounted /\ NoTimeOfOthers
    /\ treeCompleted <= childrenCPU /\ completedCPUTime <= childrenCPU
    /\ mainPc # "account" => completedCPUTime = childrenCPU

\* The processes move on, or nothing that CPUInv is about changes.
LEMMA CPUKept ==
    ASSUME TypeOK, TypeOK', ParentsRun, CPUInv, ProcStep,
           UNCHANGED <<treeCPU, treeCompleted, completedCPUTime>>,
           watcherPc' \in Sampling => watcherPc \in Sampling /\ todo' = todo,
           mainPc' # "account" => mainPc # "account" /\ UNCHANGED childrenCPU
    PROVE  CPUInv'
<1>1. PICK a : Total(a) /\ (watcherPc \in Sampling => SampledBelow(a))
  BY DEF CPUInv
<1>2. PICK b : Total(b)' /\ Grows(a, childrenCPU, b, childrenCPU')
  BY <1>1, SumsStep DEF TypeOK
<1>3. /\ treeCPU \in Nat /\ treeCompleted \in Nat /\ completedCPUTime \in Nat
      /\ childrenCPU \in Nat /\ childrenCPU' \in Nat /\ used \in Int /\ used' \in Int
      /\ todo \in SUBSET Procs
  BY DEF TypeOK, TreeTypeOK, MainTypeOK, SolverTypeOK
<1>4. ASSUME watcherPc' \in Sampling
      PROVE  SampledBelow(b)'
  <2>1. SUFFICES ASSUME NEW q \in todo
                 PROVE  treeCPU + treeCompleted <= b[q - 1] + childrenCPU'
    BY <1>4 DEF SampledBelow
  <2>2. q - 1 \in 0..NProcs
    BY <1>3, ProcessesAssumption DEF Procs
  <2>3. treeCPU + treeCompleted <= a[q - 1] + childrenCPU
    BY <1>1, <1>4 DEF SampledBelow
  <2>4. a[q - 1] \in Int /\ b[q - 1] \in Int
    BY <1>1, <1>2, <2>2 DEF Total, Sums
  <2>5. a[q - 1] + childrenCPU <= b[q - 1] + childrenCPU'
    BY <1>2, <2>2 DEF Grows
  <2> QED
    BY <1>3, <2>3, <2>4, <2>5
<1>5. NoTimeOfOthers' /\ used <= used' /\ childrenCPU <= childrenCPU'
  BY OthersStep DEF CPUInv, TypeOK
<1>6. SampleNotOvercounted'
  BY <1>3, <1>5 DEF CPUInv, SampleNotOvercounted
<1>7. /\ treeCompleted' <= childrenCPU' /\ completedCPUTime' <= childrenCPU'
      /\ mainPc' # "account" => completedCPUTime' = childrenCPU'
  BY <1>3, <1>5 DEF CPUInv
<1> QED
  BY <1>2, <1>4, <1>5, <1>6, <1>7 DEF CPUInv

\* The main thread publishes the time of the reaped processes.
LEMMA CPUAccounted ==
    ASSUME TypeOK, CPUInv, Account
    PROVE  CPUInv'
<1>1. PICK a : Total(a) /\ (watcherPc \in Sampling => SampledBelow(a))
  BY DEF CPUInv
<1>2. /\ completedCPUTime' = childrenCPU
      /\ UNCHANGED <<status, cpu, childrenCPU, used, treeCPU, treeCompleted, todo, watcherPc>>
      /\ childrenCPU \in Nat
  BY DEF Account, procVars, treeVars, TypeOK, SolverTypeOK
<1>3. Total(a)' /\ (watcherPc' \in Sampling => SampledBelow(a)')
  BY <1>1, <1>2 DEF Total, Sums, SampledBelow
<1>4. SampleNotOvercounted' /\ NoTimeOfOthers'
  BY <1>2 DEF CPUInv, SampleNotOvercounted, NoTimeOfOthers
<1> QED
  BY <1>2, <1>3, <1>4 DEF CPUInv

LEMMA AtMost == \A x, y, z \in Int : x <= y /\ y <= z => x <= z
OBVIOUS

LEMMA NothingMore == \A x, y, z \in Int : x = 0 /\ y <= z => x + y <= z
OBVIOUS

\* A sample begins, with a time of the reaped processes that was read before.
LEMMA SampleBegins ==
    ASSUME TypeOK, CPUInv, UNCHANGED <<procVars, mainVars>>, TreeTypeOK', treeCPU' = 0,
           treeCompleted' \in {treeCompleted, completedCPUTime}
    PROVE  CPUInv'
<1>1. PICK a : Total(a)
  BY DEF CPUInv
<1>2. /\ treeCPU' \in Int
      /\ treeCompleted' <= childrenCPU /\ treeCompleted' \in Nat /\ childrenCPU \in Nat
      /\ todo' \in SUBSET Procs /\ used \in Int
  BY DEF CPUInv, TypeOK, TreeTypeOK, MainTypeOK, SolverTypeOK
<1>3. UNCHANGED <<status, cpu, childrenCPU, used, completedCPUTime, mainPc>>
  BY DEF procVars, mainVars
<1>4. \A n \in 0..NProcs : a[n] \in Int /\ 0 <= a[n]
  <2>1. cpu \in [Procs -> Nat] /\ Sums(a, cpu)
    BY <1>1 DEF Total, TypeOK, SolverTypeOK
  <2>2. \A m, n \in 0..NProcs : m <= n => a[m] <= a[n]
    BY <2>1, SumsGrow
  <2>3. a[0] = 0 /\ \A n \in 0..NProcs : a[n] \in Int
    BY <2>1 DEF Sums
  <2> QED
    BY <2>2, <2>3, ProcessesAssumption
<1>5. SampledBelow(a)'
  <2>1. SUFFICES ASSUME NEW q \in todo'
                 PROVE  treeCPU' + treeCompleted' <= a[q - 1] + childrenCPU
    BY <1>3 DEF SampledBelow
  <2>2. q - 1 \in 0..NProcs
    BY <1>2, ProcessesAssumption DEF Procs
  <2> QED
    BY <1>2, <1>4, <2>2
<1>6. Total(a)'
  BY <1>1, <1>3 DEF Total, Sums
<1>7. SampleNotOvercounted'
  <2>1. a[NProcs] \in Int /\ 0 <= a[NProcs] /\ a[NProcs] + childrenCPU = used
    BY <1>1, <1>4, ProcessesAssumption DEF Total
  <2>2. childrenCPU <= used
    BY <1>2, <2>1
  <2>3. treeCompleted' <= used
    BY <1>2, <2>2, AtMost
  <2>4. treeCPU' + treeCompleted' <= used
    <3>1. treeCompleted' \in Int /\ used \in Int
      BY <1>2
    <3> QED
      BY <1>2, <2>3, <3>1, NothingMore, Zenon
  <2> QED
    BY <1>3, <2>4 DEF SampleNotOvercounted
<1>8. NoTimeOfOthers'
  BY <1>3 DEF CPUInv, NoTimeOfOthers
<1> QED
  BY <1>2, <1>3, <1>5, <1>6, <1>7, <1>8 DEF CPUInv

\* The next process is read, and may count.
LEMMA SampleReads ==
    ASSUME TypeOK, CPUInv, UNCHANGED <<procVars, mainVars, treeCompleted>>,
           watcherPc \in Sampling, NEW p \in todo, \A q \in todo : p <= q,
           todo' = todo \ {p}, treeCPU' \in {treeCPU, treeCPU + cpu[p]}
    PROVE  CPUInv'
<1>1. PICK a : Total(a) /\ SampledBelow(a)
  BY DEF CPUInv
<1>2. /\ treeCPU \in Nat /\ treeCompleted \in Nat /\ childrenCPU \in Nat /\ used \in Int
      /\ todo \in SUBSET Procs /\ cpu \in [Procs -> Nat]
      /\ p \in 1..NProcs /\ NProcs \in Nat /\ cpu[p] \in Nat
  BY ProcessesAssumption DEF TypeOK, TreeTypeOK, SolverTypeOK, Procs
<1>3. UNCHANGED <<status, cpu, childrenCPU, used, completedCPUTime, mainPc,
                  treeCompleted>>
  BY DEF procVars, mainVars
<1>4. /\ \A m, n \in 0..NProcs : m <= n => a[m] <= a[n]
      /\ \A n \in 0..NProcs : a[n] \in Int
  BY <1>1, <1>2, SumsGrow DEF Total, Sums
<1>5. treeCPU' + treeCompleted <= a[p] + childrenCPU /\ treeCPU' \in Nat
  <2>1. treeCPU + treeCompleted <= a[p - 1] + childrenCPU /\ a[p] = a[p - 1] + cpu[p]
    BY <1>1, <1>2 DEF SampledBelow, Total, Sums
  <2>2. a[p - 1] \in Int /\ a[p] \in Int
    BY <1>2, <1>4
  <2> QED
    BY <1>2, <2>1, <2>2
<1>6. SampledBelow(a)'
  <2>1. SUFFICES ASSUME NEW q \in todo, q # p
                 PROVE  treeCPU' + treeCompleted <= a[q - 1] + childrenCPU
    BY <1>3 DEF SampledBelow
  <2>2. q - 1 \in 0..NProcs /\ p \in 0..NProcs /\ p <= q - 1
    BY <1>2, <2>1 DEF Procs
  <2>3. a[p] <= a[q - 1] /\ a[p] \in Int /\ a[q - 1] \in Int
    BY <1>4, <2>2
  <2> QED
    BY <1>2, <1>5, <2>3
<1>7. Total(a)'
  BY <1>1, <1>3 DEF Total, Sums
<1>8. SampleNotOvercounted'
  <2>1. a[p] <= a[NProcs] /\ a[p] \in Int /\ a[NProcs] \in Int
    BY <1>2, <1>4
  <2>2. a[NProcs] + childrenCPU = used
    BY <1>1 DEF Total
  <2>3. a[p] + childrenCPU <= used
    BY <1>2, <2>1, <2>2
  <2>4. treeCPU' + treeCompleted \in Int /\ a[p] + childrenCPU \in Int
    BY <1>2, <1>5, <2>1
  <2>5. treeCPU' + treeCompleted <= used
    BY <1>2, <1>5, <2>3, <2>4, AtMost
  <2> QED
    BY <1>3, <2>5 DEF SampleNotOvercounted
<1>9. NoTimeOfOthers'
  BY <1>3 DEF CPUInv, NoTimeOfOthers
<1> QED
  BY <1>3, <1>6, <1>7, <1>8, <1>9 DEF CPUInv

LEMMA CPUStep ==
    ASSUME TypeOK, TypeOK', ParentsRun, CPUInv, [Next]_vars
    PROVE  CPUInv'
<1> USE DEF mainVars, treeVars, tickVars, termVars, SharedUnchanged
<1>1. CASE WaitPid
  BY <1>1, CPUKept DEF WaitPid, ProcStep
<1>2. CASE Account
  BY <1>2, CPUAccounted
<1>3. CASE NoMoreChild \/ Report \/ SignalHandler
  BY <1>3, CPUKept DEF NoMoreChild, Report, SignalHandler, ProcStep, procVars
<1>4. CASE SolverRuns
  <2>1. ProcStep /\ UNCHANGED childrenCPU
    BY <1>4 DEF SolverRuns, ProcStep, SolverStep, Compute, Die, Fork, WaitFor
  <2> QED
    BY <1>4, <2>1, CPUKept DEF SolverRuns
<1>5. CASE SignalProcess
  <2>1. PICK p \in todo, sig \in {"SIGTERM", "SIGKILL"} : Kill(p, sig)
    BY <1>5 DEF SignalProcess
  <2>2. ProcStep /\ UNCHANGED childrenCPU
    BY <2>1 DEF Kill, ProcStep, Die, procVars, TypeOK, TreeTypeOK
  <2> QED
    BY <1>5, <2>2, CPUKept DEF SignalProcess, Sampling
<1>6. CASE ReadProcess
  <2>1. PICK p \in todo :
          /\ \A q \in todo : p <= q
          /\ todo' = todo \ {p}
          /\ IF Found(p) THEN treeCPU' = treeCPU + cpu[p] ELSE treeCPU' = treeCPU
    BY <1>6 DEF ReadProcess
  <2> QED
    BY <1>6, <2>1, SampleReads DEF ReadProcess, Sampling
<1>7. CASE UpdateProcess
  <2>1. PICK p \in todo :
          /\ \A q \in todo : p <= q
          /\ \/ todo' = todo \ {p} /\ treeCPU' \in {treeCPU, treeCPU + cpu[p]}
             \/ StartRead
    BY <1>7 DEF UpdateProcess
  <2>2. CASE StartRead
    BY <1>7, <2>2, SampleBegins DEF UpdateProcess, StartRead, TypeOK
  <2>3. CASE todo' = todo \ {p} /\ treeCPU' \in {treeCPU, treeCPU + cpu[p]}
    BY <1>7, <2>1, <2>3, SampleReads DEF UpdateProcess, Sampling
  <2> QED
    BY <2>1, <2>2, <2>3
<1>8. CASE Tick
  BY <1>8, SampleBegins DEF Tick, StartRead, StartUpdate, TypeOK
<1>9. CASE DisplayRereads \/ FinalList
  BY <1>9, SampleBegins DEF DisplayRereads, FinalList, StartRead, TypeOK
<1>10. CASE Loop \/ SampleTooLate \/ CheckLimits \/ EndDisplay
  BY <1>10, CPUKept
     DEF Loop, SampleTooLate, CheckLimits, EndDisplay, Sampling, ProcStep, procVars
<1>11. CASE StopNotRequested \/ PrintReason \/ BeginTerm \/ WaitToKill \/ BeginKill
            \/ EndTerm \/ EndKill
  BY <1>11, CPUKept
     DEF StopNotRequested, PrintReason, BeginTerm, WaitToKill, BeginKill, EndTerm,
         EndKill, Sampling, ProcStep, procVars
<1>12. CASE FinalSurvivors \/ WatcherEnds
  BY <1>12, CPUKept DEF FinalSurvivors, WatcherEnds, Sampling, ProcStep, procVars
<1>13. CASE UNCHANGED vars
  BY <1>13, CPUKept DEF vars, ProcStep, procVars
<1> QED
  BY <1>1, <1>2, <1>3, <1>4, <1>5, <1>6, <1>7, <1>8, <1>9, <1>10, <1>11, <1>12,
     <1>13 DEF Next, MainStep, WatcherStep, SampleStep, StopStep, FinalStep, Terminated

LEMMA CPUInit == Init => CPUInv
<1> SUFFICES ASSUME Init PROVE CPUInv
  OBVIOUS
<1> DEFINE a == [n \in 0..NProcs |-> 0]
<1>1. /\ cpu = [p \in Procs |-> 0] /\ childrenCPU = 0 /\ used = 0
      /\ treeCPU = 0 /\ treeCompleted = 0 /\ completedCPUTime = 0
      /\ watcherPc = "loop" /\ mainPc = "wait"
  BY DEF Init, SolverInit
<1>2. Total(a)
  BY <1>1, ProcessesAssumption DEF Total, Sums, Procs
<1>3. SampleNotOvercounted /\ NoTimeOfOthers
  BY <1>1 DEF SampleNotOvercounted, NoTimeOfOthers
<1> QED
  BY <1>1, <1>2, <1>3 DEF CPUInv, Sampling

LEMMA CPUIsComplete ==
    ASSUME TypeOK, AllReapedAtEnd, CPUInv
    PROVE  CPUComplete
<1> SUFFICES ASSUME mainPc \in {"join", "done"} PROVE completedCPUTime = used
  BY DEF CPUComplete
<1>1. PICK a : Total(a)
  BY DEF CPUInv
<1>2. \A p \in Procs : cpu[p] = 0
  BY DEF AllReapedAtEnd, Existing, CPUInv, NoTimeOfOthers, TypeOK, SolverTypeOK
<1>3. cpu \in [Procs -> Nat] /\ Sums(a, cpu) /\ a[NProcs] + childrenCPU = used
  BY <1>1 DEF Total, TypeOK, SolverTypeOK
<1>4. a[NProcs] = 0
  BY <1>2, <1>3, SumOfNothing
<1> QED
  BY <1>3, <1>4 DEF CPUInv, TypeOK, SolverTypeOK, MainTypeOK

LEMMA CPUAlways == Spec => []CPUInv
<1>1. TypeOK /\ ReapInv /\ [Next]_vars => ReapInv'
  BY ReapStep
<1>2. TypeOK /\ TypeOK' /\ ReapInv /\ CPUInv /\ [Next]_vars => CPUInv'
  BY CPUStep DEF ReapInv
<1> QED
  BY <1>1, <1>2, ShapeInit, CPUInit, TypeCorrect, PTL DEF Spec

\* The CPU time of the report is all the time that the solver used, that of
\* processes which runsolver adopted included, in whatever order they die.
THEOREM ReportIsComplete == Spec => []CPUComplete
<1>1. TypeOK /\ AllReapedAtEnd /\ CPUInv => CPUComplete
  BY CPUIsComplete
<1> QED
  BY <1>1, CPUAlways, AllReaped, TypeCorrect, PTL

\* No sample counts a second twice, though /proc changes while it is read, and
\* the time of the reaped processes was read by another thread before.
THEOREM SampleIsBounded == Spec => []SampleNotOvercounted
<1>1. CPUInv => SampleNotOvercounted
  BY DEF CPUInv
<1> QED
  BY <1>1, CPUAlways, PTL
=============================================================================
