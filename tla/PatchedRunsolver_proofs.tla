---------------------- MODULE PatchedRunsolver_proofs ----------------------
(***************************************************************************)
(* Proofs about PatchedRunsolver, for any solver and any limits:           *)
(*   OneUser   the tree and the CPU times, which have no lock, have one    *)
(*             user at a time;                                             *)
(*   Killed    no process of the group of the solver outlives runsolver;   *)
(*   Reported  a timeout that was announced is also in the report;         *)
(*   NothingInvented  the times that are announced and reported were used, *)
(*             unless a sample was torn.                                   *)
(***************************************************************************)
EXTENDS PatchedRunsolver, SequenceLemmas

\* What main has not created yet.
BeforeTimer == FlagNames \cup {"install", "fork", "parent", "createTimer"}
BeforeStopper == BeforeTimer \cup {"createStopper"}

StopperWaits == pc["stopper"] \in {"none", "waitDispatch", "waitTimer"}

\* The flag timerThreadStopped is what separates the timer from the stopper;
\* pthread_join() separates both from the report.
Turns ==
    /\ pc["main"] \in BeforeTimer => pc["timer"] = "none"
    /\ pc["main"] \in BeforeStopper => pc["stopper"] = "none"
    /\ flag["timerThreadStopped"] => pc["timer"] = "ended"
    /\ StopperWaits \/ pc["timer"] = "ended"
    /\ pc["main"] \in {"joinStamper", "joinStopper", "fallback", "report", "ended"}
         => pc["timer"] = "ended"
    /\ pc["main"] \in {"fallback", "report", "ended"} => pc["stopper"] = "ended"

ThreadsOK == pc = [t \in Threads |-> pc[t]] /\ flag \in [FlagNames -> BOOLEAN]

LEMMA TurnsSuffice == ThreadsOK /\ Turns => OneUserOfTree
BY DEF FlagNames, ThreadsOK, Turns, OneUserOfTree, UsesTree, UsingTree, Sampling, StopperWaits, BeforeTimer,
       BeforeStopper

LEMMA TurnsInit == Init => ThreadsOK /\ Turns
BY DEF FlagNames, Init, ThreadsOK, Turns, Threads, StopperWaits, BeforeTimer, BeforeStopper

LEMMA BackIs ==
    /\ Back["main"] = "shutdown" /\ Back["handler"] = "returned"
    /\ Back["timer"] = "sampled" /\ Back["stopper"] = "sampled"
BY DEF Back

\* stopSolver() moves a thread to a place that no conjunct of Turns is about.
LEMMA StopSolverTurns ==
    ASSUME ThreadsOK, Turns, NEW t \in Threads, StopSolver(t)
    PROVE  ThreadsOK' /\ Turns'
<1> USE DEF FlagNames, ThreadsOK, Turns, Threads, StopperWaits, BeforeTimer, BeforeStopper
<1>1. CASE CompareAndSet(t)
  <2>1. CASE flag["stopSolverInvokedByCaller"]
    <3>1. flag' = flag /\ pc[t] = "cas" /\ pc' = [pc EXCEPT ![t] = Back[t]]
      BY <1>1, <2>1 DEF CompareAndSet, At, Goto
    <3> QED
      BY <3>1, BackIs
  <2>2. CASE ~flag["stopSolverInvokedByCaller"]
    <3>1. /\ pc[t] = "cas" /\ pc' = [pc EXCEPT ![t] = "stopTimer"]
          /\ flag' = [flag EXCEPT !["stopSolverInvokedByCaller"] = TRUE]
      BY <1>1, <2>2 DEF CompareAndSet, At, Goto, SetFlag
    <3> QED
      BY <3>1
  <2> QED
    BY <2>1, <2>2
<1>2. CASE StopTimer(t)
  BY <1>2 DEF StopTimer, At, Goto, SetFlag
<1>3. CASE Dispatch(t)
  <2>1. /\ pc[t] = "dispatch" /\ pc' = [pc EXCEPT ![t] = Back[t]]
        /\ flag' = [flag EXCEPT !["stopSolverShouldExecute"] = TRUE]
    BY <1>3 DEF Dispatch, At, Goto, SetFlag
  <2> QED
    BY <2>1, BackIs
<1> QED
  BY <1>1, <1>2, <1>3 DEF StopSolver

\* A sample is read to its end by the thread that began it.
LEMMA SampleTurns ==
    ASSUME ThreadsOK, Turns, NEW t \in {"timer", "stopper"},
           ReadProcess(t) \/ ReadVanished(t) \/ DropSample(t) \/ KeepSample(t)
    PROVE  ThreadsOK' /\ Turns'
<1> USE DEF FlagNames, ThreadsOK, Turns, Threads, StopperWaits, BeforeTimer, BeforeStopper
<1>1. CASE ReadProcess(t) \/ ReadVanished(t)
  BY <1>1 DEF ReadProcess, ReadVanished
<1>2. CASE DropSample(t)
  BY <1>2 DEF DropSample, At, Goto
<1>3. CASE KeepSample(t)
  <2>1. /\ pc[t] = "read" /\ flag' = flag
        /\ \E l \in {"cas", "sampled"} : pc' = [pc EXCEPT ![t] = l]
    BY <1>3 DEF KeepSample, At, Goto
  <2> QED
    BY <2>1
<1> QED
  BY <1>1, <1>2, <1>3

LEMMA TimerTurns ==
    ASSUME ThreadsOK, Turns, TimerThread
    PROVE  ThreadsOK' /\ Turns'
<1> USE DEF FlagNames, ThreadsOK, Turns, Threads, StopperWaits, BeforeTimer, BeforeStopper
<1>1. CASE TimerChecks
  BY <1>1 DEF TimerChecks, At, Goto
<1>2. CASE TimerWakesUp
  <2>1. /\ pc["timer"] = "sleep" /\ flag' = flag
        /\ \E l \in {"leave", "read"} : pc' = [pc EXCEPT !["timer"] = l]
    BY <1>2 DEF TimerWakesUp, StartSample, At, Goto
  <2> QED
    BY <2>1
<1>3. CASE TimerSampled
  BY <1>3 DEF TimerSampled, At, Goto
<1>4. CASE TimerSeesEnd
  BY <1>4 DEF TimerSeesEnd, At, Goto, SetFlag
<1>5. CASE TimerLeaves
  BY <1>5 DEF TimerLeaves, At, Goto, SetFlag
<1>6. CASE ReadProcess("timer") \/ ReadVanished("timer") \/ DropSample("timer") \/ KeepSample("timer")
  BY <1>6, SampleTurns
<1>7. CASE StopSolver("timer")
  BY <1>7, StopSolverTurns
<1> QED
  BY <1>1, <1>2, <1>3, <1>4, <1>5, <1>6, <1>7 DEF TimerThread

LEMMA StopperTurns ==
    ASSUME ThreadsOK, Turns, StopperThread
    PROVE  ThreadsOK' /\ Turns'
<1> USE DEF FlagNames, ThreadsOK, Turns, Threads, StopperWaits, BeforeTimer, BeforeStopper
<1>1. CASE WaitForDispatch
  BY <1>1 DEF WaitForDispatch, At, Goto
<1>2. CASE WaitForTimer
  BY <1>2 DEF WaitForTimer, StartSample, At, Goto
<1>3. CASE StopperSampled
  BY <1>3 DEF StopperSampled, At, Goto
<1>4. CASE SendTerm
  BY <1>4 DEF SendTerm, At, Goto
<1>5. CASE Sleep
  BY <1>5 DEF Sleep, At, Goto
<1>6. CASE StartKilling
  <2>1. /\ pc["stopper"] = "awake" /\ flag' = flag
        /\ \E l \in {"kill", "ended"} : pc' = [pc EXCEPT !["stopper"] = l]
    BY <1>6 DEF StartKilling, At, Goto
  <2> QED
    BY <2>1
<1>7. CASE KillProcess
  BY <1>7 DEF KillProcess
<1>8. CASE KillGroup
  BY <1>8 DEF KillGroup, At, Goto
<1>9. CASE ReadProcess("stopper") \/ ReadVanished("stopper") \/ DropSample("stopper") \/ KeepSample("stopper")
  BY <1>9, SampleTurns
<1>10. CASE StopSolver("stopper")
  BY <1>10, StopSolverTurns
<1> QED
  BY <1>1, <1>2, <1>3, <1>4, <1>5, <1>6, <1>7, <1>8, <1>9, <1>10 DEF StopperThread

LEMMA MainTurns ==
    ASSUME ThreadsOK, Turns, MainThread
    PROVE  ThreadsOK' /\ Turns'
<1> USE DEF FlagNames, ThreadsOK, Turns, Threads, StopperWaits, BeforeTimer, BeforeStopper
<1>1. CASE InstallSignalHandler
  BY <1>1 DEF InstallSignalHandler, At, Flags
<1>2. CASE InitFlag
  <2>1. PICK i \in 1..5 :
          /\ pc["main"] = Flags[i] /\ flag' = [flag EXCEPT ![Flags[i]] = FALSE]
          /\ pc' = [pc EXCEPT !["main"] = IF i = 5 THEN "fork" ELSE Flags[i + 1]]
    BY <1>2 DEF InitFlag, At, Goto, SetFlag
  <2>2. i \in {1, 2, 3, 4, 5}
    OBVIOUS
  <2>3. pc["main"] \in FlagNames /\ pc'["main"] \in FlagNames \cup {"fork"}
    BY <2>1, <2>2 DEF Flags
  <2>4. \A t \in Threads \ {"main"} : pc'[t] = pc[t]
    BY <2>1
  <2>5. flag' \in [FlagNames -> BOOLEAN] /\ \A f \in FlagNames : flag'[f] => flag[f]
    BY <2>1
  <2>6. pc' = [t \in Threads |-> pc'[t]]
    BY <2>1, <2>3
  <2> QED
    BY <2>3, <2>4, <2>5, <2>6
<1>3. CASE ForkSolver
  BY <1>3 DEF ForkSolver, At, Goto
<1>4. CASE Parent
  BY <1>4 DEF Parent, At, Goto, SetFlag
<1>5. CASE CreateTimer
  BY <1>5 DEF CreateTimer, At
<1>6. CASE CreateStopper
  BY <1>6 DEF CreateStopper, At
<1>7. CASE Wait4
  BY <1>7 DEF Wait4, At, Goto
<1>8. CASE ShutTimerDown
  BY <1>8 DEF ShutTimerDown, At, Goto, SetFlag
<1>9. CASE NotRunning
  BY <1>9 DEF NotRunning, At, Goto, SetFlag
<1>10. CASE Join
  BY <1>10 DEF Join, At, Goto
<1>11. CASE FallbackKill
  BY <1>11 DEF FallbackKill, At, Goto
<1>12. CASE Report
  BY <1>12 DEF Report, At, Goto
<1>13. CASE StopSolver("main")
  BY <1>13, StopSolverTurns
<1> QED
  BY <1>1, <1>2, <1>3, <1>4, <1>5, <1>6, <1>7, <1>8, <1>9, <1>10, <1>11, <1>12, <1>13
  DEF MainThread

LEMMA TurnsStep ==
    ASSUME ThreadsOK, Turns, [Next]_vars
    PROVE  ThreadsOK' /\ Turns'
<1>1. CASE (flag' = flag /\ pc' = pc)
  BY <1>1 DEF ThreadsOK, Turns, StopperWaits
<1>2. CASE Signal
  BY <1>2
     DEF FlagNames, Signal, At, Goto, ThreadsOK, Turns, Threads, StopperWaits
<1>3. CASE HandleSignal
  BY <1>3
     DEF FlagNames, HandleSignal, At, Goto, SetFlag, ThreadsOK, Turns, Threads, StopperWaits
<1>4. CASE StopSolver("handler")
  BY <1>4, StopSolverTurns DEF Threads
<1>5. Solver \/ UNCHANGED vars => flag' = flag /\ pc' = pc
  BY DEF Solver, SystemStep, vars
<1> QED
  BY <1>1, <1>2, <1>3, <1>4, <1>5, TimerTurns, StopperTurns, MainTurns
  DEF Next, HandlerThread

\* The timer, the stopper and the report never use the tree and the CPU times
\* at the same time (waitAndKillSolver() and run(), runsolver.cc).
THEOREM OneUser == Spec => []OneUserOfTree
<1>1. Init => ThreadsOK /\ Turns
  BY TurnsInit
<1>2. (ThreadsOK /\ Turns) /\ [Next]_vars => (ThreadsOK /\ Turns)'
  BY TurnsStep
<1>3. ThreadsOK /\ Turns => OneUserOfTree
  BY TurnsSuffice
<1> QED
  BY <1>1, <1>2, <1>3, PTL DEF Spec
-----------------------------------------------------------------------------
\* Every other step leaves the processes and the times alone, and does not
\* bring main to its last two places.
Final == {"report", "ended"}
Quiet ==
    /\ UNCHANGED <<status, group, timeVars, mainVars>>
    /\ pc'["main"] = pc["main"] \/ (pc["main"] \notin Final /\ pc'["main"] \notin Final)

LEMMA StopSolverQuiet ==
    ASSUME ThreadsOK, NEW t \in Threads, StopSolver(t)
    PROVE  Quiet
<1> USE DEF ThreadsOK, Threads, Quiet, Final, solverVars
<1>1. /\ UNCHANGED <<status, group, timeVars, mainVars>>
      /\ pc[t] \in {"cas", "stopTimer", "dispatch"}
      /\ \E l \in {"stopTimer", "dispatch", Back[t]} : pc' = [pc EXCEPT ![t] = l]
  BY DEF StopSolver, CompareAndSet, StopTimer, Dispatch, At, Goto
<1> QED
  BY <1>1, BackIs

LEMMA TimerQuiet ==
    ASSUME ThreadsOK, TimerThread
    PROVE  Quiet \/ KeepSample("timer")
<1> USE DEF ThreadsOK, Threads, Quiet, Final, solverVars
<1>1. CASE TimerChecks
  BY <1>1 DEF TimerChecks, At, Goto
<1>2. CASE TimerWakesUp
  BY <1>2 DEF TimerWakesUp, StartSample, At, Goto
<1>3. CASE TimerSampled \/ TimerSeesEnd \/ TimerLeaves
  BY <1>3 DEF TimerSampled, TimerSeesEnd, TimerLeaves, At, Goto
<1>4. CASE ReadProcess("timer") \/ ReadVanished("timer") \/ DropSample("timer")
  BY <1>4 DEF ReadProcess, ReadVanished, DropSample, At, Goto
<1>5. CASE StopSolver("timer")
  BY <1>5, StopSolverQuiet
<1> QED
  BY <1>1, <1>2, <1>3, <1>4, <1>5 DEF TimerThread

LEMMA StopperQuiet ==
    ASSUME ThreadsOK, StopperThread
    PROVE  Quiet \/ KeepSample("stopper") \/ KillProcess \/ KillGroup
<1> USE DEF ThreadsOK, Threads, Quiet, Final, solverVars
<1>1. CASE WaitForDispatch \/ StopperSampled \/ SendTerm \/ Sleep
  BY <1>1 DEF WaitForDispatch, StopperSampled, SendTerm, Sleep, At, Goto
<1>2. CASE WaitForTimer
  BY <1>2 DEF WaitForTimer, StartSample, At, Goto
<1>3. CASE StartKilling
  BY <1>3 DEF StartKilling, At, Goto
<1>4. CASE ReadProcess("stopper") \/ ReadVanished("stopper") \/ DropSample("stopper")
  BY <1>4 DEF ReadProcess, ReadVanished, DropSample, At, Goto
<1>5. CASE StopSolver("stopper")
  BY <1>5, StopSolverQuiet
<1> QED
  BY <1>1, <1>2, <1>3, <1>4, <1>5 DEF StopperThread

LEMMA MainQuiet ==
    ASSUME ThreadsOK, MainThread
    PROVE  Quiet \/ ForkSolver \/ Wait4 \/ FallbackKill \/ Report
<1> USE DEF ThreadsOK, Threads, Quiet, Final, solverVars
<1>1. CASE InstallSignalHandler
  BY <1>1 DEF InstallSignalHandler, At, Flags
<1>2. CASE InitFlag
  <2>1. PICK i \in 1..5 :
          /\ pc["main"] = Flags[i]
          /\ pc' = [pc EXCEPT !["main"] = IF i = 5 THEN "fork" ELSE Flags[i + 1]]
    BY <1>2 DEF InitFlag, At, Goto
  <2>2. i \in {1, 2, 3, 4, 5}
    OBVIOUS
  <2>3. pc["main"] \notin Final /\ pc'["main"] \notin Final
    BY <2>1, <2>2 DEF Flags
  <2> QED
    BY <1>2, <2>3 DEF InitFlag
<1>3. CASE Parent \/ ShutTimerDown \/ NotRunning
  BY <1>3 DEF Parent, ShutTimerDown, NotRunning, At, Goto
<1>4. CASE CreateTimer \/ CreateStopper
  BY <1>4 DEF CreateTimer, CreateStopper, At
<1>5. CASE Join
  BY <1>5 DEF Join, At, Goto
<1>6. CASE StopSolver("main")
  BY <1>6, StopSolverQuiet
<1> QED
  BY <1>1, <1>2, <1>3, <1>4, <1>5, <1>6 DEF MainThread

LEMMA LoudSteps ==
    ASSUME ThreadsOK, [Next]_vars
    PROVE  \/ Quiet \/ Solver
           \/ KeepSample("timer") \/ KeepSample("stopper") \/ KillProcess \/ KillGroup
           \/ ForkSolver \/ Wait4 \/ FallbackKill \/ Report
<1> USE DEF ThreadsOK, Threads, Quiet, Final, solverVars
<1>1. CASE Signal \/ HandleSignal
  BY <1>1 DEF Signal, HandleSignal, At, Goto
<1>2. CASE StopSolver("handler")
  BY <1>2, StopSolverQuiet
<1>3. CASE UNCHANGED vars
  BY <1>3 DEF vars
<1> QED
  BY <1>1, <1>2, <1>3, TimerQuiet, StopperQuiet, MainQuiet DEF Next, HandlerThread
-----------------------------------------------------------------------------
\* After the last kill no process of the group runs, and a process enters the
\* group only as the child of one that runs in it.
GroupOK ==
    /\ status = [p \in Procs |-> status[p]]
    /\ group \subseteq Procs /\ \A p \in group : status[p] # "none"
    /\ pc["main"] \in Final => \A p \in group : status[p] # "running"

LEMMA GroupSolver ==
    ASSUME GroupOK, Solver
    PROVE  GroupOK'
<1> USE DEF GroupOK, Final, Running
<1>1. pc' = pc /\ pc["main"] # "ended"
  BY DEF Solver, SystemStep
<1>2. PICK p \in Procs : \/ Compute(p) \/ Exit(p) \/ Vanish(p) \/ SetSession(p)
                         \/ \E q \in Procs : Fork(p, q) \/ WaitFor(p, q)
  BY DEF Solver
<1>3. CASE Compute(p) \/ SetSession(p)
  BY <1>1, <1>3 DEF Compute, SetSession
<1>4. CASE Exit(p)
  BY <1>1, <1>4 DEF Exit, Ended
<1>5. CASE Vanish(p)
  BY <1>1, <1>5 DEF Vanish
<1>6. ASSUME NEW q \in Procs, Fork(p, q)
      PROVE  GroupOK'
  BY <1>1, <1>6 DEF Fork
<1>7. ASSUME NEW q \in Procs, WaitFor(p, q)
      PROVE  GroupOK'
  BY <1>1, <1>7 DEF WaitFor
<1> QED
  BY <1>2, <1>3, <1>4, <1>5, <1>6, <1>7

LEMMA RootIsProc == Root \in Procs
BY PatchedAssumption DEF Root, Procs

LEMMA GroupStep ==
    ASSUME ThreadsOK, GroupOK, [Next]_vars
    PROVE  GroupOK'
<1> USE DEF ThreadsOK, Threads, GroupOK, Final
<1>1. CASE Quiet
  BY <1>1 DEF Quiet
<1>2. CASE Solver
  BY <1>2, GroupSolver
<1>3. ASSUME NEW t \in {"timer", "stopper"}, KeepSample(t)
      PROVE  GroupOK'
  <2>1. /\ status' = status /\ group' = group
        /\ \E l \in {"cas", "sampled"} : pc' = [pc EXCEPT ![t] = l]
    BY <1>3 DEF KeepSample, solverVars, Goto
  <2> QED
    BY <2>1
<1>4. CASE KillProcess
  BY <1>4 DEF KillProcess, KillRunning, Ended, Running
<1>5. CASE KillGroup
  BY <1>5 DEF KillGroup, KillRunning, Ended, Running, Goto
<1>6. CASE ForkSolver
  BY <1>6, RootIsProc DEF ForkSolver, Goto
<1>7. CASE Wait4
  BY <1>7, RootIsProc DEF Wait4, Goto
<1>8. CASE FallbackKill
  BY <1>8 DEF FallbackKill, KillRunning, Ended, Running, Goto
<1>9. CASE Report
  BY <1>9 DEF Report, At, Goto, solverVars
<1> QED
  BY <1>1, <1>2, <1>3, <1>4, <1>5, <1>6, <1>7, <1>8, <1>9, LoudSteps

\* The last kill leaves no process of the group of the solver, however the
\* solver forks while runsolver ends (run(), runsolver.cc).
THEOREM Killed == Spec => []GroupIsDead
<1>1. Init => ThreadsOK /\ GroupOK
  BY TurnsInit DEF Init, GroupOK, Threads, Final
<1>2. (ThreadsOK /\ Turns /\ GroupOK) /\ [Next]_vars => (ThreadsOK /\ Turns /\ GroupOK)'
  BY TurnsStep, GroupStep
<1>3. GroupOK => GroupIsDead
  BY DEF GroupOK, GroupIsDead, Final, Running
<1> QED
  BY <1>1, <1>2, <1>3, TurnsInit, PTL DEF Spec
-----------------------------------------------------------------------------
\* The CPU time of a sample is a number: a sum over the tree, process by process.
Adds(f, c, m) ==
    /\ f \in [0..m -> Int] /\ f[0] = 0
    /\ \A p \in 1..m : f[p] = f[p - 1] + c[p]

LEMMA SumExists ==
    ASSUME NEW c \in [1..NProcs -> Int]
    PROVE  \E f : Adds(f, c, NProcs)
<1> DEFINE S == {n \in 0..NProcs : \E f : Adds(f, c, n)}
<1>1. NProcs \in Nat
  BY PatchedAssumption
<1>2. 0 \in S
  <2>1. Adds([n \in 0..0 |-> 0], c, 0)
    BY DEF Adds
  <2> QED
    BY <1>1, <2>1
<1>3. ASSUME NEW n \in 1..NProcs, n - 1 \in S PROVE n \in S
  <2>1. PICK f : Adds(f, c, n - 1)
    BY <1>3
  <2> DEFINE g == [p \in 0..n |-> IF p = n THEN f[n - 1] + c[n] ELSE f[p]]
  <2>2. n - 1 \in 0..n - 1 /\ \A p \in 0..n : p # n => p \in 0..n - 1
    BY <1>1
  <2>3. g \in [0..n -> Int] /\ g[0] = 0
    BY <1>1, <2>1, <2>2 DEF Adds
  <2>4. \A p \in 1..n : g[p] = g[p - 1] + c[p]
    BY <1>1, <2>1, <2>2 DEF Adds
  <2> HIDE DEF g
  <2>5. Adds(g, c, n)
    BY <2>3, <2>4 DEF Adds
  <2> QED
    BY <1>1, <2>5
<1> HIDE DEF S
<1>4. 0..NProcs \subseteq S
  BY <1>1, <1>2, <1>3, Induction
<1>5. NProcs \in S
  BY <1>1, <1>4
<1> QED
  BY <1>5 DEF S

\* The sum of the times of all processes.
Times == [Procs -> Int]
Total(c) == (CHOOSE f : Adds(f, c, NProcs))[NProcs]

LEMMA ProcsAre == NProcs \in Nat /\ Procs = 1..NProcs
BY PatchedAssumption DEF Procs

\* The sum does not depend on how it is made.
LEMMA SumIs ==
    ASSUME NEW c \in Times, NEW f, Adds(f, c, NProcs)
    PROVE  Total(c) = f[NProcs] /\ Total(c) \in Int
<1> DEFINE g == CHOOSE h : Adds(h, c, NProcs)
           S == {n \in 0..NProcs : g[n] = f[n]}
<1>1. Adds(g, c, NProcs)
  BY Zenon
<1>2. Total(c) = g[NProcs]
  BY Zenon DEF Total
<1> HIDE DEF g
<1>3. 0 \in S
  BY <1>1, ProcsAre DEF Adds
<1>4. ASSUME NEW n \in 1..NProcs, n - 1 \in S PROVE n \in S
  BY <1>1, <1>4, ProcsAre DEF Adds, Times
<1> HIDE DEF S
<1>5. 0..NProcs \subseteq S
  BY <1>3, <1>4, Induction, ProcsAre
<1>6. g[NProcs] = f[NProcs]
  BY <1>5, ProcsAre DEF S
<1> QED
  BY <1>2, <1>6, ProcsAre DEF Adds

LEMMA TotalAdds ==
    ASSUME NEW c \in Times
    PROVE  \E f : Adds(f, c, NProcs) /\ Total(c) = f[NProcs] /\ Total(c) \in Int
<1>1. c \in [1..NProcs -> Int]
  BY ProcsAre DEF Times
<1>2. PICK f : Adds(f, c, NProcs)
  BY <1>1, SumExists
<1> QED
  BY <1>2, SumIs

\* Sums of sums and of differences.
LEMMA TotalLinear ==
    ASSUME NEW a \in Times, NEW b \in Times, NEW d \in Times, NEW e \in Times,
           \A p \in Procs : e[p] = (a[p] - b[p]) + d[p]
    PROVE  Total(e) = (Total(a) - Total(b)) + Total(d)
<1>1. PICK f : Adds(f, a, NProcs) /\ Total(a) = f[NProcs]
  BY TotalAdds
<1>2. PICK g : Adds(g, b, NProcs) /\ Total(b) = g[NProcs]
  BY TotalAdds
<1>3. PICK h : Adds(h, d, NProcs) /\ Total(d) = h[NProcs]
  BY TotalAdds
<1> DEFINE k == [n \in 0..NProcs |-> (f[n] - g[n]) + h[n]]
<1>4. k \in [0..NProcs -> Int] /\ k[0] = 0
  BY <1>1, <1>2, <1>3, ProcsAre DEF Adds
<1>5. ASSUME NEW n \in 1..NProcs PROVE k[n] = k[n - 1] + e[n]
  <2>1. n \in 0..NProcs /\ n - 1 \in 0..NProcs /\ n \in Procs
    BY ProcsAre
  <2>2. /\ f[n] = f[n - 1] + a[n] /\ g[n] = g[n - 1] + b[n] /\ h[n] = h[n - 1] + d[n]
        /\ f[n - 1] \in Int /\ g[n - 1] \in Int /\ h[n - 1] \in Int
        /\ a[n] \in Int /\ b[n] \in Int /\ d[n] \in Int
    BY <1>1, <1>2, <1>3, <2>1 DEF Adds, Times
  <2>3. k[n] = (f[n] - g[n]) + h[n] /\ k[n - 1] = (f[n - 1] - g[n - 1]) + h[n - 1]
    BY <2>1
  <2>4. e[n] = (a[n] - b[n]) + d[n]
    BY <2>1
  <2> HIDE DEF k
  <2> QED
    BY <2>2, <2>3, <2>4
<1>6. k[NProcs] = (f[NProcs] - g[NProcs]) + h[NProcs]
  BY ProcsAre
<1> HIDE DEF k
<1>7. Adds(k, e, NProcs)
  BY <1>4, <1>5 DEF Adds
<1> QED
  BY <1>1, <1>2, <1>3, <1>6, <1>7, SumIs

\* More for each process is more in all.
LEMMA TotalMonotone ==
    ASSUME NEW a \in Times, NEW b \in Times, \A p \in Procs : a[p] <= b[p]
    PROVE  Total(a) <= Total(b)
<1>1. PICK f : Adds(f, a, NProcs) /\ Total(a) = f[NProcs]
  BY TotalAdds
<1>2. PICK g : Adds(g, b, NProcs) /\ Total(b) = g[NProcs]
  BY TotalAdds
<1> DEFINE S == {n \in 0..NProcs : f[n] <= g[n]}
<1>3. 0 \in S
  BY <1>1, <1>2, ProcsAre DEF Adds
<1>4. ASSUME NEW n \in 1..NProcs, n - 1 \in S PROVE n \in S
  <2>1. n \in 0..NProcs /\ n - 1 \in 0..NProcs /\ n \in Procs
    BY ProcsAre
  <2>2. /\ f[n] = f[n - 1] + a[n] /\ g[n] = g[n - 1] + b[n]
        /\ f[n - 1] \in Int /\ g[n - 1] \in Int
        /\ a[n] \in Int /\ b[n] \in Int /\ a[n] <= b[n] /\ f[n - 1] <= g[n - 1]
    BY <1>1, <1>2, <1>4, <2>1 DEF Adds, Times
  <2> QED
    BY <2>1, <2>2
<1> HIDE DEF S
<1>5. 0..NProcs \subseteq S
  BY <1>3, <1>4, Induction, ProcsAre
<1> QED
  BY <1>1, <1>2, <1>5, ProcsAre DEF S

\* The time of one process.
Unit(p, v) == [q \in Procs |-> IF q = p THEN v ELSE 0]

LEMMA TotalUnit ==
    ASSUME NEW p \in Procs, NEW v \in Int
    PROVE  Unit(p, v) \in Times /\ Total(Unit(p, v)) = v
<1> DEFINE f == [n \in 0..NProcs |-> IF n < p THEN 0 ELSE v]
<1>1. Unit(p, v) \in Times
  BY DEF Unit, Times
<1>2. f \in [0..NProcs -> Int] /\ f[0] = 0 /\ f[NProcs] = v
  BY ProcsAre
<1>3. ASSUME NEW n \in 1..NProcs PROVE f[n] = f[n - 1] + Unit(p, v)[n]
  <2>1. n \in 0..NProcs /\ n - 1 \in 0..NProcs /\ n \in Procs /\ p \in Int
    BY ProcsAre
  <2>2. Unit(p, v)[n] = IF n = p THEN v ELSE 0
    BY <2>1 DEF Unit
  <2> QED
    BY <2>1, <2>2
<1> HIDE DEF f
<1>4. Adds(f, Unit(p, v), NProcs)
  BY <1>2, <1>3 DEF Adds
<1> QED
  BY <1>1, <1>2, <1>4, SumIs

\* Some time more for one process.
LEMMA TotalMore ==
    ASSUME NEW a \in Times, NEW e \in Times, NEW p \in Procs, NEW v \in Int,
           \A q \in Procs : e[q] = IF q = p THEN a[q] + v ELSE a[q]
    PROVE  Total(e) = Total(a) + v
<1> DEFINE z == Unit(p, 0)
           u == Unit(p, v)
<1>1. /\ z \in Times /\ u \in Times /\ Total(z) = 0 /\ Total(u) = v
      /\ \A q \in Procs : z[q] = 0 /\ u[q] = IF q = p THEN v ELSE 0
  BY TotalUnit DEF Unit
<1> HIDE DEF z, u
<1>2. ASSUME NEW q \in Procs PROVE e[q] = (a[q] - z[q]) + u[q]
  <2>1. a[q] \in Int /\ e[q] = (IF q = p THEN a[q] + v ELSE a[q])
        /\ z[q] = 0 /\ u[q] = IF q = p THEN v ELSE 0
    BY <1>1 DEF Times
  <2> QED
    BY <2>1
<1>3. Total(e) = (Total(a) - Total(z)) + Total(u)
  BY <1>1, <1>2, TotalLinear
<1>4. Total(a) \in Int
  BY TotalAdds
<1> QED
  BY <1>1, <1>3, <1>4

\* All time of a process, moved to another one.
Moved(a, p, q) ==
    [r \in Procs |-> IF r = p THEN 0 ELSE IF r = q THEN a[q] + a[p] ELSE a[r]]

LEMMA TotalMoved ==
    ASSUME NEW a \in Times, NEW p \in Procs, NEW q \in Procs, p # q
    PROVE  Moved(a, p, q) \in Times /\ Total(Moved(a, p, q)) = Total(a)
<1> DEFINE b == Unit(p, a[p])
           d == Unit(q, a[p])
           e == Moved(a, p, q)
<1>1. a[p] \in Int /\ a[q] \in Int
  BY DEF Times
<1>2. /\ b \in Times /\ d \in Times /\ Total(b) = a[p] /\ Total(d) = a[p]
      /\ \A r \in Procs : /\ b[r] = IF r = p THEN a[p] ELSE 0
                          /\ d[r] = IF r = q THEN a[p] ELSE 0
  BY <1>1, TotalUnit DEF Unit
<1>3. e \in Times
  BY DEF Times, Moved
<1>4. ASSUME NEW r \in Procs PROVE e[r] = (a[r] - b[r]) + d[r]
  <2>1. a[r] \in Int /\ e[r] = IF r = p THEN 0 ELSE IF r = q THEN a[q] + a[p] ELSE a[r]
    BY DEF Times, Moved
  <2> HIDE DEF b, d, e
  <2> QED
    BY <1>1, <1>2, <2>1
<1> HIDE DEF b, d, e
<1>5. Total(e) = (Total(a) - Total(b)) + Total(d)
  BY <1>2, <1>3, <1>4, TotalLinear
<1>6. Total(a) \in Int
  BY TotalAdds
<1> QED
  BY <1>1, <1>2, <1>3, <1>5, <1>6 DEF e

\* No process has more than all have.
LEMMA OneOfTotal ==
    ASSUME NEW a \in Times, \A q \in Procs : a[q] >= 0, NEW p \in Procs
    PROVE  a[p] <= Total(a)
<1>1. a[p] \in Int
  BY DEF Times
<1>2. \A q \in Procs : Unit(p, a[p])[q] <= a[q]
  BY <1>1 DEF Unit, Times
<1> QED
  BY <1>1, <1>2, TotalUnit, TotalMonotone

LEMMA TotalZero ==
    ASSUME NEW a \in Times, \A q \in Procs : a[q] = 0
    PROVE  Total(a) = 0
<1>1. a = Unit(Root, 0)
  BY DEF Unit, Times
<1> QED
  BY <1>1, TotalUnit, RootIsProc

\* What a tree has of each process, and its sum.
Share(tree) == [p \in Procs |-> IF p \in DOMAIN tree THEN tree[p].cpu ELSE 0]

\* currentCPUTimeRec() gives the sum of the shares.
LEMMA CPUIsTotal ==
    ASSUME NEW tree, \A p \in DOMAIN tree \cap Procs : tree[p].cpu \in Int
    PROVE  Share(tree) \in Times /\ CPUOf(tree) = Total(Share(tree)) /\ CPUOf(tree) \in Int
<1> DEFINE part(p) == IF p \in DOMAIN tree THEN tree[p].cpu ELSE 0
           body(h, p) == IF p = 0 THEN 0 ELSE h[p - 1] + part(p)
           upTo == CHOOSE h : h = [p \in 0..NProcs |-> body(h, p)]
<1>1. NProcs \in Nat /\ \A p \in 1..NProcs : part(p) \in Int /\ Share(tree)[p] = part(p)
  BY ProcsAre DEF Share
<1>2. CPUOf(tree) = upTo[NProcs]
  BY Zenon DEF CPUOf
<1>3. Share(tree) \in Times
  <2>1. Share(tree) = [p \in Procs |-> part(p)]
    BY DEF Share
  <2> HIDE DEF part
  <2> QED
    BY <1>1, <2>1, ProcsAre DEF Times
<1> HIDE DEF part
<1>4. PICK h : Adds(h, Share(tree), NProcs) /\ Total(Share(tree)) = h[NProcs]
               /\ Total(Share(tree)) \in Int
  BY <1>3, TotalAdds
<1>10. ASSUME NEW p \in 0..NProcs, p # 0 PROVE h[p] = h[p - 1] + part(p)
  <2>1. p \in 1..NProcs
    BY <1>1, <1>10
  <2>2. h[p] = h[p - 1] + Share(tree)[p]
    BY <1>4, <2>1 DEF Adds
  <2> QED
    BY <1>1, <2>1, <2>2
<1>5. h = [p \in 0..NProcs |-> body(h, p)]
  <2>1. ASSUME NEW p \in 0..NProcs PROVE h[p] = body(h, p)
    <3>1. CASE p = 0
      BY <1>4, <3>1 DEF Adds
    <3>2. CASE p # 0
      BY <1>10, <3>2
    <3> QED
      BY <3>1, <3>2
  <2>2. h = [p \in 0..NProcs |-> h[p]]
    BY <1>4 DEF Adds
  <2> HIDE DEF body
  <2> QED
    BY <2>1, <2>2
<1>6. upTo = [p \in 0..NProcs |-> body(upTo, p)]
  <2> HIDE DEF body
  <2> QED
    BY <1>5, Zenon
<1> HIDE DEF upTo
<1>7. ASSUME NEW p \in 0..NProcs PROVE upTo[p] = body(upTo, p)
  <2> HIDE DEF body
  <2> QED
    BY <1>6
<1> DEFINE S == {n \in 0..NProcs : upTo[n] = h[n]}
<1>8. 0 \in S
  BY <1>1, <1>4, <1>7 DEF Adds
<1>9. ASSUME NEW n \in 1..NProcs, n - 1 \in S PROVE n \in S
  <2>1. n \in 0..NProcs /\ n - 1 \in 0..NProcs /\ n # 0
    BY <1>1
  <2>2. upTo[n] = upTo[n - 1] + part(n) /\ h[n] = h[n - 1] + part(n)
    BY <1>7, <1>10, <2>1
  <2> QED
    BY <1>9, <2>1, <2>2
<1> HIDE DEF S
<1>12. 0..NProcs \subseteq S
  BY <1>1, <1>8, <1>9, Induction
<1>11. upTo[NProcs] = h[NProcs]
  BY <1>1, <1>12 DEF S
<1> QED
  BY <1>2, <1>3, <1>4, <1>11

-----------------------------------------------------------------------------
\* Which steps change the times of the processes or those of the sample.
Untouched == UNCHANGED <<cpu, newTree>>
Started == cpu' = cpu /\ newTree' = <<>>

LEMMA StopSolverUntouched ==
    ASSUME NEW t \in Threads, StopSolver(t)
    PROVE  Untouched
BY DEF StopSolver, CompareAndSet, StopTimer, Dispatch, Untouched, solverVars, treeVars

LEMMA TimerUntouched ==
    ASSUME TimerThread
    PROVE  \/ Untouched \/ Started
           \/ ReadProcess("timer") \/ ReadVanished("timer")
<1> USE DEF Untouched, Started, solverVars, treeVars
<1>1. CASE TimerChecks \/ TimerSampled \/ TimerSeesEnd \/ TimerLeaves
  BY <1>1 DEF TimerChecks, TimerSampled, TimerSeesEnd, TimerLeaves
<1>2. CASE TimerWakesUp
  BY <1>2 DEF TimerWakesUp, StartSample
<1>3. CASE DropSample("timer") \/ KeepSample("timer")
  BY <1>3 DEF DropSample, KeepSample
<1>4. CASE StopSolver("timer")
  BY <1>4, StopSolverUntouched DEF Threads
<1> QED
  BY <1>1, <1>2, <1>3, <1>4 DEF TimerThread

LEMMA StopperUntouched ==
    ASSUME StopperThread
    PROVE  \/ Untouched \/ Started
           \/ ReadProcess("stopper") \/ ReadVanished("stopper")
<1> USE DEF Untouched, Started, solverVars, treeVars
<1>1. CASE WaitForDispatch \/ StopperSampled \/ SendTerm \/ Sleep \/ StartKilling
  BY <1>1 DEF WaitForDispatch, StopperSampled, SendTerm, Sleep, StartKilling
<1>2. CASE WaitForTimer
  BY <1>2 DEF WaitForTimer, StartSample
<1>3. CASE KillProcess \/ KillGroup
  BY <1>3 DEF KillProcess, KillGroup, KillRunning
<1>4. CASE DropSample("stopper") \/ KeepSample("stopper")
  BY <1>4 DEF DropSample, KeepSample
<1>5. CASE StopSolver("stopper")
  BY <1>5, StopSolverUntouched DEF Threads
<1> QED
  BY <1>1, <1>2, <1>3, <1>4, <1>5 DEF StopperThread

LEMMA MainUntouched ==
    ASSUME MainThread
    PROVE  Untouched \/ Wait4
<1> USE DEF Untouched, Started, solverVars, treeVars
<1>1. CASE InstallSignalHandler \/ InitFlag \/ ForkSolver \/ Parent
  BY <1>1 DEF InstallSignalHandler, InitFlag, ForkSolver, Parent
<1>2. CASE CreateTimer \/ CreateStopper \/ ShutTimerDown \/ NotRunning
  BY <1>2 DEF CreateTimer, CreateStopper, ShutTimerDown, NotRunning
<1>3. CASE Join \/ FallbackKill \/ Report
  BY <1>3 DEF Join, FallbackKill, Report, KillRunning
<1>4. CASE StopSolver("main")
  BY <1>4, StopSolverUntouched DEF Threads
<1> QED
  BY <1>1, <1>2, <1>3, <1>4 DEF MainThread

LEMMA TouchingSteps ==
    ASSUME [Next]_vars
    PROVE  \/ Untouched \/ Solver \/ Wait4 \/ Started
           \/ \E t \in {"timer", "stopper"} : ReadProcess(t) \/ ReadVanished(t)
<1> USE DEF Untouched, Started, solverVars, treeVars
<1>1. CASE Signal \/ HandleSignal
  BY <1>1 DEF Signal, HandleSignal
<1>2. CASE StopSolver("handler")
  BY <1>2, StopSolverUntouched DEF Threads
<1>3. CASE UNCHANGED vars
  BY <1>3 DEF vars
<1> QED
  BY <1>1, <1>2, <1>3, TimerUntouched, StopperUntouched, MainUntouched DEF Next, HandlerThread

\* The times of the processes, and those that a sample has read of them.
SampledNumbers ==
    /\ cpu \in [Procs -> Int]
    /\ \A p \in DOMAIN newTree \cap Procs : newTree[p].cpu \in Int

LEMMA SampledStep ==
    ASSUME SampledNumbers, [Next]_vars
    PROVE  SampledNumbers'
<1> USE DEF SampledNumbers
<1>1. CASE Untouched
  BY <1>1 DEF Untouched
<1>2. CASE Solver
  <2>1. newTree' = newTree
    BY <1>2 DEF Solver, SystemStep, treeVars
  <2>2. cpu' \in [Procs -> Int]
    BY <1>2 DEF Solver, Compute, Exit, Vanish, SetSession, Fork, WaitFor
  <2> QED
    BY <2>1, <2>2
<1>3. CASE Wait4
  BY <1>3, RootIsProc DEF Wait4, treeVars
<1>4. CASE Started
  BY <1>4 DEF Started
<1>5. ASSUME NEW t \in {"timer", "stopper"}, ReadProcess(t)
      PROVE  SampledNumbers'
  <2>1. cpu' = cpu
    BY <1>5 DEF ReadProcess, solverVars
  <2>2. CASE newTree' = newTree
    BY <2>1, <2>2
  <2> DEFINE entry(p) == IF Full(t) THEN Entry(p)
                         ELSE [cpu |-> cpu[p], parent |-> procTree[p].parent]
             added(p) == [q \in DOMAIN newTree \cup {p} |->
                            IF q = p THEN entry(p) ELSE newTree[q]]
  <2>3. \A p \in Procs : entry(p).cpu = cpu[p]
    BY DEF Entry
  <2>4. \E p \in Procs : newTree' = newTree \/ newTree' = added(p)
    BY <1>5 DEF ReadProcess
  <2> HIDE DEF entry
  <2>5. ASSUME NEW p \in Procs, newTree' = added(p) PROVE SampledNumbers'
    BY <2>1, <2>3, <2>5
  <2> QED
    BY <2>2, <2>4, <2>5
<1>6. ASSUME NEW t \in {"timer", "stopper"}, ReadVanished(t)
      PROVE  SampledNumbers'
  BY <1>6 DEF ReadVanished, solverVars
<1> QED
  BY <1>1, <1>2, <1>3, <1>4, <1>5, <1>6, TouchingSteps

\* The processes that a tree reaches: from the root, each through its parent.
Reached(tree, T) ==
    \A p \in Procs : p \in T <=>
        /\ p \in DOMAIN tree
        /\ p = Root \/ (tree[p].parent \in T /\ tree[p].parent \in 1..p - 1)

\* f[n] are those among the first n pids.
Reaches(f, tree, m) ==
    /\ f = [n \in 0..m |-> f[n]] /\ f[0] = {}
    /\ \A n \in 1..m : f[n] = f[n - 1] \cup {p \in {n} \cap DOMAIN tree :
                                p = Root \/ tree[p].parent \in f[n - 1]}

LEMMA ReachExists ==
    ASSUME NEW tree
    PROVE  \E f : Reaches(f, tree, NProcs)
<1> DEFINE S == {n \in 0..NProcs : \E f : Reaches(f, tree, n)}
<1>1. NProcs \in Nat
  BY PatchedAssumption
<1>2. 0 \in S
  <2>1. Reaches([n \in 0..0 |-> {}], tree, 0)
    BY DEF Reaches
  <2> QED
    BY <1>1, <2>1
<1>3. ASSUME NEW n \in 1..NProcs, n - 1 \in S PROVE n \in S
  <2>1. PICK f : Reaches(f, tree, n - 1)
    BY <1>3
  <2> DEFINE last == f[n - 1] \cup {p \in {n} \cap DOMAIN tree :
                                      p = Root \/ tree[p].parent \in f[n - 1]}
             g == [k \in 0..n |-> IF k = n THEN last ELSE f[k]]
  <2>2. n - 1 \in 0..n - 1 /\ (\A k \in 0..n : k # n => k \in 0..n - 1)
        /\ \A k \in 1..n : k # n => k \in 1..n - 1 /\ k - 1 \in 0..n /\ k - 1 # n
    BY <1>1
  <2>3. g = [k \in 0..n |-> g[k]] /\ g[0] = {}
    BY <1>1, <2>1, <2>2 DEF Reaches
  <2>4. g[n] = last /\ g[n - 1] = f[n - 1]
    BY <1>1, <2>2
  <2>5. ASSUME NEW k \in 1..n - 1
        PROVE  g[k] = g[k - 1] \cup {p \in {k} \cap DOMAIN tree :
                                       p = Root \/ tree[p].parent \in g[k - 1]}
    <3>1. g[k] = f[k] /\ g[k - 1] = f[k - 1]
      BY <1>1, <2>2
    <3> HIDE DEF g
    <3> QED
      BY <2>1, <3>1 DEF Reaches
  <2>6. g[n] = g[n - 1] \cup {p \in {n} \cap DOMAIN tree :
                                p = Root \/ tree[p].parent \in g[n - 1]}
    <3> HIDE DEF g
    <3> QED
      BY <2>4
  <2> HIDE DEF g, last
  <2>7. Reaches(g, tree, n)
    BY <2>2, <2>3, <2>5, <2>6 DEF Reaches
  <2> QED
    BY <1>1, <2>7
<1> HIDE DEF S
<1>4. 0..NProcs \subseteq S
  BY <1>1, <1>2, <1>3, Induction
<1>5. NProcs \in S
  BY <1>1, <1>4
<1> QED
  BY <1>5 DEF S

LEMMA ReachIs ==
    ASSUME NEW tree
    PROVE  \E T \in SUBSET Procs : Reached(tree, T) /\ Reachable(tree) = [p \in T |-> tree[p]]
<1> DEFINE body(h, n) == IF n = 0 THEN {}
                         ELSE h[n - 1] \cup {p \in {n} \cap DOMAIN tree :
                                               p = Root \/ tree[p].parent \in h[n - 1]}
           upTo == CHOOSE h : h = [n \in 0..NProcs |-> body(h, n)]
<1>1. NProcs \in Nat
  BY PatchedAssumption
<1>2. Reachable(tree) = [p \in upTo[NProcs] |-> tree[p]]
  BY Zenon DEF Reachable
<1>3. \E h : h = [n \in 0..NProcs |-> body(h, n)]
  <2>1. PICK h : Reaches(h, tree, NProcs)
    BY ReachExists
  <2>2. ASSUME NEW n \in 0..NProcs PROVE h[n] = body(h, n)
    BY <1>1, <2>1 DEF Reaches
  <2>3. h = [n \in 0..NProcs |-> h[n]]
    BY <2>1 DEF Reaches
  <2> HIDE DEF body
  <2> QED
    BY <2>2, <2>3
<1>4. upTo = [n \in 0..NProcs |-> body(upTo, n)]
  <2> HIDE DEF body
  <2> QED
    BY <1>3, Zenon
<1> HIDE DEF upTo
<1>5. Reaches(upTo, tree, NProcs)
  <2>1. ASSUME NEW n \in 0..NProcs PROVE upTo[n] = body(upTo, n)
    <3> HIDE DEF body
    <3> QED
      BY <1>4
  <2>2. upTo = [n \in 0..NProcs |-> upTo[n]]
    <3> HIDE DEF body
    <3> QED
      BY <1>4
  <2>3. \A n \in 1..NProcs : n \in 0..NProcs /\ n # 0
    BY <1>1
  <2>4. upTo[0] = {}
    <3>1. 0 \in 0..NProcs
      BY <1>1
    <3>2. body(upTo, 0) = {}
      OBVIOUS
    <3> HIDE DEF body
    <3> QED
      BY <2>1, <3>1, <3>2
  <2>5. \A n \in 1..NProcs : upTo[n] = body(upTo, n)
    BY <2>1, <2>3
  <2>6. \A n \in 1..NProcs :
          upTo[n] = upTo[n - 1] \cup {p \in {n} \cap DOMAIN tree :
                                        p = Root \/ tree[p].parent \in upTo[n - 1]}
    BY <2>3, <2>5
  <2> QED
    BY <2>2, <2>4, <2>6 DEF Reaches
<1> DEFINE First(n) == upTo[n] \subseteq 1..n /\ \A p \in 1..n : p \in upTo[n] <=> p \in upTo[p]
           S == {n \in 0..NProcs : First(n)}
<1>6. ASSUME NEW n \in 1..NProcs, NEW p
      PROVE  p \in upTo[n] <=> \/ p \in upTo[n - 1]
                               \/ /\ p = n /\ p \in DOMAIN tree
                                  /\ p = Root \/ tree[p].parent \in upTo[n - 1]
  BY <1>5 DEF Reaches
<1>7. 0 \in S
  BY <1>1, <1>5 DEF Reaches
<1>8. ASSUME NEW n \in 1..NProcs, n - 1 \in S PROVE n \in S
  <2>1. upTo[n - 1] \subseteq 1..n - 1 /\ \A p \in 1..n - 1 : p \in upTo[n - 1] <=> p \in upTo[p]
    BY <1>8
  <2>2. upTo[n] \subseteq 1..n
    BY <1>6, <2>1
  <2>3. ASSUME NEW p \in 1..n PROVE p \in upTo[n] <=> p \in upTo[p]
    <3>1. CASE p = n
      BY <3>1
    <3>2. CASE p # n
      <4>1. p \in 1..n - 1
        BY <3>2
      <4> QED
        BY <1>6, <2>1, <3>2, <4>1
    <3> QED
      BY <3>1, <3>2
  <2> QED
    BY <2>2, <2>3
<1> HIDE DEF S
<1>9. 0..NProcs \subseteq S
  BY <1>1, <1>7, <1>8, Induction
<1>10. ASSUME NEW n \in 0..NProcs
       PROVE  upTo[n] \subseteq 1..n /\ \A p \in 1..n : p \in upTo[n] <=> p \in upTo[p]
  BY <1>9 DEF S
<1> DEFINE T == upTo[NProcs]
<1>11. T \in SUBSET Procs /\ \A p \in Procs : p \in T <=> p \in upTo[p]
  BY <1>1, <1>10 DEF Procs
<1> HIDE DEF T
<1>12. ASSUME NEW p \in Procs
       PROVE  p \in T <=> /\ p \in DOMAIN tree
                          /\ p = Root \/ (tree[p].parent \in T /\ tree[p].parent \in 1..p - 1)
  <2>1. p \in 1..NProcs /\ p - 1 \in 0..NProcs
    BY <1>1 DEF Procs
  <2>2. p \in T <=> /\ p \in DOMAIN tree
                    /\ p = Root \/ tree[p].parent \in upTo[p - 1]
    <3>1. p \notin upTo[p - 1]
      BY <1>10, <2>1
    <3> QED
      BY <1>6, <1>11, <2>1, <3>1
  <2>3. ASSUME NEW q PROVE q \in upTo[p - 1] <=> q \in T /\ q \in 1..p - 1
    <3>1. q \in upTo[p - 1] => q \in 1..p - 1
      BY <1>10, <2>1
    <3>2. q \in 1..p - 1 => (q \in upTo[p - 1] <=> q \in upTo[q]) /\ q \in Procs
      BY <1>1, <1>10, <2>1 DEF Procs
    <3> QED
      BY <1>11, <3>1, <3>2
  <2> QED
    BY <2>2, <2>3
<1> QED
  BY <1>2, <1>11, <1>12 DEF Reached, T

\* The sums: the time of a sample, what was lost, what wait4() gave.
SumNumbers ==
    /\ currentCPUTime \in Int /\ lostCPUTime \in Int /\ usage \in Int
    /\ exceeded \in BOOLEAN

LEMMA SumStep ==
    ASSUME ThreadsOK, SampledNumbers, SumNumbers, [Next]_vars
    PROVE  SumNumbers'
<1> USE DEF SumNumbers
<1>1. CASE Quiet
  BY <1>1 DEF Quiet, timeVars, mainVars
<1>2. CASE Solver \/ KillProcess \/ KillGroup \/ ForkSolver \/ FallbackKill \/ Report
  BY <1>2 DEF Solver, SystemStep, KillProcess, KillGroup, ForkSolver, FallbackKill, Report,
              timeVars, mainVars
<1>3. CASE Wait4
  BY <1>3, RootIsProc DEF Wait4, timeVars, SampledNumbers
<1>4. ASSUME NEW t \in {"timer", "stopper"}, KeepSample(t)
      PROVE  SumNumbers'
  <2>1. \A p \in DOMAIN procTree' \cap Procs : procTree'[p].cpu \in Int
    <3>1. PICK T \in SUBSET Procs :
            Reached(newTree, T) /\ Reachable(newTree) = [p \in T |-> newTree[p]]
      BY ReachIs
    <3>2. T \subseteq DOMAIN newTree
      BY <3>1 DEF Reached
    <3> QED
      BY <1>4, <3>1, <3>2 DEF KeepSample, SampledNumbers
  <2>2. currentCPUTime' \in Int
    BY <1>4, <2>1, CPUIsTotal DEF KeepSample
  <2>3. usage' = usage /\ lostCPUTime' \in Int
    BY <1>4, <2>2 DEF KeepSample, mainVars, Lost
  <2>4. exceeded' \in BOOLEAN
    BY <1>4 DEF KeepSample
  <2> QED
    BY <2>2, <2>3, <2>4
<1> QED
  BY <1>1, <1>2, <1>3, <1>4, LoudSteps

LEMMA NumbersInit == Init => SampledNumbers /\ SumNumbers
<1>1. Init => SampledNumbers
  BY DEF Init, SampledNumbers
<1>2. Init => exceeded = FALSE /\ currentCPUTime = 0 /\ lostCPUTime = 0 /\ usage = -1
  BY Zenon DEF Init
<1>3. exceeded = FALSE => exceeded \in BOOLEAN
  BY Zenon
<1> QED
  BY <1>1, <1>2, <1>3 DEF SumNumbers

\* The CPU time never decreases: what a sample misses is added to the lost
\* time, and the report starts from the last sample at least.
Announced ==
    /\ reported # -1 => pc["main"] = "ended"
    /\ exceeded = TRUE => currentCPUTime + lostCPUTime >= CPULimit
    /\ reported # -1 /\ exceeded = TRUE => reported >= CPULimit

LEMMA AnnouncedStep ==
    ASSUME ThreadsOK, Turns, Announced, SumNumbers, SumNumbers', [Next]_vars
    PROVE  Announced'
<1> USE DEF ThreadsOK, Threads, Announced
<1>1. CASE Quiet
  BY <1>1 DEF Quiet, Final, timeVars, mainVars
<1>2. CASE Solver \/ KillProcess
  BY <1>2 DEF Solver, SystemStep, KillProcess, timeVars, mainVars
<1>3. ASSUME NEW t \in {"timer", "stopper"}, KeepSample(t)
      PROVE  Announced'
  <2>1. /\ pc[t] = "read" /\ reported' = reported
        /\ lostCPUTime' = lostCPUTime + Lost(currentCPUTime, currentCPUTime')
    BY <1>3 DEF KeepSample, At, mainVars
  <2>2. pc["main"] # "ended"
    BY <2>1 DEF Turns, StopperWaits
  <2>3. currentCPUTime' + lostCPUTime' >= currentCPUTime + lostCPUTime
    BY <2>1 DEF Lost, SumNumbers
  <2>4. exceeded' = TRUE =>
          exceeded = TRUE \/ currentCPUTime' + lostCPUTime' >= CPULimit
    BY <1>3 DEF KeepSample, LimitReached, SumNumbers
  <2> QED
    BY <2>1, <2>2, <2>3, <2>4, PatchedAssumption DEF SumNumbers
<1>4. CASE KillGroup
  BY <1>4 DEF KillGroup, Goto, timeVars, mainVars
<1>5. CASE ForkSolver \/ FallbackKill
  BY <1>5 DEF ForkSolver, FallbackKill, At, Goto, timeVars, mainVars
<1>6. CASE Wait4
  BY <1>6 DEF Wait4, At, Goto, timeVars
<1>7. CASE Report
  <2>1. PICK margin \in FoolMargins :
          /\ pc'["main"] = "ended" /\ reported' = CPUTime(margin)
          /\ UNCHANGED <<currentCPUTime, lostCPUTime, exceeded>>
    BY <1>7 DEF Report, Goto, timeVars
  <2>2. margin \in Nat
    BY PatchedAssumption
  <2>3. CPUTime(margin) \in Int /\ CPUTime(margin) >= currentCPUTime + lostCPUTime
    BY <2>2 DEF CPUTime, SumNumbers
  <2> QED
    BY <2>1, <2>3, PatchedAssumption DEF SumNumbers
<1> QED
  BY <1>1, <1>2, <1>3, <1>4, <1>5, <1>6, <1>7, LoudSteps

\* A timeout that was announced is also in the report (run() and the time that
\* is kept as lost in readProcessData(), runsolver.cc).
THEOREM Reported == Spec => []TimeoutIsReported
<1> DEFINE Inv == ThreadsOK /\ Turns /\ SampledNumbers /\ SumNumbers /\ Announced
<1>1. Init => Inv
  <2>1. Init => Announced
    BY DEF Init, Announced
  <2> QED
    BY <2>1, NumbersInit, TurnsInit
<1>2. Inv /\ [Next]_vars => Inv'
  BY TurnsStep, SampledStep, SumStep, AnnouncedStep
<1>3. Inv => TimeoutIsReported
  BY DEF Announced, SumNumbers, TimeoutIsReported
<1> QED
  BY <1>1, <1>2, <1>3, PTL DEF Spec
-----------------------------------------------------------------------------
(***************************************************************************)
(* NothingInvented.  First the steps, by what they do to the family of the *)
(* solver, to the samples and to the times.                                *)
(***************************************************************************)
Samplers == {"timer", "stopper"}
\* The solver is not started.
Early == FlagNames \cup {"install", "fork"}
Begins == pc'["main"] \in Early => pc["main"] \in Early

\* Who reads a sample goes on with it, and no one else begins.
Calm ==
    /\ \A t \in Samplers : /\ pc'[t] = "read" <=> pc[t] = "read"
                           /\ pc[t] = "read" => UNCHANGED <<todo, count>>
    /\ Begins
\* No book changes.
Books == <<status, parent, cpu, used, procTree, newTree, timeVars, mainVars, torn>>
Still == UNCHANGED Books /\ Calm

NobodyReads == \A t \in Samplers : pc[t] # "read"

\* A sample begins.
Begun(t) ==
    /\ StartSample(t) /\ NobodyReads
    /\ UNCHANGED <<solverVars, timeVars, mainVars, history>>

\* The tree is read at once.
Shown ==
    /\ procTree' = ReadAtOnce /\ UNCHANGED newTree /\ NobodyReads /\ Calm
    /\ UNCHANGED <<solverVars, timeVars, mainVars, history>>

\* Processes are killed.
Kills ==
    /\ \E S : KillRunning(S)
    /\ UNCHANGED <<procTree, newTree, timeVars, mainVars, history>> /\ Calm

\* stopSolver() only moves a thread.
LEMMA StopSolverStill ==
    ASSUME ThreadsOK, NEW t \in Threads, StopSolver(t)
    PROVE  Still
<1> USE DEF ThreadsOK, Threads, Still, Books, Calm, Samplers, Begins, Early, solverVars, treeVars, FlagNames
<1>1. /\ UNCHANGED <<solverVars, treeVars, timeVars, mainVars, torn>>
      /\ pc[t] \in {"cas", "stopTimer", "dispatch"}
      /\ \E l \in {"stopTimer", "dispatch", Back[t]} : pc' = [pc EXCEPT ![t] = l]
  BY DEF StopSolver, CompareAndSet, StopTimer, Dispatch, At, Goto, history
<1> QED
  BY <1>1, BackIs

\* displayProcessData() may read the tree again.
LEMMA DisplayStep ==
    ASSUME Display, NobodyReads, Calm,
           UNCHANGED <<solverVars, newTree, timeVars, mainVars, history>>
    PROVE  Still \/ Shown
BY DEF Display, Still, Shown, Books, solverVars, history

\* The three threads, step by step.
LEMMA TimerSteps ==
    ASSUME ThreadsOK, Turns, TimerThread
    PROVE  \/ Still \/ Begun("timer") \/ Shown
           \/ ReadProcess("timer") \/ ReadVanished("timer")
           \/ DropSample("timer") \/ KeepSample("timer")
<1> USE DEF ThreadsOK, Threads, Still, Books, Calm, Samplers, Begins, Early, solverVars, treeVars, history,
            NobodyReads, Turns, StopperWaits, FlagNames
<1>1. CASE TimerChecks \/ TimerSeesEnd \/ TimerLeaves
  BY <1>1 DEF TimerChecks, TimerSeesEnd, TimerLeaves, At, Goto
<1>2. CASE TimerWakesUp
  <2>1. NobodyReads
    BY <1>2 DEF TimerWakesUp, At
  <2>2. CASE StartSample("timer")
    BY <1>2, <2>1, <2>2 DEF Begun, TimerWakesUp
  <2>3. CASE Goto("timer", "leave") /\ UNCHANGED treeVars
    BY <1>2, <2>3 DEF TimerWakesUp, At, Goto
  <2> QED
    BY <1>2, <2>2, <2>3 DEF TimerWakesUp
<1>3. CASE TimerSampled
  <2>1. NobodyReads /\ Calm
    BY <1>3 DEF TimerSampled, At, Goto
  <2> QED
    BY <1>3, <2>1, DisplayStep DEF TimerSampled
<1>4. CASE StopSolver("timer")
  BY <1>4, StopSolverStill
<1> QED
  BY <1>1, <1>2, <1>3, <1>4 DEF TimerThread

LEMMA StopperSteps ==
    ASSUME ThreadsOK, Turns, StopperThread
    PROVE  \/ Still \/ Begun("stopper") \/ Shown \/ Kills
           \/ ReadProcess("stopper") \/ ReadVanished("stopper")
           \/ DropSample("stopper") \/ KeepSample("stopper")
<1> USE DEF ThreadsOK, Threads, Still, Books, Calm, Samplers, Begins, Early, solverVars, treeVars, history,
            NobodyReads, Turns, StopperWaits, FlagNames
<1>1. CASE WaitForDispatch \/ SendTerm \/ Sleep
  BY <1>1 DEF WaitForDispatch, SendTerm, Sleep, At, Goto
<1>2. CASE WaitForTimer
  <2>1. NobodyReads
    BY <1>2 DEF WaitForTimer, At
  <2> QED
    BY <1>2, <2>1 DEF WaitForTimer, Begun
<1>3. CASE StopperSampled
  <2>1. NobodyReads /\ Calm
    BY <1>3 DEF StopperSampled, At, Goto
  <2> QED
    BY <1>3, <2>1, DisplayStep DEF StopperSampled
<1>4. CASE StartKilling
  BY <1>4 DEF StartKilling, At, Goto
<1>5. CASE KillProcess
  BY <1>5 DEF KillProcess, Kills, At
<1>6. CASE KillGroup
  BY <1>6 DEF KillGroup, Kills, At, Goto
<1>7. CASE StopSolver("stopper")
  BY <1>7, StopSolverStill
<1> QED
  BY <1>1, <1>2, <1>3, <1>4, <1>5, <1>6, <1>7 DEF StopperThread

LEMMA MainSteps ==
    ASSUME ThreadsOK, Turns, MainThread
    PROVE  Still \/ Shown \/ Kills \/ ForkSolver \/ Wait4 \/ Report
<1> USE DEF ThreadsOK, Threads, Still, Books, Calm, Samplers, Begins, Early, solverVars, treeVars, history,
            NobodyReads, Turns, StopperWaits, FlagNames
<1>1. CASE InstallSignalHandler
  BY <1>1 DEF InstallSignalHandler, At, Flags
<1>2. CASE InitFlag
  <2>1. PICK i \in 1..5 :
          /\ pc["main"] = Flags[i]
          /\ pc' = [pc EXCEPT !["main"] = IF i = 5 THEN "fork" ELSE Flags[i + 1]]
    BY <1>2 DEF InitFlag, At, Goto
  <2>2. i \in {1, 2, 3, 4, 5}
    OBVIOUS
  <2>3. pc["main"] \in FlagNames
    BY <2>1, <2>2 DEF Flags
  <2>4. pc'["timer"] = pc["timer"] /\ pc'["stopper"] = pc["stopper"]
    BY <2>1
  <2> QED
    BY <1>2, <2>3, <2>4 DEF InitFlag
<1>3. CASE Parent
  <2>1. NobodyReads /\ Calm
    BY <1>3 DEF Parent, At, Goto, BeforeTimer, BeforeStopper
  <2> QED
    BY <1>3, <2>1 DEF Parent, Shown
<1>4. CASE CreateTimer
  <2>1. pc["timer"] = "none" /\ pc["main"] = "createTimer"
    BY <1>4 DEF CreateTimer, At, BeforeTimer
  <2>2. /\ pc'["timer"] = "loop" /\ pc'["stopper"] = pc["stopper"]
        /\ pc'["main"] = "createStopper"
    BY <1>4 DEF CreateTimer
  <2> QED
    BY <1>4, <2>1, <2>2 DEF CreateTimer
<1>5. CASE CreateStopper
  <2>1. pc["stopper"] = "none" /\ pc["main"] = "createStopper"
    BY <1>5 DEF CreateStopper, At, BeforeStopper
  <2>2. /\ pc'["timer"] = pc["timer"] /\ pc'["stopper"] = "waitDispatch"
        /\ pc'["main"] = "wait4"
    BY <1>5 DEF CreateStopper
  <2> QED
    BY <1>5, <2>1, <2>2 DEF CreateStopper
<1>6. CASE ShutTimerDown \/ NotRunning
  BY <1>6 DEF ShutTimerDown, NotRunning, At, Goto
<1>7. CASE Join
  BY <1>7 DEF Join, At, Goto
<1>8. CASE FallbackKill
  BY <1>8 DEF FallbackKill, Kills, At, Goto
<1>9. CASE StopSolver("main")
  BY <1>9, StopSolverStill
<1> QED
  BY <1>1, <1>2, <1>3, <1>4, <1>5, <1>6, <1>7, <1>8, <1>9 DEF MainThread

\* What a step can be.
LEMMA StepKinds ==
    ASSUME ThreadsOK, Turns, [Next]_vars
    PROVE  \/ Still \/ Solver \/ Shown \/ Kills \/ ForkSolver \/ Wait4 \/ Report
           \/ \E t \in Samplers : \/ Begun(t) \/ ReadProcess(t) \/ ReadVanished(t)
                                  \/ DropSample(t) \/ KeepSample(t)
<1> USE DEF ThreadsOK, Threads, Still, Books, Calm, Samplers, Begins, solverVars, treeVars, history
<1>1. CASE Signal \/ HandleSignal
  BY <1>1 DEF Signal, HandleSignal, At, Goto
<1>2. CASE StopSolver("handler")
  BY <1>2, StopSolverStill
<1>3. CASE UNCHANGED vars
  BY <1>3 DEF vars
<1> QED
  BY <1>1, <1>2, <1>3, TimerSteps, StopperSteps, MainSteps DEF Next, HandlerThread
-----------------------------------------------------------------------------
States == {"none", "running", "zombie", "gone"}
\* The processes: a parent is older than its children and runs, pids are given
\* in order, and nothing exists before the solver is started.
FamilyOK ==
    /\ status \in [Procs -> States] /\ parent \in [Procs -> Nat]
    /\ \A p \in Procs : /\ parent[p] < p
                        /\ parent[p] # Other => Exists(p) /\ status[parent[p]] = "running"
    /\ \A p, q \in Procs : q < p /\ status[p] # "none" => status[q] # "none"
    /\ pc["main"] \in Early => \A p \in Procs : status[p] = "none"

\* Times are natural numbers; who has not begun has none.
TimesOK ==
    /\ cpu \in [Procs -> Nat] /\ used \in Nat
    /\ \A p \in Procs : status[p] = "none" => cpu[p] = 0

LEMMA FamilyKept ==
    ASSUME FamilyOK, Begins, UNCHANGED <<status, parent>>
    PROVE  FamilyOK'
BY DEF FamilyOK, Begins, Exists

LEMMA TimesKept ==
    ASSUME TimesOK, UNCHANGED <<status, cpu, used>>
    PROVE  TimesOK'
BY DEF TimesOK

\* Processes end.
LEMMA EndedFamily ==
    ASSUME FamilyOK, Begins, NEW S, S \subseteq Running, Ended(S)
    PROVE  FamilyOK'
<1> USE DEF FamilyOK, Begins, States, Exists, Running, Other
<1>1. /\ status' = [p \in Procs |-> IF p \in S THEN "zombie" ELSE status[p]]
      /\ parent' = [p \in Procs |-> IF parent[p] \in S THEN Other ELSE parent[p]]
  BY DEF Ended
<1>2. status' \in [Procs -> States] /\ parent' \in [Procs -> Nat]
  BY <1>1
<1>3. ASSUME NEW p \in Procs
      PROVE  /\ parent'[p] < p
             /\ parent'[p] # Other => Exists(p)' /\ status'[parent'[p]] = "running"
  <2>1. CASE parent[p] \in S
    BY <1>1, <2>1, ProcsAre
  <2>2. CASE parent[p] = Other
    BY <1>1, <2>2, ProcsAre
  <2>3. CASE parent[p] \notin S /\ parent[p] # Other
    <3>1. parent[p] \in Procs /\ parent'[p] = parent[p]
      BY <1>1, <2>3, ProcsAre
    <3> QED
      BY <1>1, <2>3, <3>1
  <2> QED
    BY <2>1, <2>2, <2>3
<1>4. \A p \in Procs : status'[p] = "none" <=> status[p] = "none"
  BY <1>1
<1> QED
  BY <1>2, <1>3, <1>4

\* A child is younger than its parent.
LEMMA ForkFamily ==
    ASSUME FamilyOK, pc' = pc, NEW p \in Procs, NEW q \in Procs, Fork(p, q)
    PROVE  FamilyOK' /\ p < q
<1> USE DEF FamilyOK, States, Exists, Running, Other
<1>1. /\ status[p] = "running" /\ status[q] = "none"
      /\ \A r \in Procs : r < q => status[r] # "none"
      /\ status' = [status EXCEPT ![q] = "running"] /\ parent' = [parent EXCEPT ![q] = p]
  BY DEF Fork
<1>2. p < q
  BY <1>1, ProcsAre
<1>3. status' \in [Procs -> States] /\ parent' \in [Procs -> Nat]
  BY <1>1, ProcsAre
<1>4. ASSUME NEW r \in Procs
      PROVE  /\ parent'[r] < r
             /\ parent'[r] # Other => Exists(r)' /\ status'[parent'[r]] = "running"
  <2>1. CASE r = q
    BY <1>1, <1>2, <2>1, ProcsAre
  <2>2. CASE r # q
    <3>1. parent[r] # Other => parent[r] \in Procs
      BY ProcsAre
    <3> QED
      BY <1>1, <2>2, <3>1, ProcsAre
  <2> QED
    BY <2>1, <2>2
<1>5. \A r, s \in Procs : s < r /\ status'[r] # "none" => status'[s] # "none"
  BY <1>1, ProcsAre
<1>6. pc["main"] \notin Early
  BY <1>1
<1> QED
  BY <1>2, <1>3, <1>4, <1>5, <1>6

\* A process that ended and is gone.
LEMMA GoneFamily ==
    ASSUME FamilyOK, Begins, NEW p \in Procs, status[p] = "zombie",
           status' = [status EXCEPT ![p] = "gone"],
           parent' = [parent EXCEPT ![p] = Other]
    PROVE  FamilyOK'
<1> USE DEF FamilyOK, Begins, States, Exists, Other
<1>1. status' \in [Procs -> States] /\ parent' \in [Procs -> Nat]
  OBVIOUS
<1>2. ASSUME NEW r \in Procs
      PROVE  /\ parent'[r] < r
             /\ parent'[r] # Other => Exists(r)' /\ status'[parent'[r]] = "running"
  <2>1. parent[r] # Other => parent[r] \in Procs
    BY ProcsAre
  <2> QED
    BY <2>1, ProcsAre
<1>3. \A r \in Procs : status'[r] = "none" <=> status[r] = "none"
  OBVIOUS
<1> QED
  BY <1>1, <1>2, <1>3

\* A parent of the solver itself is not one of its processes.
LEMMA RootParent == FamilyOK => parent[Root] = Other
BY ProcsAre, RootIsProc DEF FamilyOK, Root, Other

\* What the solver does keeps the family and the times.
LEMMA SolverSide ==
    ASSUME FamilyOK, TimesOK, Solver
    PROVE  FamilyOK' /\ TimesOK'
<1>1. pc' = pc /\ Begins
  BY DEF Solver, SystemStep, Begins
<1>2. PICK p \in Procs : \/ Compute(p) \/ Exit(p) \/ Vanish(p) \/ SetSession(p)
                         \/ \E q \in Procs : Fork(p, q) \/ WaitFor(p, q)
  BY DEF Solver
<1> USE DEF TimesOK
<1>3. CASE Compute(p) \/ SetSession(p)
  <2>1. FamilyOK'
    BY <1>1, <1>3, FamilyKept DEF Compute, SetSession
  <2>2. TimesOK'
    BY <1>3 DEF Compute, SetSession, Running
  <2> QED
    BY <2>1, <2>2
<1>4. CASE Exit(p)
  <2>1. FamilyOK'
    BY <1>1, <1>4, EndedFamily DEF Exit
  <2>2. TimesOK'
    BY <1>4 DEF Exit, Ended, FamilyOK
  <2> QED
    BY <2>1, <2>2
<1>5. CASE Vanish(p)
  <2>1. FamilyOK'
    BY <1>1, <1>5, GoneFamily DEF Vanish
  <2>2. TimesOK'
    BY <1>5 DEF Vanish, FamilyOK
  <2> QED
    BY <2>1, <2>2
<1>6. ASSUME NEW q \in Procs, Fork(p, q)
      PROVE  FamilyOK' /\ TimesOK'
  <2>1. FamilyOK'
    BY <1>1, <1>6, ForkFamily
  <2>2. TimesOK'
    BY <1>6 DEF Fork, FamilyOK
  <2> QED
    BY <2>1, <2>2
<1>7. ASSUME NEW q \in Procs, WaitFor(p, q)
      PROVE  FamilyOK' /\ TimesOK'
  <2>1. FamilyOK'
    BY <1>1, <1>7, GoneFamily DEF WaitFor
  <2>2. TimesOK'
    BY <1>7 DEF WaitFor, FamilyOK, Running
  <2> QED
    BY <2>1, <2>2
<1> QED
  BY <1>2, <1>3, <1>4, <1>5, <1>6, <1>7

\* So does every step.
LEMMA SideStep ==
    ASSUME ThreadsOK, Turns, FamilyOK, TimesOK, [Next]_vars
    PROVE  FamilyOK' /\ TimesOK'
<1>1. CASE Still
  BY <1>1, FamilyKept, TimesKept DEF Still, Books, Calm
<1>2. CASE Solver
  BY <1>2, SolverSide
<1>3. CASE Shown
  BY <1>3, FamilyKept, TimesKept DEF Shown, Calm, solverVars
<1>4. CASE Kills
  <2>1. PICK S : Ended(S \cap Running) /\ UNCHANGED <<cpu, used>>
    BY <1>4 DEF Kills, KillRunning
  <2>2. FamilyOK'
    BY <1>4, <2>1, EndedFamily DEF Kills, Calm
  <2>3. TimesOK'
    BY <2>1 DEF TimesOK, Ended, FamilyOK
  <2> QED
    BY <2>2, <2>3
<1>5. CASE ForkSolver
  <2>1. /\ \A p \in Procs : status[p] = "none"
        /\ status' = [status EXCEPT ![Root] = "running"]
        /\ UNCHANGED <<parent, cpu, used>> /\ pc'["main"] = "parent"
    BY <1>5 DEF ForkSolver, At, Goto, FamilyOK, Early, ThreadsOK, Threads
  <2>2. pc'["main"] \notin Early
    BY <2>1 DEF Early, FlagNames
  <2>3. \A p \in Procs : parent[p] = Other
    BY <2>1 DEF FamilyOK, Exists
  <2>4. FamilyOK'
    BY <2>1, <2>2, <2>3, RootIsProc, ProcsAre DEF FamilyOK, States, Root
  <2>5. TimesOK'
    BY <2>1, RootIsProc DEF TimesOK, FamilyOK
  <2> QED
    BY <2>4, <2>5
<1>6. CASE Wait4
  <2>1. /\ status[Root] = "zombie" /\ status' = [status EXCEPT ![Root] = "gone"]
        /\ parent' = parent /\ used' = used /\ cpu' = [cpu EXCEPT ![Root] = 0]
        /\ Begins
    BY <1>6 DEF Wait4, At, Goto, Begins, Early, ThreadsOK, Threads, FlagNames
  <2>2. parent' = [parent EXCEPT ![Root] = Other]
    BY <2>1, RootParent, RootIsProc DEF FamilyOK
  <2>3. FamilyOK'
    BY <2>1, <2>2, RootIsProc, GoneFamily
  <2>4. TimesOK'
    BY <2>1, RootIsProc DEF TimesOK, FamilyOK
  <2> QED
    BY <2>3, <2>4
<1>7. CASE Report
  <2>1. Begins
    BY <1>7 DEF Report, At, Goto, Begins, Early, ThreadsOK, Threads, FlagNames
  <2> QED
    BY <1>7, <2>1, FamilyKept, TimesKept DEF Report, solverVars
<1>8. ASSUME NEW t \in Samplers, \/ Begun(t) \/ ReadProcess(t) \/ ReadVanished(t)
                                 \/ DropSample(t) \/ KeepSample(t)
      PROVE  FamilyOK' /\ TimesOK'
  <2>1. UNCHANGED <<status, parent, cpu, used>> /\ pc'["main"] = pc["main"]
    BY <1>8 DEF Begun, StartSample, ReadProcess, ReadVanished, DropSample, KeepSample,
                Goto, solverVars, Samplers, ThreadsOK, Threads
  <2> QED
    BY <2>1, FamilyKept, TimesKept DEF Begins
<1> QED
  BY <1>1, <1>2, <1>3, <1>4, <1>5, <1>6, <1>7, <1>8, StepKinds
-----------------------------------------------------------------------------
\* What a tree has of a process is what was known of it: a parent that is not
\* the present one was left since.
Known(x, p) ==
    /\ status[p] # "none" /\ x[p].cpu \in Nat /\ x[p].parent \in Nat /\ x[p].parent < p
    /\ parent[p] # Other => x[p].parent = parent[p]
TreeOK(x) == DOMAIN x \subseteq Procs /\ \A p \in DOMAIN x : Known(x, p)

\* In which order a sample is read.
FullOrder == \A q \in DOMAIN newTree, x \in todo : q < x
\* A full one in order of pid, a partial one down the last tree.
TopDown ==
    /\ todo \cap DOMAIN newTree = {}
    /\ \A q \in (DOMAIN newTree \cup todo) \ {Root} :
          q \in DOMAIN procTree /\ procTree[q].parent \in DOMAIN newTree
    /\ \A q \in DOMAIN newTree :
          q \in DOMAIN procTree /\ newTree[q].parent = procTree[q].parent
\* There is a sample only while one is read.
ReadingOK ==
    /\ NobodyReads => newTree = <<>>
    /\ \A t \in Samplers : pc[t] = "read" => IF Full(t) THEN FullOrder ELSE TopDown

TreesOK == TreeOK(procTree) /\ TreeOK(newTree) /\ ReadingOK

\* Processes only leave a family.
OnlyLeave ==
    \A p \in Procs : status[p] # "none" =>
        status'[p] # "none" /\ parent'[p] \in {parent[p], Other}

LEMMA TreesKept ==
    ASSUME TreesOK, OnlyLeave, UNCHANGED <<procTree, newTree>>, Calm
    PROVE  TreesOK'
<1>1. TreeOK(procTree)' /\ TreeOK(newTree)'
  BY DEF OnlyLeave, TreesOK, TreeOK, Known
<1>2. ReadingOK'
  <2>1. NobodyReads' => newTree' = <<>>
    BY DEF TreesOK, ReadingOK, NobodyReads, Calm
  <2>2. ASSUME NEW t \in Samplers, pc'[t] = "read"
        PROVE  IF Full(t)' THEN FullOrder' ELSE TopDown'
    <3>1. pc[t] = "read" /\ UNCHANGED <<todo, count>>
      BY <2>2 DEF Calm
    <3> QED
      BY <3>1 DEF TreesOK, ReadingOK, Full, FullOrder, TopDown
  <2> QED
    BY <2>1, <2>2 DEF ReadingOK
<1> QED
  BY <1>1, <1>2 DEF TreesOK

\* The solver only makes processes leave.
LEMMA SolverLeaves ==
    ASSUME FamilyOK, Solver
    PROVE  OnlyLeave
<1> USE DEF OnlyLeave, FamilyOK, Running
<1>2. PICK p \in Procs : \/ Compute(p) \/ Exit(p) \/ Vanish(p) \/ SetSession(p)
                         \/ \E q \in Procs : Fork(p, q) \/ WaitFor(p, q)
  BY DEF Solver
<1>3. CASE Compute(p) \/ SetSession(p)
  BY <1>3 DEF Compute, SetSession
<1>4. CASE Exit(p)
  BY <1>4 DEF Exit, Ended
<1>5. CASE Vanish(p)
  BY <1>5 DEF Vanish
<1>6. ASSUME NEW q \in Procs, Fork(p, q)
      PROVE  OnlyLeave
  BY <1>6 DEF Fork
<1>7. ASSUME NEW q \in Procs, WaitFor(p, q)
      PROVE  OnlyLeave
  BY <1>7 DEF WaitFor
<1> QED
  BY <1>2, <1>3, <1>4, <1>5, <1>6, <1>7

\* The processes that exist, as they are read at once.
LEMMA ReachedPart ==
    ASSUME NEW x
    PROVE  /\ DOMAIN Reachable(x) \subseteq DOMAIN x \cap Procs
           /\ \A p \in DOMAIN Reachable(x) : Reachable(x)[p] = x[p]
           /\ Reached(x, DOMAIN Reachable(x))
           /\ Reachable(x) = [p \in DOMAIN Reachable(x) |-> x[p]]
<1>1. PICK T \in SUBSET Procs : Reached(x, T) /\ Reachable(x) = [p \in T |-> x[p]]
  BY ReachIs
<1> QED
  BY <1>1 DEF Reached

Present == [p \in {q \in Procs : Exists(q)} |-> Entry(p)]

\* dumpHeavyProcesses() reads what is there.
LEMMA ReadTree ==
    ASSUME FamilyOK, TimesOK
    PROVE  TreeOK(ReadAtOnce)
<1>1. \A p \in DOMAIN Present : Known(Present, p)
  BY ProcsAre DEF Present, Known, Entry, FamilyOK, TimesOK, Exists
<1>2. ReadAtOnce = Reachable(Present)
  BY DEF ReadAtOnce, Present
<1> QED
  BY <1>1, <1>2, ReachedPart DEF TreeOK, Known

\* Only one thread reads (Turns).
LEMMA OneReads ==
    ASSUME Turns, NEW t \in Samplers, NEW u \in Samplers, pc[t] = "read", pc[u] = "read"
    PROVE  t = u
BY DEF Turns, Samplers, StopperWaits

\* An entry that is added to a sample.
Added(p, e) == [q \in DOMAIN newTree \cup {p} |-> IF q = p THEN e ELSE newTree[q]]

LEMMA AddedTree ==
    ASSUME TreeOK(newTree), NEW p \in Procs, NEW e, UNCHANGED <<status, parent>>,
           newTree' = Added(p, e),
           status[p] # "none" /\ e.cpu \in Nat /\ e.parent \in Nat /\ e.parent < p,
           parent[p] # Other => e.parent = parent[p]
    PROVE  TreeOK(newTree)'
BY DEF TreeOK, Known, Added

\* One process is read: an entry and what is below it come, or nothing.
Reads(t, p) == (Full(t) \/ p \in DOMAIN procTree) /\ Exists(p)
OneRead(t, p, e, below) ==
    /\ InTurn(t, p)
    /\ e.cpu = cpu[p]
    /\ e.parent = IF Full(t) THEN parent[p] ELSE procTree[p].parent
    /\ below = IF Full(t) THEN {} ELSE Children(procTree, p)
    /\ IF Reads(t, p) THEN newTree' = Added(p, e) /\ todo' = (todo \ {p}) \cup below
       ELSE newTree' = newTree /\ todo' = todo \ {p}

LEMMA ReadOne ==
    ASSUME NEW t, ReadProcess(t)
    PROVE  \E p \in Procs : \E e, below : OneRead(t, p, e, below)
<1> DEFINE entry(p) == IF Full(t) THEN Entry(p)
                       ELSE [cpu |-> cpu[p], parent |-> procTree[p].parent]
           below(p) == IF Full(t) THEN {} ELSE Children(procTree, p)
<1>1. PICK p \in Procs :
         /\ InTurn(t, p)
         /\ IF Reads(t, p)
            THEN newTree' = Added(p, entry(p)) /\ todo' = (todo \ {p}) \cup below(p)
            ELSE newTree' = newTree /\ todo' = todo \ {p}
  BY Zenon DEF ReadProcess, Added, Reads
<1>2. /\ entry(p).cpu = cpu[p]
      /\ entry(p).parent = IF Full(t) THEN parent[p] ELSE procTree[p].parent
  BY DEF Entry
<1>3. below(p) = IF Full(t) THEN {} ELSE Children(procTree, p)
  OBVIOUS
<1> HIDE DEF entry, below
<1>4. OneRead(t, p, entry(p), below(p))
  BY <1>1, <1>2, <1>3 DEF OneRead
<1> QED
  BY <1>4

\* One process more, in order.
LEMMA ReadOneTree ==
    ASSUME ThreadsOK, Turns, FamilyOK, TimesOK, TreesOK, NEW t \in Samplers, ReadProcess(t)
    PROVE  TreesOK'
<1>0. PICK p \in Procs : \E e, below : OneRead(t, p, e, below)
  BY ReadOne
<1>r. PICK entry, below : OneRead(t, p, entry, below)
  BY <1>0
<1>2. /\ InTurn(t, p)
      /\ entry.cpu = cpu[p]
      /\ entry.parent = IF Full(t) THEN parent[p] ELSE procTree[p].parent
      /\ below = IF Full(t) THEN {} ELSE Children(procTree, p)
      /\ IF Reads(t, p)
         THEN newTree' = Added(p, entry) /\ todo' = (todo \ {p}) \cup below
         ELSE newTree' = newTree /\ todo' = todo \ {p}
  BY <1>r DEF OneRead
<1>3. /\ pc[t] = "read" /\ UNCHANGED <<status, parent, pc, procTree, count>>
      /\ Full(t)' = Full(t) /\ p \in todo
  BY <1>2 DEF ReadProcess, At, solverVars, Full, InTurn
<1>4. TreeOK(procTree)'
  BY <1>3 DEF TreesOK, TreeOK, Known
<1>5. TreeOK(newTree)'
  <2>1. CASE Reads(t, p)
    <3>1. /\ entry.cpu \in Nat /\ entry.parent \in Nat /\ entry.parent < p
          /\ parent[p] # Other => entry.parent = parent[p]
      <4>1. CASE Full(t)
        BY <1>2, <4>1 DEF FamilyOK, TimesOK
      <4>2. CASE ~Full(t)
        <5>1. Known(procTree, p)
          BY <2>1, <4>2 DEF TreesOK, TreeOK, Reads
        <5>2. entry.cpu = cpu[p] /\ entry.parent = procTree[p].parent
          BY <1>2, <4>2
        <5> QED
          BY <5>1, <5>2 DEF Known, TimesOK
      <4> QED
        BY <4>1, <4>2
    <3>2. status[p] # "none" /\ newTree' = Added(p, entry)
      BY <1>2, <2>1 DEF Exists, Reads
    <3> QED
      BY <1>3, <3>1, <3>2, AddedTree DEF TreesOK
  <2>2. CASE ~Reads(t, p)
    BY <1>2, <1>3, <2>2 DEF TreesOK, TreeOK, Known
  <2> QED
    BY <2>1, <2>2
<1>6. ~NobodyReads'
  BY <1>3 DEF NobodyReads
<1>7. CASE Full(t)
  <2>1. FullOrder /\ \A x \in todo : p <= x
    BY <1>2, <1>3, <1>7 DEF TreesOK, ReadingOK, InTurn
  <2>2. /\ todo' = todo \ {p} \/ todo' = (todo \ {p}) \cup {}
        /\ DOMAIN newTree' \subseteq DOMAIN newTree \cup {p}
    BY <1>2, <1>7 DEF Added
  <2>3. ASSUME NEW q \in DOMAIN newTree', NEW x \in todo' PROVE q < x
    <3>1. x \in todo /\ x # p /\ p <= x
      BY <2>1, <2>2
    <3>2. CASE q \in DOMAIN newTree
      BY <2>1, <3>1, <3>2 DEF FullOrder
    <3>3. CASE q = p
      <4>1. p \in todo /\ p \in Nat
        BY <1>3, ProcsAre
      <4>2. p < x
        BY <3>1, <4>1
      <4> QED
        BY <3>3, <4>2
    <3> QED
      BY <2>2, <3>2, <3>3
  <2>4. FullOrder'
    BY <2>3 DEF FullOrder
  <2>5. \A u \in Samplers : pc'[u] = "read" => u = t
    BY <1>3, OneReads
  <2> QED
    BY <1>3, <1>4, <1>5, <1>6, <1>7, <2>4, <2>5 DEF TreesOK, ReadingOK
<1>8. CASE ~Full(t)
  <2>1. TopDown
    BY <1>3, <1>8 DEF TreesOK, ReadingOK
  <2>2. TopDown'
    <3>1. CASE Reads(t, p)
      <4>1. /\ newTree' = Added(p, entry) /\ todo' = (todo \ {p}) \cup Children(procTree, p)
            /\ entry.parent = procTree[p].parent /\ p \in DOMAIN procTree
        BY <1>2, <1>8, <3>1 DEF Reads
      <4>2. /\ DOMAIN newTree' = DOMAIN newTree \cup {p} /\ newTree'[p] = entry
            /\ \A q \in DOMAIN newTree : q # p => newTree'[q] = newTree[q]
        BY <4>1 DEF Added
      <4>3. p \notin DOMAIN newTree
        BY <1>3, <2>1 DEF TopDown
      <4>4. ASSUME NEW q \in Children(procTree, p)
            PROVE  q \notin DOMAIN newTree /\ q # p /\ q \in DOMAIN procTree
                   /\ procTree[q].parent = p
        <5>1. q \in DOMAIN procTree /\ procTree[q].parent = p
          BY <4>4 DEF Children
        <5>2. q \in Procs /\ p \in Procs /\ p < q
          BY <5>1 DEF TreesOK, TreeOK, Known
        <5>3. q # Root
          BY <5>2, ProcsAre DEF Root
        <5> QED
          BY <2>1, <4>3, <5>1, <5>2, <5>3, ProcsAre DEF TopDown
      <4>5. todo' \cap DOMAIN newTree' = {}
        BY <2>1, <4>1, <4>2, <4>4 DEF TopDown
      <4>6. ASSUME NEW q \in (DOMAIN newTree' \cup todo') \ {Root}
            PROVE  q \in DOMAIN procTree /\ procTree[q].parent \in DOMAIN newTree'
        <5>1. CASE q \in (DOMAIN newTree \cup todo) \ {Root}
          BY <2>1, <4>2, <5>1 DEF TopDown
        <5>2. CASE q \in Children(procTree, p)
          BY <4>2, <4>4, <5>2
        <5> QED
          BY <1>3, <4>1, <4>2, <4>6, <5>1, <5>2
      <4>7. ASSUME NEW q \in DOMAIN newTree'
            PROVE  q \in DOMAIN procTree /\ newTree'[q].parent = procTree[q].parent
        <5>1. CASE q = p
          BY <4>1, <4>2, <5>1
        <5>2. CASE q # p
          BY <2>1, <4>2, <5>2 DEF TopDown
        <5> QED
          BY <5>1, <5>2
      <4> QED
        BY <1>3, <4>5, <4>6, <4>7 DEF TopDown
    <3>2. CASE ~Reads(t, p)
      <4>1. newTree' = newTree /\ todo' = todo \ {p}
        BY <1>2, <3>2
      <4> QED
        BY <1>3, <2>1, <4>1 DEF TopDown
    <3> QED
      BY <3>1, <3>2
  <2>3. \A u \in Samplers : pc'[u] = "read" => u = t
    BY <1>3, OneReads
  <2> QED
    BY <1>3, <1>4, <1>5, <1>6, <1>8, <2>2, <2>3 DEF TreesOK, ReadingOK
<1> QED
  BY <1>7, <1>8

\* An entry without time nor parent.
NothingRead == [cpu |-> 0, parent |-> Other]

LEMMA ReadVanishedTree ==
    ASSUME ThreadsOK, Turns, FamilyOK, TreesOK, NEW t \in Samplers, ReadVanished(t)
    PROVE  TreesOK'
<1>1. PICK p \in Procs : /\ InTurn(t, p) /\ status[p] = "gone"
                         /\ newTree' = Added(p, NothingRead) /\ todo' = todo \ {p}
  BY DEF ReadVanished, Added, NothingRead
<1>2. /\ pc[t] = "read" /\ Full(t) /\ UNCHANGED <<status, parent, pc, procTree, count>>
      /\ Full(t)' = Full(t) /\ p \in todo
  BY <1>1 DEF ReadVanished, At, solverVars, Full, InTurn
<1>3. TreeOK(procTree)'
  BY <1>2 DEF TreesOK, TreeOK, Known
<1>4. TreeOK(newTree)'
  <2>1. /\ NothingRead.cpu \in Nat /\ NothingRead.parent \in Nat /\ NothingRead.parent < p
        /\ NothingRead.parent = Other
    BY ProcsAre DEF NothingRead, Other
  <2>2. status[p] # "none" /\ parent[p] = Other
    BY <1>1 DEF FamilyOK, Exists
  <2> QED
    BY <1>1, <1>2, <2>1, <2>2, AddedTree DEF TreesOK
<1>5. FullOrder'
  <2>1. FullOrder /\ \A x \in todo : p <= x
    BY <1>1, <1>2 DEF TreesOK, ReadingOK, InTurn
  <2>2. ASSUME NEW q \in DOMAIN newTree', NEW x \in todo' PROVE q < x
    <3>1. x \in todo /\ x # p /\ p <= x
      BY <1>1, <2>1
    <3>2. q \in DOMAIN newTree \cup {p}
      BY <1>1 DEF Added
    <3>3. CASE q \in DOMAIN newTree
      BY <2>1, <3>1, <3>3 DEF FullOrder
    <3>4. CASE q = p
      <4>1. p \in todo /\ p \in Nat
        BY <1>2, ProcsAre
      <4>3. p < x
        BY <3>1, <4>1
      <4> QED
        BY <3>4, <4>3
    <3> QED
      BY <3>2, <3>3, <3>4
  <2> QED
    BY <2>2 DEF FullOrder
<1>6. ~NobodyReads' /\ \A u \in Samplers : pc'[u] = "read" => u = t
  BY <1>2, OneReads DEF NobodyReads
<1> QED
  BY <1>2, <1>3, <1>4, <1>5, <1>6 DEF TreesOK, ReadingOK

\* The sample that begins is empty.
LEMMA BegunTree ==
    ASSUME ThreadsOK, TreesOK, NEW t \in Samplers, Begun(t)
    PROVE  TreesOK'
<1>1. /\ newTree' = <<>> /\ UNCHANGED <<status, parent, procTree, count>> /\ NobodyReads
      /\ pc' = [pc EXCEPT ![t] = "read"]
      /\ todo' = IF Full(t) THEN {p \in Procs : status[p] # "gone"} ELSE {Root}
  BY DEF Begun, StartSample, Goto, solverVars
<1>2. DOMAIN newTree' = {} /\ Full(t)' = Full(t) /\ pc'[t] = "read"
      /\ \A u \in Samplers : pc'[u] = "read" => u = t
  BY <1>1 DEF Full, NobodyReads, Samplers, ThreadsOK, Threads
<1>3. TreeOK(procTree)' /\ TreeOK(newTree)'
  BY <1>1, <1>2 DEF TreesOK, TreeOK, Known
<1>4. IF Full(t)' THEN FullOrder' ELSE TopDown'
  BY <1>1, <1>2 DEF FullOrder, TopDown
<1>5. ~NobodyReads'
  BY <1>2 DEF NobodyReads
<1> QED
  BY <1>2, <1>3, <1>4, <1>5 DEF TreesOK, ReadingOK

\* Every step keeps the trees.
LEMMA TreesStep ==
    ASSUME ThreadsOK, Turns, FamilyOK, TimesOK, TreesOK, [Next]_vars
    PROVE  TreesOK'
<1>1. CASE Still
  BY <1>1, TreesKept DEF Still, Books, OnlyLeave
<1>2. CASE Solver
  BY <1>2, SolverLeaves, TreesKept DEF Solver, SystemStep, treeVars, Calm, Begins
<1>3. CASE Shown
  <2>1. /\ procTree' = ReadAtOnce /\ newTree' = newTree /\ NobodyReads /\ NobodyReads'
        /\ UNCHANGED <<status, parent>>
    BY <1>3 DEF Shown, solverVars, NobodyReads, Calm
  <2>2. TreeOK(procTree)' /\ TreeOK(newTree)'
    BY <2>1, ReadTree DEF TreesOK, TreeOK, Known
  <2> QED
    BY <2>1, <2>2 DEF TreesOK, ReadingOK, NobodyReads
<1>4. CASE Kills
  <2>1. OnlyLeave
    BY <1>4 DEF Kills, KillRunning, Ended, OnlyLeave
  <2> QED
    BY <1>4, <2>1, TreesKept DEF Kills
<1>5. CASE ForkSolver \/ Wait4
  <2>1. OnlyLeave
    BY <1>5, RootIsProc DEF ForkSolver, Wait4, OnlyLeave, FamilyOK
  <2>2. Calm
    BY <1>5 DEF ForkSolver, Wait4, At, Goto, Calm, Begins, Early, treeVars, ThreadsOK, Threads,
                Samplers, FlagNames
  <2>3. UNCHANGED <<procTree, newTree>>
    BY <1>5 DEF ForkSolver, Wait4, treeVars
  <2> QED
    BY <2>1, <2>2, <2>3, TreesKept
<1>6. CASE Report
  <2>1. Calm /\ OnlyLeave
    BY <1>6 DEF Report, At, Goto, Calm, Begins, Early, treeVars, ThreadsOK, Threads,
                Samplers, FlagNames, OnlyLeave, solverVars
  <2> QED
    BY <1>6, <2>1, TreesKept DEF Report, treeVars
<1>7. ASSUME NEW t \in Samplers, Begun(t) \/ ReadProcess(t) \/ ReadVanished(t)
      PROVE  TreesOK'
  BY <1>7, BegunTree, ReadOneTree, ReadVanishedTree
<1>8. ASSUME NEW t \in Samplers, DropSample(t) \/ KeepSample(t)
      PROVE  TreesOK'
  <2>1. /\ newTree' = <<>> /\ UNCHANGED <<status, parent>>
        /\ procTree' = procTree \/ procTree' = Reachable(newTree)
        /\ pc[t] = "read" /\ \E l : l # "read" /\ pc' = [pc EXCEPT ![t] = l]
    BY <1>8 DEF DropSample, KeepSample, At, Goto, solverVars
  <2>2. NobodyReads'
    BY <2>1, OneReads DEF NobodyReads, ThreadsOK, Threads, Samplers
  <2>3. TreeOK(procTree)' /\ TreeOK(newTree)'
    BY <2>1, ReachedPart DEF TreesOK, TreeOK, Known
  <2> QED
    BY <2>1, <2>2, <2>3 DEF TreesOK, ReadingOK, NobodyReads
<1> QED
  BY <1>1, <1>2, <1>3, <1>4, <1>5, <1>6, <1>7, <1>8, StepKinds
-----------------------------------------------------------------------------
(***************************************************************************)
(* The books.  Every unit of time that was used is in cpu[p] of one        *)
(* process, or was lost to the system (Vanish), or is in usage; a sample   *)
(* sees some of these.  The books give each process an amount c[p], out of *)
(* the time that was used and that is not in lostCPUTime yet; seen[p] and  *)
(* new[p] of it are in the last sample and in the one being read.  When a  *)
(* process is waited for, its amounts go to its parent.  When a sample is  *)
(* kept that has less than the last one, the difference is lost: the       *)
(* amounts of the processes it misses (old, but not in the tree) pay for   *)
(* it, and such a process (out) can pay once only: nothing may read it     *)
(* again.                                                                  *)
(***************************************************************************)
\* The processes that the sample being read reaches.
InTree == DOMAIN Reachable(newTree)

\* A tree reaches one set of processes.
LEMMA ReachedUnique ==
    ASSUME NEW x, NEW T \in SUBSET Procs, NEW U \in SUBSET Procs, Reached(x, T), Reached(x, U)
    PROVE  T = U
<1> DEFINE S == {n \in 0..NProcs : \A p \in 1..n : p \in T <=> p \in U}
<1>1. 0 \in S
  BY ProcsAre
<1>2. ASSUME NEW n \in 1..NProcs, n - 1 \in S PROVE n \in S
  <2>1. \A p \in 1..n - 1 : p \in T <=> p \in U
    BY <1>2
  <2>2. n \in T <=> n \in U
    <3>1. n \in Procs
      BY ProcsAre
    <3> QED
      BY <2>1, <3>1 DEF Reached
  <2>3. \A p \in 1..n : p = n \/ p \in 1..n - 1
    BY ProcsAre
  <2> QED
    BY <2>1, <2>2, <2>3, ProcsAre
<1> HIDE DEF S
<1>3. 0..NProcs \subseteq S
  BY <1>1, <1>2, Induction, ProcsAre
<1>4. \A p \in 1..NProcs : p \in T <=> p \in U
  BY <1>3, ProcsAre DEF S
<1> QED
  BY <1>4, ProcsAre

\* What the tree reaches grows by an entry whose parent it reaches.
LEMMA ReachGrows ==
    ASSUME TreeOK(newTree), NEW p \in Procs, NEW e, e.parent \in Nat, e.parent < p,
           p \notin DOMAIN newTree, newTree' = Added(p, e),
           \A q \in DOMAIN newTree : newTree[q].parent # p
    PROVE  InTree' = IF p = Root \/ e.parent \in InTree THEN InTree \cup {p} ELSE InTree
<1> DEFINE T == IF p = Root \/ e.parent \in InTree THEN InTree \cup {p} ELSE InTree
<1>1. InTree \in SUBSET Procs /\ InTree \subseteq DOMAIN newTree /\ Reached(newTree, InTree)
  BY ReachedPart DEF InTree
<1>2. InTree' \in SUBSET Procs /\ Reached(newTree', InTree')
  BY ReachedPart DEF InTree
<1>3. /\ DOMAIN newTree' = DOMAIN newTree \cup {p} /\ newTree'[p] = e
      /\ \A q \in DOMAIN newTree : newTree'[q] = newTree[q]
  BY DEF Added
<1>4. T \in SUBSET Procs /\ p \notin InTree
  BY <1>1
<1>5. /\ \A q : q # p => (q \in T <=> q \in InTree)
      /\ p \in T <=> p = Root \/ e.parent \in InTree
  BY <1>4
<1> HIDE DEF T
<1>6. ASSUME NEW q \in Procs
      PROVE  q \in T <=> /\ q \in DOMAIN newTree'
                         /\ q = Root \/ (newTree'[q].parent \in T /\ newTree'[q].parent \in 1..q - 1)
  <2>1. CASE q = p
    <3>1. e.parent # p
      BY ProcsAre
    <3>2. e.parent \in InTree => e.parent \in 1..p - 1
      BY <1>1, ProcsAre
    <3> QED
      BY <1>3, <1>5, <2>1, <3>1, <3>2
  <2>2. CASE q # p /\ q \in DOMAIN newTree
    <3>1. newTree'[q] = newTree[q] /\ newTree[q].parent # p
      BY <1>3, <2>2
    <3> QED
      BY <1>1, <1>3, <1>5, <2>2, <3>1 DEF Reached
  <2>3. CASE q # p /\ q \notin DOMAIN newTree
    BY <1>1, <1>3, <1>5, <2>3
  <2> QED
    BY <2>1, <2>2, <2>3
<1>7. Reached(newTree', T)
  BY <1>6 DEF Reached
<1>8. InTree' = T
  BY <1>2, <1>4, <1>7, ReachedUnique
<1> QED
  BY <1>8 DEF T

-----------------------------------------------------------------------------
Amounts == [Procs -> Nat]

\* The amounts of all, with what is lost, were used; seen and new add up to
\* the two samples.
Sums(c, seen, new) ==
    /\ lostCPUTime + Total(c) <= used
    /\ Total(seen) = currentCPUTime /\ Total(new) = CPUOf(Reachable(newTree))

\* The amounts of a process: what the samples have of it is in its amount,
\* and in its time while it exists; all its time is in its amount unless it is out.
Covers(c, seen, new, out, p) ==
    /\ seen[p] <= c[p] /\ new[p] <= c[p]
    /\ Exists(p) => /\ seen[p] <= cpu[p] /\ new[p] <= cpu[p]
                    /\ p \notin out => cpu[p] <= c[p]

\* Only the processes of a sample have an amount in it, and time that was
\* sampled does not get less while the process stays in the tree.
Placed(seen, new, old, p) ==
    /\ seen[p] # 0 => p \in old
    /\ new[p] # 0 => p \in InTree
    /\ p \in old /\ p \in InTree => seen[p] <= new[p]

\* The processes of the last sample, with their parents.
OldOK(old) ==
    \A p \in old : status[p] # "none" /\ (parent[p] # Other => parent[p] \in old)

\* The processes that have paid: neither tree has them or ever will, for their
\* parents have left the family or are out too.
OutOK(out) ==
    \A p \in out : /\ status[p] # "none" /\ p # Root
                   /\ parent[p] = Other \/ parent[p] \in out
                   /\ p \notin InTree /\ p \notin DOMAIN procTree

\* The last tree shows all of the old ones whose parent is still there.
Shows(old, out) ==
    \A p \in old \ out : parent[p] # Other => p \in DOMAIN procTree

\* So the next sample reads them, before it can miss them.
Coming(old, out) ==
    \A t \in Samplers : pc[t] = "read" =>
        \A p \in old \ out : parent[p] # Other =>
            IF Full(t) THEN p \in DOMAIN newTree \cup todo
            ELSE parent[p] \in DOMAIN newTree => p \in DOMAIN newTree \cup todo

Account(c, seen, new, old, out) ==
    /\ c \in Amounts /\ seen \in Amounts /\ new \in Amounts
    /\ old \subseteq Procs /\ out \subseteq Procs
    /\ Sums(c, seen, new) /\ usage <= c[Root]
    /\ \A p \in Procs : Covers(c, seen, new, out, p) /\ Placed(seen, new, old, p)
    /\ OldOK(old) /\ OutOK(out) /\ Shows(old, out)

Ledger(c, seen, new, old, out) ==
    Account(c, seen, new, old, out) /\ Coming(old, out)

\* No process of the solver has new time.
Follows ==
    \A p \in Procs : Exists(p)' =>
        \/ Exists(p) /\ cpu'[p] = cpu[p]
        \/ status[p] = "none" /\ cpu'[p] = 0

\* The books stay as they are, whoever leaves.
LEMMA AccountKept ==
    ASSUME NEW c, NEW seen, NEW new, NEW old, NEW out, Account(c, seen, new, old, out),
           TreeOK(newTree), OnlyLeave, Follows, UNCHANGED <<procTree, newTree, used>>,
           UNCHANGED <<lostCPUTime, currentCPUTime>>, usage' <= c[Root]
    PROVE  Account(c, seen, new, old, out)'
<1> USE DEF Account
<1>1. InTree' = InTree /\ InTree \subseteq DOMAIN newTree
  BY ReachedPart DEF InTree
<1>2. Sums(c, seen, new)'
  BY DEF Sums
<1>3. ASSUME NEW p \in Procs
      PROVE  Covers(c, seen, new, out, p)' /\ Placed(seen, new, old, p)'
  <2>1. Covers(c, seen, new, out, p) /\ Placed(seen, new, old, p)
    OBVIOUS
  <2>2. Placed(seen, new, old, p)'
    BY <1>1, <2>1 DEF Placed
  <2>3. CASE (Exists(p) /\ cpu'[p] = cpu[p]) \/ ~Exists(p)'
    BY <2>1, <2>2, <2>3 DEF Covers
  <2>4. CASE status[p] = "none" /\ cpu'[p] = 0
    <3>1. p \notin old /\ p \notin InTree
      BY <1>1, <2>4 DEF OldOK, TreeOK, Known
    <3>2. seen[p] = 0 /\ new[p] = 0 /\ c[p] \in Nat
      BY <2>1, <3>1 DEF Placed, Amounts
    <3> QED
      BY <2>1, <2>2, <2>4, <3>2 DEF Covers
  <2> QED
    BY <2>2, <2>3, <2>4 DEF Follows
<1>4. OldOK(old)' /\ OutOK(out)' /\ Shows(old, out)'
  BY <1>1 DEF OldOK, OutOK, Shows, OnlyLeave
<1> QED
  BY <1>2, <1>3, <1>4

LEMMA ComingKept ==
    ASSUME NEW old, NEW out, old \subseteq Procs, OldOK(old), Coming(old, out),
           OnlyLeave, UNCHANGED newTree, Calm
    PROVE  Coming(old, out)'
<1> SUFFICES ASSUME NEW t \in Samplers, pc'[t] = "read",
                    NEW p \in old \ out, parent'[p] # Other
             PROVE  IF Full(t)' THEN p \in DOMAIN newTree' \cup todo'
                    ELSE parent'[p] \in DOMAIN newTree' => p \in DOMAIN newTree' \cup todo'
  BY DEF Coming
<1>1. pc[t] = "read" /\ UNCHANGED <<todo, count>> /\ Full(t)' = Full(t)
  BY DEF Calm, Full
<1>2. parent'[p] = parent[p]
  BY DEF OnlyLeave, OldOK
<1> QED
  BY <1>1, <1>2 DEF Coming

LEMMA LedgerKept ==
    ASSUME NEW c, NEW seen, NEW new, NEW old, NEW out, Ledger(c, seen, new, old, out),
           TreeOK(newTree), OnlyLeave, Follows, UNCHANGED <<procTree, newTree, used>>,
           UNCHANGED <<lostCPUTime, currentCPUTime>>, usage' <= c[Root], Calm
    PROVE  Ledger(c, seen, new, old, out)'
<1>1. Account(c, seen, new, old, out)'
  BY AccountKept DEF Ledger
<1>2. Coming(old, out)'
  BY ComingKept DEF Ledger, Account
<1> QED
  BY <1>1, <1>2 DEF Ledger
-----------------------------------------------------------------------------
LedgerExists == \E c, seen, new, old, out : Ledger(c, seen, new, old, out)

LEMMA AmountsAreTimes == Amounts \subseteq Times
BY DEF Amounts, Times

\* One unit of time more is used, and is in the books.
LEMMA ComputeLedger ==
    ASSUME NEW c, NEW seen, NEW new, NEW old, NEW out, Ledger(c, seen, new, old, out),
           FamilyOK, TimesOK, TreesOK, SumNumbers, NEW p \in Procs, Compute(p), SystemStep
    PROVE  LedgerExists'
<1> DEFINE d == [c EXCEPT ![p] = @ + 1]
<1>1. /\ UNCHANGED <<status, parent, procTree, newTree, todo, count, pc>>
      /\ UNCHANGED <<lostCPUTime, currentCPUTime, usage>>
      /\ used' = used + 1 /\ cpu' = [cpu EXCEPT ![p] = @ + 1] /\ status[p] = "running"
  BY DEF Compute, SystemStep, Running, treeVars, timeVars, mainVars
<1>2. Account(c, seen, new, old, out) /\ Coming(old, out)
  BY DEF Ledger
<1>3. d \in Amounts /\ \A q \in Procs : d[q] = IF q = p THEN c[q] + 1 ELSE c[q]
  BY <1>2 DEF Account, Amounts
<1> HIDE DEF d
<1>4. Total(d) = Total(c) + 1 /\ Total(c) \in Int
  BY <1>2, <1>3, AmountsAreTimes, TotalMore, TotalAdds DEF Account
<1>5. Sums(d, seen, new)'
  BY <1>1, <1>2, <1>4 DEF Sums, Account, TimesOK, SumNumbers
<1>6. InTree' = InTree
  BY <1>1 DEF InTree
<1>7. ASSUME NEW q \in Procs
      PROVE  Covers(d, seen, new, out, q)' /\ Placed(seen, new, old, q)'
  <2>1. Covers(c, seen, new, out, q) /\ Placed(seen, new, old, q)
    BY <1>2 DEF Account
  <2>2. cpu[q] \in Nat /\ c[q] \in Nat /\ seen[q] \in Nat /\ new[q] \in Nat
    BY <1>2 DEF Account, Amounts, TimesOK
  <2>3. cpu'[q] = IF q = p THEN cpu[q] + 1 ELSE cpu[q]
    BY <1>1 DEF TimesOK
  <2>4. Exists(q)' <=> Exists(q)
    BY <1>1 DEF Exists
  <2>5. Covers(d, seen, new, out, q)'
    BY <1>3, <2>1, <2>2, <2>3, <2>4 DEF Covers
  <2>6. Placed(seen, new, old, q)'
    BY <1>6, <2>1 DEF Placed
  <2> QED
    BY <2>5, <2>6
<1>8. usage' <= d[Root]
  <2>1. usage <= c[Root] /\ c[Root] \in Nat /\ usage \in Int
    BY <1>2, RootIsProc DEF Account, Amounts, SumNumbers
  <2> QED
    BY <1>1, <1>3, <2>1, RootIsProc
<1>9. OldOK(old)' /\ OutOK(out)' /\ Shows(old, out)' /\ Coming(old, out)'
  BY <1>1, <1>2, <1>6 DEF Account, OldOK, OutOK, Shows, Coming, Full
<1>10. Ledger(d, seen, new, old, out)'
  BY <1>2, <1>3, <1>5, <1>7, <1>8, <1>9 DEF Ledger, Account
<1> QED
  BY <1>10 DEF LedgerExists

\* The time of a process that is waited for goes to its parent, in the books
\* too.
LEMMA MovedAmounts ==
    ASSUME NEW a \in Amounts, NEW p \in Procs, NEW q \in Procs, p # q
    PROVE  /\ Moved(a, p, q) \in Amounts /\ Total(Moved(a, p, q)) = Total(a)
           /\ Moved(a, p, q)[p] = 0 /\ Moved(a, p, q)[q] = a[q] + a[p]
           /\ \A r \in Procs : r # p /\ r # q => Moved(a, p, q)[r] = a[r]
<1>1. Moved(a, p, q) \in Amounts
  BY DEF Moved, Amounts
<1>2. Total(Moved(a, p, q)) = Total(a)
  BY AmountsAreTimes, TotalMoved
<1>3. /\ Moved(a, p, q)[p] = 0 /\ Moved(a, p, q)[q] = a[q] + a[p]
      /\ \A r \in Procs : r # p /\ r # q => Moved(a, p, q)[r] = a[r]
  BY DEF Moved
<1> QED
  BY <1>1, <1>2, <1>3

\* The child is in the sample if its parent is, unless the sample is torn: the
\* amounts of both move together.
LEMMA WaitForLedger ==
    ASSUME NEW c, NEW seen, NEW new, NEW old, NEW out, Ledger(c, seen, new, old, out),
           FamilyOK, TimesOK, TreesOK, SumNumbers, ~torn', SystemStep,
           NEW p \in Procs, NEW q \in Procs, WaitFor(q, p), OnlyLeave
    PROVE  LedgerExists'
<1> DEFINE c1 == Moved(c, p, q)
           seen1 == Moved(seen, p, q)
           new1 == Moved(new, p, q)
<1>1. /\ UNCHANGED <<procTree, newTree, todo, count, pc, used>>
      /\ UNCHANGED <<lostCPUTime, currentCPUTime, usage>>
      /\ status[q] = "running" /\ parent[p] = q /\ status[p] = "zombie"
      /\ status' = [status EXCEPT ![p] = "gone"]
      /\ cpu' = [cpu EXCEPT ![q] = @ + cpu[p], ![p] = 0]
      /\ q \in DOMAIN newTree => p \in DOMAIN newTree
  BY DEF WaitFor, SystemStep, Running, treeVars, timeVars, mainVars
<1>2. Account(c, seen, new, old, out) /\ Coming(old, out)
  BY DEF Ledger
<1>3. q < p /\ p # q /\ q # Other /\ parent[p] # Other
  BY <1>1, ProcsAre DEF FamilyOK, Other
<1>4. c \in Amounts /\ seen \in Amounts /\ new \in Amounts
  BY <1>2 DEF Account
<1>5. /\ c1 \in Amounts /\ Total(c1) = Total(c) /\ c1[p] = 0 /\ c1[q] = c[q] + c[p]
      /\ seen1 \in Amounts /\ Total(seen1) = Total(seen) /\ seen1[p] = 0
      /\ seen1[q] = seen[q] + seen[p]
      /\ new1 \in Amounts /\ Total(new1) = Total(new) /\ new1[p] = 0
      /\ new1[q] = new[q] + new[p]
      /\ \A r \in Procs : r # p /\ r # q =>
            c1[r] = c[r] /\ seen1[r] = seen[r] /\ new1[r] = new[r]
  BY <1>3, <1>4, MovedAmounts
<1> HIDE DEF c1, seen1, new1
<1>6. /\ InTree' = InTree /\ InTree \subseteq DOMAIN newTree /\ Reached(newTree, InTree)
  BY <1>1, ReachedPart DEF InTree
<1>7. p \in InTree <=> q \in InTree
  <2>1. ASSUME p \in InTree PROVE q \in InTree
    <3>1. newTree[p].parent = q
      BY <1>1, <1>3, <1>6, <2>1 DEF TreesOK, TreeOK, Known
    <3>2. p # Root
      BY <1>3, RootParent
    <3> QED
      BY <1>6, <2>1, <3>1, <3>2 DEF Reached
  <2>2. ASSUME q \in InTree PROVE p \in InTree
    <3>1. p \in DOMAIN newTree
      BY <1>1, <1>6, <2>2
    <3>2. newTree[p].parent = q /\ q \in 1..p - 1
      BY <1>1, <1>3, <3>1, ProcsAre DEF TreesOK, TreeOK, Known
    <3> QED
      BY <1>6, <2>2, <3>1, <3>2 DEF Reached
  <2> QED
    BY <2>1, <2>2
<1>8. (p \in old => q \in old) /\ (p \in out => q \in out)
  BY <1>1, <1>2, <1>3 DEF Account, OldOK, OutOK
<1>9. /\ Covers(c, seen, new, out, p) /\ Placed(seen, new, old, p)
      /\ Covers(c, seen, new, out, q) /\ Placed(seen, new, old, q)
  BY <1>2 DEF Account
<1>10. /\ cpu[p] \in Nat /\ c[p] \in Nat /\ seen[p] \in Nat /\ new[p] \in Nat
       /\ cpu[q] \in Nat /\ c[q] \in Nat /\ seen[q] \in Nat /\ new[q] \in Nat
  BY <1>4 DEF Amounts, TimesOK
<1>11. Exists(p) /\ Exists(q) /\ ~Exists(p)'
  BY <1>1 DEF Exists, FamilyOK
<1>12. cpu'[q] = cpu[q] + cpu[p] /\ cpu'[p] = 0
       /\ \A r \in Procs : r # p /\ r # q => cpu'[r] = cpu[r] /\ (Exists(r)' <=> Exists(r))
  BY <1>1, <1>3 DEF TimesOK, Exists, FamilyOK
<1>13. Covers(c1, seen1, new1, out, p)' /\ Placed(seen1, new1, old, p)'
  <2>1. Covers(c1, seen1, new1, out, p)'
    BY <1>5, <1>11 DEF Covers
  <2>2. Placed(seen1, new1, old, p)'
    BY <1>5 DEF Placed
  <2> QED
    BY <2>1, <2>2
<1>14. Covers(c1, seen1, new1, out, q)' /\ Placed(seen1, new1, old, q)'
  <2>1. Covers(c1, seen1, new1, out, q)'
    BY <1>5, <1>8, <1>9, <1>10, <1>11, <1>12 DEF Covers
  <2>2. Placed(seen1, new1, old, q)'
    BY <1>5, <1>6, <1>7, <1>8, <1>9, <1>10 DEF Placed
  <2> QED
    BY <2>1, <2>2
<1>15. ASSUME NEW r \in Procs, r # p, r # q
       PROVE  Covers(c1, seen1, new1, out, r)' /\ Placed(seen1, new1, old, r)'
  <2>1. Covers(c, seen, new, out, r) /\ Placed(seen, new, old, r)
    BY <1>2 DEF Account
  <2>2. c1[r] = c[r] /\ seen1[r] = seen[r] /\ new1[r] = new[r] /\ cpu'[r] = cpu[r]
        /\ (Exists(r)' <=> Exists(r))
    BY <1>5, <1>12, <1>15
  <2>3. Covers(c1, seen1, new1, out, r)'
    BY <2>1, <2>2 DEF Covers
  <2>4. Placed(seen1, new1, old, r)'
    BY <1>6, <2>1, <2>2 DEF Placed
  <2> QED
    BY <2>3, <2>4
<1>16. usage' <= c1[Root]
  <2>1. Root # p /\ c[Root] \in Nat /\ usage \in Int /\ usage <= c[Root]
    BY <1>2, <1>3, RootIsProc, RootParent DEF Account, Amounts, SumNumbers
  <2> QED
    BY <1>1, <1>5, <1>10, <2>1, RootIsProc
<1>17. Sums(c1, seen1, new1)'
  BY <1>1, <1>2, <1>5 DEF Sums, Account
<1>18. OldOK(old)' /\ OutOK(out)' /\ Shows(old, out)'
  BY <1>1, <1>2, <1>6 DEF Account, OldOK, OutOK, Shows, OnlyLeave
<1>19. Coming(old, out)'
  <2>1. Calm /\ old \subseteq Procs /\ OldOK(old)
    BY <1>1, <1>2 DEF Calm, Begins, Account
  <2> QED
    BY <1>1, <1>2, <2>1, ComingKept
<1>20. Account(c1, seen1, new1, old, out)'
  BY <1>2, <1>5, <1>13, <1>14, <1>15, <1>16, <1>17, <1>18 DEF Account
<1> QED
  BY <1>19, <1>20 DEF LedgerExists, Ledger

\* What the solver does keeps the books.
LEMMA SolverLedger ==
    ASSUME LedgerExists, FamilyOK, TimesOK, TreesOK, SumNumbers, ~torn', Solver
    PROVE  LedgerExists'
<1>1. PICK c, seen, new, old, out : Ledger(c, seen, new, old, out)
  BY DEF LedgerExists
<1>2. SystemStep /\ OnlyLeave
  BY SolverLeaves DEF Solver
<1>3. PICK p \in Procs : \/ Compute(p) \/ Exit(p) \/ Vanish(p) \/ SetSession(p)
                         \/ \E q \in Procs : Fork(p, q) \/ WaitFor(p, q)
  BY DEF Solver
<1>4. CASE Compute(p)
  BY <1>1, <1>2, <1>4, ComputeLedger
<1>5. ASSUME NEW q \in Procs, WaitFor(p, q)
      PROVE  LedgerExists'
  BY <1>1, <1>2, <1>5, WaitForLedger
<1>6. ASSUME \/ Exit(p) \/ Vanish(p) \/ SetSession(p) \/ \E q \in Procs : Fork(p, q)
      PROVE  LedgerExists'
  <2>1. Follows /\ used' = used
    <3>1. CASE Exit(p)
      BY <3>1 DEF Exit, Ended, Follows, Exists, Running, FamilyOK
    <3>2. CASE Vanish(p)
      BY <3>2 DEF Vanish, Follows, Exists, FamilyOK, TimesOK
    <3>3. CASE SetSession(p)
      BY <3>3 DEF SetSession, Follows, Exists
    <3>4. ASSUME NEW q \in Procs, Fork(p, q) PROVE Follows /\ used' = used
      BY <3>4 DEF Fork, Follows, Exists, FamilyOK, TimesOK
    <3> QED
      BY <1>6, <3>1, <3>2, <3>3, <3>4
  <2>2. /\ UNCHANGED <<procTree, newTree, lostCPUTime, currentCPUTime, usage>> /\ Calm
    BY <1>2 DEF SystemStep, treeVars, timeVars, mainVars, Calm, Begins
  <2>3. Ledger(c, seen, new, old, out)'
    <3>1. usage' <= c[Root] /\ TreeOK(newTree)
      BY <1>1, <2>2 DEF Ledger, Account, TreesOK
    <3> QED
      BY <1>1, <1>2, <2>1, <2>2, <3>1, LedgerKept
  <2> QED
    BY <2>3 DEF LedgerExists
<1> QED
  BY <1>3, <1>4, <1>5, <1>6
-----------------------------------------------------------------------------
ZeroAmount == [p \in Procs |-> 0]

LEMMA ZeroIs ==
    ZeroAmount \in Amounts /\ Total(ZeroAmount) = 0 /\ \A p \in Procs : ZeroAmount[p] = 0
<1>1. ZeroAmount \in Amounts /\ \A p \in Procs : ZeroAmount[p] = 0
  BY DEF ZeroAmount, Amounts
<1> QED
  BY <1>1, AmountsAreTimes, TotalZero

\* An empty sample has no time.
LEMMA EmptyTree ==
    ASSUME newTree = <<>>
    PROVE  InTree = {} /\ CPUOf(Reachable(newTree)) = 0
<1>1. DOMAIN newTree = {}
  OBVIOUS
<1>2. InTree = {} /\ DOMAIN Reachable(newTree) = {}
  BY <1>1, ReachedPart DEF InTree
<1>3. /\ Share(Reachable(newTree)) \in Times
      /\ CPUOf(Reachable(newTree)) = Total(Share(Reachable(newTree)))
  BY <1>2, CPUIsTotal
<1>4. \A p \in Procs : Share(Reachable(newTree))[p] = 0
  BY <1>2 DEF Share
<1> QED
  BY <1>2, <1>3, <1>4, TotalZero

\* A sample that begins.
LEMMA BegunLedger ==
    ASSUME LedgerExists, FamilyOK, TreesOK, NEW t \in Samplers, Begun(t), ThreadsOK
    PROVE  LedgerExists'
<1>1. PICK c, seen, new, old, out : Ledger(c, seen, new, old, out)
  BY DEF LedgerExists
<1>2. /\ newTree' = <<>> /\ newTree = <<>> /\ UNCHANGED <<status, parent, cpu, used, procTree, count>>
      /\ UNCHANGED <<lostCPUTime, currentCPUTime, usage>> /\ NobodyReads
      /\ pc' = [pc EXCEPT ![t] = "read"]
      /\ todo' = IF Full(t) THEN {p \in Procs : status[p] # "gone"} ELSE {Root}
  BY DEF Begun, StartSample, Goto, solverVars, timeVars, mainVars, TreesOK, ReadingOK
<1>3. Account(c, seen, new, old, out) /\ TreeOK(newTree)
  BY <1>1 DEF Ledger, TreesOK
<1>4. OnlyLeave /\ Follows /\ usage' <= c[Root]
  BY <1>2, <1>3 DEF OnlyLeave, Follows, Exists, Account
<1>5. Account(c, seen, new, old, out)'
  BY <1>2, <1>3, <1>4, AccountKept
<1>6. \A u \in Samplers : pc'[u] = "read" => u = t
  BY <1>2 DEF NobodyReads, ThreadsOK, Threads, Samplers
<1>7. DOMAIN newTree' = {} /\ Full(t)' = Full(t)
  BY <1>2 DEF Full
<1>8. ASSUME NEW p \in old \ out, parent[p] # Other
      PROVE  p \in {q \in Procs : status[q] # "gone"}
  BY <1>3, <1>8 DEF Account, FamilyOK, Exists
<1>9. Coming(old, out)'
  BY <1>2, <1>6, <1>7, <1>8 DEF Coming
<1> QED
  BY <1>5, <1>9 DEF LedgerExists, Ledger

\* A sample that is dropped.
LEMMA DropLedger ==
    ASSUME LedgerExists, TimesOK, TreesOK, Turns, ThreadsOK, NEW t \in Samplers,
           DropSample(t)
    PROVE  LedgerExists'
<1>1. PICK c, seen, new, old, out : Ledger(c, seen, new, old, out)
  BY DEF LedgerExists
<1> DEFINE z == ZeroAmount
<1>2. /\ newTree' = <<>> /\ UNCHANGED <<status, parent, cpu, used, procTree>>
      /\ UNCHANGED <<lostCPUTime, currentCPUTime, usage>>
      /\ pc[t] = "read"
      /\ pc' = [pc EXCEPT ![t] = IF t = "timer" THEN "rootEnded" ELSE "sampled"]
  BY DEF DropSample, At, Goto, solverVars, timeVars, mainVars
<1>3. Account(c, seen, new, old, out)
  BY <1>1 DEF Ledger
<1>4. InTree' = {} /\ CPUOf(Reachable(newTree'))= 0
  <2>1. DOMAIN newTree' = {}
    BY <1>2
  <2>2. DOMAIN Reachable(newTree') = {}
    BY <2>1, ReachedPart
  <2>3. \A p \in Procs : Share(Reachable(newTree'))[p] = 0
    BY <2>2 DEF Share
  <2> QED
    BY <2>2, <2>3, CPUIsTotal, TotalZero DEF InTree
<1>5. Sums(c, seen, z)'
  BY <1>2, <1>3, <1>4, ZeroIs DEF Account, Sums
<1>6. ASSUME NEW p \in Procs
      PROVE  Covers(c, seen, z, out, p)' /\ Placed(seen, z, old, p)'
  <2>1. Covers(c, seen, new, out, p) /\ Placed(seen, new, old, p) /\ z[p] = 0
        /\ new[p] \in Nat /\ (Exists(p)' <=> Exists(p)) /\ c[p] \in Nat /\ seen[p] \in Nat
    BY <1>2, <1>3, ZeroIs DEF Account, Amounts, Exists
  <2> HIDE DEF z
  <2>2. Covers(c, seen, z, out, p)'
    <3>1. seen[p] <= c[p] /\ 0 <= c[p]
      BY <2>1 DEF Covers
    <3>2. ASSUME Exists(p)' PROVE seen[p] <= cpu[p] /\ 0 <= cpu[p] /\ (p \notin out => cpu[p] <= c[p])
      BY <2>1, <3>2 DEF Covers, TimesOK
    <3> QED
      BY <1>2, <2>1, <3>1, <3>2 DEF Covers
  <2>3. Placed(seen, z, old, p)'
    BY <1>4, <2>1 DEF Placed
  <2> QED
    BY <2>2, <2>3
<1>7. OldOK(old)' /\ OutOK(out)' /\ Shows(old, out)'
  BY <1>2, <1>3, <1>4 DEF Account, OldOK, OutOK, Shows
<1>8. \A u \in Samplers : pc'[u] # "read"
  BY <1>2, OneReads DEF ThreadsOK, Threads, Samplers
<1>9. Account(c, seen, z, old, out)'
  BY <1>2, <1>3, <1>5, <1>6, <1>7, ZeroIs DEF Account
<1> QED
  BY <1>8, <1>9 DEF LedgerExists, Ledger, Coming

\* An entry that cannot be read is reached by nothing, unless it is the solver.
LEMMA ReadVanishedLedger ==
    ASSUME LedgerExists, FamilyOK, TreesOK, Turns, ThreadsOK, NEW t \in Samplers,
           ReadVanished(t), ~torn'
    PROVE  LedgerExists'
<1>1. PICK c, seen, new, old, out : Ledger(c, seen, new, old, out)
  BY DEF LedgerExists
<1>2. PICK p \in Procs : /\ InTurn(t, p) /\ status[p] = "gone"
                         /\ newTree' = Added(p, NothingRead) /\ todo' = todo \ {p}
                         /\ torn' = (torn \/ p = Root)
  BY DEF ReadVanished, Added, NothingRead
<1>3. /\ pc[t] = "read" /\ Full(t) /\ UNCHANGED <<status, parent, cpu, used, pc, procTree, count>>
      /\ UNCHANGED <<lostCPUTime, currentCPUTime, usage>>
      /\ Full(t)' = Full(t) /\ p \in todo /\ p # Root
  BY <1>2 DEF ReadVanished, At, solverVars, timeVars, mainVars, Full, InTurn
<1>4. TreeOK(newTree) /\ FullOrder
  BY <1>3 DEF TreesOK, ReadingOK
<1>5. p \notin DOMAIN newTree /\ \A q \in DOMAIN newTree : newTree[q].parent # p
  BY <1>3, <1>4, ProcsAre DEF FullOrder, TreeOK, Known
<1>6. NothingRead.parent = 0 /\ NothingRead.cpu = 0 /\ 0 \notin InTree
  BY ProcsAre, ReachedPart DEF NothingRead, Other, InTree
<1>7. InTree' = InTree
  <2>1. NothingRead.parent \in Nat /\ NothingRead.parent < p
    BY <1>6, ProcsAre
  <2> QED
    BY <1>2, <1>3, <1>4, <1>5, <1>6, <2>1, ReachGrows
<1>8. Reachable(newTree') = Reachable(newTree)
  <2>1. \A q \in InTree : newTree'[q] = newTree[q]
    BY <1>2, <1>5, ReachedPart DEF Added, InTree
  <2>2. /\ Reachable(newTree) = [q \in InTree |-> newTree[q]]
        /\ Reachable(newTree') = [q \in InTree |-> newTree'[q]]
    BY <1>7, ReachedPart DEF InTree
  <2> QED
    BY <2>1, <2>2
<1>9. Account(c, seen, new, old, out) /\ Coming(old, out)
  BY <1>1 DEF Ledger
<1>10. Sums(c, seen, new)'
  BY <1>3, <1>8, <1>9 DEF Account, Sums
<1>11. \A q \in Procs : Covers(c, seen, new, out, q)' /\ Placed(seen, new, old, q)'
  BY <1>3, <1>7, <1>9 DEF Account, Covers, Placed, Exists
<1>12. OldOK(old)' /\ OutOK(out)' /\ Shows(old, out)'
  BY <1>3, <1>7, <1>9 DEF Account, OldOK, OutOK, Shows
<1>13. DOMAIN newTree' \cup todo' = DOMAIN newTree \cup todo
  BY <1>2, <1>3 DEF Added
<1>14. \A u \in Samplers : pc'[u] = "read" => u = t
  BY <1>3, OneReads
<1>15. Coming(old, out)'
  BY <1>3, <1>9, <1>13, <1>14 DEF Coming
<1> QED
  BY <1>3, <1>9, <1>10, <1>11, <1>12, <1>15 DEF LedgerExists, Ledger, Account

\* Where the new entry goes: below no entry that is there.
LEMMA NewEntry ==
    ASSUME TreesOK, NEW t \in Samplers, pc[t] = "read", NEW p \in Procs, p \in todo
    PROVE  p \notin DOMAIN newTree /\ \A q \in DOMAIN newTree : newTree[q].parent # p
<1>1. TreeOK(newTree) /\ TreeOK(procTree)
  BY DEF TreesOK
<1>2. CASE Full(t)
  <2>1. FullOrder
    BY <1>2 DEF TreesOK, ReadingOK
  <2> QED
    BY <1>1, <2>1, ProcsAre DEF FullOrder, TreeOK, Known
<1>3. CASE ~Full(t)
  <2>1. TopDown
    BY <1>3 DEF TreesOK, ReadingOK
  <2>2. p \notin DOMAIN newTree
    BY <2>1 DEF TopDown
  <2>3. ASSUME NEW q \in DOMAIN newTree PROVE newTree[q].parent # p
    <3>1. CASE q = Root
      BY <1>1, <3>1, ProcsAre DEF TreeOK, Known, Root
    <3>2. CASE q # Root
      BY <2>1, <2>2, <3>2 DEF TopDown
    <3> QED
      BY <3>1, <3>2
  <2> QED
    BY <2>2, <2>3
<1> QED
  BY <1>2, <1>3

\* The sum of a sample grows by what the new entry has, if it is reached.
LEMMA SumGrows ==
    ASSUME TreeOK(newTree), NEW p \in Procs, NEW e, e.cpu \in Nat,
           p \notin DOMAIN newTree, newTree' = Added(p, e),
           InTree' = InTree \/ InTree' = InTree \cup {p}, TreeOK(newTree)'
    PROVE  CPUOf(Reachable(newTree'))
             = CPUOf(Reachable(newTree)) + (IF p \in InTree' THEN e.cpu ELSE 0)
<1> DEFINE a == Share(Reachable(newTree))
           b == Share(Reachable(newTree'))
<1>1. /\ \A q \in InTree : Reachable(newTree)[q] = newTree[q]
      /\ \A q \in InTree' : Reachable(newTree')[q] = newTree'[q]
      /\ InTree \subseteq DOMAIN newTree /\ InTree' \subseteq DOMAIN newTree'
      /\ InTree = DOMAIN Reachable(newTree) /\ InTree' = DOMAIN Reachable(newTree')
  BY ReachedPart DEF InTree
<1>2. \A q \in DOMAIN newTree : newTree[q].cpu \in Nat
  BY DEF TreeOK, Known
<1>3. \A q \in DOMAIN newTree' : newTree'[q].cpu \in Nat
  BY DEF TreeOK, Known
<1>4. \A q \in InTree : Reachable(newTree)[q].cpu \in Int
  BY <1>1, <1>2
<1>5. \A q \in InTree' : Reachable(newTree')[q].cpu \in Int
  BY <1>1, <1>3
<1>6. a \in Times /\ CPUOf(Reachable(newTree)) = Total(a)
  BY <1>1, <1>4, CPUIsTotal
<1>7. b \in Times /\ CPUOf(Reachable(newTree')) = Total(b)
  BY <1>1, <1>5, CPUIsTotal
<1>8. \A q \in InTree : q # p /\ newTree'[q] = newTree[q]
  BY <1>1 DEF Added
<1>9. newTree'[p] = e
  BY DEF Added
<1>10. ASSUME NEW q \in Procs
       PROVE  b[q] = IF q = p THEN a[q] + (IF p \in InTree' THEN e.cpu ELSE 0) ELSE a[q]
  <2>1. /\ a[q] = IF q \in InTree THEN newTree[q].cpu ELSE 0
        /\ b[q] = IF q \in InTree' THEN newTree'[q].cpu ELSE 0
    BY <1>1 DEF Share
  <2> HIDE DEF a, b
  <2>2. CASE q = p
    BY <1>8, <1>9, <2>1, <2>2
  <2>3. CASE q # p
    BY <1>8, <2>1, <2>3
  <2> QED
    BY <2>2, <2>3
<1> HIDE DEF a, b
<1>11. (IF p \in InTree' THEN e.cpu ELSE 0) \in Int
  OBVIOUS
<1> QED
  BY <1>6, <1>7, <1>10, <1>11, TotalMore

\* A process that is read: its time is in the sample, if the tree reaches it.
LEMMA ReadLedger ==
    ASSUME LedgerExists, FamilyOK, TimesOK, TreesOK, TreesOK', Turns, ThreadsOK,
           NEW t \in Samplers, ReadProcess(t), SumNumbers
    PROVE  LedgerExists'
<1>1. PICK c, seen, new, old, out : Ledger(c, seen, new, old, out)
  BY DEF LedgerExists
<1>0. PICK p \in Procs : \E e, below : OneRead(t, p, e, below)
  BY ReadOne
<1>r. PICK e, below : OneRead(t, p, e, below)
  BY <1>0
<1>2. /\ InTurn(t, p)
      /\ e.cpu = cpu[p]
      /\ e.parent = IF Full(t) THEN parent[p] ELSE procTree[p].parent
      /\ below = IF Full(t) THEN {} ELSE Children(procTree, p)
      /\ IF Reads(t, p)
         THEN newTree' = Added(p, e) /\ todo' = (todo \ {p}) \cup below
         ELSE newTree' = newTree /\ todo' = todo \ {p}
  BY <1>r DEF OneRead
<1>3. /\ pc[t] = "read" /\ UNCHANGED <<status, parent, cpu, used, pc, procTree, count>>
      /\ UNCHANGED <<lostCPUTime, currentCPUTime, usage>>
      /\ Full(t)' = Full(t) /\ p \in todo
  BY <1>2 DEF ReadProcess, At, solverVars, timeVars, mainVars, Full, InTurn
<1>4. Account(c, seen, new, old, out) /\ Coming(old, out)
  BY <1>1 DEF Ledger
<1>5. /\ TreeOK(newTree) /\ TreeOK(procTree) /\ TreeOK(newTree)'
  BY DEF TreesOK
<1>6. \A u \in Samplers : pc'[u] = "read" => u = t
  BY <1>3, OneReads
<1>7. CASE Reads(t, p)
  <2>1. /\ newTree' = Added(p, e) /\ Exists(p) /\ (~Full(t) => p \in DOMAIN procTree)
        /\ todo' = (todo \ {p}) \cup below
    BY <1>2, <1>7 DEF Reads
  <2>2. p \notin DOMAIN newTree /\ \A q \in DOMAIN newTree : newTree[q].parent # p
    BY <1>3, NewEntry
  <2>3. e.cpu = cpu[p] /\ cpu[p] \in Nat /\ e.parent \in Nat /\ e.parent < p
    BY <1>2, <1>5, <2>1 DEF TimesOK, FamilyOK, TreeOK, Known
  <2>4. InTree' = IF p = Root \/ e.parent \in InTree THEN InTree \cup {p} ELSE InTree
    BY <1>5, <2>1, <2>2, <2>3, ReachGrows
  <2>5. p \notin InTree
    BY <2>2, ReachedPart DEF InTree
  <2>6. ASSUME p \in InTree' PROVE p \notin out
    <3>1. p = Root \/ e.parent \in InTree
      BY <2>4, <2>5, <2>6
    <3>2. ASSUME p \in out PROVE FALSE
      <4>1. p # Root /\ p \notin DOMAIN procTree /\ (parent[p] = Other \/ parent[p] \in out)
        BY <1>4, <3>2 DEF Account, OutOK
      <4>2. e.parent = parent[p] /\ e.parent \in InTree
        BY <1>2, <2>1, <3>1, <4>1
      <4>3. e.parent # Other
        BY <4>2, ReachedPart, ProcsAre DEF InTree, Other
      <4>4. e.parent \in out
        BY <4>1, <4>2, <4>3
      <4> QED
        BY <1>4, <4>2, <4>4 DEF Account, OutOK
    <3> QED
      BY <3>2
  <2>7. new[p] = 0 /\ new \in Amounts
    BY <1>4, <2>5 DEF Account, Placed
  <2>8. PICK v \in Nat : v = IF p \in InTree' THEN cpu[p] ELSE 0
    BY <2>3
  <2>9. PICK new1 \in Amounts : new1[p] = v /\ \A q \in Procs : q # p => new1[q] = new[q]
    <3>1. [new EXCEPT ![p] = v] \in Amounts
      BY <2>7 DEF Amounts
    <3> QED
      BY <2>7, <3>1 DEF Amounts
  <2>10. Total(new1) = Total(new) + v
    <3>1. \A q \in Procs : new1[q] = IF q = p THEN new[q] + v ELSE new[q]
      BY <2>7, <2>8, <2>9
    <3> QED
      BY <2>7, <2>8, <2>9, <3>1, AmountsAreTimes, TotalMore
  <2>11. CPUOf(Reachable(newTree')) = CPUOf(Reachable(newTree)) + v
    BY <1>5, <2>1, <2>2, <2>3, <2>4, <2>8, SumGrows
  <2>12. Sums(c, seen, new1)'
    BY <1>3, <1>4, <2>10, <2>11 DEF Account, Sums
  <2>13. ASSUME NEW q \in Procs
         PROVE  Covers(c, seen, new1, out, q)' /\ Placed(seen, new1, old, q)'
    <3>1. Covers(c, seen, new, out, q) /\ Placed(seen, new, old, q)
          /\ (Exists(q)' <=> Exists(q)) /\ cpu'[q] = cpu[q]
      BY <1>3, <1>4 DEF Account, Exists
    <3>2. CASE q = p
      <4>1. c[p] \in Nat /\ seen[p] \in Nat /\ cpu[p] \in Nat
        BY <1>4, <2>3 DEF Account, Amounts
      <4>2. seen[p] <= cpu[p] /\ seen[p] <= c[p] /\ (p \notin out => cpu[p] <= c[p])
        BY <2>1, <3>1, <3>2 DEF Covers
      <4>3. v <= cpu[p] /\ v <= c[p]
        BY <2>6, <2>8, <4>1, <4>2
      <4>4. Covers(c, seen, new1, out, q)'
        BY <2>9, <3>1, <3>2, <4>2, <4>3 DEF Covers
      <4>5. Placed(seen, new1, old, q)'
        BY <2>8, <2>9, <3>1, <3>2, <4>2 DEF Placed
      <4> QED
        BY <4>4, <4>5
    <3>3. CASE q # p
      <4>1. new1[q] = new[q] /\ (q \in InTree' <=> q \in InTree)
        BY <2>4, <2>9, <3>3
      <4>2. Covers(c, seen, new1, out, q)'
        BY <3>1, <4>1 DEF Covers
      <4>3. Placed(seen, new1, old, q)'
        BY <3>1, <4>1 DEF Placed
      <4> QED
        BY <4>2, <4>3
    <3> QED
      BY <3>2, <3>3
  <2>14. OldOK(old)' /\ Shows(old, out)'
    BY <1>3, <1>4 DEF Account, OldOK, Shows
  <2>15. OutOK(out)'
    BY <1>3, <1>4, <2>4, <2>6 DEF Account, OutOK
  <2>16. DOMAIN newTree' = DOMAIN newTree \cup {p}
    BY <2>1 DEF Added
  <2>17. ASSUME NEW q \in old \ out, parent[q] # Other
         PROVE  IF Full(t) THEN q \in DOMAIN newTree' \cup todo'
                ELSE parent[q] \in DOMAIN newTree' => q \in DOMAIN newTree' \cup todo'
    <3>1. IF Full(t) THEN q \in DOMAIN newTree \cup todo
          ELSE parent[q] \in DOMAIN newTree => q \in DOMAIN newTree \cup todo
      BY <1>3, <1>4, <2>17 DEF Coming
    <3>2. CASE Full(t)
      BY <2>1, <2>16, <3>1, <3>2
    <3>3. CASE ~Full(t) /\ parent[q] = p
      <4>1. q \in DOMAIN procTree
        BY <1>4, <2>17 DEF Account, Shows
      <4>2. procTree[q].parent = p
        BY <1>5, <2>17, <3>3, <4>1 DEF TreeOK, Known
      <4>3. q \in Children(procTree, p)
        BY <4>1, <4>2 DEF Children
      <4> QED
        BY <1>2, <2>1, <3>3, <4>3
    <3>4. CASE ~Full(t) /\ parent[q] # p
      BY <2>1, <2>16, <3>1, <3>4
    <3> QED
      BY <3>2, <3>3, <3>4
  <2>18. Coming(old, out)'
    BY <1>3, <1>6, <2>17 DEF Coming
  <2>19. Account(c, seen, new1, old, out)'
    BY <1>3, <1>4, <2>9, <2>12, <2>13, <2>14, <2>15 DEF Account
  <2> QED
    BY <2>18, <2>19 DEF LedgerExists, Ledger
<1>8. CASE ~Reads(t, p)
  <2>1. newTree' = newTree /\ todo' = todo \ {p}
    BY <1>2, <1>8
  <2>2. OnlyLeave /\ Follows /\ usage' <= c[Root]
    BY <1>3, <1>4 DEF OnlyLeave, Follows, Exists, Account
  <2>3. Account(c, seen, new, old, out)'
    BY <1>3, <1>4, <1>5, <2>1, <2>2, AccountKept
  <2>4. ASSUME NEW q \in old \ out, parent[q] # Other
        PROVE  IF Full(t) THEN q \in DOMAIN newTree' \cup todo'
               ELSE parent[q] \in DOMAIN newTree' => q \in DOMAIN newTree' \cup todo'
    <3>1. IF Full(t) THEN q \in DOMAIN newTree \cup todo
          ELSE parent[q] \in DOMAIN newTree => q \in DOMAIN newTree \cup todo
      BY <1>3, <1>4, <2>4 DEF Coming
    <3>2. Exists(q) /\ q \in DOMAIN procTree
      BY <1>4, <2>4 DEF Account, FamilyOK, Shows
    <3>3. q # p
      BY <1>8, <3>2 DEF Reads
    <3> QED
      BY <2>1, <3>1, <3>3
  <2>5. Coming(old, out)'
    BY <1>3, <1>6, <2>4 DEF Coming
  <2> QED
    BY <2>3, <2>5 DEF LedgerExists, Ledger
<1> QED
  BY <1>7, <1>8

\* The books of a sample that is kept: what is lost is taken from the processes
\* that lost it.
LEMMA KeptTimes ==
    ASSUME NEW c \in Amounts, NEW seen \in Amounts, NEW new \in Amounts,
           \A p \in Procs : seen[p] <= c[p] /\ new[p] <= c[p],
           NEW lost \in Int, NEW u \in Int, lost + Total(c) <= u
    PROVE  \E d \in Amounts :
             /\ (lost + Lost(Total(seen), Total(new))) + Total(d) <= u
             /\ \A p \in Procs : /\ new[p] <= d[p]
                                 /\ seen[p] <= new[p] => c[p] <= d[p]
<1>1. Total(c) \in Int /\ Total(seen) \in Int /\ Total(new) \in Int
  BY AmountsAreTimes, TotalAdds
<1>2. CASE Total(new) < Total(seen)
  <2> DEFINE d == [p \in Procs |-> (c[p] - seen[p]) + new[p]]
  <2>1. ASSUME NEW p \in Procs
        PROVE  /\ (c[p] - seen[p]) + new[p] \in Nat /\ new[p] <= (c[p] - seen[p]) + new[p]
               /\ seen[p] <= new[p] => c[p] <= (c[p] - seen[p]) + new[p]
    <3>1. c[p] \in Nat /\ seen[p] \in Nat /\ new[p] \in Nat /\ seen[p] <= c[p]
      BY DEF Amounts
    <3> QED
      BY <3>1
  <2>2. d \in Amounts /\ \A p \in Procs : d[p] = (c[p] - seen[p]) + new[p]
    BY <2>1 DEF Amounts
  <2> HIDE DEF d
  <2>3. Total(d) = (Total(c) - Total(seen)) + Total(new)
    BY <2>2, AmountsAreTimes, TotalLinear
  <2>4. Lost(Total(seen), Total(new)) = Total(seen) - Total(new)
    BY <1>2 DEF Lost
  <2>5. (lost + Lost(Total(seen), Total(new))) + Total(d) <= u
    BY <1>1, <2>3, <2>4
  <2> QED
    BY <2>1, <2>2, <2>5
<1>3. CASE ~(Total(new) < Total(seen))
  <2>1. Lost(Total(seen), Total(new)) = 0
    BY <1>3 DEF Lost
  <2>2. (lost + Lost(Total(seen), Total(new))) + Total(c) <= u
    BY <1>1, <2>1
  <2>3. \A p \in Procs : c[p] <= c[p]
    BY DEF Amounts
  <2> QED
    BY <2>2, <2>3
<1> QED
  BY <1>2, <1>3

\* A sample that is kept becomes the last one; the processes that it misses are
\* out for good.
LEMMA KeepLedger ==
    ASSUME LedgerExists, FamilyOK, TimesOK, TreesOK, Turns, ThreadsOK,
           NEW t \in Samplers, KeepSample(t), SumNumbers
    PROVE  LedgerExists'
<1>1. PICK c, seen, new, old, out : Ledger(c, seen, new, old, out)
  BY DEF LedgerExists
<1>2. Account(c, seen, new, old, out) /\ Coming(old, out)
  BY <1>1 DEF Ledger
<1>3. /\ pc[t] = "read" /\ UNCHANGED <<status, parent, cpu, used, usage>>
      /\ procTree' = Reachable(newTree) /\ newTree' = <<>> /\ todo = {}
      /\ Root \in DOMAIN newTree
      /\ currentCPUTime' = CPUOf(procTree')
      /\ lostCPUTime' = lostCPUTime + Lost(currentCPUTime, currentCPUTime')
      /\ \E l \in {"cas", "sampled"} : pc' = [pc EXCEPT ![t] = l]
  BY DEF KeepSample, At, Goto, solverVars, mainVars, RootProcessEnded
<1>4. PICK K : K = InTree
  OBVIOUS
<1>5. PICK gone : gone = out \cup (old \ K)
  OBVIOUS
<1>6. /\ K \subseteq Procs /\ K \subseteq DOMAIN newTree /\ DOMAIN procTree' = K
      /\ Reached(newTree, K) /\ Root \in K
  BY <1>3, <1>4, ReachedPart, RootIsProc DEF InTree, Reached
<1>7. TreeOK(newTree)
  BY DEF TreesOK
<1>8. \A p \in Procs : Covers(c, seen, new, out, p) /\ Placed(seen, new, old, p)
  BY <1>2 DEF Account
<1>9. /\ c \in Amounts /\ seen \in Amounts /\ new \in Amounts
      /\ old \subseteq Procs /\ out \subseteq Procs
      /\ lostCPUTime + Total(c) <= used /\ Total(seen) = currentCPUTime
      /\ Total(new) = currentCPUTime'
  BY <1>2, <1>3 DEF Account, Sums
<1>10. PICK d \in Amounts :
         /\ (lostCPUTime + Lost(Total(seen), Total(new))) + Total(d) <= used
         /\ \A p \in Procs : /\ new[p] <= d[p]
                             /\ seen[p] <= new[p] => c[p] <= d[p]
  <2>1. \A p \in Procs : seen[p] <= c[p] /\ new[p] <= c[p]
    BY <1>8 DEF Covers
  <2>2. lostCPUTime \in Int /\ used \in Int
    BY DEF SumNumbers, TimesOK
  <2> QED
    BY <1>9, <2>1, <2>2, KeptTimes
<1>11. InTree' = {} /\ CPUOf(Reachable(newTree')) = 0
  <2>1. DOMAIN newTree' = {}
    BY <1>3
  <2>2. DOMAIN Reachable(newTree') = {}
    BY <2>1, ReachedPart
  <2>3. \A p \in Procs : Share(Reachable(newTree'))[p] = 0
    BY <2>2 DEF Share
  <2> QED
    BY <2>2, <2>3, CPUIsTotal, TotalZero DEF InTree
<1>12. PICK z \in Amounts : Total(z) = 0 /\ \A p \in Procs : z[p] = 0
  BY ZeroIs
<1>13. Sums(d, new, z)'
  BY <1>3, <1>9, <1>10, <1>11, <1>12 DEF Sums
<1>14. ASSUME NEW p \in Procs, p \notin gone PROVE c[p] <= d[p]
  <2>1. p \in old => p \in K
    BY <1>5, <1>14
  <2>2. seen[p] <= new[p]
    <3>1. CASE p \in old
      BY <1>4, <1>8, <2>1, <3>1 DEF Placed
    <3>2. CASE p \notin old
      <4>1. seen[p] = 0 /\ new[p] \in Nat
        BY <1>8, <1>9, <3>2 DEF Placed, Amounts
      <4> QED
        BY <4>1
    <3> QED
      BY <3>1, <3>2
  <2> QED
    BY <1>10, <2>2
<1>15. ASSUME NEW p \in Procs
       PROVE  Covers(d, new, z, gone, p)' /\ Placed(new, z, K, p)'
  <2>1. Covers(c, seen, new, out, p) /\ Placed(seen, new, old, p)
    BY <1>8
  <2>2. /\ z[p] = 0 /\ d[p] \in Nat /\ c[p] \in Nat /\ cpu[p] \in Nat /\ new[p] <= d[p]
        /\ (Exists(p)' <=> Exists(p)) /\ cpu'[p] = cpu[p]
    BY <1>3, <1>9, <1>10, <1>12 DEF Amounts, TimesOK, Exists
  <2>3. ASSUME Exists(p)
        PROVE  /\ new[p] <= cpu[p] /\ z[p] <= cpu[p]
               /\ p \notin gone => cpu[p] <= d[p]
    <3>1. new[p] <= cpu[p] /\ (p \notin out => cpu[p] <= c[p])
      BY <2>1, <2>3 DEF Covers
    <3>2. p \notin gone => p \notin out
      BY <1>5
    <3> QED
      BY <1>14, <2>2, <3>1, <3>2
  <2>4. Covers(d, new, z, gone, p)'
    BY <2>2, <2>3 DEF Covers
  <2>5. Placed(new, z, K, p)'
    BY <1>4, <1>11, <2>1, <2>2 DEF Placed
  <2> QED
    BY <2>4, <2>5
<1>16. usage' <= d[Root]
  <2>1. Root \notin gone
    BY <1>2, <1>5, <1>6 DEF Account, OutOK
  <2>2. c[Root] <= d[Root] /\ usage <= c[Root] /\ c[Root] \in Nat /\ d[Root] \in Nat
        /\ usage \in Int
    BY <1>2, <1>9, <1>14, <2>1, RootIsProc DEF Account, Amounts, SumNumbers
  <2> QED
    BY <1>3, <2>2
<1>17. OldOK(K)'
  <2>1. ASSUME NEW p \in K
        PROVE  status[p] # "none" /\ (parent[p] # Other => parent[p] \in K)
    <3>1. Known(newTree, p) /\ p \in Procs
      BY <1>6, <1>7 DEF TreeOK
    <3>2. ASSUME parent[p] # Other PROVE parent[p] \in K
      <4>1. p # Root /\ newTree[p].parent = parent[p]
        BY <3>1, <3>2, RootParent DEF Known
      <4> QED
        BY <1>6, <3>1, <4>1 DEF Reached
    <3> QED
      BY <3>1, <3>2 DEF Known
  <2> QED
    BY <1>3, <2>1 DEF OldOK
<1>18. ASSUME NEW p \in old, p \notin K, p \notin out, parent[p] # Other
       PROVE  parent[p] \in old /\ parent[p] \notin K
  <2>1. parent[p] \in old /\ p \in Procs
    BY <1>2, <1>18 DEF Account, OldOK
  <2>2. IF Full(t) THEN p \in DOMAIN newTree
        ELSE parent[p] \in DOMAIN newTree => p \in DOMAIN newTree
    BY <1>2, <1>3, <1>18 DEF Coming
  <2>3. ASSUME parent[p] \in K PROVE FALSE
    <3>1. p \in DOMAIN newTree
      BY <1>6, <2>2, <2>3
    <3>2. newTree[p].parent = parent[p] /\ parent[p] < p /\ parent[p] \in Nat
      BY <1>7, <1>18, <3>1 DEF TreeOK, Known
    <3>3. parent[p] \in 1..p - 1
      BY <2>1, <2>3, <3>2, <1>6, ProcsAre
    <3> QED
      BY <1>6, <1>18, <2>1, <2>3, <3>1, <3>2, <3>3 DEF Reached
  <2> QED
    BY <2>1, <2>3
<1>19. OutOK(gone)'
  <2>1. ASSUME NEW p \in gone
        PROVE  /\ status[p] # "none" /\ p # Root
               /\ parent[p] = Other \/ parent[p] \in gone
               /\ p \notin K
    <3>1. CASE p \in out
      BY <1>2, <1>4, <1>5, <3>1 DEF Account, OutOK
    <3>2. CASE p \notin out
      <4>1. p \in old /\ p \notin K
        BY <1>5, <3>2, <2>1
      <4>2. status[p] # "none" /\ p # Root
        BY <1>2, <1>6, <4>1 DEF Account, OldOK
      <4> QED
        BY <1>5, <1>18, <3>2, <4>1, <4>2
    <3> QED
      BY <3>1, <3>2
  <2> QED
    BY <1>3, <1>6, <1>11, <2>1 DEF OutOK
<1>20. Shows(K, gone)'
  BY <1>6 DEF Shows
<1>21. \A u \in Samplers : pc'[u] # "read"
  BY <1>3, OneReads DEF ThreadsOK, Threads, Samplers
<1>22. gone \subseteq Procs
  BY <1>5, <1>9
<1>23. Account(d, new, z, K, gone)'
  BY <1>6, <1>9, <1>10, <1>12, <1>13, <1>15, <1>16, <1>17, <1>19, <1>20, <1>22 DEF Account
<1> QED
  BY <1>21, <1>23 DEF LedgerExists, Ledger, Coming

-----------------------------------------------------------------------------
\* Processes whose parent left the family, and what is below them, are not read
\* any more.
LEMMA OutNotRead ==
    ASSUME FamilyOK, NEW out \in SUBSET Procs,
           \A p \in out : p # Root /\ (parent[p] = Other \/ parent[p] \in out)
    PROVE  out \cap DOMAIN ReadAtOnce = {}
<1> DEFINE R == DOMAIN ReadAtOnce
           S == {n \in 0..NProcs : \A p \in 1..n : ~(p \in out /\ p \in R)}
<1>1. ReadAtOnce = Reachable(Present)
  BY DEF ReadAtOnce, Present
<1>2. R \subseteq Procs /\ R \subseteq DOMAIN Present /\ Reached(Present, R)
  BY <1>1, ReachedPart
<1> HIDE DEF R
<1>3. 0 \in S
  BY ProcsAre
<1>4. ASSUME NEW n \in 1..NProcs, n - 1 \in S PROVE n \in S
  <2>1. \A p \in 1..n - 1 : ~(p \in out /\ p \in R)
    BY <1>4
  <2>2. ASSUME n \in out, n \in R PROVE FALSE
    <3>1. n \in Procs /\ n # Root /\ (parent[n] = Other \/ parent[n] \in out)
      BY <2>2
    <3>2. Present[n].parent = parent[n]
      BY <1>2, <2>2 DEF Present, Entry
    <3>3. parent[n] \in R /\ parent[n] \in 1..n - 1
      BY <1>2, <2>2, <3>1, <3>2 DEF Reached
    <3>4. parent[n] # Other
      BY <3>3 DEF Other
    <3> QED
      BY <2>1, <3>1, <3>3, <3>4
  <2>3. \A p \in 1..n : p = n \/ p \in 1..n - 1
    BY ProcsAre
  <2> QED
    BY <2>1, <2>2, <2>3, ProcsAre
<1> HIDE DEF S
<1>5. 0..NProcs \subseteq S
  BY <1>3, <1>4, Induction, ProcsAre
<1>6. \A p \in 1..NProcs : ~(p \in out /\ p \in R)
  BY <1>5, ProcsAre DEF S
<1> QED
  BY <1>6, ProcsAre DEF R

\* The tree that is read at once does not change the times, but who is missing
\* from it is not read any more.
LEMMA ShownLedger ==
    ASSUME LedgerExists, FamilyOK, TreesOK, ThreadsOK, Shown
    PROVE  LedgerExists'
<1>1. PICK c, seen, new, old, out : Ledger(c, seen, new, old, out)
  BY DEF LedgerExists
<1>2. Account(c, seen, new, old, out)
  BY <1>1 DEF Ledger
<1>3. /\ UNCHANGED <<status, parent, cpu, used, usage, newTree, lostCPUTime, currentCPUTime>>
      /\ procTree' = ReadAtOnce /\ NobodyReads /\ newTree = <<>>
  BY DEF Shown, solverVars, timeVars, mainVars, TreesOK, ReadingOK
<1>4. PICK R : R = DOMAIN ReadAtOnce
  OBVIOUS
<1>5. PICK gone : gone = out \cup (old \ (R \cup {Root}))
  OBVIOUS
<1>6. InTree' = InTree /\ InTree = {}
  BY <1>3, EmptyTree DEF InTree
<1>7. Sums(c, seen, new)'
  BY <1>2, <1>3 DEF Account, Sums
<1>8. ASSUME NEW p \in Procs
      PROVE  Covers(c, seen, new, gone, p)' /\ Placed(seen, new, old, p)'
  <2>1. Covers(c, seen, new, out, p) /\ Placed(seen, new, old, p)
        /\ (Exists(p)' <=> Exists(p)) /\ cpu'[p] = cpu[p] /\ (p \notin gone => p \notin out)
    BY <1>2, <1>3, <1>5 DEF Account, Exists
  <2>2. Covers(c, seen, new, gone, p)'
    BY <2>1 DEF Covers
  <2>3. Placed(seen, new, old, p)'
    BY <1>6, <2>1 DEF Placed
  <2> QED
    BY <2>2, <2>3
<1>9. OldOK(old)'
  BY <1>2, <1>3 DEF Account, OldOK
<1>10. ASSUME NEW p \in gone
       PROVE  status[p] # "none" /\ p # Root /\ (parent[p] = Other \/ parent[p] \in gone)
  <2>1. CASE p \in out
    BY <1>2, <1>5, <2>1 DEF Account, OutOK
  <2>2. CASE p \notin out
    <3>1. p \in old /\ p \notin R /\ p # Root /\ p \in Procs /\ status[p] # "none"
      BY <1>2, <1>5, <1>10, <2>2 DEF Account, OldOK
    <3>2. ASSUME parent[p] # Other PROVE parent[p] \in gone
      <4>1. parent[p] \in old /\ parent[p] \in Procs
        BY <1>2, <3>1, <3>2 DEF Account, OldOK
      <4>2. /\ Exists(p) /\ Exists(parent[p]) /\ parent[p] < p
        BY <3>1, <3>2 DEF FamilyOK, Exists
      <4>3. Reached(Present, R)
        BY <1>4, ReachedPart DEF ReadAtOnce, Present
      <4>4. p \in DOMAIN Present /\ Present[p].parent = parent[p] /\ parent[p] \in DOMAIN Present
        BY <3>1, <4>1, <4>2 DEF Present, Entry
      <4>5. parent[p] \in 1..p - 1
        BY <3>1, <4>1, <4>2, ProcsAre
      <4>6. parent[p] \notin R
        BY <3>1, <4>3, <4>4, <4>5 DEF Reached
      <4>7. parent[p] # Root
        BY <4>3, <4>4, <4>6, RootIsProc DEF Reached
      <4> QED
        BY <1>5, <4>1, <4>6, <4>7
    <3> QED
      BY <3>1, <3>2
  <2> QED
    BY <2>1, <2>2
<1>11. gone \subseteq Procs
  BY <1>2, <1>5 DEF Account
<1>12. gone \cap R = {}
  BY <1>4, <1>10, <1>11, OutNotRead
<1>13. OutOK(gone)'
  BY <1>3, <1>4, <1>6, <1>10, <1>12 DEF OutOK
<1>14. ASSUME NEW p \in old \ gone, parent[p] # Other PROVE p \in R
  BY <1>5, <1>14, RootParent
<1>15. Shows(old, gone)'
  BY <1>3, <1>4, <1>14 DEF Shows
<1>16. \A u \in Samplers : pc'[u] # "read"
  BY <1>3 DEF Shown, Calm, NobodyReads
<1>17. Account(c, seen, new, old, gone)'
  BY <1>2, <1>3, <1>7, <1>8, <1>9, <1>11, <1>13, <1>15 DEF Account
<1> QED
  BY <1>16, <1>17 DEF LedgerExists, Ledger, Coming
-----------------------------------------------------------------------------
\* What the books bound: the time of a sample, and what wait4() gives.
LEMMA TimeIsBounded ==
    ASSUME LedgerExists, SumNumbers, TimesOK
    PROVE  currentCPUTime + lostCPUTime <= used /\ usage + lostCPUTime <= used
<1>1. PICK c, seen, new, old, out : Account(c, seen, new, old, out)
  BY DEF LedgerExists, Ledger
<1>2. /\ c \in Amounts /\ seen \in Amounts /\ Total(seen) = currentCPUTime
      /\ lostCPUTime + Total(c) <= used /\ usage <= c[Root]
      /\ \A p \in Procs : seen[p] <= c[p]
  BY <1>1 DEF Account, Sums, Covers
<1>3. Total(c) \in Int /\ Total(seen) <= Total(c)
  BY <1>2, AmountsAreTimes, TotalAdds, TotalMonotone
<1>4. c[Root] <= Total(c) /\ c[Root] \in Nat
  <2>1. \A q \in Procs : c[q] >= 0
    BY <1>2 DEF Amounts
  <2> QED
    BY <1>2, <2>1, AmountsAreTimes, OneOfTotal, RootIsProc DEF Amounts
<1> QED
  BY <1>2, <1>3, <1>4 DEF SumNumbers, TimesOK

\* Every step keeps the books.
LEMMA LedgerStep ==
    ASSUME ThreadsOK, Turns, FamilyOK, TimesOK, TreesOK, TreesOK', SumNumbers,
           LedgerExists, ~torn', [Next]_vars
    PROVE  LedgerExists'
<1>0. PICK c, seen, new, old, out : Ledger(c, seen, new, old, out)
  BY DEF LedgerExists
<1>a. /\ TreeOK(newTree) /\ usage <= c[Root]
  BY <1>0 DEF TreesOK, Ledger, Account
<1>1. CASE Still
  <2>1. OnlyLeave /\ Follows /\ usage' <= c[Root] /\ Calm
        /\ UNCHANGED <<procTree, newTree, used, lostCPUTime, currentCPUTime>>
    BY <1>1, <1>a DEF Still, Books, OnlyLeave, Follows, Exists, timeVars, mainVars
  <2> QED
    BY <1>0, <1>a, <2>1, LedgerKept DEF LedgerExists
<1>2. CASE Solver
  BY <1>2, SolverLedger
<1>3. CASE Shown
  BY <1>3, ShownLedger
<1>4. CASE Kills
  <2>1. PICK S : Ended(S \cap Running) /\ UNCHANGED <<cpu, used>>
    BY <1>4 DEF Kills, KillRunning
  <2>2. OnlyLeave /\ Follows
    BY <2>1 DEF OnlyLeave, Follows, Ended, Exists, Running, FamilyOK
  <2>3. usage' <= c[Root] /\ Calm
        /\ UNCHANGED <<procTree, newTree, used, lostCPUTime, currentCPUTime>>
    BY <1>4, <1>a, <2>1 DEF Kills, timeVars, mainVars
  <2> QED
    BY <1>0, <1>a, <2>2, <2>3, LedgerKept DEF LedgerExists
<1>5. CASE ForkSolver
  <2>1. /\ UNCHANGED <<parent, cpu, used, procTree, newTree, lostCPUTime, currentCPUTime, usage>>
        /\ status[Root] = "none" /\ status' = [status EXCEPT ![Root] = "running"]
    BY <1>5, RootIsProc DEF ForkSolver, At, FamilyOK, Early, treeVars, timeVars, mainVars
  <2>2. OnlyLeave /\ Follows
    BY <2>1, RootIsProc DEF OnlyLeave, Follows, Exists, FamilyOK, TimesOK
  <2>3. Calm
    BY <1>5 DEF ForkSolver, At, Goto, Calm, Begins, Early, treeVars, ThreadsOK, Threads,
                Samplers, FlagNames
  <2> QED
    BY <1>0, <1>a, <2>1, <2>2, <2>3, LedgerKept DEF LedgerExists
<1>6. CASE Wait4
  <2>1. /\ UNCHANGED <<parent, used, procTree, newTree, lostCPUTime, currentCPUTime>>
        /\ status[Root] = "zombie" /\ status' = [status EXCEPT ![Root] = "gone"]
        /\ usage' = cpu[Root] /\ cpu' = [cpu EXCEPT ![Root] = 0]
    BY <1>6 DEF Wait4, treeVars, timeVars
  <2>2. OnlyLeave /\ Follows
    BY <2>1, RootIsProc DEF OnlyLeave, Follows, Exists, FamilyOK, TimesOK
  <2>3. Calm
    BY <1>6 DEF Wait4, At, Goto, Calm, Begins, Early, treeVars, ThreadsOK, Threads,
                Samplers, FlagNames
  <2>4. usage' <= c[Root]
    BY <1>0, <2>1, RootIsProc DEF Ledger, Account, Covers, OutOK, Exists
  <2> QED
    BY <1>0, <1>a, <2>1, <2>2, <2>3, <2>4, LedgerKept DEF LedgerExists
<1>7. CASE Report
  <2>1. OnlyLeave /\ Follows /\ usage' <= c[Root]
        /\ UNCHANGED <<procTree, newTree, used, lostCPUTime, currentCPUTime>>
    BY <1>7, <1>a DEF Report, OnlyLeave, Follows, Exists, solverVars, treeVars, timeVars
  <2>2. Calm
    BY <1>7 DEF Report, At, Goto, Calm, Begins, Early, treeVars, ThreadsOK, Threads,
                Samplers, FlagNames
  <2> QED
    BY <1>0, <1>a, <2>1, <2>2, LedgerKept DEF LedgerExists
<1>8. ASSUME NEW t \in Samplers, \/ Begun(t) \/ ReadProcess(t) \/ ReadVanished(t)
                                 \/ DropSample(t) \/ KeepSample(t)
      PROVE  LedgerExists'
  BY <1>8, BegunLedger, ReadLedger, ReadVanishedLedger, DropLedger, KeepLedger
<1> QED
  BY <1>1, <1>2, <1>3, <1>4, <1>5, <1>6, <1>7, <1>8, StepKinds

\* The time that was used only grows, the report is made once, and what is
\* announced or torn is so from one action.
LEMMA WhatChanges ==
    ASSUME ThreadsOK, Turns, TimesOK, [Next]_vars
    PROVE  /\ used' \in {used, used + 1}
           /\ reported' = reported \/ Report
           /\ exceeded' = exceeded \/ \E t \in Samplers : KeepSample(t)
           /\ \/ torn' = torn
              \/ \E q, p \in Procs : WaitFor(q, p)
              \/ \E t \in Samplers : ReadVanished(t)
<1>1. CASE Still
  BY <1>1 DEF Still, Books, timeVars, mainVars
<1>2. CASE Shown \/ Begun("timer") \/ Begun("stopper")
  BY <1>2 DEF Shown, Begun, solverVars, timeVars, mainVars, history
<1>3. CASE Kills
  BY <1>3 DEF Kills, KillRunning, timeVars, mainVars, history
<1>4. CASE ForkSolver \/ Wait4
  BY <1>4 DEF ForkSolver, Wait4, timeVars, mainVars, history
<1>5. CASE Solver
  <2>1. UNCHANGED <<reported, exceeded>>
    BY <1>5 DEF Solver, SystemStep, timeVars, mainVars
  <2>2. CASE \E q, p \in Procs : WaitFor(q, p)
    BY <2>1, <2>2 DEF WaitFor
  <2>3. CASE ~\E q, p \in Procs : WaitFor(q, p)
    BY <1>5, <2>1, <2>3 DEF Solver, Compute, Exit, Vanish, SetSession, Fork, history
  <2> QED
    BY <2>2, <2>3
<1>6. CASE Report
  BY <1>6 DEF Report, solverVars, timeVars, history
<1>7. ASSUME NEW t \in Samplers, ReadProcess(t) \/ DropSample(t)
      PROVE  UNCHANGED <<used, reported, exceeded, torn>>
  BY <1>7 DEF ReadProcess, DropSample, solverVars, timeVars, mainVars, history
<1>8. ASSUME NEW t \in Samplers, ReadVanished(t)
      PROVE  UNCHANGED <<used, reported, exceeded>>
  BY <1>8 DEF ReadVanished, solverVars, timeVars, mainVars
<1>9. ASSUME NEW t \in Samplers, KeepSample(t)
      PROVE  UNCHANGED <<used, reported, torn>>
  BY <1>9 DEF KeepSample, solverVars, mainVars, history
<1>10. Samplers = {"timer", "stopper"}
  BY DEF Samplers
<1> QED
  BY <1>1, <1>2, <1>3, <1>4, <1>5, <1>6, <1>7, <1>8, <1>9, <1>10, StepKinds

\* A torn sample stays so.
LEMMA TornStays ==
    ASSUME ThreadsOK, Turns, TimesOK, [Next]_vars, ~torn'
    PROVE  ~torn
<1>1. CASE torn' = torn
  BY <1>1
<1>2. ASSUME NEW p \in Procs, NEW q \in Procs, WaitFor(q, p)
      PROVE  ~torn
  <2>1. torn' = (torn \/ (q \in DOMAIN newTree /\ p \notin DOMAIN newTree))
    BY <1>2, Zenon DEF WaitFor
  <2> QED
    BY <2>1, Zenon
<1>3. ASSUME NEW t \in Samplers, ReadVanished(t)
      PROVE  ~torn
  <2>1. PICK p \in Procs : torn' = (torn \/ p = Root)
    BY <1>3, Zenon DEF ReadVanished
  <2> QED
    BY <2>1, Zenon
<1> QED
  BY <1>1, <1>2, <1>3, WhatChanges

\* The books bound what is announced and reported.
TimeInv ==
    ~torn => /\ LedgerExists
             /\ reported \in Int /\ reported <= used
             /\ exceeded = TRUE => used >= CPULimit

LEMMA TimeStep ==
    ASSUME ThreadsOK, Turns, FamilyOK, TimesOK, TimesOK', TreesOK, TreesOK',
           SumNumbers, SumNumbers', TimeInv, [Next]_vars
    PROVE  TimeInv'
<1> SUFFICES ASSUME ~torn' PROVE /\ LedgerExists'
                                 /\ reported' \in Int /\ reported' <= used'
                                 /\ exceeded' = TRUE => used' >= CPULimit
  BY DEF TimeInv
<1>1. ~torn
  BY TornStays
<1>2. /\ LedgerExists /\ reported \in Int /\ reported <= used
      /\ exceeded = TRUE => used >= CPULimit
  BY <1>1 DEF TimeInv
<1>3. LedgerExists'
  BY <1>2, LedgerStep
<1>4. used \in Int /\ used <= used' /\ used' \in Int
  BY WhatChanges DEF TimesOK
<1>5. reported' \in Int /\ reported' <= used'
  <2>1. CASE reported' = reported
    BY <1>2, <1>4, <2>1
  <2>2. CASE Report
    <3>1. PICK margin \in FoolMargins : reported' = CPUTime(margin)
      BY <2>2 DEF Report
    <3>2. currentCPUTime + lostCPUTime <= used /\ usage + lostCPUTime <= used
      BY <1>2, TimeIsBounded
    <3>3. CPUTime(margin) \in Int /\ CPUTime(margin) <= used
      BY <1>4, <3>2 DEF CPUTime, SumNumbers
    <3> QED
      BY <1>4, <3>1, <3>3
  <2> QED
    BY <2>1, <2>2, WhatChanges
<1>6. exceeded' = TRUE => used' >= CPULimit
  <2>1. CASE exceeded' = exceeded
    BY <1>2, <1>4, <2>1, PatchedAssumption
  <2>2. ASSUME NEW t \in Samplers, KeepSample(t), exceeded' = TRUE
        PROVE  used' >= CPULimit
    <3>1. exceeded = TRUE \/ currentCPUTime' + lostCPUTime' >= CPULimit
      BY <2>2 DEF KeepSample, LimitReached, SumNumbers
    <3>2. currentCPUTime' + lostCPUTime' <= used'
      <4>1. (LedgerExists /\ SumNumbers /\ TimesOK =>
               currentCPUTime + lostCPUTime <= used)'
        BY TimeIsBounded, PTL
      <4> QED
        BY <1>3, <4>1
    <3>3. CASE exceeded = TRUE
      BY <1>2, <1>4, <3>3, PatchedAssumption
    <3>4. CASE currentCPUTime' + lostCPUTime' >= CPULimit
      <4>1. currentCPUTime' \in Int /\ lostCPUTime' \in Int
        BY DEF SumNumbers
      <4>2. \A a, b, u, l \in Int : a + b >= l /\ a + b <= u => u >= l
        OBVIOUS
      <4>3. CPULimit \in Int
        BY PatchedAssumption
      <4> QED
        BY <1>4, <3>2, <3>4, <4>1, <4>2, <4>3
    <3> QED
      BY <3>1, <3>3, <3>4
  <2> QED
    BY <2>1, <2>2, WhatChanges
<1> QED
  BY <1>3, <1>5, <1>6

\* The books are empty at first.
LEMMA TimeInit ==
    ASSUME Init
    PROVE  FamilyOK /\ TimesOK /\ TreesOK /\ TimeInv
<1>1. /\ status = [p \in Procs |-> "none"] /\ parent = [p \in Procs |-> Other]
      /\ cpu = [p \in Procs |-> 0] /\ used = 0
      /\ procTree = <<>> /\ newTree = <<>>
      /\ currentCPUTime = 0 /\ lostCPUTime = 0
      /\ usage = -1 /\ reported = -1 /\ exceeded = FALSE
      /\ \A t \in Samplers : pc[t] = "none"
  BY DEF Init, Samplers, Threads
<1>2. FamilyOK /\ TimesOK
  BY <1>1, ProcsAre DEF FamilyOK, TimesOK, States, Other
<1>3. TreesOK
  <2>1. DOMAIN procTree = {} /\ DOMAIN newTree = {}
    BY <1>1
  <2> QED
    BY <1>1, <2>1 DEF TreesOK, TreeOK, ReadingOK
<1>4. PICK z \in Amounts : Total(z) = 0 /\ \A p \in Procs : z[p] = 0
  BY ZeroIs
<1>5. InTree = {} /\ CPUOf(Reachable(newTree)) = 0
  BY <1>1, EmptyTree
<1>6. Sums(z, z, z) /\ usage <= z[Root]
  BY <1>1, <1>4, <1>5, RootIsProc DEF Sums
<1>7. ASSUME NEW p \in Procs PROVE Covers(z, z, z, {}, p) /\ Placed(z, z, {}, p)
  BY <1>1, <1>4 DEF Covers, Placed
<1>8. Account(z, z, z, {}, {}) /\ Coming({}, {})
  BY <1>4, <1>6, <1>7 DEF Account, OldOK, OutOK, Shows, Coming
<1>9. LedgerExists
  BY <1>8 DEF LedgerExists, Ledger
<1>10. TimeInv
  BY <1>1, <1>9 DEF TimeInv
<1> QED
  BY <1>2, <1>3, <1>10

\* No time is invented: unless a sample was torn, the CPU time of the last
\* sample and the time kept as lost (readProcessData(), runsolver.cc) were
\* really used, and so were the time that made runsolver announce that the limit
\* is exceeded and the one that run() reports.
THEOREM NothingInvented == Spec => []TimeWasUsed
<1> DEFINE Numbers == SampledNumbers /\ SumNumbers
           Inv == ThreadsOK /\ Turns /\ Numbers /\ FamilyOK /\ TimesOK /\ TreesOK /\ TimeInv
<1>1. Init => Inv
  BY NumbersInit, TurnsInit, TimeInit
<1>2. Inv /\ [Next]_vars => Inv'
  <2> SUFFICES ASSUME Inv, [Next]_vars PROVE Inv'
    OBVIOUS
  <2>1. (ThreadsOK /\ Turns)' /\ SampledNumbers'
    BY TurnsStep, SampledStep
  <2>2. SumNumbers' /\ FamilyOK' /\ TimesOK' /\ TreesOK'
    BY SumStep, SideStep, TreesStep
  <2>3. TimeInv'
    BY <2>2, TimeStep
  <2> QED
    BY <2>1, <2>2, <2>3
<1>3. Inv => TimeWasUsed
  <2>1. Inv /\ ~torn => LedgerExists /\ reported <= used /\ (exceeded = TRUE => used >= CPULimit)
    BY DEF TimeInv
  <2>2. Inv /\ ~torn => currentCPUTime + lostCPUTime <= used
    BY <2>1, TimeIsBounded
  <2>3. Inv => (exceeded => exceeded = TRUE)
    BY Zenon DEF SumNumbers
  <2> QED
    BY <2>1, <2>2, <2>3 DEF TimeWasUsed
<1> QED
  BY <1>1, <1>2, <1>3, PTL DEF Spec
=============================================================================
