------------------------------ MODULE Watcher ------------------------------
(***************************************************************************)
(* class Watcher of runsolver 3.4.0 (Watcher.hh), with the ProcessTree     *)
(* operations it uses (ProcessTree.hh).  Three flows of control share the  *)
(* object without a lock:                                                  *)
(*   - the main thread, in watchPID(), waits for every process that becomes*)
(*     a child of runsolver, then reports;                                 *)
(*   - the watcher thread, in operator(), samples the process tree every   *)
(*     tenth of a second, and stops the solver when a limit is reached;    *)
(*   - the handler of SIGTERM and SIGINT asks for a stop.                  *)
(* The solver's processes run meanwhile (SolverProcesses).                 *)
(***************************************************************************)
EXTENDS SolverProcesses

CONSTANTS
    CPULimit, WallLimit, VSizeLimit, MemoryLimit,   \* 0 is "no limit"
    VSizes, Memories,   \* the sizes a sample may find
    FirstFull,          \* full samples at the beginning (5 in the code)
    RefreshPeriod,      \* ticks between two full samples then (10)
    KillTicks,          \* delayBeforeKill*10, the ticks from TERM to KILL
    ExternalStop        \* may runsolver receive a SIGTERM or a SIGINT?

ASSUME WatcherAssumption ==
    /\ {CPULimit, WallLimit, VSizeLimit, MemoryLimit, KillTicks} \subseteq Nat
    /\ {FirstFull, RefreshPeriod} \subseteq Nat \ {0}
    /\ VSizes \subseteq Nat /\ 0 \in VSizes
    /\ Memories \subseteq Nat /\ 0 \in Memories
    /\ ExternalStop \in BOOLEAN

VARIABLES
    \* fields of Watcher
    solverIsRunning, stopSolverRequested, stopReason, stopSolverState,
    elapsed,            \* in ticks of the watcher thread, up to WallLimit
    completedCPUTime, maxVSize,
    \* the main thread
    mainPc,             \* where watchPID() is
    childstatus,        \* the process whose status waitpid() gave last, or 0
    \* the handler
    handlerPc,
    \* the watcher thread
    watcherPc,          \* where operator() is
    subcount, firstSecond,  \* subcount, and count==0
    tree,               \* the pids in procTree that its roots reach
    link,               \* and the parent each had when it was found
    treeCPU,            \* currentCPUTime of procTree
    treeCompleted,      \* its completedCPUTime
    treeHasAllProcesses,    \* was it built from the whole of /proc?
    todo,               \* the pids it has still to read or to signal
    \* history
    ticksSinceTerm,     \* ticks since the SIGTERM round, up to KillTicks
    printedReason,      \* the stopReason that was printed
    pidsAtSweep         \* pids given when /proc was listed for the last time

mainVars == <<mainPc, childstatus, completedCPUTime>>
stopVars == <<stopSolverRequested, stopReason>>
treeVars == <<tree, link, treeCPU, treeCompleted, treeHasAllProcesses, todo>>
tickVars == <<subcount, firstSecond, elapsed, ticksSinceTerm>>
termVars == <<stopSolverState, printedReason, pidsAtSweep>>
vars == <<procVars, mainVars, stopVars, treeVars, tickVars, termVars,
          solverIsRunning, handlerPc, watcherPc, maxVSize>>

None == "none"
Reasons == {"signal", "cpu", "wall", "vsize", "memory"}

MainTypeOK ==
    /\ mainPc \in {"wait", "account", "join", "done"}
    /\ childstatus \in Procs \cup {0}
    /\ completedCPUTime \in Nat

StopTypeOK ==
    /\ solverIsRunning \in BOOLEAN
    /\ handlerPc \in {"armed", "requested", "done"}
    /\ stopSolverRequested \in BOOLEAN
    /\ stopReason \in Reasons \cup {None}
    /\ printedReason \in Reasons \cup {None, "unprinted"}
    /\ stopSolverState \in Nat
    /\ pidsAtSweep \in Nat

TickTypeOK ==
    /\ subcount \in 1..RefreshPeriod
    /\ firstSecond \in BOOLEAN
    /\ elapsed \in 0..WallLimit
    /\ ticksSinceTerm \in 0..KillTicks
    /\ maxVSize \in Nat

TreeTypeOK ==
    /\ watcherPc \in {"loop", "tick", "read", "update", "display",
                      "displayRead", "stop", "stopDisplay", "stopDisplayRead",
                      "term", "kill", "final", "finalRead", "finalKill", "done"}
    /\ tree \in SUBSET Procs
    /\ link \in [Procs -> Procs \cup {Runsolver}]
    /\ treeCPU \in Nat
    /\ treeCompleted \in Nat
    /\ treeHasAllProcesses \in BOOLEAN
    /\ todo \in SUBSET Procs

TypeOK ==
    SolverTypeOK /\ MainTypeOK /\ StopTypeOK /\ TickTypeOK /\ TreeTypeOK

Init ==
    /\ SolverInit
    /\ solverIsRunning = TRUE
    /\ stopSolverRequested = FALSE /\ stopReason = None
    /\ stopSolverState = 0
    /\ elapsed = 0
    /\ completedCPUTime = 0 /\ maxVSize = 0
    /\ mainPc = "wait" /\ childstatus = 0
    /\ handlerPc = IF ExternalStop THEN "armed" ELSE "done"
    /\ watcherPc = "loop"
    /\ subcount = 1 /\ firstSecond = TRUE
    /\ tree = {} /\ link = [p \in Procs |-> Runsolver]
    /\ treeCPU = 0 /\ treeCompleted = 0 /\ todo = {}
    /\ treeHasAllProcesses = FALSE
    /\ pidsAtSweep = 0
    /\ ticksSinceTerm = 0 /\ printedReason = "unprinted"
-----------------------------------------------------------------------------
(***************************************************************************)
(* The main thread: watchPID().                                            *)
(***************************************************************************)

\* waitpid(-1,&childstatus,0) returns a process.
WaitPid ==
    /\ mainPc = "wait"
    /\ \E p \in Procs : Reap(p) /\ childstatus' = p
    /\ mainPc' = "account"
    /\ UNCHANGED <<completedCPUTime, stopVars, treeVars, tickVars, termVars,
                   solverIsRunning, handlerPc, watcherPc, maxVSize>>

\* The CPU time of all reaped processes is read and published.
Account ==
    /\ mainPc = "account"
    /\ completedCPUTime' = childrenCPU
    /\ mainPc' = "wait"
    /\ UNCHANGED <<procVars, childstatus, stopVars, treeVars, tickVars,
                   termVars, solverIsRunning, handlerPc, watcherPc, maxVSize>>

\* waitpid() fails with ECHILD: runsolver has no child, dead or alive.
MutOnlyMainChild == status[Child] = "gone"

NothingToWaitFor == ChildrenOf(Runsolver) = {}

MutFlagNotCleared ==
    /\ mainPc = "wait"
    /\ NothingToWaitFor
    /\ mainPc' = "join"
    /\ UNCHANGED <<procVars, childstatus, completedCPUTime, stopVars, treeVars,
                   tickVars, termVars, solverIsRunning, handlerPc, watcherPc,
                   maxVSize>>

NoMoreChild ==
    /\ mainPc = "wait"
    /\ NothingToWaitFor
    /\ solverIsRunning' = FALSE
    /\ mainPc' = "join"
    /\ UNCHANGED <<procVars, childstatus, completedCPUTime, stopVars, treeVars,
                   tickVars, termVars, handlerPc, watcherPc, maxVSize>>

\* watcherThread.join() returns, and the final report is printed.
Report ==
    /\ mainPc = "join"
    /\ watcherPc = "done"
    /\ mainPc' = "done"
    /\ UNCHANGED <<procVars, childstatus, completedCPUTime, stopVars, treeVars,
                   tickVars, termVars, solverIsRunning, handlerPc, watcherPc,
                   maxVSize>>

MainStep == WaitPid \/ Account \/ NoMoreChild \/ Report
-----------------------------------------------------------------------------
(***************************************************************************)
(* The handler of SIGTERM and SIGINT: watcherSigHandler() calls            *)
(* stopSolver(), whose two assignments another thread may see one by one.  *)
(***************************************************************************)
SignalHandler ==
    /\ mainPc # "done"
    /\ \/ /\ handlerPc = "armed"
          /\ stopSolverRequested' = TRUE
          /\ handlerPc' = "requested"
          /\ UNCHANGED stopReason
       \/ /\ handlerPc = "requested"
          /\ stopReason' = "signal"
          /\ handlerPc' = "done"
          /\ UNCHANGED stopSolverRequested
    /\ UNCHANGED <<procVars, mainVars, treeVars, tickVars, termVars,
                   solverIsRunning, watcherPc, maxVSize>>
-----------------------------------------------------------------------------
(***************************************************************************)
(* The watcher thread: operator().  A sample of the process tree is not a  *)
(* snapshot: /proc is listed, then its entries are read one by one while   *)
(* the processes run.  Sampling, signalling and the limits are local to    *)
(* the thread; what it shares is read and written where the code does.     *)
(***************************************************************************)

\* while(solverIsRunning)
Loop ==
    /\ watcherPc = "loop"
    /\ watcherPc' = IF solverIsRunning THEN "tick" ELSE "final"
    /\ UNCHANGED <<procVars, mainVars, stopVars, treeVars, tickVars, termVars,
                   solverIsRunning, handlerPc, maxVSize>>

\* ProcessTree::readProcesses() clears the tree and lists /proc.
StartRead ==
    /\ tree' = {} /\ link' = [p \in Procs |-> Runsolver] /\ treeCPU' = 0
    /\ treeHasAllProcesses' = TRUE
    /\ todo' = Existing

\* ProcessTree::updateProcessesData() only visits the processes it has.
MutSumNotReset ==
    /\ todo' = tree
    /\ treeHasAllProcesses' = FALSE
    /\ UNCHANGED <<tree, link, treeCPU>>

StartUpdate ==
    /\ treeCPU' = 0
    /\ treeHasAllProcesses' = FALSE
    /\ todo' = tree
    /\ UNCHANGED <<tree, link>>

\* The time to look for new processes: at the beginning, then every second.
MutOnlyAtStart == firstSecond /\ subcount <= FirstFull

FullRefresh == subcount = RefreshPeriod \/ (firstSecond /\ subcount <= FirstFull)

MutNeverReset == IF firstSecond /\ subcount = RefreshPeriod THEN 1 ELSE subcount + 1

NextSubcount == IF subcount = RefreshPeriod THEN 1 ELSE subcount + 1

\* gettimeofday() gives the time since the start, here in ticks.
ReadClock ==
    elapsed' = IF elapsed < WallLimit THEN elapsed + 1 ELSE elapsed

\* A tenth of a second has passed and readProcessData() begins.
Tick ==
    /\ watcherPc = "tick"
    /\ ReadClock
    /\ ticksSinceTerm' =
          IF printedReason # "unprinted" /\ ticksSinceTerm < KillTicks
          THEN ticksSinceTerm + 1 ELSE ticksSinceTerm
    /\ treeCompleted' = completedCPUTime
    /\ \/ FullRefresh /\ StartRead /\ watcherPc' = "read"
       \/ ~FullRefresh /\ StartUpdate /\ watcherPc' = "update"
    /\ subcount' = NextSubcount
    /\ firstSecond' = (firstSecond /\ subcount # RefreshPeriod)
    /\ UNCHANGED <<procVars, mainVars, stopVars, termVars, solverIsRunning,
                   handlerPc, maxVSize>>

\* What a thread that reads or signals processes leaves alone.
SharedUnchanged ==
    UNCHANGED <<mainVars, stopVars, tickVars, stopSolverState, printedReason,
                pidsAtSweep, solverIsRunning, handlerPc, maxVSize>>

\* The processes that count: the children of runsolver and what they started.
\* A zombie has no VmRSS: it is not valid.
MutOnlyChildIsRoot(p) == p \in Running /\ (p = Child \/ ppid[p] \in tree)

Found(p) == p \in Running /\ ppid[p] \in tree \cup {Runsolver}

\* One entry of /proc is read, in the order of the pids.
ReadProcess ==
    /\ watcherPc \in {"read", "displayRead", "stopDisplayRead", "finalRead"}
    /\ \E p \in todo :
          /\ \A q \in todo : p <= q
          /\ todo' = todo \ {p}
          /\ IF Found(p)
             THEN /\ tree' = tree \cup {p}
                  /\ link' = [link EXCEPT ![p] = ppid[p]]
                  /\ treeCPU' = treeCPU + cpu[p]
             ELSE UNCHANGED <<tree, link, treeCPU>>
    /\ SharedUnchanged
    /\ UNCHANGED <<procVars, treeCompleted, treeHasAllProcesses,
                   watcherPc>>

(***************************************************************************)
(* One known process is read again (updateProcessesDataRec).  One that     *)
(* ended is dropped; what hangs below it is not visited, and not copied    *)
(* into the next tree either.  When a root ended, the whole tree is built  *)
(* again.                                                                  *)
(***************************************************************************)
UpdateProcess ==
    /\ watcherPc = "update"
    /\ \E p \in todo :
          /\ \A q \in todo : p <= q
          /\ \/ /\ p \in Running /\ link[p] \in tree \cup {Runsolver}
                /\ treeCPU' = treeCPU + cpu[p]
                /\ todo' = todo \ {p}
                /\ UNCHANGED <<tree, link, treeHasAllProcesses, watcherPc>>
             \/ /\ p \notin Running /\ link[p] = Runsolver
                /\ StartRead
                /\ watcherPc' = "read"
             \/ /\ \/ link[p] \notin tree \cup {Runsolver}
                   \/ p \notin Running /\ link[p] # Runsolver
                /\ tree' = tree \ {p}
                /\ link' = [link EXCEPT ![p] = Runsolver]
                /\ todo' = todo \ {p}
                /\ UNCHANGED <<treeCPU, treeHasAllProcesses, watcherPc>>
    /\ SharedUnchanged
    /\ UNCHANGED <<procVars, treeCompleted>>

(***************************************************************************)
(* The limits, in the order of the code: a later one replaces the reason   *)
(* of an earlier one.                                                      *)
(***************************************************************************)
SampledCPU == treeCPU + completedCPUTime

MutVSizeNotChecked(vsize, memory) ==
    IF MemoryLimit # 0 /\ memory >= MemoryLimit THEN {"memory"} ELSE {}

CPUExceeded == CPULimit # 0 /\ SampledCPU >= CPULimit

Exceeded(vsize, memory) ==
    (IF CPUExceeded THEN {"cpu"} ELSE {})
    \cup (IF WallLimit # 0 /\ elapsed >= WallLimit THEN {"wall"} ELSE {})
    \cup (IF VSizeLimit # 0 /\ vsize >= VSizeLimit THEN {"vsize"} ELSE {})
    \cup (IF MemoryLimit # 0 /\ memory >= MemoryLimit THEN {"memory"} ELSE {})

Overrides == [cpu |-> 1, wall |-> 2, vsize |-> 3, memory |-> 4]

\* stopSolver() for each limit that is exceeded
StopIfExceeded(reasons) ==
    /\ stopSolverRequested' = (stopSolverRequested \/ reasons # {})
    /\ IF reasons = {}
       THEN UNCHANGED stopReason
       ELSE stopReason' = CHOOSE r \in reasons :
                             \A s \in reasons : Overrides[s] <= Overrides[r]

\* The solver ended while it was being sampled: the thread's loop ends.
SampleTooLate ==
    /\ watcherPc \in {"read", "update"} /\ todo = {}
    /\ tree = {} /\ ~solverIsRunning
    /\ watcherPc' = "final"
    /\ UNCHANGED <<procVars, mainVars, stopVars, treeVars, tickVars, termVars,
                   solverIsRunning, handlerPc, maxVSize>>

\* The end of readProcessData(): totals and limits.
CheckLimits ==
    /\ watcherPc \in {"read", "update"} /\ todo = {}
    /\ tree # {} \/ solverIsRunning
    /\ \E vsize \in VSizes, memory \in Memories :
          /\ tree = {} => vsize = 0 /\ memory = 0
          /\ maxVSize' = IF vsize > maxVSize THEN vsize ELSE maxVSize
          /\ StopIfExceeded(Exceeded(vsize, memory))
    /\ watcherPc' = "display"
    /\ UNCHANGED <<procVars, mainVars, treeVars, tickVars, termVars,
                   solverIsRunning, handlerPc>>

(***************************************************************************)
(* displayProcessData(), when it is time to, and when the solver is going  *)
(* to be stopped.  It prints the tree; when the solver uses little CPU,    *)
(* dumpHeavyProcesses() also replaces a tree that lacks the processes of   *)
(* others by a new one.                                                    *)
(***************************************************************************)
DisplayRereads ==
    /\ ~treeHasAllProcesses
    /\ \/ watcherPc = "display" /\ watcherPc' = "displayRead"
       \/ watcherPc = "stopDisplay" /\ watcherPc' = "stopDisplayRead"
    /\ StartRead
    /\ UNCHANGED <<procVars, mainVars, stopVars, treeCompleted, tickVars,
                   termVars, solverIsRunning, handlerPc, maxVSize>>

Displayed ==
    \/ watcherPc = "display"
    \/ watcherPc = "displayRead" /\ todo = {}

StopDisplayed ==
    \/ watcherPc = "stopDisplay"
    \/ watcherPc = "stopDisplayRead" /\ todo = {}

\* if(stopSolverRequested) ... in operator()
EndDisplay ==
    /\ Displayed
    /\ watcherPc' = "stop"
    /\ UNCHANGED <<procVars, mainVars, stopVars, treeVars, tickVars, termVars,
                   solverIsRunning, handlerPc, maxVSize>>

StopNotRequested ==
    /\ watcherPc = "stop" /\ ~stopSolverRequested
    /\ watcherPc' = "loop"
    /\ UNCHANGED <<procVars, mainVars, stopVars, treeVars, tickVars, termVars,
                   solverIsRunning, handlerPc, maxVSize>>

\* The reason is printed, then the tree.
PrintReason ==
    /\ watcherPc = "stop" /\ stopSolverRequested
    /\ stopSolverState = 0
    /\ stopSolverState' = 1
    /\ printedReason' = stopReason
    /\ watcherPc' = "stopDisplay"
    /\ UNCHANGED <<procVars, mainVars, stopVars, treeVars, tickVars,
                   pidsAtSweep, solverIsRunning, handlerPc, maxVSize>>

BeginTerm ==
    /\ StopDisplayed
    /\ todo' = tree
    /\ watcherPc' = "term"
    /\ UNCHANGED <<procVars, mainVars, stopVars, tree, link, treeCPU,
                   treeCompleted, treeHasAllProcesses, tickVars, termVars,
                   solverIsRunning, handlerPc, maxVSize>>

MutGraceOneTickShort == stopSolverState > 0 /\ stopSolverState + 1 >= KillTicks

GraceOver == stopSolverState > 0 /\ stopSolverState >= KillTicks

MutStateNotCounted ==
    /\ watcherPc = "stop" /\ stopSolverRequested
    /\ stopSolverState > 0 /\ ~GraceOver
    /\ watcherPc' = "loop"
    /\ UNCHANGED <<procVars, mainVars, stopVars, treeVars, tickVars, termVars,
                   solverIsRunning, handlerPc, maxVSize>>

WaitToKill ==
    /\ watcherPc = "stop" /\ stopSolverRequested
    /\ stopSolverState > 0 /\ ~GraceOver
    /\ stopSolverState' = stopSolverState + 1
    /\ watcherPc' = "loop"
    /\ UNCHANGED <<procVars, mainVars, stopVars, treeVars, tickVars,
                   printedReason, pidsAtSweep, solverIsRunning, handlerPc, maxVSize>>

BeginKill ==
    /\ watcherPc = "stop" /\ stopSolverRequested
    /\ GraceOver
    /\ stopSolverState' = stopSolverState + 1
    /\ todo' = tree
    /\ watcherPc' = "kill"
    /\ UNCHANGED <<procVars, mainVars, stopVars, tree, link, treeCPU,
                   treeCompleted, treeHasAllProcesses, tickVars,
                   printedReason, pidsAtSweep, solverIsRunning,
                   handlerPc, maxVSize>>

\* sendSignalBottomUp() and sendSignalNow(): children before their parent.
SignalProcess ==
    /\ watcherPc \in {"term", "kill", "finalKill"}
    /\ \E p \in todo :
          /\ \A q \in todo : link[q] # p
          /\ todo' = todo \ {p}
          /\ Kill(p, IF watcherPc = "term" THEN "SIGTERM" ELSE "SIGKILL")
    /\ SharedUnchanged
    /\ UNCHANGED <<tree, link, treeCPU, treeCompleted, treeHasAllProcesses,
                   watcherPc>>

EndTerm ==
    /\ watcherPc = "term" /\ todo = {}
    /\ watcherPc' = "loop"
    /\ UNCHANGED <<procVars, mainVars, stopVars, treeVars, tickVars, termVars,
                   solverIsRunning, handlerPc, maxVSize>>

EndKill ==
    /\ watcherPc = "kill" /\ todo = {}
    /\ solverIsRunning' = FALSE
    /\ watcherPc' = "loop"
    /\ UNCHANGED <<procVars, mainVars, stopVars, treeVars, tickVars, termVars,
                   handlerPc, maxVSize>>

\* After the loop: one more look at /proc, and SIGKILL for what is found.
FinalList ==
    /\ watcherPc = "final"
    /\ StartRead
    /\ pidsAtSweep' = PidsGiven
    /\ watcherPc' = "finalRead"
    /\ UNCHANGED <<procVars, mainVars, stopVars, treeCompleted, tickVars,
                   stopSolverState, printedReason,
                   solverIsRunning, handlerPc, maxVSize>>

FinalSurvivors ==
    /\ watcherPc = "finalRead" /\ todo = {} /\ tree # {}
    /\ todo' = tree
    /\ watcherPc' = "finalKill"
    /\ UNCHANGED <<procVars, mainVars, stopVars, tree, link, treeCPU,
                   treeCompleted, treeHasAllProcesses, tickVars, termVars, solverIsRunning,
                   handlerPc, maxVSize>>

WatcherEnds ==
    /\ \/ watcherPc = "finalRead" /\ todo = {} /\ tree = {}
       \/ watcherPc = "finalKill" /\ todo = {}
    /\ watcherPc' = "done"
    /\ UNCHANGED <<procVars, mainVars, stopVars, treeVars, tickVars, termVars,
                   solverIsRunning, handlerPc, maxVSize>>

SampleStep == Tick \/ ReadProcess \/ UpdateProcess \/ SampleTooLate
              \/ CheckLimits \/ DisplayRereads \/ EndDisplay
StopStep == StopNotRequested \/ PrintReason \/ BeginTerm \/ WaitToKill \/ BeginKill
            \/ SignalProcess \/ EndTerm \/ EndKill
FinalStep == FinalList \/ FinalSurvivors \/ WatcherEnds
WatcherStep == Loop \/ SampleStep \/ StopStep \/ FinalStep
-----------------------------------------------------------------------------
\* The processes run as long as runsolver does.
SolverRuns ==
    /\ SolverStep
    /\ UNCHANGED <<mainVars, stopVars, treeVars, tickVars, termVars,
                   solverIsRunning, handlerPc, watcherPc, maxVSize>>

\* runsolver has printed its report: nothing is left to do.
Terminated == mainPc = "done" /\ UNCHANGED vars

Next == MainStep \/ SignalHandler \/ WatcherStep \/ SolverRuns \/ Terminated

Spec == Init /\ [][Next]_vars

(***************************************************************************)
(* Both threads are scheduled, and a signal handler that has begun ends.   *)
(* Nothing is assumed of the solver: it may run forever, wait for none of  *)
(* its children and ignore SIGTERM.                                        *)
(***************************************************************************)
Fairness ==
    /\ WF_vars(MainStep)
    /\ WF_vars(WatcherStep)
    /\ WF_vars(SignalHandler /\ handlerPc = "requested")

FairSpec == Spec /\ Fairness
-----------------------------------------------------------------------------
\* memOut in the summary that watchPID() writes for --var and --bin-var.
MemOut == VSizeLimit # 0 /\ maxVSize > VSizeLimit

(***************************************************************************)
(* What should be true.                                                    *)
(***************************************************************************)

\* When the main thread leaves its waitpid() loop no process of the solver is
\* left, not even one that was orphaned: the report is about all of them.
AllReapedAtEnd == mainPc \in {"join", "done"} => Existing = {}

\* The CPU time in the report is all the CPU time the solver used, including
\* that of processes whose parent died before it waited for them.
CPUComplete == mainPc \in {"join", "done"} => completedCPUTime = used

\* A sample together with the completed CPU time stored with it when it began
\* (setCompletedCPUTime in readProcessData) never counts a second twice,
\* whatever the processes do while /proc is read.
SampleNotOvercounted == treeCPU + treeCompleted <= used

\* SIGKILL is sent, by the stop sequence or by the last sweep, only when
\* KillTicks tenths of a second have passed since the round of SIGTERM.
KillAfterGrace ==
    watcherPc \in {"kill", "finalKill"} => ticksSinceTerm = KillTicks

\* When the watcher thread ends, each process that its last look at /proc
\* could list is dead.
SweepComplete == watcherPc = "done" => Running \cap 1..pidsAtSweep = {}

\* A summary that says "out of memory" is that of a run that was stopped.
MemOutOnlyIfStopped == mainPc = "done" /\ MemOut => stopSolverRequested

\* With a wall clock limit the watcher thread always ends, whatever the solver
\* does and whenever a limit or a signal asks for the stop.
WatcherAlwaysEnds == <>(watcherPc = "done")

\* Once all processes of the solver have died the report is printed: the main
\* thread and the watcher thread do not wait for each other forever.
DeadSolverIsReported == (Running = {}) ~> (mainPc = "done")

\* A process that has used the whole CPU limit is noticed, even when its
\* parent died and the tree that is being updated has lost it.
CPULimitEnforced ==
    \A p \in Procs :
        (p \in Running /\ cpu[p] >= CPULimit)
            ~> (stopSolverRequested \/ p \notin Running)
-----------------------------------------------------------------------------
(***************************************************************************)
(* What comments of the code say and the code does not guarantee.          *)
(***************************************************************************)

\* Watcher.hh:56 "CPU time (in seconds) given to solver before we stop it".
CPULimitGiven == stopReason = "cpu" => used >= CPULimit

\* Watcher.hh:52 "pid of the process we're watching": the "Child status" of
\* the report is the status of that process.
ChildStatusIsOfChild == mainPc = "done" => childstatus = Child
=============================================================================
