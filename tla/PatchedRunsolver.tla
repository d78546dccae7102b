-------------------------- MODULE PatchedRunsolver --------------------------
(***************************************************************************)
(* runsolver 3.3.4 as it was patched for AEATK: runsolver.cc from          *)
(* installSignalHandler() to the report.  Four threads share the object:   *)
(*   main      starts the solver, waits for it, joins the others, reports; *)
(*   handler   waits for SIGINT and SIGTERM with sigwait();                *)
(*   timer     samples the processes of the solver and checks the limits;  *)
(*   stopper   sleeps until someone calls stopSolver(), then sends SIGTERM *)
(*             and SIGKILL.                                                *)
(* Unlike 3.4.0 there is no subreaper: an orphan of the solver becomes a   *)
(* child of another process of the system, and leaves the process tree.    *)
(*                                                                         *)
(* SIGTERM is blocked before the fork, so the solver inherits the mask:    *)
(* that it is sent has no effect of its own here; a process may end at any *)
(* time.  The messages to AEATK_PORT and --cleanup-*-ipc-queues are left   *)
(* out.                                                                    *)
(***************************************************************************)
EXTENDS Integers, FiniteSets

CONSTANTS
    NProcs,         \* how many processes the solver may create (bound)
    MaxCPU,         \* units of CPU time they may use (bound)
    CPULimit,       \* limitCPUTime, 0 if none
    OtherLimit,     \* is the wall clock time, or the size, limited?
    PartialSamples, \* partial samples between two full ones: 10 in the code
    FoolMargins     \* what 60 s may be in units of CPU time

ASSUME PatchedAssumption ==
    /\ NProcs \in Nat \ {0} /\ MaxCPU \in Nat /\ CPULimit \in Nat
    /\ OtherLimit \in BOOLEAN
    /\ PartialSamples \in Nat /\ FoolMargins \in (SUBSET Nat) \ {{}}

Procs == 1..NProcs
Root == 1       \* childpid: fork() gives increasing pids
Other == 0      \* any parent that is not a process of the solver

VARIABLES
    status,     \* "none", "running", "zombie" (ended, not waited for), "gone"
    parent, cpu,
    group,      \* processes of the group -childpid
    used,       \* history: CPU time really used
    flag,       \* the five flags, each protected by a mutex
    pc,         \* the four threads
    procTree,   \* the last sample: CPU time and parent of each process
    complete,   \* treeHasAllProcesses of procTree
    count,      \* partial samples since the last full one
    newTree,    \* the sample being made
    todo,       \* processes left to read or to signal
    currentCPUTime, lostCPUTime,
    exceeded,   \* was runsolver_max_cpu_time_exceeded printed?
    usage,      \* CPU time that wait4() gives, -1 before
    reported,   \* CPU time in the report, -1 before
    early,      \* history: a stop was asked for before the flags were set up
    torn        \* history: a child was waited for between the reading of its
                \* parent and its own, or the solver between the listing of
                \* /proc and its own

solverVars == <<status, parent, cpu, group, used>>
treeVars == <<procTree, complete, count, newTree, todo>>
timeVars == <<currentCPUTime, lostCPUTime, exceeded>>
mainVars == <<usage, reported>>
history == <<early, torn>>
vars == <<solverVars, flag, pc, treeVars, timeVars, mainVars, history>>

Threads == {"main", "handler", "timer", "stopper"}
FlagNames == {"stopSolverInvokedByCaller", "timerThreadStopped", "stopSolverShouldExecute",
              "timerThreadShouldShutdown", "solverIsRunning"}
\* The order in which run() sets them.
Flags == <<"stopSolverInvokedByCaller", "timerThreadStopped", "stopSolverShouldExecute",
           "timerThreadShouldShutdown", "solverIsRunning">>

Running == {p \in Procs : status[p] = "running"}
Exists(p) == status[p] \in {"running", "zombie"}

Init ==
    /\ status = [p \in Procs |-> "none"] /\ parent = [p \in Procs |-> Other]
    /\ cpu = [p \in Procs |-> 0] /\ used = 0
    /\ group = {}
    /\ flag = [f \in FlagNames |-> FALSE]
    /\ pc = [t \in Threads |-> IF t = "main" THEN "install" ELSE "none"]
    /\ procTree = <<>> /\ complete = FALSE /\ count = 0
    /\ newTree = <<>> /\ todo = {}
    /\ currentCPUTime = 0 /\ lostCPUTime = 0 /\ exceeded = FALSE
    /\ usage = -1 /\ reported = -1
    /\ early = FALSE /\ torn = FALSE
-----------------------------------------------------------------------------
\* The solver and the system.
SystemStep ==
    UNCHANGED <<flag, pc, treeVars, timeVars, mainVars>>

\* The processes of dead end; their children find another parent.
Ended(dead) ==
    /\ status' = [p \in Procs |-> IF p \in dead THEN "zombie" ELSE status[p]]
    /\ parent' = [p \in Procs |-> IF parent[p] \in dead THEN Other ELSE parent[p]]

Fork(p, new) ==
    /\ p \in Running
    /\ status[new] = "none" /\ \A q \in Procs : q < new => status[q] # "none"
    /\ status' = [status EXCEPT ![new] = "running"]
    /\ parent' = [parent EXCEPT ![new] = p]
    /\ group' = IF p \in group THEN group \cup {new} ELSE group
    /\ UNCHANGED <<cpu, used, history>>

Compute(p) ==
    /\ p \in Running /\ used < MaxCPU
    /\ used' = used + 1 /\ cpu' = [cpu EXCEPT ![p] = @ + 1]
    /\ UNCHANGED <<status, parent, group, history>>

Exit(p) ==
    /\ p \in Running /\ Ended({p})
    /\ UNCHANGED <<cpu, group, used, history>>

WaitFor(q, p) ==
    /\ q \in Running /\ parent[p] = q /\ status[p] = "zombie"
    /\ status' = [status EXCEPT ![p] = "gone"]
    /\ parent' = [parent EXCEPT ![p] = Other] /\ group' = group \ {p}
    /\ cpu' = [cpu EXCEPT ![q] = @ + cpu[p], ![p] = 0]
    /\ torn' = (torn \/ (q \in DOMAIN newTree /\ p \notin DOMAIN newTree))
    /\ UNCHANGED <<used, early>>

\* A process that nobody waits for (SIGCHLD ignored), or that another process
\* of the system waits for: its time goes to no process of the solver.
Vanish(p) ==
    /\ p # Root /\ status[p] = "zombie"
    /\ status' = [status EXCEPT ![p] = "gone"] /\ cpu' = [cpu EXCEPT ![p] = 0]
    /\ parent' = [parent EXCEPT ![p] = Other] /\ group' = group \ {p}
    /\ UNCHANGED <<used, history>>

SetSession(p) ==
    /\ p \in Running \cap group /\ p # Root
    /\ group' = group \ {p}
    /\ UNCHANGED <<status, parent, cpu, used, history>>

Solver ==
    /\ SystemStep /\ pc["main"] # "ended"
    /\ \E p \in Procs :
         \/ Compute(p) \/ Exit(p) \/ Vanish(p) \/ SetSession(p)
         \/ \E q \in Procs : Fork(p, q) \/ WaitFor(p, q)
-----------------------------------------------------------------------------
\* Flags and stopSolver(), which every thread may call.
At(t, l) == pc[t] = l
Goto(t, l) == pc' = [pc EXCEPT ![t] = l]
SetFlag(f, value) == flag' = [flag EXCEPT ![f] = value]

\* Where each thread goes on after stopSolver().
Back == [main |-> "shutdown", handler |-> "returned",
         timer |-> "sampled", stopper |-> "sampled"]

SettingUp == pc["main"] \in FlagNames

CompareAndSet(t) ==
    /\ At(t, "cas")
    /\ IF flag["stopSolverInvokedByCaller"]
       THEN Goto(t, Back[t]) /\ UNCHANGED <<flag, early>>
       ELSE /\ SetFlag("stopSolverInvokedByCaller", TRUE)
            /\ early' = (early \/ SettingUp)
            /\ Goto(t, "stopTimer")
    /\ UNCHANGED <<solverVars, treeVars, timeVars, mainVars, torn>>

MutTimerGoesOn(t) ==
    /\ At(t, "stopTimer")
    /\ Goto(t, "dispatch")
    /\ UNCHANGED <<solverVars, flag, treeVars, timeVars, mainVars, history>>

StopTimer(t) ==
    /\ At(t, "stopTimer")
    /\ SetFlag("timerThreadShouldShutdown", TRUE)
    /\ Goto(t, "dispatch")
    /\ UNCHANGED <<solverVars, treeVars, timeVars, mainVars, history>>

Dispatch(t) ==
    /\ At(t, "dispatch")
    /\ SetFlag("stopSolverShouldExecute", TRUE)
    /\ Goto(t, Back[t])
    /\ UNCHANGED <<solverVars, treeVars, timeVars, mainVars, history>>

StopSolver(t) == CompareAndSet(t) \/ StopTimer(t) \/ Dispatch(t)
-----------------------------------------------------------------------------
\* synchronousSignalHandler(): it serves one SIGINT or SIGTERM and returns.
Signal ==
    /\ At("handler", "sigwait") /\ pc["main"] # "ended"
    /\ Goto("handler", "flag")
    /\ UNCHANGED <<solverVars, flag, treeVars, timeVars, mainVars, history>>

HandleSignal ==
    /\ At("handler", "flag")
    /\ SetFlag("timerThreadShouldShutdown", TRUE)
    /\ Goto("handler", "cas")
    /\ UNCHANGED <<solverVars, treeVars, timeVars, mainVars, history>>
-----------------------------------------------------------------------------
\* readProcessData(), by the timer or the stopper.
Full(t) == t = "stopper" \/ count = PartialSamples
Children(tree, p) == {q \in DOMAIN tree : tree[q].parent = p}

\* identifyChildren(): the tree reaches a process through its parent only.
Reachable(tree) ==
    LET upTo[n \in 0..NProcs] ==
          IF n = 0 THEN {}
          ELSE upTo[n - 1] \cup {p \in {n} \cap DOMAIN tree :
                                    p = Root \/ tree[p].parent \in upTo[n - 1]}
    IN  [p \in upTo[NProcs] |-> tree[p]]

Entry(p) == [cpu |-> cpu[p], parent |-> parent[p]]
ReadAtOnce == Reachable([p \in {q \in Procs : Exists(q)} |-> Entry(p)])

\* currentCPUTimeRec(): the sum over the processes of the tree.
CPUOf(tree) ==
    LET upTo[p \in 0..NProcs] ==
          IF p = 0 THEN 0
          ELSE upTo[p - 1] + (IF p \in DOMAIN tree THEN tree[p].cpu ELSE 0)
    IN  upTo[NProcs]

StartSample(t) ==
    /\ Goto(t, "read")
    /\ newTree' = <<>>
    /\ todo' = IF Full(t) THEN {p \in Procs : status[p] # "gone"} ELSE {Root}
    /\ UNCHANGED <<procTree, complete, count>>

\* readProcesses() goes through /proc by pid.  updateProcessesData() goes down
\* the copy of the last tree and does not look below a process that is gone; in
\* which order it takes the branches is left open.
InTurn(t, p) == p \in todo /\ (Full(t) => \A q \in todo : p <= q)

ReadProcess(t) ==
    /\ At(t, "read")
    /\ \E p \in Procs :
         LET known == Full(t) \/ p \in DOMAIN procTree
             entry == IF Full(t) THEN Entry(p)
                      ELSE [cpu |-> cpu[p], parent |-> procTree[p].parent]
             below == IF Full(t) THEN {} ELSE Children(procTree, p)
         IN  /\ InTurn(t, p)
             /\ IF known /\ Exists(p)
                THEN /\ newTree' = [q \in DOMAIN newTree \cup {p} |->
                                     IF q = p THEN entry ELSE newTree[q]]
                     /\ todo' = (todo \ {p}) \cup below
                ELSE newTree' = newTree /\ todo' = todo \ {p}
    /\ UNCHANGED <<solverVars, flag, pc, procTree, complete, count, timeVars,
                   mainVars, history>>

\* readdir() gives pids in batches: a process may be gone when its turn comes.
\* read() then fails, but the entry stays, without time nor parent.
ReadVanished(t) ==
    /\ At(t, "read") /\ Full(t)
    /\ \E p \in Procs :
         /\ InTurn(t, p) /\ status[p] = "gone"
         /\ newTree' = [q \in DOMAIN newTree \cup {p} |->
                          IF q = p THEN [cpu |-> 0, parent |-> Other] ELSE newTree[q]]
         /\ todo' = todo \ {p}
         /\ torn' = (torn \/ p = Root)
    /\ UNCHANGED <<solverVars, flag, pc, procTree, complete, count, timeVars,
                   mainVars, early>>

RootProcessEnded == Root \notin DOMAIN newTree

DropSample(t) ==
    /\ At(t, "read") /\ todo = {} /\ RootProcessEnded
    /\ Goto(t, IF t = "timer" THEN "rootEnded" ELSE "sampled")
    /\ newTree' = <<>>
    /\ UNCHANGED <<solverVars, flag, procTree, complete, count, todo, timeVars,
                   mainVars, history>>

\* The time that is missing since the last sample is kept as lost.  Whether
\* the limits of the elapsed time and of the size are reached is left open.
MutGain(last, current) == IF current > last THEN current - last ELSE 0
Lost(last, current) == IF current < last THEN last - current ELSE 0
LimitReached(time) == CPULimit # 0 /\ time >= CPULimit

KeepSample(t) ==
    /\ At(t, "read") /\ todo = {} /\ ~RootProcessEnded
    /\ procTree' = Reachable(newTree) /\ newTree' = <<>> /\ complete' = Full(t)
    /\ currentCPUTime' = CPUOf(procTree')
    /\ lostCPUTime' = lostCPUTime + Lost(currentCPUTime, currentCPUTime')
    /\ \E other \in {FALSE, OtherLimit} :
         LET cpuOver == LimitReached(currentCPUTime' + lostCPUTime')
         IN  /\ exceeded' = (exceeded \/ cpuOver)
             /\ Goto(t, IF cpuOver \/ other THEN "cas" ELSE "sampled")
    /\ UNCHANGED <<solverVars, flag, count, todo, mainVars, history>>

\* displayProcessData(): dumpHeavyProcesses() reads /proc again, in place, if
\* the tree has only the processes of the solver.
Display ==
    \/ UNCHANGED <<procTree, complete>>
    \/ ~complete /\ procTree' = ReadAtOnce /\ complete' = TRUE
-----------------------------------------------------------------------------
\* timerThread()
TimerChecks ==
    /\ At("timer", "loop")
    /\ Goto("timer", IF flag["solverIsRunning"] THEN "sleep" ELSE "leave")
    /\ UNCHANGED <<solverVars, flag, treeVars, timeVars, mainVars, history>>

TimerWakesUp ==
    /\ At("timer", "sleep")
    /\ IF flag["timerThreadShouldShutdown"]
       THEN Goto("timer", "leave") /\ UNCHANGED treeVars
       ELSE StartSample("timer")
    /\ UNCHANGED <<solverVars, flag, timeVars, mainVars, history>>

TimerSampled ==
    /\ At("timer", "sampled")
    /\ Display
    /\ count' = IF count = PartialSamples THEN 0 ELSE count + 1
    /\ Goto("timer", "loop")
    /\ UNCHANGED <<solverVars, flag, newTree, todo, timeVars, mainVars, history>>

TimerSeesEnd ==
    /\ At("timer", "rootEnded")
    /\ SetFlag("solverIsRunning", FALSE) /\ Goto("timer", "leave")
    /\ UNCHANGED <<solverVars, treeVars, timeVars, mainVars, history>>

TimerLeaves ==
    /\ At("timer", "leave")
    /\ SetFlag("timerThreadStopped", TRUE) /\ Goto("timer", "ended")
    /\ UNCHANGED <<solverVars, treeVars, timeVars, mainVars, history>>

TimerThread ==
    \/ TimerChecks \/ TimerWakesUp \/ TimerSampled \/ TimerSeesEnd \/ TimerLeaves
    \/ ReadProcess("timer") \/ ReadVanished("timer")
    \/ DropSample("timer") \/ KeepSample("timer")
    \/ StopSolver("timer")
-----------------------------------------------------------------------------
\* waitAndKillSolver()
WaitForDispatch ==
    /\ At("stopper", "waitDispatch") /\ flag["stopSolverShouldExecute"]
    /\ Goto("stopper", "waitTimer")
    /\ UNCHANGED <<solverVars, flag, treeVars, timeVars, mainVars, history>>

MutDoesNotWait ==
    /\ At("stopper", "waitTimer")
    /\ StartSample("stopper")
    /\ UNCHANGED <<solverVars, flag, timeVars, mainVars, history>>

WaitForTimer ==
    /\ At("stopper", "waitTimer") /\ flag["timerThreadStopped"]
    /\ StartSample("stopper")
    /\ UNCHANGED <<solverVars, flag, timeVars, mainVars, history>>

StopperSampled ==
    /\ At("stopper", "sampled")
    /\ Display
    /\ Goto("stopper", "term")
    /\ UNCHANGED <<solverVars, flag, count, newTree, todo, timeVars, mainVars, history>>

\* sendSIGTERM() and the first test of waitAndSendSIGKILL()
SendTerm ==
    /\ At("stopper", "term")
    /\ Goto("stopper", IF flag["solverIsRunning"] THEN "delay" ELSE "ended")
    /\ UNCHANGED <<solverVars, flag, treeVars, timeVars, mainVars, history>>

Sleep ==
    /\ At("stopper", "delay") /\ Goto("stopper", "awake")
    /\ UNCHANGED <<solverVars, flag, treeVars, timeVars, mainVars, history>>

\* sendSignalBottomUp(SIGKILL) needs the root in the tree.
StartKilling ==
    /\ At("stopper", "awake")
    /\ IF flag["solverIsRunning"]
       THEN /\ Goto("stopper", "kill")
            /\ todo' = IF Root \in DOMAIN procTree THEN DOMAIN procTree ELSE {}
       ELSE Goto("stopper", "ended") /\ UNCHANGED todo
    /\ UNCHANGED <<solverVars, flag, procTree, complete, count, newTree, timeVars,
                   mainVars, history>>

KillRunning(S) ==
    /\ Ended(S \cap Running)
    /\ UNCHANGED <<cpu, group, used>>

KillProcess ==
    /\ At("stopper", "kill")
    /\ \E p \in todo :
         /\ \A q \in todo : procTree[q].parent # p
         /\ KillRunning({p})
         /\ todo' = todo \ {p}
    /\ UNCHANGED <<flag, pc, procTree, complete, count, newTree, timeVars, mainVars,
                   history>>

KillGroup ==
    /\ At("stopper", "kill") /\ todo = {}
    /\ KillRunning(group)
    /\ Goto("stopper", "ended")
    /\ UNCHANGED <<flag, treeVars, timeVars, mainVars, history>>

StopperThread ==
    \/ WaitForDispatch \/ WaitForTimer \/ StopperSampled \/ SendTerm \/ Sleep
    \/ StartKilling \/ KillProcess \/ KillGroup
    \/ ReadProcess("stopper") \/ ReadVanished("stopper")
    \/ DropSample("stopper") \/ KeepSample("stopper")
    \/ StopSolver("stopper")
-----------------------------------------------------------------------------
\* run()
InstallSignalHandler ==
    /\ At("main", "install")
    /\ pc' = [pc EXCEPT !["main"] = Flags[1], !["handler"] = "sigwait"]
    /\ UNCHANGED <<solverVars, flag, treeVars, timeVars, mainVars, history>>

\* The flags are given their values after the handler has started.
InitFlag ==
    /\ \E i \in 1..5 :
         /\ At("main", Flags[i])
         /\ SetFlag(Flags[i], FALSE)
         /\ Goto("main", IF i = 5 THEN "fork" ELSE Flags[i + 1])
    /\ UNCHANGED <<solverVars, treeVars, timeVars, mainVars, history>>

ForkSolver ==
    /\ At("main", "fork") /\ Goto("main", "parent")
    /\ status' = [status EXCEPT ![Root] = "running"] /\ group' = {Root}
    /\ UNCHANGED <<parent, cpu, used, flag, treeVars, timeVars, mainVars, history>>

\* The first readProcesses() comes before the other threads.
Parent ==
    /\ At("main", "parent") /\ Goto("main", "createTimer")
    /\ SetFlag("solverIsRunning", TRUE)
    /\ procTree' = ReadAtOnce /\ complete' = TRUE
    /\ UNCHANGED <<solverVars, count, newTree, todo, timeVars, mainVars, history>>

CreateTimer ==
    /\ At("main", "createTimer")
    /\ pc' = [pc EXCEPT !["main"] = "createStopper", !["timer"] = "loop"]
    /\ UNCHANGED <<solverVars, flag, treeVars, timeVars, mainVars, history>>

CreateStopper ==
    /\ At("main", "createStopper")
    /\ pc' = [pc EXCEPT !["main"] = "wait4", !["stopper"] = "waitDispatch"]
    /\ UNCHANGED <<solverVars, flag, treeVars, timeVars, mainVars, history>>

MutNoDispatch ==
    /\ At("main", "wait4") /\ status[Root] = "zombie"
    /\ status' = [status EXCEPT ![Root] = "gone"]
    /\ usage' = cpu[Root] /\ cpu' = [cpu EXCEPT ![Root] = 0]
    /\ Goto("main", "shutdown")
    /\ UNCHANGED <<parent, group, used, flag, treeVars, timeVars, reported, history>>

Wait4 ==
    /\ At("main", "wait4") /\ status[Root] = "zombie"
    /\ status' = [status EXCEPT ![Root] = "gone"]
    /\ usage' = cpu[Root] /\ cpu' = [cpu EXCEPT ![Root] = 0]
    /\ Goto("main", "cas")
    /\ UNCHANGED <<parent, group, used, flag, treeVars, timeVars, reported, history>>

ShutTimerDown ==
    /\ At("main", "shutdown")
    /\ SetFlag("timerThreadShouldShutdown", TRUE) /\ Goto("main", "notRunning")
    /\ UNCHANGED <<solverVars, treeVars, timeVars, mainVars, history>>

NotRunning ==
    /\ At("main", "notRunning")
    /\ SetFlag("solverIsRunning", FALSE) /\ Goto("main", "joinTimer")
    /\ UNCHANGED <<solverVars, treeVars, timeVars, mainVars, history>>

\* With --timestamp (which is left open until it matters) the time stamper is
\* joined before the stopper; it reads until no process has the pipe open.
Join ==
    /\ \/ /\ At("main", "joinTimer") /\ At("timer", "ended")
          /\ \E timeStamping \in BOOLEAN :
               Goto("main", IF timeStamping THEN "joinStamper" ELSE "joinStopper")
       \/ /\ At("main", "joinStamper") /\ Running = {}
          /\ Goto("main", "joinStopper")
       \/ /\ At("main", "joinStopper") /\ At("stopper", "ended")
          /\ Goto("main", "fallback")
    /\ UNCHANGED <<solverVars, flag, treeVars, timeVars, mainVars, history>>

MutNoKill ==
    /\ At("main", "fallback") /\ Goto("main", "report")
    /\ UNCHANGED <<solverVars, flag, treeVars, timeVars, mainVars, history>>

FallbackKill ==
    /\ At("main", "fallback") /\ Goto("main", "report")
    /\ KillRunning(group)
    /\ UNCHANGED <<flag, treeVars, timeVars, mainVars, history>>

MutLostForgotten(margin) ==
    IF currentCPUTime > usage \/ usage > currentCPUTime + margin
    THEN currentCPUTime ELSE usage

\* "don't get fooled": the time that wait4() gives, unless it is less than
\* the last sample or much more.
CPUTime(margin) ==
    (IF currentCPUTime > usage \/ usage > currentCPUTime + margin
     THEN currentCPUTime ELSE usage) + lostCPUTime

Report ==
    /\ At("main", "report") /\ Goto("main", "ended")
    /\ \E margin \in FoolMargins : reported' = CPUTime(margin)
    /\ UNCHANGED <<solverVars, flag, treeVars, timeVars, usage, history>>

MainThread ==
    \/ InstallSignalHandler \/ InitFlag \/ ForkSolver \/ Parent \/ CreateTimer
    \/ CreateStopper \/ Wait4 \/ ShutTimerDown \/ NotRunning \/ Join
    \/ FallbackKill \/ Report \/ StopSolver("main")

HandlerThread == HandleSignal \/ StopSolver("handler")

Next == Solver \/ Signal \/ HandlerThread \/ TimerThread \/ StopperThread \/ MainThread

Spec == Init /\ [][Next]_vars

(***************************************************************************)
(* The scheduler runs each thread, and sleeps end.  Nothing is assumed of  *)
(* the solver, nor that a signal arrives or a limit is ever reached.       *)
(***************************************************************************)
FairSpec ==
    /\ Spec
    /\ WF_vars(HandlerThread) /\ WF_vars(TimerThread)
    /\ WF_vars(StopperThread) /\ WF_vars(MainThread)
-----------------------------------------------------------------------------
\* procTree and the CPU times have no lock.  They are safe because the stopper
\* touches them only when the timer has left for good, and the report reads
\* them only when both threads have ended: also if several threads call
\* stopSolver() at once, and if a signal arrives during the start.
Sampling == {"read", "cas", "stopTimer", "dispatch", "sampled"}
UsingTree == [timer |-> Sampling,
              stopper |-> Sampling \cup {"term", "delay", "awake", "kill"},
              main |-> {"parent", "fallback", "report"}]
UsesTree(t) == pc[t] \in UsingTree[t]
OneUserOfTree ==
    \A t, u \in {"main", "timer", "stopper"} : UsesTree(t) /\ UsesTree(u) => t = u

\* What the wrapper reads as a timeout is also a time beyond the limit: if
\* runsolver_max_cpu_time_exceeded was printed, the CPU time that is reported
\* reaches the limit, whatever ended, was killed or went unreported since.
TimeoutIsReported == reported # -1 /\ exceeded => reported >= CPULimit

\* No time is invented: the solver has really used the CPU time that made it
\* exceed the limit, and the time in the report, unless a process was waited
\* for at one of the two bad moments of a sample (torn).
TimeWasUsed ==
    ~torn => /\ currentCPUTime + lostCPUTime <= used /\ reported <= used
             /\ exceeded => used >= CPULimit

\* No process of the group of the solver outlives runsolver.
GroupIsDead == pc["main"] = "ended" => group \cap Running = {}

\* A solver that exceeds its limit is ended, however it forks and whatever it
\* ignores, and so is one whose runsolver gets SIGINT or SIGTERM, unless the
\* signal arrived before the flags were set up.
SolverIsStopped ==
    (LimitReached(cpu[Root]) \/ pc["handler"] = "returned") /\ ~early
        ~> status[Root] = "gone"

\* When the solver has ended, runsolver ends; with --timestamp only when no
\* process of the solver holds the pipe any more.
RunReturns ==
    status[Root] = "gone" /\ ~early
        ~> pc["main"] = "ended" \/ (pc["main"] = "joinStamper" /\ Running # {})
=============================================================================
