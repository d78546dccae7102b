------------------------------ MODULE TargetRun ------------------------------
(***************************************************************************)
(* The processes below the wrapper: the shell that Popen(shell=True) starts *)
(* runs runsolver, which runs the target algorithm (the solver) under a CPU *)
(* and a memory limit.  What runsolver does in detail is module Watcher;    *)
(* here it is reduced to what the wrapper can tell: it asks the solver to   *)
(* stop when a limit is exceeded or when it receives SIGTERM, kills it      *)
(* after a delay, ends when the solver has ended, and leaves a report.      *)
(***************************************************************************)
EXTENDS Integers, FiniteSets, Sequences

CONSTANTS
    ShellExecs,     \* does sh -c replace itself by the command (bash, dash >= 0.5.11)?
    KillDelay,      \* delayBeforeKill of runsolver, in seconds
    Sleep,          \* _DELAY2KILL of the wrapper, in seconds
    Reports         \* what runsolver may leave in the watcher file

ASSUME TargetAssumption ==
    /\ ShellExecs \in BOOLEAN
    /\ KillDelay \in Nat /\ Sleep \in Nat

VARIABLES
    shell, runsolver, solver,   \* "none", "running" (or "stopping"), "dead"
    stubborn,       \* does the solver ignore SIGTERM?
    stopReason,     \* the limit that runsolver reported as exceeded, or "none"
    killIn,         \* seconds until runsolver sends SIGKILL
    pkill,          \* the pkill that the wrapper starts: "none", "running", "done"
    sleepLeft,      \* seconds until the wrapper wakes up
    report          \* the watcher file, once runsolver has ended

targetVars == <<shell, runsolver, solver, stubborn, stopReason, killIn,
                pkill, sleepLeft, report>>
processes == <<shell, runsolver, solver>>

NoValue == -1       \* a line that is not in the report
NoReport == [readable |-> TRUE, stopped |-> "none", cpu |-> NoValue, child |-> NoValue]

TargetInit ==
    /\ shell = "none" /\ runsolver = "none" /\ solver = "none"
    /\ stubborn \in BOOLEAN
    /\ stopReason = "none" /\ killIn = 0 /\ pkill = "none" /\ sleepLeft = 0
    /\ report = NoReport

StartShell ==
    /\ shell' = "running"
    /\ UNCHANGED <<runsolver, solver, stubborn, stopReason, killIn, pkill, sleepLeft, report>>

\* The shell starts runsolver, which starts the solver.
Launch ==
    /\ shell = "running" /\ runsolver = "none"
    /\ runsolver' = "running" /\ solver' = "running"
    /\ UNCHANGED <<shell, stubborn, stopReason, killIn, pkill, sleepLeft, report>>

\* The solver ends by itself.
SolverEnds ==
    /\ solver = "running"
    /\ solver' = "dead"
    /\ UNCHANGED <<shell, runsolver, stubborn, stopReason, killIn, pkill, sleepLeft, report>>

\* A limit is exceeded: runsolver sends SIGTERM and starts to wait.
LimitExceeded ==
    /\ runsolver = "running" /\ solver = "running"
    /\ stopReason' \in {"cpu", "vsize"}
    /\ runsolver' = "stopping"
    /\ killIn' = KillDelay
    /\ solver' = IF stubborn THEN solver ELSE "dead"
    /\ UNCHANGED <<shell, stubborn, pkill, sleepLeft, report>>

RunsolverKills ==
    /\ runsolver = "stopping" /\ solver = "running" /\ killIn = 0
    /\ solver' = "dead"
    /\ UNCHANGED <<shell, runsolver, stubborn, stopReason, killIn, pkill, sleepLeft, report>>

\* The last line of the report is written; it may be corrupted.
RunsolverEnds ==
    /\ runsolver \in {"running", "stopping"} /\ solver = "dead"
    /\ runsolver' = "dead"
    /\ report' \in {r \in Reports : r.stopped = stopReason}
    /\ shell' = IF ShellExecs THEN "dead" ELSE shell
    /\ UNCHANGED <<solver, stubborn, stopReason, killIn, pkill, sleepLeft>>

ShellEnds ==
    /\ ~ShellExecs /\ shell = "running" /\ runsolver = "dead"
    /\ shell' = "dead"
    /\ UNCHANGED <<runsolver, solver, stubborn, stopReason, killIn, pkill, sleepLeft, report>>

\* A second passes.
Second ==
    /\ killIn > 0 \/ sleepLeft > 0
    /\ killIn' = IF killIn > 0 THEN killIn - 1 ELSE 0
    /\ sleepLeft' = IF sleepLeft > 0 THEN sleepLeft - 1 ELSE 0
    /\ UNCHANGED <<processes, stubborn, stopReason, pkill, report>>

\* pkill -TERM -P <pid of the Popen>: the children of that process are
\* runsolver or, if the shell replaced itself by runsolver, the solver.
MutTerminateShell ==
    /\ pkill = "running"
    /\ pkill' = "done"
    /\ shell' = "dead"
    /\ UNCHANGED <<runsolver, solver, stubborn, stopReason, killIn, sleepLeft, report>>

TermChildren ==
    /\ pkill = "running"
    /\ pkill' = "done"
    /\ IF ShellExecs
       THEN /\ solver' = IF shell = "running" /\ ~stubborn THEN "dead" ELSE solver
            /\ UNCHANGED <<runsolver, killIn>>
       ELSE IF shell = "running" /\ runsolver = "running" /\ solver = "running"
       THEN /\ runsolver' = "stopping"
            /\ killIn' = KillDelay
            /\ solver' = IF stubborn THEN solver ELSE "dead"
       ELSE UNCHANGED <<runsolver, solver, killIn>>
    /\ UNCHANGED <<shell, stubborn, stopReason, sleepLeft, report>>

RunsolverStep == Launch \/ RunsolverKills \/ RunsolverEnds \/ ShellEnds
ProcessStep == RunsolverStep \/ TermChildren
TargetStep == SolverEnds \/ LimitExceeded \/ ProcessStep \/ Second

(***************************************************************************)
(* What the wrapper does to them.                                          *)
(***************************************************************************)
\* Popen(["pkill", ...]) returns at once: pkill runs while the wrapper sleeps.
StartPkill ==
    /\ pkill' = "running"
    /\ sleepLeft' = Sleep
    /\ UNCHANGED <<processes, stubborn, stopReason, killIn, report>>

\* sub.kill(): SIGKILL to the process of the Popen.
KillShell ==
    /\ shell' = "dead"
    /\ runsolver' = IF ShellExecs THEN "dead" ELSE runsolver
    /\ UNCHANGED <<solver, stubborn, stopReason, killIn, pkill, sleepLeft, report>>
=============================================================================
