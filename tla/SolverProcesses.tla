-------------------------- MODULE SolverProcesses --------------------------
(***************************************************************************)
(* The processes of the solver, as runsolver and the kernel see them: the  *)
(* child that runsolver forks, and what this child forks in turn.          *)
(* runsolver declares itself a child subreaper (runsolver.cc:686), so a    *)
(* process whose parent dies becomes a child of runsolver, and runsolver   *)
(* alone decides when its pid disappears.                                  *)
(*                                                                         *)
(* The solver and the kernel are not under src/: these definitions are the *)
(* environment of Watcher.  No process of the solver ignores SIGCHLD: its  *)
(* children would vanish with their time, without anybody waiting for them.*)
(***************************************************************************)
EXTENDS Integers, FiniteSets

CONSTANTS
    NProcs,     \* how many processes the solver may create (bound)
    MaxCPU      \* how many units of CPU time they may use (bound)

ASSUME ProcessesAssumption == NProcs \in Nat \ {0} /\ MaxCPU \in Nat

(***************************************************************************)
(* Pids are given in increasing order and are not reused.  runsolver is    *)
(* process 0 here and the child it forks is process 1.                     *)
(***************************************************************************)
Procs == 1..NProcs
Runsolver == 0
Child == 1

VARIABLES
    status,     \* "none", "running", "zombie" (ended, not waited for), "gone"
    ppid,       \* the parent of each process
    cpu,        \* utime+stime+cutime+cstime of each process
    childrenCPU,\* what getrusage(RUSAGE_CHILDREN) returns in runsolver
    used        \* history: the CPU time the solver has really used

procVars == <<status, ppid, cpu, childrenCPU, used>>

SolverTypeOK ==
    /\ status \in [Procs -> {"none", "running", "zombie", "gone"}]
    /\ ppid \in [Procs -> Procs \cup {Runsolver}]
    /\ cpu \in [Procs -> Nat]
    /\ childrenCPU \in Nat
    /\ used \in 0..MaxCPU

Running == {p \in Procs : status[p] = "running"}
Existing == {p \in Procs : status[p] \in {"running", "zombie"}}
PidsGiven == Cardinality({p \in Procs : status[p] # "none"})
ChildrenOf(q) == {p \in Existing : ppid[p] = q}

(***************************************************************************)
(* fork() in runsolver has just returned: the child exists, nothing else.  *)
(***************************************************************************)
SolverInit ==
    /\ status = [p \in Procs |-> IF p = Child THEN "running" ELSE "none"]
    /\ ppid = [p \in Procs |-> Runsolver]
    /\ cpu = [p \in Procs |-> 0]
    /\ childrenCPU = 0
    /\ used = 0

(***************************************************************************)
(* What the solver's processes do on their own.                            *)
(***************************************************************************)
Fork(p, new) ==
    /\ p \in Running
    /\ status[new] = "none"
    /\ \A q \in Procs : q < new => status[q] # "none"
    /\ status' = [status EXCEPT ![new] = "running"]
    /\ ppid' = [ppid EXCEPT ![new] = p]
    /\ UNCHANGED <<cpu, childrenCPU, used>>

Compute(p) ==
    /\ p \in Running
    /\ used < MaxCPU
    /\ used' = used + 1
    /\ cpu' = [cpu EXCEPT ![p] = @ + 1]
    /\ UNCHANGED <<status, ppid, childrenCPU>>

(***************************************************************************)
(* p ends.  It is a zombie until its parent waits for it, and its own      *)
(* children, zombies included, are adopted by runsolver.                   *)
(***************************************************************************)
Die(p) ==
    /\ p \in Running
    /\ status' = [status EXCEPT ![p] = "zombie"]
    /\ ppid' = [q \in Procs |-> IF ppid[q] = p THEN Runsolver ELSE ppid[q]]
    /\ UNCHANGED <<cpu, childrenCPU, used>>

(***************************************************************************)
(* A process of the solver waits for one of its children, whose CPU time   *)
(* is added to its own cutime and cstime.                                  *)
(***************************************************************************)
WaitFor(q, p) ==
    /\ q \in Running
    /\ p \in ChildrenOf(q)
    /\ status[p] = "zombie"
    /\ status' = [status EXCEPT ![p] = "gone"]
    /\ cpu' = [cpu EXCEPT ![q] = @ + cpu[p], ![p] = 0]
    /\ UNCHANGED <<ppid, childrenCPU, used>>

SolverStep ==
    \E p \in Procs :
        \/ Compute(p)
        \/ Die(p)
        \/ \E q \in Procs : Fork(p, q) \/ WaitFor(p, q)

(***************************************************************************)
(* System calls of runsolver: waitpid(-1) reaps p, kill() sends a signal.  *)
(* SIGKILL ends a running process at once.  A process may do anything on   *)
(* SIGTERM, ending included, so the call itself changes nothing here.      *)
(***************************************************************************)
Reap(p) ==
    /\ p \in ChildrenOf(Runsolver)
    /\ status[p] = "zombie"
    /\ status' = [status EXCEPT ![p] = "gone"]
    /\ childrenCPU' = childrenCPU + cpu[p]
    /\ cpu' = [cpu EXCEPT ![p] = 0]
    /\ UNCHANGED <<ppid, used>>

Kill(p, sig) ==
    IF sig = "SIGKILL" /\ p \in Running THEN Die(p) ELSE UNCHANGED procVars
=============================================================================
