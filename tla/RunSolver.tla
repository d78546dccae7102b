----------------------------- MODULE RunSolver -----------------------------
(***************************************************************************)
(* runsolver.cc: how runsolver 3.4.0 reads its command line, sets up the   *)
(* limits, the cores and the pipe (or pseudo terminal) of the output, and  *)
(* starts the solver; then what main() waits for until it ends.            *)
(*                                                                         *)
(* The watcher is here only what RunSolver::run() sees of it: watchPID()   *)
(* returns when no solver process is left, and a request to stop the       *)
(* solver, or a limit, ends them (module Watcher).  The time stamper is    *)
(* the thread that reads until nobody can write any more (module           *)
(* TimeStamper).  Limits are in seconds and KiB.                           *)
(***************************************************************************)
EXTENDS Cores, FiniteSetsExt

CONSTANTS
    CommandLines,   \* sequences of options [name, arg]
    Topologies,     \* machines: functions from a core to its siblings
    Ceilings,       \* hard limits of the user that runs runsolver
    Procs           \* processes that the solver may create

ASSUME RunSolverAssumption ==
    /\ MaskWord \in Nat \ {0}
    /\ Ceilings \subseteq [{"cpu", "as", "stack"} -> Int]
    /\ "child" \in Procs

\* The cores of a machine are numbered from 0; those of a processor list each
\* other.
ASSUME MachinesAssumption ==
    \A t \in Topologies :
        /\ IsFiniteSet(DOMAIN t) /\ DOMAIN t = 0..Cardinality(DOMAIN t) - 1
        /\ \A c \in DOMAIN t :
              /\ c \in t[c] /\ t[c] \subseteq DOMAIN t
              /\ \A d \in t[c] : t[d] = t[c]

\* atoi() and atol() give numbers; a list of cores is made of numbers and ranges.
GivenOptions == UNION {{l[k] : k \in DOMAIN l} : l \in CommandLines}
ASSUME OptionsAssumption ==
    /\ CommandLines \subseteq Seq(GivenOptions)
    /\ \A o \in GivenOptions :
          /\ o.name \in {"-C", "-W", "-S", "-M", "--mem-limit", "--vsize-limit",
                         "--rss-swap-limit"} => o.arg \in Int
          /\ o.name \in {"--cores", "--phys-cores"} =>
                /\ o.arg \in Seq(Seq(Nat))
                /\ \A n \in DOMAIN o.arg : Len(o.arg[n]) \in 1..2

VARIABLES
    topology, ceiling,      \* the machine and its limits
    args,           \* options not read yet
    settings,       \* what the options set: members of RunSolver and of main()
    asked,          \* the last list of cores that was selected (history)
    watched,        \* the limits that the watcher enforces, 0 if none
    limits,         \* vector of limits to enforce with setrlimit()
    affinity,       \* of the main thread, of the time stamper, of the solver
    pc,             \* main()
    child,          \* the process forked, up to execvp()
    rlimit,         \* its limits
    alive,          \* solver processes
    writers,        \* who can write into the pipe or the pseudo terminal
    slaveOpened,    \* was the pseudo terminal ever opened by the child?
    stamper,        \* the time stamper thread
    handled,        \* are the handlers of SIGTERM and SIGINT installed?
    stopRequested,  \* did one of them run?
    status          \* exit status of runsolver

machine == <<topology, ceiling>>
setup == <<args, settings, asked, watched, limits>>
vars == <<machine, setup, affinity, pc, child, rlimit, alive, writers,
          slaveOpened, stamper, handled, stopRequested, status>>

Threads == {"main", "stamper", "solver"}
Resources == {"cpu", "as", "stack"}

Init ==
    /\ topology \in Topologies /\ ceiling \in Ceilings
    /\ args \in CommandLines
    /\ settings = [timestamp |-> FALSE, pty |-> FALSE,
                   input |-> "", output |-> "", vsize |-> 0, mem |-> 0,
                   watchdog |-> 0]
    /\ asked = [list |-> <<>>, physical |-> FALSE]
    /\ watched = [cpu |-> 0, wall |-> 0, vsize |-> 0, mem |-> 0]
    /\ limits = <<>>
    /\ affinity = [t \in Threads |-> Online(topology)]
    /\ pc = "options" /\ child = "none"
    /\ rlimit = ceiling
    /\ alive = {} /\ writers = {} /\ slaveOpened = FALSE
    /\ stamper = "none" /\ handled = FALSE /\ stopRequested = FALSE
    /\ status = -1
-----------------------------------------------------------------------------
\* main(): one option at a time.
Option == Head(args)
Reads(names) == pc = "options" /\ args # <<>> /\ Option.name \in names

OthersUnchanged ==
    UNCHANGED <<machine, rlimit, alive, writers, slaveOpened, stamper, handled,
                stopRequested, child>>

Exit(code) ==
    /\ pc' = "exited" /\ status' = code
    /\ UNCHANGED <<setup, affinity>> /\ OthersUnchanged

NextOption == args' = Tail(args) /\ UNCHANGED <<pc, status>> /\ OthersUnchanged

\* Members of RunSolver, and vsizeLimit, memLimit and watchdogDelay of main()
Value(setting) ==
    CASE setting \in {"vsize", "mem"} -> Option.arg * 1024
      [] setting \in {"timestamp", "pty"} -> TRUE
      [] OTHER -> Option.arg
Setting(name) ==
    CASE name \in {"-M", "--mem-limit", "--vsize-limit"} -> "vsize"
      [] name = "--rss-swap-limit" -> "mem"
      [] name = "--timestamp" -> "timestamp"
      [] name = "--use-pty" -> "pty"
      [] name = "--input" -> "input"
      [] name = "-o" -> "output"
      [] name = "--watchdog" -> "watchdog"
Setters == {"-M", "--mem-limit", "--vsize-limit", "--rss-swap-limit",
            "--timestamp", "--use-pty", "--input", "-o", "--watchdog"}

SetMember ==
    /\ Reads(Setters)
    /\ settings' = [settings EXCEPT ![Setting(Option.name)] =
                      Value(Setting(Option.name))]
    /\ NextOption /\ UNCHANGED <<asked, watched, limits, affinity>>

\* The soft limit is the watcher's; the hard one comes 30 seconds later.
Limit(resource, limit) == [resource |-> resource, limit |-> limit]

MutNoReserve ==
    /\ Reads({"-C"})
    /\ watched' = [watched EXCEPT !.cpu = Option.arg]
    /\ limits' = limits \o <<Limit("none", Option.arg), Limit("cpu", Option.arg)>>
    /\ NextOption /\ UNCHANGED <<settings, asked, affinity>>

SetCPULimit ==
    /\ Reads({"-C"})
    /\ watched' = [watched EXCEPT !.cpu = Option.arg]
    /\ limits' = limits \o
          <<Limit("none", Option.arg), Limit("cpu", Option.arg + 30)>>
    /\ NextOption /\ UNCHANGED <<settings, asked, affinity>>

SetWallClockLimit ==
    /\ Reads({"-W"})
    /\ watched' = [watched EXCEPT !.wall = Option.arg]
    /\ limits' = Append(limits, Limit("none", Option.arg))
    /\ NextOption /\ UNCHANGED <<settings, asked, affinity>>

SetStackLimit ==
    /\ Reads({"-S"})
    /\ limits' = Append(limits, Limit("stack", Option.arg * 1024))
    /\ NextOption /\ UNCHANGED <<settings, asked, watched, affinity>>

\* selectCores() pins runsolver, and so what it starts.
SelectCores ==
    /\ Reads({"--cores", "--phys-cores"}) /\ Option.arg # <<>>
    /\ \E mask \in Selections(ExistingCores(topology, Option.name = "--phys-cores"),
                               Online(topology), Option.arg) :
          affinity' = [t \in Threads |-> SetAffinity(topology, affinity[t], mask)]
    /\ asked' = [list |-> Option.arg, physical |-> Option.name = "--phys-cores"]
    /\ NextOption /\ UNCHANGED <<settings, watched, limits>>

\* -O needs A < M, and time stamps from then on; its sizes are those of module
\* CircularBufferFilter.
OutputLimit ==
    /\ Reads({"-O"})
    /\ Option.arg[1] < Option.arg[2]
    /\ settings' = [settings EXCEPT !.timestamp = TRUE]
    /\ NextOption /\ UNCHANGED <<asked, watched, limits, affinity>>

\* What else does not reach the solver: usage(), exceptions, --version.
\* --add-eof falls through into --sig, which throws "unimplemented"; -V, -R and
\* -i are no short options, --signal is not the name of a long one.
Refused ==
    \/ Reads({"--add-eof", "--sig", "-V", "-R", "-i", "--signal", "-h"})
    \/ Reads({"--cores", "--phys-cores"}) /\ Option.arg = <<>>
    \/ Reads({"-O"}) /\ Option.arg[1] >= Option.arg[2]
Refuse == Refused /\ Exit(1)
PrintVersion == Reads({"--version"}) /\ Exit(0)

ReadOption ==
    SetMember \/ SetCPULimit \/ SetWallClockLimit \/ SetStackLimit \/ SelectCores
    \/ OutputLimit \/ Refuse \/ PrintVersion

\* main(): after the options.  The VSIZE reserve is 50 MiB.
AddLimits ==
    /\ pc = "options" /\ args = <<>>
    /\ watched' = [watched EXCEPT !.vsize = settings.vsize, !.mem = settings.mem]
    /\ limits' = limits
          \o (IF settings.vsize = 0 THEN <<>>
              ELSE <<Limit("none", settings.vsize),
                     Limit("as", settings.vsize + 50 * 1024)>>)
          \o (IF settings.mem = 0 THEN <<>> ELSE <<Limit("none", settings.mem)>>)
    /\ pc' = "run"
    /\ UNCHANGED <<args, settings, asked, affinity, status>> /\ OthersUnchanged
-----------------------------------------------------------------------------
\* run(): prctl(PR_SET_CHILD_SUBREAPER), then the signal handlers
NoSubreaper == pc = "run" /\ Exit(1)

InstallHandlers ==
    /\ pc = "run"
    /\ handled' = TRUE
    /\ pc' = IF settings.timestamp THEN "stamp" ELSE "fork"
    /\ UNCHANGED <<machine, setup, affinity, child, rlimit, alive, writers,
                   slaveOpened, stamper, stopRequested, status>>

\* run(): the time stamper starts before the fork and keeps the cores that
\* runsolver has then.
OpenFails == pc = "stamp" /\ settings.output = "unwritable" /\ Exit(1)

StartStamper ==
    /\ pc = "stamp" /\ settings.output # "unwritable"
    /\ writers' = IF settings.pty THEN {} ELSE {"runsolver"}
    /\ stamper' = "reads"
    /\ pc' = "fork"
    /\ UNCHANGED <<machine, setup, affinity, child, rlimit, alive, slaveOpened,
                   handled, stopRequested, status>>

Fork ==
    /\ pc = "fork"
    /\ alive' = {"child"} /\ child' = "limits"
    /\ writers' = IF writers = {} THEN {} ELSE writers \cup {"child"}
    /\ affinity' = [affinity EXCEPT !["solver"] = affinity["main"]]
    /\ pc' = "parent"
    /\ UNCHANGED <<machine, setup, rlimit, slaveOpened, stamper, handled,
                   stopRequested, status>>

\* fork() may fail: exit(127), which ends the time stamper.
ForkFails ==
    /\ pc = "fork"
    /\ pc' = "exited" /\ status' = 127
    /\ stamper' = IF stamper = "reads" THEN "ended" ELSE stamper
    /\ writers' = {}
    /\ UNCHANGED <<machine, setup, affinity, child, rlimit, alive, slaveOpened,
                   handled, stopRequested>>

\* The child: enforceLimit() of each limit in turn; setrlimit() fails above the
\* hard limit of the user, which is reported and ignored.
Enforceable(resource) ==
    {n \in DOMAIN limits : /\ limits[n].resource = resource
                           /\ limits[n].limit <= ceiling[resource]}
Enforced(resource) ==
    IF Enforceable(resource) = {} THEN rlimit[resource]
    ELSE limits[Max(Enforceable(resource))].limit

EnforceLimits ==
    /\ child = "limits"
    /\ rlimit' = [r \in Resources |-> Enforced(r)]
    /\ child' = "input"
    /\ UNCHANGED <<machine, setup, affinity, pc, alive, writers, slaveOpened,
                   stamper, handled, stopRequested, status>>

\* The child: redirections.  A file that cannot be opened is an exception, which
\* ends the child with exit(1) in main().
RedirectInput ==
    /\ child = "input"
    /\ child' = IF settings.input = "missing" THEN "failed" ELSE "output"
    /\ UNCHANGED <<machine, setup, affinity, pc, rlimit, alive, writers,
                   slaveOpened, stamper, handled, stopRequested, status>>

RedirectOutput ==
    /\ child = "output"
    /\ IF settings.timestamp /\ settings.pty
       THEN slaveOpened' = TRUE /\ writers' = writers \cup {"child"}
       ELSE UNCHANGED <<slaveOpened, writers>>
    /\ child' = IF settings.output = "unwritable" /\ ~settings.timestamp
                THEN "failed" ELSE "exec"
    /\ UNCHANGED <<machine, setup, affinity, pc, rlimit, alive, stamper, handled,
                   stopRequested, status>>

\* The child: execvp() may fail (exit(127)).
Exec ==
    /\ child = "exec"
    /\ child' \in {"solver", "failed"}
    /\ UNCHANGED <<machine, setup, affinity, pc, rlimit, alive, writers,
                   slaveOpened, stamper, handled, stopRequested, status>>

\* The solver creates processes, which inherit the output; processes end.
CreateProcess(p) ==
    /\ child = "solver" /\ alive # {} /\ p \notin alive
    /\ alive' = alive \cup {p}
    /\ writers' = IF settings.timestamp THEN writers \cup {p} ELSE writers
    /\ UNCHANGED <<machine, setup, affinity, pc, child, rlimit, slaveOpened,
                   stamper, handled, stopRequested, status>>

ProcessEnds(p) ==
    /\ p \in alive /\ (p = "child" => child \in {"solver", "failed"})
    /\ alive' = alive \ {p} /\ writers' = writers \ {p}
    /\ UNCHANGED <<machine, setup, affinity, pc, child, rlimit, slaveOpened,
                   stamper, handled, stopRequested, status>>
-----------------------------------------------------------------------------
\* The parent: pins itself to its last core and closes the write end of the
\* pipe.
MutKeepsWriteEnd ==
    /\ pc = "parent"
    /\ LET cores == AllocatedCores(topology, affinity["main"])
           last  == IF Len(cores) > 1 THEN {Last(cores)} ELSE ToSet(cores)
       IN  affinity' = [affinity EXCEPT !["main"] = SetAffinity(topology, @, last)]
    /\ pc' = "watch"
    /\ UNCHANGED <<machine, setup, writers, child, rlimit, alive, slaveOpened,
                   stamper, handled, stopRequested, status>>

Parent ==
    /\ pc = "parent"
    /\ LET cores == AllocatedCores(topology, affinity["main"])
           last  == IF Len(cores) > 1 THEN {Last(cores)} ELSE ToSet(cores)
       IN  affinity' = [affinity EXCEPT !["main"] = SetAffinity(topology, @, last)]
    /\ writers' = writers \ {"runsolver"}
    /\ pc' = "watch"
    /\ UNCHANGED <<machine, setup, child, rlimit, alive, slaveOpened, stamper,
                   handled, stopRequested, status>>

\* The watcher ends the solver when a limit is exceeded or a signal came.
MutLimitsOnly == \E l \in DOMAIN watched : watched[l] # 0
Limited == stopRequested \/ \E l \in DOMAIN watched : watched[l] # 0
WatcherKills ==
    /\ pc = "watch" /\ Limited
    /\ child \in {"solver", "failed"} /\ alive # {}
    /\ alive' = {} /\ writers' = writers \ Procs
    /\ UNCHANGED <<machine, setup, affinity, pc, child, rlimit, slaveOpened,
                   stamper, handled, stopRequested, status>>

WatchPIDReturns ==
    /\ pc = "watch" /\ alive = {}
    /\ pc' = IF settings.timestamp THEN "join" ELSE "exited"
    /\ status' = IF settings.timestamp THEN status ELSE 0
    /\ UNCHANGED <<setup, affinity>> /\ OthersUnchanged

\* The time stamper reads until the pipe has no writer; a pseudo terminal
\* reports its end only after its slave was opened once.
StamperEnds ==
    /\ stamper = "reads" /\ writers = {}
    /\ settings.pty => slaveOpened
    /\ stamper' = "ended"
    /\ UNCHANGED <<machine, setup, affinity, pc, child, rlimit, alive, writers,
                   slaveOpened, handled, stopRequested, status>>

JoinStamper ==
    /\ pc = "join" /\ stamper = "ended"
    /\ pc' = "exited" /\ status' = 0
    /\ UNCHANGED <<setup, affinity>> /\ OthersUnchanged

\* SIGTERM or SIGINT: before the handlers are there, it kills runsolver.
Terminate ==
    /\ pc \notin {"exited", "killed"}
    /\ IF handled THEN stopRequested' = TRUE /\ UNCHANGED <<pc, stamper>>
                  ELSE pc' = "killed" /\ UNCHANGED <<stopRequested, stamper>>
    /\ UNCHANGED <<machine, setup, affinity, child, rlimit, alive, writers,
                   slaveOpened, handled, status>>

\* The thread of --watchdog sends SIGABRT to runsolver once its delay is over.
WatchdogFires ==
    /\ settings.watchdog # 0
    /\ pc \in {"run", "stamp", "fork", "parent", "watch", "join"}
    /\ pc' = "killed"
    /\ stamper' = IF stamper = "reads" THEN "ended" ELSE stamper
    /\ writers' = writers \ {"runsolver"}
    /\ UNCHANGED <<machine, setup, affinity, child, rlimit, alive, slaveOpened,
                   handled, stopRequested, status>>

Done == pc \in {"exited", "killed"} /\ alive = {} /\ UNCHANGED vars

Main ==
    \/ ReadOption \/ AddLimits \/ InstallHandlers \/ OpenFails \/ StartStamper
    \/ Fork \/ Parent \/ WatchPIDReturns \/ JoinStamper
Child == EnforceLimits \/ RedirectInput \/ RedirectOutput \/ Exec
Solver == \E p \in Procs : CreateProcess(p) \/ ProcessEnds(p)

Next ==
    Main \/ NoSubreaper \/ ForkFails \/ Child \/ Solver \/ WatcherKills \/ StamperEnds
    \/ Terminate \/ WatchdogFires \/ Done

Spec == Init /\ [][Next]_vars

\* Threads and the child run whenever they can.  The solver need not end by
\* itself; the watcher ends it if there is a reason to.
FairSpec ==
    /\ Spec
    /\ WF_vars(Main) /\ WF_vars(Child) /\ WF_vars(WatcherKills)
    /\ WF_vars(StamperEnds)
    /\ WF_vars(child = "failed" /\ ProcessEnds("child"))
-----------------------------------------------------------------------------
\* The solver runs on the cores that the user selected: of the system's list
\* with --phys-cores, of the list sorted by processors with --cores, whatever
\* runsolver pins itself to.  Numbers that exceed the list are left out.
ByProcessor ==
    LET cores        == Online(topology)
        Processor(c) == Min(topology[c])
        Before(a, b) == \/ Processor(a) < Processor(b)
                        \/ Processor(a) = Processor(b) /\ a < b
    IN  Sorted(cores, [c \in cores |-> {d \in cores : Before(d, c)}])
Wanted ==
    LET list == IF asked.physical THEN Ascending(Online(topology)) ELSE ByProcessor
    IN  {list[k] : k \in {k \in DOMAIN list : \E n \in DOMAIN asked.list :
            LET item == asked.list[n]
            IN  \/ item[1] <= k - 1 /\ k - 1 <= Last(item)
                \/ Last(item) <= k - 1 /\ k - 1 <= item[1]}}
\* A range may reach past the list, a single number may not.
NumbersExist ==
    \A n \in DOMAIN asked.list :
        Len(asked.list[n]) = 1 => asked.list[n][1] < Cardinality(Online(topology))
SolverOnSelectedCores ==
    child # "none" /\ asked.list # <<>> /\ NumbersExist /\ Wanted # {} =>
        affinity["solver"] = Wanted /\ affinity["main"] \subseteq Wanted

\* The kernel's limit comes after the one at which the watcher stops the
\* solver with SIGTERM, and is there, if the user may have such a limit.
HardLimitAfterSoft ==
    child = "solver" =>
        /\ watched.cpu \in 1..ceiling.cpu - 30 =>
              rlimit.cpu \in watched.cpu + 1..watched.cpu + 30
        /\ watched.vsize \in 1..ceiling.as - 50 * 1024 =>
              rlimit.as \in watched.vsize + 1..watched.vsize + 50 * 1024

\* Once no solver process is left runsolver ends: the time stamper that run()
\* joins sees the end of the output, unless the child failed before it opened
\* its pseudo terminal: then runsolver hangs, until it is killed.
Ended == pc \in {"exited", "killed"}
TerminalNeverOpened ==
    pc = "join" /\ settings.timestamp /\ settings.pty /\ ~slaveOpened
RunReturns == pc \in {"watch", "join"} /\ alive = {} ~> Ended \/ TerminalNeverOpened

\* SIGTERM or SIGINT, at any moment of the start, ends the run, and no process
\* of the solver is left if runsolver ended by itself.
SignalEndsRun ==
    stopRequested ~> \/ Ended /\ (pc = "exited" => alive = {})
                     \/ TerminalNeverOpened
=============================================================================
