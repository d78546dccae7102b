# Verification of GenericWrapper4AC

GenericWrapper4AC runs a *target algorithm* (a solver) once, under a CPU time
and a memory limit, and prints a line with its status, runtime and cost. Two
programs do this together:

* the **wrapper**, a Python class (`src/genericWrapper4AC`) that a subclass
  adapts to a target algorithm;
* **runsolver** 3.4.0, a C++ program (`src/runsolver/runsolver-3.4.0/src`) that
  starts the target algorithm, watches it, stops it and reports. The
  repository also keeps **runsolver 3.3.4**, patched for AEATK
  (`src/runsolver/runsolver-3.3.4-patched/src`), whose threads are organised in
  another way; setup.py builds 3.4.0 only.

Below, RS is `src/runsolver/runsolver-3.4.0/src`, PR is
`src/runsolver/runsolver-3.3.4-patched/src` and GW is
`src/genericWrapper4AC/generic_wrapper.py`.

## 1. Inventory

### Components

**Watcher** (RS/Watcher.hh). State: the flags `solverIsRunning`,
`stopSolverRequested`, `stopReason`, `stopSolverState`, the CPU time of the
processes already reaped, the largest sizes seen, the process tree, the clock
of the watcher thread. Operations: `watchPID()` (main thread: waitpid() loop,
join, report), `operator()` (watcher thread: a tick every 0.1 s, samples,
limits, SIGTERM, grace, SIGKILL, last sweep), `stopSolver()` (either thread or
the handler of SIGTERM and SIGINT). Two threads and a signal handler share the
object; only `cout` has a lock. What makes it correct: every process is reaped
and counted once; limits are enforced and not before; SIGTERM precedes SIGKILL
by the delay; nothing is left; both threads end.

**Process tree** (RS/ProcessTree.hh, ProcessData.hh). A snapshot of /proc: full
(all of /proc) or partial (along the known children). Sums of CPU time and
memory; signals from the leaves to the root. The processes fork, die and are
adopted while /proc is read. Correct if nothing is counted twice in a sample
and no process escapes for good.

**History of samples** (RS/ProcessHistory.hh). A logarithmic array of trees that
it owns; `push()` moves trees along the cells and deletes some. Correct if none
is lost, deleted twice or used after deletion, and the dump is in order.

**Output limit** (RS/CircularBufferFilter.hh). The first bytes of the output go
to a file, the last ones to a circular buffer appended at the end. Correct if
the file holds what option `--output-limit` promises, for all splits into
writes, and `write()` returns.

**Time stamper** (RS/TimeStamper.hh, the same in PR). State: the list of watched
streams, the set and the bound given to select(), a counter of errors, and
whether the last line is complete. A thread that reads the output of the solver
and puts a time stamp before each line. Correct if each line has one stamp, not
earlier than the line, the end line is on its own, all output is read, and the
thread ends.

**Options, limits, start** (RS/runsolver.cc). State: the members that options
set, the vector of limits, the affinity of the threads, the descriptors. The
getopt loop, setrlimit(), fork, pipe or pseudo terminal, exec, handlers, and the
join of the time stamper. Correct if the solver gets the limits and the cores
that were asked for, and runsolver ends after the solver and after a signal.
**Cores** (RS/Cores.hh): lists of cores from the masks of the system.
**Execution summary** (RS/ExecutionSummary.hh): the result as variables.

**runsolver 3.3.4** (PR/runsolver.cc, ProcessTree.hh, ProcessData.hh). Four
threads: main, a signal handler that calls sigwait(), a timer that samples and
checks limits, a stopper that sleeps until `stopSolver()` is called. Five flags,
each with a mutex, order them; the process tree and the CPU times have no lock.
No subreaper: orphans leave the tree, and their time is kept as "lost". Correct
if the tree has one user at a time, the CPU time is neither lost nor invented,
the solver is stopped and runsolver ends.

**AbstractWrapper** (GW). State: the call (`Data`), the list `_subprocesses`, the
two temporary files, the result. `main()` parses, runs runsolver through a
shell, reads its report, asks the subclass, merges, cleans up, prints. A signal
raises SystemExit at any point of it. Correct if the line tells what the run
did, an interrupted call still prints it, the target dies, and files of failed
runs survive.

**Command line of the wrapper** (argparser/parse.py): two call formats.
**SatWrapper** (domain_specific/satwrapper.py): the subclass for SAT solvers.

Not part of the product: the server, vlineSplitter, Observer, examples. See
`components` in PROJECT.json.

### Interaction

The wrapper starts `/bin/sh -c "runsolver ..."`; the shell starts runsolver (or
becomes it), which forks the solver and declares itself subreaper, so that
orphans become its children. runsolver leaves a report in the watcher file; the
wrapper reads it after the shell has ended. Signals go from the batch system to
the wrapper, from the wrapper (by pkill) to the children of the shell, from
runsolver to the tree of the solver. The watcher thread gives its samples to
the history; the time stamper thread gives the output to the output limit.

### What is hard

Each hazard of the code is listed under `hazards` in PROJECT.json with its
line and the properties about it. They are of five kinds: races between the
threads of runsolver and the solver; the stop sequence, with stale trees; the
wrapper interrupted between two statements; threads that wait for each other or
for the last copy of a pipe; and boundaries (buffers, histories, overflows,
rounding, missing values).

## 2. Modules

| Module | Models | Role |
| --- | --- | --- |
| `SolverProcesses` | the kernel's process table and the solver (environment) | extended by `Watcher` |
| `Watcher` | Watcher.hh with the tree operations it uses | detailed |
| `Watcher_proofs` | | theorems |
| `ProcessHistory`, `_proofs` | ProcessHistory.hh | detailed, theorems |
| `OutputLimit` | what `--output-limit` promises | abstract |
| `CircularBufferFilter`, `_proofs` | CircularBufferFilter.hh, arithmetic of the option | implements `OutputLimit`; theorems |
| `TimeStamper`, `_proofs` | TimeStamper.hh | detailed, theorems |
| `Cores` | Cores.hh and `selectCores()` as operators | extended by `RunSolver` |
| `RunSolver`, `_proofs` | runsolver.cc: options, limits, start, end | detailed, theorems |
| `PatchedRunsolver`, `_proofs` | 3.3.4: runsolver.cc with the tree operations it uses | detailed, theorems |
| `TargetRun` | shell, runsolver and solver as the wrapper sees them (environment) | extended by `Wrapper` |
| `Wrapper` | generic_wrapper.py | detailed |
| `Parse` | argparser/parse.py as operators | extended by `SatWrapper` |
| `SatWrapper` | satwrapper.py, composed with `Wrapper` and `Parse` | implements `Wrapper` |
| `Wrapper_proofs` | | theorems about `Wrapper` and `SatWrapper` |
| `SequenceLemmas` | | lemmas that the proofs share: induction up to a number, FlattenSeq() of one more piece |
| `MC...` | values of the constants for TLC | |

### Watcher and SolverProcesses

`mainPc` and `watcherPc` say where the two threads are; `handlerPc` where the
signal handler is. The main thread has the actions `WaitPid` (a waitpid() that
returns), `Account` (completedCPUTime), `NoMoreChild` (ECHILD), `Report`. The
watcher thread reads the tree process by process (`read`, `update`), so that
the solver and the main thread act between two reads of /proc; its stop
sequence, the signals one process at a time, and the last sweep are actions of
their own. `stopSolver()` is two assignments: in the handler these are two
steps. CPU time is in units that processes use in `Compute`; sizes are whatever
a sample may find. Variables under "history" are read by properties only.
SolverProcesses lets each process fork, compute, die and wait for its children
in any order; orphans go to runsolver. None of them ignores SIGCHLD: the
children of such a process would vanish with their time, so that `CPUComplete`
is about solvers that wait for their children or abandon them.

### ProcessHistory

A tree is named by the number of its push, which is also its time. `Push` is
the part of `push()` before its loop; `Store`, `MoveOn`, `DropLast` are the
branches of a turn. `deleted` is what `delete` was called for.

### OutputLimit and CircularBufferFilter

A byte is named by its rank in the output. `write()` is modelled up to its loop
(`WriteDirect`, `WriteLimited`, `BadAlloc`), then turn by turn (`CopyChunk`).
`Flush` is the destructor. `systemWrite()` may fail after any number of bytes.
`SizeInBytes` is the multiplication in main(), as an int of `IntValues` values,
then converted to an unsigned long long. OutputLimit says what the file holds
after n bytes and when it is closed, without a buffer; its variables are
expressions of the filter's (`Limit == INSTANCE OutputLimit WITH ...`): bytes
count as received when they are written or are in the buffer. Negative values of
the option, which sscanf() accepts, are left out.

### TargetRun and Wrapper

`pc` is the statement of `main()` that is next; a signal may arrive before each.
`Body` are the statements under `try:`, from which it leads to `cleanup()`;
`Killing` those under `try:` in `cleanup()`; the files come under a `try:` of
their own; elsewhere a signal ends the wrapper (`SignalElsewhere`), except while
the report is read, where a bare `except:` swallows it (`SignalIsLost`).
`report` is what the watcher file tells: whether it can be decoded, the limit
that was exceeded, CPU time, child status. What process_results() returns is
any member of `Results`, after the mapping of SAT and UNSAT to SUCCESS.
`notes` are the parts of data.additional, without order, apart from the
assignment that overwrites all of them. `named` tells which of the attributes
`_watcher_file` and `_solver_file` are set, `temp` and `copies` where the files
are. Times are integers, 1 being the minimum of 0.0005 s.
TargetRun reduces runsolver to: it starts a solver, stops it on a limit or on
SIGTERM, kills it `KillDelay` seconds later, ends after it, leaves a report.
`ShellExecs` says whether sh replaces itself by runsolver. `cleanup()` does not
wait for the pkill that it starts: `StartPkill` and `PkillFails` (an OSError) are
steps of the wrapper, `TermChildren` is what pkill does at any moment of the
sleep. That it is done when the sleep ends (`Awake`) is an assumption on time:
the code sleeps one second.

### TimeStamper

One pass of `timeStampLines()` is `Select` (or `SelectFails`), then for each
watched stream `NotReady`, `ReadFrom` or `EndOfFile`, then `EndScan`; `Finish` is
the part after the loop. A byte remembers its stream, whether it ends a line,
and when it was written. `ReadFrom` reads up to `BufferSize` bytes and puts the
stamps where `readFrom()` does; `max` is recomputed when a stream ends. The
solver may write or close at any time, and blocks when a pipe is full.

### Cores and RunSolver

`ReadOption` handles one option as the switch in main() does, fall-through
(`Refused`) and the order of limits included. `SetCPULimit` gives the watcher
its limit and adds the one of the kernel 30 s later. `EnforceLimits`,
`RedirectInput`, `RedirectOutput` and `Exec` are the child after the fork; a
failure ends it before exec. `writers` are those that hold the write end of the
pipe or the slave of the pseudo terminal. What module Watcher details is here
two actions: a stop request or a limit ends the solver (`WatcherKills`), and
watchPID() returns when no process is left. The cores are what the hex masks of
the system give with the arithmetic of Cores.hh (`MaskRead`: a comma counts as a
digit, so that the cores beyond the first word are shifted), and an index beyond
the list reads any core or none (undefined in C++).

### PatchedRunsolver

`pc` has the four threads. A sample goes through the processes one at a time
(`ReadProcess`), so that the solver acts between two of them; a full sample
lists /proc first and takes it by pid (`InTurn`), and a process that was listed
but is gone leaves an empty entry (`ReadVanished`). A partial sample goes down
the last tree; the order of its branches is left open. `KeepSample` accounts:
sum of the tree, lost time, limit. `stopSolver()` is three steps
(`CompareAndSet`, `StopTimer`, `Dispatch`) that any thread may be in. `early` and
`torn` are read by properties only. The test
"don't get fooled" compares with 60 s; `FoolMargins` are the values that this
margin may have in units of CPU time. Whether a wall clock or size limit is
reached is left open (`OtherLimit`).

### Parse and SatWrapper

A word of the command line has a text, with and without the single quotes
around it, may start with a dash, may be a number, and may join an option to
its value (`--seed=7`). `Taken` is what argparse does with one word: it consumes
an option with its value and the flag, ends with an error or with the help
message (`--help`), or leaves the word; after `--` it leaves all of them. Options
are not abbreviated (parse.py:24). `Pairs` is the zip() of the rest, without the
quotes, `Rounded` the arithmetic of the cutoff in units of 1/`Unit` s (from `Exact`
seconds on a double has no digit left for the 1e-10). `SatProcessResults`
replaces the action `ProcessResults` of Wrapper: `evidence` is what the output,
the solubility file and the checker say, and `Judged` what process_results()
makes of it, branch by branch. A line of the file is `about` the instance or
about another one whose name starts with that of the instance: the code goes by
the first of both kinds (`VerifyViaSolubilityFile`), the properties by what the
file says of the instance. `StopsAfter` is what runsolver makes of the cutoff.
The instance is never given to the checker
(`_instance` stays empty, satwrapper.py:37), so that the verdict of the checker
is free.

## 3. Runs

| Run | Question |
| --- | --- |
| `watcher_cpu` | Is CPU time accounted right (`CPUComplete`, `SampleNotOvercounted`), is everything reaped (`AllReapedAtEnd`), what does the last sweep reach (`SweepComplete`), is a process that left the known tree found again (`CPULimitEnforced`), does the report come when all are dead (`DeadSolverIsReported`)? |
| `watcher_live` | Stop sequence with a SIGTERM at any step: the delay (`KillAfterGrace`), the end of the thread (`WatcherAlwaysEnds`), the memory flag of the summary (`MemOutOnlyIfStopped`) |
| `process_history` | Ownership (`NothingLeaks`, `NothingDangles`) and order (`Chronological`, `DumpInOrder`) of the trees |
| `filter` | Does the buffer implement the promise (`LimitSpec`, `RingHoldsLast`), does `write()` return (`WriteReturns`)? |
| `stamper` | Stamps (`StampsAreRight`), end line (`EOFOnOwnLine`), does the solver never block for ever (`OutputIsRead`), does the thread end (`EndsAfterSolver`)? |
| `runsolver` | Does the solver run on the cores that were selected (`SolverOnSelectedCores`), do the kernel's limits come after those of the watcher (`HardLimitAfterSoft`), does runsolver end after the solver (`RunReturns`) and after a signal at any moment of the start (`SignalEndsRun`)? |
| `patched` | 3.3.4: one user of the tree (`OneUserOfTree`), CPU time neither lost (`TimeoutIsReported`) nor invented (`TimeWasUsed`), kills (`GroupIsDead`, `SolverIsStopped`), end of run() (`RunReturns`) |
| `wrapper` | Files (`FilesKept`), interrupted calls (`InterruptIsReported`), where the results come from (`ResultComesFromRun`); does a killed target die (`KilledTargetDies`), does the wrapper end (`WrapperEnds`)? |
| `sat` | A wrong answer is no success (`LieNeverPasses`), a right one is not punished (`HonestSolverSucceeds`), time (`TargetGetsItsTime`) and parameters (`ParametersArrive`) that reach the target |

Runs that end in a violation show that the code does not do what a comment or a
message says; `findings` in PROJECT.json has the quotations:

| Run | What happens |
| --- | --- |
| `watcher_double_count` | a process reaped after the sample counts twice; the solver is stopped early |
| `watcher_status` | the reported status is that of an orphan |
| `wrapper_exec` | sh became runsolver: SIGKILL hits runsolver, a stubborn solver goes on |

### Deviations that the models contain, without a run of their own

runsolver 3.4.0:

* a process started after the last full sample gets SIGKILL without SIGTERM
  (Watcher.hh:614; line 599 promises a SIGTERM first);
* a process forked during the last sweep survives it (Watcher.hh:628 says "make
  sure we don't have any child any more"; `SweepComplete` is about the listed
  ones); a signal may make the watcher thread print a null reason (Watcher.hh:520
  and 608); a stop by --rss-swap-limit is not MEMOUT in the summary
  (Watcher.hh:440);
* `-O 100,4196`: both limits overflow an int to the same size, the buffer is
  empty and `write()` loops for ever (runsolver.cc:1258; `Limits` of the run
  leaves out equal sizes, `Ordered` in the proofs excludes them);
* `--timestamp --use-pty` with an input or output file that cannot be opened:
  the child ends before it opens the slave, the master never sees an end of
  file, run() never returns (the exception `TerminalNeverOpened`);
* `--add-eof` falls through into the case after it (runsolver.cc:1278);
* the mask of a machine with more than 32 cores has commas, for which Cores.hh:57
  and 121 add 4 to the number of the core as for a digit: on a processor of 40
  cores `--cores 32-35` pins the solver to the cores 36 to 39 (TLC shows it with
  that machine as `Topologies`), although Cores.hh:17 and the help at
  runsolver.cc:1134 promise the list of existing cores. `MaskRead` has it,
  `MaskWordHolds` in the proofs excludes it, --phys-cores is not concerned.

The wrapper:

* the first line of the solubility file whose name starts with that of the
  instance decides, although it may be about another one: with the lines
  "inst2 UNSAT" and "inst SAT" an answer UNSAT for inst is a SUCCESS, and an
  answer SAT a CRASHED run, against the docstring at satwrapper.py:157
  (`LongerNameFirst` in `LieNeverPasses`, `KnowledgeIsRight` in
  `HonestSolverSucceeds`);
* a signal just after Popen(): pkill may look for children of the shell before
  there is one; the shell is killed one second later and the target goes on. So
  it does if pkill cannot be started (an OSError, GW:331: neither sleep nor
  kill, and the note speaks of multiple signals), or if a second signal comes
  before it is. `KilledTargetDies` is about targets that pkill finds;
* a cutoff of 0 is passed as `-C 0`, which the watcher takes for no limit
  (Watcher.hh:716): the target gets the 30 s of the kernel (`TargetGetsItsTime`
  says so);
* interrupted without `--cutoff`: max(0.0005, None) raises a TypeError and no
  result is printed (GW:330; the antecedent of `InterruptIsReported`);
* a signal between the fork in Popen() and the registration leaves the target
  alone (GW:216);
* the note of a subclass that returns a cost is lost (GW:138); a run of 0 s gets
  cost 0 and runtime 0.0005 (GW:145 and 285);
* `_instance` is never set (satwrapper.py:37), so that the SAT checker gets an
  empty name; a line of the solubility file without a status raises an
  IndexError, a call without an instance a TypeError, a checker that cannot be
  started an OSError, output that is not UTF-8 a UnicodeDecodeError
  (`SatFails`): all end in a traceback without a result line;
* a parameter of the target that is also an option of the wrapper is swallowed,
  and one whose value has the name of such an option takes the pairs after it
  apart (`-a --seed 7 -b 2` gives the target `-a -b`), and so does an option
  joined to its value (`-a --seed=7 -b 2`) or the flag: the exceptions in
  `ParametersArrive`; from 2^20 s on a whole cutoff is rounded
  up by a second (the slack in `TargetGetsItsTime`); the largest cutoff, 2^31 - 1,
  makes `sec+30` overflow in runsolver.

runsolver 3.3.4:

* a signal that arrives while the flags are initialised (runsolver.cc:1307-1312,
  after the handler thread has started) may leave `stopSolver()` disabled: limits
  are not enforced any more, or the join of the stopper never returns (`early`);
  a second signal is never handled;
* with --timestamp the stamper is joined before the stopper and the last kill: a
  descendant that holds the pipe keeps runsolver waiting (the exception in
  `RunReturns`);
* a child waited for between the readings of its parent and its own entry, or
  the solver between the listing of /proc and its reading, is counted twice
  (`torn`); descendants with a session of their own survive, although the comment
  at 1638 knows them; SIGTERM is blocked in the solver (line 852), although line
  1880 gives it "a chance to output the best solution"; 020000000 ns is octal,
  4 ms instead of 20 (ProcessTree.hh:551).

### Bounds and why they are enough

* Watcher: 2 or 3 processes. Three give a grandchild that is orphaned, a process
  that forks during a sweep, and a chain of two parents. CPU time up to 2 units
  and a limit of 2, so that one process, or two together, or one counted twice,
  reach the limit. The first period of full samples is 1 instead of 5, the period
  of full samples 2 ticks instead of 10, so that full and partial samples
  alternate; the delay before SIGKILL is 1 or 2 ticks. Sizes are below, at or
  above the limit. The clock saturates at the wall clock limit, the pids are not
  reused.
* ProcessHistory: 3 cells and 40 pushes, ten times the longest spacing.
* Filter: 5 pairs of limits with start zero, shorter and longer than the rest
  and one that overflows; writes up to 5 bytes, longer than most buffers; 11
  bytes in all, more than twice round any buffer.
* TimeStamper: 2 streams, so that one ends before the other in either order; 3
  bytes and buffers of 2, so that a line is cut; the thread gives up after 3
  errors and the system makes at most 2 in a row, as the liveness needs.
* RunSolver: all lines of two options out of 23, and longer ones with a pseudo
  terminal; a machine with one processor and one with two whose cores
  interleave; a user with and one without limits. The masks of these machines have one word.
* PatchedRunsolver: 2 processes, 1 unit of CPU time and a limit of 1, one
  partial sample between two full ones; a signal at any step.
* Wrapper: 2 signals: one to interrupt, one more while the target is killed, the
  files are moved or the line is printed. Four answers of the subclass, seven
  reports, calls with and without a cutoff. In `sat` there is at most one signal,
  and the answers of the subclass are computed.
* SatWrapper: 26 command lines and five that are refused, seven solubility files, every evidence; cutoffs
  of no time, below, at and above a second, the precision and the maximum.

### Fairness

Watcher: weak fairness of each thread (the scheduler runs both) and of a handler
that has begun. None of the solver: it may run for ever, ignore SIGTERM and
wait for none of its children; SIGKILL is not ignored. Filter: weak fairness of
the loop of a `write()` that began. Wrapper: weak fairness of the interpreter,
of shell, runsolver and pkill, and of time; none of the end of the solver, nor of a
limit being exceeded, nor of a signal. TimeStamper: weak fairness of the thread;
the solver need not write nor close. RunSolver: weak fairness of main, of the
child up to exec, of the watcher and the time stamper; not of the solver, of
signals or of the watchdog. PatchedRunsolver: weak fairness of the four threads
(each lock is held for an assignment; sleeps end); none of the solver nor of
signals. Runs check deadlock, except `patched`, whose program stops when all
threads have ended; the other specifications have a step `Terminated` or `Done`
for that state.

## 4. Proofs

| Theorem | States |
| --- | --- |
| `Watcher_proofs!TypeCorrect` | `Spec => []TypeOK` |
| `Watcher_proofs!AllReaped` | `Spec => []AllReapedAtEnd` |
| `Watcher_proofs!GraceIsGiven` | `Spec => []KillAfterGrace` |
| `Watcher_proofs!MemOutMeansStop` | `Spec => []MemOutOnlyIfStopped` |
| `Watcher_proofs!SweepMissesNone` | `Spec => []SweepComplete` |
| `Watcher_proofs!ReportIsComplete` | `Spec => []CPUComplete` |
| `Watcher_proofs!SampleIsBounded` | `Spec => []SampleNotOvercounted` |
| `ProcessHistory_proofs!HistoryTypes` | `Spec => []TypeOK` |
| `ProcessHistory_proofs!HistoryInOrder` | `Spec => []Chronological` |
| `ProcessHistory_proofs!NoTreeLeaks` | `Spec => []NothingLeaks` |
| `ProcessHistory_proofs!NoTreeDangles` | `Spec => []NothingDangles` |
| `ProcessHistory_proofs!DumpIsChronicle` | `Spec => []DumpInOrder` |
| `CircularBufferFilter_proofs!RingIsRight` | `Spec /\ Ordered => []RingHoldsLast` |
| `CircularBufferFilter_proofs!LoopProgress` | each turn of the loop makes the rest shorter |
| `CircularBufferFilter_proofs!LimitIsKept` | `Spec /\ Ordered => LimitSpec` (refinement) |
| `TimeStamper_proofs!StampsRight` | `Spec => []StampsAreRight` |
| `TimeStamper_proofs!EOFAlone` | `Spec => []EOFOnOwnLine` |
| `RunSolver_proofs!HardIsLater` | `Spec => []HardLimitAfterSoft` |
| `RunSolver_proofs!SolverPinned` | `Spec => [](MaskWordHolds => SolverOnSelectedCores)` |
| `PatchedRunsolver_proofs!OneUser` | `Spec => []OneUserOfTree` |
| `PatchedRunsolver_proofs!Killed` | `Spec => []GroupIsDead` |
| `PatchedRunsolver_proofs!Reported` | `Spec => []TimeoutIsReported` |
| `PatchedRunsolver_proofs!NothingInvented` | `Spec => []TimeWasUsed` |
| `Wrapper_proofs!FilesAreKept` | `Spec => []FilesKept` |
| `Wrapper_proofs!InterruptReported` | `Spec => []InterruptIsReported` |
| `Wrapper_proofs!ResultFromRun` | `Spec => []ResultComesFromRun` |
| `Wrapper_proofs!SatImplements` | `SatSpec => Spec` (refinement) |
| `Wrapper_proofs!NoLiePasses` | `SatSpec => []LieNeverPasses` |
| `Wrapper_proofs!HonestIsPaid` | `SatSpec => []HonestSolverSucceeds` |
| `Wrapper_proofs!TargetTime` | `SatSpec => []TargetGetsItsTime` |
| `Wrapper_proofs!ParametersReach` | `SatSpec => []ParametersArrive` |

They hold for all values of the constants that satisfy the modules' assumptions
(`ProcessesAssumption`, `WatcherAssumption`, `HistoryAssumption`,
`FilterAssumption`, `StamperAssumption`, `RunSolverAssumption`,
`OptionsAssumption`, `MachinesAssumption`, `PatchedAssumption`, `TargetAssumption`,
`WrapperAssumption`, `ParseAssumption`, `SatAssumption`), which say what types
the constants have: a number of processes is positive, the argument of `-C` is
an integer as sscanf() makes it one, `--config` starts with a dash and is joined
to no value, the lines of a solubility file are pairs of strings. `MachinesAssumption` says
what /sys/devices/system/cpu shows of a machine: cores numbered from 0, each
among its own siblings, siblings with the same mask. The premises beyond them are
`Ordered` and `MaskWordHolds`, below; the code breaks both properties without
them.

Watcher:

* `AllReaped`: the invariant adds that the parent of an existing process is
  runsolver or a running process with a smaller pid (`ParentsRun`), and that
  pids are given in order (`PidsInOrder`). The smallest existing pid is then a
  child of runsolver, so that ECHILD means that none is left.
* `GraceIsGiven`: `stopSolverState` is compared with the delay, but counts turns
  of the loop; the invariant (`TurnsAreTicks`) says at each `pc` how it relates
  to the ticks since SIGTERM, and `LoopIsLeft` that the last sweep comes only
  after the loop was left.
* `MemOutMeansStop`: `MemInv` strengthens it to every moment at which the
  largest size seen reaches the limit, since the stop is asked for in the same
  step that stores the size, in whatever order main and handler act.
* `SweepMissesNone`: `SweepInv` says which of the processes that were there when
  the sweep began are dead: what was read or is still to be read covers those
  that run, and a process that forks in the meantime has a larger pid
  (`GivenPids`), so that none that was passed comes back (`NoneIsListedAgain`).
* `ReportIsComplete`, `SampleIsBounded`: sums over the processes are prefix sums
  (`Sums(a, c)`: `a[n]` is the time of the first `n` pids). In every step of the
  solver or of a reap a process's time goes to its parent, which has a smaller
  pid, or is new: so no prefix sum shrinks (`Grows`). Hence `Total` (all there
  is was used), and, as /proc is read by pid, what a sample has read so far plus
  the completed time stays within the prefix before each process still to be
  read, with the time of those reaped (`SampledBelow`): a second can move out of
  what is left to read, never into it.

ProcessHistory:

* `HistoryInOrder`: besides the order, a tree that is carried is older than all
  that are stored before its cell (`Carrying`), a cell is empty only if all
  deeper ones are (`NoGap`). `NoTreeLeaks` and `NoTreeDangles` use that order:
  no tree is stored twice. `NoGap` is why the destructor may stop at the first
  empty cell.
* `DumpIsChronicle`: the loop of dumpHistory() is a function over the cells
  (`IsLoop`), which exists and is unique by induction (`LoopExists`,
  `DumpIsLoop`); what it has printed after each cell is ordered and younger than
  the cells left (`LoopOrdered`). `Newest` gives the last sample its place.

CircularBufferFilter:

* `RingIsRight`: without overflow (`Ordered`: start < max as sizes) the position
  `w` and the number of bytes dealt with determine each cell (`RingInv`), by
  cases on where a chunk ends. `Ordered` is needed: otherwise the buffer is
  empty and the loop copies nothing for ever.
* `LimitIsKept`: each `write()`, each turn of its loop and the destructor is a
  step of OutputLimit or a stutter. `FileInv` says that the file is the part of
  the first `start` bytes that was not refused. `Kept` (the bytes without the
  refused ones) is a FlattenSeq(); the lemmas `KeptConcat`, `KeptSame` say how it
  goes over a concatenation and over more refusals. A systemWrite() that stops
  after some bytes refuses the rest (`BytesSent`), and the two or three calls of
  the destructor are one such step (`ThreeKept`), for which `BufferHolds` puts
  the two halves of the ring in order.

TimeStamper:

* `StampsRight`: `readFrom()` writes a stamp after each line end but the last
  byte of a chunk, and remembers that one in `EOLBefore`. Inside a chunk a stamp
  may therefore wait for its line (`LineStamped`); between chunks `Watching` says
  for each stream that `EOLBefore` is true exactly when its part of the output is
  at a line start (`Right`). One more element of the file changes what belongs
  to a stream in one place only (`OfStreamAppend`, `KindsAppend`), a turn of the
  loop adds one or two (`OneTurn`), a chunk is an induction over turns
  (`LoopOfReadFrom`, `ChunkWritten`). `Timed` and `Fresh` keep the stamps in the
  order of the clock and no earlier than the bytes after them.
* `EOFAlone`: `Ending` says that while the thread reads, the file ends with a
  complete line unless `incompleteLineSent`; no stamp waits between two chunks
  (`Settled`), so that `Finish` adds the missing line end exactly when it is
  missing, and nothing is written after it.

RunSolver:

* `HardIsLater`: after each option, the limit that the watcher keeps is the one
  of the last entry of its resource in the vector (`LastIn`, `LimitInv`), though
  an option may come twice and others come between; `EnforceLimits` applies the
  vector in order, and `EnforcedInv` says that the kernel then has, of each
  resource, the last entry that the user's ceiling allows.
* `SolverPinned`: first what Cores.hh computes. A list that holds each core
  once, after exactly those that come before it, is the sorted one (`SortedIs`,
  by counting), and every set of cores has one (`Enumerated`). The recursion of
  Cores.hh exists and is unique (`VisitsExist`, `AllocatedVisits`); its list is
  at each step in the order of the processors, and has the whole processor of
  each core it has passed (`InOrder`, `Growth`), hence is the documented one
  (`ExistingSorted`, `ExistingPhysical`). Then a number or a range picks the
  same places of it as the documentation does (`ChosenIs`, `SelectionsAre`), so
  that `Selections` has one member, the wanted cores (`SelectedAreWanted`). The
  invariant `CoresInv` adds that until the fork main itself has these cores,
  which the child inherits, and that the child exists from `parent` on; when
  the parent then pins itself, it takes one of its own cores (`AllocatedWithin`,
  which holds for any mask), so that it never frees itself from the selection.
  `MaskWordHolds` (no mask has a comma, or --phys-cores) is needed, see section 3.

PatchedRunsolver:

* `OneUser`: `Turns` says which `pc` of one thread excludes which of another: the
  stopper is past its waits only when `timerThreadStopped` is set, which only the
  timer does when it leaves for good; main reads after both joins. The handler
  may set and main reset any flag during the start: `timerThreadStopped` is
  among those that are reset before the timer exists.
* `Killed`: after `FallbackKill` the group has no running process, and only a
  running member of the group can add one (`GroupOK`).
* `Reported`: once the limit was printed, the sum of current and lost time
  reaches it (`Announced`), and keeps doing so, because a loss is added exactly
  when the current time shrinks. That the sum over a tree is a number at all is
  an induction over the processes (`CPUIsTotal`), for which the sum is written
  as a function up to a pid.
* `NothingInvented`: no state variable says which unit of time is in which
  sample, so the invariant says that books exist (`LedgerExists`). They give
  each process an amount, of which a part was seen in the last sample and a part
  in the one being read; the amounts of all and the time kept as lost are at
  most the time used (`Sums`), and a sample never has more of a process than its
  amount (`Covers`). WaitFor moves the amounts of the child to its parent, which
  is right because a sample that has one has the other, unless it is `torn`
  (`WaitForLedger`). A sample that is kept with less time than the last one adds
  the difference to the lost time; the processes that the last one had and this
  one has not pay for it (`KeptTimes`), and they can pay only once because their
  parents left the family: nothing reads them again (`OutOK`). That a partial
  sample cannot miss one that is still in the family is `Shows` and `Coming`:
  the last tree has its entry below its parent's. So the sum of the sample with
  the lost time, and the time that wait4() gives with it, stay within the time
  used (`TimeIsBounded`), which is what is announced and reported (`TimeInv`).
  `TreesOK` says what the entries of a tree still tell of the present parents.

Wrapper and SatWrapper:

* `FilesAreKept`: the files are dealt with in `todo` order, so `FilesInv` says
  what is named, what is in the temporary place and what was copied at each
  position (`KeepingFiles`, `RemovingFiles`): a file is removed only if its copy
  exists or the run did not fail, and a signal or an error between two of the
  operations leaves it in one of the two places.
* `InterruptReported`: `InterruptInv` follows the one signal that arrived in
  `wait` or `remove` from its step to the line that is printed; the notes keep
  the mark because only an answer of the subclass may overwrite them, and no
  statement under the `try:` of main() runs any more on that path.
* `ResultFromRun`: `ReportInv` and `ResultInv` say at each statement which of the
  three sources has been merged already (`StatusReported`, `TimeReported`,
  `CostKept`, `NoteKept`).
* `SatImplements`: every step of SatWrapper is a step of Wrapper (`SatStep`),
  because it only narrows what process_results() returns. The invariants of
  Wrapper carry over to SatWrapper.
* `NoLiePasses`, `HonestIsPaid`: lemmas about `Judged` alone (`SuccessIsRight`,
  `HonestJudgement`), by cases on what the evidence may be, and invariants that
  carry the judgement to the printed line (`LieInv`, `HonestInv`). Between the two
  a status only moves away from success (`StatusMoves`).
  The first line of the file that is about the instance is the one that the code
  goes by, if none about a longer name comes before it (`OwnLineCounts`).
* `TargetTime`: arithmetic of `Rounded` over the integers, for any unit
  (`RoundedUp`); no time is 0 s (`NoTimeIsAsked`), for which only the limit of the
  kernel is left.
* `ParametersReach`: parse_known_args() is a function over the words (`KnownIs`)
  that no word of an accepted line made bad (`NeverBad`): so `--config` is not the
  value of an option, and is left (`ConfigIsLeft`). What any word may do is
  `TakenWord`. From there on words go in pairs (`TwoWords`): an option with its
  value leaves the rest as it is, a parameter with its value adds a pair, so that
  what is left stays in step with the line and its last pair of a name is the
  line's (`PairStep`, `AllPairs`, `PairsLeft`). `PairsHasLast` is what the zip() and the dictionary make of it.
  Without the premises the property is false: section 3 has the lines.

Induction. An operator cannot be a parameter of a lemma here, so an induction
is over a set: `SequenceLemmas!Induction` says that a set with 0 that goes from
`n - 1` to `n` has all numbers up to a bound; a formula is put in by the set of
the numbers that satisfy it. Recursion is written as a function; the induction
shows first that the function exists, then what it gives.

Only model-checked: liveness and everything under fairness, which the prover
does not reason about (`CPULimitEnforced`, `DeadSolverIsReported`,
`WatcherAlwaysEnds`, `WriteReturns`, `OutputIsRead`, `EndsAfterSolver`,
`RunReturns`, `SignalEndsRun`, `SolverIsStopped`, `KilledTargetDies`,
`WrapperEnds`). A type invariant is checked and proved for Watcher, and proved for
ProcessHistory (`HistoryTypes`), where the other proofs need it; elsewhere the
types are conjuncts of the invariants (`Counters` and `Pipes`, `SettingsOK`,
`TypeOK` of Wrapper_proofs) as far as the arguments need them.

## 5. Not modelled

Parsing of /proc, text of the report, tasks (threads) of the solver, names of
signals, environment variables, logging. The CPU time in the stamps. Solvers that
ignore SIGCHLD, see section 2. Of runsolver.cc: a pthread_create() that fails
(line 786 prints a message and goes on, to join a thread that does not exist, which is
undefined), and the options -w, -v and -d, which set a
name or a number that no other option depends on (module Watcher has the delay).
Of argparse: `--` between an option and its value, which is refused here. Of 3.3.4:
the socket messages of aeatk.c, IPC queue clean-up, the options (as in 3.4.0)
and SyscallsTracer.hh, which is compiled only with WATCHSYSCALLS, which no
Makefile defines. The server, vlineSplitter, ProcessList, Observer, examples,
build and tests: see `components`.

## 6. What is left

1. The composition of TimeStamper with CircularBufferFilter (a failed write
   is the only thing that one could do to the other), and of RunSolver with the
   whole of Watcher.
2. The messages of 3.3.4 to AEATK_PORT.
