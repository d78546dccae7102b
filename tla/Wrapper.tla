------------------------------- MODULE Wrapper -------------------------------
(***************************************************************************)
(* AbstractWrapper.main() (generic_wrapper.py): one call of the target     *)
(* algorithm, from the command line to the line with its result.  The      *)
(* interpreter runs signalHandler() between two steps of main(), where it  *)
(* raises SystemExit: a step here is what a signal cannot split.           *)
(***************************************************************************)
EXTENDS TargetRun

CONSTANTS
    Results,        \* what process_results() may return
    Times,          \* wall clock times that may be measured
    Cutoffs,        \* cutoff times of the command line, NoValue if not given
    MaxSignals      \* bound on the signals (SIGTERM, SIGINT, SIGQUIT)

ASSUME WrapperAssumption ==
    /\ Times \subseteq Nat /\ Cutoffs \subseteq Nat \cup {NoValue}
    /\ MaxSignals \in Nat
    /\ \A r \in Results :
          /\ r.status \in {"none", "SUCCESS", "TIMEOUT", "CRASHED", "ABORT"}
          /\ r.runtime \in Nat \cup {NoValue} /\ r.misc \in BOOLEAN
          /\ r.quality \in Nat \cup {NoValue} /\ r.cost \in Nat \cup {NoValue}
    /\ \A r \in Reports :
          /\ r.readable \in BOOLEAN /\ r.stopped \in {"none", "cpu", "vsize"}
          /\ r.cpu \in Nat \cup {NoValue} /\ r.child \in Nat \cup {NoValue}

VARIABLES
    pc,             \* the step that main() is about to take
    call,           \* the command line: format, options and cutoff
    data,           \* fields of Data; notes is what data.additional tells
    subprocess,     \* is the run in _subprocesses?
    named,          \* files that _watcher_file and _solver_file name
    temp, copies,   \* files in the temporary and in the current directory
    todo,           \* what cleanup() has left to do with the files
    result,         \* what process_results() returned
    printed,        \* was the result printed?
    exit,           \* exit code of the wrapper, NoValue while it runs
    signalAt        \* the steps that a signal prevented

fileVars == <<named, temp, copies, todo>>
endVars == <<printed, exit, signalAt>>
vars == <<targetVars, pc, call, data, subprocess, fileVars, result, endVars>>

MinTime == 1                \* 0.0005 s
DefaultCost == 1000         \* 2**32 - 1
NoResult == [status |-> "none", runtime |-> NoValue, quality |-> NoValue,
             cost |-> NoValue, misc |-> FALSE]
Failed == {"ABORT", "CRASHED"}
Files == {"watcher", "solver"}

\* Steps under try in main(), under the first try in cleanup(), and others.
Body == {"command", "createWatcher", "createSolver", "popen", "append", "wait",
         "remove", "measure", "parse", "process", "setStatus", "setRuntime",
         "setCost", "irace"}
Killing == {"pkill", "sleep", "killShell", "forced"}
Uncaught == {"start", "cleanup", "multiple", "verdict", "print", "exit"}

\* parse() has read the command line; set_tmpdir() comes next.
Init ==
    /\ TargetInit
    /\ pc = "start"
    /\ call \in [newFormat : BOOLEAN, useTmpdir : BOOLEAN,
                 overwriteCost : BOOLEAN, cutoff : Cutoffs]
    /\ ~call.newFormat => call.cutoff # NoValue
    /\ data = [status |-> "CRASHED", cost |-> DefaultCost, exitCode |-> 0,
               notes |-> {},
               time |-> IF call.cutoff = NoValue THEN 0 ELSE call.cutoff]
    /\ subprocess = FALSE
    /\ named = {} /\ temp = {} /\ copies = {} /\ todo = <<>>
    /\ result = NoResult
    /\ printed = FALSE /\ exit = NoValue /\ signalAt = <<>>

(***************************************************************************)
(* A step of main() goes from one value of pc to another, and changes      *)
(* nothing, or only the data of the call, or something that it names.      *)
(***************************************************************************)
Step(from, to) == pc = from /\ pc' = to /\ call' = call
KeepRest == UNCHANGED <<subprocess, fileVars, result, endVars>>
KeepAll == UNCHANGED <<targetVars, data>> /\ KeepRest
KeepAllButData == UNCHANGED targetVars /\ KeepRest
KeepAllButTarget == UNCHANGED data /\ KeepRest

\* An exception that nothing catches: a traceback and exit code 1.
Traceback(from) ==
    /\ Step(from, "ended")
    /\ exit' = 1
    /\ UNCHANGED <<targetVars, data, subprocess, fileVars, result, printed, signalAt>>

\* set_tmpdir(), which fails with a NameError if the directory is missing.
Start == Step("start", "command") /\ KeepAll

\* get_command_line_args() is code of the subclass.
Command == Step("command", "createWatcher") /\ KeepAll

CreateFile(from, file, to) ==
    /\ Step(from, to)
    /\ named' = named \cup {file}
    /\ temp' = temp \cup {file}
    /\ UNCHANGED <<targetVars, data, subprocess, copies, todo, result, endVars>>
CreateWatcher == CreateFile("createWatcher", "watcher", "createSolver")
CreateSolver == CreateFile("createSolver", "solver", "popen")

CallTarget == Step("popen", "append") /\ StartShell /\ KeepAllButTarget

\* except OSError: sys.exit(1)
CallFails ==
    /\ Step("popen", "cleanup")
    /\ data' = [data EXCEPT !.status = "ABORT", !.notes = {"execution failed"}]
    /\ KeepAllButData

Listed(yes) ==
    /\ subprocess' = yes
    /\ UNCHANGED <<targetVars, data, fileVars, result, endVars>>
Register == Step("append", "wait") /\ Listed(TRUE)

Wait == Step("wait", "remove") /\ shell = "dead" /\ KeepAll

Unregister == Step("remove", "measure") /\ Listed(FALSE)

Measure ==
    /\ Step("measure", "read")
    /\ \E t \in Times : data' = [data EXCEPT !.time = t]
    /\ KeepAllButData

\* read_runsolver_output(): a report that cannot be decoded is given up.
ReadReport == Step("read", "parse") /\ report.readable /\ KeepAll
GiveUpReport ==
    /\ Step("read", "process") /\ ~report.readable
    /\ data' = [data EXCEPT !.exitCode = 0]
    /\ KeepAllButData

MutForgetsTime ==
    /\ Step("parse", "process")
    /\ data' = [data EXCEPT
            !.status = IF report.stopped # "none" THEN "TIMEOUT" ELSE @,
            !.notes = IF report.stopped = "vsize" THEN @ \cup {"memory"} ELSE @,
            !.exitCode = IF report.child # NoValue THEN report.child ELSE @]
    /\ KeepAllButData

ParseReport ==
    /\ Step("parse", "process")
    /\ data' = [data EXCEPT
            !.status = IF report.stopped # "none" THEN "TIMEOUT" ELSE @,
            !.notes = IF report.stopped = "vsize" THEN @ \cup {"memory"} ELSE @,
            !.time = IF report.cpu # NoValue THEN report.cpu ELSE @,
            !.exitCode = IF report.child # NoValue THEN report.child ELSE @]
    /\ KeepAllButData

\* process_results() is code of the subclass.
ProcessResults ==
    /\ Step("process", "setStatus")
    /\ result' \in Results
    /\ UNCHANGED <<targetVars, data, subprocess, fileVars, endVars>>

SetStatus ==
    /\ Step("setStatus", "setRuntime")
    /\ data' = [data EXCEPT
            !.status = IF result.status # "none" THEN result.status ELSE @]
    /\ KeepAllButData

SetRuntime ==
    /\ Step("setRuntime", "setCost")
    /\ data' = [data EXCEPT
            !.time = IF result.runtime # NoValue THEN result.runtime ELSE @]
    /\ KeepAllButData

\* The cost overrides the quality, and also drops the note.
SetCost ==
    /\ Step("setCost", "irace")
    /\ data' = [data EXCEPT
            !.cost = IF result.cost # NoValue THEN result.cost
                     ELSE IF result.quality # NoValue THEN result.quality ELSE @,
            !.notes = IF result.cost = NoValue /\ result.misc
                      THEN @ \cup {"misc"} ELSE @]
    /\ KeepAllButData

\* irace only looks at the cost; then sys.exit()
Irace ==
    /\ Step("irace", "cleanup")
    /\ data' = [data EXCEPT
            !.cost = IF call.newFormat /\ @ = DefaultCost THEN data.time ELSE @]
    /\ KeepAllButData

(***************************************************************************)
(* except (KeyboardInterrupt, SystemExit)                                  *)
(***************************************************************************)
Cleanup == Step("cleanup", IF subprocess THEN "pkill" ELSE "verdict") /\ KeepAll

Pkill == Step("pkill", "sleep") /\ StartPkill /\ KeepAllButTarget

\* except OSError: pkill cannot be started; nothing is killed at all.
PkillFails == Step("pkill", "multiple") /\ KeepAll

\* Nobody waits for pkill: it is assumed to be done within the time of the sleep.
Awake ==
    /\ Step("sleep", "killShell")
    /\ sleepLeft = 0 /\ pkill = "done"
    /\ KeepAll

\* sub.returncode is None: nothing has polled the process since wait().
MutWaits == Step("killShell", "forced") /\ shell = "dead" /\ KeepAll

KillSub == Step("killShell", "forced") /\ KillShell /\ KeepAllButTarget

ForcedToExit(note) ==
    /\ Step(note, "verdict")
    /\ data' = [data EXCEPT !.notes = @ \cup {note}, !.time = call.cutoff]
    /\ KeepAllButData
Forced == ForcedToExit("forced")
Multiple == ForcedToExit("multiple")

\* The files of a failed run are kept; they are copied to the current
\* directory before they are removed from a temporary directory.
Each(op) == <<<<op, "watcher">>, <<op, "solver">>>>

MutRemoveFirst ==
    IF data.status \notin Failed THEN Each("remove")
    ELSE IF call.useTmpdir THEN Each("remove") \o Each("copy") ELSE <<>>

FileSteps ==
    IF data.status \notin Failed THEN Each("remove")
    ELSE IF call.useTmpdir THEN Each("copy") \o Each("remove") ELSE <<>>

Verdict ==
    /\ Step("verdict", "files")
    /\ data' = [data EXCEPT
            !.notes = IF data.status \in Failed /\ named = Files
                      THEN @ \cup {"preserved"} ELSE @]
    /\ todo' = FileSteps
    /\ UNCHANGED <<targetVars, subprocess, named, temp, copies, result, endVars>>

NextFile == Head(todo)[2]

FileStep ==
    /\ Step("files", "files")
    /\ todo # <<>> /\ NextFile \in named
    /\ IF Head(todo)[1] = "copy"
       THEN copies' = copies \cup ({NextFile} \cap temp) /\ UNCHANGED temp
       ELSE temp' = temp \ {NextFile} /\ UNCHANGED copies
    /\ todo' = Tail(todo)
    /\ UNCHANGED <<targetVars, data, subprocess, named, result, endVars>>

LeaveFiles == todo' = <<>> /\ UNCHANGED <<named, temp, copies>>

\* except OSError: a file cannot be copied or removed; the notes are lost.
FileStepFails ==
    /\ Step("files", "print")
    /\ todo # <<>> /\ NextFile \in named
    /\ data' = [data EXCEPT !.notes = {"problems"}]
    /\ LeaveFiles
    /\ UNCHANGED <<targetVars, subprocess, result, endVars>>

\* All is done, or except AttributeError: there is no such file.
FilesDone ==
    /\ Step("files", "print")
    /\ todo # <<>> => NextFile \notin named
    /\ LeaveFiles
    /\ UNCHANGED <<targetVars, data, subprocess, result, endVars>>

\* print_result_string(): max(0.0005, None) is a TypeError.
AtLeastMinTime(t) == IF t < MinTime THEN MinTime ELSE t

PrintResult ==
    /\ Step("print", "exit") /\ data.time # NoValue
    /\ LET t == AtLeastMinTime(data.time)
       IN  data' = [data EXCEPT !.time = t,
                                !.cost = IF call.overwriteCost THEN t ELSE @]
    /\ printed' = TRUE
    /\ UNCHANGED <<targetVars, subprocess, fileVars, result, exit, signalAt>>
NoTime == data.time = NoValue /\ Traceback("print")

Exit ==
    /\ Step("exit", "ended")
    /\ exit' = data.exitCode
    /\ UNCHANGED <<targetVars, data, subprocess, fileVars, result, printed, signalAt>>

(***************************************************************************)
(* signalHandler(): sys.exit(2) instead of the step that main() is at.     *)
(***************************************************************************)
Raised(at, to) ==
    /\ pc \in at /\ Len(signalAt) < MaxSignals
    /\ signalAt' = Append(signalAt, pc)
    /\ pc' = to
    /\ UNCHANGED <<targetVars, call, subprocess, result, printed>>

\* In the body of try: main() goes on with cleanup().
MutHandlerExits ==
    Raised(Body, "ended") /\ exit' = 2 /\ UNCHANGED <<data, fileVars>>

SignalInBody ==
    Raised(Body, "cleanup") /\ UNCHANGED <<data, fileVars, exit>>

\* cleanup() catches it while it kills the target run ...
SignalWhileKilling ==
    Raised(Killing, "multiple") /\ UNCHANGED <<data, fileVars, exit>>

\* ... and while it deals with the files, where it forgets the notes.
SignalInFiles ==
    /\ Raised({"files"}, "print")
    /\ data' = [data EXCEPT !.notes = {"problems"}]
    /\ LeaveFiles
    /\ UNCHANGED exit

\* "except:" catches it as well while the report is read: it has no effect but
\* to make the wrapper give up the report.
SignalIsLost ==
    /\ Raised({"read"}, "process")
    /\ data' = [data EXCEPT !.exitCode = 0]
    /\ UNCHANGED <<fileVars, exit>>

\* Before try or in its handler nothing catches it.
SignalElsewhere ==
    Raised(Uncaught, "ended") /\ exit' = 2 /\ UNCHANGED <<data, fileVars>>

Signal == SignalInBody \/ SignalWhileKilling \/ SignalInFiles \/ SignalIsLost
          \/ SignalElsewhere

\* A missing directory, the code of the subclass, a file that cannot be made.
Fails == \E step \in {"start", "command", "createWatcher", "createSolver", "process"} :
             Traceback(step)

Try == Command \/ CreateWatcher \/ CreateSolver \/ CallTarget \/ CallFails
       \/ Register \/ Wait \/ Unregister \/ Measure \/ ReadReport \/ GiveUpReport
       \/ ParseReport \/ ProcessResults \/ SetStatus \/ SetRuntime \/ SetCost \/ Irace
Except == Cleanup \/ Pkill \/ PkillFails \/ Awake \/ KillSub \/ Forced \/ Multiple \/ Verdict
          \/ FileStep \/ FileStepFails \/ FilesDone \/ PrintResult \/ NoTime \/ Exit
Main == Start \/ Fails \/ Try \/ Except

TargetRuns == TargetStep /\ UNCHANGED <<pc, call>> /\ KeepAllButTarget

Done == pc = "ended" /\ UNCHANGED vars

Next == Main \/ Signal \/ TargetRuns \/ Done

Spec == Init /\ [][Next]_vars

\* The interpreter, runsolver and pkill go on (each of their steps happens once),
\* and time passes.  Nothing makes the solver end by itself, or a limit be exceeded.
FairSpec ==
    /\ Spec
    /\ WF_vars(Main)
    /\ WF_vars(TargetRuns /\ ProcessStep)
    /\ WF_vars(TargetRuns /\ Second)
-----------------------------------------------------------------------------
Undisturbed == pc = "ended" /\ printed /\ signalAt = <<>> /\ "problems" \notin data.notes

\* The output files of a run that failed are never lost, whatever signals and
\* errors happen while they are dealt with; those of a run that did not fail do
\* not stay behind, if nothing happened.
FilesKept ==
    /\ pc = "ended" /\ data.status \in Failed => named \subseteq temp \cup copies
    /\ Undisturbed /\ data.status \notin Failed => temp = {} /\ copies = {}

\* A signal while the target runs does not prevent the result line, even if pkill
\* cannot be started: the run costs its cutoff time, and is marked as forced to
\* exit, in one way or the other, unless the files were a problem.
Interrupted == pc = "ended" /\ signalAt \in {<<"wait">>, <<"remove">>}
InterruptIsReported ==
    Interrupted /\ call.cutoff # NoValue =>
        /\ printed
        /\ data.time = AtLeastMinTime(call.cutoff)
        /\ data.notes \cap {"forced", "multiple", "problems"} # {}

\* Where the time that is printed, the cost and the status come from: first of
\* all from process_results(), then from the report of runsolver.
TimeSources ==
    IF result.runtime # NoValue THEN {result.runtime}
    ELSE IF report.readable /\ report.cpu # NoValue THEN {report.cpu} ELSE Times
CostGiven ==
    IF result.cost # NoValue THEN result.cost
    ELSE IF result.quality # NoValue THEN result.quality ELSE DefaultCost
StatusGiven ==
    IF result.status # "none" THEN result.status
    ELSE IF report.readable /\ report.stopped # "none" THEN "TIMEOUT" ELSE "CRASHED"

\* The result line holds the status and the time of these sources.  With irace
\* the time before it is raised to its minimum replaces the default cost.
ResultIsPrinted ==
    /\ data.status = StatusGiven
    /\ \E t \in TimeSources :
          /\ data.time = AtLeastMinTime(t)
          /\ ~call.overwriteCost =>
                data.cost = IF call.newFormat /\ CostGiven = DefaultCost
                            THEN t ELSE CostGiven
    /\ result.misc /\ result.cost = NoValue => "misc" \in data.notes

\* What is printed comes from process_results(), where it gave something, else
\* from the report of runsolver, else from the clock of the wrapper; a note of
\* process_results() is not forgotten.
ResultComesFromRun == Undisturbed /\ result # NoResult => ResultIsPrinted

\* The target run that pkill finds ends, even if the solver ignores SIGTERM and
\* whatever signals come while the wrapper sleeps or kills.  Nothing is promised
\* of a target that pkill cannot find or is not started for: one that the shell
\* starts only after pkill has looked, because the signal came just after
\* Popen(), or that goes on because Popen(["pkill", ...]) was an OSError or a
\* second signal came before it.
KilledTargetDies == pkill = "running" /\ runsolver # "none" ~> solver = "dead"

\* The wrapper ends once the target has ended or a signal made it stop waiting.
WrapperEnds == (solver = "dead" \/ pc = "cleanup") ~> pc = "ended"
=============================================================================
