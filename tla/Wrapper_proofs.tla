--------------------------- MODULE Wrapper_proofs ---------------------------
(***************************************************************************)
(* Proofs about Wrapper, for any reports, results, times and cutoff times, *)
(* any number of signals at any step, and either kind of shell:            *)
(*   FilesAreKept       the output files of a failed run are never lost;   *)
(*   InterruptReported  a run that a signal interrupts is reported;        *)
(*   ResultFromRun      what is printed is what the run gave;              *)
(* and about SatWrapper, for any command lines, solubility files and       *)
(* outputs of the solver:                                                  *)
(*   SatImplements      it is an AbstractWrapper: what is proved of        *)
(*                      Wrapper holds of it;                               *)
(*   NoLiePasses        a wrong answer is never a success;                 *)
(*   HonestIsPaid       a right answer is not punished;                    *)
(*   TargetTime         the target gets the cutoff time that was asked;    *)
(*   ParametersReach    the target gets the parameters of the line.        *)
(***************************************************************************)
EXTENDS SatWrapper, SequenceLemmas, SequenceTheorems, TLAPS

\* The steps before cleanup() deals with the files, and all of them.
Before == {"start", "cleanup", "multiple", "verdict", "read"} \cup Body \cup Killing
Steps == Before \cup {"files", "print", "exit", "ended"}

\* What the proofs need of types: where main() is, and that Data has its fields.
Fields == {"status", "cost", "exitCode", "notes", "time"}

TypeOK ==
    /\ pc \in Steps
    /\ DOMAIN data = Fields
    /\ signalAt \in Seq(Steps)

(***************************************************************************)
(* The files.  Until cleanup() deals with them they are where they were    *)
(* made; what is left to do then tells where each of them is.              *)
(***************************************************************************)
Untouched == temp = named /\ copies = {}
CopyThenRemove ==
    <<<<"copy", "watcher">>, <<"copy", "solver">>, <<"remove", "watcher">>,
      <<"remove", "solver">>>>
Removal == <<<<"remove", "watcher">>, <<"remove", "solver">>>>

KeepingFiles ==
    \/ todo = CopyThenRemove /\ Untouched
    \/ todo = Tail(CopyThenRemove) /\ temp = named
       /\ "watcher" \in named /\ copies = {"watcher"}
    \/ todo \in {Removal, Tail(Removal), <<>>} /\ named \subseteq copies
    \/ todo = <<>> /\ Untouched
RemovingFiles ==
    \/ todo = Removal /\ Untouched
    \/ todo = Tail(Removal) /\ temp = named \ {"watcher"}
       /\ "watcher" \in named /\ copies = {}
    \/ todo = <<>> /\ temp = {} /\ copies = {}

\* The watcher file is made first.
NamedOK == named \subseteq Files /\ ("solver" \in named => "watcher" \in named)

FilesInv ==
    /\ pc \in {"start", "command", "createWatcher"} => named = {}
    /\ pc = "createSolver" => named = {"watcher"}
    /\ pc \in Before => Untouched /\ ~printed
    /\ pc = "files" =>
          IF data.status \in Failed THEN KeepingFiles ELSE RemovingFiles
    /\ pc \in {"print", "exit", "ended"} /\ data.status \in Failed =>
          named \subseteq temp \cup copies
    /\ printed => pc \in {"exit", "ended"}
    /\ /\ pc = "print" \/ printed
       /\ signalAt = <<>> /\ "problems" \notin data.notes /\ data.status \notin Failed
       => temp = {} /\ copies = {}

(***************************************************************************)
(* The run that is registered, and the report: it is final once wait()     *)
(* has returned, unless a signal came.                                     *)
(***************************************************************************)
Awaited == {"wait", "remove"}
AfterWait == {"remove", "measure", "read", "parse", "process", "setStatus",
              "setRuntime", "setCost", "irace"}

ReportInv ==
    /\ pc \in Body \cup {"start", "read"} => (subprocess <=> pc \in Awaited)
    /\ pc \in Killing \cup {"multiple"} => signalAt # <<>>
    /\ signalAt = <<>> =>
          /\ pc = "cleanup" => ~subprocess
          /\ shell = "dead" => runsolver = "dead"
          /\ pc \in AfterWait \/ result # NoResult => runsolver = "dead"

(***************************************************************************)
(* The results, at each step of main() that no signal disturbed.           *)
(***************************************************************************)
StatusReported ==
    data.status = IF report.readable /\ report.stopped # "none"
                  THEN "TIMEOUT" ELSE "CRASHED"
TimeReported ==
    IF report.readable /\ report.cpu # NoValue
    THEN data.time = report.cpu ELSE data.time \in Times
NoteKept == result.misc /\ result.cost = NoValue => "misc" \in data.notes
CostKept ==
    data.cost = IF call.newFormat /\ CostGiven = DefaultCost
                THEN data.time ELSE CostGiven

UntilReport == {"start", "command", "createWatcher", "createSolver", "popen",
                "append", "wait", "remove", "measure", "read", "parse"}

ResultInv ==
    signalAt = <<>> =>
        /\ pc \in UntilReport => data.status = "CRASHED"
        /\ pc \in UntilReport \cup {"process"} => result = NoResult
        /\ pc \in UntilReport \cup {"process", "setStatus", "setRuntime", "setCost"} =>
              data.cost = DefaultCost
        /\ pc \in {"read", "parse"} => data.time \in Times
        /\ pc = "parse" => report.readable
        /\ pc \in {"process", "setStatus"} => StatusReported
        /\ pc \in {"process", "setStatus", "setRuntime"} => TimeReported
        /\ pc \in {"setRuntime", "setCost", "irace"} => data.status = StatusGiven
        /\ pc \in {"setCost", "irace"} => data.time \in TimeSources
        /\ pc = "irace" => data.cost = CostGiven /\ NoteKept
        /\ pc \in {"cleanup", "verdict", "files", "print"} /\ result # NoResult =>
              /\ data.status = StatusGiven /\ data.time \in TimeSources
              /\ CostKept
              /\ NoteKept \/ (pc = "print" /\ "problems" \in data.notes)
        /\ printed /\ result # NoResult =>
              data.status = StatusGiven /\ ("problems" \notin data.notes => ResultIsPrinted)

(***************************************************************************)
(* A signal while main() waits: cleanup() kills and goes on to the end.    *)
(***************************************************************************)
OneSignal == signalAt \in {<<"wait">>, <<"remove">>}
Marked == data.notes \cap {"forced", "multiple", "problems"} # {}

InterruptInv ==
    OneSignal =>
        /\ pc \in {"cleanup", "multiple", "verdict", "files", "print", "exit", "ended"}
                  \cup Killing
        /\ pc = "cleanup" => subprocess
        /\ call.cutoff # NoValue =>
              /\ pc \in {"verdict", "files"} =>
                    data.time = call.cutoff /\ data.notes \cap {"forced", "multiple"} # {}
              /\ pc = "print" => data.time = call.cutoff /\ Marked
              /\ pc \in {"exit", "ended"} =>
                    printed /\ Marked /\ data.time = AtLeastMinTime(call.cutoff)
-----------------------------------------------------------------------------
\* signalAt records a first signal exactly when none came before.
LEMMA AppendOne ==
    ASSUME NEW S, NEW s \in Seq(S), NEW x \in S
    PROVE  /\ Append(s, x) # <<>>
           /\ \A y : Append(s, x) = <<y>> => s = <<>> /\ x = y
<1>1. Len(Append(s, x)) = Len(s) + 1 /\ Append(s, x)[Len(s) + 1] = x /\ Len(s) \in Nat
  OBVIOUS
<1>2. Append(s, x) # <<>>
  BY <1>1
<1>3. ASSUME NEW y, Append(s, x) = <<y>> PROVE s = <<>> /\ x = y
  <2>1. Len(<<y>>) = 1 /\ <<y>>[1] = y
    OBVIOUS
  <2>2. Len(s) = 0 
    BY <1>1, <1>3, <2>1
  <2>3. s = <<>>
    BY <2>2, EmptySeq
  <2> QED
    BY <1>1, <1>3, <2>1, <2>2, <2>3
<1> QED
  BY <1>2, <1>3

\* The concatenation of two pairs.
LEMMA TwoPairs ==
    ASSUME NEW S, NEW a \in S, NEW b \in S, NEW c \in S, NEW d \in S
    PROVE  <<a, b>> \o <<c, d>> = <<a, b, c, d>>
<1> DEFINE s == <<a, b>> \o <<c, d>>
           t == <<a, b, c, d>>
<1>1. <<a, b>> \in Seq(S) /\ <<c, d>> \in Seq(S) /\ t \in Seq(S)
  OBVIOUS
<1>2. s \in Seq(S) /\ Len(s) = 4 /\ Len(t) = 4
  BY <1>1
<1>3. s[1] = a /\ s[2] = b /\ s[3] = c /\ s[4] = d
  BY <1>1
<1> HIDE DEF s
<1>4. \A i \in 1 .. Len(s) : s[i] = t[i]
  BY <1>2, <1>3
<1> HIDE DEF t
<1>5. s = t
  BY <1>1, <1>2, <1>4, SeqEqual
<1> QED
  BY <1>5 DEF s, t

\* The two loops of cleanup() over the files, one after the other.
LEMMA CopiesFirst == Each("copy") \o Each("remove") = CopyThenRemove
<1> DEFINE a == <<"copy", "watcher">>
           b == <<"copy", "solver">>
           c == <<"remove", "watcher">>
           d == <<"remove", "solver">>
<1>1. Each("copy") = <<a, b>> /\ Each("remove") = <<c, d>>
      /\ CopyThenRemove = <<a, b, c, d>>
  BY DEF Each, CopyThenRemove
<1> HIDE DEF a, b, c, d
<1>2. <<a, b>> \o <<c, d>> = <<a, b, c, d>>
  BY TwoPairs, a \in {a, b, c, d}, b \in {a, b, c, d}, c \in {a, b, c, d}, d \in {a, b, c, d}
<1> QED
  BY <1>1, <1>2

\* What is left to do after each step.
LEMMA LeftToDo ==
    /\ Head(CopyThenRemove) = <<"copy", "watcher">>
    /\ Head(Tail(CopyThenRemove)) = <<"copy", "solver">>
    /\ Tail(Tail(CopyThenRemove)) = Removal
    /\ Head(Removal) = <<"remove", "watcher">>
    /\ Head(Tail(Removal)) = <<"remove", "solver">>
    /\ Tail(Tail(Removal)) = <<>>
    /\ CopyThenRemove # <<>> /\ Tail(CopyThenRemove) # <<>>
    /\ Removal # <<>> /\ Tail(Removal) # <<>>
BY DEF CopyThenRemove, Removal
-----------------------------------------------------------------------------
LEMMA TypeStep == TypeOK /\ [Next]_vars => TypeOK'
<1> SUFFICES ASSUME TypeOK, [Next]_vars PROVE TypeOK'
  OBVIOUS
<1> USE DEF Step, KeepRest, KeepAll, KeepAllButData, KeepAllButTarget,
     fileVars, endVars, targetVars, TypeOK, Fields, Steps, Before, Body,
     Killing, Uncaught
<1>1. CASE Start \/ Fails \/ Command
  BY <1>1 DEF Start, Fails, Traceback, Command
<1>2. CASE CreateWatcher \/ CreateSolver
  BY <1>2 DEF CreateWatcher, CreateSolver, CreateFile
<1>3. CASE CallTarget \/ CallFails \/ Register \/ Wait \/ Unregister
  BY <1>3 DEF CallTarget, StartShell, CallFails, Register, Wait, Unregister,
       Listed
<1>4. CASE Measure \/ ReadReport \/ GiveUpReport \/ ParseReport
  BY <1>4 DEF Measure, ReadReport, GiveUpReport, ParseReport
<1>5. CASE ProcessResults \/ SetStatus \/ SetRuntime \/ SetCost \/ Irace
  BY <1>5 DEF ProcessResults, SetStatus, SetRuntime, SetCost, Irace
<1>6. CASE Cleanup \/ Pkill \/ PkillFails \/ Awake \/ KillSub
  BY <1>6 DEF Cleanup, Pkill, StartPkill, PkillFails, Awake, KillSub,
       KillShell
<1>7. CASE Forced \/ Multiple
  BY <1>7 DEF Forced, Multiple, ForcedToExit
<1>8. CASE Verdict
  BY <1>8 DEF Verdict, FileSteps
<1>9. CASE FileStep
  BY <1>9 DEF FileStep, NextFile
<1>10. CASE FileStepFails \/ FilesDone
  BY <1>10 DEF FileStepFails, FilesDone, LeaveFiles, NextFile
<1>11. CASE PrintResult
  BY <1>11 DEF PrintResult
<1>12. CASE NoTime \/ Exit
  BY <1>12 DEF NoTime, Traceback, Exit
<1>13. CASE Signal
  BY <1>13 DEF Signal, SignalInBody, SignalWhileKilling, SignalInFiles,
       SignalIsLost, SignalElsewhere, Raised, LeaveFiles
<1>14. CASE TargetRuns \/ UNCHANGED vars
  BY <1>14 DEF TargetRuns, vars
<1> QED
  BY <1>1, <1>2, <1>3, <1>4, <1>5, <1>6, <1>7, <1>8, <1>9, <1>10, <1>11,
       <1>12, <1>13, <1>14
     DEF Next, Main, Try, Except, Done

(***************************************************************************)
(* The files.                                                              *)
(***************************************************************************)
LEMMA NamedStep == NamedOK /\ FilesInv /\ [Next]_vars => NamedOK'
<1> SUFFICES ASSUME NamedOK, FilesInv, [Next]_vars PROVE NamedOK'
  OBVIOUS
<1> USE DEF Step, KeepRest, KeepAll, KeepAllButData, KeepAllButTarget,
     fileVars, endVars, targetVars, NamedOK, Files, FilesInv
<1>1. CASE Start \/ Fails \/ Command
  BY <1>1 DEF Start, Fails, Traceback, Command
<1>2. CASE CreateWatcher \/ CreateSolver
  BY <1>2 DEF CreateWatcher, CreateSolver, CreateFile
<1>3. CASE CallTarget \/ CallFails \/ Register \/ Wait \/ Unregister
  BY <1>3 DEF CallTarget, StartShell, CallFails, Register, Wait, Unregister,
       Listed
<1>4. CASE Measure \/ ReadReport \/ GiveUpReport \/ ParseReport
  BY <1>4 DEF Measure, ReadReport, GiveUpReport, ParseReport
<1>5. CASE ProcessResults \/ SetStatus \/ SetRuntime \/ SetCost \/ Irace
  BY <1>5 DEF ProcessResults, SetStatus, SetRuntime, SetCost, Irace
<1>6. CASE Cleanup \/ Pkill \/ PkillFails \/ Awake \/ KillSub
  BY <1>6 DEF Cleanup, Pkill, StartPkill, PkillFails, Awake, KillSub,
       KillShell
<1>7. CASE Forced \/ Multiple
  BY <1>7 DEF Forced, Multiple, ForcedToExit
<1>8. CASE Verdict
  BY <1>8 DEF Verdict, FileSteps
<1>9. CASE FileStep
  BY <1>9 DEF FileStep, NextFile
<1>10. CASE FileStepFails \/ FilesDone
  BY <1>10 DEF FileStepFails, FilesDone, LeaveFiles, NextFile
<1>11. CASE PrintResult
  BY <1>11 DEF PrintResult
<1>12. CASE NoTime \/ Exit
  BY <1>12 DEF NoTime, Traceback, Exit
<1>13. CASE Signal
  BY <1>13 DEF Signal, SignalInBody, SignalWhileKilling, SignalInFiles,
       SignalIsLost, SignalElsewhere, Raised, LeaveFiles
<1>14. CASE TargetRuns \/ UNCHANGED vars
  BY <1>14 DEF TargetRuns, vars
<1> QED
  BY <1>1, <1>2, <1>3, <1>4, <1>5, <1>6, <1>7, <1>8, <1>9, <1>10, <1>11,
       <1>12, <1>13, <1>14
     DEF Next, Main, Try, Except, Done


\* No file is left when the loop over the files ends: those that cleanup() was to
\* keep are in one of the directories, the others are in none.
LEMMA AllKept ==
    ASSUME NamedOK, FilesInv, pc = "files", data.status \in Failed
    PROVE  named \subseteq temp \cup copies
<1>1. KeepingFiles
  BY DEF FilesInv
<1>2. CASE Untouched
  BY <1>2 DEF Untouched
<1>3. CASE /\ todo = Tail(CopyThenRemove) /\ temp = named
           /\ "watcher" \in named /\ copies = {"watcher"}
  BY <1>3
<1>4. CASE named \subseteq copies
  BY <1>4
<1> QED
  BY <1>1, <1>2, <1>3, <1>4 DEF KeepingFiles

LEMMA AllRemoved ==
    ASSUME NamedOK, FilesInv, pc = "files", data.status \notin Failed,
           todo # <<>> => Head(todo)[2] \notin named
    PROVE  temp = {} /\ copies = {}
<1>1. RemovingFiles
  BY DEF FilesInv
<1>2. CASE todo = Removal /\ Untouched
  BY <1>2, LeftToDo DEF Untouched, NamedOK, Files
<1>3. CASE /\ todo = Tail(Removal) /\ temp = named \ {"watcher"}
           /\ "watcher" \in named /\ copies = {}
  BY <1>3, LeftToDo DEF NamedOK, Files
<1>4. CASE todo = <<>> /\ temp = {} /\ copies = {}
  BY <1>4
<1> QED
  BY <1>1, <1>2, <1>3, <1>4 DEF RemovingFiles

LEMMA FilesDoneStep == NamedOK /\ FilesInv /\ FilesDone => FilesInv'
<1> SUFFICES ASSUME NamedOK, FilesInv, FilesDone PROVE FilesInv'
  OBVIOUS
<1>1. /\ pc = "files" /\ pc' = "print"
      /\ todo # <<>> => Head(todo)[2] \notin named
      /\ UNCHANGED <<data, named, temp, copies, printed, signalAt>>
  BY DEF FilesDone, LeaveFiles, NextFile, Step, endVars
<1>2. data.status \in Failed => named \subseteq temp \cup copies
  BY <1>1, AllKept
<1>3. data.status \notin Failed => temp = {} /\ copies = {}
  BY <1>1, AllRemoved
<1> QED
  BY <1>1, <1>2, <1>3 DEF FilesInv, Before, Body, Killing

LEMMA FileStepStep == NamedOK /\ FilesInv /\ FileStep => FilesInv'
<1> SUFFICES ASSUME NamedOK, FilesInv, FileStep PROVE FilesInv'
  OBVIOUS
<1>1. /\ pc = "files" /\ pc' = "files" /\ todo # <<>> /\ todo' = Tail(todo)
      /\ Head(todo)[2] \in named
      /\ UNCHANGED <<data, named, printed, signalAt>>
  BY DEF FileStep, NextFile, Step, endVars
<1>2. IF Head(todo)[1] = "copy"
      THEN copies' = copies \cup ({Head(todo)[2]} \cap temp) /\ temp' = temp
      ELSE temp' = temp \ {Head(todo)[2]} /\ copies' = copies
  BY DEF FileStep, NextFile
<1>3. CASE data.status \in Failed
  <2>1. SUFFICES KeepingFiles'
    BY <1>1, <1>3 DEF FilesInv, Before, Body, Killing
  <2>2. CASE todo = CopyThenRemove /\ Untouched
    BY <1>1, <1>2, <2>2, LeftToDo DEF KeepingFiles, Untouched
  <2>3. CASE /\ todo = Tail(CopyThenRemove) /\ temp = named
             /\ "watcher" \in named /\ copies = {"watcher"}
    <3>1. todo' = Removal /\ Head(todo) = <<"copy", "solver">>
      BY <1>1, <2>3, LeftToDo
    <3>2. copies' = copies \cup ({"solver"} \cap temp) /\ "solver" \in temp
      BY <1>1, <1>2, <2>3, <3>1
    <3>3. copies' = {"watcher", "solver"}
      BY <2>3, <3>2
    <3> QED
      BY <1>1, <3>1, <3>3 DEF KeepingFiles, NamedOK, Files
  <2>4. CASE todo \in {Removal, Tail(Removal)} /\ named \subseteq copies
    <3>1. copies' = copies /\ todo' \in {Tail(Removal), <<>>}
      BY <1>1, <1>2, <2>4, LeftToDo
    <3> QED
      BY <1>1, <2>4, <3>1 DEF KeepingFiles
  <2> QED
    BY <1>1, <1>3, <2>2, <2>3, <2>4 DEF FilesInv, KeepingFiles
<1>4. CASE data.status \notin Failed
  <2>1. SUFFICES RemovingFiles'
    BY <1>1, <1>4 DEF FilesInv, Before, Body, Killing
  <2>2. CASE todo = Removal /\ Untouched
    BY <1>1, <1>2, <2>2, LeftToDo DEF RemovingFiles, Untouched
  <2>3. CASE /\ todo = Tail(Removal) /\ temp = named \ {"watcher"}
             /\ "watcher" \in named /\ copies = {}
    <3>1. todo' = <<>> /\ Head(todo) = <<"remove", "solver">>
      BY <1>1, <2>3, LeftToDo
    <3>2. temp' = temp \ {"solver"} /\ copies' = copies
      BY <1>2, <3>1
    <3>3. temp' = {} /\ copies' = {}
      BY <2>3, <3>2 DEF NamedOK, Files
    <3> QED
      BY <3>1, <3>3 DEF RemovingFiles
  <2> QED
    BY <1>1, <1>4, <2>2, <2>3 DEF FilesInv, RemovingFiles
<1> QED
  BY <1>3, <1>4

LEMMA FilesStep == TypeOK /\ NamedOK /\ FilesInv /\ [Next]_vars => FilesInv'
<1> SUFFICES ASSUME TypeOK, NamedOK, FilesInv, [Next]_vars PROVE FilesInv'
  OBVIOUS
<1> USE DEF Step, KeepRest, KeepAll, KeepAllButData, KeepAllButTarget,
     fileVars, endVars, targetVars, TypeOK, Fields, FilesInv, Before, Body,
     Killing, Uncaught, Untouched, Files, Failed
<1>1. CASE Start \/ Fails \/ Command
  BY <1>1 DEF Start, Fails, Traceback, Command
<1>2. CASE CreateWatcher \/ CreateSolver
  <2>1. CASE CreateWatcher
    BY <2>1 DEF CreateWatcher, CreateFile
  <2>2. CASE CreateSolver
    BY <2>2 DEF CreateSolver, CreateFile
  <2> QED
    BY <1>2, <2>1, <2>2
<1>3. CASE CallTarget \/ CallFails \/ Register \/ Wait \/ Unregister
  BY <1>3 DEF CallTarget, StartShell, CallFails, Register, Wait, Unregister,
       Listed
<1>4. CASE Measure \/ ReadReport \/ GiveUpReport \/ ParseReport
  BY <1>4 DEF Measure, ReadReport, GiveUpReport, ParseReport
<1>5. CASE ProcessResults \/ SetStatus \/ SetRuntime \/ SetCost \/ Irace
  BY <1>5 DEF ProcessResults, SetStatus, SetRuntime, SetCost, Irace
<1>6. CASE Cleanup \/ Pkill \/ PkillFails \/ Awake \/ KillSub
  BY <1>6 DEF Cleanup, Pkill, StartPkill, PkillFails, Awake, KillSub,
       KillShell
<1>7. CASE Forced \/ Multiple
  BY <1>7 DEF Forced, Multiple, ForcedToExit
<1>8. CASE Verdict
  <2>1. CASE data.status \notin Failed
    <3>1. todo' = Removal /\ data'.status \notin Failed
      BY <1>8, <2>1 DEF Verdict, FileSteps, Each, Removal
    <3> QED
      BY <1>8, <3>1 DEF Verdict, RemovingFiles
  <2>2. CASE data.status \in Failed
    <3>1. (todo' = CopyThenRemove \/ todo' = <<>>) /\ data'.status \in Failed
      BY <1>8, <2>2, CopiesFirst DEF Verdict, FileSteps
    <3> QED
      BY <1>8, <3>1 DEF Verdict, KeepingFiles
  <2> QED
    BY <2>1, <2>2
<1>9. CASE FileStep
  BY <1>9, FileStepStep
<1>10. CASE FileStepFails \/ FilesDone
  <2>1. CASE FileStepFails
    BY <2>1, LeftToDo DEF FileStepFails, LeaveFiles, NextFile, KeepingFiles
  <2>2. CASE FilesDone
    BY <2>2, FilesDoneStep
  <2> QED
    BY <1>10, <2>1, <2>2
<1>11. CASE PrintResult
  BY <1>11 DEF PrintResult
<1>12. CASE NoTime \/ Exit
  BY <1>12 DEF NoTime, Traceback, Exit
<1>13. CASE Signal
  BY <1>13 DEF Signal, SignalInBody, SignalWhileKilling, SignalInFiles,
       SignalIsLost, SignalElsewhere, Raised, LeaveFiles, KeepingFiles,
       RemovingFiles
<1>14. CASE TargetRuns \/ UNCHANGED vars
  BY <1>14 DEF TargetRuns, vars, KeepingFiles, RemovingFiles
<1> QED
  BY <1>1, <1>2, <1>3, <1>4, <1>5, <1>6, <1>7, <1>8, <1>9, <1>10, <1>11,
       <1>12, <1>13, <1>14
     DEF Next, Main, Try, Except, Done

(***************************************************************************)
(* The report and the results.                                             *)
(***************************************************************************)
\* Nothing happens below the wrapper once runsolver and the shell are dead.
LEMMA TargetKeeps ==
    ASSUME TargetStep, shell = "dead" => runsolver = "dead"
    PROVE  /\ shell' = "dead" => runsolver' = "dead"
           /\ runsolver = "dead" => runsolver' = "dead" /\ report' = report
<1>1. CASE SolverEnds \/ Second \/ ShellEnds
  BY <1>1 DEF SolverEnds, Second, ShellEnds, processes
<1>2. CASE LimitExceeded \/ Launch \/ RunsolverKills \/ RunsolverEnds
  BY <1>2 DEF LimitExceeded, Launch, RunsolverKills, RunsolverEnds
<1>3. CASE TermChildren
  BY <1>3 DEF TermChildren
<1> QED
  BY <1>1, <1>2, <1>3 DEF TargetStep, ProcessStep, RunsolverStep

LEMMA ReportStep == TypeOK /\ ReportInv /\ [Next]_vars => ReportInv'
<1> SUFFICES ASSUME TypeOK, ReportInv, [Next]_vars PROVE ReportInv'
  OBVIOUS
<1> USE DEF Step, KeepRest, KeepAll, KeepAllButData, KeepAllButTarget,
     fileVars, endVars, targetVars, TypeOK, Fields, ReportInv, Body, Killing,
     Uncaught, Awaited, AfterWait, Steps, Before
<1>1. CASE Start \/ Fails \/ Command
  BY <1>1 DEF Start, Fails, Traceback, Command
<1>2. CASE CreateWatcher \/ CreateSolver
  BY <1>2 DEF CreateWatcher, CreateSolver, CreateFile
<1>3. CASE CallTarget \/ CallFails \/ Register \/ Wait \/ Unregister
  BY <1>3 DEF CallTarget, StartShell, CallFails, Register, Wait, Unregister,
       Listed
<1>4. CASE Measure \/ ReadReport \/ GiveUpReport \/ ParseReport
  BY <1>4 DEF Measure, ReadReport, GiveUpReport, ParseReport
<1>5. CASE ProcessResults \/ SetStatus \/ SetRuntime \/ SetCost \/ Irace
  BY <1>5 DEF ProcessResults, SetStatus, SetRuntime, SetCost, Irace
<1>6. CASE Cleanup \/ Pkill \/ PkillFails \/ Awake \/ KillSub
  BY <1>6 DEF Cleanup, Pkill, StartPkill, PkillFails, Awake, KillSub,
       KillShell
<1>7. CASE Forced \/ Multiple
  BY <1>7 DEF Forced, Multiple, ForcedToExit
<1>8. CASE Verdict
  BY <1>8 DEF Verdict, FileSteps
<1>9. CASE FileStep
  BY <1>9 DEF FileStep, NextFile
<1>10. CASE FileStepFails \/ FilesDone
  BY <1>10 DEF FileStepFails, FilesDone, LeaveFiles, NextFile
<1>11. CASE PrintResult
  BY <1>11 DEF PrintResult
<1>12. CASE NoTime \/ Exit
  BY <1>12 DEF NoTime, Traceback, Exit
<1>13. CASE Signal
  BY <1>13, AppendOne DEF Signal, SignalInBody, SignalWhileKilling,
       SignalInFiles, SignalIsLost, SignalElsewhere, Raised, LeaveFiles
<1>14. CASE TargetRuns \/ UNCHANGED vars
  <2>1. CASE TargetRuns
    BY <2>1, TargetKeeps DEF TargetRuns
  <2>2. CASE UNCHANGED vars
    BY <2>2 DEF vars
  <2> QED
    BY <1>14, <2>1, <2>2
<1> QED
  BY <1>1, <1>2, <1>3, <1>4, <1>5, <1>6, <1>7, <1>8, <1>9, <1>10, <1>11,
       <1>12, <1>13, <1>14
     DEF Next, Main, Try, Except, Done

LEMMA ResultStep == TypeOK /\ FilesInv /\ ReportInv /\ ResultInv /\ [Next]_vars => ResultInv'
<1> SUFFICES ASSUME TypeOK, FilesInv, ReportInv, ResultInv,
     [Next]_vars PROVE ResultInv'
  OBVIOUS
<1> USE DEF Step, KeepRest, KeepAll, KeepAllButData, KeepAllButTarget,
     fileVars, endVars, targetVars, TypeOK, Fields, ReportInv, ResultInv,
     Awaited, AfterWait, UntilReport, StatusReported, TimeReported, NoteKept,
     CostKept, StatusGiven, TimeSources, CostGiven, ResultIsPrinted, NoResult,
     AtLeastMinTime
<1>1. CASE Start \/ Fails \/ Command
  BY <1>1 DEF Start, Fails, Traceback, Command
<1>2. CASE CreateWatcher \/ CreateSolver
  BY <1>2 DEF CreateWatcher, CreateSolver, CreateFile
<1>3. CASE CallTarget \/ CallFails \/ Register \/ Wait \/ Unregister
  BY <1>3 DEF CallTarget, StartShell, CallFails, Register, Wait, Unregister,
       Listed
<1>4. CASE Measure \/ ReadReport \/ GiveUpReport \/ ParseReport
  <2>1. CASE Measure \/ ReadReport \/ GiveUpReport
    BY <2>1 DEF Measure, ReadReport, GiveUpReport
  <2>2. CASE ParseReport
    BY <2>2 DEF ParseReport
  <2> QED
    BY <1>4, <2>1, <2>2
<1>5. CASE ProcessResults \/ SetStatus \/ SetRuntime \/ SetCost \/ Irace
  <2>1. CASE ProcessResults
    BY <2>1 DEF ProcessResults, FilesInv, Before, Body
  <2>2. CASE SetStatus
    BY <2>2 DEF SetStatus
  <2>3. CASE SetRuntime
    <3>1. pc = "setRuntime" /\ pc' = "setCost" /\ signalAt' = signalAt
          /\ result' = result /\ report' = report /\ printed' = printed
          /\ data' = [data EXCEPT !.time = IF result.runtime # NoValue
                                          THEN result.runtime ELSE @]
      BY <2>3 DEF SetRuntime
    <3>2. ASSUME signalAt = <<>>
          PROVE  data'.time \in TimeSources' /\ data'.cost = data.cost
                 /\ data'.status = data.status
      BY <3>1, <3>2
    <3> QED
      BY <3>1, <3>2, ~printed DEF FilesInv, Before, Body
  <2>4. CASE SetCost
    BY <2>4 DEF SetCost
  <2>5. CASE Irace
    BY <2>5 DEF Irace
  <2> QED
    BY <1>5, <2>1, <2>2, <2>3, <2>4, <2>5
<1>6. CASE Cleanup \/ Pkill \/ PkillFails \/ Awake \/ KillSub
  BY <1>6 DEF Cleanup, Pkill, StartPkill, PkillFails, Awake, KillSub,
       KillShell
<1>7. CASE Forced \/ Multiple
  BY <1>7 DEF Forced, Multiple, ForcedToExit, Killing
<1>8. CASE Verdict
  BY <1>8 DEF Verdict, FileSteps
<1>9. CASE FileStep
  BY <1>9 DEF FileStep, NextFile
<1>10. CASE FileStepFails \/ FilesDone
  BY <1>10 DEF FileStepFails, FilesDone, LeaveFiles, NextFile
<1>11. CASE PrintResult
  BY <1>11 DEF PrintResult
<1>12. CASE NoTime \/ Exit
  BY <1>12 DEF NoTime, Traceback, Exit
<1>13. CASE Signal
  BY <1>13, AppendOne DEF Signal, SignalInBody, SignalWhileKilling,
       SignalInFiles, SignalIsLost, SignalElsewhere, Raised, LeaveFiles
<1>14. CASE TargetRuns \/ UNCHANGED vars
  <2>1. CASE TargetRuns
    BY <2>1, TargetKeeps DEF TargetRuns
  <2>2. CASE UNCHANGED vars
    BY <2>2 DEF vars
  <2> QED
    BY <1>14, <2>1, <2>2
<1> QED
  BY <1>1, <1>2, <1>3, <1>4, <1>5, <1>6, <1>7, <1>8, <1>9, <1>10, <1>11,
       <1>12, <1>13, <1>14
     DEF Next, Main, Try, Except, Done

(***************************************************************************)
(* A signal while the wrapper waits.                                       *)
(***************************************************************************)
LEMMA InterruptStep ==
    TypeOK /\ FilesInv /\ ReportInv /\ InterruptInv /\ [Next]_vars => InterruptInv'
<1> SUFFICES ASSUME TypeOK, FilesInv, ReportInv, InterruptInv, [Next]_vars
             PROVE  InterruptInv'
  OBVIOUS
<1> USE DEF Step, KeepRest, KeepAll, KeepAllButData, KeepAllButTarget,
     fileVars, endVars, targetVars, TypeOK, Fields, FilesInv, ReportInv,
     InterruptInv, OneSignal, Marked, Body, Before, Killing, Uncaught, Awaited
<1>1. CASE Start \/ Fails \/ Command
  BY <1>1 DEF Start, Fails, Traceback, Command
<1>2. CASE CreateWatcher \/ CreateSolver
  BY <1>2 DEF CreateWatcher, CreateSolver, CreateFile
<1>3. CASE CallTarget \/ CallFails \/ Register \/ Wait \/ Unregister
  BY <1>3 DEF CallTarget, StartShell, CallFails, Register, Wait, Unregister,
       Listed
<1>4. CASE Measure \/ ReadReport \/ GiveUpReport \/ ParseReport
  BY <1>4 DEF Measure, ReadReport, GiveUpReport, ParseReport
<1>5. CASE ProcessResults \/ SetStatus \/ SetRuntime \/ SetCost \/ Irace
  BY <1>5 DEF ProcessResults, SetStatus, SetRuntime, SetCost, Irace
<1>6. CASE Cleanup \/ Pkill \/ PkillFails \/ Awake \/ KillSub
  BY <1>6 DEF Cleanup, Pkill, StartPkill, PkillFails, Awake, KillSub,
       KillShell
<1>7. CASE Forced \/ Multiple
  BY <1>7 DEF Forced, Multiple, ForcedToExit
<1>8. CASE Verdict
  BY <1>8 DEF Verdict, FileSteps
<1>9. CASE FileStep
  BY <1>9 DEF FileStep, NextFile
<1>10. CASE FileStepFails \/ FilesDone
  <2>1. CASE FileStepFails
    BY <2>1 DEF FileStepFails, LeaveFiles
  <2>2. CASE FilesDone
    BY <2>2 DEF FilesDone, LeaveFiles
  <2> QED
    BY <1>10, <2>1, <2>2
<1>11. CASE PrintResult
  BY <1>11 DEF PrintResult
<1>12. CASE NoTime \/ Exit
  BY <1>12 DEF NoTime, Traceback, Exit
<1>13. CASE Signal
  BY <1>13, AppendOne DEF Signal, SignalInBody, SignalWhileKilling,
       SignalInFiles, SignalIsLost, SignalElsewhere, Raised, LeaveFiles
<1>14. CASE TargetRuns \/ UNCHANGED vars
  BY <1>14 DEF TargetRuns, vars
<1> QED
  BY <1>1, <1>2, <1>3, <1>4, <1>5, <1>6, <1>7, <1>8, <1>9, <1>10, <1>11,
       <1>12, <1>13, <1>14
     DEF Next, Main, Try, Except, Done

(***************************************************************************)
(* The theorems.                                                           *)
(***************************************************************************)
WrapperInv == TypeOK /\ NamedOK /\ FilesInv /\ ReportInv /\ ResultInv /\ InterruptInv

LEMMA WrapperInit == Init => WrapperInv
<1> SUFFICES ASSUME Init PROVE WrapperInv
  OBVIOUS
<1> USE DEF Init
<1>1. TypeOK /\ NamedOK
  BY DEF TypeOK, Fields, Steps, Before, NamedOK, Files
<1>2. FilesInv
  BY DEF FilesInv, Untouched, Before, Body, Killing
<1>3. ReportInv
  BY DEF ReportInv, TargetInit, Body, Awaited, AfterWait, Killing
<1>4. ResultInv
  BY DEF ResultInv, UntilReport
<1>5. InterruptInv
  <2>1. ~OneSignal
    BY DEF OneSignal
  <2> QED
    BY <2>1 DEF InterruptInv
<1> QED
  BY <1>1, <1>2, <1>3, <1>4, <1>5 DEF WrapperInv

\* The invariant from which the theorems follow.
THEOREM WrapperInvariant == Spec => []WrapperInv
<1>1. WrapperInv /\ [Next]_vars => WrapperInv'
  BY TypeStep, NamedStep, FilesStep, ReportStep, ResultStep, InterruptStep DEF WrapperInv
<1> QED
  BY WrapperInit, <1>1, PTL DEF Spec

\* cleanup() (generic_wrapper.py) never loses an output file of a failed run,
\* whatever signals and errors interrupt it, and leaves none of the others.
THEOREM FilesAreKept == Spec => []FilesKept
<1>1. WrapperInv => FilesKept
  <2> SUFFICES ASSUME WrapperInv PROVE FilesKept
    OBVIOUS
  <2> QED
    BY DEF WrapperInv, FilesInv, FilesKept, Undisturbed
<1> QED
  BY WrapperInvariant, <1>1, PTL

\* A signal while main() waits for the run makes it print the cutoff time and
\* tell that the run was forced to exit, if there is a cutoff time.
THEOREM InterruptReported == Spec => []InterruptIsReported
<1>1. WrapperInv => InterruptIsReported
  <2> SUFFICES ASSUME WrapperInv, Interrupted, call.cutoff # NoValue
               PROVE  printed /\ data.time = AtLeastMinTime(call.cutoff) /\ Marked
    BY DEF InterruptIsReported, Marked
  <2> QED
    BY DEF WrapperInv, InterruptInv, OneSignal, Interrupted
<1> QED
  BY WrapperInvariant, <1>1, PTL

\* Without signals main() prints what process_results() gave, and where it gave
\* nothing, what runsolver and the clock of the wrapper measured.
THEOREM ResultFromRun == Spec => []ResultComesFromRun
<1>1. WrapperInv => ResultComesFromRun
  BY DEF WrapperInv, ResultInv, ResultComesFromRun, Undisturbed
<1> QED
  BY WrapperInvariant, <1>1, PTL
-----------------------------------------------------------------------------
(***************************************************************************)
(* SatWrapper.                                                             *)
(***************************************************************************)
\* Only what process_results() does is new.
LEMMA SatStep == [SatNext]_<<vars, satVars>> => [Next]_vars
BY DEF SatNext, SatProcessResults, SatFails, Next, Main, Try, Fails

\* SatWrapper (satwrapper.py) replaces process_results() and nothing else.
THEOREM SatImplements == SatSpec => Spec
<1>1. SatInit => Init
  BY DEF SatInit
<1> QED
  BY <1>1, SatStep, PTL DEF SatSpec, Spec
-----------------------------------------------------------------------------
(***************************************************************************)
(* What main() does to the result and to the status, wherever it is.       *)
(***************************************************************************)
UntilResult == UntilReport \cup {"process"}

StatusMoves ==
    /\ call' = call
    /\ pc' \in UntilResult => pc \in UntilReport \/ pc' = pc
    /\ pc # "process" => result' = result
    /\ signalAt' = <<>> => signalAt = <<>>
    /\ report' = report \/ TargetStep
    /\ pc = "ended" => pc' = "ended" /\ printed' = printed
    /\ \/ data'.status \in {data.status, "ABORT", "TIMEOUT"}
       \/ pc = "setStatus" /\ data'.status = result.status

LEMMA MainMoves == TypeOK /\ [Next]_vars => StatusMoves
<1> SUFFICES ASSUME TypeOK, [Next]_vars PROVE StatusMoves
  OBVIOUS
<1> USE DEF Step, KeepRest, KeepAll, KeepAllButData, KeepAllButTarget,
     fileVars, endVars, targetVars, TypeOK, Fields, StatusMoves, UntilResult,
     UntilReport, Body, Killing, Uncaught
<1>1. CASE Start \/ Fails \/ Command
  BY <1>1 DEF Start, Fails, Traceback, Command
<1>2. CASE CreateWatcher \/ CreateSolver
  BY <1>2 DEF CreateWatcher, CreateSolver, CreateFile
<1>3. CASE CallTarget \/ CallFails \/ Register \/ Wait \/ Unregister
  <2>1. CASE CallFails
    BY <2>1 DEF CallFails
  <2>2. CASE CallTarget
    BY <2>2 DEF CallTarget, StartShell
  <2>3. CASE Register \/ Unregister
    BY <2>3 DEF Register, Unregister, Listed
  <2>4. CASE Wait
    BY <2>4 DEF Wait
  <2> QED
    BY <1>3, <2>1, <2>2, <2>3, <2>4
<1>4. CASE Measure \/ ReadReport \/ GiveUpReport \/ ParseReport
  BY <1>4 DEF Measure, ReadReport, GiveUpReport, ParseReport
<1>5. CASE ProcessResults \/ SetStatus \/ SetRuntime \/ SetCost \/ Irace
  BY <1>5 DEF ProcessResults, SetStatus, SetRuntime, SetCost, Irace
<1>6. CASE Cleanup \/ Pkill \/ PkillFails \/ Awake \/ KillSub
  BY <1>6 DEF Cleanup, Pkill, StartPkill, PkillFails, Awake, KillSub,
       KillShell
<1>7. CASE Forced \/ Multiple
  BY <1>7 DEF Forced, Multiple, ForcedToExit
<1>8. CASE Verdict
  BY <1>8 DEF Verdict, FileSteps
<1>9. CASE FileStep
  BY <1>9 DEF FileStep, NextFile
<1>10. CASE FileStepFails \/ FilesDone
  BY <1>10 DEF FileStepFails, FilesDone, LeaveFiles, NextFile
<1>11. CASE PrintResult
  BY <1>11 DEF PrintResult
<1>12. CASE NoTime \/ Exit
  BY <1>12 DEF NoTime, Traceback, Exit
<1>13. CASE Signal
  BY <1>13 DEF Signal, SignalInBody, SignalWhileKilling, SignalInFiles,
       SignalIsLost, SignalElsewhere, Raised, LeaveFiles
<1>14. CASE TargetRuns \/ UNCHANGED vars
  BY <1>14 DEF TargetRuns, vars, vars
<1> QED
  BY <1>1, <1>2, <1>3, <1>4, <1>5, <1>6, <1>7, <1>8, <1>9, <1>10, <1>11,
       <1>12, <1>13, <1>14
     DEF Next, Main, Try, Except, Done
-----------------------------------------------------------------------------
(***************************************************************************)
(* Evidence and judgement.                                                 *)
(***************************************************************************)
\* What denies a claim to the code, which goes by the first line of the file.
Refuted(e, claim) ==
    \/ SpecificsDeny(claim)
    \/ e.solubility # <<>> /\ e.solubility[1].says = Opposite(claim)
    \/ e.verdict = "wrong"

LEMMA EvidenceFits ==
    ASSUME NEW e \in Evidence
    PROVE  /\ "--sol-file" \notin e.files => e.solubility = <<>>
           /\ e.model => "SATISFIABLE" \in e.words
           /\ e.verdict # "silent" => e.model /\ "--sat-checker" \in e.files
           /\ \E word \in Words : e.words \subseteq {word, "s UNKNOWN"}
BY DEF Evidence, WordSets

\* A success is what no evidence refutes.
LEMMA SuccessIsRight ==
    ASSUME NEW e \in Evidence, Judged(e) = "SUCCESS", NEW claim \in Claims(e)
    PROVE  ~Refuted(e, claim)
<1>1. ASSUME Verified(e, claim) = "SUCCESS"
      PROVE  /\ ~SpecificsDeny(claim)
             /\ e.solubility = <<>> \/ e.solubility[1].says # Opposite(claim)
  BY <1>1, EvidenceFits DEF Verified, VerifyViaSolubilityFile
<1>2. CASE Found(e, "UNSATISFIABLE")
  <2>1. claim = "UNSAT" /\ Verified(e, claim) = "SUCCESS"
    BY <1>2 DEF Claims, Judged
  <2>2. "SATISFIABLE" \notin e.words
    BY <1>2, EvidenceFits DEF Found
  <2>3. e.verdict = "silent"
    BY <2>2, EvidenceFits
  <2> QED
    BY <1>1, <2>1, <2>3 DEF Refuted
<1>3. CASE ~Found(e, "UNSATISFIABLE")
  <2>1. claim = "SAT" /\ Checked(e) = "SUCCESS"
    BY <1>3 DEF Claims, Judged
  <2>2. Verified(e, claim) = "SUCCESS" /\ e.verdict # "wrong"
    BY <2>1, EvidenceFits DEF Checked
  <2> QED
    BY <1>1, <2>2 DEF Refuted
<1> QED
  BY <1>2, <1>3

\* Until process_results() has looked there is no evidence and no result; if it
\* fails, there is evidence without a result, which ends the run.
EvidenceInv ==
    /\ pc \in UntilResult =>
          result = NoResult /\ evidence = NoEvidence /\ data.status # "SUCCESS"
    /\ result = NoResult /\ evidence # NoEvidence => pc = "ended" /\ ~printed
    /\ evidence.solubility \in SolubilityFiles \cup {<<>>}

\* Only a result of process_results() makes a run a success.
LieInv ==
    data.status = "SUCCESS" \/ result.status = "SUCCESS" =>
        \A claim \in Claims(evidence) : ~Refuted(evidence, claim)

\* A step of anything but process_results().
Elsewhere == StatusMoves /\ result' = result /\ UNCHANGED satVars

LEMMA SatCases ==
    TypeOK /\ [SatNext]_<<vars, satVars>> => SatProcessResults \/ SatFails \/ Elsewhere
<1> SUFFICES ASSUME TypeOK, [SatNext]_<<vars, satVars>>
             PROVE  SatProcessResults \/ SatFails \/ Elsewhere
  OBVIOUS
<1>1. CASE pc # "process" /\ Next /\ UNCHANGED satVars
  <2>1. StatusMoves
    BY <1>1, MainMoves
  <2> QED
    BY <1>1, <2>1 DEF StatusMoves, Elsewhere
<1>2. CASE pc = "process" /\ (Signal \/ TargetRuns) /\ UNCHANGED satVars
  <2>1. StatusMoves
    BY <1>2, MainMoves DEF Next
  <2>2. result' = result
    BY <1>2 DEF Signal, SignalInBody, SignalWhileKilling, SignalInFiles, SignalIsLost,
         SignalElsewhere, Raised, TargetRuns, KeepAllButTarget, KeepRest
  <2> QED
    BY <1>2, <2>1, <2>2 DEF Elsewhere
<1>3. CASE UNCHANGED <<vars, satVars>>
  <2>1. StatusMoves
    BY <1>3, MainMoves
  <2> QED
    BY <1>3, <2>1 DEF vars, Elsewhere
<1> QED
  BY <1>1, <1>2, <1>3 DEF SatNext

LEMMA EvidenceStep ==
    TypeOK /\ FilesInv /\ EvidenceInv /\ LieInv /\ [SatNext]_<<vars, satVars>>
    => EvidenceInv' /\ LieInv'
<1> SUFFICES ASSUME TypeOK, FilesInv, EvidenceInv, LieInv, [SatNext]_<<vars, satVars>>
             PROVE  EvidenceInv' /\ LieInv'
  OBVIOUS
<1>1. CASE SatProcessResults
  <2>1. PICK e \in Evidence :
             /\ ProcessResults /\ evidence' = e
             /\ result' = [NoResult EXCEPT !.status = Judged(e), !.misc = TRUE]
    BY <1>1 DEF SatProcessResults
  <2>2. pc = "process" /\ pc' = "setStatus" /\ data' = data
    BY <2>1 DEF ProcessResults, Step
  <2>3. parsed' = parsed
    BY <1>1 DEF SatProcessResults
  <2>4. result'.misc /\ result'.status = Judged(e)
    BY <2>1 DEF NoResult
  <2>5. EvidenceInv'
    BY <2>1, <2>2, <2>4 DEF EvidenceInv, UntilResult, UntilReport, NoResult, Evidence
  <2>6. LieInv'
    <3>1. data.status # "SUCCESS"
      BY <2>2 DEF EvidenceInv, UntilResult
    <3> SUFFICES ASSUME result'.status = "SUCCESS", NEW claim \in Claims(evidence)'
                 PROVE  ~Refuted(evidence, claim)'
      BY <2>2, <3>1 DEF LieInv
    <3>2. claim \in Claims(e) /\ ~Refuted(e, claim)
      BY <2>1, <2>4, SuccessIsRight DEF Claims, Found
    <3> QED
      BY <2>1, <2>3, <3>2 DEF Refuted, SpecificsDeny, Synonyms, Opposite
  <2> QED
    BY <2>5, <2>6
<1>2. CASE SatFails
  <2>1. /\ pc = "process" /\ pc' = "ended"
        /\ UNCHANGED <<data, result, printed>>
    BY <1>2 DEF SatFails, Traceback, Step
  <2>2. ~printed
    BY <2>1 DEF FilesInv, Before, Body
  <2>3. result = NoResult /\ data.status # "SUCCESS"
    BY <2>1 DEF EvidenceInv, UntilResult
  <2>4. evidence'.solubility \in SolubilityFiles \cup {<<>>}
    BY <1>2 DEF SatFails, Evidence, EvidenceInv
  <2> QED
    BY <2>1, <2>2, <2>3, <2>4 DEF EvidenceInv, LieInv, UntilResult, UntilReport, NoResult
<1>3. CASE Elsewhere
  <2>1. /\ UNCHANGED <<parsed, evidence, result>>
        /\ pc' \in UntilResult => pc \in UntilReport \/ pc' = pc
        /\ pc = "ended" => pc' = "ended" /\ printed' = printed
        /\ \/ data'.status \in {data.status, "ABORT", "TIMEOUT"}
           \/ pc = "setStatus" /\ data'.status = result.status
    BY <1>3 DEF Elsewhere, StatusMoves, satVars
  <2>2. LieInv'
    BY <2>1 DEF LieInv, Refuted, SpecificsDeny, Claims, Found
  <2>3. EvidenceInv'
    BY <2>1 DEF EvidenceInv, UntilResult, UntilReport
  <2> QED
    BY <2>2, <2>3
<1> QED
  BY <1>1, <1>2, <1>3, SatCases
-----------------------------------------------------------------------------
\* What process_results() makes of a right answer, in a run without signals.
Paid ==
    \/ result.status = "SUCCESS"
    \/ /\ result.status = "TIMEOUT"
       /\ evidence.words = {"s UNKNOWN"} \/ (evidence.truth = "SAT" /\ Incomplete)
HonestInv ==
    signalAt = <<>> /\ result # NoResult /\ report.readable /\ HonestAnswer
    /\ KnowledgeIsRight => Paid

\* SatProcessResults, when the answer and what is known of the instance are right.
LEMMA HonestJudgement ==
    ASSUME NEW e \in Evidence, ResultInv, TypeOK, pc = "process", signalAt = <<>>,
           report.readable, evidence' = e, UNCHANGED <<report, parsed, data>>,
           result'.status = Judged(e), HonestAnswer', KnowledgeIsRight'
    PROVE  Paid'
<1>1. e.truth \in Truths
  BY DEF Evidence
<1>2. /\ ~SpecificsDeny(e.truth)
      /\ e.solubility # <<>> => e.solubility[1].says # Opposite(e.truth)
      /\ e.verdict = "wrong" => report.stopped # "none"
  BY DEF KnowledgeIsRight, SpecificsDeny, Opposite, Synonyms
<1>3. Verified(e, e.truth) = "SUCCESS"
  BY <1>2 DEF Verified, VerifyViaSolubilityFile
<1>4. CASE e.words = {"s UNKNOWN"}
  <2>1. Judged(e) = "TIMEOUT"
    BY <1>4 DEF Judged, Found
  <2> QED
    BY <1>4, <2>1 DEF Paid
<1>5. CASE e.words = {"UNSATISFIABLE"} /\ e.truth = "UNSAT"
  <2>1. Judged(e) = "SUCCESS"
    BY <1>3, <1>5 DEF Judged, Found
  <2> QED
    BY <2>1 DEF Paid
<1>6. CASE e.words = {"SATISFIABLE"} /\ e.truth = "SAT"
  <2>1. Judged(e) = Checked(e)
    BY <1>6 DEF Judged, Found
  <2>2. e.verdict = "wrong" => data.status = "TIMEOUT"
    BY <1>2 DEF ResultInv, StatusReported
  <2>3. \/ Checked(e) = "SUCCESS"
        \/ /\ Checked(e) = "TIMEOUT" /\ "--sat-checker" \in e.files
           /\ ~e.model \/ e.verdict = "wrong"
    BY <1>3, <1>6, <2>2 DEF Checked
  <2> QED
    BY <1>6, <2>1, <2>3 DEF Paid, Incomplete
<1> QED
  BY <1>1, <1>4, <1>5, <1>6 DEF HonestAnswer, Truths

LEMMA HonestStep ==
    TypeOK /\ ReportInv /\ ResultInv /\ EvidenceInv /\ HonestInv
    /\ [SatNext]_<<vars, satVars>> => HonestInv'
<1> SUFFICES ASSUME TypeOK, ReportInv, ResultInv, EvidenceInv, HonestInv,
                    [SatNext]_<<vars, satVars>>,
                    signalAt' = <<>>, result' # NoResult, report'.readable,
                    HonestAnswer', KnowledgeIsRight'
             PROVE  Paid'
  BY DEF HonestInv
<1>0. signalAt = <<>> /\ (report' = report \/ TargetStep)
  <2>1. StatusMoves
    BY SatStep, MainMoves
  <2> QED
    BY <2>1 DEF StatusMoves
<1>1. CASE SatProcessResults
  <2>1. PICK e \in Evidence :
             /\ ProcessResults /\ evidence' = e
             /\ result' = [NoResult EXCEPT !.status = Judged(e), !.misc = TRUE]
    BY <1>1 DEF SatProcessResults
  <2>2. pc = "process" /\ UNCHANGED <<report, parsed, data>>
    BY <1>1, <2>1 DEF ProcessResults, Step, targetVars, SatProcessResults
  <2>3. result'.status = Judged(e)
    BY <2>1 DEF NoResult
  <2> QED
    BY <1>0, <2>1, <2>2, <2>3, HonestJudgement
<1>2. CASE SatFails
  <2>1. pc = "process" /\ result' = result
    BY <1>2 DEF SatFails, Traceback, Step
  <2> QED
    BY <2>1 DEF EvidenceInv, UntilResult
<1>3. CASE Elsewhere
  <2>1. UNCHANGED <<parsed, evidence, result>>
    BY <1>3 DEF Elsewhere, satVars
  <2>2. report' = report
    BY <1>0, <2>1, TargetKeeps DEF ReportInv
  <2> QED
    BY <1>0, <2>1, <2>2 DEF HonestInv, Paid, Incomplete, HonestAnswer, KnowledgeIsRight,
           SpecificsDeny
<1> QED
  BY <1>1, <1>2, <1>3, SatCases
-----------------------------------------------------------------------------
(***************************************************************************)
(* The theorems.                                                           *)
(***************************************************************************)
SatInv == WrapperInv /\ EvidenceInv /\ LieInv /\ HonestInv

THEOREM SatInvariant == SatSpec => []SatInv
<1>1. SatInit => EvidenceInv /\ LieInv /\ HonestInv
  <2> SUFFICES ASSUME SatInit PROVE EvidenceInv /\ LieInv /\ HonestInv
    OBVIOUS
  <2>1. /\ pc = "start" /\ data.status = "CRASHED" /\ result = NoResult
        /\ evidence = NoEvidence
    BY DEF SatInit, Init
  <2> QED
    BY <2>1 DEF EvidenceInv, LieInv, HonestInv, UntilResult, UntilReport, NoResult,
         NoEvidence
<1>2. /\ WrapperInv /\ EvidenceInv /\ LieInv /\ HonestInv
      /\ [SatNext]_<<vars, satVars>>
      => (EvidenceInv /\ LieInv /\ HonestInv)'
  BY EvidenceStep, HonestStep DEF WrapperInv
<1> QED
  BY <1>1, <1>2, SatImplements, WrapperInvariant, PTL DEF SatSpec, SatInv

\* The first line about the instance is the first line of all, if no line of a
\* longer name stands before it.
LEMMA OwnLineCounts ==
    ASSUME evidence.solubility \in SolubilityFiles \cup {<<>>}, ~LongerNameFirst,
           NEW claim, FileDenies(claim)
    PROVE  evidence.solubility # <<>> /\ evidence.solubility[1].says = Opposite(claim)
<1>1. PICK k \in DOMAIN evidence.solubility :
          /\ evidence.solubility[k].about = "it"
          /\ evidence.solubility[k].says = Opposite(claim)
          /\ \A n \in 1..k - 1 : evidence.solubility[n].about # "it"
  BY DEF FileDenies
<1>2. evidence.solubility # <<>> /\ evidence.solubility \in Seq([about : STRING, says : STRING])
  <2>1. DOMAIN <<>> = {}
    OBVIOUS
  <2>2. evidence.solubility # <<>>
    BY <1>1, <2>1
  <2> QED
    BY <2>2, SatAssumption
<1>3. evidence.solubility[1].about = "it"
  BY <1>2 DEF LongerNameFirst
<1>4. k \in Nat \ {0}
  BY <1>1, <1>2
<1>5. k = 1
  BY <1>1, <1>3, <1>4
<1> QED
  BY <1>1, <1>2, <1>5

\* process_results() (satwrapper.py) lets no answer pass as a success that the
\* specifics, the checker or, unless a line of a longer name stands before it, the
\* line of the instance in the solubility file deny, whatever the signals.
THEOREM NoLiePasses == SatSpec => []LieNeverPasses
<1>1. SatInv => LieNeverPasses
  <2> SUFFICES ASSUME SatInv, NEW claim \in Claims(evidence), Denied(claim)
               PROVE  data.status # "SUCCESS"
    BY DEF LieNeverPasses
  <2>1. Refuted(evidence, claim)
    BY OwnLineCounts DEF SatInv, EvidenceInv, Denied, Refuted
  <2> QED
    BY <2>1 DEF SatInv, LieInv
<1> QED
  BY <1>1, SatInvariant, PTL

\* A right answer is a success or, if the solver gave up or its model is
\* incomplete, a timeout, when what process_results() knows is right.
THEOREM HonestIsPaid == SatSpec => []HonestSolverSucceeds
<1>1. SatInv => HonestSolverSucceeds
  <2> SUFFICES ASSUME SatInv, pc = "ended", printed, signalAt = <<>>, report.readable,
                      HonestAnswer, KnowledgeIsRight
               PROVE  \/ data.status = "SUCCESS"
                      \/ /\ data.status = "TIMEOUT"
                         /\ \/ evidence.words = {"s UNKNOWN"}
                            \/ evidence.truth = "SAT" /\ Incomplete
    BY DEF HonestSolverSucceeds
  <2>0. evidence.words # {}
    BY DEF HonestAnswer
  <2>1. evidence # NoEvidence
    BY <2>0 DEF NoEvidence
  <2>2. result # NoResult
    BY <2>1 DEF SatInv, EvidenceInv
  <2>3. Paid
    BY <2>2 DEF SatInv, HonestInv
  <2>4. data.status = StatusGiven
    BY <2>2 DEF SatInv, WrapperInv, ResultInv
  <2> QED
    BY <2>3, <2>4 DEF Paid, StatusGiven
<1> QED
  BY <1>1, SatInvariant, PTL
-----------------------------------------------------------------------------
(***************************************************************************)
(* The cutoff time.                                                        *)
(***************************************************************************)
LEMMA DivideUnit ==
    ASSUME NEW n \in Nat
    PROVE  /\ n \div Unit \in Nat
           /\ (n \div Unit) * Unit <= n /\ n < (n \div Unit) * Unit + Unit
<1>1. /\ n = Unit * (n \div Unit) + (n % Unit)
      /\ n % Unit \in 0 .. Unit - 1 /\ n \div Unit \in Int
  BY ParseAssumption
<1>2. n \div Unit >= 0
  BY <1>1, ParseAssumption
<1> QED
  BY <1>1, <1>2, ParseAssumption

\* int(c + 1 - 1e-10) is not less than c, and exceeds it by less than a second,
\* unless it exceeds what runsolver can be told.
LEMMA RoundedUp ==
    ASSUME NEW asked \in Nat
    PROVE  LET slack == IF asked < Exact * Unit THEN 1 ELSE 2
           IN  \/ Rounded(asked) = MaxInt /\ MaxInt * Unit <= asked + Unit
               \/ /\ Rounded(asked) * Unit >= asked
                  /\ Rounded(asked) * Unit < asked + slack * Unit
<1> USE ParseAssumption
<1> DEFINE more == IF asked < Exact * Unit THEN Unit - 1 ELSE Unit
           up == (asked + more) \div Unit
<1>1. more \in Nat /\ asked + more \in Nat
  OBVIOUS
<1>2. Truncated(asked + more) = up
  BY <1>1 DEF Truncated
<1>3. Rounded(asked) = IF up > MaxInt THEN MaxInt ELSE up
  BY <1>2 DEF Rounded
<1>4. up \in Nat /\ up * Unit <= asked + more /\ asked + more < up * Unit + Unit
  BY <1>1, DivideUnit
<1>5. CASE up > MaxInt
  <2>1. MaxInt * Unit <= up * Unit
    BY <1>4, <1>5
  <2> QED
    BY <1>1, <1>3, <1>4, <1>5, <2>1
<1>6. CASE ~(up > MaxInt)
  <2> HIDE DEF up
  <2> QED
    BY <1>1, <1>3, <1>4, <1>6
<1> QED
  BY <1>5, <1>6

TimeInv ==
    /\ line \in CommandLines /\ Accepted(line) /\ parsed = ParsedLine(line)
    /\ call.cutoff = parsed.cutoff

LEMMA TimeHolds == SatSpec => []TimeInv
<1>1. SatInit => TimeInv
  BY DEF SatInit, TimeInv
<1>2. WrapperInv /\ TimeInv /\ [SatNext]_<<vars, satVars>> => TimeInv'
  <2> SUFFICES ASSUME WrapperInv, TimeInv, [SatNext]_<<vars, satVars>> PROVE TimeInv'
    OBVIOUS
  <2>1. line' = line /\ parsed' = parsed
    BY DEF SatNext, SatProcessResults, SatFails, satVars
  <2>2. call' = call
    BY SatStep, MainMoves DEF WrapperInv, StatusMoves
  <2> QED
    BY <2>1, <2>2 DEF TimeInv
<1> QED
  BY <1>1, <1>2, SatImplements, WrapperInvariant, PTL DEF SatSpec

\* If no time is asked for, none is told to runsolver.
LEMMA NoTimeIsAsked == Rounded(0) = 0
<1> USE ParseAssumption
<1>1. 0 < Exact * Unit
  OBVIOUS
<1>2. Truncated(0 + (Unit - 1)) = (Unit - 1) \div Unit
  BY DEF Truncated
<1> DEFINE up == (Unit - 1) \div Unit
<1>3. up \in Nat /\ up * Unit <= Unit - 1
  BY Unit - 1 \in Nat, DivideUnit
<1>4. up = 0
  <2> HIDE DEF up
  <2>1. up >= 1 => up * Unit >= Unit
    BY <1>3
  <2> QED
    BY <1>3, <2>1
<1>5. Rounded(0) = IF up > MaxInt THEN MaxInt ELSE up
  BY <1>1, <1>2 DEF Rounded
<1> HIDE DEF up
<1> QED
  BY <1>4, <1>5

\* parse() (argparser/parse.py) and runsolver give the target the time that was
\* asked for and less than a second more, two for the longest, unless it is more
\* than runsolver can be told; if none was asked for, 30 s.
THEOREM TargetTime == SatSpec => []TargetGetsItsTime
<1>1. TimeInv => TargetGetsItsTime
  <2> DEFINE asked == parsed.asked
             slack == IF asked < Exact * Unit THEN 1 ELSE 2
             given == StopsAfter(call.cutoff)
  <2> SUFFICES ASSUME TimeInv, asked # NoNumber
               PROVE  /\ asked > 0 =>
                            \/ call.cutoff = MaxInt /\ MaxInt * Unit <= asked + Unit
                            \/ /\ given * Unit >= asked
                               /\ given * Unit < asked + slack * Unit
                      /\ asked = 0 => given = KernelMargin
    BY DEF TargetGetsItsTime
  <2>1. asked \in Int
    BY SatAssumption DEF TimeInv
  <2>2. call.cutoff = Rounded(asked)
    BY DEF TimeInv, ParsedLine, ParseConfigNew, ParseConfigOld
  <2>3. CASE asked > 0
    <3>1. \/ call.cutoff = MaxInt /\ MaxInt * Unit <= asked + Unit
          \/ /\ call.cutoff * Unit >= asked
             /\ call.cutoff * Unit < asked + slack * Unit
      BY <2>1, <2>2, <2>3, RoundedUp
    <3>2. ASSUME call.cutoff * Unit >= asked PROVE given = call.cutoff
      <4>1. call.cutoff # 0
        BY <2>1, <2>3, <3>2, ParseAssumption
      <4> QED
        BY <4>1 DEF StopsAfter
    <3> HIDE DEF asked, slack, given
    <3> QED
      BY <2>3, <3>1, <3>2
  <2>4. CASE asked = 0
    <3>1. call.cutoff = 0
      BY <2>2, <2>4, NoTimeIsAsked
    <3> QED
      BY <2>4, <3>1 DEF StopsAfter, KernelMargin
  <2> HIDE DEF asked, slack, given
  <2> QED
    BY <2>1, <2>3, <2>4
<1> QED
  BY <1>1, TimeHolds, PTL
-----------------------------------------------------------------------------
(***************************************************************************)
(* The parameters.  parse_known_args() as a state after each word.         *)
(***************************************************************************)
StateFields == {"pending", "args", "flag", "rest", "bad"}

\* A word that argparse consumes by itself: the flag, or an option with its value.
ByItself(word, options) == word.text = Flag \/ word.before \in options

\* What one word does to the part of the state that the parameters depend on.
Refused(s) == s.bad = TRUE
IsLeft(s, word, t) == t.pending = "" /\ t.rest = Append(s.rest, word)
TakenAs(s, word, options, t) ==
    /\ DOMAIN t = StateFields
    /\ Refused(s) => Refused(t)
    /\ s.pending # "" => /\ t.pending = "" /\ t.rest = s.rest
                         /\ Refused(t) \/ ~word.dash
    /\ s.pending = "" =>
          \/ word.text \in options /\ t.pending = word.text /\ t.rest = s.rest
          \/ IsLeft(s, word, t)
          \/ ByItself(word, options) /\ t.pending = "" /\ t.rest = s.rest
          \/ Refused(t)

\* Storing a value keeps what is left, and makes no bad line a good one.
LEMMA StoredKeeps ==
    ASSUME NEW s, DOMAIN s = StateFields, NEW option, NEW value
    PROVE  /\ DOMAIN Stored(s, option, value) = StateFields
           /\ Stored(s, option, value).pending = "" /\ Stored(s, option, value).rest = s.rest
           /\ Refused(s) => Refused(Stored(s, option, value))
<1> USE DEF StateFields
<1>1. /\ DOMAIN Stored(s, option, value) = StateFields
      /\ Stored(s, option, value).pending = "" /\ Stored(s, option, value).rest = s.rest
      /\ Stored(s, option, value).bad =
            (s.bad \/ (option \in IntOptions /\ value.number = NoNumber))
  BY DEF Stored
<1>2. Refused(s) => Refused(Stored(s, option, value))
  BY <1>1, Zenon DEF Refused
<1> QED
  BY <1>1, <1>2

LEMMA TakenWord ==
    ASSUME NEW s, DOMAIN s = StateFields, NEW word, NEW options
    PROVE  TakenAs(s, word, options, Taken(s, word, options))
<1> DEFINE t == Taken(s, word, options)
<1>1. CASE s.pending # ""
  <2> DEFINE v == Stored(s, s.pending, word)
  <2>1. t = [v EXCEPT !.bad = @ \/ word.dash]
    BY <1>1 DEF Taken
  <2>2. /\ DOMAIN v = StateFields /\ v.pending = "" /\ v.rest = s.rest
        /\ Refused(s) => Refused(v)
    BY StoredKeeps
  <2> HIDE DEF t, v
  <2>3. DOMAIN t = StateFields /\ t.pending = "" /\ t.rest = s.rest
    BY <2>1, <2>2 DEF StateFields
  <2>4. t.bad = (v.bad \/ word.dash)
    BY <2>1, <2>2 DEF StateFields
  <2>5. (Refused(s) => Refused(t)) /\ (Refused(t) \/ ~word.dash)
    BY <2>2, <2>4, Zenon DEF Refused
  <2>6. TakenAs(s, word, options, t)
    BY <1>1, <2>3, <2>5 DEF TakenAs
  <2> QED
    BY <2>6 DEF t
<1>2. CASE s.pending = ""
  <2>1. \/ t = [s EXCEPT !.rest = Append(@, word)]
        \/ word.text = Flag /\ t = [s EXCEPT !.flag = TRUE]
        \/ word.text \in options /\ t = [s EXCEPT !.pending = word.text]
        \/ word.before \in options /\ t = Stored(s, word.before, word.after)
        \/ t = [s EXCEPT !.bad = TRUE]
    BY <1>2, Zenon DEF Taken
  <2> HIDE DEF t
  <2>2. ASSUME t = [s EXCEPT !.rest = Append(@, word)]
       PROVE  TakenAs(s, word, options, t)
    <3>1. DOMAIN t = StateFields /\ IsLeft(s, word, t) /\ t.bad = s.bad
      BY <1>2, <2>2 DEF StateFields, IsLeft
    <3>2. Refused(s) => Refused(t)
      BY <3>1, Zenon DEF Refused
    <3> QED
      BY <1>2, <3>1, <3>2 DEF TakenAs
  <2>3. ASSUME word.text = Flag /\ t = [s EXCEPT !.flag = TRUE]
       PROVE  TakenAs(s, word, options, t)
    <3>1. DOMAIN t = StateFields /\ t.pending = "" /\ t.rest = s.rest /\ t.bad = s.bad
      BY <1>2, <2>3 DEF StateFields
    <3>2. Refused(s) => Refused(t)
      BY <3>1, Zenon DEF Refused
    <3> QED
      BY <1>2, <2>3, <3>1, <3>2 DEF TakenAs, ByItself
  <2>4. ASSUME word.text \in options /\ t = [s EXCEPT !.pending = word.text]
       PROVE  TakenAs(s, word, options, t)
    <3>1. DOMAIN t = StateFields /\ t.pending = word.text /\ t.rest = s.rest /\ t.bad = s.bad
      BY <1>2, <2>4 DEF StateFields
    <3>2. Refused(s) => Refused(t)
      BY <3>1, Zenon DEF Refused
    <3> QED
      BY <1>2, <2>4, <3>1, <3>2 DEF TakenAs
  <2>5. ASSUME word.before \in options /\ t = Stored(s, word.before, word.after)
       PROVE  TakenAs(s, word, options, t)
    BY <1>2, <2>5, StoredKeeps DEF TakenAs, ByItself
  <2>6. ASSUME t = [s EXCEPT !.bad = TRUE]
       PROVE  TakenAs(s, word, options, t)
    <3>1. DOMAIN t = StateFields /\ Refused(t)
      BY <2>6 DEF StateFields, Refused
    <3> QED
      BY <1>2, <3>1 DEF TakenAs
  <2>7. TakenAs(s, word, options, t)
    BY <2>1, <2>2, <2>3, <2>4, <2>5, <2>6
  <2> QED
    BY <2>7 DEF t
<1> QED
  BY <1>1, <1>2

\* f[n] is the state after n words.
Parses(f, words, m) ==
    f = [n \in 0..m |-> IF n = 0 THEN NothingKnown
                        ELSE Taken(f[n - 1], words[n], OptionsOf(words))]

LEMMA ParseGrows ==
    ASSUME NEW words, NEW m \in Nat, NEW f, Parses(f, words, m)
    PROVE  \E g : Parses(g, words, m + 1)
<1> DEFINE body(h, n) == IF n = 0 THEN NothingKnown
                         ELSE Taken(h[n - 1], words[n], OptionsOf(words))
           g == [n \in 0..m + 1 |-> body(f, n)]
<1>1. f = [n \in 0..m |-> body(f, n)]
  BY DEF Parses
<1>2. ASSUME NEW n \in 0..m PROVE f[n] = body(f, n)
  <2> HIDE DEF body
  <2> QED
    BY <1>1
<1>3. ASSUME NEW n \in 0..m + 1 PROVE g[n] = body(f, n)
  OBVIOUS
<1>4. ASSUME NEW n \in 0..m + 1 PROVE g[n] = body(g, n)
  <2>1. CASE n = 0
    BY <1>3, <2>1
  <2>2. CASE n # 0
    <3>1. n - 1 \in 0..m /\ n - 1 \in 0..m + 1
      BY <2>2
    <3> HIDE DEF g
    <3>2. g[n - 1] = f[n - 1]
      BY <1>2, <1>3, <3>1
    <3> QED
      BY <1>3, <2>2, <3>2
  <2> QED
    BY <2>1, <2>2
<1>5. g = [n \in 0..m + 1 |-> body(g, n)]
  <2>1. g = [n \in 0..m + 1 |-> g[n]]
    OBVIOUS
  <2> HIDE DEF g, body
  <2> QED
    BY <1>4, <2>1
<1>6. Parses(g, words, m + 1)
  BY <1>5 DEF Parses
<1> QED
  BY <1>6

LEMMA ParseExists ==
    ASSUME NEW words, NEW m \in Nat
    PROVE  \E f : Parses(f, words, m)
<1> DEFINE S == {n \in 0..m : \E f : Parses(f, words, n)}
<1>1. 0 \in S
  <2>1. Parses([n \in 0..0 |-> NothingKnown], words, 0)
    BY DEF Parses
  <2> QED
    BY <2>1
<1>2. ASSUME NEW n \in 1..m, n - 1 \in S PROVE n \in S
  <2>1. PICK f : Parses(f, words, n - 1)
    BY <1>2
  <2>2. n - 1 \in Nat /\ (n - 1) + 1 = n
    OBVIOUS
  <2> QED
    BY <2>1, <2>2, ParseGrows
<1> HIDE DEF S
<1>3. m \in S
  BY <1>1, <1>2, Induction
<1> QED
  BY <1>3 DEF S

\* From here on only the steps matter, not how a word is taken.
ParsesBySteps(f, words) ==
    /\ DOMAIN f[0] = StateFields /\ f[0].pending = "" /\ f[0].rest = <<>>
    /\ \A n \in 1..Len(words) :
          DOMAIN f[n - 1] = StateFields =>
              TakenAs(f[n - 1], words[n], OptionsOf(words), f[n])

LEMMA KnownIs ==
    ASSUME NEW T, NEW words \in Seq(T)
    PROVE  \E f : ParsesBySteps(f, words) /\ Known(words) = f[Len(words)]
<1> DEFINE body(h, n) == IF n = 0 THEN NothingKnown
                         ELSE Taken(h[n - 1], words[n], OptionsOf(words))
           state == CHOOSE f : f = [n \in 0..Len(words) |-> body(f, n)]
<1>1. Len(words) \in Nat
  OBVIOUS
<1>2. \E f : f = [n \in 0..Len(words) |-> body(f, n)]
  BY <1>1, ParseExists DEF Parses
<1>3. state = [n \in 0..Len(words) |-> body(state, n)]
  <2> HIDE DEF body
  <2> QED
    BY <1>2, Zenon
<1>4. Known(words) = state[Len(words)]
  BY Zenon DEF Known
<1> HIDE DEF state
<1>5. ASSUME NEW n \in 0..Len(words) PROVE state[n] = body(state, n)
  <2> HIDE DEF body
  <2> QED
    BY <1>3
<1>6. state[0] = NothingKnown
  BY <1>1, <1>5
<1>7. DOMAIN state[0] = StateFields /\ state[0].pending = "" /\ state[0].rest = <<>>
  <2>1. DOMAIN NothingKnown = StateFields
    BY DEF NothingKnown, StateFields
  <2>2. NothingKnown.pending = "" /\ NothingKnown.rest = <<>>
    BY DEF NothingKnown
  <2> QED
    BY <1>6, <2>1, <2>2
<1>8. ASSUME NEW n \in 1..Len(words), DOMAIN state[n - 1] = StateFields
      PROVE  TakenAs(state[n - 1], words[n], OptionsOf(words), state[n])
  <2>1. state[n] = Taken(state[n - 1], words[n], OptionsOf(words))
    BY <1>1, <1>5
  <2> QED
    BY <1>8, <2>1, TakenWord
<1>9. ParsesBySteps(state, words)
  BY <1>7, <1>8 DEF ParsesBySteps
<1> QED
  BY <1>4, <1>9

\* On an accepted line no step was bad: no option took a word with a dash.
WordTaken(f, words, n) ==
    /\ f[n - 1].pending # "" =>
          /\ f[n].pending = "" /\ f[n].rest = f[n - 1].rest /\ ~words[n].dash
    /\ f[n - 1].pending = "" =>
          \/ /\ words[n].text \in OptionsOf(words)
             /\ f[n].pending = words[n].text /\ f[n].rest = f[n - 1].rest
          \/ IsLeft(f[n - 1], words[n], f[n])
          \/ ByItself(words[n], OptionsOf(words))
             /\ f[n].pending = "" /\ f[n].rest = f[n - 1].rest
WellParsed(f, words) ==
    /\ f[0].pending = "" /\ f[0].rest = <<>>
    /\ \A n \in 1..Len(words) : WordTaken(f, words, n)

LEMMA NeverBad ==
    ASSUME NEW T, NEW words \in Seq(T), NEW f, ParsesBySteps(f, words),
           ~Refused(f[Len(words)])
    PROVE  WellParsed(f, words)
<1> DEFINE S == {n \in 0..Len(words) : DOMAIN f[n] = StateFields}
           G == {n \in 0..Len(words) : ~Refused(f[Len(words) - n])}
<1>1. Len(words) \in Nat
  OBVIOUS
<1>2. 0..Len(words) \subseteq S
  <2>1. 0 \in S
    <3>1. DOMAIN f[0] = StateFields
      BY Zenon DEF ParsesBySteps
    <3> QED
      BY <1>1, <3>1
  <2>2. ASSUME NEW n \in 1..Len(words), n - 1 \in S PROVE n \in S
    <3>1. TakenAs(f[n - 1], words[n], OptionsOf(words), f[n])
      BY <2>2 DEF ParsesBySteps
    <3>2. DOMAIN f[n] = StateFields
      BY <3>1, Zenon DEF TakenAs
    <3> QED
      BY <1>1, <3>2
  <2> HIDE DEF S
  <2> QED
    BY <1>1, <2>1, <2>2, Induction
<1>3. ASSUME NEW n \in 1..Len(words)
      PROVE  TakenAs(f[n - 1], words[n], OptionsOf(words), f[n])
  <2>1. n - 1 \in S
    BY <1>1, <1>2
  <2> QED
    BY <2>1 DEF ParsesBySteps
<1>4. 0..Len(words) \subseteq G
  <2>1. 0 \in G
    BY <1>1
  <2>2. ASSUME NEW n \in 1..Len(words), n - 1 \in G PROVE n \in G
    <3>1. Len(words) - (n - 1) \in 1..Len(words) /\ (Len(words) - (n - 1)) - 1 = Len(words) - n
      BY <1>1
    <3>2. TakenAs(f[Len(words) - n], words[Len(words) - (n - 1)], OptionsOf(words),
                  f[Len(words) - (n - 1)])
      BY <1>3, <3>1
    <3>3. ~Refused(f[Len(words) - (n - 1)])
      BY <2>2
    <3>4. ~Refused(f[Len(words) - n])
      BY <3>2, <3>3, Zenon DEF TakenAs
    <3> QED
      BY <1>1, <3>4
  <2> HIDE DEF G
  <2> QED
    BY <1>1, <2>1, <2>2, Induction
<1>5. ASSUME NEW n \in 1..Len(words) PROVE ~Refused(f[n])
  <2>1. Len(words) - n \in G /\ Len(words) - (Len(words) - n) = n
    <3>1. Len(words) - n \in 0..Len(words) /\ Len(words) - (Len(words) - n) = n
      BY <1>1
    <3> HIDE DEF G
    <3> QED
      BY <1>4, <3>1
  <2> QED
    BY <2>1
<1>6. ASSUME NEW n \in 1..Len(words) PROVE WordTaken(f, words, n)
  BY <1>3, <1>5 DEF TakenAs, WordTaken
<1> QED
  BY <1>6 DEF ParsesBySteps, WellParsed

\* The first "--config" is the first in what is left, too.
IsConfigAt(words, k) ==
    /\ k \in DOMAIN words /\ words[k].text = "--config"
    /\ \A n \in 1..k - 1 : words[n].text # "--config"

\* What argparse knows of "--config": no option, but a word that looks like one.
Unknown(word) == word.dash /\ word.before = ""

LEMMA NoOptionIsConfig ==
    ASSUME NEW words
    PROVE  "--config" \notin OptionsOf(words) /\ "--config" # Flag /\ "" \notin OptionsOf(words)
BY DEF OptionsOf, GeneralOptions, ExtendedOptions, Flag

LEMMA ConfigIsLeft ==
    ASSUME NEW T, NEW words \in Seq(T), NEW f, WellParsed(f, words),
           NEW start, IsConfigAt(words, start), Unknown(words[start])
    PROVE  /\ f[start].pending = "" /\ f[start].rest \in Seq(T)
           /\ IsConfigAt(f[start].rest, Len(f[start].rest))
<1> DEFINE NoConfig(q) == q \in Seq(T) /\ \A k \in 1..Len(q) : q[k].text # "--config"
           S == {n \in 0..start - 1 : NoConfig(f[n].rest)}
<1>1. start \in 1..Len(words) /\ start - 1 \in Nat /\ Len(words) \in Nat
  BY DEF IsConfigAt
<1>2. NoConfig(<<>>)
  OBVIOUS
<1>3. ASSUME NEW q, NoConfig(q), NEW x \in T, x.text # "--config"
      PROVE  NoConfig(Append(q, x))
  BY <1>3
<1> HIDE DEF NoConfig
<1>4. 0..start - 1 \subseteq S
  <2>1. 0 \in S
    <3>1. f[0].rest = <<>>
      BY Zenon DEF WellParsed
    <3> QED
      BY <1>1, <1>2, <3>1
  <2>2. ASSUME NEW n \in 1..start - 1, n - 1 \in S PROVE n \in S
    <3>1. n \in 1..Len(words) /\ words[n] \in T /\ words[n].text # "--config"
      BY <1>1 DEF IsConfigAt
    <3>2. WordTaken(f, words, n)
      BY <3>1 DEF WellParsed
    <3>3. f[n].rest = f[n - 1].rest \/ f[n].rest = Append(f[n - 1].rest, words[n])
      BY <3>2 DEF WordTaken, IsLeft
    <3>4. NoConfig(f[n].rest)
      BY <1>3, <2>2, <3>1, <3>3
    <3> QED
      BY <1>1, <3>4
  <2> HIDE DEF S
  <2> QED
    BY <1>1, <2>1, <2>2, Induction
<1> DEFINE q == f[start - 1].rest
<1>5. q \in Seq(T) /\ \A k \in 1..Len(q) : q[k].text # "--config"
  <2>1. start - 1 \in S
    BY <1>1, <1>4
  <2> QED
    BY <2>1 DEF NoConfig
<1>6. WordTaken(f, words, start) /\ words[start].text = "--config" /\ words[start] \in T
  <2>1. WordTaken(f, words, start)
    BY <1>1, Zenon DEF WellParsed
  <2>2. words[start].text = "--config"
    BY Zenon DEF IsConfigAt
  <2> QED
    BY <1>1, <2>1, <2>2
<1>7. f[start].pending = "" /\ f[start].rest = Append(q, words[start])
  BY <1>6, NoOptionIsConfig, Zenon DEF WordTaken, IsLeft, ByItself, Unknown
<1> HIDE DEF q
<1>8. /\ Append(q, words[start]) \in Seq(T)
      /\ IsConfigAt(Append(q, words[start]), Len(Append(q, words[start])))
  BY <1>5, <1>6 DEF IsConfigAt
<1> QED
  BY <1>7, <1>8

\* Of e pairs after place c of q, the last one of that name has that value.
LastPair(q, c, e, name, value) ==
    \E d \in 1..e :
        /\ q[c + 2 * d - 1].text = name /\ q[c + 2 * d].bare = value
        /\ \A k \in 1..e : q[c + 2 * k - 1].text = name => k <= d

LEMMA PairComes ==
    ASSUME NEW T, NEW q \in Seq(T), NEW x \in T, NEW y \in T, NEW c \in Nat, NEW e \in Nat,
           Len(q) = c + 2 * e
    PROVE  LastPair(Append(Append(q, x), y), c, e + 1, x.text, y.bare)
<1> DEFINE r == Append(Append(q, x), y)
<1>1. r[c + 2 * (e + 1) - 1] = x /\ r[c + 2 * (e + 1)] = y
  OBVIOUS
<1>2. e + 1 \in 1..e + 1 /\ \A k \in 1..e + 1 : k <= e + 1
  OBVIOUS
<1> QED
  BY <1>1, <1>2 DEF LastPair

LEMMA PairStays ==
    ASSUME NEW T, NEW q \in Seq(T), NEW x \in T, NEW y \in T, NEW c \in Nat, NEW e \in Nat,
           Len(q) = c + 2 * e, NEW name, NEW value, LastPair(q, c, e, name, value),
           x.text # name
    PROVE  LastPair(Append(Append(q, x), y), c, e + 1, name, value)
<1> DEFINE r == Append(Append(q, x), y)
<1>1. \A k \in 1..Len(q) : r[k] = q[k]
  OBVIOUS
<1>2. r[c + 2 * (e + 1) - 1] = x
  OBVIOUS
<1> HIDE DEF r
<1>3. PICK d \in 1..e : /\ q[c + 2 * d - 1].text = name /\ q[c + 2 * d].bare = value
                        /\ \A k \in 1..e : q[c + 2 * k - 1].text = name => k <= d
  BY DEF LastPair
<1>4. \A k \in 1..e : c + 2 * k - 1 \in 1..Len(q) /\ c + 2 * k \in 1..Len(q)
  OBVIOUS
<1>5. r[c + 2 * d - 1].text = name /\ r[c + 2 * d].bare = value /\ d \in 1..e + 1
  BY <1>1, <1>3, <1>4
<1>6. ASSUME NEW k \in 1..e + 1, r[c + 2 * k - 1].text = name PROVE k <= d
  <2>1. k # e + 1
    BY <1>2, <1>6
  <2>2. k \in 1..e
    BY <2>1
  <2>3. r[c + 2 * k - 1] = q[c + 2 * k - 1]
    BY <1>1, <1>4, <2>2
  <2> QED
    BY <1>3, <1>6, <2>2, <2>3
<1> QED
  BY <1>5, <1>6 DEF LastPair, r

\* A last word alone changes nothing.
LEMMA PairLonger ==
    ASSUME NEW T, NEW q \in Seq(T), NEW x \in T, NEW c \in Nat, NEW e \in Nat,
           Len(q) = c + 2 * e, NEW name, NEW value, LastPair(q, c, e, name, value)
    PROVE  LastPair(Append(q, x), c, e, name, value)
<1> DEFINE r == Append(q, x)
<1>1. \A k \in 1..Len(q) : r[k] = q[k]
  OBVIOUS
<1> HIDE DEF r
<1>2. \A k \in 1..e : r[c + 2 * k - 1] = q[c + 2 * k - 1] /\ r[c + 2 * k] = q[c + 2 * k]
  <2>1. \A k \in 1..e : c + 2 * k - 1 \in 1..Len(q) /\ c + 2 * k \in 1..Len(q)
    OBVIOUS
  <2> QED
    BY <1>1, <2>1
<1>3. LastPair(r, c, e, name, value)
  BY <1>2 DEF LastPair
<1> QED
  BY <1>3 DEF r

LEMMA OddPlaces ==
    /\ \A n \in Nat : n % 2 = 1 => \E k \in Nat : n = 2 * k - 1
    /\ \A k \in Nat \ {0} : 2 * k - 1 \in Nat /\ (2 * k - 1) % 2 = 1
<1>1. ASSUME NEW n \in Nat, n % 2 = 1 PROVE \E k \in Nat : n = 2 * k - 1
  <2>1. n \div 2 + 1 \in Nat /\ n = 2 * (n \div 2 + 1) - 1
    BY <1>1
  <2> QED
    BY <2>1
<1> QED
  BY <1>1

\* zip() of the even and the odd places finds the pairs, the last one counts.
LEMMA PairsHasLast ==
    ASSUME NEW T, NEW q \in Seq(T), NEW c \in Nat, NEW e \in Nat,
           Len(q) \in c + 2 * e..c + 2 * e + 1,
           NEW name, NEW value, LastPair(q, c, e, name, value)
    PROVE  LET pairs == Pairs(SubSeq(q, c + 1, Len(q)))
           IN  name \in DOMAIN pairs /\ pairs[name] = value
<1> DEFINE rest == SubSeq(q, c + 1, Len(q))
           Names == {n \in DOMAIN rest : n % 2 = 1 /\ n < Len(rest)}
           Latest(k, t) == /\ rest[k].text = t
                           /\ \A n \in Names : rest[n].text = t => n <= k
<1>1. PICK d \in 1..e : /\ q[c + 2 * d - 1].text = name /\ q[c + 2 * d].bare = value
                        /\ \A k \in 1..e : q[c + 2 * k - 1].text = name => k <= d
  BY DEF LastPair
<1>2. /\ Len(rest) = Len(q) - c /\ DOMAIN rest = 1..Len(rest) /\ Len(rest) \in Nat
      /\ \A k \in 1..Len(rest) : rest[k] = q[c + k]
  <2>1. Len(q) \in Nat /\ c + 1 \in 1..Len(q) + 1
    OBVIOUS
  <2> QED
    BY <2>1, SMTT(30)
<1>3. ASSUME NEW k \in 1..e
      PROVE  2 * k - 1 \in Names /\ rest[2 * k - 1] = q[c + 2 * k - 1]
             /\ rest[2 * k] = q[c + 2 * k]
  <2>1. 2 * k - 1 \in 1..Len(rest) /\ 2 * k \in 1..Len(rest) /\ 2 * k - 1 < Len(rest)
    BY <1>2
  <2>2. c + (2 * k - 1) = c + 2 * k - 1
    OBVIOUS
  <2>3. (2 * k - 1) % 2 = 1
    BY OddPlaces
  <2> HIDE DEF rest
  <2>4. rest[2 * k - 1] = q[c + (2 * k - 1)] /\ rest[2 * k] = q[c + 2 * k]
    BY <1>2, <2>1
  <2>5. 2 * k - 1 \in Names
    BY <1>2, <2>1, <2>3
  <2> QED
    BY <2>2, <2>4, <2>5
<1>4. ASSUME NEW n \in Names
      PROVE  \E k \in 1..e : n = 2 * k - 1
  <2>1. n \in 1..Len(rest) /\ n % 2 = 1 /\ n < Len(rest)
    BY <1>2
  <2> HIDE DEF rest
  <2>2. PICK k \in Nat : n = 2 * k - 1
    <3>1. n \in Nat
      BY <1>2, <2>1
    <3> QED
      BY <2>1, <3>1, OddPlaces
  <2>3. Len(rest) \in Nat /\ Len(rest) <= 2 * e + 1
    BY <1>2
  <2>4. 1 <= 2 * k - 1 /\ 2 * k - 1 < Len(rest)
    BY <2>1, <2>2, <2>3
  <2>5. k \in 1..e
    BY <2>3, <2>4
  <2> QED
    BY <2>2, <2>5
<1> HIDE DEF rest, Names
<1>5. 2 * d - 1 \in Names /\ rest[2 * d - 1].text = name /\ rest[1 + (2 * d - 1)].bare = value
  <2>1. 1 + (2 * d - 1) = 2 * d
    OBVIOUS
  <2> QED
    BY <1>1, <1>3, <2>1
<1>6. ASSUME NEW n \in Names, rest[n].text = name PROVE n <= 2 * d - 1
  <2>1. PICK k \in 1..e : n = 2 * k - 1
    BY <1>4
  <2>2. q[c + 2 * k - 1].text = name
    BY <1>3, <1>6, <2>1
  <2>3. k <= d
    BY <1>1, <2>2
  <2> QED
    BY <2>1, <2>3
<1>7. Names \subseteq Int
  BY <1>4
<1>8. ASSUME NEW k \in Names, Latest(k, name) PROVE k = 2 * d - 1
  BY <1>5, <1>6, <1>7, <1>8
<1>9. (CHOOSE k \in Names : Latest(k, name)) = 2 * d - 1
  <2>1. Latest(2 * d - 1, name)
    BY <1>5, <1>6
  <2> HIDE DEF Latest
  <2> QED
    BY <1>5, <1>8, <2>1
<1>10. Pairs(rest) = [t \in {rest[n].text : n \in Names} |->
                         rest[1 + CHOOSE k \in Names : Latest(k, t)].bare]
  BY Zenon DEF Pairs, Names
<1> HIDE DEF Latest
<1>11. name \in {rest[n].text : n \in Names}
  BY <1>5
<1>12. name \in DOMAIN Pairs(rest) /\ Pairs(rest)[name] = value
  BY <1>5, <1>9, <1>10, <1>11
<1> QED
  BY <1>12 DEF rest

\* After j pairs that follow start, what is left keeps them as pairs.
Asked(words, start, m) ==
    words[start + 2 * m - 1].text \notin OptionsOf(words)
LastAsked(words, start, m, j) ==
    \A k \in 1..j : words[start + 2 * k - 1].text = words[start + 2 * m - 1].text => k <= m
PairsLeft(words, start, head, q, j) ==
    \E e \in Nat :
        /\ Len(q) = Len(head) + 2 * e
        /\ \A k \in 1..Len(head) : q[k] = head[k]
        /\ \A m \in 1..j : Asked(words, start, m) /\ LastAsked(words, start, m, j) =>
              LastPair(q, Len(head), e, words[start + 2 * m - 1].text, words[start + 2 * m].bare)

LEMMA PairSkipped ==
    ASSUME NEW T, NEW words \in Seq(T), NEW start \in Nat, NEW head, NEW q, NEW j \in Nat \ {0},
           PairsLeft(words, start, head, q, j - 1), ~Asked(words, start, j)
    PROVE  PairsLeft(words, start, head, q, j)
<1>1. ASSUME NEW m \in 1..j, Asked(words, start, m), LastAsked(words, start, m, j)
      PROVE  m \in 1..j - 1 /\ LastAsked(words, start, m, j - 1)
  <2>1. m # j
    BY <1>1
  <2> QED
    BY <1>1, <2>1 DEF LastAsked
<1> QED
  BY <1>1 DEF PairsLeft

LEMMA PairAdded ==
    ASSUME NEW T, NEW words \in Seq(T), NEW start \in Nat, NEW head \in Seq(T),
           NEW q \in Seq(T), NEW j \in Nat \ {0}, start + 2 * j <= Len(words),
           PairsLeft(words, start, head, q, j - 1)
    PROVE  PairsLeft(words, start, head,
                     Append(Append(q, words[start + 2 * j - 1]), words[start + 2 * j]), j)
<1> DEFINE x == words[start + 2 * j - 1]
           y == words[start + 2 * j]
           c == Len(head)
           r == Append(Append(q, x), y)
<1>1. x \in T /\ y \in T /\ c \in Nat
  <2>1. start + 2 * j - 1 \in 1..Len(words) /\ start + 2 * j \in 1..Len(words)
    OBVIOUS
  <2> QED
    BY <2>1
<1>2. PICK e \in Nat :
        /\ Len(q) = c + 2 * e
        /\ \A k \in 1..c : q[k] = head[k]
        /\ \A m \in 1..j - 1 : Asked(words, start, m) /\ LastAsked(words, start, m, j - 1) =>
              LastPair(q, c, e, words[start + 2 * m - 1].text, words[start + 2 * m].bare)
  BY DEF PairsLeft
<1> HIDE DEF c, x, y
<1>3. Len(r) = c + 2 * (e + 1) /\ \A k \in 1..c : r[k] = head[k]
  BY <1>1, <1>2
<1>4. LastPair(r, c, e + 1, x.text, y.bare)
  BY <1>1, <1>2, PairComes
<1>5. ASSUME NEW m \in 1..j - 1, Asked(words, start, m), LastAsked(words, start, m, j)
      PROVE  LastPair(r, c, e + 1, words[start + 2 * m - 1].text, words[start + 2 * m].bare)
  <2>1. LastAsked(words, start, m, j - 1)
    BY <1>5 DEF LastAsked
  <2>2. LastPair(q, c, e, words[start + 2 * m - 1].text, words[start + 2 * m].bare)
    BY <1>2, <1>5, <2>1
  <2>3. x.text # words[start + 2 * m - 1].text
    BY <1>5 DEF LastAsked, x
  <2> QED
    BY <1>1, <1>2, <2>2, <2>3, PairStays
<1>6. ASSUME NEW m \in 1..j, Asked(words, start, m), LastAsked(words, start, m, j)
      PROVE  LastPair(r, c, e + 1, words[start + 2 * m - 1].text, words[start + 2 * m].bare)
  <2>1. CASE m = j
    BY <1>4, <2>1 DEF x, y
  <2>2. CASE m # j
    <3>1. m \in 1..j - 1
      BY <2>2
    <3> QED
      BY <1>5, <1>6, <3>1
  <2> QED
    BY <2>1, <2>2
<1> HIDE DEF r
<1>7. \E b \in Nat :
        /\ Len(r) = c + 2 * b
        /\ \A k \in 1..c : r[k] = head[k]
        /\ \A m \in 1..j : Asked(words, start, m) /\ LastAsked(words, start, m, j) =>
              LastPair(r, c, b, words[start + 2 * m - 1].text, words[start + 2 * m].bare)
  <2>1. e + 1 \in Nat
    OBVIOUS
  <2> QED
    BY <1>3, <1>6, <2>1
<1>8. PairsLeft(words, start, head, r, j)
  BY <1>7, Zenon DEF PairsLeft, c
<1> QED
  BY <1>8 DEF r, x, y

LEMMA Successors == \A n \in Nat : (n + 1) - 1 = n /\ (n + 2) - 1 = n + 1
OBVIOUS

\* Two words: an option and its value, or a parameter and its value.
LEMMA TwoWords ==
    ASSUME NEW words, NEW f, NEW n \in Nat, WordTaken(f, words, n + 1), WordTaken(f, words, n + 2),
           f[n].pending = "", ~ByItself(words[n + 1], OptionsOf(words)),
           ~ByItself(words[n + 2], OptionsOf(words)), words[n + 2].text \notin OptionsOf(words)
    PROVE  /\ f[n + 2].pending = ""
           /\ \/ words[n + 1].text \in OptionsOf(words) /\ f[n + 2].rest = f[n].rest
              \/ f[n + 2].rest = Append(Append(f[n].rest, words[n + 1]), words[n + 2])
<1>1. (n + 1) - 1 = n /\ (n + 2) - 1 = n + 1
  BY Successors
<1>2. \/ /\ words[n + 1].text \in OptionsOf(words)
         /\ f[n + 1].pending = words[n + 1].text /\ f[n + 1].rest = f[n].rest
      \/ IsLeft(f[n], words[n + 1], f[n + 1])
  BY <1>1 DEF WordTaken
<1>3. CASE /\ words[n + 1].text \in OptionsOf(words)
           /\ f[n + 1].pending = words[n + 1].text /\ f[n + 1].rest = f[n].rest
  <2>1. f[n + 1].pending # ""
    BY <1>3, NoOptionIsConfig
  <2> QED
    BY <1>1, <1>3, <2>1 DEF WordTaken
<1>4. CASE IsLeft(f[n], words[n + 1], f[n + 1])
  <2>1. f[n + 1].pending = "" /\ f[n + 1].rest = Append(f[n].rest, words[n + 1])
    BY <1>4 DEF IsLeft
  <2>2. IsLeft(f[n + 1], words[n + 2], f[n + 2])
    BY <1>1, <2>1 DEF WordTaken
  <2> QED
    BY <2>1, <2>2 DEF IsLeft
<1> QED
  BY <1>2, <1>3, <1>4

\* The parser after n words: no option waits for its value, q is left.
Left(f, n, q) == f[n].pending = "" /\ f[n].rest = q
PairsAfter(words, start) ==
    \A k \in start + 1..Len(words) : ~ByItself(words[k], OptionsOf(words))
ValuesAreNoOptions(words, start, last) ==
    \A m \in 1..last : words[start + 2 * m].text \notin OptionsOf(words)

LEMMA PairPlaces ==
    ASSUME NEW start \in Nat, NEW j \in Nat \ {0}, NEW n \in Nat, n = start + 2 * (j - 1),
           NEW length \in Nat, start + 2 * j <= length
    PROVE  /\ n + 1 = start + 2 * j - 1 /\ n + 2 = start + 2 * j
           /\ n + 1 \in 1..length /\ n + 2 \in 1..length
           /\ n + 1 \in start + 1..length /\ n + 2 \in start + 1..length
OBVIOUS

LEMMA PairStep ==
    ASSUME NEW T, NEW words \in Seq(T), NEW f, WellParsed(f, words),
           NEW start \in Nat, NEW j \in Nat \ {0}, NEW n \in Nat, n = start + 2 * (j - 1),
           start + 2 * j <= Len(words), PairsAfter(words, start),
           words[start + 2 * j].text \notin OptionsOf(words),
           NEW head \in Seq(T), NEW q \in Seq(T), Left(f, n, q),
           PairsLeft(words, start, head, q, j - 1)
    PROVE  \E r \in Seq(T) : Left(f, start + 2 * j, r) /\ PairsLeft(words, start, head, r, j)
<1>1. /\ n + 1 = start + 2 * j - 1 /\ n + 2 = start + 2 * j
      /\ n + 1 \in 1..Len(words) /\ n + 2 \in 1..Len(words)
      /\ n + 1 \in start + 1..Len(words) /\ n + 2 \in start + 1..Len(words)
  <2>1. Len(words) \in Nat
    OBVIOUS
  <2> QED
    BY <2>1, PairPlaces
<1>2. WordTaken(f, words, n + 1) /\ WordTaken(f, words, n + 2)
  BY <1>1, Zenon DEF WellParsed
<1>3. /\ ~ByItself(words[n + 1], OptionsOf(words))
      /\ ~ByItself(words[n + 2], OptionsOf(words))
  BY <1>1, Zenon DEF PairsAfter
<1>4. words[n + 1] \in T /\ words[n + 2] \in T
  BY <1>1
<1>5. words[n + 2].text \notin OptionsOf(words)
  BY <1>1, Zenon
<1> DEFINE two == Append(Append(q, words[n + 1]), words[n + 2])
<1>6. /\ f[n].pending = "" /\ f[n].rest = q
      /\ f[n + 2].pending = ""
      /\ \/ words[n + 1].text \in OptionsOf(words) /\ f[n + 2].rest = f[n].rest
         \/ f[n + 2].rest = Append(Append(f[n].rest, words[n + 1]), words[n + 2])
  <2>1. f[n].pending = "" /\ f[n].rest = q
    BY Zenon DEF Left
  <2> QED
    BY <1>2, <1>3, <1>5, <2>1, TwoWords, Zenon
<1>7. CASE words[n + 1].text \in OptionsOf(words) /\ f[n + 2].rest = f[n].rest
  <2>1. ~Asked(words, start, j)
    BY <1>1, <1>7, Zenon DEF Asked
  <2>2. PairsLeft(words, start, head, q, j)
    BY <2>1, PairSkipped
  <2>3. Left(f, start + 2 * j, q)
    BY <1>1, <1>6, <1>7, Zenon DEF Left
  <2> QED
    BY <2>2, <2>3, Zenon
<1>8. CASE f[n + 2].rest = Append(Append(f[n].rest, words[n + 1]), words[n + 2])
  <2>1. PairsLeft(words, start, head,
            Append(Append(q, words[start + 2 * j - 1]), words[start + 2 * j]), j)
    BY PairAdded
  <2>2. PairsLeft(words, start, head, two, j)
    BY <1>1, <2>1, Zenon
  <2>3. Left(f, start + 2 * j, two)
    BY <1>1, <1>6, <1>8, Zenon DEF Left
  <2>4. two \in Seq(T)
    BY <1>4
  <2> QED
    BY <2>2, <2>3, <2>4, Zenon
<1> QED
  BY <1>6, <1>7, <1>8, Zenon

LEMMA AllPairs ==
    ASSUME NEW T, NEW words \in Seq(T), NEW f, WellParsed(f, words),
           NEW start \in Nat, PairsAfter(words, start),
           NEW last \in Nat, start + 2 * last <= Len(words),
           ValuesAreNoOptions(words, start, last),
           NEW head \in Seq(T), Left(f, start, head)
    PROVE  \E q \in Seq(T) : /\ Left(f, start + 2 * last, q)
                             /\ PairsLeft(words, start, head, q, last)
<1> DEFINE Good(j) == \E q \in Seq(T) : /\ Left(f, start + 2 * j, q)
                                        /\ PairsLeft(words, start, head, q, j)
           S == {j \in 0..last : Good(j)}
<1>1. Good(0)
  <2>1. start + 2 * 0 = start
    OBVIOUS
  <2>2. PairsLeft(words, start, head, head, 0)
    <3>1. 0 \in Nat /\ Len(head) = Len(head) + 2 * 0
      OBVIOUS
    <3>2. \A m \in 1..0 : FALSE
      OBVIOUS
    <3> QED
      BY <3>1, <3>2 DEF PairsLeft
  <2> QED
    BY <2>1, <2>2, Zenon
<1>2. ASSUME NEW j \in 1..last, Good(j - 1) PROVE Good(j)
  <2>1. PICK q \in Seq(T) : /\ Left(f, start + 2 * (j - 1), q)
                            /\ PairsLeft(words, start, head, q, j - 1)
    BY <1>2, Zenon
  <2>2. j \in Nat \ {0} /\ start + 2 * (j - 1) \in Nat /\ start + 2 * j <= Len(words)
    OBVIOUS
  <2>3. words[start + 2 * j].text \notin OptionsOf(words)
    BY Zenon DEF ValuesAreNoOptions
  <2> QED
    BY <2>1, <2>2, <2>3, PairStep, Zenon
<1> HIDE DEF Good
<1>3. 0 \in S
  BY <1>1
<1>4. ASSUME NEW j \in 1..last, j - 1 \in S PROVE j \in S
  BY <1>2, <1>4
<1> HIDE DEF S
<1>5. 0..last \subseteq S
  BY <1>3, <1>4, Induction
<1>6. Good(last)
  <2>1. last \in S
    BY <1>5
  <2> QED
    BY <2>1, Zenon DEF S
<1> QED
  BY <1>6, Zenon DEF Good

\* All that follows start, also when its last word is alone.
AllArrive(words, start, last, head, q) ==
    \E e \in Nat :
        /\ Len(q) \in Len(head) + 2 * e..Len(head) + 2 * e + 1
        /\ \A k \in 1..Len(head) : q[k] = head[k]
        /\ \A m \in 1..last : Asked(words, start, m) /\ LastAsked(words, start, m, last) =>
              LastPair(q, Len(head), e, words[start + 2 * m - 1].text, words[start + 2 * m].bare)

LEMMA AloneIsKept ==
    ASSUME NEW T, NEW words, NEW start \in Nat, NEW last \in Nat, NEW head \in Seq(T),
           NEW q \in Seq(T), PairsLeft(words, start, head, q, last), NEW x
    PROVE  /\ AllArrive(words, start, last, head, q)
           /\ x \in T => AllArrive(words, start, last, head, Append(q, x))
<1> DEFINE c == Len(head)
           r == Append(q, x)
<1>1. PICK e \in Nat :
        /\ Len(q) = c + 2 * e
        /\ \A k \in 1..c : q[k] = head[k]
        /\ \A m \in 1..last : Asked(words, start, m) /\ LastAsked(words, start, m, last) =>
              LastPair(q, c, e, words[start + 2 * m - 1].text, words[start + 2 * m].bare)
  BY DEF PairsLeft
<1>2. c \in Nat
  OBVIOUS
<1>3. AllArrive(words, start, last, head, q)
  <2>1. Len(q) \in c + 2 * e..c + 2 * e + 1
    BY <1>1, <1>2
  <2> HIDE DEF c
  <2> QED
    BY <1>1, <2>1, Zenon DEF AllArrive, c
<1> SUFFICES ASSUME x \in T PROVE AllArrive(words, start, last, head, r)
  BY <1>3
<1>4. Len(r) \in c + 2 * e..c + 2 * e + 1 /\ \A k \in 1..c : r[k] = head[k]
  BY <1>1, <1>2
<1>5. ASSUME NEW m \in 1..last, Asked(words, start, m), LastAsked(words, start, m, last)
      PROVE  LastPair(r, c, e, words[start + 2 * m - 1].text, words[start + 2 * m].bare)
  <2>1. LastPair(q, c, e, words[start + 2 * m - 1].text, words[start + 2 * m].bare)
    BY <1>1, <1>5, Zenon
  <2> HIDE DEF c
  <2> QED
    BY <1>1, <1>2, <2>1, PairLonger DEF r
<1>6. AllArrive(words, start, last, head, r)
  <2> HIDE DEF c, r
  <2> QED
    BY <1>4, <1>5, Zenon DEF AllArrive, c
<1> QED
  BY <1>6

LEMMA PairsArrive ==
    ASSUME NEW T, NEW words \in Seq(T), NEW f, WellParsed(f, words),
           NEW start \in Nat, PairsAfter(words, start),
           NEW last \in Nat, Len(words) \in start + 2 * last..start + 2 * last + 1,
           ValuesAreNoOptions(words, start, last),
           NEW head \in Seq(T), Left(f, start, head),
           NEW rest, Left(f, Len(words), rest)
    PROVE  rest \in Seq(T) /\ AllArrive(words, start, last, head, rest)
<1>1. Len(words) \in Nat /\ start + 2 * last <= Len(words) /\ start + 2 * last \in Nat
  OBVIOUS
<1> DEFINE n == start + 2 * last
<1>2. PICK q \in Seq(T) : Left(f, n, q) /\ PairsLeft(words, start, head, q, last)
  BY <1>1, AllPairs, Zenon
<1>3. CASE Len(words) = n
  <2>1. rest = q
    BY <1>2, <1>3, Zenon DEF Left
  <2>3. AllArrive(words, start, last, head, q)
    BY <1>2, AloneIsKept
  <2> QED
    BY <2>1, <2>3
<1>4. Len(words) = n \/ Len(words) = n + 1
  BY <1>1
<1>5. CASE Len(words) = n + 1
  <2>1. n + 1 \in 1..Len(words) /\ n + 1 \in start + 1..Len(words) /\ n \in Nat
    BY <1>1, <1>5
  <2>2. (n + 1) - 1 = n
    BY <2>1, Successors
  <2> HIDE DEF n
  <2>3. WordTaken(f, words, n + 1)
    BY <2>1, Zenon DEF WellParsed
  <2>4. ~ByItself(words[n + 1], OptionsOf(words))
    BY <2>1, Zenon DEF PairsAfter
  <2>5. words[n + 1] \in T
    BY <2>1
  <2>6. f[n + 1].rest = Append(q, words[n + 1])
    <3>1. f[n].pending = "" /\ f[n].rest = q
      BY <1>2, Zenon DEF Left
    <3>2. f[n + 1].pending = ""
      BY <1>5, Zenon DEF Left
    <3>3. IsLeft(f[n], words[n + 1], f[n + 1])
      BY <2>2, <2>3, <2>4, <3>1, <3>2, NoOptionIsConfig DEF WordTaken
    <3> QED
      BY <3>1, <3>3 DEF IsLeft
  <2>7. AllArrive(words, start, last, head, Append(q, words[n + 1]))
    BY <1>2, <2>5, AloneIsKept
  <2>8. Append(q, words[n + 1]) \in Seq(T)
    BY <2>5
  <2> QED
    <3>1. rest = Append(q, words[n + 1])
      BY <1>5, <2>6, Zenon DEF Left
    <3> QED
      BY <2>7, <2>8, <3>1
<1> QED
  BY <1>3, <1>4, <1>5

\* parse_config_new() looks for the first "--config" of what is left.
LEMMA FirstConfig ==
    ASSUME NEW T, NEW head \in Seq(T), NEW rest \in Seq(T), Len(head) <= Len(rest),
           \A k \in 1..Len(head) : rest[k] = head[k], IsConfigAt(head, Len(head))
    PROVE  Len(head) = CHOOSE k \in DOMAIN rest :
                          /\ rest[k].text = "--config"
                          /\ \A n \in 1..k - 1 : rest[n].text # "--config"
<1> DEFINE First(k) == /\ rest[k].text = "--config"
                       /\ \A n \in 1..k - 1 : rest[n].text # "--config"
           c == Len(head)
<1>1. c \in 1..Len(rest) /\ DOMAIN rest = 1..Len(rest) /\ Len(rest) \in Nat
  BY DEF IsConfigAt
<1>2. First(c)
  <2>1. /\ head[c].text = "--config"
        /\ \A n \in 1..c - 1 : head[n].text # "--config"
    BY Zenon DEF IsConfigAt
  <2>2. rest[c] = head[c] /\ \A n \in 1..c - 1 : rest[n] = head[n]
    BY <1>1
  <2> QED
    BY <2>1, <2>2
<1>3. ASSUME NEW k \in DOMAIN rest, First(k) PROVE k = c
  <2>1. rest[k].text = "--config" /\ \A n \in 1..k - 1 : rest[n].text # "--config"
    BY <1>3
  <2>2. rest[c].text = "--config" /\ \A n \in 1..c - 1 : rest[n].text # "--config"
    BY <1>2
  <2> HIDE DEF c, First
  <2>3. ~(k < c) /\ ~(c < k)
    BY <1>1, <2>1, <2>2
  <2> QED
    BY <1>1, <2>3
<1> HIDE DEF First, c
<1>4. c = CHOOSE k \in DOMAIN rest : First(k)
  BY <1>1, <1>2, <1>3
<1> QED
  BY <1>4 DEF First, c

LEMMA LengthBounds ==
    ASSUME NEW T, NEW q \in Seq(T), NEW e \in Nat, NEW n \in Len(q) + 2 * e..Len(q) + 2 * e + 1
    PROVE  Len(q) \in Nat /\ Len(q) <= n
OBVIOUS

\* A parameter that no option takes is in the configuration, with the value that
\* the line gives it last.
LEMMA ParameterArrives ==
    ASSUME NEW T, NEW words \in Seq(T),
           \A word \in T : word.text = "--config" => Unknown(word),
           Accepted(words), NEW start \in Nat, IsConfigAt(words, start), PairsAfter(words, start),
           NEW last \in Nat, Len(words) \in start + 2 * last..start + 2 * last + 1,
           ValuesAreNoOptions(words, start, last),
           NEW m \in 1..last, Asked(words, start, m), LastAsked(words, start, m, last)
    PROVE  /\ words[start + 2 * m - 1].text \in DOMAIN ParsedLine(words).config
           /\ ParsedLine(words).config[words[start + 2 * m - 1].text] = words[start + 2 * m].bare
<1>1. PICK f : ParsesBySteps(f, words) /\ Known(words) = f[Len(words)]
  BY KnownIs
<1>2. ~Refused(f[Len(words)]) /\ f[Len(words)].pending = ""
  BY <1>1, Zenon DEF Accepted, Refused
<1>3. WellParsed(f, words)
  BY <1>1, <1>2, NeverBad
<1>4. Unknown(words[start])
  <2>1. start \in DOMAIN words /\ words[start].text = "--config"
    BY Zenon DEF IsConfigAt
  <2>2. words[start] \in T
    BY <2>1
  <2> QED
    BY <2>1, <2>2, Zenon
<1> DEFINE head == f[start].rest
           rest == f[Len(words)].rest
<1>5. f[start].pending = "" /\ head \in Seq(T) /\ IsConfigAt(head, Len(head))
  BY <1>3, <1>4, ConfigIsLeft
<1>6. Left(f, start, head) /\ Left(f, Len(words), rest)
  BY <1>2, <1>5, Zenon DEF Left
<1>7. Known(words).rest = rest
  BY <1>1, Zenon
<1> HIDE DEF head, rest
<1>8. rest \in Seq(T) /\ AllArrive(words, start, last, head, rest)
  BY <1>3, <1>5, <1>6, PairsArrive
<1>9. PICK e \in Nat :
        /\ Len(rest) \in Len(head) + 2 * e..Len(head) + 2 * e + 1
        /\ \A k \in 1..Len(head) : rest[k] = head[k]
        /\ LastPair(rest, Len(head), e, words[start + 2 * m - 1].text, words[start + 2 * m].bare)
  BY <1>8, Zenon DEF AllArrive
<1>10. ParsedLine(words).config = Pairs(SubSeq(rest, Len(head) + 1, Len(rest)))
  <2>1. Len(head) <= Len(rest)
    BY <1>5, <1>9, LengthBounds, Zenon
  <2>2. Len(head) = CHOOSE k \in DOMAIN rest :
                       /\ rest[k].text = "--config"
                       /\ \A n \in 1..k - 1 : rest[n].text # "--config"
    BY <1>5, <1>8, <1>9, <2>1, FirstConfig
  <2>3. NewFormat(words)
    BY Zenon DEF NewFormat, IsConfigAt
  <2>4. ParsedLine(words) = ParseConfigNew(words)
    BY <2>3, Zenon DEF ParsedLine
  <2>5. ParseConfigNew(words).config = Pairs(SubSeq(rest, Len(head) + 1, Len(rest)))
    BY <1>7, <2>2 DEF ParseConfigNew
  <2> QED
    BY <2>4, <2>5
<1>11. LET pairs == Pairs(SubSeq(rest, Len(head) + 1, Len(rest)))
       IN  /\ words[start + 2 * m - 1].text \in DOMAIN pairs
           /\ pairs[words[start + 2 * m - 1].text] = words[start + 2 * m].bare
  <2> DEFINE name  == words[start + 2 * m - 1].text
             value == words[start + 2 * m].bare
             c     == Len(head)
             pairs == Pairs(SubSeq(rest, c + 1, Len(rest)))
  <2>1. c \in Nat
    BY <1>5, <1>9, LengthBounds, Zenon
  <2>2. Len(rest) \in c + 2 * e..c + 2 * e + 1 /\ LastPair(rest, c, e, name, value)
    BY <1>9
  <2> HIDE DEF name, value, c
  <2>3. name \in DOMAIN pairs /\ pairs[name] = value
    BY <1>8, <2>1, <2>2, PairsHasLast
  <2> HIDE DEF pairs
  <2> QED
    BY <2>3 DEF name, value, c, pairs
<1> QED
  BY <1>10, <1>11

LEMMA ConfigIsFound ==
    ASSUME NEW T, NEW words \in Seq(T), NewFormat(words)
    PROVE  \E k : IsConfigAt(words, k)
<1> SUFFICES ASSUME \A k : ~IsConfigAt(words, k) PROVE FALSE
  OBVIOUS
<1> DEFINE S == {n \in 0..Len(words) : \A k \in 1..n : words[k].text # "--config"}
<1>1. Len(words) \in Nat /\ DOMAIN words = 1..Len(words)
  OBVIOUS
<1>2. 0 \in S
  BY <1>1
<1>3. ASSUME NEW n \in 1..Len(words), n - 1 \in S PROVE n \in S
  <2>1. \A k \in 1..n - 1 : words[k].text # "--config"
    BY <1>3
  <2>2. words[n].text # "--config"
    BY <1>1, <2>1 DEF IsConfigAt
  <2>3. \A k \in 1..n : words[k].text # "--config"
    BY <2>1, <2>2
  <2> QED
    BY <2>3
<1> HIDE DEF S
<1>4. 0..Len(words) \subseteq S
  BY <1>1, <1>2, <1>3, Induction
<1>5. Len(words) \in S
  BY <1>1, <1>4
<1> QED
  BY <1>1, <1>5 DEF S, NewFormat

LEMMA PlacesOfParameters ==
    ASSUME NEW start \in Nat, NEW length \in Nat, start <= length
    PROVE  \E last \in Nat :
             /\ length \in start + 2 * last..start + 2 * last + 1
             /\ \A m \in 1..last : /\ start + 2 * m - 1 \in start + 1..length - 1
                                   /\ ((start + 2 * m - 1) - start) % 2 = 1
                                   /\ (start + 2 * m - 1) + 1 = start + 2 * m
             /\ \A k \in start + 1..length - 1 :
                  (k - start) % 2 = 1 => \E m \in 1..last : k = start + 2 * m - 1
<1> DEFINE last == (length - start) \div 2
<1>1. last \in Nat /\ length \in start + 2 * last..start + 2 * last + 1
  OBVIOUS
<1> HIDE DEF last
<1>2. ASSUME NEW m \in 1..last
      PROVE  /\ start + 2 * m - 1 \in start + 1..length - 1
             /\ ((start + 2 * m - 1) - start) % 2 = 1
             /\ (start + 2 * m - 1) + 1 = start + 2 * m
  <2>1. start + 2 * m - 1 \in start + 1..length - 1 /\ (start + 2 * m - 1) + 1 = start + 2 * m
    BY <1>1
  <2>2. (start + 2 * m - 1) - start = 2 * m - 1 /\ m \in Nat \ {0}
    BY <1>1
  <2>3. (2 * m - 1) % 2 = 1
    BY <2>2, OddPlaces
  <2> QED
    BY <2>1, <2>2, <2>3
<1>3. ASSUME NEW k \in start + 1..length - 1, (k - start) % 2 = 1
      PROVE  \E m \in 1..last : k = start + 2 * m - 1
  <2>1. k - start \in Nat
    OBVIOUS
  <2>2. PICK m \in Nat : k - start = 2 * m - 1
    BY <1>3, <2>1, OddPlaces
  <2>3. m \in 1..last /\ k = start + 2 * m - 1
    BY <1>1, <2>2
  <2> QED
    BY <2>3
<1> QED
  BY <1>1, <1>2, <1>3

\* parse() (argparser/parse.py) gives the target each parameter that follows
\* "--config", with the value that the line gives it last and without the quotes
\* around it, however options of the wrapper stand between them, for every line on
\* which no value is the name of one of these options and none of them is joined to
\* its value or takes none.
THEOREM ParametersReach == SatSpec => []ParametersArrive
<1>1. TimeInv => ParametersArrive
  <2> SUFFICES ASSUME TimeInv, NewFormat(line),
                      \A k \in ConfigAt + 1..Len(line) : ~Alone(line[k]),
                      \A k \in Parameters : line[k + 1].text \notin OptionsOf(line),
                      NEW k \in Parameters, line[k].text \notin OptionsOf(line),
                      \A n \in Parameters : line[n].text = line[k].text => n <= k
               PROVE  /\ line[k].text \in DOMAIN parsed.config
                      /\ parsed.config[line[k].text] = line[k + 1].bare
    BY Zenon DEF ParametersArrive
  <2> DEFINE start == ConfigAt
  <2>1. /\ line \in Seq(GivenWords) /\ Accepted(line) /\ parsed = ParsedLine(line)
        /\ \A word \in GivenWords : word.text = "--config" => Unknown(word)
    BY SatAssumption, Zenon DEF TimeInv, Unknown
  <2>2. IsConfigAt(line, start)
    <3>1. PICK c : IsConfigAt(line, c)
      BY <2>1, ConfigIsFound
    <3>2. c \in DOMAIN line /\ line[c].text = "--config"
          /\ \A n \in 1..c - 1 : line[n].text # "--config"
      BY <3>1, Zenon DEF IsConfigAt
    <3> QED
      BY <3>2, Zenon DEF ConfigAt, IsConfigAt
  <2>3. start \in 1..Len(line) /\ start \in Nat /\ Len(line) \in Nat
    <3>1. start \in DOMAIN line
      BY <2>2, Zenon DEF IsConfigAt
    <3> QED
      BY <2>1, <3>1
  <2>4. PairsAfter(line, start)
    BY Zenon DEF PairsAfter, Alone, ByItself
  <2>5. Parameters = {n \in start + 1..Len(line) - 1 : (n - start) % 2 = 1}
    BY Zenon DEF Parameters
  <2> HIDE DEF start
  <2>6. start <= Len(line)
    BY <2>3
  <2>7. PICK last \in Nat :
          /\ Len(line) \in start + 2 * last..start + 2 * last + 1
          /\ \A m \in 1..last : /\ start + 2 * m - 1 \in start + 1..Len(line) - 1
                                /\ ((start + 2 * m - 1) - start) % 2 = 1
                                /\ (start + 2 * m - 1) + 1 = start + 2 * m
          /\ \A n \in start + 1..Len(line) - 1 :
               (n - start) % 2 = 1 => \E m \in 1..last : n = start + 2 * m - 1
    BY <2>3, <2>6, PlacesOfParameters, Zenon
  <2>8. ASSUME NEW m \in 1..last PROVE start + 2 * m - 1 \in Parameters
    <3>1. /\ start + 2 * m - 1 \in start + 1..Len(line) - 1
          /\ ((start + 2 * m - 1) - start) % 2 = 1
      BY <2>7, Zenon
    <3> QED
      BY <2>5, <3>1, Zenon
  <2>9. ValuesAreNoOptions(line, start, last)
    BY <2>7, <2>8, Zenon DEF ValuesAreNoOptions
  <2>10. PICK m \in 1..last : k = start + 2 * m - 1
    <3>1. k \in start + 1..Len(line) - 1 /\ (k - start) % 2 = 1
      BY <2>5, Zenon
    <3> QED
      BY <2>7, <3>1, Zenon
  <2>11. k + 1 = start + 2 * m
    BY <2>7, <2>10, Zenon
  <2>12. Asked(line, start, m)
    BY <2>10, Zenon DEF Asked
  <2>13. LastAsked(line, start, m, last)
    <3>1. ASSUME NEW j \in 1..last, line[start + 2 * j - 1].text = line[start + 2 * m - 1].text
          PROVE  start + 2 * j - 1 <= start + 2 * m - 1
      BY <2>8, <2>10, <3>1, Zenon
    <3>2. ASSUME NEW j \in 1..last, start + 2 * j - 1 <= start + 2 * m - 1 PROVE j <= m
      BY <2>3, <3>2
    <3> QED
      BY <3>1, <3>2, Zenon DEF LastAsked
  <2>14. /\ line[start + 2 * m - 1].text \in DOMAIN ParsedLine(line).config
         /\ ParsedLine(line).config[line[start + 2 * m - 1].text] = line[start + 2 * m].bare
    BY <2>1, <2>2, <2>3, <2>4, <2>7, <2>9, <2>12, <2>13, ParameterArrives
  <2> QED
    BY <2>1, <2>10, <2>11, <2>14, Zenon
<1> QED
  BY <1>1, TimeHolds, PTL
=============================================================================
