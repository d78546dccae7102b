---------------------------- MODULE TimeStamper ----------------------------
(***************************************************************************)
(* class TimeStamper (TimeStamper.hh): the thread that reads what the      *)
(* solver writes into its pipes and puts a time stamp at the beginning of  *)
(* each line (option --timestamp), in both versions of runsolver.          *)
(*                                                                         *)
(* Streams are named by the descriptor runsolver reads.  There is one in   *)
(* the usual build and two with TIMESTAMPSEPARATESTDOUTANDERR; all go to   *)
(* the same file.  A byte is the end of a line or not, and remembers when  *)
(* the solver wrote it.  A stamp is the wall clock time; its CPU time and  *)
(* its letter are left out.  A read() and the writes that it leads to are  *)
(* one step of the thread, what the solver does falls between two of them. *)
(***************************************************************************)
EXTENDS Integers, Sequences, SequencesExt, Functions

CONSTANTS
    Streams,        \* descriptors given to watch()
    BufferSize,     \* of readFrom() (1024)
    PipeSize,       \* bytes that the solver can write ahead
    WatchDogLimit,  \* errors of select() in a row that end the thread (10)
    ErrorsInRow,    \* how many the system produces at most
    AddEOF,         \* option --add-eof
    MaxBytes,       \* bound on the bytes of all streams
    MaxClock        \* bound on the clock

ASSUME StamperAssumption ==
    /\ Streams \subseteq Nat \ {0} /\ Streams # {} /\ IsFiniteSet(Streams)
    /\ BufferSize \in Nat \ {0} /\ PipeSize \in Nat \ {0}
    /\ WatchDogLimit \in Nat \ {0} /\ ErrorsInRow \in Nat
    /\ AddEOF \in BOOLEAN /\ MaxBytes \in Nat /\ MaxClock \in Nat

VARIABLES
    clock,
    written,        \* what the solver wrote in each stream
    consumed,       \* how much of it was read
    open,           \* streams whose write end some process still holds
    errors,         \* errors of select() since it last succeeded
    watched,        \* vector of info: [fd, EOLBefore]
    watcher, max,   \* the arguments of select()
    watchDog,
    ready, i,       \* result of select(), position in watched
    incompleteLineSent,
    pc,             \* "select", "scan", "finish", "done"
    output          \* the file: bytes, stamps and the line of --add-eof

solverVars == <<written, open>>
vars == <<clock, solverVars, consumed, errors, watched, watcher, max, watchDog,
          ready, i, incompleteLineSent, pc, output>>

Above(fds) == CHOOSE m \in {1} \cup {fd + 1 : fd \in fds} : \A fd \in fds : fd < m

\* The constructor, then a call of watch() for each stream
Init ==
    /\ clock = 0
    /\ written = [s \in Streams |-> <<>>]
    /\ consumed = [s \in Streams |-> 0]
    /\ open = Streams
    /\ errors = 0 /\ watchDog = 0
    /\ watched = [k \in DOMAIN SetToSeq(Streams) |->
                    [fd |-> SetToSeq(Streams)[k], EOLBefore |-> TRUE]]
    /\ watcher = Streams /\ max = Above(Streams)
    /\ ready = {} /\ i = 1
    /\ incompleteLineSent = FALSE
    /\ pc = "select" /\ output = <<>>
-----------------------------------------------------------------------------
\* The solver: write() blocks while the pipe is full.  A process that ends
\* closes its copy of the write end.
Pending(s) == Len(written[s]) - consumed[s]

SolverWrites(s, kind) ==
    /\ s \in open /\ Pending(s) < PipeSize
    /\ SumFunction([t \in Streams |-> Len(written[t])]) < MaxBytes
    /\ written' = [written EXCEPT ![s] =
                     Append(@, [fd |-> s, kind |-> kind, at |-> clock])]
    /\ UNCHANGED <<clock, consumed, open, errors, watched, watcher, max,
                   watchDog, ready, i, incompleteLineSent, pc, output>>

SolverCloses(s) ==
    /\ s \in open
    /\ open' = open \ {s}
    /\ UNCHANGED <<clock, written, consumed, errors, watched, watcher, max,
                   watchDog, ready, i, incompleteLineSent, pc, output>>

Tick ==
    /\ clock < MaxClock
    /\ clock' = clock + 1
    /\ UNCHANGED <<solverVars, consumed, errors, watched, watcher, max, watchDog,
                   ready, i, incompleteLineSent, pc, output>>
-----------------------------------------------------------------------------
\* timeStampLines(): select() looks at the descriptors below its first argument.
Readable(s) == Pending(s) > 0 \/ s \notin open

MutKeepsWatchDog ==
    /\ pc = "select" /\ watched # <<>>
    /\ ready' = {s \in watcher : s < max /\ Readable(s)}
    /\ ready' # {}
    /\ errors' = 0
    /\ i' = 1 /\ pc' = "scan"
    /\ UNCHANGED <<clock, solverVars, consumed, watched, watcher, max, watchDog,
                   incompleteLineSent, output>>

Select ==
    /\ pc = "select" /\ watched # <<>>
    /\ ready' = {s \in watcher : s < max /\ Readable(s)}
    /\ ready' # {}
    /\ watchDog' = 0 /\ errors' = 0
    /\ i' = 1 /\ pc' = "scan"
    /\ UNCHANGED <<clock, solverVars, consumed, watched, watcher, max,
                   incompleteLineSent, output>>

\* A signal handler ran (EINTR: SA_RESTART does not restart select()), or
\* another error
SelectFails ==
    /\ pc = "select" /\ watched # <<>>
    /\ errors < ErrorsInRow
    /\ errors' = errors + 1
    /\ watchDog' = watchDog + 1
    /\ pc' = IF watchDog' < WatchDogLimit THEN "select" ELSE "finish"
    /\ UNCHANGED <<clock, solverVars, consumed, watched, watcher, max, ready, i,
                   incompleteLineSent, output>>

\* timeStampLines(): the loop over watched
Current == watched[i].fd
Scanning == pc = "scan" /\ i <= Len(watched)

NotReady ==
    /\ Scanning /\ Current \notin ready
    /\ i' = i + 1
    /\ UNCHANGED <<clock, solverVars, consumed, errors, watched, watcher, max,
                   watchDog, ready, incompleteLineSent, pc, output>>

\* readFrom(): one stamp for all the lines of a chunk
Chunk(s) ==
    SubSeq(written[s], consumed[s] + 1,
           consumed[s] + IF Pending(s) < BufferSize THEN Pending(s) ELSE BufferSize)
Stamp(s) == [fd |-> s, kind |-> "stamp", at |-> clock]

MutStampAfterLastLine(chunk, s, EOLBefore) ==
    (IF EOLBefore THEN <<Stamp(s)>> ELSE <<>>) \o
    FlattenSeq([k \in DOMAIN chunk |->
        IF chunk[k].kind = "eol" THEN <<chunk[k], Stamp(s)>> ELSE <<chunk[k]>>])

Stamped(chunk, s, EOLBefore) ==
    (IF EOLBefore THEN <<Stamp(s)>> ELSE <<>>) \o
    FlattenSeq([k \in DOMAIN chunk |->
        IF chunk[k].kind = "eol" /\ k < Len(chunk)
        THEN <<chunk[k], Stamp(s)>> ELSE <<chunk[k]>>])

MutForgetsIncompleteLine ==
    /\ Scanning /\ Current \in ready /\ Pending(Current) > 0
    /\ LET chunk == Chunk(Current)
       IN  /\ consumed' = [consumed EXCEPT ![Current] = @ + Len(chunk)]
           /\ output' = output \o Stamped(chunk, Current, watched[i].EOLBefore)
           /\ watched' = [watched EXCEPT ![i].EOLBefore = Last(chunk).kind = "eol"]
           /\ incompleteLineSent' = (incompleteLineSent /\ Last(chunk).kind # "eol")
    /\ i' = i + 1
    /\ UNCHANGED <<clock, solverVars, errors, watcher, max, watchDog, ready, pc>>

ReadFrom ==
    /\ Scanning /\ Current \in ready /\ Pending(Current) > 0
    /\ LET chunk == Chunk(Current)
       IN  /\ consumed' = [consumed EXCEPT ![Current] = @ + Len(chunk)]
           /\ output' = output \o Stamped(chunk, Current, watched[i].EOLBefore)
           /\ watched' = [watched EXCEPT ![i].EOLBefore = Last(chunk).kind = "eol"]
           /\ incompleteLineSent' = (Last(chunk).kind # "eol")
    /\ i' = i + 1
    /\ UNCHANGED <<clock, solverVars, errors, watcher, max, watchDog, ready, pc>>

\* readFrom() returns false at the end of the file (a PTY gives an error then).
Rest == RemoveAt(watched, i)

MutStopsTooLow ==
    /\ Scanning /\ Current \in ready /\ Pending(Current) = 0
    /\ watcher' = watcher \ {Current}
    /\ watched' = Rest
    /\ max' = max - 1
    /\ UNCHANGED <<clock, solverVars, consumed, errors, watchDog, ready, i,
                   incompleteLineSent, pc, output>>

EndOfFile ==
    /\ Scanning /\ Current \in ready /\ Pending(Current) = 0
    /\ watcher' = watcher \ {Current}
    /\ watched' = Rest
    /\ max' = Above({Rest[k].fd : k \in DOMAIN Rest})
    /\ UNCHANGED <<clock, solverVars, consumed, errors, watchDog, ready, i,
                   incompleteLineSent, pc, output>>

EndScan ==
    /\ pc = "scan" /\ i > Len(watched)
    /\ pc' = IF watched = <<>> THEN "finish" ELSE "select"
    /\ ready' = {} /\ i' = 1
    /\ UNCHANGED <<clock, solverVars, consumed, errors, watched, watcher, max,
                   watchDog, incompleteLineSent, output>>

\* The line of --add-eof goes through watched[0] even when watched is empty.
\* That is undefined; the build reads the slot of the stream erased last, which
\* the vector still holds, and all streams have the same output.
EOFLine ==
    (IF incompleteLineSent
     THEN <<[fd |-> 0, kind |-> "eol", at |-> clock]>> ELSE <<>>) \o
    <<Stamp(0), [fd |-> 0, kind |-> "eof", at |-> clock]>>

Finish ==
    /\ pc = "finish"
    /\ output' = IF AddEOF THEN output \o EOFLine ELSE output
    /\ pc' = "done"
    /\ UNCHANGED <<clock, solverVars, consumed, errors, watched, watcher, max,
                   watchDog, ready, i, incompleteLineSent>>

Solver == \E s \in Streams :
            SolverCloses(s) \/ \E kind \in {"char", "eol"} : SolverWrites(s, kind)
TimeStampLines ==
    Select \/ SelectFails \/ NotReady \/ ReadFrom \/ EndOfFile \/ EndScan \/ Finish

Done == pc = "done" /\ open = {} /\ UNCHANGED vars

Next == Solver \/ Tick \/ TimeStampLines \/ Done

Spec == Init /\ [][Next]_vars

\* The thread runs whenever it can, as the solver's bytes and errors allow.
FairSpec == Spec /\ WF_vars(TimeStampLines)
-----------------------------------------------------------------------------
\* SelectSeq, in a form that can be unfolded
OfStream(elements, s) ==
    FlattenSeq([k \in DOMAIN elements |->
        IF elements[k].fd = s THEN <<elements[k]>> ELSE <<>>])
NoStamps(elements) ==
    FlattenSeq([k \in DOMAIN elements |->
        IF elements[k].kind # "stamp" THEN <<elements[k]>> ELSE <<>>])

Kinds(elements) == [k \in DOMAIN elements |-> elements[k].kind]
LineStarts(bytes) ==
    {k \in DOMAIN bytes : k = 1 \/ bytes[k - 1].kind = "eol"}
StampedKinds(bytes) ==
    FlattenSeq([k \in DOMAIN bytes |->
        IF k \in LineStarts(bytes) THEN <<"stamp", bytes[k].kind>>
                                   ELSE <<bytes[k].kind>>])

\* What was read of a stream is in the file, in order, with a stamp before the
\* first byte of each line and nowhere else, however the bytes were cut into
\* chunks and the streams were mixed.  A line is never stamped with a time
\* before the solver began to write it, and the stamps never go back.
Read(s) == SubSeq(written[s], 1, consumed[s])
StampsAreRight ==
    /\ \A s \in Streams :
         /\ NoStamps(OfStream(output, s)) = Read(s)
         /\ Kinds(OfStream(output, s)) = StampedKinds(Read(s))
    /\ \A j \in DOMAIN output : output[j].kind = "stamp" =>
         /\ output[j].fd # 0 => output[j + 1].at <= output[j].at
         /\ \A k \in 1..j : output[k].kind = "stamp" => output[k].at <= output[j].at

\* The line of --add-eof is the last one, and is on a line of its own.
EOFOnOwnLine ==
    \A j \in DOMAIN output : output[j].kind = "eof" =>
        /\ j = Len(output) /\ pc = "done"
        /\ j > 2 => output[j - 2].kind = "eol"

\* The solver never waits for ever on a full pipe: what it wrote is read, as
\* long as select() does not fail WatchDogLimit times in a row.
OutputIsRead ==
    \A s \in Streams : \A n \in 1..MaxBytes :
        Len(written[s]) >= n ~> consumed[s] >= n

\* The thread, which run() joins, ends once the solver closed its streams.
EndsAfterSolver == open = {} ~> pc = "done"
=============================================================================
