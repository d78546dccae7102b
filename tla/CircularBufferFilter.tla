------------------------ MODULE CircularBufferFilter ------------------------
(***************************************************************************)
(* class CircularBufferFilter (CircularBufferFilter.hh), as the time       *)
(* stamper thread uses it for option --output-limit: the first             *)
(* activateSize bytes go straight to the file, the next ones to a circular *)
(* buffer that the destructor appends to the file.                         *)
(*                                                                         *)
(* A byte of the output is named by its rank.  write() is modelled up to   *)
(* its loop, then turn by turn of that loop.  The sizes come from the      *)
(* command line through the arithmetic of main(): int first, then          *)
(* unsigned long long; an int overflow is the wraparound that gcc builds.  *)
(***************************************************************************)
EXTENDS Integers, Sequences, SequencesExt

CONSTANTS
    Options,        \* pairs <<start, max>> given to --output-limit
    MiB,            \* bytes in a unit of these (1024*1024)
    IntValues,      \* an int has as many values (2^32)
    SizeValues,     \* an unsigned long long has as many values (2^64)
    MaxAlloc,       \* new char[n] throws bad_alloc for a larger n
    MaxLen,         \* longest write() (1024, the buffer of readFrom)
    MaxTotal,       \* bound on the output of the solver
    WriteFails      \* can the system refuse to write (disk full)?

ASSUME FilterAssumption ==
    /\ Options \subseteq Nat \X Nat
    /\ MiB \in Nat \ {0} /\ IntValues \in Nat \ {0} /\ SizeValues \in Nat \ {0}
    /\ MaxAlloc \in Nat /\ MaxLen \in Nat \ {0} /\ MaxTotal \in Nat
    /\ WriteFails \in BOOLEAN

VARIABLES
    activateSize, maxSize, bufferSize,
    total,          \* bytes sent to the filter, those being written included
    allocated,      \* data != NULL
    data,           \* the circular buffer, 0..bufferSize-1 once allocated
    w,              \* where to write in it
    next, len,      \* write(): the first byte not dealt with, how many there are
    pc,             \* "idle" between calls, "copy" in the loop of write()
    file,           \* what was written to fd
    refused         \* what could not be

vars == <<activateSize, maxSize, bufferSize, total, allocated, data, w,
          next, len, pc, file, refused>>
sizes == <<activateSize, maxSize, bufferSize>>

Message == 0        \* the message in the middle of the file
Garbage == -1       \* what new char[] leaves in the buffer

Bytes(first, last) == [i \in 1..last - first + 1 |-> first + i - 1]

\* activate*1024*1024, an int, converted to unsigned long long
AsInt(x) ==
    LET low == x % IntValues
    IN  IF 2 * low < IntValues THEN low ELSE low - IntValues
SizeInBytes(units) == AsInt(units * MiB) % SizeValues

\* -O start,max; setup() is called if limitedOutputMaxSize is not 0.
Init ==
    /\ \E option \in Options :
          /\ option[1] < option[2]
          /\ activateSize = SizeInBytes(option[1])
          /\ maxSize = SizeInBytes(option[2])
    /\ maxSize # 0
    /\ bufferSize = (maxSize - activateSize) % SizeValues
    /\ total = 0
    /\ allocated = FALSE /\ data = <<>> /\ w = 0
    /\ next = 1 /\ len = 0 /\ pc = "idle"
    /\ file = <<>> /\ refused = {}

\* systemWrite() loops on partial writes and EINTR; after another error it
\* gives up and the rest of each of the pieces is lost.
Sent(piece) == IF WriteFails THEN 0..Len(piece) ELSE {Len(piece)}
SystemWrite(piece) ==
    \E n \in Sent(piece) :
        /\ file' = file \o SubSeq(piece, 1, n)
        /\ refused' = refused \cup {piece[i] : i \in n + 1..Len(piece)}

\* write(): the file has not reached activateSize
WriteDirect(n) ==
    /\ pc = "idle" /\ total + n <= MaxTotal
    /\ total + n < activateSize
    /\ total' = total + n
    /\ next' = next + n
    /\ SystemWrite(Bytes(next, next + n - 1))
    /\ UNCHANGED <<sizes, allocated, data, w, len, pc>>

\* write(): otherwise, up to the loop.  What is missing of the first
\* activateSize bytes is written directly.
Allocate ==
    IF allocated THEN UNCHANGED <<allocated, data, w>>
    ELSE /\ allocated' = TRUE
         /\ data' = [i \in 0..bufferSize - 1 |-> Garbage]
         /\ w' = 0

WriteLimited(n) ==
    /\ pc = "idle" /\ total + n <= MaxTotal
    /\ total + n >= activateSize
    /\ allocated \/ bufferSize <= MaxAlloc
    /\ total' = total + n
    /\ Allocate
    /\ LET first == IF total < activateSize THEN activateSize - total ELSE 0
       IN  /\ SystemWrite(Bytes(next, next + first - 1))
           /\ next' = next + first
           /\ len' = n - first
    /\ pc' = "copy"
    /\ UNCHANGED sizes

\* new char[bufferSize] throws in the time stamper thread.
BadAlloc(n) ==
    /\ pc = "idle" /\ total + n <= MaxTotal
    /\ total + n >= activateSize
    /\ ~allocated /\ bufferSize > MaxAlloc
    /\ total' = total + n
    /\ pc' = "terminated"
    /\ UNCHANGED <<sizes, allocated, data, w, next, len, file, refused>>

\* write(): a turn of the loop
Chunk == IF len > bufferSize - w THEN bufferSize - w ELSE len

MutNoWrap ==
    /\ pc = "copy"
    /\ data' = [i \in DOMAIN data |->
                   IF i \in w..w + Chunk - 1 THEN next + i - w ELSE data[i]]
    /\ len' = len - Chunk
    /\ next' = next + Chunk
    /\ w' = IF w + Chunk > bufferSize THEN 0 ELSE w + Chunk
    /\ pc' = IF len' > 0 THEN "copy" ELSE "idle"
    /\ UNCHANGED <<sizes, total, allocated, file, refused>>

MutLoopsForever ==
    /\ pc = "copy"
    /\ data' = [i \in DOMAIN data |->
                   IF i \in w..w + Chunk - 1 THEN next + i - w ELSE data[i]]
    /\ len' = len - Chunk
    /\ next' = next + Chunk
    /\ w' = IF w + Chunk >= bufferSize THEN 0 ELSE w + Chunk
    /\ pc' = IF len' >= 0 THEN "copy" ELSE "idle"
    /\ UNCHANGED <<sizes, total, allocated, file, refused>>

CopyChunk ==
    /\ pc = "copy"
    /\ data' = [i \in DOMAIN data |->
                   IF i \in w..w + Chunk - 1 THEN next + i - w ELSE data[i]]
    /\ len' = len - Chunk
    /\ next' = next + Chunk
    /\ w' = IF w + Chunk >= bufferSize THEN 0 ELSE w + Chunk
    /\ pc' = IF len' > 0 THEN "copy" ELSE "idle"
    /\ UNCHANGED <<sizes, total, allocated, file, refused>>

\* flush(), called by the destructor: three calls of systemWrite() at most
Buffer(first, last) == [i \in 1..last - first + 1 |-> data[first + i - 1]]

MutBufferFromStart ==
    IF ~allocated THEN <<>>
    ELSE IF total <= maxSize THEN <<Buffer(0, total - activateSize - 1)>>
    ELSE <<<<Message>>, Buffer(0, bufferSize - 1)>>

ToFlush ==
    IF ~allocated THEN <<>>
    ELSE IF total <= maxSize THEN <<Buffer(0, total - activateSize - 1)>>
    ELSE <<<<Message>>, Buffer(w, bufferSize - 1), Buffer(0, w - 1)>>

Flush ==
    /\ pc = "idle"
    /\ pc' = "closed"
    /\ LET pieces == ToFlush IN
       \E sent \in [DOMAIN pieces -> 0..MaxTotal] :
          /\ \A p \in DOMAIN pieces : sent[p] \in Sent(pieces[p])
          /\ file' = file \o FlattenSeq([p \in DOMAIN pieces |->
                                          SubSeq(pieces[p], 1, sent[p])])
          /\ refused' = refused \cup
                UNION {{pieces[p][i] : i \in sent[p] + 1..Len(pieces[p])} :
                          p \in DOMAIN pieces}
    /\ UNCHANGED <<sizes, total, allocated, data, w, next, len>>

Done == pc \in {"closed", "terminated"} /\ UNCHANGED vars

Write == \E n \in 1..MaxLen : WriteDirect(n) \/ WriteLimited(n) \/ BadAlloc(n)

Next == Write \/ CopyChunk \/ Flush \/ Done

Spec == Init /\ [][Next]_vars

\* The time stamper thread goes on with a call of write() once it began.
FairSpec == Spec /\ WF_vars(CopyChunk)
-----------------------------------------------------------------------------
\* How many bytes were dealt with: those of the calls of write() so far.
Received == next - 1

\* The buffer always holds the last bytes that were dealt with, in circular
\* order from w: each at its place, and only bytes that the file lacks.
RingHoldsLast ==
    allocated =>
        /\ w < bufferSize
        /\ \A i \in 0..bufferSize - 1 :
              data[i] = IF i < w THEN Received - w + i + 1
                        ELSE IF Received >= maxSize
                             THEN Received - w - bufferSize + i + 1
                             ELSE Garbage

\* write() returns, whatever its length.
WriteReturns == pc = "copy" ~> pc = "idle"

\* The file is what OutputLimit promises, at every step and when it is closed,
\* except for the bytes that the system refused.
Limit == INSTANCE OutputLimit
            WITH start <- activateSize, max <- maxSize, received <- Received,
                 output <- file, closed <- pc = "closed"
LimitSpec == Limit!Spec
=============================================================================
