--------------------- MODULE CircularBufferFilter_proofs ---------------------
(***************************************************************************)
(* Proofs about CircularBufferFilter, for all limits, allocations, lengths *)
(* of the calls of write() and failures of the system, as long as the      *)
(* limits kept their order when they were converted to bytes:              *)
(*   RingIsRight   the circular buffer holds the last bytes of the output; *)
(*   LoopProgress  the loop of write() ends;                               *)
(*   LimitIsKept   the file is what OutputLimit promises.                  *)
(***************************************************************************)
EXTENDS CircularBufferFilter, SequenceLemmas, SequenceTheorems, TLAPS

Ordered == activateSize < maxSize

SizesInv ==
    /\ activateSize \in Nat /\ maxSize \in Nat /\ Ordered
    /\ bufferSize = maxSize - activateSize

\* Where write() is: the buffer is allocated when the bytes dealt with reach
\* activateSize, and not before.
ProgressInv ==
    /\ next \in Nat \ {0} /\ len \in Nat /\ total \in Nat
    /\ pc \in {"idle", "copy"} => total = Received + len
    /\ pc = "idle" => len = 0
    /\ pc = "copy" => allocated
    /\ IF allocated THEN Received >= activateSize ELSE Received <= activateSize

\* As long as the buffer never was full, it fills up from its start, and starts
\* again there just when it is full.
RingInv ==
    allocated =>
        /\ w \in Nat /\ DOMAIN data = 0..bufferSize - 1
        /\ Received < maxSize => w = Received - activateSize
        /\ Received = maxSize => w = 0
        /\ RingHoldsLast

FilterInv == SizesInv /\ ProgressInv /\ RingInv

LEMMA SizesStart ==
    ASSUME Init, Ordered
    PROVE  SizesInv
<1>1. ASSUME NEW x \in Int PROVE x % SizeValues \in 0..SizeValues - 1
  BY FilterAssumption
<1>2. ASSUME NEW u \in Nat PROVE SizeInBytes(u) \in 0..SizeValues - 1
  <2>1. u * MiB \in Int /\ (u * MiB) % IntValues \in Int
    BY FilterAssumption
  <2>2. AsInt(u * MiB) \in Int
    BY <2>1, FilterAssumption DEF AsInt
  <2> QED
    BY <1>1, <2>2 DEF SizeInBytes
<1>3. activateSize \in 0..SizeValues - 1 /\ maxSize \in 0..SizeValues - 1
  BY <1>2, FilterAssumption DEF Init
<1>4. bufferSize = (maxSize - activateSize) % SizeValues
  BY DEF Init
<1> QED
  BY <1>3, <1>4, FilterAssumption DEF SizesInv, Ordered

LEMMA FilterStart ==
    ASSUME Init, Ordered
    PROVE  FilterInv
<1>1. SizesInv
  BY SizesStart
<1>2. ProgressInv
  BY <1>1 DEF Init, ProgressInv, Received, SizesInv
<1>3. RingInv
  BY DEF Init, RingInv
<1> QED
  BY <1>1, <1>2, <1>3 DEF FilterInv

\* Up to its loop, write() leaves the buffer alone, or allocates it just when
\* the file reaches activateSize.
LEMMA WriteStep ==
    ASSUME FilterInv, NEW n \in 1..MaxLen,
           WriteDirect(n) \/ WriteLimited(n) \/ BadAlloc(n)
    PROVE  FilterInv'
<1> USE FilterAssumption
<1>1. SizesInv'
  BY DEF FilterInv, SizesInv, WriteDirect, WriteLimited, BadAlloc, sizes, Ordered
<1>2. CASE WriteDirect(n)
  <2>1. ProgressInv'
    BY <1>2 DEF WriteDirect, FilterInv, ProgressInv, SizesInv, Received, sizes
  <2>2. ~allocated
    BY <1>2 DEF WriteDirect, FilterInv, ProgressInv, SizesInv, Received
  <2>3. RingInv'
    BY <1>2, <2>2 DEF WriteDirect, RingInv
  <2> QED
    BY <1>1, <2>1, <2>3 DEF FilterInv
<1>3. CASE BadAlloc(n)
  <2>1. ProgressInv'
    BY <1>3 DEF BadAlloc, FilterInv, ProgressInv, SizesInv, Received, sizes
  <2>2. RingInv'
    BY <1>3 DEF BadAlloc, RingInv
  <2> QED
    BY <1>1, <2>1, <2>2 DEF FilterInv
<1>4. CASE WriteLimited(n)
  <2> DEFINE first == IF total < activateSize THEN activateSize - total ELSE 0
  <2>1. /\ pc = "idle" /\ total + n >= activateSize /\ total' = total + n
        /\ next' = next + first /\ len' = n - first /\ pc' = "copy"
        /\ UNCHANGED sizes /\ Allocate
    BY <1>4 DEF WriteLimited
  <2>2. total = Received /\ len = 0
    BY <2>1 DEF FilterInv, ProgressInv, SizesInv, Received
  <2>3. allocated'
    BY <2>1 DEF Allocate
  <2>4. ProgressInv'
    BY <2>1, <2>2, <2>3 DEF FilterInv, ProgressInv, SizesInv, Received, sizes
  <2>5. CASE allocated
    <3>1. first = 0
      BY <2>2, <2>5 DEF FilterInv, ProgressInv, SizesInv, Received
    <3>2. UNCHANGED <<next, allocated, data, w, sizes>>
      BY <2>1, <2>5, <3>1 DEF Allocate, FilterInv, ProgressInv
    <3>3. RingInv'
      BY <3>2 DEF FilterInv, RingInv, RingHoldsLast, Received, sizes
    <3> QED
      BY <1>1, <2>4, <3>3 DEF FilterInv
  <2>6. CASE ~allocated
    <3>1. Received' = activateSize
      BY <2>1, <2>2, <2>6 DEF FilterInv, ProgressInv, SizesInv, Received
    <3>2. /\ data' = [i \in 0..bufferSize - 1 |-> Garbage] /\ w' = 0
          /\ UNCHANGED <<activateSize, maxSize, bufferSize>>
      BY <2>1, <2>6 DEF Allocate, sizes
    <3>3. bufferSize \in Nat /\ 0 < bufferSize
          /\ activateSize \in Nat /\ activateSize < maxSize /\ maxSize \in Nat
      BY DEF FilterInv, SizesInv, Ordered
    <3>4. RingHoldsLast'
      BY <3>1, <3>2, <3>3 DEF RingHoldsLast
    <3>5. RingInv'
      BY <3>1, <3>2, <3>3, <3>4 DEF RingInv
    <3> QED
      BY <1>1, <2>4, <3>5 DEF FilterInv
  <2> QED
    BY <2>5, <2>6
<1> QED
  BY <1>2, <1>3, <1>4

\* A turn of the loop: the chunk replaces the oldest bytes.
LEMMA CopyStep ==
    ASSUME FilterInv, CopyChunk
    PROVE  FilterInv' /\ (len > 0 => len' < len)
<1> DEFINE B == bufferSize
           R == Received
           m == Chunk
<1>1. /\ B \in Nat /\ B > 0 /\ R \in Nat /\ len \in Nat /\ allocated
      /\ activateSize \in Nat /\ maxSize = activateSize + B
      /\ R >= activateSize /\ w \in Nat /\ w < B
      /\ DOMAIN data = 0..B - 1 /\ next = R + 1
      /\ R < maxSize => w = R - activateSize
      /\ R = maxSize => w = 0
  BY DEF CopyChunk, FilterInv, SizesInv, ProgressInv, RingInv, Ordered, Received,
         RingHoldsLast
<1>2. m \in Nat /\ m <= B - w /\ m <= len /\ (len > 0 => m > 0)
  BY <1>1 DEF Chunk
<1>3. /\ UNCHANGED <<activateSize, maxSize, bufferSize, total, allocated>>
      /\ len' = len - m /\ Received' = R + m /\ next' = next + m
      /\ w' = IF w + m >= B THEN 0 ELSE w + m
      /\ pc' = IF len' > 0 THEN "copy" ELSE "idle"
  BY <1>1, <1>2 DEF CopyChunk, Received, sizes
<1>4. SizesInv'
  BY <1>3 DEF FilterInv, SizesInv, Ordered
<1>5. ProgressInv'
  BY <1>1, <1>2, <1>3 DEF FilterInv, ProgressInv, CopyChunk, Received
<1>6. DOMAIN data' = 0..B - 1 /\ w' \in Nat /\ w' < B
  BY <1>1, <1>2, <1>3 DEF CopyChunk
<1>7. /\ Received' < maxSize' => w' = Received' - activateSize'
      /\ Received' = maxSize' => w' = 0
  <2> HIDE DEF m, R, B
  <2> QED
    BY <1>1, <1>2, <1>3
<1>8. ASSUME NEW i \in 0..B - 1
      PROVE  data'[i] = IF i < w' THEN Received' - w' + i + 1
                        ELSE IF Received' >= maxSize'
                             THEN Received' - w' - B + i + 1
                             ELSE Garbage
  <2>1. data'[i] = IF i \in w..w + m - 1 THEN next + i - w ELSE data[i]
    BY <1>1 DEF CopyChunk
  <2>2. data[i] = IF i < w THEN R - w + i + 1
                  ELSE IF R >= maxSize THEN R - w - B + i + 1 ELSE Garbage
    BY <1>1 DEF FilterInv, RingInv, RingHoldsLast
  <2>3. i \in Int /\ 0 <= i /\ i < B /\ maxSize' = maxSize
    BY <1>1, <1>3
  <2> HIDE DEF m, R, B
  <2>4. i \in w..w + m - 1 <=> w <= i /\ i < w + m
    BY <1>1, <1>2, <2>3
  <2>5. i < w + m => data'[i] = R - w + i + 1
    <3>1. CASE i < w
      BY <2>1, <2>2, <2>4, <1>1, <1>2, <2>3, <3>1
    <3>2. CASE w <= i /\ i < w + m
      <4>1. data'[i] = next + i - w
        BY <2>1, <2>4, <3>2
      <4> QED
        BY <1>1, <2>3, <4>1
    <3> QED
      BY <1>1, <1>2, <2>3, <3>1, <3>2
  <2>6. i >= w + m =>
          data'[i] = IF R >= maxSize THEN R - w - B + i + 1 ELSE Garbage
    <3> SUFFICES ASSUME i >= w + m
                 PROVE  data'[i] = IF R >= maxSize THEN R - w - B + i + 1
                                   ELSE Garbage
      OBVIOUS
    <3>1. ~(i < w) /\ ~(i < w + m)
      BY <1>1, <1>2, <2>3
    <3> QED
      BY <2>1, <2>2, <2>4, <3>1
  <2>7. CASE w + m >= B
    <3>1. w' = 0 /\ w + m = B /\ Received' = R + m
      BY <1>1, <1>2, <1>3, <2>7
    <3>2. Received' >= maxSize' /\ Received' - w' - B + i + 1 = R - w + i + 1
      BY <1>1, <1>2, <2>3, <3>1
    <3>3. ~(i < w') /\ i < w + m
      BY <2>3, <3>1
    <3> QED
      BY <2>5, <3>2, <3>3
  <2>8. CASE w + m < B
    <3>1. w' = w + m /\ Received' = R + m
      BY <1>1, <1>2, <1>3, <2>8
    <3>2. Received' - w' + i + 1 = R - w + i + 1
      BY <1>1, <1>2, <2>3, <3>1
    <3>3. Received' - w' - B + i + 1 = R - w - B + i + 1
      BY <1>1, <1>2, <2>3, <3>1
    <3>4. R >= maxSize <=> Received' >= maxSize'
      BY <1>1, <1>2, <2>3, <2>8, <3>1
    <3>5. i < w + m \/ i >= w + m
      BY <1>1, <1>2, <2>3
    <3> QED
      BY <1>1, <1>2, <2>3, <2>5, <2>6, <3>1, <3>2, <3>3, <3>4, <3>5
  <2> QED
    BY <1>1, <1>2, <2>7, <2>8
<1>9. RingInv'
  BY <1>3, <1>6, <1>7, <1>8 DEF RingInv, RingHoldsLast
<1> QED
  BY <1>1, <1>2, <1>3, <1>4, <1>5, <1>9 DEF FilterInv

LEMMA FilterStep ==
    ASSUME FilterInv, [Next]_vars
    PROVE  FilterInv'
<1>1. CASE Write
  BY <1>1, WriteStep DEF Write
<1>2. CASE CopyChunk
  BY <1>2, CopyStep
<1>3. CASE Flush
  BY <1>3 DEF Flush, FilterInv, SizesInv, ProgressInv, RingInv, RingHoldsLast,
              Received, Ordered, sizes
<1>4. CASE UNCHANGED vars
  BY <1>4 DEF vars, FilterInv, SizesInv, ProgressInv, RingInv, RingHoldsLast,
              Received, Ordered
<1> QED
  BY <1>1, <1>2, <1>3, <1>4 DEF Next, Done

\* The buffer holds the last bytes, each at its place: what flush() appends to
\* the file is the end of the output, in order.
THEOREM RingIsRight == Spec /\ Ordered => []RingHoldsLast
<1>1. Init /\ Ordered => FilterInv
  BY FilterStart
<1>2. FilterInv /\ [Next]_vars => FilterInv'
  BY FilterStep
<1>3. FilterInv => RingHoldsLast
  BY DEF FilterInv, RingInv, RingHoldsLast
<1> QED
  BY <1>1, <1>2, <1>3, PTL DEF Spec

\* Every turn of the loop of write() deals with one byte at least, so that the
\* loop ends: it does not when the buffer is empty.
THEOREM LoopProgress ==
    Spec /\ Ordered => [][pc = "copy" /\ len > 0 => len' < len]_vars
<1>1. Init /\ Ordered => FilterInv
  BY FilterStart
<1>2. FilterInv /\ [Next]_vars => FilterInv'
  BY FilterStep
<1>3. FilterInv /\ [Next]_vars => [pc = "copy" /\ len > 0 => len' < len]_vars
  BY CopyStep DEF Next, Write, WriteDirect, WriteLimited, BadAlloc, Flush, Done
<1> QED
  BY <1>1, <1>2, <1>3, PTL DEF Spec
-----------------------------------------------------------------------------
(***************************************************************************)
(* The promise of OutputLimit.  Which bytes of a piece the file keeps.     *)
(***************************************************************************)
Kept(bytes, lost) ==
    FlattenSeq([i \in DOMAIN bytes |->
        IF bytes[i] \in lost THEN <<>> ELSE <<bytes[i]>>])

LEMMA LimitKept == \A bytes, lost : Limit!Kept(bytes, lost) = Kept(bytes, lost)
BY Zenon DEF Limit!Kept, Kept, Limit!FlattenSeq, FlattenSeq

LEMMA KeptAppend ==
    ASSUME NEW T, NEW q \in Seq(T), NEW e \in T, NEW lost
    PROVE  /\ Kept(q, lost) \in Seq(T)
           /\ Kept(Append(q, e), lost) =
                IF e \in lost THEN Kept(q, lost) ELSE Append(Kept(q, lost), e)
<1> DEFINE r == Append(q, e)
           n == Len(q)
           x == IF e \in lost THEN <<>> ELSE <<e>>
           pp == [k \in DOMAIN q |-> IF q[k] \in lost THEN <<>> ELSE <<q[k]>>]
           qq == [k \in DOMAIN r |-> IF r[k] \in lost THEN <<>> ELSE <<r[k]>>]
<1>1. /\ n \in Nat /\ DOMAIN q = 1..n /\ DOMAIN r = 1..n + 1
      /\ r[n + 1] = e /\ \A k \in 1..n : r[k] = q[k] /\ q[k] \in T
  BY AppendPieces
<1> HIDE DEF r, n
<1>2. pp \in Seq(Seq(T)) /\ Len(pp) = n
  <2>1. \A k \in 1..n : pp[k] \in Seq(T)
    BY <1>1
  <2>2. pp = [k \in 1..n |-> pp[k]]
    BY <1>1
  <2> HIDE DEF pp
  <2> QED
    BY <1>1, <2>1, <2>2
<1>3. x \in Seq(T)
  OBVIOUS
<1>4. qq = Append(pp, x)
  <2>1. qq[n + 1] = x /\ \A k \in 1..n : qq[k] = pp[k]
    BY <1>1
  <2>2. DOMAIN qq = 1..n + 1 /\ qq = [k \in DOMAIN qq |-> qq[k]]
    BY <1>1
  <2> HIDE DEF qq, pp, x
  <2> QED
    BY <1>1, <1>2, <1>3, <2>1, <2>2, MappedAppend
<1>5. Kept(q, lost) = FlattenSeq(pp) /\ Kept(r, lost) = FlattenSeq(qq)
  BY Zenon DEF Kept
<1> HIDE DEF pp, qq
<1>6. FlattenSeq(pp) \in Seq(T) /\ FlattenSeq(qq) = FlattenSeq(pp) \o x
  <2> HIDE DEF x
  <2> QED
    BY <1>2, <1>3, <1>4, FlattenAppend
<1>7. Kept(r, lost) = Kept(q, lost) \o x /\ Kept(q, lost) \in Seq(T)
  BY <1>5, <1>6
<1> QED
  BY <1>7 DEF r

LEMMA KeptType ==
    ASSUME NEW T, NEW q \in Seq(T), NEW lost
    PROVE  Kept(q, lost) \in Seq(T)
<1> DEFINE pp == [k \in DOMAIN q |-> IF q[k] \in lost THEN <<>> ELSE <<q[k]>>]
<1>1. pp \in Seq(Seq(T))
  <2>1. Len(q) \in Nat /\ DOMAIN q = 1..Len(q) /\ \A k \in 1..Len(q) : q[k] \in T
    OBVIOUS
  <2>2. \A k \in 1..Len(q) : pp[k] \in Seq(T)
    BY <2>1
  <2>3. pp = [k \in 1..Len(q) |-> pp[k]]
    BY <2>1
  <2> HIDE DEF pp
  <2> QED
    BY <2>1, <2>2, <2>3
<1>2. Kept(q, lost) = FlattenSeq(pp)
  BY Zenon DEF Kept
<1> HIDE DEF pp
<1>3. <<>> \in Seq(T)
  OBVIOUS
<1> QED
  BY <1>1, <1>2, <1>3, FlattenAppend, Zenon

LEMMA KeptNothing ==
    ASSUME NEW lost
    PROVE  Kept(<<>>, lost) = <<>>
BY DEF Kept, FlattenSeq

\* Only what is in the piece matters.
LEMMA KeptSame ==
    ASSUME NEW T, NEW q \in Seq(T), NEW lost, NEW more,
           \A k \in 1..Len(q) : q[k] \in lost <=> q[k] \in more
    PROVE  Kept(q, lost) = Kept(q, more)
<1> DEFINE pp == [k \in DOMAIN q |-> IF q[k] \in lost THEN <<>> ELSE <<q[k]>>]
           qq == [k \in DOMAIN q |-> IF q[k] \in more THEN <<>> ELSE <<q[k]>>]
<1>1. pp = qq
  <2>1. DOMAIN q = 1..Len(q)
    OBVIOUS
  <2> QED
    BY <2>1
<1>2. Kept(q, lost) = FlattenSeq(pp) /\ Kept(q, more) = FlattenSeq(qq)
  BY Zenon DEF Kept
<1> HIDE DEF pp, qq
<1> QED
  BY <1>1, <1>2

LEMMA KeptConcat ==
    ASSUME NEW T, NEW a \in Seq(T), NEW b \in Seq(T), NEW lost
    PROVE  Kept(a \o b, lost) = Kept(a, lost) \o Kept(b, lost)
<1> DEFINE front(k) == SubSeq(b, 1, k)
           S == {k \in 0..Len(b) :
                   Kept(a \o front(k), lost) = Kept(a, lost) \o Kept(front(k), lost)}
<1>1. Kept(a, lost) \in Seq(T)
  BY KeptType
<1>2. 0 \in S
  <2>1. front(0) = <<>>
    BY WholePrefix
  <2>2. a \o <<>> = a /\ Kept(a, lost) \o <<>> = Kept(a, lost)
    BY <1>1
  <2>3. 0 \in 0..Len(b)
    OBVIOUS
  <2> HIDE DEF front
  <2> QED
    BY <2>1, <2>2, <2>3, KeptNothing
<1>3. ASSUME NEW k \in 1..Len(b), k - 1 \in S PROVE k \in S
  <2> DEFINE c == front(k - 1)
             e == b[k]
  <2>1. front(k) = Append(c, e) /\ c \in Seq(T) /\ e \in T
    BY PrefixAppend, WholePrefix
  <2>2. Kept(a \o c, lost) = Kept(a, lost) \o Kept(c, lost)
    BY <1>3
  <2>3. k \in 0..Len(b)
    OBVIOUS
  <2> HIDE DEF front, c, e
  <2>4. a \o c \in Seq(T) /\ a \o Append(c, e) = Append(a \o c, e)
    BY <2>1
  <2>5. /\ Kept(Append(c, e), lost) =
              IF e \in lost THEN Kept(c, lost) ELSE Append(Kept(c, lost), e)
        /\ Kept(c, lost) \in Seq(T)
    BY <2>1, KeptAppend
  <2>6. Kept(Append(a \o c, e), lost) =
            IF e \in lost THEN Kept(a \o c, lost) ELSE Append(Kept(a \o c, lost), e)
    <3> DEFINE d == a \o c
    <3>1. d \in Seq(T)
      BY <2>4
    <3> HIDE DEF d
    <3>2. Kept(Append(d, e), lost) =
              IF e \in lost THEN Kept(d, lost) ELSE Append(Kept(d, lost), e)
      BY <2>1, <3>1, KeptAppend
    <3> QED
      BY <3>2 DEF d
  <2>7. Kept(a, lost) \o Append(Kept(c, lost), e) =
            Append(Kept(a, lost) \o Kept(c, lost), e)
    BY <1>1, <2>1, <2>5
  <2>8. Kept(a \o front(k), lost) = Kept(a, lost) \o Kept(front(k), lost)
    <3>1. CASE e \in lost
      BY <2>1, <2>2, <2>4, <2>5, <2>6, <3>1, Zenon
    <3>2. CASE e \notin lost
      BY <2>1, <2>2, <2>4, <2>5, <2>6, <2>7, <3>2, Zenon
    <3> QED
      BY <3>1, <3>2
  <2> QED
    BY <2>3, <2>8
<1>4. Len(b) \in Nat /\ front(Len(b)) = b
  BY WholePrefix
<1> HIDE DEF S
<1>5. Len(b) \in S
  <2>1. 0..Len(b) \subseteq S
    BY <1>2, <1>3, <1>4, Induction
  <2> QED
    BY <1>4, <2>1
<1> QED
  BY <1>4, <1>5, Zenon DEF S

LEMMA KeptAll ==
    ASSUME NEW T, NEW q \in Seq(T), NEW lost,
           \A k \in 1..Len(q) : q[k] \notin lost
    PROVE  Kept(q, lost) = q
<1> DEFINE front(k) == SubSeq(q, 1, k)
           S == {k \in 0..Len(q) : Kept(front(k), lost) = front(k)}
<1>1. 0 \in S
  <2>1. front(0) = <<>> /\ 0 \in 0..Len(q)
    BY WholePrefix
  <2> HIDE DEF front
  <2> QED
    BY <2>1, KeptNothing
<1>2. ASSUME NEW k \in 1..Len(q), k - 1 \in S PROVE k \in S
  <2> DEFINE c == front(k - 1)
             e == q[k]
  <2>1. front(k) = Append(c, e) /\ c \in Seq(T) /\ e \in T
    BY PrefixAppend, WholePrefix
  <2>2. e \notin lost /\ Kept(c, lost) = c /\ k \in 0..Len(q)
    BY <1>2
  <2> HIDE DEF front, c, e
  <2>3. Kept(Append(c, e), lost) =
            IF e \in lost THEN Kept(c, lost) ELSE Append(Kept(c, lost), e)
    BY <2>1, KeptAppend
  <2> QED
    BY <2>1, <2>2, <2>3, Zenon
<1>3. Len(q) \in Nat /\ front(Len(q)) = q
  BY WholePrefix
<1> HIDE DEF S
<1>4. Len(q) \in S
  <2>1. 0..Len(q) \subseteq S
    BY <1>1, <1>2, <1>3, Induction
  <2> QED
    BY <1>3, <2>1
<1> QED
  BY <1>3, <1>4, Zenon DEF S

LEMMA KeptNone ==
    ASSUME NEW T, NEW q \in Seq(T), NEW lost,
           \A k \in 1..Len(q) : q[k] \in lost
    PROVE  Kept(q, lost) = <<>>
<1> DEFINE front(k) == SubSeq(q, 1, k)
           S == {k \in 0..Len(q) : Kept(front(k), lost) = <<>>}
<1>1. 0 \in S
  <2>1. front(0) = <<>> /\ 0 \in 0..Len(q)
    BY WholePrefix
  <2> HIDE DEF front
  <2> QED
    BY <2>1, KeptNothing
<1>2. ASSUME NEW k \in 1..Len(q), k - 1 \in S PROVE k \in S
  <2> DEFINE c == front(k - 1)
             e == q[k]
  <2>1. /\ front(k) = Append(c, e) /\ c \in Seq(T) /\ e \in T /\ e \in lost
        /\ Kept(c, lost) = <<>> /\ k \in 0..Len(q)
    BY <1>2, PrefixAppend, WholePrefix
  <2> HIDE DEF front, c, e
  <2>2. Kept(Append(c, e), lost) =
            IF e \in lost THEN Kept(c, lost) ELSE Append(Kept(c, lost), e)
    BY <2>1, KeptAppend
  <2> QED
    BY <2>1, <2>2, Zenon
<1>3. Len(q) \in Nat /\ front(Len(q)) = q
  BY WholePrefix
<1> HIDE DEF S
<1>4. Len(q) \in S
  <2>1. 0..Len(q) \subseteq S
    BY <1>1, <1>2, <1>3, Induction
  <2> QED
    BY <1>3, <2>1
<1> QED
  BY <1>3, <1>4, Zenon DEF S

\* systemWrite() keeps the beginning of a piece.
LEMMA KeptBeginning ==
    ASSUME NEW T, NEW q \in Seq(T), NEW n \in 0..Len(q), NEW lost,
           \A k \in 1..Len(q) : q[k] \in lost <=> k > n
    PROVE  Kept(q, lost) = SubSeq(q, 1, n)
<1> DEFINE a == SubSeq(q, 1, n)
           z == SubSeq(q, n + 1, Len(q))
<1>1. /\ a \in Seq(T) /\ Len(a) = n /\ \A k \in 1..n : a[k] = q[k]
      /\ z \in Seq(T) /\ Len(z) = Len(q) - n
      /\ \A k \in 1..Len(q) - n : z[k] = q[n + k]
  OBVIOUS
<1>2. q = a \o z
  <2>1. Len(q) \in Nat /\ 1 \in 1..Len(q) + 1 /\ n \in 1 - 1..Len(q) /\ Len(q) \in n..Len(q)
    OBVIOUS
  <2>2. a \o z = SubSeq(q, 1, Len(q))
    BY <2>1, ConcatAdjacentSubSeq
  <2> QED
    BY <2>2, WholePrefix
<1>3. \A k \in 1..Len(a) : a[k] \notin lost
  <2> SUFFICES ASSUME NEW k \in 1..Len(a) PROVE a[k] \notin lost
    OBVIOUS
  <2>1. k \in 1..n /\ k \in 1..Len(q) /\ ~(k > n)
    BY <1>1
  <2> QED
    BY <1>1, <2>1
<1>4. \A k \in 1..Len(z) : z[k] \in lost
  <2> SUFFICES ASSUME NEW k \in 1..Len(z) PROVE z[k] \in lost
    OBVIOUS
  <2>1. k \in 1..Len(q) - n /\ n + k \in 1..Len(q) /\ n + k > n
    BY <1>1
  <2> QED
    BY <1>1, <2>1
<1> HIDE DEF a, z
<1>5. Kept(a \o z, lost) = Kept(a, lost) \o Kept(z, lost)
  BY <1>1, KeptConcat
<1>6. Kept(a, lost) = a
  BY <1>1, <1>3, KeptAll
<1>7. Kept(z, lost) = <<>>
  BY <1>1, <1>4, KeptNone
<1>8. a \o <<>> = a
  BY <1>1
<1> QED
  BY <1>2, <1>5, <1>6, <1>7, <1>8, Zenon DEF a

LEMMA BytesAre ==
    ASSUME NEW first \in Int, NEW last \in Int, last >= first - 1
    PROVE  /\ Bytes(first, last) \in Seq(Int)
           /\ Len(Bytes(first, last)) = last - first + 1
           /\ \A k \in 1..last - first + 1 : Bytes(first, last)[k] = first + k - 1
<1> DEFINE n == last - first + 1
           q == Bytes(first, last)
<1>1. n \in Nat
  OBVIOUS
<1>2. q = [k \in 1..n |-> first + k - 1]
  BY Zenon DEF Bytes
<1> HIDE DEF n, q
<1>3. q \in Seq(Int) /\ Len(q) = n /\ \A k \in 1..n : q[k] = first + k - 1
  <2>1. \A k \in 1..n : first + k - 1 \in Int
    BY <1>1
  <2> QED
    BY <1>1, <1>2, <2>1
<1> QED
  BY <1>3 DEF n, q

LEMMA BytesSplit ==
    ASSUME NEW first \in Int, NEW middle \in Int, NEW last \in Int,
           first - 1 <= middle, middle <= last
    PROVE  Bytes(first, last) = Joined(Bytes(first, middle), Bytes(middle + 1, last))
<1> DEFINE a == Bytes(first, middle)
           z == Bytes(middle + 1, last)
           q == Bytes(first, last)
           m == middle - first + 1
           n == last - first + 1
<1>1. /\ m \in Nat /\ n \in Nat /\ m <= n /\ last - (middle + 1) + 1 = n - m
      /\ last >= first - 1 /\ middle >= first - 1 /\ last >= (middle + 1) - 1
      /\ middle + 1 \in Int
  OBVIOUS
<1>2. a \in Seq(Int) /\ Len(a) = m /\ \A k \in 1..m : a[k] = first + k - 1
  BY <1>1, BytesAre
<1>3. z \in Seq(Int) /\ Len(z) = n - m /\ \A k \in 1..n - m : z[k] = (middle + 1) + k - 1
  BY <1>1, BytesAre
<1>4. q \in Seq(Int) /\ Len(q) = n /\ \A k \in 1..n : q[k] = first + k - 1
  BY <1>1, BytesAre
<1> HIDE DEF a, z, q
<1>5. /\ a \o z \in Seq(Int) /\ Len(a \o z) = Len(a) + Len(z)
      /\ \A k \in 1..Len(a) + Len(z) :
            (a \o z)[k] = IF k <= Len(a) THEN a[k] ELSE z[k - Len(a)]
  BY <1>2, <1>3, ConcatProperties
<1>6. ASSUME NEW k \in 1..n PROVE (a \o z)[k] = q[k]
  <2>1. q[k] = first + k - 1 /\ k \in 1..Len(a) + Len(z)
    BY <1>1, <1>2, <1>3, <1>4
  <2>2. CASE k <= m
    BY <1>2, <1>5, <2>1, <2>2
  <2>3. CASE k > m
    <3>1. k - m \in 1..n - m /\ (middle + 1) + (k - m) - 1 = first + k - 1 /\ ~(k <= m)
      BY <1>1, <2>3
    <3> QED
      BY <1>2, <1>3, <1>5, <2>1, <3>1
  <2>4. k <= m \/ k > m
    BY <1>1
  <2> QED
    BY <2>2, <2>3, <2>4
<1>7. Len(a \o z) = Len(q)
  BY <1>1, <1>2, <1>3, <1>4, <1>5
<1>8. \A k \in 1..Len(q) : q[k] = (a \o z)[k]
  BY <1>4, <1>6
<1> DEFINE c == a \o z
<1> HIDE DEF c
<1> QED
  BY <1>4, <1>5, <1>7, <1>8, SeqEqual DEF a, z, q, c, Joined
-----------------------------------------------------------------------------
(***************************************************************************)
(* What the file holds: the first bytes, without those that were refused.  *)
(***************************************************************************)
Written == IF Received < activateSize THEN Received ELSE activateSize

FileInv ==
    pc # "closed" =>
        /\ refused \subseteq 1..Written
        /\ file = Kept(Bytes(1, Written), refused)

Unsent(q, n) == {q[k] : k \in n + 1..Len(q)}

LEMMA BytesElements ==
    ASSUME NEW first \in Int, NEW last \in Int, last >= first - 1
    PROVE  Bytes(first, last) \in Seq(first..last)
<1> DEFINE q == Bytes(first, last)
<1>1. /\ q \in Seq(Int) /\ Len(q) = last - first + 1
      /\ \A k \in 1..last - first + 1 : q[k] = first + k - 1
  BY BytesAre
<1> HIDE DEF q
<1>2. \A k \in 1..Len(q) : q[k] \in first..last
  BY <1>1
<1>3. q \in Seq(first..last)
  BY <1>1, <1>2
<1> QED
  BY <1>3 DEF q

LEMMA BytesUnsent ==
    ASSUME NEW first \in Int, NEW last \in Int, last >= first - 1,
           NEW n \in 0..Len(Bytes(first, last))
    PROVE  Unsent(Bytes(first, last), n) \subseteq first..last
<1> DEFINE q == Bytes(first, last)
<1>1. q \in Seq(first..last) /\ n \in 0..Len(q)
  BY BytesElements
<1> HIDE DEF q
<1>2. Unsent(q, n) \subseteq first..last
  BY <1>1 DEF Unsent
<1> QED
  BY <1>2 DEF q

LEMMA BytesJoined ==
    ASSUME NEW S, NEW a \in Seq(S),
           NEW first \in Int, NEW last \in Int, last >= first - 1
    PROVE  Joined(a, Bytes(first, last)) \in Seq(S \cup (first..last))
<1> DEFINE q == Bytes(first, last)
           T == S \cup (first..last)
<1>1. q \in Seq(first..last)
  BY BytesElements
<1>2. first..last \subseteq T /\ S \subseteq T
  OBVIOUS
<1> HIDE DEF q, T
<1>3. q \in Seq(T) /\ a \in Seq(T)
  BY <1>1, <1>2, SeqWidens
<1>4. a \o q \in Seq(T)
  BY <1>3
<1> QED
  BY <1>4 DEF q, T, Joined

\* (A relation: the provers find the instances of an equation less easily.)
Keeps(bytes, lost, kept) == kept = Kept(bytes, lost)

\* systemWrite() of bytes that the file lacks
LEMMA BytesSent ==
    ASSUME NEW S \in SUBSET Int, NEW a \in Seq(S), NEW lost \in SUBSET S,
           NEW first \in Int, NEW last \in Int, last >= first - 1,
           S \cap (first..last) = {}, NEW n \in 0..Len(Bytes(first, last))
    PROVE  Keeps(Joined(a, Bytes(first, last)),
                 lost \cup Unsent(Bytes(first, last), n),
                 Joined(Kept(a, lost), SubSeq(Bytes(first, last), 1, n)))
<1> DEFINE q == Bytes(first, last)
           T == S \cup (first..last)
           more == lost \cup Unsent(q, n)
<1>1. /\ q \in Seq(first..last) /\ Len(q) = last - first + 1 /\ n \in 0..Len(q)
      /\ \A k \in 1..last - first + 1 : q[k] = first + k - 1
      /\ Unsent(q, n) \subseteq first..last
  BY BytesAre, BytesElements, BytesUnsent
<1>2. more = lost \cup Unsent(q, n)
  OBVIOUS
<1>3. first..last \subseteq T /\ S \subseteq T
  OBVIOUS
<1> HIDE DEF q, more
<1>4. q \in Seq(T) /\ a \in Seq(T)
  <2> HIDE DEF T
  <2> QED
    BY <1>1, <1>3, SeqWidens
<1>5. \A k \in 1..Len(a) : a[k] \in lost <=> a[k] \in more
  <2>1. \A k \in 1..Len(a) : a[k] \in S
    OBVIOUS
  <2> QED
    BY <1>1, <1>2, <2>1
<1>6. \A k \in 1..Len(q) : q[k] \in more <=> k > n
  <2> SUFFICES ASSUME NEW k \in 1..Len(q) PROVE q[k] \in more <=> k > n
    OBVIOUS
  <2>1. q[k] \in first..last
    BY <1>1
  <2>2. q[k] \notin lost
    BY <2>1
  <2>3. \A m \in 1..Len(q) : q[k] = q[m] => k = m
    BY <1>1
  <2>4. q[k] \in Unsent(q, n) <=> k > n
    <3>1. CASE k > n
      <4>1. k \in n + 1..Len(q)
        BY <1>1, <3>1
      <4> QED
        BY <3>1, <4>1 DEF Unsent
    <3>2. CASE ~(k > n)
      <4>1. \A m \in n + 1..Len(q) : m \in 1..Len(q) /\ k # m
        BY <1>1, <3>2
      <4>2. \A m \in n + 1..Len(q) : q[k] # q[m]
        BY <2>3, <4>1
      <4> QED
        BY <3>2, <4>2 DEF Unsent
    <3> QED
      BY <3>1, <3>2
  <2> QED
    BY <1>2, <2>2, <2>4
<1> HIDE DEF T
<1>7. Kept(a \o q, more) = Kept(a, more) \o Kept(q, more)
  BY <1>4, KeptConcat
<1>8. Kept(a, lost) = Kept(a, more)
  BY <1>4, <1>5, KeptSame
<1>9. Kept(q, more) = SubSeq(q, 1, n)
  BY <1>1, <1>4, <1>6, KeptBeginning
<1> QED
  BY <1>7, <1>8, <1>9, Zenon DEF q, more, Joined, Keeps

\* A call of write() sends the next bytes of the first activateSize ones.
LEMMA DirectSent ==
    ASSUME FilterInv, FileInv, pc # "closed", NEW k \in Nat,
           Received + k <= activateSize, SystemWrite(Bytes(next, next + k - 1))
    PROVE  /\ file' = Kept(Bytes(1, Received + k), refused')
           /\ refused \subseteq refused' /\ refused' \subseteq 1..Received + k
<1> DEFINE R == Received
           q == Bytes(next, next + k - 1)
<1>1. /\ R \in Nat /\ next = R + 1 /\ next + k - 1 = R + k /\ activateSize \in Nat
      /\ Written = R
  BY DEF FilterInv, ProgressInv, SizesInv, Received, Written
<1>2. /\ refused \in SUBSET (1..R) /\ file = Kept(Bytes(1, R), refused)
      /\ Bytes(1, R) \in Seq(1..R)
  BY <1>1, BytesElements DEF FileInv
<1>3. q = Bytes(R + 1, R + k) /\ Len(q) = k /\ R + 1 \in Int /\ R + k \in Int
  <2>1. q = Bytes(R + 1, R + k)
    BY <1>1
  <2>2. R + 1 \in Int /\ R + k \in Int /\ R + k >= (R + 1) - 1 /\ (R + k) - (R + 1) + 1 = k
    BY <1>1
  <2> HIDE DEF q, R
  <2>3. Len(Bytes(R + 1, R + k)) = (R + k) - (R + 1) + 1
    BY <2>2, BytesAre
  <2> QED
    BY <2>1, <2>2, <2>3
<1>4. PICK n \in Sent(q) :
        /\ file' = file \o SubSeq(q, 1, n)
        /\ refused' = refused \cup Unsent(q, n)
  BY DEF SystemWrite, Unsent
<1>5. n \in 0..Len(q)
  BY <1>3, <1>4 DEF Sent
<1> HIDE DEF q, R
<1>6. /\ Kept(Bytes(1, R) \o q, refused') = Kept(Bytes(1, R), refused) \o SubSeq(q, 1, n)
      /\ refused' \in SUBSET ((1..R) \cup (R + 1..R + k))
  <2>1. 1..R \in SUBSET Int /\ (1..R) \cap (R + 1..R + k) = {} /\ R + k >= (R + 1) - 1
    BY <1>1
  <2>2. n \in 0..Len(Bytes(R + 1, R + k))
        /\ refused' = refused \cup Unsent(Bytes(R + 1, R + k), n)
    BY <1>3, <1>4, <1>5
  <2> DEFINE S == 1..R
             a == Bytes(1, R)
             f == R + 1
             l == R + k
             lost == refused
  <2>3. /\ S \in SUBSET Int /\ a \in Seq(S) /\ lost \in SUBSET S
        /\ f \in Int /\ l \in Int /\ l >= f - 1 /\ S \cap (f..l) = {}
        /\ n \in 0..Len(Bytes(f, l))
    BY <1>2, <1>3, <2>1, <2>2
  <2> HIDE DEF S, a, f, l, lost
  <2>4. Keeps(Joined(a, Bytes(f, l)), lost \cup Unsent(Bytes(f, l), n),
              Joined(Kept(a, lost), SubSeq(Bytes(f, l), 1, n)))
    BY <2>3, BytesSent
  <2>5. Unsent(Bytes(f, l), n) \subseteq f..l
    BY <2>3, BytesUnsent
  <2>6. lost \cup Unsent(Bytes(f, l), n) \in SUBSET (S \cup (f..l))
    BY <2>3, <2>5
  <2>7. refused' = lost \cup Unsent(Bytes(f, l), n) /\ q = Bytes(f, l)
    BY <1>3, <2>2 DEF f, l, lost
  <2>8. Kept(Bytes(1, R) \o q, refused') = Kept(Bytes(1, R), refused) \o SubSeq(q, 1, n)
    BY <2>4, <2>7, Zenon DEF a, lost, Joined, Keeps
  <2>9. refused' \in SUBSET ((1..R) \cup (R + 1..R + k))
    BY <2>6, <2>7, Zenon DEF S, f, l
  <2> QED
    BY <2>8, <2>9
<1>7. Bytes(1, R + k) = Bytes(1, R) \o q
  <2>1. 1 \in Int /\ R \in Int /\ 1 - 1 <= R /\ R <= R + k
    BY <1>1
  <2> QED
    BY <1>3, <2>1, BytesSplit DEF Joined
<1>8. file' = Kept(Bytes(1, R + k), refused')
  BY <1>2, <1>4, <1>6, <1>7, Zenon
<1>9. (1..R) \cup (R + 1..R + k) = 1..R + k
  BY <1>1
<1>10. refused' \subseteq 1..R + k
  BY <1>6, <1>9, Zenon
<1>11. refused \subseteq refused'
  BY <1>4
<1> QED
  BY <1>8, <1>10, <1>11 DEF R

LEMMA NothingSent ==
    ASSUME FilterInv, FileInv, pc # "closed", SystemWrite(Bytes(next, next - 1))
    PROVE  UNCHANGED <<file, refused>>
<1>1. next \in Int /\ activateSize \in Nat /\ Received \in Nat
  BY DEF FilterInv, ProgressInv, SizesInv, Received
<1>2. Bytes(next, next - 1) \in Seq(Int) /\ Len(Bytes(next, next - 1)) = 0
  <2>1. next - 1 \in Int /\ next - 1 >= next - 1 /\ (next - 1) - next + 1 = 0
    BY <1>1
  <2> QED
    BY <1>1, <2>1, BytesAre
<1>3. Bytes(next, next - 1) = <<>>
  BY <1>2
<1>4. file \in Seq(Int)
  <2>1. Written \in Int /\ Written >= 1 - 1 /\ 1 \in Int
    BY <1>1 DEF Written
  <2>2. Bytes(1, Written) \in Seq(Int)
    BY <2>1, BytesAre
  <2> QED
    BY <2>2, KeptType DEF FileInv
<1> DEFINE q == Bytes(next, next - 1)
<1>5. PICK n \in Sent(q) :
        /\ file' = file \o SubSeq(q, 1, n)
        /\ refused' = refused \cup {q[i] : i \in n + 1..Len(q)}
  BY Zenon DEF SystemWrite
<1>6. q = <<>> /\ Len(q) = 0
  BY <1>2, <1>3
<1> HIDE DEF q
<1>7. n = 0
  BY <1>5, <1>6 DEF Sent
<1>8. SubSeq(q, 1, 0) = <<>> /\ file \o <<>> = file
  BY <1>4, <1>6
<1>9. {q[i] : i \in 0 + 1..Len(q)} = {}
  BY <1>6
<1> QED
  BY <1>5, <1>7, <1>8, <1>9

LEMMA LimitDirect ==
    /\ \A n : Limit!Direct(n) = Bytes(1, IF n < activateSize THEN n ELSE activateSize)
    /\ \A n : Limit!Complete(n) =
                IF n <= maxSize THEN Bytes(1, n)
                ELSE Limit!Direct(n) \o <<Message>>
                        \o Bytes(n - (maxSize - activateSize) + 1, n)
BY Zenon DEF Limit!Direct, Limit!Complete, Limit!Bytes, Limit!Message, Bytes, Message

\* A step that sends what it should to the file is a step of OutputLimit.
LEMMA Receives ==
    ASSUME FilterInv, FileInv', pc # "closed", pc' # "closed", UNCHANGED sizes,
           Received' > Received, refused \subseteq refused'
    PROVE  Limit!Receive
<1>1. file' = Kept(Bytes(1, Written'), refused')
  BY DEF FileInv
<1>2. Written' = IF Received' < activateSize THEN Received' ELSE activateSize
  BY DEF Written, sizes
<1>3. Limit!Direct(Received') = Bytes(1, Written')
  BY <1>2, LimitDirect, Zenon
<1>4. file' = Limit!Kept(Limit!Direct(Received'), refused')
  BY <1>1, <1>3, LimitKept, Zenon
<1>5. (pc' = "closed") = (pc = "closed")
  OBVIOUS
<1>6. UNCHANGED <<activateSize, maxSize, pc = "closed">>
  BY <1>5 DEF sizes
<1> QED
  BY <1>4, <1>6, Zenon DEF Limit!Receive

\* Whatever a step does but to the file and to pc, as long as it deals with
\* no byte.
LEMMA NothingReceived ==
    ASSUME FileInv, UNCHANGED <<sizes, next, file, refused>>,
           (pc' = "closed") = (pc = "closed")
    PROVE  FileInv' /\ UNCHANGED Limit!vars
BY DEF FileInv, Written, Received, sizes, Limit!vars

LEMMA LimitWrite ==
    ASSUME FilterInv, FilterInv', FileInv, NEW n \in 1..MaxLen,
           WriteDirect(n) \/ WriteLimited(n) \/ BadAlloc(n)
    PROVE  FileInv' /\ [Limit!Next]_(Limit!vars)
<1>1. /\ next \in Nat \ {0} /\ Received = next - 1 /\ activateSize \in Nat
      /\ n \in Nat \ {0} /\ total = Received /\ pc = "idle"
  BY FilterAssumption DEF FilterInv, ProgressInv, SizesInv, Received, WriteDirect,
                          WriteLimited, BadAlloc
<1>2. ASSUME NEW k \in Nat \ {0}, Received + k <= activateSize,
             SystemWrite(Bytes(next, next + k - 1)), next' = next + k,
             UNCHANGED sizes, pc' # "closed"
      PROVE  FileInv' /\ Limit!Receive
  <2>1. /\ file' = Kept(Bytes(1, Received + k), refused')
        /\ refused \subseteq refused' /\ refused' \subseteq 1..Received + k
    BY <1>1, <1>2, DirectSent
  <2>2. Received' = Received + k /\ activateSize' = activateSize
    BY <1>1, <1>2 DEF Received, sizes
  <2>3. Written' = Received + k
    BY <1>1, <1>2, <2>2 DEF Written
  <2>4. FileInv'
    BY <2>1, <2>3 DEF FileInv
  <2>5. Received' > Received
    BY <1>1, <2>2
  <2> QED
    BY <1>1, <1>2, <2>1, <2>4, <2>5, Receives
<1>3. CASE WriteDirect(n)
  <2>1. /\ Received + n <= activateSize /\ SystemWrite(Bytes(next, next + n - 1))
        /\ next' = next + n /\ UNCHANGED sizes /\ pc' # "closed"
    BY <1>1, <1>3 DEF WriteDirect
  <2> QED
    BY <1>1, <1>2, <2>1 DEF Limit!Next
<1>4. CASE WriteLimited(n)
  <2> DEFINE first == IF total < activateSize THEN activateSize - total ELSE 0
  <2>1. /\ SystemWrite(Bytes(next, next + first - 1)) /\ next' = next + first
        /\ UNCHANGED sizes /\ pc' # "closed"
    BY <1>4 DEF WriteLimited
  <2>2. CASE total < activateSize
    <3>1. first \in Nat \ {0} /\ Received + first <= activateSize
      BY <1>1, <2>2
    <3> HIDE DEF first
    <3> QED
      BY <1>2, <2>1, <3>1 DEF Limit!Next
  <2>3. CASE ~(total < activateSize)
    <3>1. next + first - 1 = next - 1 /\ next + first = next
      BY <1>1, <2>3
    <3> HIDE DEF first
    <3>2. UNCHANGED <<file, refused>>
      BY <1>1, <2>1, <3>1, NothingSent
    <3>3. FileInv' /\ UNCHANGED Limit!vars
      BY <1>1, <2>1, <3>1, <3>2, NothingReceived
    <3> QED
      BY <3>3
  <2> QED
    BY <2>2, <2>3
<1>5. CASE BadAlloc(n)
  BY <1>5, NothingReceived DEF BadAlloc
<1> QED
  BY <1>3, <1>4, <1>5

LEMMA LimitCopy ==
    ASSUME FilterInv, FileInv, CopyChunk
    PROVE  FileInv' /\ [Limit!Next]_(Limit!vars)
<1>1. /\ allocated /\ Received >= activateSize /\ next \in Nat /\ pc = "copy"
      /\ w < bufferSize /\ w \in Nat /\ bufferSize \in Nat /\ len \in Nat
      /\ activateSize \in Nat
  BY DEF CopyChunk, FilterInv, ProgressInv, RingInv, RingHoldsLast, SizesInv, Ordered
<1>2. Chunk \in Nat
  BY <1>1 DEF Chunk
<1>3. /\ next' = next + Chunk /\ UNCHANGED <<sizes, file, refused>>
      /\ pc' # "closed"
  BY DEF CopyChunk
<1>4. CASE Chunk = 0
  <2>1. next' = next
    BY <1>1, <1>3, <1>4
  <2>2. FileInv' /\ UNCHANGED Limit!vars
    BY <1>1, <1>3, <2>1, NothingReceived
  <2> QED
    BY <2>2
<1>5. CASE Chunk # 0
  <2>1. Received' > Received /\ Received' >= activateSize' /\ activateSize' = activateSize
    BY <1>1, <1>2, <1>3, <1>5 DEF Received, sizes
  <2>2. Written = activateSize /\ Written' = activateSize
    <3>1. Received \in Int /\ Received' \in Int
      BY <1>1, <1>2, <1>3 DEF Received
    <3> QED
      BY <1>1, <2>1, <3>1 DEF Written
  <2>3. FileInv'
    BY <1>1, <1>3, <2>2 DEF FileInv
  <2>4. Limit!Receive
    BY <1>1, <1>3, <2>1, <2>3, Receives
  <2> QED
    BY <2>3, <2>4 DEF Limit!Next
<1> QED
  BY <1>4, <1>5

\* What flush() takes from the buffer: the bytes after the first activateSize
\* ones, or the last bufferSize ones.
LEMMA BufferHolds ==
    ASSUME FilterInv, allocated
    PROVE  /\ Received <= maxSize =>
                Buffer(0, Received - activateSize - 1) = Bytes(activateSize + 1, Received)
           /\ Received > maxSize =>
                /\ Buffer(w, bufferSize - 1) =
                      Bytes(Received - bufferSize + 1, Received - w)
                /\ Buffer(0, w - 1) = Bytes(Received - w + 1, Received)
<1> DEFINE B == bufferSize
           R == Received
           A == activateSize
<1>1. /\ B \in Nat /\ B > 0 /\ R \in Nat /\ A \in Nat /\ maxSize = A + B
      /\ R >= A /\ w \in Nat /\ w < B
      /\ R < maxSize => w = R - A
      /\ R = maxSize => w = 0
      /\ \A i \in 0..B - 1 :
            data[i] = IF i < w THEN R - w + i + 1
                      ELSE IF R >= maxSize THEN R - w - B + i + 1 ELSE Garbage
  BY DEF FilterInv, SizesInv, ProgressInv, RingInv, Ordered, Received, RingHoldsLast
<1> HIDE DEF B, R, A
<1>2. ASSUME R <= maxSize PROVE Buffer(0, R - A - 1) = Bytes(A + 1, R)
  <2>1. (R - A - 1) - 0 + 1 = R - A /\ R - (A + 1) + 1 = R - A
    BY <1>1
  <2>2. ASSUME NEW i \in 1..R - A PROVE data[0 + i - 1] = (A + 1) + i - 1
    <3>1. 0 + i - 1 \in 0..B - 1 /\ (A + 1) + i - 1 = A + i
      BY <1>1, <1>2
    <3>2. CASE R < maxSize
      <4>1. 0 + i - 1 < w /\ R - w + (0 + i - 1) + 1 = A + i
        BY <1>1, <3>2
      <4> QED
        BY <1>1, <3>1, <4>1
    <3>3. CASE R = maxSize
      <4>1. ~(0 + i - 1 < w) /\ R >= maxSize /\ R - w - B + (0 + i - 1) + 1 = A + i
        BY <1>1, <3>3
      <4> QED
        BY <1>1, <3>1, <4>1
    <3> QED
      BY <1>1, <1>2, <3>2, <3>3
  <2> QED
    BY <2>1, <2>2 DEF Buffer, Bytes
<1>3. ASSUME R > maxSize PROVE Buffer(w, B - 1) = Bytes(R - B + 1, R - w)
  <2>1. (B - 1) - w + 1 = B - w /\ (R - w) - (R - B + 1) + 1 = B - w
    BY <1>1
  <2>2. ASSUME NEW i \in 1..B - w PROVE data[w + i - 1] = (R - B + 1) + i - 1
    <3>1. w + i - 1 \in 0..B - 1 /\ ~(w + i - 1 < w) /\ R >= maxSize
      BY <1>1, <1>3
    <3>2. R - w - B + (w + i - 1) + 1 = (R - B + 1) + i - 1
      BY <1>1
    <3> QED
      BY <1>1, <3>1, <3>2
  <2> QED
    BY <2>1, <2>2 DEF Buffer, Bytes
<1>4. ASSUME R > maxSize PROVE Buffer(0, w - 1) = Bytes(R - w + 1, R)
  <2>1. (w - 1) - 0 + 1 = w /\ R - (R - w + 1) + 1 = w
    BY <1>1
  <2>2. ASSUME NEW i \in 1..w PROVE data[0 + i - 1] = (R - w + 1) + i - 1
    <3>1. 0 + i - 1 \in 0..B - 1 /\ 0 + i - 1 < w
      BY <1>1
    <3>2. R - w + (0 + i - 1) + 1 = (R - w + 1) + i - 1
      BY <1>1
    <3> QED
      BY <1>1, <3>1, <3>2
  <2> QED
    BY <2>1, <2>2 DEF Buffer, Bytes
<1> QED
  BY <1>2, <1>3, <1>4, Zenon DEF B, R, A

\* What flush() makes of the file when it sends x to it, or the message, x and y.
OneSent(x, n) ==
    /\ file' = file \o SubSeq(x, 1, n)
    /\ refused' = refused \cup Unsent(x, n)

ThreeSent(x, n, y, p, m) ==
    /\ file' = file \o ((SubSeq(<<Message>>, 1, m) \o SubSeq(x, 1, n)) \o SubSeq(y, 1, p))
    /\ refused' = refused \cup (Unsent(<<Message>>, m) \cup Unsent(x, n) \cup Unsent(y, p))

LEMMA FlushSends ==
    ASSUME Flush
    PROVE  /\ ToFlush = <<>> => file' = file \o <<>> /\ refused' = refused
           /\ \A x \in Seq(Int) : ToFlush = <<x>> =>
                \E n \in 0..Len(x) : OneSent(x, n)
           /\ \A x \in Seq(Int), y \in Seq(Int) : ToFlush = <<<<Message>>, x, y>> =>
                \E n \in 0..Len(x), p \in 0..Len(y), m \in 0..1 :
                    ThreeSent(x, n, y, p, m)
<1> DEFINE pieces == ToFlush
<1>1. PICK sent \in [DOMAIN pieces -> 0..MaxTotal] :
        /\ \A p \in DOMAIN pieces : sent[p] \in Sent(pieces[p])
        /\ file' = file \o FlattenSeq([p \in DOMAIN pieces |->
                                          SubSeq(pieces[p], 1, sent[p])])
        /\ refused' = refused \cup
              UNION {Unsent(pieces[p], sent[p]) : p \in DOMAIN pieces}
  BY Zenon DEF Flush, Unsent
<1> DEFINE f == [p \in DOMAIN pieces |-> SubSeq(pieces[p], 1, sent[p])]
           u == UNION {Unsent(pieces[p], sent[p]) : p \in DOMAIN pieces}
<1>2. file' = file \o FlattenSeq(f) /\ refused' = refused \cup u
  BY <1>1
<1>3. \A q \in Seq(Int) : Sent(q) \subseteq 0..Len(q)
  BY DEF Sent
<1> HIDE DEF pieces
<1>4. ASSUME pieces = <<>> PROVE file' = file \o <<>> /\ refused' = refused
  <2>1. f = <<>> /\ u = {}
    BY <1>4
  <2> HIDE DEF f, u
  <2>2. FlattenSeq(<<>>) = <<>>
    BY DEF FlattenSeq
  <2> QED
    BY <1>2, <2>1, <2>2
<1>5. ASSUME NEW x \in Seq(Int), pieces = <<x>>
      PROVE  \E n \in 0..Len(x) : OneSent(x, n)
  <2>1. DOMAIN pieces = {1} /\ pieces[1] = x
    BY <1>5
  <2>2. sent[1] \in 0..Len(x)
    BY <1>1, <1>3, <2>1
  <2>3. f = <<SubSeq(x, 1, sent[1])>>
    BY <2>1
  <2>4. u = Unsent(x, sent[1])
    BY <2>1
  <2> DEFINE s == SubSeq(x, 1, sent[1])
  <2>5. s \in Seq(Int)
    BY <2>2, WholePrefix
  <2> HIDE DEF f, u, s
  <2>6. FlattenSeq(f) = s
    BY <2>3, <2>5, FlattenOne DEF s
  <2>7. OneSent(x, sent[1])
    BY <1>2, <2>4, <2>6, Zenon DEF OneSent, s
  <2> QED
    BY <2>2, <2>7
<1>6. ASSUME NEW x \in Seq(Int), NEW y \in Seq(Int), pieces = <<<<Message>>, x, y>>
      PROVE  \E n \in 0..Len(x), p \in 0..Len(y), m \in 0..1 : ThreeSent(x, n, y, p, m)
  <2> DEFINE c == <<Message>>
  <2>1. c \in Seq(Int) /\ Len(c) = 1
    BY DEF Message
  <2> HIDE DEF c
  <2>2. pieces = <<c, x, y>>
    BY <1>6 DEF c
  <2>3. DOMAIN pieces = 1..3 /\ pieces[1] = c /\ pieces[2] = x /\ pieces[3] = y
    BY <2>2
  <2>4. sent[1] \in 0..1 /\ sent[2] \in 0..Len(x) /\ sent[3] \in 0..Len(y)
    <3>1. sent[1] \in Sent(c) /\ sent[2] \in Sent(x) /\ sent[3] \in Sent(y)
      BY <1>1, <2>3
    <3>2. Sent(c) \subseteq 0..Len(c) /\ Sent(x) \subseteq 0..Len(x)
          /\ Sent(y) \subseteq 0..Len(y)
      BY <1>3, <2>1
    <3> QED
      BY <2>1, <3>1, <3>2
  <2>5. f = <<SubSeq(c, 1, sent[1]), SubSeq(x, 1, sent[2]), SubSeq(y, 1, sent[3])>>
    BY <2>3
  <2>6. u = Unsent(c, sent[1]) \cup Unsent(x, sent[2]) \cup Unsent(y, sent[3])
    <3>1. DOMAIN pieces = {1, 2, 3}
      BY <2>3
    <3> QED
      BY <2>3, <3>1
  <2> DEFINE r == SubSeq(c, 1, sent[1])
             s == SubSeq(x, 1, sent[2])
             t == SubSeq(y, 1, sent[3])
  <2>7. r \in Seq(Int) /\ s \in Seq(Int) /\ t \in Seq(Int)
    BY <2>1, <2>4, WholePrefix
  <2> HIDE DEF f, u, r, s, t
  <2>8. f = <<r, s, t>>
    BY <2>5, Zenon DEF r, s, t
  <2>9. FlattenSeq(f) = (r \o s) \o t
    <3>1. FlattenSeq(<<r, s, t>>) = Joined(Joined(r, s), t)
      BY <2>7, FlattenThree
    <3> QED
      BY <2>8, <3>1, Zenon DEF Joined
  <2>10. ThreeSent(x, sent[2], y, sent[3], sent[1])
    BY <1>2, <2>6, <2>9, Zenon DEF ThreeSent, r, s, t, c
  <2> QED
    BY <2>4, <2>10
<1> QED
  BY <1>4, <1>5, <1>6, Zenon DEF pieces

LEMMA JoinedType ==
    ASSUME NEW T, NEW a \in Seq(T), NEW b \in Seq(T)
    PROVE  Joined(a, b) \in Seq(T)
BY DEF Joined

LEMMA JoinedAssociative ==
    ASSUME NEW T, NEW a \in Seq(T), NEW b \in Seq(T), NEW c \in Seq(T)
    PROVE  Joined(Joined(a, b), c) = Joined(a, Joined(b, c))
<1>1. (a \o b) \o c = a \o (b \o c)
  OBVIOUS
<1> QED
  BY <1>1, Zenon DEF Joined

LEMMA JoinedAssoc ==
    ASSUME NEW T, NEW a \in Seq(T), NEW b \in Seq(T), NEW c \in Seq(T), NEW d \in Seq(T)
    PROVE  /\ Joined(Joined(a, b), Joined(c, d)) = Joined(Joined(Joined(a, b), c), d)
           /\ Joined(Joined(Joined(a, b), c), d) = Joined(a, Joined(Joined(b, c), d))
<1>1. Joined(a, b) \in Seq(T) /\ Joined(b, c) \in Seq(T)
  BY JoinedType
<1>2. Joined(Joined(Joined(a, b), c), d) = Joined(Joined(a, b), Joined(c, d))
  BY <1>1, JoinedAssociative
<1>3. Joined(Joined(a, b), c) = Joined(a, Joined(b, c))
  BY JoinedAssociative
<1>4. Joined(Joined(a, Joined(b, c)), d) = Joined(a, Joined(Joined(b, c), d))
  BY <1>1, JoinedAssociative
<1> QED
  BY <1>2, <1>3, <1>4

\* flush() of a buffer that was never full
LEMMA OneKept ==
    ASSUME NEW A \in Nat, NEW R \in Nat, A <= R, NEW lost \in SUBSET (1..A),
           NEW n \in 0..Len(Bytes(A + 1, R))
    PROVE  Kept(Bytes(1, R), lost \cup Unsent(Bytes(A + 1, R), n)) =
              Joined(Kept(Bytes(1, A), lost), SubSeq(Bytes(A + 1, R), 1, n))
<1> DEFINE S == 1..A
           a == Bytes(1, A)
           first == A + 1
<1>1. /\ S \in SUBSET Int /\ a \in Seq(S) /\ lost \in SUBSET S
      /\ first \in Int /\ R \in Int /\ R >= first - 1 /\ S \cap (first..R) = {}
      /\ n \in 0..Len(Bytes(first, R))
  <2>1. a \in Seq(S)
    <3>1. 1 \in Int /\ A \in Int /\ A >= 1 - 1
      OBVIOUS
    <3> QED
      BY <3>1, BytesElements
  <2> QED
    BY <2>1
<1>2. Bytes(1, R) = Joined(a, Bytes(first, R))
  BY BytesSplit
<1> HIDE DEF S, a, first
<1>3. Keeps(Joined(a, Bytes(first, R)), lost \cup Unsent(Bytes(first, R), n),
            Joined(Kept(a, lost), SubSeq(Bytes(first, R), 1, n)))
  BY <1>1, BytesSent
<1> QED
  BY <1>2, <1>3, Zenon DEF a, first, Keeps

\* flush() of a full buffer: the message and two pieces
LEMMA ThreeKept ==
    ASSUME NEW A \in Nat, NEW R \in Nat, NEW B \in Nat, NEW v \in 0..B, A + B < R,
           NEW lost \in SUBSET (1..A), NEW m \in 0..1,
           NEW n \in 0..Len(Bytes(R - B + 1, R - v)),
           NEW p \in 0..Len(Bytes(R - v + 1, R))
    PROVE  Keeps(Joined(Joined(Bytes(1, A), <<Message>>), Bytes(R - B + 1, R)),
                 lost \cup (Unsent(<<Message>>, m)
                            \cup Unsent(Bytes(R - B + 1, R - v), n)
                            \cup Unsent(Bytes(R - v + 1, R), p)),
                 Joined(Kept(Bytes(1, A), lost),
                        Joined(Joined(SubSeq(<<Message>>, 1, m),
                                      SubSeq(Bytes(R - B + 1, R - v), 1, n)),
                               SubSeq(Bytes(R - v + 1, R), 1, p))))
<1> DEFINE S0 == 1..A
           c0 == Bytes(1, A)
           S1 == S0 \cup (0..0)
           c1 == Joined(c0, Bytes(0, 0))
           lost1 == lost \cup Unsent(Bytes(0, 0), m)
           f2 == R - B + 1
           l2 == R - v
           S2 == S1 \cup (f2..l2)
           c2 == Joined(c1, Bytes(f2, l2))
           lost2 == lost1 \cup Unsent(Bytes(f2, l2), n)
           f3 == R - v + 1
           lost3 == lost2 \cup Unsent(Bytes(f3, R), p)
           z1 == SubSeq(Bytes(0, 0), 1, m)
           z2 == SubSeq(Bytes(f2, l2), 1, n)
           z3 == SubSeq(Bytes(f3, R), 1, p)
<1>1. Bytes(0, 0) = <<Message>> /\ Len(Bytes(0, 0)) = 1 /\ Bytes(0, 0) \in Seq(Int)
  <2>1. Bytes(0, 0) \in Seq(Int) /\ Len(Bytes(0, 0)) = 1 /\ Bytes(0, 0)[1] = 0
    <3>1. 0 \in Int /\ 0 >= 0 - 1 /\ 0 - 0 + 1 = 1 /\ 1 \in 1..1 /\ 0 + 1 - 1 = 0
      OBVIOUS
    <3>2. /\ Bytes(0, 0) \in Seq(Int) /\ Len(Bytes(0, 0)) = 0 - 0 + 1
          /\ \A k \in 1..0 - 0 + 1 : Bytes(0, 0)[k] = 0 + k - 1
      BY <3>1, BytesAre
    <3> QED
      BY <3>1, <3>2
  <2> QED
    BY <2>1 DEF Message
<1>2. /\ f2 \in Int /\ l2 \in Int /\ f3 \in Int /\ R \in Int /\ f3 = l2 + 1
      /\ l2 >= f2 - 1 /\ R >= f3 - 1 /\ f2 - 1 <= l2 /\ l2 <= R
      /\ S0 \in SUBSET Int /\ S1 \in SUBSET Int /\ S2 \in SUBSET Int
      /\ S0 \cap (0..0) = {} /\ S1 \cap (f2..l2) = {} /\ S2 \cap (f3..R) = {}
      /\ 0 \in Int /\ 0 >= 0 - 1
  OBVIOUS
<1>3. c0 \in Seq(S0) /\ m \in 0..Len(Bytes(0, 0)) /\ n \in 0..Len(Bytes(f2, l2))
      /\ p \in 0..Len(Bytes(f3, R)) /\ lost \in SUBSET S0
  <2>1. c0 \in Seq(S0)
    <3>1. 1 \in Int /\ A \in Int /\ A >= 1 - 1
      OBVIOUS
    <3> QED
      BY <3>1, BytesElements
  <2> HIDE DEF c0
  <2> QED
    BY <1>1, <2>1
<1>4. c1 \in Seq(S1)
  <2> HIDE DEF c0, S0
  <2> QED
    BY <1>2, <1>3, BytesJoined
<1>5. c2 \in Seq(S2)
  <2> HIDE DEF c1, S1, f2, l2
  <2> QED
    BY <1>2, <1>4, BytesJoined
<1>6. lost1 \in SUBSET S1
  <2> HIDE DEF S0
  <2>1. Unsent(Bytes(0, 0), m) \subseteq 0..0
    BY <1>2, <1>3, BytesUnsent
  <2> QED
    BY <1>3, <2>1
<1>7. lost2 \in SUBSET S2
  <2> HIDE DEF S1, f2, l2, lost1
  <2>1. Unsent(Bytes(f2, l2), n) \subseteq f2..l2
    BY <1>2, <1>3, BytesUnsent
  <2> QED
    BY <1>6, <2>1
<1>8. Kept(c1, lost1) = Joined(Kept(c0, lost), z1)
  <2> DEFINE S == S0
             a == c0
             old == lost
             first == 0
             last == 0
             k == m
  <2>1. /\ S \in SUBSET Int /\ a \in Seq(S) /\ old \in SUBSET S
        /\ first \in Int /\ last \in Int /\ last >= first - 1
        /\ S \cap (first..last) = {} /\ k \in 0..Len(Bytes(first, last))
    BY <1>2, <1>3
  <2> HIDE DEF S, a, old, first, last, k
  <2>2. Keeps(Joined(a, Bytes(first, last)), old \cup Unsent(Bytes(first, last), k),
              Joined(Kept(a, old), SubSeq(Bytes(first, last), 1, k)))
    BY <2>1, BytesSent
  <2> QED
    BY <2>2, Zenon DEF S, a, old, first, last, k, Keeps
<1>9. Kept(c2, lost2) = Joined(Kept(c1, lost1), z2)
  <2> DEFINE S == S1
             a == c1
             old == lost1
             first == f2
             last == l2
             k == n
  <2>1. /\ S \in SUBSET Int /\ a \in Seq(S) /\ old \in SUBSET S
        /\ first \in Int /\ last \in Int /\ last >= first - 1
        /\ S \cap (first..last) = {} /\ k \in 0..Len(Bytes(first, last))
    BY <1>2, <1>3, <1>4, <1>6
  <2> HIDE DEF S, a, old, first, last, k
  <2>2. Keeps(Joined(a, Bytes(first, last)), old \cup Unsent(Bytes(first, last), k),
              Joined(Kept(a, old), SubSeq(Bytes(first, last), 1, k)))
    BY <2>1, BytesSent
  <2> QED
    BY <2>2, Zenon DEF S, a, old, first, last, k, Keeps
<1>10. Kept(Joined(c2, Bytes(f3, R)), lost3) = Joined(Kept(c2, lost2), z3)
  <2> DEFINE S == S2
             a == c2
             old == lost2
             first == f3
             last == R
             k == p
  <2>1. /\ S \in SUBSET Int /\ a \in Seq(S) /\ old \in SUBSET S
        /\ first \in Int /\ last \in Int /\ last >= first - 1
        /\ S \cap (first..last) = {} /\ k \in 0..Len(Bytes(first, last))
    BY <1>2, <1>3, <1>5, <1>7
  <2> HIDE DEF S, a, old, first, last, k
  <2>2. Keeps(Joined(a, Bytes(first, last)), old \cup Unsent(Bytes(first, last), k),
              Joined(Kept(a, old), SubSeq(Bytes(first, last), 1, k)))
    BY <2>1, BytesSent
  <2> QED
    BY <2>2, Zenon DEF S, a, old, first, last, k, Keeps
<1>11. /\ c0 \in Seq(Int) /\ Bytes(f2, l2) \in Seq(Int) /\ Bytes(f3, R) \in Seq(Int)
       /\ Kept(c0, lost) \in Seq(Int)
       /\ z1 \in Seq(Int) /\ z2 \in Seq(Int) /\ z3 \in Seq(Int)
  <2>1. c0 \in Seq(Int)
    <3>1. 1 \in Int /\ A \in Int /\ A >= 1 - 1
      OBVIOUS
    <3> QED
      BY <3>1, BytesAre
  <2> HIDE DEF f2, l2, f3, c0
  <2>2. Bytes(f2, l2) \in Seq(Int) /\ Bytes(f3, R) \in Seq(Int)
    BY <1>2, BytesAre
  <2> QED
    BY <1>1, <1>3, <2>1, <2>2, KeptType, WholePrefix
<1>12. Joined(Joined(c0, Bytes(0, 0)), Bytes(f2, R)) = Joined(c2, Bytes(f3, R))
  <2>1. Bytes(f2, R) = Joined(Bytes(f2, l2), Bytes(f3, R))
    <3> HIDE DEF f2, l2, f3
    <3>1. Bytes(f2, R) = Joined(Bytes(f2, l2), Bytes(l2 + 1, R))
      BY <1>2, BytesSplit
    <3> QED
      BY <1>2, <3>1
  <2> HIDE DEF c0, f2, l2, f3
  <2> QED
    BY <1>1, <1>11, <2>1, JoinedAssoc
<1> DEFINE k0 == Kept(c0, lost)
<1>13. Joined(Joined(Joined(k0, z1), z2), z3) = Joined(k0, Joined(Joined(z1, z2), z3))
  <2> HIDE DEF k0, z1, z2, z3
  <2> QED
    BY <1>11, JoinedAssoc DEF k0
<1>14. lost3 = lost \cup (Unsent(Bytes(0, 0), m) \cup Unsent(Bytes(f2, l2), n)
                          \cup Unsent(Bytes(f3, R), p))
  OBVIOUS
<1>15. Kept(Joined(Joined(c0, Bytes(0, 0)), Bytes(f2, R)), lost3) =
          Joined(k0, Joined(Joined(z1, z2), z3))
  <2> HIDE DEF c0, c1, c2, lost1, lost2, lost3, f2, l2, f3, z1, z2, z3
  <2> QED
    BY <1>8, <1>9, <1>10, <1>12, <1>13, Zenon DEF k0
<1> QED
  BY <1>1, <1>14, <1>15, Zenon DEF c0, f2, l2, f3, z1, z2, z3, k0, Keeps

LEMMA LimitFlush ==
    ASSUME FilterInv, FileInv, Flush
    PROVE  FileInv' /\ [Limit!Next]_(Limit!vars)
<1> DEFINE R == Received
           A == activateSize
           B == bufferSize
           complete == IF R <= maxSize THEN Bytes(1, R)
                       ELSE Joined(Joined(Bytes(1, A), <<Message>>), Bytes(R - B + 1, R))
<1>1. /\ pc = "idle" /\ pc' = "closed" /\ UNCHANGED <<sizes, next>>
  BY DEF Flush
<1>2. /\ R \in Nat /\ A \in Nat /\ B \in Nat /\ maxSize = A + B /\ total = R
      /\ refused \subseteq 1..Written /\ file = Kept(Bytes(1, Written), refused)
      /\ IF allocated THEN R >= A /\ Written = A ELSE R <= A /\ Written = R
  BY <1>1 DEF FilterInv, ProgressInv, SizesInv, Ordered, FileInv, Written, Received
<1>3. file \in Seq(Int)
  <2>1. Written \in Int /\ 1 \in Int /\ Written >= 1 - 1
    BY <1>2
  <2>2. Bytes(1, Written) \in Seq(Int)
    BY <2>1, BytesAre
  <2> QED
    BY <1>2, <2>2, KeptType
<1>4. SUFFICES refused \subseteq refused' /\ file' = Kept(complete, refused')
  <2>1. Limit!Complete(R) = complete
    <3>1. CASE R <= maxSize
      BY <3>1, LimitDirect
    <3>2. CASE ~(R <= maxSize)
      <4>1. R >= A /\ (R < A => R = A) /\ maxSize - A = B
        BY <1>2, <3>2
      <4>2. Limit!Direct(R) = Bytes(1, A)
        <5>1. (IF R < A THEN R ELSE A) = A
          BY <4>1
        <5> QED
          BY <5>1, LimitDirect, Zenon
      <4>3. Limit!Complete(R) =
                Limit!Direct(R) \o <<Message>> \o Bytes(R - (maxSize - A) + 1, R)
        BY <3>2, LimitDirect, Zenon
      <4> QED
        BY <3>2, <4>1, <4>2, <4>3, Zenon DEF Joined
    <3> QED
      BY <3>1, <3>2
  <2>2. (pc # "closed") /\ (pc' = "closed") = TRUE
    BY <1>1
  <2>3. file' = Limit!Kept(Limit!Complete(Received), refused')
    BY <1>4, <2>1, LimitKept, Zenon
  <2>4. UNCHANGED <<activateSize, maxSize, Received>>
    BY <1>1 DEF sizes, Received
  <2>5. Limit!Close
    BY <1>4, <2>2, <2>3, <2>4, Zenon DEF Limit!Close
  <2>6. FileInv'
    BY <1>1 DEF FileInv
  <2> QED
    BY <2>5, <2>6 DEF Limit!Next
<1>5. CASE ~allocated
  <2>1. ToFlush = <<>> /\ R <= maxSize /\ Written = R
    BY <1>2, <1>5 DEF ToFlush
  <2>2. file' = file \o <<>> /\ refused' = refused
    BY <2>1, FlushSends
  <2>3. file' = file
    BY <1>3, <2>2
  <2> QED
    BY <1>2, <2>1, <2>2, <2>3
<1>6. CASE allocated /\ R <= maxSize
  <2> DEFINE x == Bytes(A + 1, R)
  <2>1. ToFlush = <<x>> /\ complete = Bytes(1, R) /\ Written = A /\ A <= R
    BY <1>2, <1>6, BufferHolds DEF ToFlush
  <2>2. x \in Seq(Int)
    <3>1. A + 1 \in Int /\ R \in Int /\ R >= (A + 1) - 1
      BY <1>2, <2>1
    <3> HIDE DEF A, R
    <3> QED
      BY <3>1, BytesAre
  <2> HIDE DEF x
  <2>3. PICK n \in 0..Len(x) : OneSent(x, n)
    BY <2>1, <2>2, FlushSends
  <2>4. refused \in SUBSET (1..A)
    BY <1>2, <2>1
  <2> HIDE DEF A, R, complete
  <2>5. Kept(Bytes(1, R), refused \cup Unsent(x, n)) =
            Joined(Kept(Bytes(1, A), refused), SubSeq(x, 1, n))
    BY <1>2, <2>1, <2>3, <2>4, OneKept DEF x
  <2>6. file' = file \o SubSeq(x, 1, n) /\ refused' = refused \cup Unsent(x, n)
    BY <2>3 DEF OneSent
  <2>7. file = Kept(Bytes(1, A), refused)
    BY <1>2, <2>1
  <2>8. file' = Kept(complete, refused')
    BY <2>1, <2>5, <2>6, <2>7, Zenon DEF Joined
  <2> QED
    BY <2>6, <2>8
<1>7. CASE allocated /\ ~(R <= maxSize)
  <2> DEFINE x == Bytes(R - B + 1, R - w)
             y == Bytes(R - w + 1, R)
             c == <<Message>>
  <2>1. /\ w \in 0..B /\ A + B < R /\ Written = A
        /\ complete = Joined(Joined(Bytes(1, A), c), Bytes(R - B + 1, R))
    BY <1>2, <1>7 DEF FilterInv, RingInv, RingHoldsLast
  <2>2. ToFlush = <<c, x, y>>
    <3>1. Buffer(w, B - 1) = x /\ Buffer(0, w - 1) = y
      BY <1>2, <1>7, BufferHolds
    <3>2. ToFlush = <<<<Message>>, Buffer(w, B - 1), Buffer(0, w - 1)>>
      BY <1>2, <1>7 DEF ToFlush
    <3> QED
      BY <3>1, <3>2
  <2>3. x \in Seq(Int) /\ y \in Seq(Int)
    <3>1. /\ R - B + 1 \in Int /\ R - w \in Int /\ R - w >= (R - B + 1) - 1
          /\ R - w + 1 \in Int /\ R \in Int /\ R >= (R - w + 1) - 1
      BY <1>2, <2>1
    <3> HIDE DEF R, B
    <3> QED
      BY <3>1, BytesAre
  <2> HIDE DEF x, y
  <2>4. PICK n \in 0..Len(x), p \in 0..Len(y), m \in 0..1 : ThreeSent(x, n, y, p, m)
    BY <2>2, <2>3, FlushSends
  <2>5. refused \in SUBSET (1..A) /\ file = Kept(Bytes(1, A), refused)
    BY <1>2, <2>1
  <2> HIDE DEF A, B, R, complete
  <2>6. Keeps(Joined(Joined(Bytes(1, A), <<Message>>), Bytes(R - B + 1, R)),
              refused \cup (Unsent(<<Message>>, m) \cup Unsent(x, n) \cup Unsent(y, p)),
              Joined(Kept(Bytes(1, A), refused),
                     Joined(Joined(SubSeq(<<Message>>, 1, m), SubSeq(x, 1, n)),
                            SubSeq(y, 1, p))))
    BY <1>2, <2>1, <2>4, <2>5, ThreeKept DEF x, y
  <2>7. /\ file' = file \o ((SubSeq(<<Message>>, 1, m) \o SubSeq(x, 1, n)) \o SubSeq(y, 1, p))
        /\ refused' = refused \cup (Unsent(<<Message>>, m) \cup Unsent(x, n) \cup Unsent(y, p))
    BY <2>4, Zenon DEF ThreeSent
  <2>8. file' = Kept(complete, refused')
    BY <2>1, <2>5, <2>6, <2>7, Zenon DEF Joined, Keeps
  <2>9. refused \subseteq refused'
    BY <2>7
  <2> QED
    BY <2>8, <2>9
<1> QED
  BY <1>5, <1>6, <1>7

LEMMA LimitStart ==
    ASSUME Init, Ordered
    PROVE  FileInv /\ Limit!Init
<1>1. /\ next = 1 /\ pc = "idle" /\ file = <<>> /\ refused = {}
      /\ activateSize \in Nat /\ maxSize \in Nat /\ activateSize < maxSize
  BY SizesStart DEF Init, SizesInv, Ordered
<1>2. Received = 0 /\ Written = 0
  BY <1>1 DEF Received, Written
<1>3. Bytes(1, 0) = <<>>
  <2>1. Len(Bytes(1, 0)) = 0 /\ Bytes(1, 0) \in Seq(Int)
    BY BytesAre
  <2> QED
    BY <2>1
<1>4. FileInv
  BY <1>1, <1>2, <1>3, KeptNothing DEF FileInv
<1>5. (pc = "closed") = FALSE
  BY <1>1
<1> QED
  BY <1>1, <1>2, <1>4, <1>5, Zenon DEF Limit!Init

LEMMA LimitStep ==
    ASSUME FilterInv, FilterInv', FileInv, [Next]_vars
    PROVE  FileInv' /\ [Limit!Next]_(Limit!vars)
<1>1. CASE Write
  BY <1>1, LimitWrite DEF Write
<1>2. CASE CopyChunk
  BY <1>2, LimitCopy
<1>3. CASE Flush
  BY <1>3, LimitFlush
<1>4. CASE UNCHANGED vars
  BY <1>4, NothingReceived DEF vars, sizes
<1> QED
  BY <1>1, <1>2, <1>3, <1>4 DEF Next, Done

\* The filter does what --output-limit promises: at every step the file holds
\* the first bytes of the output, and once it is closed all of the output, or
\* its first bytes, the message and its last bytes, without what the system
\* refused to write.
THEOREM LimitIsKept == Spec /\ Ordered => LimitSpec
<1>1. Init /\ Ordered => FilterInv /\ FileInv /\ Limit!Init
  BY FilterStart, LimitStart
<1>2. FilterInv /\ FileInv /\ [Next]_vars =>
          FilterInv' /\ FileInv' /\ [Limit!Next]_(Limit!vars)
  BY FilterStep, LimitStep
<1> QED
  BY <1>1, <1>2, PTL DEF Spec, LimitSpec, Limit!Spec
=============================================================================
