------------------------- MODULE TimeStamper_proofs -------------------------
(***************************************************************************)
(* The stamps of TimeStamper.hh are right for any streams, any size of the *)
(* buffer and any chunks.  readFrom() writes a byte, and after the end of  *)
(* a line that is not the last byte of the chunk the stamp of the next     *)
(* line; so inside a chunk a stamp may wait for its line (LineStamped),    *)
(* between two chunks EOLBefore says that one is due (Right, Watching).    *)
(* The lemmas follow the file element by element: what one more element    *)
(* changes in the sequences the properties are made of, then one turn of   *)
(* the loop (OneTurn), a chunk (ChunkWritten), and the thread's steps.     *)
(***************************************************************************)
EXTENDS TimeStamper, SequenceLemmas, FiniteSetTheorems, SequenceTheorems, TLAPS

-----------------------------------------------------------------------------
(***************************************************************************)
(* What one more element changes in the sequences that StampsAreRight      *)
(* speaks of.                                                              *)
(***************************************************************************)
LEMMA OfStreamAppend ==
    ASSUME NEW T, NEW q \in Seq(T), NEW e \in T, NEW s
    PROVE  /\ OfStream(q, s) \in Seq(T)
           /\ OfStream(Append(q, e), s) =
                IF e.fd = s THEN Append(OfStream(q, s), e) ELSE OfStream(q, s)
<1> DEFINE r == Append(q, e)
           n == Len(q)
           x == IF e.fd = s THEN <<e>> ELSE <<>>
           pp == [k \in DOMAIN q |-> IF q[k].fd = s THEN <<q[k]>> ELSE <<>>]
           qq == [k \in DOMAIN r |-> IF r[k].fd = s THEN <<r[k]>> ELSE <<>>]
<1>1. /\ n \in Nat /\ DOMAIN q = 1..n /\ DOMAIN r = 1..n + 1
      /\ r[n + 1] = e /\ \A k \in 1..n : r[k] = q[k] /\ q[k] \in T
  BY AppendPieces
<1> HIDE DEF r, n
<1>2. pp \in Seq(Seq(T)) /\ Len(pp) = n
  <2>1. \A k \in 1..n : pp[k] \in Seq(T)
    BY <1>1
  <2>2. pp = [k \in 1..n |-> pp[k]]
    BY <1>1
  <2> HIDE DEF pp
  <2> QED
    BY <1>1, <2>1, <2>2
<1>3. x \in Seq(T)
  OBVIOUS
<1>4. qq = Append(pp, x)
  <2>1. qq[n + 1] = x /\ \A k \in 1..n : qq[k] = pp[k]
    BY <1>1
  <2>2. DOMAIN qq = 1..n + 1 /\ qq = [k \in DOMAIN qq |-> qq[k]]
    BY <1>1
  <2> HIDE DEF qq, pp, x
  <2> QED
    BY <1>1, <1>2, <1>3, <2>1, <2>2, MappedAppend
<1>5. OfStream(q, s) = FlattenSeq(pp) /\ OfStream(r, s) = FlattenSeq(qq)
  BY Zenon DEF OfStream
<1> HIDE DEF pp, qq
<1>6. FlattenSeq(pp) \in Seq(T) /\ FlattenSeq(qq) = FlattenSeq(pp) \o x
  <2> HIDE DEF x
  <2> QED
    BY <1>2, <1>3, <1>4, FlattenAppend
<1>7. OfStream(r, s) = OfStream(q, s) \o x /\ OfStream(q, s) \in Seq(T)
  BY <1>5, <1>6
<1> QED
  BY <1>7 DEF r

LEMMA NoStampsAppend ==
    ASSUME NEW T, NEW q \in Seq(T), NEW e \in T
    PROVE  /\ NoStamps(q) \in Seq(T)
           /\ NoStamps(Append(q, e)) =
                IF e.kind # "stamp" THEN Append(NoStamps(q), e) ELSE NoStamps(q)
<1> DEFINE r == Append(q, e)
           n == Len(q)
           x == IF e.kind # "stamp" THEN <<e>> ELSE <<>>
           pp == [k \in DOMAIN q |-> IF q[k].kind # "stamp" THEN <<q[k]>> ELSE <<>>]
           qq == [k \in DOMAIN r |-> IF r[k].kind # "stamp" THEN <<r[k]>> ELSE <<>>]
<1>1. /\ n \in Nat /\ DOMAIN q = 1..n /\ DOMAIN r = 1..n + 1
      /\ r[n + 1] = e /\ \A k \in 1..n : r[k] = q[k] /\ q[k] \in T
  BY AppendPieces
<1> HIDE DEF r, n
<1>2. pp \in Seq(Seq(T)) /\ Len(pp) = n
  <2>1. \A k \in 1..n : pp[k] \in Seq(T)
    BY <1>1
  <2>2. pp = [k \in 1..n |-> pp[k]]
    BY <1>1
  <2> HIDE DEF pp
  <2> QED
    BY <1>1, <2>1, <2>2
<1>3. x \in Seq(T)
  OBVIOUS
<1>4. qq = Append(pp, x)
  <2>1. qq[n + 1] = x /\ \A k \in 1..n : qq[k] = pp[k]
    BY <1>1
  <2>2. DOMAIN qq = 1..n + 1 /\ qq = [k \in DOMAIN qq |-> qq[k]]
    BY <1>1
  <2> HIDE DEF qq, pp, x
  <2> QED
    BY <1>1, <1>2, <1>3, <2>1, <2>2, MappedAppend
<1>5. NoStamps(q) = FlattenSeq(pp) /\ NoStamps(r) = FlattenSeq(qq)
  BY Zenon DEF NoStamps
<1> HIDE DEF pp, qq
<1>6. FlattenSeq(pp) \in Seq(T) /\ FlattenSeq(qq) = FlattenSeq(pp) \o x
  <2> HIDE DEF x
  <2> QED
    BY <1>2, <1>3, <1>4, FlattenAppend
<1>7. NoStamps(r) = NoStamps(q) \o x /\ NoStamps(q) \in Seq(T)
  BY <1>5, <1>6
<1> QED
  BY <1>7 DEF r

KindSet(T) == {"stamp"} \cup {t.kind : t \in T}

LEMMA KindsAppend ==
    ASSUME NEW T, NEW q \in Seq(T), NEW e \in T
    PROVE  /\ Kinds(q) \in Seq(KindSet(T))
           /\ Kinds(Append(q, e)) = Append(Kinds(q), e.kind)
<1> DEFINE r == Append(q, e)
           n == Len(q)
           pp == [k \in DOMAIN q |-> q[k].kind]
           qq == [k \in DOMAIN r |-> r[k].kind]
           U == KindSet(T)
<1>1. /\ n \in Nat /\ DOMAIN q = 1..n /\ DOMAIN r = 1..n + 1
      /\ r[n + 1] = e /\ \A k \in 1..n : r[k] = q[k] /\ q[k] \in T
  BY AppendPieces
<1>2. \A t \in T : t.kind \in U
  BY DEF KindSet
<1> HIDE DEF r, n, U
<1>3. pp \in Seq(U) /\ Len(pp) = n
  <2>1. \A k \in 1..n : pp[k] \in U
    BY <1>1, <1>2
  <2>2. pp = [k \in 1..n |-> pp[k]]
    BY <1>1
  <2> HIDE DEF pp
  <2> QED
    BY <1>1, <2>1, <2>2
<1>4. qq = Append(pp, e.kind)
  <2>1. qq[n + 1] = e.kind /\ \A k \in 1..n : qq[k] = pp[k]
    BY <1>1
  <2>2. DOMAIN qq = 1..n + 1 /\ qq = [k \in DOMAIN qq |-> qq[k]]
    BY <1>1
  <2>3. e.kind \in U
    BY <1>2
  <2> HIDE DEF qq, pp
  <2> QED
    BY <1>1, <1>3, <2>1, <2>2, <2>3, MappedAppend
<1>5. Kinds(q) = pp /\ Kinds(r) = qq
  BY Zenon DEF Kinds
<1> HIDE DEF pp, qq
<1> QED
  BY <1>3, <1>4, <1>5 DEF r, U

\* Is the next byte of a stream of which bytes were read the first of a line?
AtLineStart(bytes) == bytes = <<>> \/ bytes[Len(bytes)].kind = "eol"

LEMMA StampedKindsAppend ==
    ASSUME NEW T, NEW q \in Seq(T), NEW e \in T
    PROVE  /\ StampedKinds(q) \in Seq(KindSet(T))
           /\ StampedKinds(Append(q, e)) =
                StampedKinds(q) \o (IF AtLineStart(q) THEN <<"stamp", e.kind>>
                                                      ELSE <<e.kind>>)
<1> DEFINE r == Append(q, e)
           n == Len(q)
           U == KindSet(T)
           x == IF AtLineStart(q) THEN <<"stamp", e.kind>> ELSE <<e.kind>>
           pp == [k \in DOMAIN q |->
                    IF k \in LineStarts(q) THEN <<"stamp", q[k].kind>>
                                           ELSE <<q[k].kind>>]
           qq == [k \in DOMAIN r |->
                    IF k \in LineStarts(r) THEN <<"stamp", r[k].kind>>
                                           ELSE <<r[k].kind>>]
<1>1. /\ n \in Nat /\ DOMAIN q = 1..n /\ DOMAIN r = 1..n + 1
      /\ r[n + 1] = e /\ \A k \in 1..n : r[k] = q[k] /\ q[k] \in T
  BY AppendPieces
<1>2. "stamp" \in U /\ \A t \in T : t.kind \in U
  BY DEF KindSet
<1>0. q = <<>> <=> n = 0
  OBVIOUS
<1> HIDE DEF r, U
<1>3. \A k \in 1..n : k \in LineStarts(r) <=> k \in LineStarts(q)
  <2>1. ASSUME NEW k \in 1..n PROVE k # 1 => k - 1 \in 1..n
    BY <1>1
  <2>2. ASSUME NEW k \in 1..n PROVE k \in 1..n + 1
    BY <1>1
  <2> HIDE DEF n
  <2> QED
    BY <1>1, <2>1, <2>2 DEF LineStarts
<1>4. n + 1 \in LineStarts(r) <=> AtLineStart(q)
  <2>1. n # 0 => n \in 1..n
    BY <1>1
  <2>2. n + 1 \in 1..n + 1 /\ (n + 1) - 1 = n /\ (n + 1 = 1 <=> n = 0)
    BY <1>1
  <2>3. AtLineStart(q) <=> n = 0 \/ q[n].kind = "eol"
    BY <1>0 DEF AtLineStart
  <2> HIDE DEF n
  <2> QED
    BY <1>1, <2>1, <2>2, <2>3 DEF LineStarts
<1> HIDE DEF n
<1>5. pp \in Seq(Seq(U)) /\ Len(pp) = n
  <2>1. \A k \in 1..n : pp[k] \in Seq(U)
    BY <1>1, <1>2
  <2>2. pp = [k \in 1..n |-> pp[k]]
    BY <1>1
  <2> HIDE DEF pp
  <2> QED
    BY <1>1, <2>1, <2>2
<1>6. x \in Seq(U)
  BY <1>2
<1>7. qq = Append(pp, x)
  <2>1. qq[n + 1] = x /\ \A k \in 1..n : qq[k] = pp[k]
    <3>1. qq[n + 1] = x
      BY <1>1, <1>4
    <3>2. ASSUME NEW k \in 1..n PROVE qq[k] = pp[k]
      <4>1. k \in DOMAIN r /\ k \in DOMAIN q /\ r[k] = q[k]
        BY <1>1
      <4>2. k \in LineStarts(r) <=> k \in LineStarts(q)
        BY <1>3
      <4> QED
        BY <4>1, <4>2
    <3> QED
      BY <3>1, <3>2
  <2>2. DOMAIN qq = 1..n + 1 /\ qq = [k \in DOMAIN qq |-> qq[k]]
    BY <1>1
  <2> HIDE DEF qq, pp, x
  <2> QED
    BY <1>1, <1>5, <1>6, <2>1, <2>2, MappedAppend
<1>8. StampedKinds(q) = FlattenSeq(pp) /\ StampedKinds(r) = FlattenSeq(qq)
  BY Zenon DEF StampedKinds
<1> HIDE DEF pp, qq
<1>9. FlattenSeq(pp) \in Seq(U) /\ FlattenSeq(qq) = FlattenSeq(pp) \o x
  <2> HIDE DEF x
  <2> QED
    BY <1>5, <1>6, <1>7, FlattenAppend
<1> QED
  BY <1>8, <1>9 DEF r, U
-----------------------------------------------------------------------------
(***************************************************************************)
(* The file, element by element.  Inside a chunk the stamp of the next     *)
(* line is there already.                                                  *)
(***************************************************************************)
Element == [fd : Nat, kind : {"char", "eol", "stamp", "eof"}, at : Nat]
Byte(s) == [fd : {s}, kind : {"char", "eol"}, at : Nat]

Right(q, bytes, s) ==
    /\ NoStamps(OfStream(q, s)) = bytes
    /\ Kinds(OfStream(q, s)) = StampedKinds(bytes)
LineStamped(q, bytes, s) ==
    /\ AtLineStart(bytes)
    /\ NoStamps(OfStream(q, s)) = bytes
    /\ Kinds(OfStream(q, s)) = Append(StampedKinds(bytes), "stamp")

\* No element is newer than now, no line older than its stamp, no stamp goes
\* back; a stamp that waits for its line is of now.
Timed(q, now) ==
    /\ \A j \in 1..Len(q) : q[j].at <= now
    /\ \A j \in 1..Len(q) - 1 :
          q[j].kind = "stamp" /\ q[j].fd # 0 => q[j + 1].at <= q[j].at
    /\ \A j \in 1..Len(q), k \in 1..Len(q) :
          q[j].kind = "stamp" /\ q[k].kind = "stamp" /\ k <= j => q[k].at <= q[j].at
Fresh(q, now) == q # <<>> /\ q[Len(q)].kind = "stamp" => q[Len(q)].at = now
NoEOF(q) == \A j \in 1..Len(q) : q[j].kind # "eof"

LEMMA TimedAppend ==
    ASSUME NEW now \in Nat, NEW q \in Seq(Element), NEW e \in Element,
           Timed(q, now), Fresh(q, now),
           e.at <= now, e.kind = "stamp" => e.at = now
    PROVE  Timed(Append(q, e), now) /\ Fresh(Append(q, e), now)
<1> DEFINE r == Append(q, e)
           n == Len(q)
<1>1. /\ n \in Nat /\ Len(r) = n + 1 /\ r \in Seq(Element)
      /\ r[n + 1] = e /\ \A k \in 1..n : r[k] = q[k]
  BY AppendPieces
<1>2. ASSUME NEW k \in 1..n PROVE q[k].at \in Nat /\ q[k].at <= now
  <2>1. q[k] \in Element
    OBVIOUS
  <2>2. q[k].at \in Nat
    BY <2>1 DEF Element
  <2> QED
    BY <2>2 DEF Timed
<1>3. e.at \in Nat
  BY DEF Element
<1>4. \A j \in 1..n - 1 :
         q[j].kind = "stamp" /\ q[j].fd # 0 => q[j + 1].at <= q[j].at
  BY DEF Timed
<1>5. \A j \in 1..n, k \in 1..n :
         q[j].kind = "stamp" /\ q[k].kind = "stamp" /\ k <= j => q[k].at <= q[j].at
  BY DEF Timed
<1>6. n > 0 /\ q[n].kind = "stamp" => q[n].at = now
  BY DEF Fresh
<1> HIDE DEF r, n
<1>7. \A j \in 1..n + 1 : r[j].at <= now
  <2> SUFFICES ASSUME NEW j \in 1..n + 1 PROVE r[j].at <= now
    OBVIOUS
  <2>1. j = n + 1 \/ j \in 1..n
    BY <1>1
  <2> QED
    BY <1>1, <1>2, <2>1
<1>8. ASSUME NEW j \in 1..n, r[j].kind = "stamp", r[j].fd # 0
      PROVE  r[j + 1].at <= r[j].at
  <2>1. CASE j = n
    <3>1. r[j + 1] = e /\ r[j] = q[n] /\ n > 0
      BY <1>1, <2>1
    <3>2. q[n].at = now
      BY <1>6, <1>8, <3>1
    <3> QED
      BY <3>1, <3>2
  <2>2. CASE j # n
    <3>1. j \in 1..n - 1 /\ j + 1 \in 1..n
      BY <1>1, <2>2
    <3>2. r[j] = q[j] /\ r[j + 1] = q[j + 1]
      BY <1>1, <3>1
    <3> QED
      BY <1>4, <1>8, <3>1, <3>2
  <2> QED
    BY <2>1, <2>2
<1>9. ASSUME NEW j \in 1..n + 1, NEW k \in 1..n + 1,
             r[j].kind = "stamp", r[k].kind = "stamp", k <= j
      PROVE  r[k].at <= r[j].at
  <2>1. CASE j = n + 1
    <3>1. r[j].at = now
      BY <1>1, <1>9, <2>1
    <3> QED
      BY <1>7, <3>1
  <2>2. CASE j # n + 1
    <3>1. j \in 1..n /\ k \in 1..n
      BY <1>1, <1>9, <2>2
    <3>2. r[j] = q[j] /\ r[k] = q[k]
      BY <1>1, <3>1
    <3> QED
      BY <1>5, <1>9, <3>1, <3>2
  <2> QED
    BY <2>1, <2>2
<1>10. Timed(r, now)
  <2>1. Len(r) - 1 = n
    BY <1>1
  <2> QED
    BY <1>1, <1>7, <1>8, <1>9, <2>1 DEF Timed
<1>11. Fresh(r, now)
  BY <1>1 DEF Fresh
<1> QED
  BY <1>10, <1>11 DEF r

LEMMA OtherStream ==
    ASSUME NEW q \in Seq(Element), NEW e \in Element, NEW bytes, NEW s,
           Right(q, bytes, s), e.fd # s
    PROVE  Right(Append(q, e), bytes, s)
<1>1. OfStream(Append(q, e), s) = OfStream(q, s)
  BY OfStreamAppend
<1> QED
  BY <1>1 DEF Right

LEMMA StampedLine ==
    ASSUME NEW q \in Seq(Element), NEW e \in Element,
           NEW bytes \in Seq(Element), NEW s,
           Right(q, bytes, s), AtLineStart(bytes), e.fd = s, e.kind = "stamp"
    PROVE  LineStamped(Append(q, e), bytes, s)
<1> DEFINE o == OfStream(q, s)
<1>1. o \in Seq(Element) /\ OfStream(Append(q, e), s) = Append(o, e)
  BY OfStreamAppend
<1>2. NoStamps(Append(o, e)) = NoStamps(o)
  BY <1>1, NoStampsAppend
<1>3. Kinds(Append(o, e)) = Append(Kinds(o), "stamp")
  BY <1>1, KindsAppend
<1> QED
  BY <1>1, <1>2, <1>3 DEF Right, LineStamped

LEMMA WrittenByte ==
    ASSUME NEW q \in Seq(Element), NEW e \in Element,
           NEW bytes \in Seq(Element), NEW s,
           \/ LineStamped(q, bytes, s)
           \/ Right(q, bytes, s) /\ ~AtLineStart(bytes),
           e.fd = s, e.kind # "stamp"
    PROVE  Right(Append(q, e), Append(bytes, e), s)
<1> DEFINE o == OfStream(q, s)
           U == KindSet(Element)
           k == e.kind
           sk == StampedKinds(bytes)
<1>1. o \in Seq(Element) /\ OfStream(Append(q, e), s) = Append(o, e)
  BY OfStreamAppend
<1>2. NoStamps(Append(o, e)) = Append(NoStamps(o), e)
  BY <1>1, NoStampsAppend
<1>3. Kinds(Append(o, e)) = Append(Kinds(o), k)
  BY <1>1, KindsAppend
<1>4. /\ sk \in Seq(U)
      /\ StampedKinds(Append(bytes, e)) =
           sk \o (IF AtLineStart(bytes) THEN <<"stamp", k>> ELSE <<k>>)
  BY StampedKindsAppend
<1>5. k \in U /\ "stamp" \in U
  BY DEF KindSet
<1>6. Kinds(Append(o, e)) = StampedKinds(Append(bytes, e))
  <2> HIDE DEF o, U, k, sk
  <2>1. CASE LineStamped(q, bytes, s)
    <3>1. AtLineStart(bytes) /\ Kinds(o) = Append(sk, "stamp")
      BY <2>1 DEF LineStamped, o, sk
    <3>2. Append(Append(sk, "stamp"), k) = sk \o <<"stamp", k>>
      BY <1>4, <1>5
    <3> QED
      BY <1>3, <1>4, <3>1, <3>2
  <2>2. CASE Right(q, bytes, s) /\ ~AtLineStart(bytes)
    <3>1. Kinds(o) = sk
      BY <2>2 DEF Right, o, sk
    <3>2. Append(sk, k) = sk \o <<k>>
      BY <1>4, <1>5
    <3> QED
      BY <1>3, <1>4, <2>2, <3>1, <3>2
  <2> QED
    BY <2>1, <2>2
<1>7. NoStamps(o) = bytes
  BY DEF LineStamped, Right
<1> HIDE DEF o
<1> QED
  BY <1>1, <1>2, <1>6, <1>7 DEF Right

\* The file q while a chunk of stream s is written into it, of which bytes were
\* read so far.
Writing(q, bytes, s, stamped) ==
    /\ q \in Seq(Element) /\ bytes \in Seq(Element)
    /\ IF stamped THEN LineStamped(q, bytes, s) ELSE Right(q, bytes, s)
    /\ \A t \in Streams \ {s} : Right(q, Read(t), t)
    /\ Timed(q, clock) /\ Fresh(q, clock)
    /\ NoEOF(q)

LEMMA AddElement ==
    ASSUME clock \in Nat, NEW s \in Streams, NEW e \in Element, NEW q,
           NEW bytes, NEW stamped, Writing(q, bytes, s, stamped),
           e.fd = s, e.at <= clock, e.kind = "stamp" => e.at = clock,
           e.kind # "eof"
    PROVE  /\ Append(q, e) \in Seq(Element)
           /\ \A t \in Streams \ {s} : Right(Append(q, e), Read(t), t)
           /\ Timed(Append(q, e), clock) /\ Fresh(Append(q, e), clock)
           /\ NoEOF(Append(q, e))
<1>1. q \in Seq(Element)
  BY DEF Writing
<1>2. Timed(Append(q, e), clock) /\ Fresh(Append(q, e), clock)
  BY <1>1, TimedAppend DEF Writing
<1>3. ASSUME NEW t \in Streams \ {s} PROVE Right(Append(q, e), Read(t), t)
  BY <1>1, OtherStream DEF Writing
<1>4. NoEOF(Append(q, e))
  <2>1. /\ Len(Append(q, e)) = Len(q) + 1 /\ Len(q) \in Nat
        /\ \A k \in 1..Len(q) : Append(q, e)[k] = q[k]
        /\ Append(q, e)[Len(q) + 1] = e
    BY <1>1, AppendPieces
  <2>2. \A j \in 1..Len(q) : q[j].kind # "eof"
    BY DEF Writing, NoEOF
  <2> QED
    BY <2>1, <2>2 DEF NoEOF
<1>5. Append(q, e) \in Seq(Element)
  BY <1>1
<1> QED
  BY <1>2, <1>3, <1>4, <1>5

LEMMA AddStamp ==
    ASSUME clock \in Nat, NEW s \in Streams, NEW q, NEW bytes,
           Writing(q, bytes, s, FALSE), AtLineStart(bytes)
    PROVE  Writing(Append(q, Stamp(s)), bytes, s, TRUE)
<1> DEFINE e == Stamp(s)
<1>1. e \in Element /\ e.fd = s /\ e.at = clock /\ e.kind = "stamp"
  BY StamperAssumption DEF Stamp, Element
<1>2. clock <= clock
  OBVIOUS
<1> HIDE DEF e
<1>3. q \in Seq(Element) /\ bytes \in Seq(Element) /\ Right(q, bytes, s)
  BY DEF Writing
<1>4. LineStamped(Append(q, e), bytes, s)
  BY <1>1, <1>3, StampedLine
<1>5. /\ Append(q, e) \in Seq(Element)
      /\ \A t \in Streams \ {s} : Right(Append(q, e), Read(t), t)
      /\ Timed(Append(q, e), clock) /\ Fresh(Append(q, e), clock)
      /\ NoEOF(Append(q, e))
  BY <1>1, <1>2, AddElement
<1> QED
  BY <1>3, <1>4, <1>5 DEF Writing, e

LEMMA AddByte ==
    ASSUME clock \in Nat, NEW s \in Streams, NEW q, NEW bytes,
           NEW stamped \in BOOLEAN, Writing(q, bytes, s, stamped),
           stamped \/ ~AtLineStart(bytes),
           NEW b \in Byte(s), b.at <= clock
    PROVE  /\ Writing(Append(q, b), Append(bytes, b), s, FALSE)
           /\ AtLineStart(Append(bytes, b)) <=> b.kind = "eol"
<1>1. b \in Element /\ b.fd = s /\ b.kind # "stamp" /\ b.kind # "eof"
  BY StamperAssumption DEF Byte, Element
<1>2. q \in Seq(Element) /\ bytes \in Seq(Element)
  BY DEF Writing
<1>3. Right(Append(q, b), Append(bytes, b), s)
  <2>1. \/ LineStamped(q, bytes, s)
        \/ Right(q, bytes, s) /\ ~AtLineStart(bytes)
    BY DEF Writing
  <2> QED
    BY <1>1, <1>2, <2>1, WrittenByte
<1>4. /\ Append(q, b) \in Seq(Element)
      /\ \A t \in Streams \ {s} : Right(Append(q, b), Read(t), t)
      /\ Timed(Append(q, b), clock) /\ Fresh(Append(q, b), clock)
      /\ NoEOF(Append(q, b))
  BY <1>1, AddElement
<1>5. /\ Append(bytes, b) \in Seq(Element)
      /\ Append(bytes, b) # <<>>
      /\ Append(bytes, b)[Len(Append(bytes, b))] = b
  <2>1. /\ Append(bytes, b) \in Seq(Element) /\ Len(bytes) \in Nat
        /\ Len(Append(bytes, b)) = Len(bytes) + 1
        /\ Append(bytes, b)[Len(bytes) + 1] = b
    BY <1>1, <1>2, AppendPieces
  <2> QED
    BY <2>1
<1> QED
  BY <1>3, <1>4, <1>5 DEF Writing, AtLineStart

\* The file is ready for the next byte of s.
Ready(q, bytes, s) ==
    \/ Writing(q, bytes, s, TRUE)
    \/ Writing(q, bytes, s, FALSE) /\ ~AtLineStart(bytes)

LEMMA AddReady ==
    ASSUME clock \in Nat, NEW s \in Streams, NEW q, NEW bytes,
           Ready(q, bytes, s), NEW b \in Byte(s), b.at <= clock
    PROVE  /\ Writing(Append(q, b), Append(bytes, b), s, FALSE)
           /\ AtLineStart(Append(bytes, b)) <=> b.kind = "eol"
<1>1. CASE Writing(q, bytes, s, TRUE)
  BY <1>1, AddByte
<1>2. CASE Writing(q, bytes, s, FALSE) /\ ~AtLineStart(bytes)
  BY <1>2, AddByte
<1> QED
  BY <1>1, <1>2 DEF Ready

\* A line that ends before the chunk does, with the stamp of the next one
LEMMA AddWholeLine ==
    ASSUME clock \in Nat, NEW s \in Streams, NEW q, NEW bytes,
           Ready(q, bytes, s), NEW b \in Byte(s), b.at <= clock, b.kind = "eol"
    PROVE  /\ Writing(q \o <<b, Stamp(s)>>, Append(bytes, b), s, TRUE)
           /\ AtLineStart(Append(bytes, b))
<1> DEFINE p == Append(q, b)
           e == Stamp(s)
<1>1. /\ Writing(p, Append(bytes, b), s, FALSE)
      /\ AtLineStart(Append(bytes, b))
  BY AddReady
<1>2. q \in Seq(Element) /\ b \in Element /\ e \in Element
  BY StamperAssumption DEF Ready, Writing, Byte, Element, Stamp
<1> HIDE DEF e
<1>3. Writing(Append(p, e), Append(bytes, b), s, TRUE)
  BY <1>1, AddStamp DEF e
<1>4. q \o <<b, e>> = Append(p, e)
  BY <1>2
<1> QED
  BY <1>1, <1>3, <1>4 DEF e

LEMMA AddPlainByte ==
    ASSUME clock \in Nat, NEW s \in Streams, NEW q, NEW bytes,
           Ready(q, bytes, s), NEW b \in Byte(s), b.at <= clock
    PROVE  /\ Writing(q \o <<b>>, Append(bytes, b), s, FALSE)
           /\ q \o <<b>> # <<>> /\ (q \o <<b>>)[Len(q \o <<b>>)] = b
           /\ AtLineStart(Append(bytes, b)) <=> b.kind = "eol"
<1> DEFINE p == Append(q, b)
<1>1. /\ Writing(p, Append(bytes, b), s, FALSE)
      /\ AtLineStart(Append(bytes, b)) <=> b.kind = "eol"
  BY AddReady
<1>2. q \in Seq(Element) /\ b \in Element
  BY StamperAssumption DEF Ready, Writing, Byte, Element
<1>3. q \o <<b>> = p
  BY <1>2
<1>4. p # <<>> /\ p[Len(p)] = b
  <2>1. /\ p \in Seq(Element) /\ Len(q) \in Nat
        /\ Len(p) = Len(q) + 1 /\ p[Len(q) + 1] = b
    BY <1>2, AppendPieces
  <2> HIDE DEF p
  <2> QED
    BY <2>1
<1> HIDE DEF p
<1> QED
  BY <1>1, <1>3, <1>4

LEMMA Regroup ==
    \A a, b, c \in Seq(Element) : (a \o b) \o c = a \o (b \o c)
OBVIOUS

\* The first n bytes of a chunk, and what they add to the file
Pieces(chunk, s) ==
    [k \in DOMAIN chunk |->
        IF chunk[k].kind = "eol" /\ k < Len(chunk)
        THEN <<chunk[k], Stamp(s)>> ELSE <<chunk[k]>>]

Turn(file, bytes, chunk, k, s) ==
    IF chunk[k].kind = "eol" /\ k < Len(chunk)
    THEN Writing(file, bytes, s, TRUE)
    ELSE /\ Writing(file, bytes, s, FALSE)
         /\ file # <<>> /\ file[Len(file)] = chunk[k]
         /\ AtLineStart(bytes) <=> chunk[k].kind = "eol"

\* One turn of the loop of readFrom(): the end of the chunk is not stamped.
LEMMA OneTurn ==
    ASSUME clock \in Nat, NEW s \in Streams, NEW q, NEW bytes,
           Ready(q, bytes, s),
           NEW chunk \in Seq(Byte(s)), NEW k \in 1..Len(chunk),
           chunk[k].at <= clock
    PROVE  Turn(q \o Pieces(chunk, s)[k], Append(bytes, chunk[k]), chunk, k, s)
<1> DEFINE b == chunk[k]
           x == Pieces(chunk, s)[k]
<1>1. b \in Byte(s) /\ b.at <= clock
  OBVIOUS
<1>2. x = IF b.kind = "eol" /\ k < Len(chunk) THEN <<b, Stamp(s)>> ELSE <<b>>
  <2>1. k \in DOMAIN chunk
    OBVIOUS
  <2> QED
    BY <2>1, Zenon DEF Pieces
<1> HIDE DEF b, x
<1>3. CASE b.kind = "eol" /\ k < Len(chunk)
  <2>1. Writing(q \o <<b, Stamp(s)>>, Append(bytes, b), s, TRUE)
    BY <1>1, <1>3, AddWholeLine
  <2> QED
    BY <1>2, <1>3, <2>1 DEF Turn, b, x
<1>4. CASE ~(b.kind = "eol" /\ k < Len(chunk))
  <2>1. /\ Writing(q \o <<b>>, Append(bytes, b), s, FALSE)
        /\ q \o <<b>> # <<>> /\ (q \o <<b>>)[Len(q \o <<b>>)] = b
        /\ AtLineStart(Append(bytes, b)) <=> b.kind = "eol"
    BY <1>1, AddPlainByte
  <2> QED
    BY <1>2, <1>4, <2>1 DEF Turn, b, x
<1> QED
  BY <1>3, <1>4

LEMMA PiecesType ==
    ASSUME NEW s \in Streams, clock \in Nat, NEW chunk \in Seq(Byte(s))
    PROVE  /\ Pieces(chunk, s) \in Seq(Seq(Element))
           /\ Len(Pieces(chunk, s)) = Len(chunk)
<1> DEFINE pieces == Pieces(chunk, s)
           m == Len(chunk)
           e == Stamp(s)
<1>1. m \in Nat /\ DOMAIN chunk = 1..m
  OBVIOUS
<1>2. e \in Element
  BY StamperAssumption DEF Element, Stamp
<1>3. ASSUME NEW k \in 1..m PROVE chunk[k] \in Element
  <2>1. chunk[k] \in Byte(s)
    BY <1>3
  <2> QED
    BY <2>1, StamperAssumption DEF Byte, Element
<1>4. pieces = [k \in 1..m |-> pieces[k]]
  <2> HIDE DEF m
  <2> QED
    BY <1>1 DEF Pieces
<1>5. ASSUME NEW k \in 1..m PROVE pieces[k] \in Seq(Element)
  <2>1. <<chunk[k], e>> \in Seq(Element) /\ <<chunk[k]>> \in Seq(Element)
    BY <1>2, <1>3, ShortSequences, Zenon
  <2>2. pieces[k] = <<chunk[k], e>> \/ pieces[k] = <<chunk[k]>>
    <3> HIDE DEF m, e
    <3> QED
      BY <1>1 DEF Pieces, e
  <2> QED
    BY <2>1, <2>2, Zenon
<1> HIDE DEF pieces
<1> QED
  BY <1>1, <1>4, <1>5 DEF pieces

\* What read() returns to readFrom()
IsChunk(chunk, s) ==
    /\ chunk \in Seq(Byte(s)) /\ chunk # <<>>
    /\ \A k \in 1..Len(chunk) : chunk[k].at <= clock

\* f[k] is what the first k bytes of the chunk add to the file.
LEMMA LoopOfReadFrom ==
    ASSUME clock \in Nat, NEW s \in Streams, NEW q \in Seq(Element),
           NEW bytes \in Seq(Element), Ready(q, bytes, s),
           NEW chunk, IsChunk(chunk, s),
           NEW f, Flattens(f, Pieces(chunk, s), Len(chunk)),
           NEW k \in 1..Len(chunk)
    PROVE  Turn(q \o f[k], bytes \o SubSeq(chunk, 1, k), chunk, k, s)
<1> DEFINE m == Len(chunk)
           pieces == Pieces(chunk, s)
           file(n) == q \o f[n]
           read(n) == bytes \o SubSeq(chunk, 1, n)
           Good(n) == Turn(file(n), read(n), chunk, n, s)
           S == {n \in 0..k : n > 0 => Good(n)}
<1>0. /\ chunk \in Seq(Byte(s))
      /\ \A n \in 1..Len(chunk) : chunk[n].at <= clock
  BY DEF IsChunk
<1>1. m \in Nat /\ k \in 1..m
  BY <1>0
<1>2. pieces \in Seq(Seq(Element)) /\ Len(pieces) = m
  BY <1>0, PiecesType
<1> HIDE DEF pieces
<1>3. /\ f[1] = pieces[1]
      /\ \A n \in 2..m : f[n] = f[n - 1] \o pieces[n]
  <2>1. m > 0
    BY <1>1
  <2> QED
    <3>1. Flattens(f, pieces, m)
      BY Zenon DEF pieces
    <3> HIDE DEF m
    <3>2. m \in Nat
      BY <1>1
    <3>3. 1 \in 1..m
      BY <2>1, <3>2
    <3> QED
      BY <3>1, <3>2, <3>3, FlattenValues, Zenon
<1>4. \A n \in 1..m : f[n] \in Seq(Element)
  BY <1>2, FlattenType DEF pieces
<1>5. chunk \in Seq(Element)
  <2>1. \A b \in Byte(s) : b \in Element
    BY StamperAssumption DEF Byte, Element
  <2> QED
    BY <1>0, <2>1
<1>6. ASSUME NEW n \in 1..m
      PROVE  read(n) = Append(bytes \o SubSeq(chunk, 1, n - 1), chunk[n])
  <2>1. SubSeq(chunk, 1, n) = Append(SubSeq(chunk, 1, n - 1), chunk[n])
    BY <1>5, PrefixAppend
  <2>2. SubSeq(chunk, 1, n - 1) \in Seq(Element)
    BY <1>5, WholePrefix
  <2>3. chunk[n] \in Element
    BY <1>5
  <2> HIDE DEF m
  <2> QED
    BY <2>1, <2>2, <2>3
<1>7. Good(1)
  <2>1. 1 \in 1..m /\ chunk[1].at <= clock
    BY <1>0, <1>1
  <2>2. Turn(q \o pieces[1], Append(bytes, chunk[1]), chunk, 1, s)
    BY <1>0, <2>1, OneTurn DEF pieces
  <2>3. read(1) = Append(bytes, chunk[1])
    <3>1. SubSeq(chunk, 1, 1 - 1) = <<>>
      BY <1>5, WholePrefix
    <3> QED
      BY <1>6, <2>1, <3>1
  <2> HIDE DEF read
  <2> QED
    BY <1>3, <2>2, <2>3, Zenon
<1>8. ASSUME NEW n \in 2..m, Good(n - 1) PROVE Good(n)
  <2>1. n \in 1..m /\ n - 1 \in 1..m /\ n - 1 < m /\ chunk[n].at <= clock
    BY <1>0, <1>1
  <2>2. Ready(file(n - 1), read(n - 1), s)
    <3> HIDE DEF file, read
    <3> QED
      BY <1>8, <2>1 DEF Turn, Ready
  <2>3. Turn(file(n - 1) \o pieces[n], Append(read(n - 1), chunk[n]), chunk, n, s)
    <3> HIDE DEF file, read
    <3> QED
      BY <1>0, <2>1, <2>2, OneTurn DEF pieces
  <2>4. read(n) = Append(read(n - 1), chunk[n])
    BY <1>6, <2>1
  <2>5. file(n) = file(n - 1) \o pieces[n]
    <3>1. f[n - 1] \in Seq(Element) /\ f[n] = f[n - 1] \o pieces[n]
      BY <1>3, <1>4, <2>1
    <3>2. pieces[n] \in Seq(Element)
      BY <1>2, <2>1
    <3>3. (q \o f[n - 1]) \o pieces[n] = q \o (f[n - 1] \o pieces[n])
      BY <3>1, <3>2, Regroup, Zenon
    <3> QED
      BY <3>1, <3>3, Zenon
  <2> HIDE DEF file, read
  <2> QED
    BY <2>3, <2>4, <2>5
<1> HIDE DEF Good
<1>9. 0 \in S
  BY <1>1
<1>10. ASSUME NEW n \in 1..k, n - 1 \in S PROVE n \in S
  <2>1. CASE n = 1
    BY <1>1, <1>7, <2>1
  <2>2. CASE n # 1
    <3>1. n \in 2..m /\ Good(n - 1)
      BY <1>1, <1>10, <2>2
    <3> QED
      BY <1>1, <1>8, <3>1
  <2> QED
    BY <2>1, <2>2
<1> HIDE DEF S
<1>11. k \in S
  <2>1. k \in Nat
    BY <1>1
  <2>2. 0..k \subseteq S
    BY <1>9, <1>10, <2>1, Induction
  <2> QED
    BY <2>1, <2>2
<1> QED
  BY <1>1, <1>11 DEF S, Good

\* What readFrom() writes before the first byte of a chunk
Before(s, EOLBefore) == IF EOLBefore THEN <<Stamp(s)>> ELSE <<>>

LEMMA StartOfChunk ==
    ASSUME clock \in Nat, NEW s \in Streams, NEW q, NEW bytes,
           Writing(q, bytes, s, FALSE),
           NEW EOLBefore \in BOOLEAN, EOLBefore <=> AtLineStart(bytes)
    PROVE  /\ Before(s, EOLBefore) \in Seq(Element)
           /\ q \o Before(s, EOLBefore) \in Seq(Element)
           /\ Ready(q \o Before(s, EOLBefore), bytes, s)
<1> DEFINE e == Stamp(s)
<1>1. q \in Seq(Element) /\ e \in Element
  BY StamperAssumption DEF Writing, Element, Stamp
<1>2. CASE EOLBefore
  <2>1. Before(s, EOLBefore) = <<e>>
    BY <1>2, Zenon DEF Before
  <2>2. Writing(Append(q, e), bytes, s, TRUE)
    BY <1>2, AddStamp
  <2> HIDE DEF e
  <2>3. <<e>> \in Seq(Element) /\ q \o <<e>> = Append(q, e)
    BY <1>1
  <2>4. Append(q, e) \in Seq(Element)
    BY <1>1
  <2> QED
    BY <2>1, <2>2, <2>3, <2>4, Zenon DEF Ready
<1>3. CASE ~EOLBefore
  <2>1. Before(s, EOLBefore) = <<>>
    BY <1>3, Zenon DEF Before
  <2>2. <<>> \in Seq(Element) /\ q \o <<>> = q
    BY <1>1
  <2>3. ~AtLineStart(bytes)
    BY <1>3, Zenon
  <2> QED
    BY <1>1, <2>1, <2>2, <2>3, Zenon DEF Ready
<1> QED
  BY <1>2, <1>3, Zenon

\* A call of readFrom() that reads something
ChunkDone(file, bytes, chunk, s) ==
    /\ Writing(file, bytes \o chunk, s, FALSE)
    /\ AtLineStart(bytes \o chunk) <=> chunk[Len(chunk)].kind = "eol"
    /\ file # <<>> /\ file[Len(file)] = chunk[Len(chunk)]

LEMMA ChunkWritten ==
    ASSUME clock \in Nat, NEW s \in Streams, NEW q, NEW bytes,
           Writing(q, bytes, s, FALSE),
           NEW chunk, IsChunk(chunk, s),
           NEW EOLBefore \in BOOLEAN, EOLBefore <=> AtLineStart(bytes)
    PROVE  ChunkDone(q \o Stamped(chunk, s, EOLBefore), bytes, chunk, s)
<1> DEFINE m == Len(chunk)
           pre == Before(s, EOLBefore)
           pieces == Pieces(chunk, s)
           start == q \o pre
<1>1. chunk \in Seq(Byte(s)) /\ chunk # <<>>
  BY Zenon DEF IsChunk
<1>2. m \in Nat /\ m \in 1..m
  BY <1>1
<1>3. q \in Seq(Element) /\ bytes \in Seq(Element)
  BY Zenon DEF Writing
<1>4. pre \in Seq(Element) /\ start \in Seq(Element) /\ Ready(start, bytes, s)
  BY StartOfChunk, Zenon
<1>5. pieces \in Seq(Seq(Element)) /\ Len(pieces) = m
  BY <1>1, PiecesType
<1>6. pieces # <<>>
  <2> HIDE DEF pieces, m
  <2> QED
    BY <1>2, <1>5
<1>7. PICK f : Flattens(f, pieces, m) /\ FlattenSeq(pieces) = f[m]
  <2> HIDE DEF pieces
  <2>1. \E f : Flattens(f, pieces, Len(pieces)) /\ FlattenSeq(pieces) = f[Len(pieces)]
    BY <1>5, <1>6, FlattenIs, Zenon
  <2> HIDE DEF m
  <2> QED
    BY <1>5, <2>1, Zenon
<1>8. f[m] \in Seq(Element)
  <2> HIDE DEF pieces
  <2>1. Flattens(f, pieces, Len(pieces)) /\ m \in 1..Len(pieces)
    <3> HIDE DEF m
    <3> QED
      BY <1>2, <1>5, <1>7
  <2> QED
    BY <1>5, <2>1, FlattenType, Zenon
<1>9. Stamped(chunk, s, EOLBefore) = pre \o f[m]
  <2>1. Stamped(chunk, s, EOLBefore) = pre \o FlattenSeq(pieces)
    BY Zenon DEF Stamped, Before, Pieces
  <2> QED
    BY <1>7, <2>1, Zenon
<1>10. q \o Stamped(chunk, s, EOLBefore) = start \o f[m]
  <2>1. (q \o pre) \o f[m] = q \o (pre \o f[m])
    BY <1>3, <1>4, <1>8, Regroup, Zenon
  <2> QED
    BY <1>9, <2>1, Zenon
<1>11. Turn(start \o f[m], bytes \o SubSeq(chunk, 1, m), chunk, m, s)
  BY <1>2, <1>3, <1>4, <1>7, LoopOfReadFrom, Zenon
<1>12. SubSeq(chunk, 1, m) = chunk
  BY <1>1, WholePrefix, Zenon
<1>13. ~(m < m)
  BY <1>2
<1> DEFINE file == start \o f[m]
<1>14. Turn(file, bytes \o chunk, chunk, m, s)
  BY <1>11, <1>12, Zenon
<1> HIDE DEF file, start, pre
<1>15. /\ Writing(file, bytes \o chunk, s, FALSE)
       /\ AtLineStart(bytes \o chunk) <=> chunk[m].kind = "eol"
       /\ file # <<>> /\ file[Len(file)] = chunk[m]
  BY <1>13, <1>14, Zenon DEF Turn
<1> QED
  BY <1>10, <1>15, Zenon DEF ChunkDone, file
-----------------------------------------------------------------------------
(***************************************************************************)
(* The invariant.  Between two steps of the thread no stamp waits for its  *)
(* line: readFrom() writes none after the last byte of a chunk.            *)
(***************************************************************************)
Pipes ==
    /\ written \in [Streams -> Seq(Element)] /\ consumed \in [Streams -> Nat]
    /\ \A s \in Streams :
         /\ written[s] \in Seq(Byte(s))
         /\ consumed[s] <= Len(written[s])
         /\ \A k \in 1..Len(written[s]) : written[s][k].at <= clock

Info == [fd : Streams, EOLBefore : BOOLEAN]
Watching ==
    /\ watched \in Seq(Info)
    /\ \A j, k \in 1..Len(watched) : watched[j].fd = watched[k].fd => j = k
    /\ \A k \in 1..Len(watched) :
          watched[k].EOLBefore <=> AtLineStart(Read(watched[k].fd))

Settled(q) == q # <<>> => q[Len(q)].kind # "stamp"
File ==
    /\ output \in Seq(Element)
    /\ \A s \in Streams : Right(output, Read(s), s)
    /\ Timed(output, clock) /\ Settled(output)

\* The line of --add-eof
Ending ==
    IF pc = "done"
    THEN \A j \in 1..Len(output) : output[j].kind = "eof" =>
            /\ j = Len(output)
            /\ j > 2 => output[j - 2].kind = "eol"
    ELSE /\ NoEOF(output)
         /\ output # <<>> /\ ~incompleteLineSent =>
               output[Len(output)].kind = "eol"

Counters ==
    /\ clock \in Nat /\ i \in Nat \ {0} /\ incompleteLineSent \in BOOLEAN
    /\ pc \in {"select", "scan", "finish", "done"}

StamperInv == Counters /\ Pipes /\ Watching /\ File /\ Ending

\* SetToSeq names each stream once.
LEMMA NamesOfStreams ==
    /\ SetToSeq(Streams) \in Seq(Streams)
    /\ \A j, k \in 1..Len(SetToSeq(Streams)) :
          SetToSeq(Streams)[j] = SetToSeq(Streams)[k] => j = k
<1> DEFINE n == Cardinality(Streams)
           names == SetToSeq(Streams)
<1>1. IsFiniteSet(Streams)
  BY StamperAssumption
<1>2. n \in Nat /\ Bijection(1..n, Streams) # {}
  BY <1>1, FS_CardinalityType DEF ExistsBijection
<1>3. PICK f \in [1..n -> Streams] : IsInjective(f)
  <2> HIDE DEF n
  <2> QED
    BY <1>2, Zenon DEF Bijection, Injection
<1>4. names \in [1..n -> Streams] /\ IsInjective(names)
  <2>1. names = CHOOSE g \in [1..n -> Streams] : IsInjective(g)
    BY Zenon DEF SetToSeq
  <2> HIDE DEF names, n
  <2> QED
    BY <1>3, <2>1, Zenon
<1> HIDE DEF names, n
<1>5. names \in Seq(Streams) /\ Len(names) = n /\ DOMAIN names = 1..n
  BY <1>2, <1>4
<1> QED
  BY <1>4, <1>5 DEF IsInjective, names

LEMMA EmptyFile ==
    ASSUME NEW s
    PROVE  Right(<<>>, <<>>, s)
<1>1. OfStream(<<>>, s) = <<>>
  BY DEF OfStream, FlattenSeq
<1>2. NoStamps(<<>>) = <<>> /\ Kinds(<<>>) = <<>> /\ StampedKinds(<<>>) = <<>>
  BY DEF NoStamps, Kinds, StampedKinds, FlattenSeq
<1> QED
  BY <1>1, <1>2 DEF Right

LEMMA NothingRead ==
    ASSUME \A s \in Streams : written[s] \in Seq(Element) /\ consumed[s] = 0,
           NEW s \in Streams
    PROVE  Read(s) = <<>>
BY DEF Read

LEMMA InitStamper == Init => StamperInv
<1> SUFFICES ASSUME Init PROVE StamperInv
  OBVIOUS
<1> DEFINE names == SetToSeq(Streams)
           n == Len(names)
<1>1. Counters
  <2>1. clock = 0 /\ i = 1 /\ incompleteLineSent = FALSE /\ pc = "select"
    BY Zenon DEF Init
  <2>2. FALSE \in BOOLEAN /\ 0 \in Nat /\ 1 \in Nat \ {0}
    OBVIOUS
  <2> QED
    BY <2>1, <2>2, Zenon DEF Counters
<1>2. Pipes
  <2>1. \A s \in Streams : written[s] = <<>> /\ consumed[s] = 0
    BY DEF Init
  <2>2. /\ written \in [Streams -> Seq(Element)]
        /\ consumed \in [Streams -> Nat]
    <3>1. <<>> \in Seq(Element)
      OBVIOUS
    <3> QED
      BY <3>1 DEF Init
  <2>3. \A s \in Streams : <<>> \in Seq(Byte(s))
    OBVIOUS
  <2>4. Len(<<>>) = 0
    OBVIOUS
  <2> QED
    BY <2>1, <2>2, <2>3, <2>4 DEF Pipes
<1>3. \A s \in Streams : Read(s) = <<>>
  <2>1. \A s \in Streams : written[s] = <<>> /\ consumed[s] = 0
    BY DEF Init
  <2>2. SubSeq(<<>>, 1, 0) = <<>>
    OBVIOUS
  <2> QED
    BY <2>1, <2>2 DEF Read
<1>4. Watching
  <2>1. /\ names \in Seq(Streams)
        /\ \A j, k \in 1..n : names[j] = names[k] => j = k
    BY NamesOfStreams
  <2>2. watched = [k \in 1..n |-> [fd |-> names[k], EOLBefore |-> TRUE]]
    <3>1. DOMAIN names = 1..n
      BY <2>1
    <3> QED
      BY <3>1 DEF Init
  <2> HIDE DEF names
  <2>3. n \in Nat /\ \A k \in 1..n : names[k] \in Streams
    BY <2>1
  <2> HIDE DEF n
  <2>4. \A k \in 1..n : /\ watched[k] \in Info
                        /\ watched[k].fd = names[k] /\ watched[k].EOLBefore = TRUE
    BY <2>2, <2>3 DEF Info
  <2>5. watched \in Seq(Info) /\ Len(watched) = n
    BY <2>2, <2>3, <2>4
  <2>6. AtLineStart(<<>>)
    BY DEF AtLineStart
  <2>7. \A k \in 1..n : watched[k].EOLBefore <=> AtLineStart(Read(watched[k].fd))
    BY <1>3, <2>3, <2>4, <2>6
  <2>8. \A j, k \in 1..n : watched[j].fd = watched[k].fd => j = k
    BY <2>1, <2>4
  <2> QED
    BY <2>5, <2>7, <2>8 DEF Watching
<1>5. output = <<>> /\ Len(<<>>) = 0 /\ <<>> \in Seq(Element)
  BY DEF Init
<1>6. File
  <2>1. \A s \in Streams : Right(output, Read(s), s)
    BY <1>3, <1>5, EmptyFile
  <2> QED
    BY <1>5, <2>1 DEF File, Timed, Settled
<1>7. Ending
  BY <1>5 DEF Init, Ending, NoEOF
<1> QED
  BY <1>1, <1>2, <1>4, <1>6, <1>7 DEF StamperInv

\* Steps of the thread that read nothing, and the solver's
LEMMA Quiet ==
    ASSUME StamperInv, i' \in Nat \ {0}, pc' \in {"select", "scan", "finish", "done"},
           pc' = "done" <=> pc = "done",
           UNCHANGED <<clock, written, consumed, watched, incompleteLineSent, output>>
    PROVE  StamperInv'
<1>1. \A s : Read(s)' = Read(s)
  BY DEF Read
<1>2. Counters'
  BY DEF StamperInv, Counters
<1>3. Pipes'
  BY DEF StamperInv, Pipes
<1>4. Watching'
  BY <1>1 DEF StamperInv, Watching
<1>5. File'
  BY <1>1 DEF StamperInv, File
<1>6. Ending'
  BY DEF StamperInv, Ending
<1> QED
  BY <1>2, <1>3, <1>4, <1>5, <1>6 DEF StamperInv

LEMMA TickKeeps ==
    ASSUME StamperInv, Tick
    PROVE  StamperInv'
<1>1. \A s : Read(s)' = Read(s)
  BY DEF Tick, solverVars, Read
<1>2. clock \in Nat /\ clock' = clock + 1
  BY DEF StamperInv, Counters, Tick
<1>3. Counters'
  BY <1>2 DEF StamperInv, Counters, Tick
<1>4. Pipes'
  <2>1. /\ written \in [Streams -> Seq(Element)] /\ consumed \in [Streams -> Nat]
        /\ written' = written /\ consumed' = consumed
    BY DEF StamperInv, Pipes, Tick, solverVars
  <2>2. ASSUME NEW s \in Streams
        PROVE  written[s] \in Seq(Byte(s)) /\ consumed[s] <= Len(written[s])
    BY DEF StamperInv, Pipes
  <2>3. ASSUME NEW s \in Streams, NEW k \in 1..Len(written[s])
        PROVE  written[s][k].at <= clock + 1
    <3>1. written[s][k].at <= clock
      BY DEF StamperInv, Pipes
    <3>2. written[s][k] \in Element
      BY <2>1
    <3>3. written[s][k].at \in Nat
      BY <3>2 DEF Element
    <3> QED
      BY <1>2, <3>1, <3>3
  <2> QED
    BY <1>2, <2>1, <2>2, <2>3, Zenon DEF Pipes
<1>5. Watching'
  <2>1. watched' = watched
    BY DEF Tick
  <2> QED
    BY <1>1, <2>1 DEF StamperInv, Watching
<1>6. File'
  <2>1. output' = output /\ File
    BY DEF Tick, StamperInv
  <2>2. Timed(output, clock + 1)
    <3>1. ASSUME NEW j \in 1..Len(output) PROVE output[j].at <= clock + 1
      <4>1. output[j] \in Element
        BY <2>1 DEF File
      <4>2. output[j].at \in Nat
        BY <4>1 DEF Element
      <4>3. output[j].at <= clock
        BY <2>1 DEF File, Timed
      <4> QED
        BY <1>2, <4>2, <4>3
    <3> QED
      BY <2>1, <3>1 DEF File, Timed
  <2> QED
    BY <1>1, <1>2, <2>1, <2>2 DEF File
<1>7. Ending'
  BY DEF StamperInv, Ending, Tick
<1> QED
  BY <1>3, <1>4, <1>5, <1>6, <1>7 DEF StamperInv

LEMMA PrefixStays ==
    ASSUME NEW T, NEW q \in Seq(T), NEW e \in T, NEW n \in 0..Len(q)
    PROVE  SubSeq(Append(q, e), 1, n) = SubSeq(q, 1, n)
<1>1. /\ Len(Append(q, e)) = Len(q) + 1 /\ Len(q) \in Nat
      /\ \A k \in 1..Len(q) : Append(q, e)[k] = q[k]
  BY AppendPieces
<1> DEFINE r == Append(q, e)
<1> HIDE DEF r
<1> QED
  BY <1>1 DEF r

LEMMA SolverWritesKeeps ==
    ASSUME StamperInv, NEW s \in Streams, NEW kind \in {"char", "eol"},
           SolverWrites(s, kind)
    PROVE  StamperInv'
<1> DEFINE b == [fd |-> s, kind |-> kind, at |-> clock]
           w == written[s]
<1>1. clock \in Nat
  BY DEF StamperInv, Counters
<1>2. b \in Byte(s) /\ b \in Element /\ b.at = clock
  BY <1>1, StamperAssumption DEF Byte, Element
<1> HIDE DEF b
<1>3. /\ written' = [written EXCEPT ![s] = Append(w, b)]
      /\ UNCHANGED <<clock, consumed, watched, i, incompleteLineSent, pc, output>>
  BY DEF SolverWrites, b
<1>4. /\ written \in [Streams -> Seq(Element)] /\ consumed \in [Streams -> Nat]
      /\ w \in Seq(Element) /\ w \in Seq(Byte(s))
  BY DEF StamperInv, Pipes
<1>5. /\ written'[s] = Append(w, b)
      /\ \A t \in Streams \ {s} : written'[t] = written[t]
  BY <1>3, <1>4
<1>6. \A t \in Streams : consumed[t] <= Len(written[t])
  BY DEF StamperInv, Pipes
<1>7. ASSUME NEW t \in Streams PROVE Read(t)' = Read(t)
  <2>1. CASE t = s
    <3>1. consumed[s] \in 0..Len(w)
      BY <1>4, <1>6
    <3>2. SubSeq(Append(w, b), 1, consumed[s]) = SubSeq(w, 1, consumed[s])
      BY <1>2, <1>4, <3>1, PrefixStays
    <3> QED
      BY <1>3, <1>5, <2>1, <3>2 DEF Read
  <2>2. CASE t # s
    BY <1>3, <1>5, <2>2 DEF Read
  <2> QED
    BY <2>1, <2>2
<1>8. Counters'
  BY <1>3 DEF StamperInv, Counters
<1>9. Pipes'
  <2>1. written' \in [Streams -> Seq(Element)]
    <3>1. Append(w, b) \in Seq(Element)
      BY <1>2, <1>4
    <3> QED
      BY <1>3, <1>4, <3>1
  <2>2. ASSUME NEW t \in Streams
        PROVE  /\ written'[t] \in Seq(Byte(t))
               /\ consumed[t] <= Len(written'[t])
               /\ \A k \in 1..Len(written'[t]) : written'[t][k].at <= clock
    <3>1. CASE t = s
      <4>1. Append(w, b) \in Seq(Byte(s))
        BY <1>2, <1>4
      <4>2. /\ Len(Append(w, b)) = Len(w) + 1 /\ Len(w) \in Nat
            /\ \A k \in 1..Len(w) : Append(w, b)[k] = w[k]
            /\ Append(w, b)[Len(w) + 1] = b
        BY <1>2, <1>4, AppendPieces
      <4>3. \A k \in 1..Len(w) : w[k].at <= clock
        BY DEF StamperInv, Pipes
      <4>4. consumed[s] <= Len(w) /\ consumed[s] \in Nat
        BY <1>4, <1>6
      <4>5. consumed[s] <= Len(Append(w, b))
        BY <4>2, <4>4
      <4>6. ASSUME NEW k \in 1..Len(w) + 1 PROVE Append(w, b)[k].at <= clock
        <5>1. CASE k = Len(w) + 1
          BY <1>1, <1>2, <4>2, <5>1
        <5>2. CASE k # Len(w) + 1
          <6>1. k \in 1..Len(w)
            BY <4>2, <5>2
          <6> QED
            BY <4>2, <4>3, <6>1
        <5> QED
          BY <5>1, <5>2
      <4> QED
        BY <1>5, <3>1, <4>1, <4>2, <4>5, <4>6, Zenon
    <3>2. CASE t # s
      <4>1. /\ written[t] \in Seq(Byte(t))
            /\ consumed[t] <= Len(written[t])
            /\ \A k \in 1..Len(written[t]) : written[t][k].at <= clock
        BY DEF StamperInv, Pipes
      <4>2. written'[t] = written[t]
        BY <1>5, <3>2
      <4> QED
        BY <4>1, <4>2, Zenon
    <3> QED
      BY <3>1, <3>2
  <2> QED
    BY <1>3, <1>4, <2>1, <2>2, Zenon DEF Pipes
<1>10. Watching'
  <2>1. \A k \in 1..Len(watched) : watched[k].fd \in Streams
    <3>1. watched \in Seq(Info)
      BY DEF StamperInv, Watching
    <3>2. ASSUME NEW k \in 1..Len(watched) PROVE watched[k] \in Info
      BY <3>1
    <3> QED
      BY <3>2 DEF Info
  <2>2. Watching
    BY DEF StamperInv
  <2> QED
    BY <1>3, <1>7, <2>1, <2>2, Zenon DEF Watching
<1>11. File'
  BY <1>3, <1>7, Zenon DEF StamperInv, File
<1>12. Ending'
  BY <1>3 DEF StamperInv, Ending
<1> QED
  BY <1>8, <1>9, <1>10, <1>11, <1>12 DEF StamperInv

\* readFrom() reads the next bytes of the stream.
LEMMA NextChunk ==
    ASSUME clock \in Nat, Pipes, NEW s \in Streams, Pending(s) > 0
    PROVE  /\ IsChunk(Chunk(s), s)
           /\ consumed[s] + Len(Chunk(s)) \in 0..Len(written[s])
           /\ Read(s) \o Chunk(s) =
                SubSeq(written[s], 1, consumed[s] + Len(Chunk(s)))
<1> DEFINE w == written[s]
           c == consumed[s]
           n == IF Pending(s) < BufferSize THEN Pending(s) ELSE BufferSize
<1>1. w \in Seq(Byte(s)) /\ c \in Nat /\ c <= Len(w) /\ Len(w) \in Nat
  BY DEF Pipes
<1>2. n \in Nat /\ n > 0 /\ c + n <= Len(w)
  BY <1>1, StamperAssumption DEF Pending
<1>3. Chunk(s) = SubSeq(w, c + 1, c + n)
  BY Zenon DEF Chunk
<1>4. \A k \in 1..Len(w) : w[k].at <= clock
  BY DEF Pipes
<1> HIDE DEF w, n, c
<1>5. /\ Chunk(s) \in Seq(Byte(s)) /\ Len(Chunk(s)) = n
      /\ \A k \in 1..n : Chunk(s)[k] = w[c + k]
  <2>1. /\ c + 1 \in Int /\ c + n \in Int /\ c + 1 <= c + n
        /\ (c + n) - (c + 1) + 1 = n
    BY <1>1, <1>2
  <2>2. \A k \in c + 1..c + n : w[k] \in Byte(s)
    BY <1>1, <1>2
  <2>3. /\ SubSeq(w, c + 1, c + n) \in Seq(Byte(s))
        /\ Len(SubSeq(w, c + 1, c + n)) = n
        /\ \A k \in 1..n : SubSeq(w, c + 1, c + n)[k] = w[c + 1 + k - 1]
    BY <2>1, <2>2, SubSeqProperties
  <2>4. \A k \in 1..n : c + 1 + k - 1 = c + k
    BY <1>1, <1>2
  <2> QED
    BY <1>3, <2>3, <2>4
<1>6. IsChunk(Chunk(s), s)
  <2>1. ASSUME NEW k \in 1..n PROVE Chunk(s)[k].at <= clock
    <3>1. c + k \in 1..Len(w)
      BY <1>1, <1>2
    <3> QED
      BY <1>4, <1>5, <3>1
  <2>2. Chunk(s) # <<>>
    <3>1. Len(<<>>) = 0
      OBVIOUS
    <3> QED
      BY <1>2, <1>5, <3>1
  <2> QED
    BY <1>5, <2>1, <2>2 DEF IsChunk
<1>7. c + n \in 0..Len(w)
  BY <1>1, <1>2
<1>8. SubSeq(w, 1, c) \o SubSeq(w, c + 1, c + n) = SubSeq(w, 1, c + n)
  <2>1. 1 \in 1..Len(w) + 1 /\ c \in 1 - 1..Len(w) /\ c + n \in c..Len(w)
    BY <1>1, <1>2
  <2> QED
    BY <1>1, <2>1, ConcatAdjacentSubSeq
<1>9. Read(s) = SubSeq(w, 1, c)
  BY Zenon DEF Read, w, c
<1> QED
  BY <1>3, <1>5, <1>6, <1>7, <1>8, <1>9, Zenon DEF w, c

LEMMA SettledIsFresh ==
    ASSUME NEW q \in Seq(Element), Settled(q), NEW now
    PROVE  Fresh(q, now)
BY DEF Settled, Fresh

LEMMA ReadFromKeeps ==
    ASSUME StamperInv, ReadFrom
    PROVE  StamperInv'
<1>1. /\ clock \in Nat /\ i \in Nat \ {0} /\ pc = "scan" /\ i \in 1..Len(watched)
      /\ Pending(Current) > 0
  BY DEF StamperInv, Counters, ReadFrom, Scanning
<1>0. watched \in Seq(Info) /\ watched[i] \in Info
  <2>1. watched \in Seq(Info)
    BY DEF StamperInv, Watching
  <2> QED
    BY <1>1, <2>1
<1>2. PICK s \in Streams : s = watched[i].fd /\ s = Current
  BY <1>0 DEF Info, Current
<1>3. s \in Streams /\ watched[i].EOLBefore \in BOOLEAN /\ Pending(s) > 0
  BY <1>0, <1>1, <1>2 DEF Info
<1> DEFINE chunk == Chunk(s)
           file == output \o Stamped(chunk, s, watched[i].EOLBefore)
           b == chunk[Len(chunk)]
<1>4. watched[i].EOLBefore <=> AtLineStart(Read(s))
  BY <1>1, <1>2, Zenon DEF StamperInv, Watching
<1>5. /\ consumed' = [consumed EXCEPT ![s] = consumed[s] + Len(chunk)]
      /\ output' = file
      /\ i' = i + 1
      /\ UNCHANGED <<clock, written, pc>>
  BY <1>2 DEF ReadFrom, solverVars
<1>17. PICK e \in BOOLEAN :
         /\ e <=> b.kind = "eol"
         /\ watched' = [watched EXCEPT ![i].EOLBefore = e]
         /\ incompleteLineSent' = ~e
  <2>1. /\ watched' = [watched EXCEPT ![i].EOLBefore = (b.kind = "eol")]
        /\ incompleteLineSent' = (b.kind # "eol")
    BY <1>2, Zenon DEF ReadFrom, Last
  <2>2. CASE b.kind = "eol"
    <3>1. (b.kind = "eol") = TRUE /\ (b.kind # "eol") = FALSE
      BY <2>2
    <3> QED
      BY <2>1, <2>2, <3>1, Zenon
  <2>3. CASE b.kind # "eol"
    <3>1. (b.kind = "eol") = FALSE /\ (b.kind # "eol") = TRUE
      BY <2>3
    <3> QED
      BY <2>1, <2>3, <3>1, Zenon
  <2> QED
    BY <2>2, <2>3
<1>6. /\ IsChunk(chunk, s)
      /\ consumed[s] + Len(chunk) \in 0..Len(written[s])
      /\ Read(s) \o chunk = SubSeq(written[s], 1, consumed[s] + Len(chunk))
  BY <1>1, <1>3, NextChunk DEF StamperInv
<1>7. Writing(output, Read(s), s, FALSE)
  <2>1. output \in Seq(Element) /\ Read(s) \in Seq(Element)
    <3>1. written[s] \in Seq(Element) /\ consumed[s] \in 0..Len(written[s])
      BY <1>3 DEF StamperInv, Pipes
    <3> QED
      BY <3>1, WholePrefix DEF StamperInv, File, Read
  <2>2. \A t \in Streams : Right(output, Read(t), t)
    BY DEF StamperInv, File
  <2>3. Timed(output, clock) /\ Fresh(output, clock)
    BY <2>1, SettledIsFresh DEF StamperInv, File
  <2>4. NoEOF(output)
    BY <1>1 DEF StamperInv, Ending
  <2> QED
    BY <1>3, <2>1, <2>2, <2>3, <2>4 DEF Writing
<1> HIDE DEF chunk, file, b
<1>8. /\ Writing(file, Read(s) \o chunk, s, FALSE)
      /\ AtLineStart(Read(s) \o chunk) <=> b.kind = "eol"
      /\ file # <<>> /\ file[Len(file)] = b
  <2> DEFINE before == watched[i].EOLBefore
  <2>1. before \in BOOLEAN
    BY <1>3
  <2>2. before <=> AtLineStart(Read(s))
    BY <1>4
  <2>3. clock \in Nat
    BY <1>1
  <2>4. IsChunk(chunk, s)
    BY <1>6
  <2>5. file = output \o Stamped(chunk, s, before)
    BY DEF file
  <2> HIDE DEF before
  <2>6. ChunkDone(output \o Stamped(chunk, s, before), Read(s), chunk, s)
    BY <1>7, <2>1, <2>2, <2>3, <2>4, ChunkWritten, Zenon
  <2> QED
    BY <2>5, <2>6, Zenon DEF ChunkDone, b
<1>9. Read(s)' = Read(s) \o chunk
  <2>1. consumed'[s] = consumed[s] + Len(chunk)
    BY <1>3, <1>5 DEF StamperInv, Pipes
  <2> QED
    BY <1>5, <1>6, <2>1 DEF Read
<1>10. ASSUME NEW t \in Streams, t # s PROVE Read(t)' = Read(t)
  <2>1. consumed'[t] = consumed[t]
    BY <1>3, <1>5, <1>10 DEF StamperInv, Pipes
  <2> QED
    BY <1>5, <2>1 DEF Read
<1>11. b \in Byte(s)
  <2>1. chunk \in Seq(Byte(s)) /\ chunk # <<>>
    BY <1>6, Zenon DEF IsChunk
  <2> QED
    BY <2>1 DEF b
<1>12. Counters'
  <2>1. i' \in Nat \ {0}
    BY <1>1, <1>5
  <2>2. incompleteLineSent' \in BOOLEAN
    BY <1>17, Zenon
  <2> QED
    BY <1>1, <1>5, <2>1, <2>2, Zenon DEF Counters
<1>13. Pipes'
  <2>1. /\ written \in [Streams -> Seq(Element)] /\ consumed \in [Streams -> Nat]
        /\ \A t \in Streams :
              /\ written[t] \in Seq(Byte(t)) /\ consumed[t] <= Len(written[t])
              /\ \A k \in 1..Len(written[t]) : written[t][k].at <= clock
    BY Zenon DEF StamperInv, Pipes
  <2>2. /\ consumed[s] + Len(chunk) \in Nat
        /\ consumed[s] + Len(chunk) <= Len(written[s])
    <3>1. Len(written[s]) \in Nat
      BY <1>3, <2>1
    <3> QED
      BY <1>6, <3>1
  <2>3. consumed' \in [Streams -> Nat]
    BY <1>3, <1>5, <2>1, <2>2
  <2>4. ASSUME NEW t \in Streams PROVE consumed'[t] <= Len(written[t])
    <3>1. CASE t = s
      <4>1. consumed'[t] = consumed[s] + Len(chunk)
        BY <1>3, <1>5, <2>1, <3>1
      <4> QED
        BY <2>2, <3>1, <4>1, Zenon
    <3>2. CASE t # s
      <4>1. consumed'[t] = consumed[t]
        BY <1>3, <1>5, <2>1, <3>2
      <4> QED
        BY <2>1, <4>1, Zenon
    <3> QED
      BY <3>1, <3>2
  <2> QED
    BY <1>5, <2>1, <2>3, <2>4, Zenon DEF Pipes
<1>14. Watching'
  <2>1. /\ \A j, k \in 1..Len(watched) : watched[j].fd = watched[k].fd => j = k
        /\ \A k \in 1..Len(watched) :
              watched[k].EOLBefore <=> AtLineStart(Read(watched[k].fd))
    BY DEF StamperInv, Watching
  <2> DEFINE x == [watched[i] EXCEPT !.EOLBefore = e]
  <2>2. x \in Info /\ x.fd = s /\ x.EOLBefore = e
    BY <1>0, <1>2 DEF Info
  <2>3. watched' = [watched EXCEPT ![i] = x]
    BY <1>17, Zenon
  <2> HIDE DEF x
  <2>4. /\ watched' \in Seq(Info) /\ Len(watched') = Len(watched)
        /\ watched'[i] = x
        /\ \A k \in 1..Len(watched) : k # i => watched'[k] = watched[k]
    BY <1>0, <1>1, <2>2, <2>3
  <2>5. \A k \in 1..Len(watched) : watched'[k].fd = watched[k].fd
    BY <1>2, <2>2, <2>4, Zenon
  <2>6. \A j, k \in 1..Len(watched') : watched'[j].fd = watched'[k].fd => j = k
    BY <2>1, <2>4, <2>5, Zenon
  <2>7. ASSUME NEW k \in 1..Len(watched)
        PROVE  (watched[k].EOLBefore <=> AtLineStart(Read(watched[k].fd)))'
    <3>1. PICK t \in Streams : t = watched[k].fd
      <4>1. watched[k] \in Info
        BY <1>0
      <4> QED
        BY <4>1 DEF Info
    <3>2. Read(watched[k].fd)' = Read(t)'
      BY <2>5, <3>1, Zenon DEF Read
    <3>3. CASE k = i
      <4>1. watched'[k] = x /\ t = s
        BY <1>2, <2>4, <3>1, <3>3, Zenon
      <4>2. Read(t)' = Read(s) \o chunk
        BY <1>9, <4>1, Zenon
      <4> QED
        BY <1>8, <1>17, <2>2, <3>2, <4>1, <4>2, Zenon DEF AtLineStart
    <3>4. CASE k # i
      <4>1. watched'[k] = watched[k]
        BY <2>4, <3>4, Zenon
      <4>2. t # s
        BY <1>1, <1>2, <2>1, <3>1, <3>4, Zenon
      <4>3. Read(t)' = Read(t)
        BY <1>10, <4>2, Zenon
      <4> QED
        BY <2>1, <3>1, <3>2, <4>1, <4>3, Zenon DEF AtLineStart
    <3> QED
      BY <3>3, <3>4
  <2> QED
    BY <2>4, <2>6, <2>7, Zenon DEF Watching
<1>15. File'
  <2>1. file \in Seq(Element) /\ Timed(file, clock)
    BY <1>8, Zenon DEF Writing
  <2>2. ASSUME NEW t \in Streams PROVE Right(file, Read(t)', t)
    <3>1. CASE t = s
      <4>1. Right(file, Read(s) \o chunk, s)
        BY <1>8, Zenon DEF Writing
      <4> QED
        BY <1>9, <3>1, <4>1, Zenon
    <3>2. CASE t # s
      <4>1. Right(file, Read(t), t)
        BY <1>8, <3>2 DEF Writing
      <4>2. Read(t)' = Read(t)
        BY <1>10, <3>2
      <4> QED
        BY <4>1, <4>2, Zenon
    <3> QED
      BY <3>1, <3>2
  <2>3. Settled(file)
    <3>1. b.kind # "stamp"
      BY <1>11 DEF Byte
    <3> QED
      BY <1>8, <3>1 DEF Settled
  <2> QED
    BY <1>5, <2>1, <2>2, <2>3 DEF File
<1>16. Ending'
  <2>1. NoEOF(file)
    BY <1>8, Zenon DEF Writing
  <2>2. file[Len(file)] = b /\ (incompleteLineSent' <=> b.kind # "eol")
    BY <1>8, <1>17, Zenon
  <2>3. pc' # "done" /\ output' = file
    BY <1>1, <1>5
  <2> QED
    BY <2>1, <2>2, <2>3, Zenon DEF Ending
<1> QED
  BY <1>12, <1>13, <1>14, <1>15, <1>16 DEF StamperInv

LEMMA WithoutOne ==
    ASSUME NEW T, NEW q \in Seq(T), NEW n \in 1..Len(q)
    PROVE  /\ RemoveAt(q, n) \in Seq(T) /\ Len(RemoveAt(q, n)) = Len(q) - 1
           /\ \A k \in 1..Len(q) - 1 :
                 RemoveAt(q, n)[k] = IF k < n THEN q[k] ELSE q[k + 1]
<1> DEFINE a == SubSeq(q, 1, n - 1)
           z == SubSeq(q, n + 1, Len(q))
<1>1. /\ a \in Seq(T) /\ Len(a) = n - 1
      /\ \A k \in 1..n - 1 : a[k] = q[k]
  OBVIOUS
<1>2. /\ z \in Seq(T) /\ Len(z) = Len(q) - n
      /\ \A k \in 1..Len(q) - n : z[k] = q[n + k]
  OBVIOUS
<1>3. RemoveAt(q, n) = a \o z
  BY DEF RemoveAt
<1>4. Len(q) \in Nat /\ n \in 1..Len(q)
  OBVIOUS
<1> HIDE DEF a, z
<1>5. /\ a \o z \in Seq(T) /\ Len(a \o z) = Len(a) + Len(z)
      /\ \A k \in 1..Len(a) + Len(z) :
            (a \o z)[k] = IF k <= Len(a) THEN a[k] ELSE z[k - Len(a)]
  BY <1>1, <1>2, ConcatProperties
<1>6. ASSUME NEW k \in 1..Len(q) - 1
      PROVE  (a \o z)[k] = IF k < n THEN q[k] ELSE q[k + 1]
  <2>1. k \in 1..Len(a) + Len(z)
    BY <1>1, <1>2, <1>4
  <2>2. (a \o z)[k] = IF k <= Len(a) THEN a[k] ELSE z[k - Len(a)]
    BY <1>5, <2>1
  <2>3. CASE k < n
    BY <1>1, <1>4, <2>2, <2>3
  <2>4. CASE ~(k < n)
    <3>1. k - Len(a) \in 1..Len(q) - n /\ n + (k - Len(a)) = k + 1 /\ ~(k <= Len(a))
      BY <1>1, <1>4, <2>4
    <3> QED
      BY <1>2, <2>2, <2>4, <3>1
  <2> QED
    BY <2>3, <2>4
<1> QED
  BY <1>1, <1>2, <1>3, <1>4, <1>5, <1>6

LEMMA EndOfFileKeeps ==
    ASSUME StamperInv, EndOfFile
    PROVE  StamperInv'
<1>1. /\ i \in 1..Len(watched) /\ watched \in Seq(Info)
      /\ watched' = RemoveAt(watched, i)
  <2>1. i \in Nat \ {0} /\ i <= Len(watched) /\ watched \in Seq(Info)
    BY DEF StamperInv, Counters, Watching, EndOfFile, Scanning
  <2>2. Len(watched) \in Nat
    BY <2>1
  <2> QED
    BY <2>1, <2>2 DEF EndOfFile, Rest
<1>2. UNCHANGED <<clock, written, consumed, i, incompleteLineSent, pc, output>>
  BY DEF EndOfFile, solverVars
<1>3. \A s : Read(s)' = Read(s)
  BY <1>2 DEF Read
<1>4. Watching'
  <2>1. /\ watched' \in Seq(Info) /\ Len(watched') = Len(watched) - 1
        /\ \A k \in 1..Len(watched) - 1 :
              watched'[k] = IF k < i THEN watched[k] ELSE watched[k + 1]
    BY <1>1, WithoutOne
  <2> DEFINE was(k) == IF k < i THEN k ELSE k + 1
  <2>2. ASSUME NEW k \in 1..Len(watched')
        PROVE  was(k) \in 1..Len(watched) /\ watched'[k] = watched[was(k)]
    <3>1. k \in 1..Len(watched) - 1 /\ Len(watched) \in Nat
      BY <1>1, <2>1
    <3>2. was(k) \in 1..Len(watched)
      BY <1>1, <3>1
    <3> QED
      BY <2>1, <3>1, <3>2
  <2>3. ASSUME NEW j \in 1..Len(watched'), NEW k \in 1..Len(watched'), was(j) = was(k)
        PROVE  j = k
    BY <1>1, <2>1, <2>3
  <2>4. /\ \A j, k \in 1..Len(watched) : watched[j].fd = watched[k].fd => j = k
        /\ \A k \in 1..Len(watched) :
              watched[k].EOLBefore <=> AtLineStart(Read(watched[k].fd))
    BY DEF StamperInv, Watching
  <2> HIDE DEF was
  <2>5. \A j, k \in 1..Len(watched') : watched'[j].fd = watched'[k].fd => j = k
    <3> SUFFICES ASSUME NEW j \in 1..Len(watched'), NEW k \in 1..Len(watched'),
                        watched'[j].fd = watched'[k].fd
                 PROVE  j = k
      OBVIOUS
    <3>1. watched[was(j)].fd = watched[was(k)].fd
      BY <2>2
    <3>2. was(j) = was(k)
      BY <2>2, <2>4, <3>1
    <3> QED
      BY <2>3, <3>2
  <2>6. ASSUME NEW k \in 1..Len(watched')
        PROVE  (watched[k].EOLBefore <=> AtLineStart(Read(watched[k].fd)))'
    <3>1. watched'[k] = watched[was(k)] /\ was(k) \in 1..Len(watched)
      BY <2>2
    <3>2. AtLineStart(Read(watched[k].fd))' <=> AtLineStart(Read(watched[was(k)].fd))
      BY <1>2, <3>1, Zenon DEF Read, AtLineStart
    <3> QED
      BY <2>4, <3>1, <3>2, Zenon
  <2> QED
    BY <2>1, <2>5, <2>6, Zenon DEF Watching
<1>5. Counters'
  BY <1>2 DEF StamperInv, Counters
<1>6. Pipes'
  BY <1>2 DEF StamperInv, Pipes
<1>7. File'
  BY <1>2, <1>3 DEF StamperInv, File
<1>8. Ending'
  BY <1>2 DEF StamperInv, Ending
<1> QED
  BY <1>4, <1>5, <1>6, <1>7, <1>8 DEF StamperInv

\* The line of --add-eof belongs to no stream.
Sound(q) ==
    /\ q \in Seq(Element)
    /\ \A s \in Streams : Right(q, Read(s), s)
    /\ Timed(q, clock) /\ Fresh(q, clock)

LEMMA OfNoStream ==
    ASSUME clock \in Nat, NEW q, Sound(q),
           NEW e \in Element, e.fd = 0, e.at = clock
    PROVE  Sound(Append(q, e))
<1>1. q \in Seq(Element) /\ Timed(q, clock) /\ Fresh(q, clock)
  BY DEF Sound
<1>2. e.at <= clock
  OBVIOUS
<1>3. Timed(Append(q, e), clock) /\ Fresh(Append(q, e), clock)
  BY <1>1, <1>2, TimedAppend
<1>4. ASSUME NEW s \in Streams PROVE Right(Append(q, e), Read(s), s)
  <2>1. e.fd # s
    BY StamperAssumption
  <2> QED
    BY <1>1, <2>1, OtherStream DEF Sound
<1>5. Append(q, e) \in Seq(Element)
  BY <1>1
<1> QED
  BY <1>3, <1>4, <1>5 DEF Sound

LEMMA FinishKeeps ==
    ASSUME StamperInv, Finish
    PROVE  StamperInv'
<1> DEFINE nl == [fd |-> 0, kind |-> "eol", at |-> clock]
           st == Stamp(0)
           eof == [fd |-> 0, kind |-> "eof", at |-> clock]
           n == Len(output)
<1>1. /\ pc = "finish" /\ pc' = "done" /\ clock \in Nat
      /\ UNCHANGED <<clock, written, consumed, watched, i, incompleteLineSent>>
  BY DEF Finish, solverVars, StamperInv, Counters
<1>2. \A s : Read(s)' = Read(s)
  BY <1>1 DEF Read
<1>3. Counters'
  BY <1>1 DEF StamperInv, Counters
<1>4. Pipes'
  BY <1>1 DEF StamperInv, Pipes
<1>5. Watching'
  BY <1>1, <1>2 DEF StamperInv, Watching
<1>6. output \in Seq(Element) /\ Sound(output) /\ Settled(output) /\ NoEOF(output)
  <2>1. File
    BY DEF StamperInv
  <2>2. Fresh(output, clock)
    BY <2>1, SettledIsFresh DEF File
  <2>3. NoEOF(output)
    BY <1>1 DEF StamperInv, Ending
  <2> QED
    BY <2>1, <2>2, <2>3, Zenon DEF File, Sound
<1>7. CASE ~AddEOF
  <2>1. output' = output
    BY <1>7 DEF Finish
  <2>2. File'
    BY <1>1, <1>2, <2>1 DEF StamperInv, File
  <2>3. Ending'
    BY <1>1, <1>6, <2>1 DEF Ending, NoEOF
  <2> QED
    BY <1>3, <1>4, <1>5, <2>2, <2>3 DEF StamperInv
<1>8. CASE AddEOF
  <2>1. /\ nl \in Element /\ nl.fd = 0 /\ nl.at = clock /\ nl.kind = "eol"
        /\ st \in Element /\ st.fd = 0 /\ st.at = clock /\ st.kind = "stamp"
        /\ eof \in Element /\ eof.fd = 0 /\ eof.at = clock /\ eof.kind = "eof"
    BY <1>1 DEF Element, Stamp
  <2>2. output' = output \o ((IF incompleteLineSent THEN <<nl>> ELSE <<>>) \o <<st, eof>>)
    BY <1>8, Zenon DEF Finish, EOFLine
  <2> HIDE DEF nl, st, eof
  <2>3. PICK p \in Seq(Element) :
          /\ Sound(p) /\ NoEOF(p)
          /\ p # <<>> => p[Len(p)].kind = "eol"
          /\ output' = Append(Append(p, st), eof)
    <3>1. CASE incompleteLineSent
      <4> DEFINE p == Append(output, nl)
      <4>1. p \in Seq(Element) /\ Sound(p)
        BY <1>1, <1>6, <2>1, OfNoStream
      <4>2. /\ Len(p) = n + 1 /\ n \in Nat /\ p[n + 1] = nl
            /\ \A k \in 1..n : p[k] = output[k]
        BY <1>6, <2>1, AppendPieces
      <4>3. NoEOF(p) /\ p[Len(p)].kind = "eol"
        BY <1>6, <2>1, <4>2 DEF NoEOF
      <4>4. output' = output \o (<<nl>> \o <<st, eof>>)
        BY <2>2, <3>1, Zenon
      <4>5. output \o (<<nl>> \o <<st, eof>>) = Append(Append(p, st), eof)
        BY <1>6, <2>1
      <4> HIDE DEF p
      <4> QED
        BY <4>1, <4>3, <4>4, <4>5, Zenon
    <3>2. CASE ~incompleteLineSent
      <4>1. output # <<>> => output[Len(output)].kind = "eol"
        BY <1>1, <3>2, Zenon DEF StamperInv, Ending
      <4>2. output' = output \o (<<>> \o <<st, eof>>)
        BY <2>2, <3>2, Zenon
      <4>3. output \o (<<>> \o <<st, eof>>) = Append(Append(output, st), eof)
        BY <1>6, <2>1
      <4> QED
        BY <1>6, <4>1, <4>2, <4>3, Zenon
    <3> QED
      BY <3>1, <3>2, Zenon
  <2> DEFINE m == Len(p)
             r == Append(Append(p, st), eof)
  <2>4. Sound(Append(p, st)) /\ Sound(r)
    BY <1>1, <2>1, <2>3, OfNoStream
  <2>5. /\ m \in Nat /\ Len(r) = m + 2
        /\ r[m + 1] = st /\ r[m + 2] = eof
        /\ \A k \in 1..m : r[k] = p[k]
    BY <2>1, <2>3
  <2> HIDE DEF r
  <2>6. File'
    <3>1. r # <<>> /\ r[Len(r)].kind # "stamp"
      <4>1. Len(<<>>) = 0
        OBVIOUS
      <4> QED
        BY <2>1, <2>5, <4>1
    <3>2. output' = r
      BY <2>3 DEF r
    <3> QED
      BY <1>1, <1>2, <2>4, <3>1, <3>2 DEF Sound, File, Settled
  <2>7. ASSUME NEW j \in 1..Len(r), r[j].kind = "eof"
        PROVE  /\ j = Len(r)
               /\ j > 2 => r[j - 2].kind = "eol"
    <3>1. j \in 1..m \/ j = m + 1 \/ j = m + 2
      BY <2>5
    <3>2. j \notin 1..m
      BY <2>3, <2>5, <2>7 DEF NoEOF
    <3>3. j # m + 1
      BY <2>1, <2>5, <2>7
    <3>4. j = m + 2
      BY <3>1, <3>2, <3>3
    <3>5. ASSUME j > 2 PROVE r[j - 2].kind = "eol"
      <4>1. j - 2 = m /\ m \in 1..m
        BY <2>5, <3>4, <3>5
      <4>2. p # <<>>
        BY <4>1
      <4> QED
        BY <2>3, <2>5, <4>1, <4>2
    <3> QED
      BY <2>5, <3>4, <3>5
  <2>8. Ending'
    <3>1. output' = r
      BY <2>3 DEF r
    <3> QED
      BY <1>1, <2>7, <3>1, Zenon DEF Ending
  <2> QED
    BY <1>3, <1>4, <1>5, <2>6, <2>8 DEF StamperInv
<1> QED
  BY <1>7, <1>8, Zenon

LEMMA NextStamper == StamperInv /\ [Next]_vars => StamperInv'
<1> SUFFICES ASSUME StamperInv, [Next]_vars PROVE StamperInv'
  OBVIOUS
<1>0. /\ i \in Nat \ {0} /\ i + 1 \in Nat \ {0} /\ 1 \in Nat \ {0}
      /\ pc \in {"select", "scan", "finish", "done"}
  BY DEF StamperInv, Counters
<1>1. CASE \E s \in Streams, kind \in {"char", "eol"} : SolverWrites(s, kind)
  BY <1>1, SolverWritesKeeps
<1>2. CASE \E s \in Streams : SolverCloses(s)
  BY <1>0, <1>2, Quiet DEF SolverCloses
<1>3. CASE Tick
  BY <1>3, TickKeeps
<1>4. CASE Select
  BY <1>0, <1>4, Quiet DEF Select, solverVars
<1>5. CASE SelectFails
  BY <1>0, <1>5, Quiet DEF SelectFails, solverVars
<1>6. CASE NotReady
  BY <1>0, <1>6, Quiet DEF NotReady, Scanning, solverVars
<1>7. CASE ReadFrom
  BY <1>7, ReadFromKeeps
<1>8. CASE EndOfFile
  BY <1>8, EndOfFileKeeps
<1>9. CASE EndScan
  BY <1>0, <1>9, Quiet DEF EndScan, solverVars
<1>10. CASE Finish
  BY <1>10, FinishKeeps
<1>11. CASE UNCHANGED vars
  BY <1>0, <1>11, Quiet DEF vars, solverVars
<1>12. CASE Done
  BY <1>11, <1>12 DEF Done
<1> QED
  BY <1>1, <1>2, <1>3, <1>4, <1>5, <1>6, <1>7, <1>8, <1>9, <1>10, <1>11, <1>12
     DEF Next, Solver, TimeStampLines

LEMMA StamperInvariant == Spec => []StamperInv
<1> QED
  BY InitStamper, NextStamper, PTL DEF Spec

\* StampsAreRight: however the solver's bytes are cut into chunks and its
\* streams mixed, readFrom() puts one stamp before each line.
THEOREM StampsRight == Spec => []StampsAreRight
<1>1. StamperInv => StampsAreRight
  <2> SUFFICES ASSUME StamperInv PROVE StampsAreRight
    OBVIOUS
  <2>1. /\ output \in Seq(Element) /\ Timed(output, clock) /\ Settled(output)
        /\ \A s \in Streams : Right(output, Read(s), s)
    BY DEF StamperInv, File
  <2>2. ASSUME NEW j \in 1..Len(output), output[j].kind = "stamp"
        PROVE  /\ output[j].fd # 0 => output[j + 1].at <= output[j].at
               /\ \A k \in 1..j :
                    output[k].kind = "stamp" => output[k].at <= output[j].at
    <3>1. Len(output) \in Nat /\ j # Len(output)
      BY <2>1, <2>2 DEF Settled
    <3>2. j \in 1..Len(output) - 1
      BY <3>1
    <3>3. \A k \in 1..j : k \in 1..Len(output) /\ k <= j
      BY <3>1
    <3> QED
      BY <2>1, <2>2, <3>2, <3>3 DEF Timed
  <2>3. DOMAIN output = 1..Len(output)
    BY <2>1
  <2> QED
    BY <2>1, <2>2, <2>3, Zenon DEF StampsAreRight, Right
<1> QED
  BY <1>1, StamperInvariant, PTL

\* EOFOnOwnLine: the line of --add-eof is the last of the file, and the line
\* before it is complete.
THEOREM EOFAlone == Spec => []EOFOnOwnLine
<1>1. StamperInv => EOFOnOwnLine
  <2> SUFFICES ASSUME StamperInv, NEW j \in DOMAIN output, output[j].kind = "eof"
               PROVE  /\ j = Len(output) /\ pc = "done"
                      /\ j > 2 => output[j - 2].kind = "eol"
    BY Zenon DEF EOFOnOwnLine
  <2>1. j \in 1..Len(output)
    BY DEF StamperInv, File
  <2> QED
    BY <2>1 DEF StamperInv, Ending, NoEOF
<1> QED
  BY <1>1, StamperInvariant, PTL
=============================================================================
