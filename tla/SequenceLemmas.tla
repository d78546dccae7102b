---------------------------- MODULE SequenceLemmas ----------------------------
(***************************************************************************)
(* Facts about sequences that several proofs need: what FlattenSeq(),      *)
(* which is a function defined by recursion on the length, gives when one  *)
(* more piece comes; how a sequence grows by one element; and induction    *)
(* up to a number, over a set, because an operator cannot be a parameter   *)
(* of a lemma here.                                                        *)
(***************************************************************************)
EXTENDS Integers, Sequences, SequencesExt, WellFoundedInduction, TLAPS

\* Induction up to a number.
LEMMA Induction ==
    ASSUME NEW last \in Nat, NEW S, 0 \in S,
           \A n \in 1..last : n - 1 \in S => n \in S
    PROVE  0..last \subseteq S
<1> DEFINE Bad == {n \in 0..last : n \notin S}
<1>1. SUFFICES ASSUME Bad # {} PROVE FALSE
  OBVIOUS
<1>2. Bad \subseteq Nat
  OBVIOUS
<1>3. PICK n \in Bad : \A m \in Bad : ~(<<m, n>> \in OpToRel(<, Nat))
  BY <1>1, <1>2, NatLessThanWellFounded, WFMin
<1>4. \A m \in Bad : ~(m < n)
  BY <1>2, <1>3 DEF OpToRel
<1>5. n \in 1..last /\ n - 1 \in 0..last
  OBVIOUS
<1>6. n - 1 \in S
  BY <1>4, <1>5
<1> QED
  BY <1>5, <1>6

\* f[n] is the first n sequences of ss, one after the other.
Flattens(f, ss, m) ==
    f = [n \in 1..m |-> IF n = 1 THEN ss[n] ELSE f[n - 1] \o ss[n]]

LEMMA FlattenGrows ==
    ASSUME NEW ss, NEW m \in Nat, NEW f, Flattens(f, ss, m)
    PROVE  \E g : Flattens(g, ss, m + 1)
<1> DEFINE body(h, n) == IF n = 1 THEN ss[n] ELSE h[n - 1] \o ss[n]
           g == [n \in 1..m + 1 |-> body(f, n)]
<1>1. f = [n \in 1..m |-> body(f, n)]
  BY DEF Flattens
<1>2. ASSUME NEW n \in 1..m PROVE f[n] = body(f, n)
  <2> HIDE DEF body
  <2> QED
    BY <1>1
<1>3. ASSUME NEW n \in 1..m + 1 PROVE g[n] = body(f, n)
  OBVIOUS
<1>4. ASSUME NEW n \in 1..m + 1 PROVE g[n] = body(g, n)
  <2>1. CASE n = 1
    BY <1>3, <2>1
  <2>2. CASE n # 1
    <3>1. n - 1 \in 1..m /\ n - 1 \in 1..m + 1
      BY <2>2
    <3> HIDE DEF g
    <3>2. g[n - 1] = f[n - 1]
      BY <1>2, <1>3, <3>1
    <3> QED
      BY <1>3, <2>2, <3>2
  <2> QED
    BY <2>1, <2>2
<1>5. g = [n \in 1..m + 1 |-> body(g, n)]
  <2>1. g = [n \in 1..m + 1 |-> g[n]]
    OBVIOUS
  <2> HIDE DEF g, body
  <2> QED
    BY <1>4, <2>1
<1>6. Flattens(g, ss, m + 1)
  BY <1>5 DEF Flattens
<1> QED
  BY <1>6

LEMMA FlattenExists ==
    ASSUME NEW ss, NEW m \in Nat
    PROVE  \E f : Flattens(f, ss, m)
<1> DEFINE S == {n \in 0..m : \E f : Flattens(f, ss, n)}
<1>1. 0 \in S
  <2>1. Flattens([n \in 1..0 |-> <<>>], ss, 0)
    BY DEF Flattens
  <2> QED
    BY <2>1
<1>2. ASSUME NEW n \in 1..m, n - 1 \in S PROVE n \in S
  <2>1. PICK f : Flattens(f, ss, n - 1)
    BY <1>2
  <2>2. n - 1 \in Nat /\ (n - 1) + 1 = n
    OBVIOUS
  <2> QED
    BY <2>1, <2>2, FlattenGrows
<1> HIDE DEF S
<1>3. m \in S
  BY <1>1, <1>2, Induction
<1> QED
  BY <1>3 DEF S

LEMMA FlattenIs ==
    ASSUME NEW T, NEW ss \in Seq(T), ss # <<>>
    PROVE  \E f : Flattens(f, ss, Len(ss)) /\ FlattenSeq(ss) = f[Len(ss)]
<1> DEFINE body(h, n) == IF n = 1 THEN ss[n] ELSE h[n - 1] \o ss[n]
           flatten == CHOOSE f : f = [n \in 1..Len(ss) |-> body(f, n)]
<1>1. Len(ss) \in Nat /\ Len(ss) # 0
  OBVIOUS
<1>2. \E f : f = [n \in 1..Len(ss) |-> body(f, n)]
  BY <1>1, FlattenExists DEF Flattens
<1>3. flatten = [n \in 1..Len(ss) |-> body(flatten, n)]
  <2> HIDE DEF body
  <2> QED
    BY <1>2, Zenon
<1>4. Flattens(flatten, ss, Len(ss))
  <2> HIDE DEF flatten
  <2> QED
    BY <1>3 DEF Flattens
<1>5. FlattenSeq(ss) = flatten[Len(ss)]
  BY <1>1, Zenon DEF FlattenSeq
<1> QED
  BY <1>4, <1>5

LEMMA FlattenValues ==
    ASSUME NEW ss, NEW m \in Nat, NEW f, Flattens(f, ss, m), 1 \in 1..m
    PROVE  /\ f[1] = ss[1]
           /\ \A n \in 2..m : f[n] = f[n - 1] \o ss[n]
<1> DEFINE body(n) == IF n = 1 THEN ss[n] ELSE f[n - 1] \o ss[n]
<1>1. f = [n \in 1..m |-> body(n)]
  BY DEF Flattens
<1>2. ASSUME NEW n \in 1..m PROVE f[n] = body(n)
  <2> HIDE DEF body
  <2> QED
    BY <1>1
<1>3. f[1] = ss[1]
  <2>1. body(1) = ss[1]
    BY Zenon
  <2> HIDE DEF body
  <2> QED
    BY <1>2, <2>1
<1>4. ASSUME NEW n \in 2..m PROVE f[n] = f[n - 1] \o ss[n]
  <2>1. n \in 1..m /\ n # 1
    OBVIOUS
  <2> QED
    BY <1>2, <2>1
<1> QED
  BY <1>3, <1>4

LEMMA FlattenType ==
    ASSUME NEW T, NEW ss \in Seq(Seq(T)),
           NEW f, Flattens(f, ss, Len(ss)), NEW n \in 1..Len(ss)
    PROVE  f[n] \in Seq(T)
<1> DEFINE S == {k \in 0..n : k > 0 => f[k] \in Seq(T)}
<1>1. \A k \in 1..Len(ss) : ss[k] \in Seq(T)
  OBVIOUS
<1>2. /\ f[1] = ss[1]
      /\ \A k \in 2..Len(ss) : f[k] = f[k - 1] \o ss[k]
  <2>1. Len(ss) \in Nat /\ 1 \in 1..Len(ss)
    OBVIOUS
  <2> QED
    BY <2>1, FlattenValues, Zenon
<1>3. 0 \in S
  OBVIOUS
<1>4. ASSUME NEW k \in 1..n, k - 1 \in S PROVE k \in S
  <2>1. CASE k = 1
    BY <1>1, <1>2, <2>1
  <2>2. CASE k # 1
    <3>1. k \in 2..Len(ss) /\ f[k - 1] \in Seq(T) /\ ss[k] \in Seq(T)
      BY <1>1, <1>4, <2>2
    <3>2. f[k] = f[k - 1] \o ss[k]
      BY <1>2, <3>1
    <3>3. f[k] \in Seq(T)
      BY <3>1, <3>2
    <3> QED
      BY <3>3
  <2> QED
    BY <2>1, <2>2
<1>5. n \in Nat
  OBVIOUS
<1> HIDE DEF S
<1>6. n \in S
  <2>1. 0..n \subseteq S
    BY <1>3, <1>4, <1>5, Induction
  <2> QED
    BY <1>5, <2>1
<1> QED
  BY <1>6 DEF S

LEMMA FlattenAppend ==
    ASSUME NEW T, NEW ss \in Seq(Seq(T)), NEW x \in Seq(T)
    PROVE  /\ FlattenSeq(ss) \in Seq(T)
           /\ FlattenSeq(Append(ss, x)) = FlattenSeq(ss) \o x
<1> DEFINE m == Len(ss)
           tt == Append(ss, x)
<1>1. /\ tt \in Seq(Seq(T)) /\ tt # <<>> /\ Len(tt) = m + 1 /\ m \in Nat
      /\ tt[m + 1] = x /\ \A k \in 1..m : tt[k] = ss[k]
  <2>1. tt \in Seq(Seq(T)) /\ Len(tt) = m + 1 /\ m \in Nat
    OBVIOUS
  <2>2. tt[m + 1] = x
    OBVIOUS
  <2>3. \A k \in 1..m : tt[k] = ss[k]
    OBVIOUS
  <2>4. tt # <<>>
    <3> HIDE DEF tt
    <3> QED
      BY <2>1
  <2> QED
    BY <2>1, <2>2, <2>3, <2>4
<1> HIDE DEF tt
<1>2. PICK g : Flattens(g, tt, m + 1) /\ FlattenSeq(tt) = g[m + 1]
  BY <1>1, FlattenIs
<1>3. /\ g[1] = tt[1]
      /\ \A k \in 2..m + 1 : g[k] = g[k - 1] \o tt[k]
  <2>1. m + 1 \in Nat /\ 1 \in 1..m + 1
    BY <1>1
  <2> QED
    BY <1>2, <2>1, FlattenValues, Zenon
<1>4. CASE ss = <<>>
  <2>1. m = 0 /\ FlattenSeq(ss) = <<>>
    BY <1>4 DEF FlattenSeq
  <2>2. FlattenSeq(tt) = x
    BY <1>1, <1>2, <1>3, <2>1
  <2>3. <<>> \o x = x /\ <<>> \in Seq(T)
    OBVIOUS
  <2> QED
    BY <2>1, <2>2, <2>3 DEF tt
<1>5. CASE ss # <<>>
  <2>1. PICK f : Flattens(f, ss, m) /\ FlattenSeq(ss) = f[m]
    BY <1>5, FlattenIs
  <2>2. m > 0
    BY <1>1, <1>5
  <2>3. /\ f[1] = ss[1]
        /\ \A k \in 2..m : f[k] = f[k - 1] \o ss[k]
    <3>1. 1 \in 1..m
      BY <1>1, <2>2
    <3> QED
      BY <1>1, <2>1, <3>1, FlattenValues, Zenon
  <2>4. f[m] \in Seq(T)
    BY <2>1, <2>2, FlattenType
  <2> DEFINE S == {k \in 0..m : k > 0 => f[k] = g[k]}
  <2>5. 0 \in S
    BY <1>1
  <2>6. ASSUME NEW k \in 1..m, k - 1 \in S PROVE k \in S
    <3>1. CASE k = 1
      BY <1>1, <1>3, <2>3, <3>1
    <3>2. CASE k # 1
      <4>1. k \in 2..m /\ k \in 2..m + 1 /\ f[k - 1] = g[k - 1] /\ tt[k] = ss[k]
        BY <1>1, <2>6, <3>2
      <4>2. f[k] = f[k - 1] \o ss[k] /\ g[k] = g[k - 1] \o tt[k]
        BY <1>3, <2>3, <4>1
      <4>3. f[k] = g[k]
        BY <4>1, <4>2
      <4> QED
        BY <4>3
    <3> QED
      BY <3>1, <3>2
  <2> HIDE DEF S
  <2>7. m \in S
    <3>1. 0..m \subseteq S
      BY <1>1, <2>5, <2>6, Induction
    <3> QED
      BY <1>1, <3>1
  <2>8. f[m] = g[m]
    BY <2>2, <2>7 DEF S
  <2>9. m + 1 \in 2..m + 1 /\ (m + 1) - 1 = m
    BY <1>1, <2>2
  <2>10. g[m + 1] = g[m] \o x
    BY <1>1, <1>3, <2>9
  <2> QED
    BY <1>2, <2>1, <2>4, <2>8, <2>10 DEF tt
<1> QED
  BY <1>4, <1>5
-----------------------------------------------------------------------------
LEMMA AppendPieces ==
    ASSUME NEW T, NEW q \in Seq(T), NEW e \in T
    PROVE  /\ Append(q, e) \in Seq(T)
           /\ Len(Append(q, e)) = Len(q) + 1 /\ Len(q) \in Nat
           /\ DOMAIN Append(q, e) = 1..Len(q) + 1 /\ DOMAIN q = 1..Len(q)
           /\ \A k \in 1..Len(q) : Append(q, e)[k] = q[k]
           /\ Append(q, e)[Len(q) + 1] = e
OBVIOUS

LEMMA MappedAppend ==
    ASSUME NEW U, NEW n \in Nat, NEW pp \in Seq(U), Len(pp) = n, NEW x \in U,
           NEW qq, DOMAIN qq = 1..n + 1, qq = [k \in DOMAIN qq |-> qq[k]],
           \A k \in 1..n : qq[k] = pp[k], qq[n + 1] = x
    PROVE  qq = Append(pp, x)
<1>1. /\ DOMAIN Append(pp, x) = 1..n + 1
      /\ \A k \in 1..n : Append(pp, x)[k] = pp[k]
      /\ Append(pp, x)[n + 1] = x
  BY AppendPieces
<1>2. \A k \in 1..n + 1 : qq[k] = Append(pp, x)[k]
  BY <1>1
<1>3. Append(pp, x) = [k \in 1..n + 1 |-> Append(pp, x)[k]]
  <2> DEFINE a == Append(pp, x)
  <2>1. a \in Seq(U) /\ Len(a) = n + 1
    BY AppendPieces
  <2> HIDE DEF a
  <2>2. a \in [1..n + 1 -> U]
    BY <2>1
  <2>3. a = [k \in 1..n + 1 |-> a[k]]
    BY <2>2
  <2> QED
    BY <2>3 DEF a
<1> QED
  BY <1>2, <1>3

LEMMA PrefixAppend ==
    ASSUME NEW T, NEW q \in Seq(T), NEW k \in 1..Len(q)
    PROVE  SubSeq(q, 1, k) = Append(SubSeq(q, 1, k - 1), q[k])
<1> DEFINE pp == SubSeq(q, 1, k - 1)
           qq == SubSeq(q, 1, k)
           n == k - 1
<1>1. /\ n \in Nat /\ pp \in Seq(T) /\ Len(pp) = n /\ q[k] \in T /\ n + 1 = k
      /\ \A j \in 1..n : pp[j] = q[j]
  OBVIOUS
<1>2. /\ qq \in Seq(T) /\ Len(qq) = k
      /\ \A j \in 1..k : qq[j] = q[j]
  OBVIOUS
<1> HIDE DEF pp, qq, n
<1>3. DOMAIN qq = 1..n + 1 /\ qq = [j \in DOMAIN qq |-> qq[j]]
  <2>1. qq \in [1..k -> T]
    BY <1>2
  <2> QED
    BY <1>1, <2>1
<1>4. \A j \in 1..n : qq[j] = pp[j]
  BY <1>1, <1>2
<1>5. qq[n + 1] = q[k]
  BY <1>1, <1>2
<1> QED
  BY <1>1, <1>3, <1>4, <1>5, MappedAppend DEF pp, qq

LEMMA WholePrefix ==
    ASSUME NEW T, NEW q \in Seq(T)
    PROVE  /\ SubSeq(q, 1, Len(q)) = q
           /\ \A k \in 0..Len(q) : SubSeq(q, 1, k) \in Seq(T)
           /\ SubSeq(q, 1, 0) = <<>>
OBVIOUS

LEMMA ShortSequences ==
    ASSUME NEW T, NEW a \in T, NEW b \in T
    PROVE  <<a>> \in Seq(T) /\ <<a, b>> \in Seq(T) /\ Append(<<>>, a) = <<a>>
OBVIOUS

LEMMA SeqWidens ==
    ASSUME NEW A, NEW B, A \subseteq B, NEW q \in Seq(A)
    PROVE  q \in Seq(B)
OBVIOUS

\* Concatenation: the provers find the instances of some lemmas only when they
\* do not see into it.
Joined(a, b) == a \o b

LEMMA FlattenOne ==
    ASSUME NEW T, NEW a \in Seq(T)
    PROVE  FlattenSeq(<<a>>) = a
<1>1. FlattenSeq(<<>>) = <<>>
  BY DEF FlattenSeq
<1>2. <<>> \in Seq(Seq(T)) /\ Append(<<>>, a) = <<a>>
  OBVIOUS
<1>3. FlattenSeq(<<a>>) = FlattenSeq(<<>>) \o a
  BY <1>2, FlattenAppend
<1>4. <<>> \o a = a
  OBVIOUS
<1> QED
  BY <1>1, <1>3, <1>4

LEMMA FlattenThree ==
    ASSUME NEW T, NEW a \in Seq(T), NEW b \in Seq(T), NEW c \in Seq(T)
    PROVE  FlattenSeq(<<a, b, c>>) = Joined(Joined(a, b), c)
<1>1. /\ <<>> \in Seq(Seq(T)) /\ <<a>> \in Seq(Seq(T)) /\ <<a, b>> \in Seq(Seq(T))
      /\ Append(<<>>, a) = <<a>> /\ Append(<<a>>, b) = <<a, b>>
      /\ Append(<<a, b>>, c) = <<a, b, c>>
  <2> DEFINE U == Seq(T)
  <2>1. a \in U /\ b \in U /\ c \in U
    OBVIOUS
  <2> HIDE DEF U
  <2>2. <<>> \in Seq(U) /\ <<a>> \in Seq(U) /\ <<a, b>> \in Seq(U)
    BY <2>1
  <2>3. Append(<<>>, a) = <<a>> /\ Append(<<a>>, b) = <<a, b>>
    <3>1. Append(<<>>, a) = <<a>>
      BY <2>1, ShortSequences
    <3> DEFINE s == Append(<<a>>, b)
               t == <<a, b>>
    <3>2. s \in Seq(U) /\ Len(s) = 2 /\ s[1] = a /\ s[2] = b
      BY <2>1, <2>2
    <3>3. t \in Seq(U) /\ Len(t) = 2 /\ t[1] = a /\ t[2] = b
      BY <2>1, <2>2
    <3> HIDE DEF s, t
    <3>4. s = t
      BY <3>2, <3>3
    <3> QED
      BY <3>1, <3>4 DEF s, t
  <2>4. Append(<<a, b>>, c) = <<a, b, c>>
    <3> DEFINE s == Append(<<a, b>>, c)
               t == <<a, b, c>>
    <3>1. s \in Seq(U) /\ Len(s) = 3 /\ s[1] = a /\ s[2] = b /\ s[3] = c
      BY <2>1, <2>2
    <3>2. t \in Seq(U) /\ Len(t) = 3 /\ t[1] = a /\ t[2] = b /\ t[3] = c
      BY <2>1, <2>2
    <3> HIDE DEF s, t
    <3>3. s = t
      BY <3>1, <3>2
    <3> QED
      BY <3>3 DEF s, t
  <2> QED
    BY <2>2, <2>3, <2>4 DEF U
<1>2. FlattenSeq(<<a>>) = a
  BY FlattenOne
<1>3. FlattenSeq(<<a, b>>) = FlattenSeq(<<a>>) \o b
  BY <1>1, FlattenAppend
<1>4. FlattenSeq(<<a, b, c>>) = FlattenSeq(<<a, b>>) \o c
  BY <1>1, FlattenAppend
<1> QED
  BY <1>2, <1>3, <1>4, Zenon DEF Joined
=============================================================================
