---------------------------- MODULE SequenceFacts ----------------------------
(***************************************************************************)
(* Facts about minima, prefixes and flattened sequences on which the proofs *)
(* about the two ports rest.  FlattenSeq is defined recursively: what it    *)
(* does follows by induction over sets of natural numbers.                  *)
(***************************************************************************)
EXTENDS Naturals, SequencesExt, SequenceTheorems, WellFoundedInduction, TLAPS

\* Induction, for a set instead of a predicate.
LEMMA SetInduction ==
  ASSUME NEW T, T \subseteq Nat, 0 \in T, \A n \in T : n + 1 \in T
  PROVE  T = Nat
<1>1. SUFFICES ASSUME Nat \ T # {} PROVE FALSE
  OBVIOUS
<1>2. PICK m \in Nat \ T : \A y \in Nat \ T : ~(<<y, m>> \in OpToRel(<, Nat))
  BY <1>1, WFMin, NatLessThanWellFounded
<1>3. m # 0 /\ m - 1 \in Nat
  OBVIOUS
<1>4. m - 1 \notin T
  BY <1>3
<1>5. <<m - 1, m>> \in OpToRel(<, Nat)
  BY <1>3 DEF OpToRel
<1> QED BY <1>2, <1>3, <1>4, <1>5

\* The minimum of a set of natural numbers is one of them.
LEMMA MinOfNats ==
  ASSUME NEW S, S \subseteq Nat, S # {}
  PROVE  Min(S) \in S /\ \A y \in S : Min(S) <= y
<1> DEFINE T == {n \in Nat : \A m \in S : n <= m}
<1>1. 0 \in T
  OBVIOUS
<1>2. PICK s \in S : TRUE
  OBVIOUS
<1>3. s + 1 \notin T /\ s + 1 \in Nat
  BY <1>2
<1>4. T # Nat
  BY <1>3
<1>5. PICK n \in T : n + 1 \notin T
  <2> HIDE DEF T
  <2>1. T \subseteq Nat
    BY DEF T
  <2> QED BY <1>1, <1>4, <2>1, SetInduction
<1>6. n \in S /\ \A m \in S : n <= m
  BY <1>5
<1> QED BY <1>6 DEF Min

\* An element that is not above any other is the minimum.
LEMMA LeastIsMin ==
  ASSUME NEW S, S \subseteq Nat, NEW m \in S, \A y \in S : m <= y
  PROVE  Min(S) = m
<1>1. Min(S) \in S /\ Min(S) <= m
  BY MinOfNats
<1>2. m <= Min(S) /\ m \in Nat /\ Min(S) \in Nat
  BY <1>1
<1> QED BY <1>1, <1>2

\* The minimum of two numbers.
LEMMA MinOfTwo ==
  ASSUME NEW a \in Nat, NEW b \in Nat
  PROVE  Min({a, b}) \in Nat /\ Min({a, b}) = IF a <= b THEN a ELSE b
BY MinOfNats

\* The first n elements and the others.
LEMMA SplitAt ==
  ASSUME NEW S, NEW s \in Seq(S), NEW n \in 0..Len(s)
  PROVE  /\ SubSeq(s, 1, n) \in Seq(S) /\ Len(SubSeq(s, 1, n)) = n
         /\ SubSeq(s, n + 1, Len(s)) \in Seq(S) /\ Len(SubSeq(s, n + 1, Len(s))) = Len(s) - n
         /\ SubSeq(s, 1, n) \o SubSeq(s, n + 1, Len(s)) = s
<1>1. 1 \in 1..(Len(s) + 1) /\ n \in (1 - 1)..Len(s) /\ Len(s) \in n..Len(s)
  OBVIOUS
<1>2. SubSeq(s, 1, n) \o SubSeq(s, n + 1, Len(s)) = SubSeq(s, 1, Len(s))
  BY <1>1, ConcatAdjacentSubSeq
<1>3. SubSeq(s, 1, Len(s)) = s
  BY SubSeqFull
<1>4. /\ SubSeq(s, 1, n) \in Seq(S) /\ Len(SubSeq(s, 1, n)) = n
      /\ SubSeq(s, n + 1, Len(s)) \in Seq(S) /\ Len(SubSeq(s, n + 1, Len(s))) = Len(s) - n
  OBVIOUS
<1> QED BY <1>2, <1>3, <1>4

-----------------------------------------------------------------------------
(* FlattenSeq *)

\* f[i] is the first i sequences of s put together, for i up to n.
IsFlattening(S, s, n, f) ==
  /\ f \in [1..n -> Seq(S)]
  /\ \A i \in 1..n : f[i] = IF i = 1 THEN s[i] ELSE f[i - 1] \o s[i]

\* A flattening can be continued.
LEMMA ContinueFlattening ==
  ASSUME NEW S, NEW s \in Seq(Seq(S)), NEW n \in Nat, n + 1 <= Len(s),
         NEW g, IsFlattening(S, s, n, g)
  PROVE  \E f : IsFlattening(S, s, n + 1, f)
<1> DEFINE last == IF n = 0 THEN s[n + 1] ELSE g[n] \o s[n + 1]
           f == [i \in 1..(n + 1) |-> IF i = n + 1 THEN last ELSE g[i]]
<1>1. last \in Seq(S)
  <2>1. s[n + 1] \in Seq(S)
    OBVIOUS
  <2>2. n # 0 => g[n] \in Seq(S)
    BY DEF IsFlattening
  <2> QED BY <2>1, <2>2
<1>2. \A i \in 1..(n + 1) : i # n + 1 => i \in 1..n
  OBVIOUS
<1>3. \A i \in 1..n : g[i] \in Seq(S)
  BY DEF IsFlattening
<1>4. f \in [1..(n + 1) -> Seq(S)]
  <2> HIDE DEF last
  <2> QED BY <1>1, <1>2, <1>3
<1>5. ASSUME NEW i \in 1..(n + 1)
      PROVE  f[i] = IF i = 1 THEN s[i] ELSE f[i - 1] \o s[i]
  <2>1. CASE i = n + 1
    <3>1. CASE i = 1
      <4>1. f[i] = last /\ n = 0
        BY <2>1, <3>1
      <4> QED BY <3>1, <4>1
    <3>2. CASE i # 1
      <4>1. i - 1 \in 1..(n + 1) /\ i - 1 # n + 1 /\ i - 1 = n /\ n # 0
        BY <2>1, <3>2
      <4>2. f[i - 1] = g[n]
        BY <4>1
      <4>3. f[i] = last
        BY <2>1
      <4> HIDE DEF f
      <4> QED BY <2>1, <3>2, <4>1, <4>2, <4>3
    <3> QED BY <3>1, <3>2
  <2>2. CASE i # n + 1
    <3>1. i \in 1..n /\ f[i] = g[i]
      BY <2>2
    <3>2. i # 1 => f[i - 1] = g[i - 1]
      BY <3>1
    <3>3. g[i] = IF i = 1 THEN s[i] ELSE g[i - 1] \o s[i]
      BY <3>1 DEF IsFlattening
    <3> HIDE DEF f
    <3> QED BY <3>1, <3>2, <3>3
  <2> QED BY <2>1, <2>2
<1> HIDE DEF f
<1>6. IsFlattening(S, s, n + 1, f)
  BY <1>4, <1>5 DEF IsFlattening
<1> QED BY <1>6

\* Every sequence of sequences has a flattening, of which FlattenSeq is the last value.
LEMMA FlattenExists ==
  ASSUME NEW S, NEW s \in Seq(Seq(S)), s # <<>>
  PROVE  \E f : IsFlattening(S, s, Len(s), f) /\ FlattenSeq(s) = f[Len(s)]
<1> DEFINE T == {n \in Nat : n <= Len(s) => \E f : IsFlattening(S, s, n, f)}
<1>1. 0 \in T
  <2>1. IsFlattening(S, s, 0, <<>>)
    BY DEF IsFlattening
  <2> QED BY <2>1
<1>2. ASSUME NEW n \in T
      PROVE  n + 1 \in T
  BY ContinueFlattening
<1>3. T = Nat
  <2> HIDE DEF T
  <2>1. T \subseteq Nat
    BY DEF T
  <2> QED BY <1>1, <1>2, <2>1, SetInduction
<1>4. Len(s) \in Nat /\ Len(s) # 0
  OBVIOUS
<1>5. PICK f : IsFlattening(S, s, Len(s), f)
  BY <1>3, <1>4, SMTT(30)
<1> DEFINE g == CHOOSE h : h = [i \in 1..Len(s) |-> IF i = 1 THEN s[i] ELSE h[i - 1] \o s[i]]
<1>6. f = [i \in 1..Len(s) |-> IF i = 1 THEN s[i] ELSE f[i - 1] \o s[i]]
  BY <1>5 DEF IsFlattening
<1>7. g = [i \in 1..Len(s) |-> IF i = 1 THEN s[i] ELSE g[i - 1] \o s[i]]
  BY <1>6
<1>8. FlattenSeq(s) = g[Len(s)]
  BY <1>4 DEF FlattenSeq
<1> HIDE DEF g
<1>9. \A i \in 1..Len(s) : g[i] = IF i = 1 THEN s[i] ELSE g[i - 1] \o s[i]
  BY <1>7
<1>10. \A i \in 1..Len(s) : g[i] \in Seq(S)
  <2> DEFINE U == {n \in Nat : n + 1 <= Len(s) => g[n + 1] \in Seq(S)}
  <2>1. 0 \in U
    BY <1>9
  <2>2. ASSUME NEW n \in U
        PROVE  n + 1 \in U
    <3>1. CASE (n + 1) + 1 <= Len(s)
      <4>1. /\ (n + 1) + 1 \in 1..Len(s)
            /\ ((n + 1) + 1) - 1 = n + 1
            /\ (n + 1) + 1 # 1
        BY <3>1
      <4>2. g[(n + 1) + 1] = g[n + 1] \o s[(n + 1) + 1]
        BY <1>9, <4>1
      <4>3. g[n + 1] \in Seq(S) /\ s[(n + 1) + 1] \in Seq(S)
        BY <3>1, <4>1
      <4>4. g[(n + 1) + 1] \in Seq(S)
        BY <4>2, <4>3
      <4> QED BY <4>4
    <3> QED BY <3>1
  <2>3. U = Nat
    <3> HIDE DEF U
    <3>1. U \subseteq Nat
      BY DEF U
    <3> QED BY <2>1, <2>2, <3>1, SetInduction
  <2> TAKE i \in 1..Len(s)
  <2>4. i - 1 \in Nat /\ (i - 1) + 1 = i /\ i <= Len(s)
    OBVIOUS
  <2>5. i - 1 \in U
    <3> HIDE DEF U
    <3> QED BY <2>3, <2>4
  <2> QED BY <2>4, <2>5
<1>11. IsFlattening(S, s, Len(s), g)
  BY <1>7, <1>9, <1>10 DEF IsFlattening
<1> QED BY <1>8, <1>11

\* The flattened sequence has elements of the sequences.
LEMMA FlattenType ==
  ASSUME NEW S, NEW s \in Seq(Seq(S))
  PROVE  FlattenSeq(s) \in Seq(S)
<1>1. CASE s = <<>>
  BY <1>1 DEF FlattenSeq
<1>2. CASE s # <<>>
  <2>1. PICK f : IsFlattening(S, s, Len(s), f) /\ FlattenSeq(s) = f[Len(s)]
    BY <1>2, FlattenExists
  <2>2. Len(s) \in 1..Len(s)
    BY <1>2
  <2> QED BY <2>1, <2>2 DEF IsFlattening
<1> QED BY <1>1, <1>2

\* Nothing flattened is nothing.
LEMMA FlattenEmpty == FlattenSeq(<<>>) = <<>>
BY DEF FlattenSeq

\* A sequence more at the end.
LEMMA FlattenAppend ==
  ASSUME NEW S, NEW s \in Seq(Seq(S)), NEW x \in Seq(S)
  PROVE  FlattenSeq(Append(s, x)) = FlattenSeq(s) \o x
<1> DEFINE t == Append(s, x)
           n == Len(s)
<1>1. /\ t \in Seq(Seq(S)) /\ t # <<>> /\ Len(t) = n + 1 /\ n \in Nat
      /\ \A i \in 1..n : t[i] = s[i]
      /\ t[n + 1] = x
  <2> DEFINE R == Seq(S)
  <2>1. s \in Seq(R) /\ x \in R
    OBVIOUS
  <2> HIDE DEF R
  <2>2. Append(s, x) \in Seq(R)
    BY <2>1
  <2>3. Append(s, x) # <<>> /\ Len(Append(s, x)) = Len(s) + 1 /\ Len(s) \in Nat
    BY <2>1
  <2>4. \A i \in 1..Len(s) : Append(s, x)[i] = s[i]
    BY <2>1
  <2>5. Append(s, x)[Len(s) + 1] = x
    BY <2>1
  <2> QED BY <2>2, <2>3, <2>4, <2>5 DEF R
<1> HIDE DEF t
<1>2. PICK g : IsFlattening(S, t, n + 1, g) /\ FlattenSeq(t) = g[n + 1]
  BY <1>1, FlattenExists
<1>3. CASE s = <<>>
  <2>1. n = 0 /\ FlattenSeq(s) = <<>>
    BY <1>3, FlattenEmpty
  <2>2. g[1] = x
    BY <1>1, <1>2, <2>1 DEF IsFlattening
  <2> QED BY <1>2, <2>1, <2>2 DEF t
<1>4. CASE s # <<>>
  <2>1. PICK f : IsFlattening(S, s, n, f) /\ FlattenSeq(s) = f[n]
    BY <1>4, FlattenExists
  <2>2. n \in 1..n /\ n + 1 \in 1..(n + 1) /\ (n + 1) - 1 = n /\ n + 1 # 1
    BY <1>4
  <2>3. f[n] = g[n]
    <3> HIDE DEF n
    <3>0. \A i \in 1..n : g[i] = f[i]
      <4> DEFINE T == {i \in Nat : i + 1 <= n => f[i + 1] = g[i + 1]}
      <4>1. \A i \in 1..n : /\ f[i] = IF i = 1 THEN s[i] ELSE f[i - 1] \o s[i]
                            /\ g[i] = IF i = 1 THEN s[i] ELSE g[i - 1] \o s[i]
        <5> TAKE i \in 1..n
        <5>1. i \in 1..(n + 1)
          BY <1>1
        <5>2. f[i] = IF i = 1 THEN s[i] ELSE f[i - 1] \o s[i]
          BY <2>1 DEF IsFlattening
        <5>3. g[i] = IF i = 1 THEN t[i] ELSE g[i - 1] \o t[i]
          BY <1>2, <5>1 DEF IsFlattening
        <5>4. s[i] = t[i]
          BY <1>1
        <5> QED BY <5>2, <5>3, <5>4
      <4>2. 0 \in T
        BY <1>1, <4>1
      <4>3. ASSUME NEW i \in T
            PROVE  i + 1 \in T
        <5>1. CASE (i + 1) + 1 <= n
          <6>1. /\ (i + 1) + 1 \in 1..n
                /\ ((i + 1) + 1) - 1 = i + 1
                /\ (i + 1) + 1 # 1
                /\ f[i + 1] = g[i + 1]
            BY <1>1, <5>1
          <6>2. f[(i + 1) + 1] = g[(i + 1) + 1]
            BY <4>1, <6>1
          <6> QED BY <6>2
        <5> QED BY <5>1
      <4>4. T = Nat
        <5> HIDE DEF T
        <5>1. T \subseteq Nat
          BY DEF T
        <5> QED BY <4>2, <4>3, <5>1, SetInduction
      <4> TAKE i \in 1..n
      <4>5. i - 1 \in Nat /\ (i - 1) + 1 = i /\ i <= n
        BY <1>1
      <4>6. i - 1 \in T
        <5> HIDE DEF T
        <5> QED BY <4>4, <4>5
      <4> QED BY <4>5, <4>6
    <3> QED BY <2>2, <3>0
  <2>4. g[n + 1] = g[n] \o x
    BY <1>1, <1>2, <2>2 DEF IsFlattening
  <2> QED BY <1>2, <2>1, <2>3, <2>4 DEF t
<1> QED BY <1>3, <1>4

\* One part flattened is that part.
LEMMA FlattenOne ==
  ASSUME NEW S, NEW x \in Seq(S)
  PROVE  FlattenSeq(<<x>>) = x
<1>1. <<x>> = Append(<<>>, x) /\ <<>> \in Seq(Seq(S))
  OBVIOUS
<1>2. FlattenSeq(<<x>>) = <<>> \o x
  BY <1>1, FlattenAppend, FlattenEmpty
<1> QED BY <1>2

\* What follows is flattened apart.
LEMMA FlattenConcat ==
  ASSUME NEW S, NEW s \in Seq(Seq(S)), NEW t \in Seq(Seq(S))
  PROVE  FlattenSeq(s \o t) = FlattenSeq(s) \o FlattenSeq(t)
<1>0. /\ \A h, y, z \in Seq(S) : (h \o y) \o z = h \o (y \o z)
      /\ \A h \in Seq(S) : h \o <<>> = h
  BY ConcatAssociative, ConcatEmptySeq
<1> DEFINE start(n) == SubSeq(t, 1, n)
           T == {n \in Nat : n <= Len(t) =>
                             FlattenSeq(s \o start(n)) = FlattenSeq(s) \o FlattenSeq(start(n))}
<1>1. 0 \in T
  <2>1. start(0) = <<>> /\ s \o start(0) = s /\ FlattenSeq(s) \in Seq(S)
    BY FlattenType
  <2> HIDE DEF start
  <2> QED BY <1>0, <2>1, FlattenEmpty
<1>2. ASSUME NEW n \in T
      PROVE  n + 1 \in T
  <2>1. CASE n + 1 <= Len(t)
    <3> DEFINE a == start(n)
               x == t[n + 1]
    <3>1. n \in Nat /\ n <= Len(t) /\ n + 1 \in Nat
      BY <2>1
    <3>2. a \in Seq(Seq(S)) /\ x \in Seq(S) /\ start(n + 1) = Append(a, x)
      BY <2>1, <3>1
    <3>3. s \o a \in Seq(Seq(S)) /\ s \o Append(a, x) = Append(s \o a, x)
      BY <3>2
    <3>4. FlattenSeq(s \o a) = FlattenSeq(s) \o FlattenSeq(a)
      BY <3>1
    <3> HIDE DEF start, a, x
    <3>5. /\ FlattenSeq(Append(s \o a, x)) = FlattenSeq(s \o a) \o x
          /\ FlattenSeq(Append(a, x)) = FlattenSeq(a) \o x
      BY <3>2, <3>3, FlattenAppend
    <3>6. FlattenSeq(s) \in Seq(S) /\ FlattenSeq(a) \in Seq(S)
      BY <3>2, FlattenType
    <3>7. (FlattenSeq(s) \o FlattenSeq(a)) \o x = FlattenSeq(s) \o (FlattenSeq(a) \o x)
      BY <1>0, <3>2, <3>6
    <3>8. FlattenSeq(s \o start(n + 1)) = FlattenSeq(s) \o FlattenSeq(start(n + 1))
      BY <3>2, <3>3, <3>4, <3>5, <3>7
    <3> QED BY <3>1, <3>8
  <2>2. n + 1 \in Nat
    OBVIOUS
  <2> HIDE DEF start
  <2> QED BY <2>1, <2>2
<1>3. T = Nat
  <2> HIDE DEF T
  <2>1. T \subseteq Nat
    BY DEF T
  <2> QED BY <1>1, <1>2, <2>1, SetInduction
<1>4. Len(t) \in Nat /\ start(Len(t)) = t
  OBVIOUS
<1>5. Len(t) \in T
  <2> HIDE DEF T
  <2> QED BY <1>3, <1>4
<1>6. FlattenSeq(s \o start(Len(t))) = FlattenSeq(s) \o FlattenSeq(start(Len(t)))
  <2> HIDE DEF start
  <2> QED BY <1>4, <1>5
<1> HIDE DEF start
<1> QED BY <1>4, <1>6

\* Flattening the first sequence apart from the others.
LEMMA FlattenHeadTail ==
  ASSUME NEW S, NEW s \in Seq(Seq(S)), s # <<>>
  PROVE  FlattenSeq(s) = Head(s) \o FlattenSeq(Tail(s))
<1>1. Head(s) \in Seq(S) /\ Tail(s) \in Seq(Seq(S)) /\ <<Head(s)>> \in Seq(Seq(S))
  <2>1. Head(s) \in Seq(S) /\ Tail(s) \in Seq(Seq(S))
    BY HeadTailProperties
  <2> QED BY <2>1
<1>2. s = <<Head(s)>> \o Tail(s)
  <2> DEFINE R == Seq(S)
  <2>1. s \in Seq(R) /\ s # <<>>
    OBVIOUS
  <2> HIDE DEF R
  <2> QED BY <2>1
<1>3. FlattenSeq(<<Head(s)>>) = Head(s)
  BY <1>1, FlattenOne
<1> QED BY <1>1, <1>2, <1>3, FlattenConcat

\* Some successive sequences of a sequence of sequences: without the first, with
\* one more at the end, and how long they are together.
LEMMA FlattenPart ==
  ASSUME NEW S, NEW w \in Seq(Seq(S)), NEW i \in Nat, NEW j \in Nat, i <= j, j <= Len(w)
  PROVE  /\ FlattenSeq(SubSeq(w, i + 1, j)) \in Seq(S)
         /\ Len(FlattenSeq(SubSeq(w, i + 1, j))) <= Len(FlattenSeq(w))
         /\ i = j => FlattenSeq(SubSeq(w, i + 1, j)) = <<>>
         /\ j < Len(w) => FlattenSeq(SubSeq(w, i + 1, j + 1))
                            = FlattenSeq(SubSeq(w, i + 1, j)) \o w[j + 1]
         /\ i < j => FlattenSeq(SubSeq(w, i + 1, j))
                       = w[i + 1] \o FlattenSeq(SubSeq(w, i + 2, j))
<1> DEFINE R == Seq(S)
           a == SubSeq(w, 1, i)
           b == SubSeq(w, i + 1, j)
           c == SubSeq(w, j + 1, Len(w))
<1>1. w \in Seq(R)
  OBVIOUS
<1> HIDE DEF R
<1>2. a \in Seq(R) /\ b \in Seq(R) /\ c \in Seq(R)
  BY <1>1
<1>3. w = a \o (b \o c)
  <2>1. /\ Len(w) \in Nat /\ 1 \in 1..(Len(w) + 1) /\ i + 1 \in 1..(Len(w) + 1)
        /\ i \in (1 - 1)..Len(w) /\ j \in ((i + 1) - 1)..Len(w)
        /\ Len(w) \in i..Len(w) /\ Len(w) \in j..Len(w)
    BY <1>1
  <2>2. b \o c = SubSeq(w, i + 1, Len(w))
    BY <1>1, <2>1, ConcatAdjacentSubSeq
  <2>3. a \o SubSeq(w, i + 1, Len(w)) = SubSeq(w, 1, Len(w))
    BY <1>1, <2>1, ConcatAdjacentSubSeq
  <2>4. SubSeq(w, 1, Len(w)) = w
    BY <1>1, SubSeqFull
  <2> QED BY <2>2, <2>3, <2>4
<1>4. j < Len(w) => SubSeq(w, i + 1, j + 1) = Append(b, w[j + 1]) /\ w[j + 1] \in R
  BY <1>1
<1>5. i < j => Head(b) = w[i + 1] /\ Tail(b) = SubSeq(w, i + 2, j) /\ b # <<>>
  <2> SUFFICES ASSUME i < j
               PROVE  Head(b) = w[i + 1] /\ Tail(b) = SubSeq(w, i + 2, j) /\ b # <<>>
    OBVIOUS
  <2>1. i + 1 \in 1..Len(w) /\ j \in (i + 1)..Len(w) /\ (i + 1) + 1 = i + 2
    BY <1>1
  <2>2. Head(b) = w[i + 1] /\ Tail(b) = SubSeq(w, (i + 1) + 1, j)
    BY <1>1, <2>1, HeadTailOfSubSeq
  <2>3. Len(b) # 0
    BY <1>1, <2>1
  <2>4. b # <<>>
    <3> HIDE DEF b
    <3> QED BY <1>2, <2>3
  <2> QED BY <2>1, <2>2, <2>4
<1>6. i = j => b = <<>>
  BY <1>1
<1> HIDE DEF a, b, c
<1>7. FlattenSeq(a) \in Seq(S) /\ FlattenSeq(b) \in Seq(S) /\ FlattenSeq(c) \in Seq(S)
  BY <1>2, FlattenType DEF R
<1>8. FlattenSeq(w) = FlattenSeq(a) \o (FlattenSeq(b) \o FlattenSeq(c))
  <2>1. b \o c \in Seq(R)
    BY <1>2
  <2>2. FlattenSeq(b \o c) = FlattenSeq(b) \o FlattenSeq(c)
    BY <1>2, FlattenConcat DEF R
  <2>3. FlattenSeq(a \o (b \o c)) = FlattenSeq(a) \o FlattenSeq(b \o c)
    BY <1>2, <2>1, FlattenConcat DEF R
  <2> QED BY <1>3, <2>2, <2>3
<1>9. Len(FlattenSeq(b)) <= Len(FlattenSeq(w))
  <2>1. Len(FlattenSeq(w)) = Len(FlattenSeq(a)) + (Len(FlattenSeq(b)) + Len(FlattenSeq(c)))
    BY <1>7, <1>8
  <2> QED BY <1>7, <2>1
<1>10. j < Len(w) => FlattenSeq(Append(b, w[j + 1])) = FlattenSeq(b) \o w[j + 1]
  BY <1>2, <1>4, FlattenAppend DEF R
<1>11. i < j => FlattenSeq(b) = Head(b) \o FlattenSeq(Tail(b))
  BY <1>2, <1>5, FlattenHeadTail DEF R
<1> QED BY <1>4, <1>5, <1>6, <1>7, <1>9, <1>10, <1>11, FlattenEmpty DEF b

\* One sequence for every element.
LEMMA FlattenSingletons ==
  ASSUME NEW S, NEW s \in Seq(S)
  PROVE  FlattenSeq([i \in DOMAIN s |-> <<s[i]>>]) = s
<1> DEFINE t == [i \in DOMAIN s |-> <<s[i]>>]
           T == {n \in Nat : n <= Len(s) => FlattenSeq(SubSeq(t, 1, n)) = SubSeq(s, 1, n)}
<1>1. t \in Seq(Seq(S)) /\ Len(t) = Len(s) /\ \A i \in 1..Len(s) : t[i] = <<s[i]>>
  <2>1. DOMAIN s = 1..Len(s) /\ \A i \in 1..Len(s) : <<s[i]>> \in Seq(S)
    OBVIOUS
  <2> QED BY <2>1
<1> HIDE DEF t
<1>2. 0 \in T
  <2>1. SubSeq(t, 1, 0) = <<>> /\ SubSeq(s, 1, 0) = <<>>
    BY <1>1
  <2> QED BY <2>1, FlattenEmpty
<1>3. ASSUME NEW n \in T
      PROVE  n + 1 \in T
  <2>1. CASE n + 1 <= Len(s)
    <3>1. /\ SubSeq(t, 1, n) \in Seq(Seq(S))
          /\ SubSeq(t, 1, n + 1) = Append(SubSeq(t, 1, n), t[n + 1])
          /\ t[n + 1] = <<s[n + 1]>>
          /\ t[n + 1] \in Seq(S)
      BY <1>1, <2>1
    <3>2. SubSeq(s, 1, n + 1) = SubSeq(s, 1, n) \o <<s[n + 1]>>
      BY <2>1
    <3>3. FlattenSeq(SubSeq(t, 1, n + 1)) = FlattenSeq(SubSeq(t, 1, n)) \o t[n + 1]
      BY <3>1, FlattenAppend
    <3>4. FlattenSeq(SubSeq(t, 1, n)) = SubSeq(s, 1, n)
      BY <2>1
    <3>5. FlattenSeq(SubSeq(t, 1, n + 1)) = SubSeq(s, 1, n + 1)
      BY <3>1, <3>2, <3>3, <3>4
    <3> QED BY <3>5
  <2> QED BY <2>1
<1>4. T = Nat
  <2> HIDE DEF T
  <2>1. T \subseteq Nat
    BY DEF T
  <2> QED BY <1>2, <1>3, <2>1, SetInduction
<1>5. FlattenSeq(SubSeq(t, 1, Len(s))) = SubSeq(s, 1, Len(s))
  BY <1>4
<1>6. SubSeq(t, 1, Len(s)) = t /\ SubSeq(s, 1, Len(s)) = s
  BY <1>1
<1> QED BY <1>5, <1>6 DEF t

\* Sequences that are empty together are empty.
LEMMA NothingLeft ==
  ASSUME NEW S, NEW s \in Seq(Seq(S)), FlattenSeq(s) = <<>>, \A i \in DOMAIN s : s[i] # <<>>
  PROVE  s = <<>>
<1>1. SUFFICES ASSUME s # <<>> PROVE FALSE
  OBVIOUS
<1>2. /\ Head(s) \in Seq(S) /\ Head(s) # <<>>
      /\ Tail(s) \in Seq(Seq(S))
  <2>1. 1 \in DOMAIN s /\ Head(s) = s[1]
    BY <1>1
  <2> QED BY <1>1, <2>1, HeadTailProperties
<1>3. FlattenSeq(s) = Head(s) \o FlattenSeq(Tail(s)) /\ FlattenSeq(Tail(s)) \in Seq(S)
  BY <1>1, <1>2, FlattenHeadTail, FlattenType
<1>4. Len(Head(s) \o FlattenSeq(Tail(s))) # 0
  BY <1>2, <1>3
<1>5. Len(<<>>) = 0
  OBVIOUS
<1> QED BY <1>3, <1>4, <1>5, Zenon

=============================================================================
