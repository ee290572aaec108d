-------------------------- MODULE Conversions_proofs --------------------------
(***************************************************************************)
(* What integers, hexadecimal strings and binary strings keep of each other, *)
(* for every width and every integer type: the digits that are written      *)
(* denote the value, are as few as can, and are read as their number.       *)
(*                                                                          *)
(* The functions of Conversions are recursive: their values come from       *)
(* Upwards, induction over a set, and their existence from StepsExist.      *)
(***************************************************************************)
EXTENDS Conversions, SequenceFacts

-----------------------------------------------------------------------------
(* Induction, recursive functions, and their values *)

\* Induction up to a number.
LEMMA Upwards ==
  ASSUME NEW n \in Nat, NEW T, 0 \in T, \A i \in 1..n : i - 1 \in T => i \in T
  PROVE  \A i \in 0..n : i \in T
<1> DEFINE U == {k \in Nat : k <= n => k \in T}
<1>1. 0 \in U
  OBVIOUS
<1>2. ASSUME NEW k \in U
      PROVE  k + 1 \in U
  <2>1. CASE k + 1 <= n
    <3>1. k + 1 \in 1..n /\ (k + 1) - 1 = k /\ k \in T
      BY <2>1
    <3> QED BY <3>1
  <2> QED BY <2>1
<1>3. U = Nat
  <2> HIDE DEF U
  <2>1. U \subseteq Nat
    BY DEF U
  <2> QED BY <1>1, <1>2, <2>1, SetInduction
<1> QED BY <1>3

\* f goes from start through given steps, k of them.
GoesUp(f, S, start, step, k) ==
  f \in [0..k -> S] /\ f[0] = start /\ \A i \in 1..k : f[i] = step[i][f[i - 1]]

\* There is such a function.
LEMMA StepsExist ==
  ASSUME NEW S, NEW n \in Nat, NEW start \in S, NEW step \in [1..n -> [S -> S]]
  PROVE  \E f : GoesUp(f, S, start, step, n)
<1> DEFINE T == {k \in 0..n : \E f : GoesUp(f, S, start, step, k)}
<1>1. 0 \in T
  <2>1. GoesUp([i \in 0..0 |-> start], S, start, step, 0)
    BY DEF GoesUp
  <2> QED BY <2>1
<1>2. ASSUME NEW k \in 1..n, k - 1 \in T
      PROVE  k \in T
  <2>1. PICK f : GoesUp(f, S, start, step, k - 1)
    BY <1>2
  <2> DEFINE g == [i \in 0..k |-> IF i = k THEN step[k][f[k - 1]] ELSE f[i]]
  <2>2. step[k][f[k - 1]] \in S
    <3>1. f[k - 1] \in S /\ step[k] \in [S -> S]
      BY <2>1 DEF GoesUp
    <3> QED BY <3>1
  <2>3. g \in [0..k -> S] /\ g[0] = start
    BY <2>1, <2>2 DEF GoesUp
  <2>4. \A i \in 1..k : g[i] = step[i][g[i - 1]]
    BY <2>1 DEF GoesUp
  <2>5. GoesUp(g, S, start, step, k)
    BY <2>3, <2>4 DEF GoesUp
  <2> QED BY <2>5
<1>3. \A i \in 0..n : i \in T
  <2> HIDE DEF T
  <2> QED BY <1>1, <1>2, Upwards
<1> QED BY <1>3

\* The values of Power up to an exponent.
IsPower(f, b, n) == f \in [0..n -> Nat \ {0}] /\ f[0] = 1 /\ \A i \in 1..n : f[i] = b * f[i - 1]

\* Power is the last of them.
LEMMA PowersExist ==
  ASSUME NEW b \in Nat \ {0}, NEW n \in Nat
  PROVE  \E f : IsPower(f, b, n) /\ Power(b, n) = f[n]
<1> DEFINE S == Nat \ {0}
           Rec(p) == [i \in 0..n |-> IF i = 0 THEN 1 ELSE b * p[i - 1]]
           step == [i \in 1..n |-> [x \in S |-> b * x]]
           f == CHOOSE p : p = Rec(p)
<1>1. PICK g : GoesUp(g, S, 1, step, n)
  <2>1. step \in [1..n -> [S -> S]] /\ 1 \in S
    OBVIOUS
  <2> HIDE DEF step, S
  <2> QED BY <2>1, StepsExist
<1>2. g \in [0..n -> S] /\ g[0] = 1 /\ \A i \in 1..n : g[i] = b * g[i - 1]
  <2>1. g \in [0..n -> S] /\ g[0] = 1 /\ \A i \in 1..n : g[i] = step[i][g[i - 1]]
    BY <1>1 DEF GoesUp
  <2>2. \A i \in 1..n : \A x \in S : step[i][x] = b * x
    OBVIOUS
  <2>3. \A i \in 1..n : g[i - 1] \in S
    BY <2>1
  <2> HIDE DEF step, S
  <2> QED BY <2>1, <2>2, <2>3
<1>3. g = Rec(g)
  <2>1. \A i \in 0..n : g[i] = IF i = 0 THEN 1 ELSE b * g[i - 1]
    <3>1. ASSUME NEW i \in 0..n, i # 0 PROVE i \in 1..n
      BY <3>1
    <3> QED BY <1>2, <3>1
  <2> QED BY <1>2, <2>1
<1>4. f = Rec(f)
  BY <1>3
<1>5. Power(b, n) = f[n]
  BY DEF Power
<1> HIDE DEF f
<1>6. f[0] = 1 /\ \A i \in 1..n : f[i] = b * f[i - 1]
  BY <1>4
<1>7. \A i \in 0..n : f[i] = g[i]
  <2> DEFINE U == {k \in 0..n : f[k] = g[k]}
  <2>1. 0 \in U
    BY <1>2, <1>6
  <2>2. ASSUME NEW k \in 1..n, k - 1 \in U
        PROVE  k \in U
    BY <1>2, <1>6, <2>2
  <2>3. \A i \in 0..n : i \in U
    <3> HIDE DEF U
    <3> QED BY <2>1, <2>2, Upwards
  <2> QED BY <2>3
<1>8. IsPower(f, b, n)
  BY <1>2, <1>4, <1>6, <1>7 DEF IsPower
<1> QED BY <1>5, <1>8

\* A power is positive, and one more in the exponent is one factor more.
LEMMA Powers ==
  ASSUME NEW b \in Nat \ {0}, NEW n \in Nat
  PROVE  /\ Power(b, 0) = 1
         /\ Power(b, n) \in Nat \ {0}
         /\ Power(b, n + 1) = b * Power(b, n)
<1>1. PICK f : IsPower(f, b, n) /\ Power(b, n) = f[n]
  BY PowersExist
<1>2. PICK g : IsPower(g, b, n + 1) /\ Power(b, n + 1) = g[n + 1]
  <2>1. n + 1 \in Nat
    OBVIOUS
  <2> QED BY <2>1, PowersExist
<1>3. PICK h : IsPower(h, b, 0) /\ Power(b, 0) = h[0]
  BY PowersExist
<1>4. \A i \in 0..n : f[i] = g[i]
  <2> DEFINE U == {k \in 0..n : f[k] = g[k]}
  <2>1. 0 \in U
    BY <1>1, <1>2 DEF IsPower
  <2>2. ASSUME NEW k \in 1..n, k - 1 \in U
        PROVE  k \in U
    BY <1>1, <1>2, <2>2 DEF IsPower
  <2>3. \A i \in 0..n : i \in U
    <3> HIDE DEF U
    <3> QED BY <2>1, <2>2, Upwards
  <2> QED BY <2>3
<1>5. g[n + 1] = b * g[n] /\ f[n] \in Nat \ {0} /\ f[n] = g[n] /\ h[0] = 1
  <2>1. n + 1 \in 1..(n + 1) /\ (n + 1) - 1 = n /\ n \in 0..n
    OBVIOUS
  <2> QED BY <1>1, <1>2, <1>3, <1>4, <2>1 DEF IsPower
<1> QED BY <1>1, <1>2, <1>3, <1>5

\* Powers are positive.
LEMMA PowerIsPositive ==
  ASSUME NEW b \in Nat \ {0}, NEW n \in Nat
  PROVE  Power(b, n) \in Nat \ {0}
BY Powers

\* Those of the bases in use.
LEMMA PowersOfBases ==
  \A n \in Nat : /\ Power(256, n) \in Nat \ {0} /\ Power(256, n) \in Nat
                 /\ Power(16, n) \in Nat \ {0} /\ Power(16, n) \in Nat
<1>1. 256 \in Nat \ {0} /\ 16 \in Nat \ {0}
  OBVIOUS
<1> QED BY <1>1, PowerIsPositive

\* The numbers that the first digits denote, for more and more of them.
IsPrefixNumber(f, s, b) ==
  /\ f \in [0..Len(s) -> Nat]
  /\ f[0] = 0
  /\ \A i \in 1..Len(s) : f[i] = b * f[i - 1] + s[i]

\* Magnitude is the last of them.
LEMMA NumbersExist ==
  ASSUME NEW b \in Nat, NEW s \in Seq(Nat)
  PROVE  \E f : IsPrefixNumber(f, s, b) /\ Magnitude(s, b) = f[Len(s)]
<1> DEFINE n == Len(s)
           Rec(p) == [i \in 0..n |-> IF i = 0 THEN 0 ELSE b * p[i - 1] + s[i]]
           step == [i \in 1..n |-> [x \in Nat |-> b * x + s[i]]]
           f == CHOOSE p : p = Rec(p)
<1>0. n \in Nat /\ \A i \in 1..n : s[i] \in Nat
  OBVIOUS
<1>a. Magnitude(s, b) = f[n]
  BY DEF Magnitude
<1> HIDE DEF n
<1>1. PICK g : GoesUp(g, Nat, 0, step, n)
  <2>1. step \in [1..n -> [Nat -> Nat]]
    BY <1>0
  <2> HIDE DEF step
  <2> QED BY <1>0, <2>1, StepsExist
<1>2. g \in [0..n -> Nat] /\ g[0] = 0 /\ \A i \in 1..n : g[i] = b * g[i - 1] + s[i]
  <2>1. g \in [0..n -> Nat] /\ g[0] = 0 /\ \A i \in 1..n : g[i] = step[i][g[i - 1]]
    BY <1>1 DEF GoesUp
  <2>2. \A i \in 1..n : \A x \in Nat : step[i][x] = b * x + s[i]
    OBVIOUS
  <2>3. \A i \in 1..n : g[i - 1] \in Nat
    BY <1>0, <2>1
  <2> HIDE DEF step
  <2> QED BY <2>1, <2>2, <2>3
<1>3. g = Rec(g)
  <2>1. \A i \in 0..n : g[i] = IF i = 0 THEN 0 ELSE b * g[i - 1] + s[i]
    <3>1. ASSUME NEW i \in 0..n, i # 0 PROVE i \in 1..n
      BY <1>0, <3>1
    <3> QED BY <1>2, <3>1
  <2> QED BY <1>2, <2>1
<1>4. f = Rec(f)
  BY <1>3
<1> HIDE DEF f
<1>6. f[0] = 0 /\ \A i \in 1..n : f[i] = b * f[i - 1] + s[i]
  BY <1>0, <1>4
<1>7. \A i \in 0..n : f[i] = g[i]
  <2> DEFINE U == {k \in 0..n : f[k] = g[k]}
  <2>1. 0 \in U
    BY <1>0, <1>2, <1>6
  <2>2. ASSUME NEW k \in 1..n, k - 1 \in U
        PROVE  k \in U
    BY <1>0, <1>2, <1>6, <2>2
  <2>3. \A i \in 0..n : i \in U
    <3> HIDE DEF U
    <3> QED BY <1>0, <2>1, <2>2, Upwards
  <2> QED BY <2>3
<1>8. IsPrefixNumber(f, s, b)
  BY <1>2, <1>4, <1>6, <1>7 DEF IsPrefixNumber, n
<1> QED BY <1>a, <1>8 DEF n

\* A sequence of digits of a base.
IsDigits(s, b) == s \in Seq(0..(b - 1))

\* The number of a sequence of digits is less than the power of their number,
\* and the first digit says where it is.
LEMMA FirstDigit ==
  ASSUME NEW b \in Nat \ {0}, NEW s, IsDigits(s, b)
  PROVE  /\ Magnitude(s, b) \in Nat /\ Magnitude(s, b) < Power(b, Len(s))
         /\ s # <<>> => /\ s[1] * Power(b, Len(s) - 1) <= Magnitude(s, b)
                        /\ Magnitude(s, b) < (s[1] + 1) * Power(b, Len(s) - 1)
<1> DEFINE n == Len(s)
<1>1. n \in Nat /\ s \in Seq(Nat) /\ \A i \in 1..n : s[i] \in 0..(b - 1)
  BY DEF IsDigits
<1>2. PICK f : IsPrefixNumber(f, s, b) /\ Magnitude(s, b) = f[n]
  BY <1>1, NumbersExist
<1>3. /\ f \in [0..n -> Nat] /\ f[0] = 0
      /\ \A i \in 1..n : f[i] = b * f[i - 1] + s[i]
  BY <1>2 DEF IsPrefixNumber
<1> HIDE DEF n
<1>4. \A i \in 0..n : f[i] < Power(b, i)
  <2> DEFINE U == {k \in 0..n : f[k] < Power(b, k)}
  <2>1. 0 \in U
    BY <1>1, <1>3, Powers
  <2>2. ASSUME NEW k \in 1..n, k - 1 \in U
        PROVE  k \in U
    <3>1. k - 1 \in Nat /\ (k - 1) + 1 = k /\ s[k] \in 0..(b - 1) /\ f[k - 1] \in Nat
      BY <1>1, <1>3
    <3>2. Power(b, k) = b * Power(b, k - 1) /\ Power(b, k - 1) \in Nat
      BY <3>1, Powers
    <3>3. f[k] = b * f[k - 1] + s[k] /\ f[k - 1] + 1 <= Power(b, k - 1)
      BY <1>3, <2>2, <3>1, <3>2
    <3>4. b * (f[k - 1] + 1) <= b * Power(b, k - 1)
      BY <3>1, <3>2, <3>3
    <3>5. f[k] < Power(b, k)
      BY <3>1, <3>2, <3>3, <3>4
    <3> QED BY <1>1, <3>5
  <2>3. \A i \in 0..n : i \in U
    <3> HIDE DEF U
    <3> QED BY <1>1, <2>1, <2>2, Upwards
  <2> QED BY <2>3
<1>5. ASSUME s # <<>>
      PROVE  \A i \in 1..n : s[1] * Power(b, i - 1) <= f[i] /\ f[i] < (s[1] + 1) * Power(b, i - 1)
  <2> DEFINE a == s[1]
             U == {k \in 0..(n - 1) : a * Power(b, k) <= f[k + 1] /\ f[k + 1] < (a + 1) * Power(b, k)}
  <2>0. n - 1 \in Nat /\ 1 \in 1..n /\ a \in Nat /\ Power(b, 0) = 1
    <3>1. n # 0
      BY <1>1, <1>5 DEF n
    <3>2. n - 1 \in Nat /\ 1 \in 1..n /\ a \in Nat
      BY <1>1, <3>1
    <3>3. Power(b, 0) = 1
      BY Powers
    <3> QED BY <3>2, <3>3
  <2>1. 0 \in U
    <3>1. f[1] = b * f[0] + a
      BY <1>3, <2>0
    <3>2. f[1] = a
      BY <1>3, <2>0, <3>1
    <3> QED BY <2>0, <3>2
  <2>2. ASSUME NEW k \in 1..(n - 1), k - 1 \in U
        PROVE  k \in U
    <3>1. /\ k \in 1..n /\ k + 1 \in 1..n /\ (k + 1) - 1 = k /\ k - 1 \in Nat /\ (k - 1) + 1 = k
          /\ s[k + 1] \in 0..(b - 1) /\ f[k] \in Nat
      BY <1>1, <1>3, <2>0, SMTT(30)
    <3>2. Power(b, k) = b * Power(b, k - 1) /\ Power(b, k - 1) \in Nat
      BY <3>1, Powers
    <3>3. /\ f[k + 1] = b * f[k] + s[k + 1]
          /\ a * Power(b, k - 1) <= f[k] /\ f[k] + 1 <= (a + 1) * Power(b, k - 1)
      BY <1>3, <2>0, <2>2, <3>1, <3>2, SMTT(30)
    <3> HIDE DEF a
    <3> DEFINE P == Power(b, k - 1)
    <3>4. b * (a * P) <= b * f[k] /\ b * (f[k] + 1) <= b * ((a + 1) * P)
      <4> HIDE DEF P
      <4> QED BY <2>0, <3>1, <3>2, <3>3 DEF P
    <3>5. b * (a * P) = a * (b * P) /\ b * ((a + 1) * P) = (a + 1) * (b * P)
      BY <2>0, <3>2
    <3>6. a * Power(b, k) <= f[k + 1] /\ f[k + 1] < (a + 1) * Power(b, k)
      BY <2>0, <3>1, <3>2, <3>3, <3>4, <3>5
    <3> QED BY <3>6
  <2>3. \A i \in 0..(n - 1) : i \in U
    <3> HIDE DEF U
    <3> QED BY <2>0, <2>1, <2>2, Upwards
  <2>4. ASSUME NEW i \in 1..n
        PROVE  a * Power(b, i - 1) <= f[i] /\ f[i] < (a + 1) * Power(b, i - 1)
    <3>1. i - 1 \in U /\ (i - 1) + 1 = i
      BY <1>1, <2>3
    <3> QED BY <3>1
  <2> QED BY <2>4
<1>6. s # <<>> => n \in 1..n
  BY <1>1 DEF n
<1> QED BY <1>1, <1>2, <1>3, <1>4, <1>5, <1>6 DEF n

\* The number of a sequence goes up from nothing, by one digit each time; so
\* does the number of any two sequences put together.
LEMMA JoinedNumber ==
  ASSUME NEW b \in Nat \ {0}, NEW p, IsDigits(p, b), NEW q, IsDigits(q, b)
  PROVE  /\ IsDigits(p \o q, b)
         /\ Magnitude(p \o q, b) = Magnitude(p, b) * Power(b, Len(q)) + Magnitude(q, b)
<1> DEFINE s == p \o q
           m == Len(p)
           n == Len(q)
<1>0. p \in Seq(0..(b - 1)) /\ q \in Seq(0..(b - 1))
  BY DEF IsDigits
<1>1. /\ IsDigits(s, b) /\ m \in Nat /\ n \in Nat /\ Len(s) = m + n
      /\ \A i \in 1..m : p[i] \in Nat /\ s[i] = p[i]
      /\ \A i \in 1..n : q[i] \in Nat /\ s[m + i] = q[i]
  BY <1>0 DEF IsDigits
<1>2. p \in Seq(Nat) /\ q \in Seq(Nat) /\ s \in Seq(Nat)
  BY <1>0
<1> HIDE DEF s
<1>3. PICK f : IsPrefixNumber(f, p, b) /\ Magnitude(p, b) = f[m]
  BY <1>2, NumbersExist
<1>4. PICK g : IsPrefixNumber(g, q, b) /\ Magnitude(q, b) = g[n]
  BY <1>2, NumbersExist
<1>5. PICK h : IsPrefixNumber(h, s, b) /\ Magnitude(s, b) = h[m + n]
  <2>1. \E h : IsPrefixNumber(h, s, b) /\ Magnitude(s, b) = h[Len(s)]
    BY <1>2, NumbersExist
  <2> QED BY <1>1, <2>1
<1> HIDE DEF m, n
<1>6. /\ \A i \in 0..m : f[i] \in Nat
      /\ \A i \in 0..n : g[i] \in Nat
      /\ \A i \in 0..(m + n) : h[i] \in Nat
      /\ f[0] = 0 /\ g[0] = 0 /\ h[0] = 0
      /\ \A i \in 1..m : f[i] = b * f[i - 1] + p[i]
      /\ \A i \in 1..n : g[i] = b * g[i - 1] + q[i]
      /\ \A i \in 1..(m + n) : h[i] = b * h[i - 1] + s[i]
  BY <1>1, <1>3, <1>4, <1>5 DEF IsPrefixNumber, m, n
<1>7. \A i \in 0..m : h[i] = f[i]
  <2> DEFINE U == {k \in 0..m : h[k] = f[k]}
  <2>1. 0 \in U
    BY <1>1, <1>6
  <2>2. ASSUME NEW k \in 1..m, k - 1 \in U
        PROVE  k \in U
    <3>1. k \in 1..(m + n) /\ s[k] = p[k]
      BY <1>1
    <3> QED BY <1>6, <2>2, <3>1
  <2>3. \A i \in 0..m : i \in U
    <3> HIDE DEF U
    <3> QED BY <1>1, <2>1, <2>2, Upwards
  <2> QED BY <2>3
<1>8. \A i \in 0..n : h[m + i] = f[m] * Power(b, i) + g[i]
  <2> DEFINE U == {k \in 0..n : h[m + k] = f[m] * Power(b, k) + g[k]}
  <2>0. f[m] \in Nat /\ Power(b, 0) = 1
    BY <1>1, <1>6, Powers
  <2>1. 0 \in U
    <3>1. m + 0 = m /\ m \in 0..m /\ h[m] = f[m]
      BY <1>1, <1>7
    <3> QED BY <1>1, <1>6, <2>0, <3>1
  <2>2. ASSUME NEW k \in 1..n, k - 1 \in U
        PROVE  k \in U
    <3>1. /\ m + k \in 1..(m + n) /\ (m + k) - 1 = m + (k - 1) /\ s[m + k] = q[k]
          /\ k - 1 \in Nat /\ (k - 1) + 1 = k /\ g[k - 1] \in Nat /\ q[k] \in Nat
      BY <1>1, <1>6
    <3>2. Power(b, k) = b * Power(b, k - 1) /\ Power(b, k - 1) \in Nat
      BY <3>1, Powers
    <3>3. h[m + k] = b * h[m + (k - 1)] + q[k]
      BY <1>6, <3>1
    <3>4. g[k] = b * g[k - 1] + q[k]
      BY <1>6
    <3>5. h[m + (k - 1)] = f[m] * Power(b, k - 1) + g[k - 1]
      BY <2>2
    <3>6. b * (f[m] * Power(b, k - 1) + g[k - 1]) = f[m] * (b * Power(b, k - 1)) + b * g[k - 1]
      BY <2>0, <3>1, <3>2
    <3>7. h[m + k] = f[m] * Power(b, k) + g[k]
      BY <2>0, <3>1, <3>2, <3>3, <3>4, <3>5, <3>6
    <3> QED BY <3>7
  <2>3. \A i \in 0..n : i \in U
    <3> HIDE DEF U
    <3> QED BY <1>1, <2>1, <2>2, Upwards
  <2> QED BY <2>3
<1>9. h[m + n] = f[m] * Power(b, n) + g[n]
  BY <1>1, <1>8
<1> QED BY <1>1, <1>3, <1>4, <1>5, <1>9 DEF s, m, n

\* Zeros are nothing.
LEMMA ZerosAreNothing ==
  ASSUME NEW b \in Nat \ {0}, NEW s, IsDigits(s, b)
  PROVE  Magnitude(s, b) = 0 <=> \A i \in 1..Len(s) : s[i] = 0
<1> DEFINE n == Len(s)
<1>1. n \in Nat /\ s \in Seq(Nat) /\ \A i \in 1..n : s[i] \in Nat
  BY DEF IsDigits
<1>2. PICK f : IsPrefixNumber(f, s, b) /\ Magnitude(s, b) = f[n]
  BY <1>1, NumbersExist
<1>3. /\ \A i \in 0..n : f[i] \in Nat
      /\ f[0] = 0
      /\ \A i \in 1..n : f[i] = b * f[i - 1] + s[i]
  BY <1>2 DEF IsPrefixNumber
<1> HIDE DEF n
<1>4. \A i \in 0..n : f[i] = 0 <=> \A j \in 1..i : s[j] = 0
  <2> DEFINE U == {k \in 0..n : f[k] = 0 <=> \A j \in 1..k : s[j] = 0}
  <2>1. 0 \in U
    BY <1>1, <1>3
  <2>2. ASSUME NEW k \in 1..n, k - 1 \in U
        PROVE  k \in U
    <3>1. f[k] = b * f[k - 1] + s[k] /\ f[k - 1] \in Nat /\ s[k] \in Nat
      BY <1>1, <1>3
    <3>2. f[k] = 0 <=> f[k - 1] = 0 /\ s[k] = 0
      BY <3>1
    <3>3. (\A j \in 1..k : s[j] = 0) <=> (\A j \in 1..(k - 1) : s[j] = 0) /\ s[k] = 0
      <4>1. \A j \in 1..k : j = k \/ j \in 1..(k - 1)
        BY <1>1
      <4>2. k \in 1..k /\ \A j \in 1..(k - 1) : j \in 1..k
        BY <1>1
      <4> QED BY <4>1, <4>2
    <3> QED BY <2>2, <3>2, <3>3
  <2>3. \A i \in 0..n : i \in U
    <3> HIDE DEF U
    <3> QED BY <1>1, <2>1, <2>2, Upwards
  <2> QED BY <2>3
<1>5. n \in 0..n
  BY <1>1
<1> QED BY <1>2, <1>4, <1>5 DEF n

\* Every digit replaced by what it lacks to the last.
Lacking(s, b) == [i \in 1..Len(s) |-> b - 1 - s[i]]

\* Their number is what the number lacks to the highest.
LEMMA LackingNumber ==
  ASSUME NEW b \in Nat \ {0}, NEW s, IsDigits(s, b)
  PROVE  /\ IsDigits(Lacking(s, b), b) /\ Len(Lacking(s, b)) = Len(s)
         /\ Magnitude(Lacking(s, b), b) = Power(b, Len(s)) - 1 - Magnitude(s, b)
<1> DEFINE n == Len(s)
           t == Lacking(s, b)
<1>1. n \in Nat /\ s \in Seq(Nat) /\ \A i \in 1..n : s[i] \in 0..(b - 1)
  BY DEF IsDigits
<1>2. PICK f : IsPrefixNumber(f, s, b) /\ Magnitude(s, b) = f[n]
  BY <1>1, NumbersExist
<1>3. /\ \A i \in 0..n : f[i] \in Nat
      /\ f[0] = 0
      /\ \A i \in 1..n : f[i] = b * f[i - 1] + s[i]
  BY <1>2 DEF IsPrefixNumber
<1>4. IsDigits(t, b) /\ Len(t) = n /\ t \in Seq(Nat) /\ \A i \in 1..n : t[i] = b - 1 - s[i]
  <2>1. \A i \in 1..n : b - 1 - s[i] \in 0..(b - 1)
    BY <1>1
  <2>2. t \in [1..n -> 0..(b - 1)] /\ \A i \in 1..n : t[i] = b - 1 - s[i]
    BY <2>1 DEF Lacking
  <2> HIDE DEF n, t
  <2> QED BY <1>1, <2>2 DEF IsDigits
<1> HIDE DEF t
<1>5. PICK g : IsPrefixNumber(g, t, b) /\ Magnitude(t, b) = g[n]
  BY <1>4, NumbersExist
<1>6. /\ \A i \in 0..n : g[i] \in Nat
      /\ g[0] = 0
      /\ \A i \in 1..n : g[i] = b * g[i - 1] + t[i]
  BY <1>4, <1>5 DEF IsPrefixNumber
<1> HIDE DEF n
<1>7. \A i \in 0..n : g[i] = Power(b, i) - 1 - f[i]
  <2> DEFINE U == {k \in 0..n : g[k] = Power(b, k) - 1 - f[k]}
  <2>0. Power(b, 0) = 1
    BY Powers
  <2>1. 0 \in U
    BY <1>1, <1>3, <1>6, <2>0
  <2>2. ASSUME NEW k \in 1..n, k - 1 \in U
        PROVE  k \in U
    <3>1. k - 1 \in Nat /\ (k - 1) + 1 = k /\ s[k] \in 0..(b - 1) /\ f[k - 1] \in Nat
      BY <1>1, <1>3
    <3>2. Power(b, k) = b * Power(b, k - 1) /\ Power(b, k - 1) \in Nat
      BY <3>1, Powers
    <3>3. /\ f[k] = b * f[k - 1] + s[k]
          /\ g[k] = b * g[k - 1] + (b - 1 - s[k])
          /\ g[k - 1] = Power(b, k - 1) - 1 - f[k - 1]
      BY <1>3, <1>4, <1>6, <2>2
    <3>4. b * (Power(b, k - 1) - 1 - f[k - 1]) = b * Power(b, k - 1) - b - b * f[k - 1]
      <4>1. \A P, F \in Nat : b * (P - 1 - F) = b * P - b - b * F
        OBVIOUS
      <4> QED BY <3>1, <3>2, <4>1
    <3>5. g[k] = Power(b, k) - 1 - f[k]
      BY <3>1, <3>2, <3>3, <3>4
    <3> QED BY <3>5
  <2>3. \A i \in 0..n : i \in U
    <3> HIDE DEF U
    <3> QED BY <1>1, <2>1, <2>2, Upwards
  <2> QED BY <2>3
<1>8. n \in 0..n
  BY <1>1
<1> QED BY <1>2, <1>4, <1>5, <1>7, <1>8 DEF n, t

\* Two hexadecimal digits are the bits of one byte.
LEMMA TwoDigitsPerByte ==
  ASSUME NEW n \in Nat
  PROVE  Power(256, n) = Power(16, 2 * n)
<1> DEFINE U == {k \in 0..n : Power(256, k) = Power(16, 2 * k)}
<1>1. 0 \in U
  <2>1. Power(256, 0) = 1 /\ Power(16, 0) = 1 /\ 2 * 0 = 0
    BY Powers
  <2> QED BY <2>1
<1>2. ASSUME NEW k \in 1..n, k - 1 \in U
      PROVE  k \in U
  <2>1. /\ k - 1 \in Nat /\ (k - 1) + 1 = k
        /\ 2 * (k - 1) \in Nat /\ 2 * (k - 1) + 1 \in Nat /\ (2 * (k - 1) + 1) + 1 = 2 * k
    OBVIOUS
  <2>2. Power(256, k) = 256 * Power(256, k - 1)
    BY <2>1, Powers
  <2>3. Power(16, 2 * (k - 1) + 1) = 16 * Power(16, 2 * (k - 1)) /\ Power(16, 2 * (k - 1)) \in Nat
    BY <2>1, Powers
  <2>4. Power(16, 2 * k) = 16 * Power(16, 2 * (k - 1) + 1)
    BY <2>1, Powers
  <2> QED BY <1>2, <2>1, <2>2, <2>3, <2>4
<1>3. \A i \in 0..n : i \in U
  <2> HIDE DEF U
  <2> QED BY <1>1, <1>2, Upwards
<1> QED BY <1>3

-----------------------------------------------------------------------------
(* Bytes and hexadecimal digits, converted into each other without loss *)

\* A function on 1..n is a sequence of length n.
LEMMA FunctionIsSequence ==
  ASSUME NEW S, NEW n \in Nat, NEW f \in [1..n -> S]
  PROVE  f \in Seq(S) /\ Len(f) = n
OBVIOUS

\* The elements of a sequence.
LEMMA ElementsOfSequence ==
  ASSUME NEW S, NEW s \in Seq(S)
  PROVE  Len(s) \in Nat /\ \A i \in 1..Len(s) : s[i] \in S
OBVIOUS

\* A byte is two nibbles: as hexStrFromBinaryStr takes it apart.
LEMMA NibblesOfByte ==
  ASSUME NEW x \in 0..255
  PROVE  x \div 16 \in 0..15 /\ x % 16 \in 0..15 /\ 16 * (x \div 16) + (x % 16) = x
OBVIOUS

\* Two nibbles are a byte: as binaryStrFromHexStr puts it together.
LEMMA ByteOfNibbles ==
  ASSUME NEW high \in 0..15, NEW low \in 0..15
  PROVE  /\ 16 * high + low \in 0..255
         /\ (16 * high + low) \div 16 = high
         /\ (16 * high + low) % 16 = low
OBVIOUS

\* Two digits for every byte: hexStrFromBinaryStr.
LEMMA HexOfBytes ==
  ASSUME NEW bytes \in Seq(Byte)
  PROVE  /\ hexStrFromBinaryStr(bytes) \in Seq(Nibble)
         /\ Len(hexStrFromBinaryStr(bytes)) = 2 * Len(bytes)
         /\ \A b \in 1..Len(bytes) :
              /\ hexStrFromBinaryStr(bytes)[2 * b - 1] = bytes[b] \div 16
              /\ hexStrFromBinaryStr(bytes)[2 * b] = bytes[b] % 16
<1> DEFINE n == Len(bytes)
           hex == hexStrFromBinaryStr(bytes)
<1>1. n \in Nat /\ \A b \in 1..n : bytes[b] \in 0..255
  BY ElementsOfSequence DEF Byte
<1>2. hex = [i \in 1..(2 * n) |->
               IF i % 2 = 1 THEN bytes[(i + 1) \div 2] \div 16 ELSE bytes[i \div 2] % 16]
  BY DEF hexStrFromBinaryStr
<1>3. \A i \in 1..(2 * n) : hex[i] \in 0..15
  <2> SUFFICES ASSUME NEW i \in 1..(2 * n)
               PROVE  hex[i] \in 0..15
    OBVIOUS
  <2>1. CASE i % 2 = 1
    <3>1. (i + 1) \div 2 \in 1..n
      BY <1>1, <2>1
    <3>2. hex[i] = bytes[(i + 1) \div 2] \div 16
      BY <1>2, <2>1
    <3>3. PICK x \in 0..255 : hex[i] = x \div 16
      BY <1>1, <3>1, <3>2
    <3> QED BY <3>3
  <2>2. CASE i % 2 # 1
    <3>1. i \div 2 \in 1..n
      BY <1>1, <2>2
    <3>2. hex[i] = bytes[i \div 2] % 16
      BY <1>2, <2>2
    <3>3. PICK x \in 0..255 : hex[i] = x % 16
      BY <1>1, <3>1, <3>2
    <3> QED BY <3>3
  <2> QED BY <2>1, <2>2
<1>4. hex \in [1..(2 * n) -> 0..15]
  BY <1>2, <1>3
<1>5. \A b \in 1..n : hex[2 * b - 1] = bytes[b] \div 16 /\ hex[2 * b] = bytes[b] % 16
  <2> SUFFICES ASSUME NEW b \in 1..n
               PROVE  hex[2 * b - 1] = bytes[b] \div 16 /\ hex[2 * b] = bytes[b] % 16
    OBVIOUS
  <2>1. 2 * b - 1 \in 1..(2 * n) /\ 2 * b \in 1..(2 * n)
    BY <1>1
  <2>2. (2 * b - 1) % 2 = 1 /\ (2 * b) % 2 = 0
    BY <1>1
  <2>3. (2 * b - 1 + 1) \div 2 = b /\ (2 * b) \div 2 = b
    BY <1>1
  <2> HIDE DEF hex
  <2> QED BY <1>2, <2>1, <2>2, <2>3
<1> HIDE DEF hex
<1>6. hex \in Seq(0..15) /\ Len(hex) = 2 * n
  <2>1. 2 * n \in Nat
    BY <1>1
  <2> QED BY <1>4, <2>1, FunctionIsSequence, SMTT(30)
<1> QED BY <1>5, <1>6 DEF Nibble, hex

\* An even number of digits is half as many bytes, whatever the sign.
LEMMA BytesOfEvenHex ==
  ASSUME NEW n \in Nat, NEW hex \in Seq(Nibble), Len(hex) = 2 * n, NEW isSigned \in BOOLEAN
  PROVE  binaryStrFromHexStr(hex, isSigned)
           = [b \in 1..n |-> 16 * hex[2 * b - 1] + hex[2 * b]]
<1>1. Len(hex) % 2 = 0 /\ (Len(hex) + 1) \div 2 = n
  OBVIOUS
<1> QED BY <1>1 DEF binaryStrFromHexStr

\* The bytes of a command or a response survive the way through hexadecimal
\* digits: binaryStrFromHexStr undoes hexStrFromBinaryStr.
THEOREM BytesSurvive ==
  ASSUME NEW bytes \in Seq(Byte), NEW isSigned \in BOOLEAN
  PROVE  binaryStrFromHexStr(hexStrFromBinaryStr(bytes), isSigned) = bytes
<1> DEFINE n == Len(bytes)
           hex == hexStrFromBinaryStr(bytes)
<1>1. n \in Nat /\ \A b \in 1..n : bytes[b] \in 0..255
  BY ElementsOfSequence DEF Byte
<1>2. binaryStrFromHexStr(hex, isSigned) = [b \in 1..n |-> 16 * hex[2 * b - 1] + hex[2 * b]]
  BY <1>1, HexOfBytes, BytesOfEvenHex
<1>3. \A b \in 1..n : 16 * hex[2 * b - 1] + hex[2 * b] = bytes[b]
  <2> SUFFICES ASSUME NEW b \in 1..n
               PROVE  16 * hex[2 * b - 1] + hex[2 * b] = bytes[b]
    OBVIOUS
  <2>1. hex[2 * b - 1] = bytes[b] \div 16 /\ hex[2 * b] = bytes[b] % 16
    BY HexOfBytes
  <2> HIDE DEF hex
  <2> QED BY <1>1, <2>1, NibblesOfByte
<1>4. bytes = [b \in 1..n |-> bytes[b]]
  OBVIOUS
<1> QED BY <1>2, <1>3, <1>4

\* The digits of a rendered binary command, of which there are two for each
\* byte, are the digits that its receiver finds in the bytes.
THEOREM EvenDigitsSurvive ==
  ASSUME NEW n \in Nat, NEW hex \in Seq(Nibble), Len(hex) = 2 * n, NEW isSigned \in BOOLEAN
  PROVE  hexStrFromBinaryStr(binaryStrFromHexStr(hex, isSigned)) = hex
<1> DEFINE bytes == [b \in 1..n |-> 16 * hex[2 * b - 1] + hex[2 * b]]
<1>1. \A i \in 1..(2 * n) : hex[i] \in 0..15
  BY ElementsOfSequence DEF Nibble
<1>2. \A b \in 1..n : bytes[b] \in 0..255 /\ bytes[b] = 16 * hex[2 * b - 1] + hex[2 * b]
  <2> SUFFICES ASSUME NEW b \in 1..n
               PROVE  16 * hex[2 * b - 1] + hex[2 * b] \in 0..255
    OBVIOUS
  <2>1. hex[2 * b - 1] \in 0..15 /\ hex[2 * b] \in 0..15
    BY <1>1
  <2> QED BY <2>1, ByteOfNibbles
<1>3. binaryStrFromHexStr(hex, isSigned) = bytes
  BY BytesOfEvenHex
<1> HIDE DEF bytes
<1>4. bytes \in Seq(Byte) /\ Len(bytes) = n
  <2>1. bytes \in [1..n -> 0..255]
    BY <1>2 DEF bytes
  <2> QED BY <2>1, FunctionIsSequence DEF Byte
<1> DEFINE back == hexStrFromBinaryStr(bytes)
<1>5. back \in Seq(Nibble) /\ Len(back) = 2 * n
  BY <1>4, HexOfBytes
<1>6. \A b \in 1..n : back[2 * b - 1] = hex[2 * b - 1] /\ back[2 * b] = hex[2 * b]
  <2> SUFFICES ASSUME NEW b \in 1..n
               PROVE  back[2 * b - 1] = hex[2 * b - 1] /\ back[2 * b] = hex[2 * b]
    OBVIOUS
  <2>1. hex[2 * b - 1] \in 0..15 /\ hex[2 * b] \in 0..15
    BY <1>1
  <2>2. back[2 * b - 1] = bytes[b] \div 16 /\ back[2 * b] = bytes[b] % 16
    BY <1>4, HexOfBytes
  <2> HIDE DEF back
  <2>3. bytes[b] \div 16 = hex[2 * b - 1] /\ bytes[b] % 16 = hex[2 * b]
    <3>1. PICK high \in 0..15, low \in 0..15 : high = hex[2 * b - 1] /\ low = hex[2 * b]
      BY <2>1
    <3>2. bytes[b] = 16 * high + low
      BY <1>2, <3>1
    <3>3. (16 * high + low) \div 16 = high /\ (16 * high + low) % 16 = low
      BY ByteOfNibbles
    <3> QED BY <3>1, <3>2, <3>3
  <2> QED BY <2>2, <2>3
<1> HIDE DEF back
<1>7. \A i \in 1..(2 * n) : back[i] = hex[i]
  <2> SUFFICES ASSUME NEW i \in 1..(2 * n)
               PROVE  back[i] = hex[i]
    OBVIOUS
  <2>1. PICK b \in 1..n : i = 2 * b - 1 \/ i = 2 * b
    <3>1. (i + 1) \div 2 \in 1..n
      OBVIOUS
    <3>2. i = 2 * ((i + 1) \div 2) - 1 \/ i = 2 * ((i + 1) \div 2)
      OBVIOUS
    <3> QED BY <3>1, <3>2
  <2> QED BY <1>6, <2>1
<1> QED BY <1>3, <1>5, <1>7 DEF back

-----------------------------------------------------------------------------
(* Digits and the numbers that they denote *)

\* A sequence of elements of a set is one of elements of a larger set.
LEMMA SequenceOfMore ==
  ASSUME NEW S, NEW T, S \subseteq T, NEW s \in Seq(S)
  PROVE  s \in Seq(T)
<1>1. Len(s) \in Nat /\ \A i \in 1..Len(s) : s[i] \in T
  BY ElementsOfSequence
<1>2. s = [i \in 1..Len(s) |-> s[i]]
  OBVIOUS
<1>3. [i \in 1..Len(s) |-> s[i]] \in [1..Len(s) -> T]
  BY <1>1
<1> QED BY <1>1, <1>2, <1>3, FunctionIsSequence

\* A sequence of digits is a concatenation, with as many digits on the left as wanted.
LEMMA TakenApart ==
  ASSUME NEW b \in Nat \ {0}, NEW s, IsDigits(s, b), NEW k \in 0..Len(s)
  PROVE  /\ IsDigits(SubSeq(s, 1, k), b) /\ Len(SubSeq(s, 1, k)) = k
         /\ IsDigits(SubSeq(s, k + 1, Len(s)), b) /\ Len(SubSeq(s, k + 1, Len(s))) = Len(s) - k
         /\ Magnitude(s, b) = Magnitude(SubSeq(s, 1, k), b) * Power(b, Len(s) - k)
                                + Magnitude(SubSeq(s, k + 1, Len(s)), b)
<1> DEFINE p == SubSeq(s, 1, k)
           q == SubSeq(s, k + 1, Len(s))
<1>1. s \in Seq(0..(b - 1))
  BY DEF IsDigits
<1>2. p \in Seq(0..(b - 1)) /\ Len(p) = k /\ q \in Seq(0..(b - 1)) /\ Len(q) = Len(s) - k /\ p \o q = s
  BY <1>1, SplitAt
<1> HIDE DEF p, q
<1>3. Magnitude(p \o q, b) = Magnitude(p, b) * Power(b, Len(q)) + Magnitude(q, b)
  BY <1>2, JoinedNumber DEF IsDigits
<1> QED BY <1>2, <1>3 DEF p, q, IsDigits

\* The first k digits are zeros exactly if the others are all there is.
LEMMA LeadingZeros ==
  ASSUME NEW b \in Nat \ {0}, NEW s, IsDigits(s, b), NEW k \in 0..Len(s)
  PROVE  /\ Magnitude(s, b) < Power(b, Len(s) - k) <=> \A i \in 1..k : s[i] = 0
         /\ (\A i \in 1..k : s[i] = 0) => Magnitude(s, b) = Magnitude(SubSeq(s, k + 1, Len(s)), b)
<1> DEFINE p == SubSeq(s, 1, k)
           q == SubSeq(s, k + 1, Len(s))
           P == Power(b, Len(s) - k)
<1>1. /\ IsDigits(p, b) /\ Len(p) = k /\ IsDigits(q, b) /\ Len(q) = Len(s) - k
      /\ Magnitude(s, b) = Magnitude(p, b) * P + Magnitude(q, b)
  BY TakenApart
<1>2. \A i \in 1..k : p[i] = s[i]
  <2>1. s \in Seq(0..(b - 1))
    BY DEF IsDigits
  <2> QED BY <2>1
<1> HIDE DEF p, q
<1>3. Magnitude(p, b) = 0 <=> \A i \in 1..k : s[i] = 0
  BY <1>1, <1>2, ZerosAreNothing
<1>4. Magnitude(p, b) \in Nat /\ Magnitude(q, b) \in Nat /\ Magnitude(q, b) < P
  BY <1>1, FirstDigit
<1>5. P \in Nat
  <2>1. Len(s) - k \in Nat
    BY DEF IsDigits
  <2> QED BY <2>1, Powers
<1>6. ASSUME Magnitude(p, b) # 0 PROVE Magnitude(s, b) >= P
  <2> HIDE DEF P
  <2>1. Magnitude(p, b) * P >= P
    BY <1>4, <1>5, <1>6
  <2> QED BY <1>1, <1>4, <1>5, <2>1
<1>7. ASSUME Magnitude(p, b) = 0 PROVE Magnitude(s, b) = Magnitude(q, b) /\ Magnitude(s, b) < P
  <2> HIDE DEF P
  <2> QED BY <1>1, <1>4, <1>5, <1>7
<1>8. Magnitude(s, b) \in Nat
  BY FirstDigit
<1> HIDE DEF P
<1> QED BY <1>3, <1>5, <1>6, <1>7, <1>8 DEF q, P

\* The first k digits are the last one of the base exactly if the number is that near to the end.
LEMMA LeadingLast ==
  ASSUME NEW b \in Nat \ {0}, NEW s, IsDigits(s, b), NEW k \in 0..Len(s)
  PROVE  /\ Magnitude(s, b) >= Power(b, Len(s)) - Power(b, Len(s) - k) <=> \A i \in 1..k : s[i] = b - 1
         /\ (\A i \in 1..k : s[i] = b - 1) =>
               Magnitude(s, b) = Magnitude(SubSeq(s, k + 1, Len(s)), b)
                                   + Power(b, Len(s)) - Power(b, Len(s) - k)
<1> DEFINE t == Lacking(s, b)
           q == SubSeq(s, k + 1, Len(s))
           P == Power(b, Len(s) - k)
           W == Power(b, Len(s))
<1>1. /\ IsDigits(t, b) /\ Len(t) = Len(s)
      /\ Magnitude(t, b) = W - 1 - Magnitude(s, b)
  BY LackingNumber
<1>2. s \in Seq(0..(b - 1)) /\ Len(s) \in Nat /\ Len(s) - k \in Nat
  BY DEF IsDigits
<1>3. \A i \in 1..k : t[i] = b - 1 - s[i] /\ s[i] \in 0..(b - 1)
  BY <1>2 DEF Lacking
<1>4. SubSeq(t, k + 1, Len(t)) = Lacking(q, b)
  BY <1>2 DEF Lacking
<1>5. IsDigits(q, b) /\ Len(q) = Len(s) - k
  BY TakenApart
<1>6. Magnitude(Lacking(q, b), b) = P - 1 - Magnitude(q, b)
  BY <1>5, LackingNumber
<1>7. /\ Magnitude(t, b) < P <=> \A i \in 1..k : t[i] = 0
      /\ (\A i \in 1..k : t[i] = 0) => Magnitude(t, b) = Magnitude(Lacking(q, b), b)
  <2>1. PICK r : r = SubSeq(t, k + 1, Len(t))
    OBVIOUS
  <2>2. k \in 0..Len(t) /\ IsDigits(t, b) /\ Len(t) = Len(s)
    BY <1>1
  <2> HIDE DEF t, q, P
  <2>3. /\ Magnitude(t, b) < Power(b, Len(t) - k) <=> \A i \in 1..k : t[i] = 0
        /\ (\A i \in 1..k : t[i] = 0) => Magnitude(t, b) = Magnitude(r, b)
    BY <2>1, <2>2, LeadingZeros
  <2>4. r = Lacking(q, b) /\ P = Power(b, Len(t) - k)
    BY <1>4, <2>1, <2>2, Zenon DEF P
  <2> QED BY <2>3, <2>4, Zenon
<1>8. (\A i \in 1..k : t[i] = 0) <=> \A i \in 1..k : s[i] = b - 1
  <2>1. \A i \in 1..k : t[i] = 0 <=> s[i] = b - 1
    <3> SUFFICES ASSUME NEW i \in 1..k PROVE t[i] = 0 <=> s[i] = b - 1
      OBVIOUS
    <3>1. t[i] = b - 1 - s[i] /\ s[i] \in 0..(b - 1)
      BY <1>3
    <3> HIDE DEF t
    <3> QED BY <3>1
  <2> QED BY <2>1
<1>9. P \in Nat /\ W \in Nat /\ Magnitude(s, b) \in Nat /\ Magnitude(q, b) \in Nat
  BY <1>2, <1>5, Powers, FirstDigit
<1> HIDE DEF t, P, W, q
<1>10. Magnitude(s, b) >= W - P <=> Magnitude(t, b) < P
  BY <1>1, <1>9
<1>11. ASSUME \A i \in 1..k : s[i] = b - 1
       PROVE  Magnitude(s, b) = Magnitude(q, b) + W - P
  <2>1. W - 1 - Magnitude(s, b) = P - 1 - Magnitude(q, b)
    BY <1>1, <1>6, <1>7, <1>8, <1>11
  <2> QED BY <1>9, <2>1
<1> QED BY <1>7, <1>8, <1>10, <1>11 DEF P, W, q

\* A digit in front.
LEMMA DigitInFront ==
  ASSUME NEW b \in Nat \ {0}, NEW d \in 0..(b - 1), NEW s, IsDigits(s, b)
  PROVE  /\ IsDigits(<<d>> \o s, b) /\ Len(<<d>> \o s) = Len(s) + 1
         /\ Magnitude(<<d>> \o s, b) = d * Power(b, Len(s)) + Magnitude(s, b)
<1>1. IsDigits(<<d>>, b) /\ s \in Seq(0..(b - 1)) /\ Len(<<d>>) = 1 /\ <<d>>[1] = d /\ <<d>> # <<>>
  BY DEF IsDigits
<1>2. Magnitude(<<d>>, b) = d
  <2>1. Power(b, 0) = 1
    BY Powers
  <2>2. d * Power(b, 0) <= Magnitude(<<d>>, b) /\ Magnitude(<<d>>, b) < (d + 1) * Power(b, 0)
    <3>1. Len(<<d>>) - 1 = 0
      BY <1>1
    <3> QED BY <1>1, <3>1, FirstDigit
  <2>3. Magnitude(<<d>>, b) \in Nat
    BY <1>1, FirstDigit
  <2> QED BY <2>1, <2>2, <2>3
<1>3. IsDigits(<<d>> \o s, b) /\ Magnitude(<<d>> \o s, b) = Magnitude(<<d>>, b) * Power(b, Len(s)) + Magnitude(s, b)
  BY <1>1, JoinedNumber
<1>4. Len(<<d>> \o s) = Len(s) + 1
  BY <1>1
<1> QED BY <1>2, <1>3, <1>4

-----------------------------------------------------------------------------
(* Hexadecimal digits and bytes *)

\* The digits of bytes denote the number that the bytes denote.
LEMMA SameNumber ==
  ASSUME NEW bytes \in Seq(Byte)
  PROVE  Magnitude(hexStrFromBinaryStr(bytes), 16) = Magnitude(bytes, 256)
<1> DEFINE n == Len(bytes)
           hex == hexStrFromBinaryStr(bytes)
<1>1. /\ n \in Nat /\ bytes \in Seq(Nat) /\ \A i \in 1..n : bytes[i] \in 0..255
      /\ hex \in Seq(Nat) /\ Len(hex) = 2 * n
  <2>1. hex \in Seq(Nibble) /\ Len(hex) = 2 * n
    BY HexOfBytes
  <2> HIDE DEF hex
  <2>2. hex \in Seq(Nat)
    <3>1. Nibble \subseteq Nat
      BY DEF Nibble
    <3> QED BY <2>1, <3>1, SequenceOfMore
  <2>3. n \in Nat /\ \A i \in 1..n : bytes[i] \in 0..255
    BY ElementsOfSequence DEF Byte
  <2>4. bytes \in Seq(Nat)
    <3>1. Byte \subseteq Nat
      BY DEF Byte
    <3> QED BY <3>1, SequenceOfMore
  <2> QED BY <2>1, <2>2, <2>3, <2>4
<1>2. \A i \in 1..n : hex[2 * i - 1] = bytes[i] \div 16 /\ hex[2 * i] = bytes[i] % 16
  BY HexOfBytes
<1> HIDE DEF hex
<1>3. PICK f : IsPrefixNumber(f, bytes, 256) /\ Magnitude(bytes, 256) = f[n]
  BY <1>1, NumbersExist
<1>4. PICK g : IsPrefixNumber(g, hex, 16) /\ Magnitude(hex, 16) = g[2 * n]
  <2>1. \E g : IsPrefixNumber(g, hex, 16) /\ Magnitude(hex, 16) = g[Len(hex)]
    BY <1>1, NumbersExist
  <2> QED BY <1>1, <2>1
<1>5. /\ \A i \in 0..n : f[i] \in Nat
      /\ \A i \in 0..(2 * n) : g[i] \in Nat
      /\ f[0] = 0 /\ g[0] = 0
      /\ \A i \in 1..n : f[i] = 256 * f[i - 1] + bytes[i]
      /\ \A i \in 1..(2 * n) : g[i] = 16 * g[i - 1] + hex[i]
  BY <1>1, <1>3, <1>4 DEF IsPrefixNumber
<1> HIDE DEF n
<1>6. \A i \in 0..n : g[2 * i] = f[i]
  <2> DEFINE U == {k \in 0..n : g[2 * k] = f[k]}
  <2>1. 0 \in U
    <3>1. 2 * 0 = 0
      OBVIOUS
    <3> QED BY <1>1, <1>5, <3>1
  <2>2. ASSUME NEW k \in 1..n, k - 1 \in U
        PROVE  k \in U
    <3>1. /\ 2 * k \in 1..(2 * n) /\ 2 * k - 1 \in 1..(2 * n) /\ (2 * k - 1) - 1 = 2 * (k - 1)
          /\ f[k - 1] \in Nat /\ bytes[k] \in 0..255
      <4>1. k \in Nat /\ k >= 1 /\ k <= n /\ k - 1 \in 0..n
        BY <1>1
      <4>2. f[k - 1] \in Nat /\ bytes[k] \in 0..255
        BY <1>1, <1>5, <4>1
      <4>3. 2 * k \in 1..(2 * n) /\ 2 * k - 1 \in 1..(2 * n) /\ (2 * k - 1) - 1 = 2 * (k - 1)
        BY <1>1, <4>1
      <4> QED BY <4>2, <4>3
    <3>2. g[2 * k] = 16 * g[2 * k - 1] + hex[2 * k]
      BY <1>5, <3>1
    <3>3. g[2 * k - 1] = 16 * g[2 * (k - 1)] + hex[2 * k - 1]
      BY <1>5, <3>1
    <3>4. g[2 * (k - 1)] = f[k - 1]
      BY <2>2
    <3>5. hex[2 * k - 1] = bytes[k] \div 16 /\ hex[2 * k] = bytes[k] % 16
      BY <1>2
    <3>6. /\ 16 * (bytes[k] \div 16) + (bytes[k] % 16) = bytes[k]
          /\ bytes[k] \div 16 \in 0..15 /\ bytes[k] % 16 \in 0..15
      <4>1. bytes[k] \in 0..255
        BY <3>1
      <4> HIDE DEF n
      <4> QED BY <4>1, NibblesOfByte
    <3>7. f[k] = 256 * f[k - 1] + bytes[k]
      BY <1>5
    <3>8. g[2 * k] = f[k]
      <4> DEFINE high == bytes[k] \div 16
                 low == bytes[k] % 16
      <4>1. high \in Int /\ low \in Int /\ f[k - 1] \in Int /\ 16 * high + low = bytes[k]
        BY <3>1, <3>6, SMTT(30)
      <4>2. g[2 * k] = 16 * (16 * f[k - 1] + high) + low /\ f[k] = 256 * f[k - 1] + bytes[k]
        BY <3>2, <3>3, <3>4, <3>5, <3>7
      <4> HIDE DEF high, low
      <4> QED BY <4>1, <4>2
    <3> QED BY <3>8
  <2>3. \A i \in 0..n : i \in U
    <3> HIDE DEF U
    <3> QED BY <1>1, <2>1, <2>2, Upwards
  <2> QED BY <2>3
<1>7. n \in 0..n
  BY <1>1
<1> QED BY <1>3, <1>4, <1>6, <1>7 DEF n, hex

\* Bytes and nibbles are digits.
LEMMA BytesAreDigits ==
  /\ \A s : s \in Seq(Byte) <=> IsDigits(s, 256)
  /\ \A s : s \in Seq(Nibble) <=> IsDigits(s, 16)
<1>1. 256 - 1 = 255 /\ 16 - 1 = 15
  OBVIOUS
<1> QED BY <1>1 DEF IsDigits, Byte, Nibble

\* Their numbers, and the powers that bound them.
LEMMA NumbersAreNatural ==
  /\ \A s \in Seq(Byte) : /\ Len(s) \in Nat /\ Power(256, Len(s)) \in Nat
                         /\ Magnitude(s, 256) \in Nat /\ Magnitude(s, 256) < Power(256, Len(s))
  /\ \A s \in Seq(Nibble) : /\ Len(s) \in Nat /\ Power(16, Len(s)) \in Nat
                           /\ Magnitude(s, 16) \in Nat /\ Magnitude(s, 16) < Power(16, Len(s))
<1>1. 256 \in Nat \ {0} /\ 16 \in Nat \ {0}
  OBVIOUS
<1>2. ASSUME NEW s \in Seq(Byte)
      PROVE  /\ Len(s) \in Nat /\ Power(256, Len(s)) \in Nat
             /\ Magnitude(s, 256) \in Nat /\ Magnitude(s, 256) < Power(256, Len(s))
  <2>1. Len(s) \in Nat /\ IsDigits(s, 256)
    BY BytesAreDigits
  <2> QED BY <1>1, <2>1, FirstDigit, PowersOfBases
<1>3. ASSUME NEW s \in Seq(Nibble)
      PROVE  /\ Len(s) \in Nat /\ Power(16, Len(s)) \in Nat
             /\ Magnitude(s, 16) \in Nat /\ Magnitude(s, 16) < Power(16, Len(s))
  <2>1. Len(s) \in Nat /\ IsDigits(s, 16)
    BY BytesAreDigits
  <2> QED BY <1>1, <2>1, FirstDigit, PowersOfBases
<1> QED BY <1>2, <1>3

\* As many digits as fill their bytes: the first of an odd number is extended.
Extended(hex, isSigned) ==
  IF Len(hex) % 2 = 0 THEN hex ELSE <<IF isSigned /\ hex[1] >= 8 THEN 15 ELSE 0>> \o hex

\* The digits that binaryStrFromHexStr packs.
LEMMA ExtendedDigits ==
  ASSUME NEW hex \in Seq(Nibble), hex # <<>>, NEW isSigned \in BOOLEAN
  PROVE  /\ Extended(hex, isSigned) \in Seq(Nibble)
         /\ Len(Extended(hex, isSigned)) = 2 * ((Len(hex) + 1) \div 2)
         /\ binaryStrFromHexStr(hex, isSigned)
              = binaryStrFromHexStr(Extended(hex, isSigned), isSigned)
<1> DEFINE n == Len(hex)
           d == IF isSigned /\ hex[1] >= 8 THEN 15 ELSE 0
           e == <<d>> \o hex
<1>1. n \in Nat /\ n # 0 /\ \A i \in 1..n : hex[i] \in 0..15
  <2>1. n \in Nat /\ \A i \in 1..n : hex[i] \in 0..15
    BY ElementsOfSequence DEF Nibble
  <2>2. n # 0
    OBVIOUS
  <2> QED BY <2>1, <2>2
<1>2. CASE n % 2 = 0
  <2>1. Extended(hex, isSigned) = hex
    BY <1>2 DEF Extended
  <2>2. 2 * ((n + 1) \div 2) = n
    BY <1>1, <1>2
  <2> QED BY <2>1, <2>2
<1>3. CASE n % 2 # 0
  <2>1. Extended(hex, isSigned) = e
    BY <1>3 DEF Extended
  <2>2. n % 2 = 1 /\ (n + 1) % 2 = 0 /\ 2 * ((n + 1) \div 2) = n + 1 /\ ((n + 1) + 1) \div 2 = (n + 1) \div 2
    BY <1>1, <1>3
  <2>3. e \in Seq(Nibble) /\ Len(e) = n + 1 /\ e[1] = d /\ \A i \in 1..n : e[i + 1] = hex[i]
    <3>1. d \in Nibble
      BY DEF Nibble
    <3>2. <<d>> \in Seq(Nibble) /\ Len(<<d>>) = 1 /\ <<d>>[1] = d
      BY <3>1
    <3> HIDE DEF d
    <3> QED BY <1>1, <3>2
  <2>4. PICK m \in Nat : (n + 1) \div 2 = m /\ n + 1 = 2 * m
    BY <1>1, <2>2
  <2>5. binaryStrFromHexStr(e, isSigned) = [b \in 1..m |-> 16 * e[2 * b - 1] + e[2 * b]]
    <3>1. Len(e) = 2 * m
      BY <2>3, <2>4
    <3> HIDE DEF e
    <3> QED BY <2>3, <3>1, BytesOfEvenHex
  <2> DEFINE first == IF isSigned /\ hex[1] >= 8 THEN 240 + hex[1] ELSE hex[1]
  <2>6. binaryStrFromHexStr(hex, isSigned)
          = [b \in 1..m |-> IF b = 1 THEN first ELSE 16 * hex[2 * b - 1 - 1] + hex[2 * b - 1]]
    BY <2>2, <2>4 DEF binaryStrFromHexStr
  <2>7. \A b \in 1..m : (IF b = 1 THEN first ELSE 16 * hex[2 * b - 1 - 1] + hex[2 * b - 1])
                          = 16 * e[2 * b - 1] + e[2 * b]
    <3> SUFFICES ASSUME NEW b \in 1..m
                 PROVE  (IF b = 1 THEN first ELSE 16 * hex[2 * b - 1 - 1] + hex[2 * b - 1])
                          = 16 * e[2 * b - 1] + e[2 * b]
      OBVIOUS
    <3>1. CASE b = 1
      <4>1. 1 \in 1..n /\ hex[1] \in 0..15
        BY <1>1
      <4>2. e[2] = hex[1]
        <5>1. e[1 + 1] = hex[1]
          BY <2>3, <4>1
        <5> QED BY <5>1
      <4>3. 16 * d + hex[1] = first
        BY <4>1
      <4> HIDE DEF e, d, first
      <4> QED BY <2>3, <3>1, <4>2, <4>3
    <3>2. CASE b # 1
      <4>1. /\ 2 * b - 2 \in 1..n /\ 2 * b - 1 \in 1..n
            /\ (2 * b - 2) + 1 = 2 * b - 1 /\ (2 * b - 1) + 1 = 2 * b /\ 2 * b - 1 - 1 = 2 * b - 2
        BY <1>1, <2>4, <3>2
      <4>2. e[(2 * b - 2) + 1] = hex[2 * b - 2] /\ e[(2 * b - 1) + 1] = hex[2 * b - 1]
        BY <2>3, <4>1
      <4>3. e[2 * b - 1] = hex[2 * b - 1 - 1] /\ e[2 * b] = hex[2 * b - 1]
        BY <4>1, <4>2
      <4> HIDE DEF e
      <4> QED BY <3>2, <4>3
    <3> QED BY <3>1, <3>2
  <2> HIDE DEF e, first
  <2> QED BY <2>1, <2>2, <2>3, <2>5, <2>6, <2>7
<1> QED BY <1>2, <1>3

\* The number of digits, in the two's complement of their base.
SignedNumber(s, b) ==
  Magnitude(s, b) - (IF s # <<>> /\ s[1] >= b \div 2 THEN Power(b, Len(s)) ELSE 0)

\* Bytes with the number of the digits.
IsPackedNumber(hex, isSigned, bytes) ==
  /\ bytes \in Seq(Byte) /\ Len(bytes) = (Len(hex) + 1) \div 2 /\ bytes # <<>>
  /\ NumberOf(hex, isSigned)
       = IF isSigned THEN SignedNumber(bytes, 256) ELSE Magnitude(bytes, 256)

\* Hexadecimal digits and the bytes they are packed into denote the same number.
LEMMA PackedNumber ==
  ASSUME NEW hex \in Seq(Nibble), hex # <<>>, NEW isSigned \in BOOLEAN,
         NEW bytes, bytes = binaryStrFromHexStr(hex, isSigned)
  PROVE  IsPackedNumber(hex, isSigned, bytes)
<1> SUFFICES /\ bytes \in Seq(Byte) /\ Len(bytes) = (Len(hex) + 1) \div 2 /\ bytes # <<>>
             /\ NumberOf(hex, isSigned)
                  = IF isSigned THEN SignedNumber(bytes, 256) ELSE Magnitude(bytes, 256)
  BY DEF IsPackedNumber
<1> DEFINE n == Len(hex)
           e == Extended(hex, isSigned)
           m == (n + 1) \div 2
<1>1. n \in Nat /\ n # 0 /\ m \in Nat /\ m # 0 /\ \A i \in 1..n : hex[i] \in 0..15
  <2>1. n \in Nat /\ \A i \in 1..n : hex[i] \in 0..15
    BY ElementsOfSequence DEF Nibble
  <2>2. n # 0
    OBVIOUS
  <2> QED BY <2>1, <2>2
<1>2. e \in Seq(Nibble) /\ Len(e) = 2 * m /\ bytes = binaryStrFromHexStr(e, isSigned)
  BY ExtendedDigits
<1>3. bytes = [b \in 1..m |-> 16 * e[2 * b - 1] + e[2 * b]]
  <2> HIDE DEF e, m
  <2> QED BY <1>1, <1>2, BytesOfEvenHex
<1>4. \A i \in 1..(2 * m) : e[i] \in 0..15
  <2> HIDE DEF e
  <2> QED BY <1>2, ElementsOfSequence DEF Nibble
<1> HIDE DEF e, m
<1>5. bytes \in Seq(Byte) /\ Len(bytes) = m /\ bytes # <<>>
  <2>1. \A b \in 1..m : 16 * e[2 * b - 1] + e[2 * b] \in 0..255
    <3> SUFFICES ASSUME NEW b \in 1..m PROVE 16 * e[2 * b - 1] + e[2 * b] \in 0..255
      OBVIOUS
    <3>1. 2 * b - 1 \in 1..(2 * m) /\ 2 * b \in 1..(2 * m)
      BY <1>1
    <3>2. e[2 * b - 1] \in 0..15 /\ e[2 * b] \in 0..15
      BY <1>4, <3>1
    <3>3. PICK high \in 0..15, low \in 0..15 : high = e[2 * b - 1] /\ low = e[2 * b]
      BY <3>2
    <3>4. 16 * high + low \in 0..255
      OBVIOUS
    <3> QED BY <3>3, <3>4
  <2>2. bytes \in [1..m -> Byte]
    <3> DEFINE byte(b) == 16 * e[2 * b - 1] + e[2 * b]
    <3>1. bytes = [b \in 1..m |-> byte(b)] /\ \A b \in 1..m : byte(b) \in Byte
      BY <1>3, <2>1 DEF Byte
    <3> HIDE DEF byte
    <3> QED BY <3>1
  <2>3. bytes \in Seq(Byte) /\ Len(bytes) = m
    BY <1>1, <2>2, FunctionIsSequence
  <2> QED BY <1>1, <2>3
<1>6. Magnitude(bytes, 256) = Magnitude(e, 16)
  <2>1. hexStrFromBinaryStr(bytes) = e
    BY <1>1, <1>2, EvenDigitsSurvive
  <2> QED BY <1>5, <2>1, SameNumber
<1>7. bytes[1] >= 256 \div 2 <=> e[1] >= 8
  <2>1. 1 \in 1..m /\ 1 \in 1..(2 * m) /\ 2 \in 1..(2 * m)
    BY <1>1
  <2>2. e[1] \in 0..15 /\ e[2] \in 0..15
    BY <1>4, <2>1
  <2>3. bytes[1] = 16 * e[1] + e[2]
    <3>1. 2 * 1 - 1 = 1 /\ 2 * 1 = 2
      OBVIOUS
    <3> QED BY <1>3, <2>1, <3>1
  <2>4. PICK x \in 0..15, y \in 0..15 : x = e[1] /\ y = e[2]
    BY <2>2
  <2>5. 256 \div 2 = 128 /\ (16 * x + y >= 128 <=> x >= 8)
    OBVIOUS
  <2> QED BY <2>3, <2>4, <2>5
<1>8. Power(256, m) = Power(16, 2 * m)
  BY <1>1, TwoDigitsPerByte
<1>9. SignedNumber(bytes, 256) = Magnitude(e, 16) - (IF e[1] >= 8 THEN Power(16, 2 * m) ELSE 0)
  BY <1>5, <1>6, <1>7, <1>8 DEF SignedNumber
<1>10. CASE n % 2 = 0
  <2>1. e = hex /\ 2 * m = n
    BY <1>1, <1>10 DEF e, m, Extended
  <2>2. NumberOf(hex, isSigned) = Magnitude(hex, 16) - (IF isSigned /\ hex[1] >= 8 THEN Power(16, n) ELSE 0)
    BY DEF NumberOf
  <2>3. Magnitude(hex, 16) \in Nat
    BY BytesAreDigits, FirstDigit
  <2> QED BY <1>5, <1>6, <1>9, <2>1, <2>2, <2>3 DEF m
<1>11. CASE n % 2 # 0
  <2> DEFINE d == IF isSigned /\ hex[1] >= 8 THEN 15 ELSE 0
  <2>1. e = <<d>> \o hex /\ 2 * m = n + 1
    <3>1. e = <<d>> \o hex
      BY <1>11 DEF e, Extended
    <3>2. n % 2 = 1
      BY <1>1, <1>11
    <3>3. 2 * m = n + 1
      BY <1>1, <3>2 DEF m
    <3> QED BY <3>1, <3>3
  <2>2. d \in 0..15 /\ IsDigits(hex, 16)
    BY BytesAreDigits
  <2>3. Magnitude(e, 16) = d * Power(16, n) + Magnitude(hex, 16)
    <3> HIDE DEF d
    <3>1. d \in 0..(16 - 1)
      BY <2>2
    <3> QED BY <2>1, <2>2, <3>1, DigitInFront
  <2>4. Power(16, 2 * m) = 16 * Power(16, n) /\ Power(16, n) \in Nat /\ Magnitude(hex, 16) \in Nat
    BY <1>1, <2>1, <2>2, Powers, FirstDigit
  <2>5. e[1] = d
    BY <2>1, <2>2
  <2>6. NumberOf(hex, isSigned) = Magnitude(hex, 16) - (IF isSigned /\ hex[1] >= 8 THEN Power(16, n) ELSE 0)
    BY DEF NumberOf
  <2>7. hex[1] \in 0..15
    BY <1>1
  <2>8. CASE isSigned /\ hex[1] >= 8
    <3>1. d = 15
      BY <2>8
    <3>2. 15 >= 8
      OBVIOUS
    <3> DEFINE P == Power(16, n)
               M == Magnitude(hex, 16)
    <3>3. SignedNumber(bytes, 256) = (15 * P + M) - 16 * P /\ NumberOf(hex, isSigned) = M - P
      <4> HIDE DEF d
      <4> QED BY <1>9, <2>3, <2>4, <2>5, <2>6, <2>8, <3>1, <3>2
    <3>4. (15 * P + M) - 16 * P = M - P
      <4>1. P \in Nat /\ M \in Nat
        BY <2>4
      <4> HIDE DEF P, M
      <4> QED BY <4>1
    <3> QED BY <1>5, <2>8, <3>3, <3>4 DEF m
  <2>9. CASE ~(isSigned /\ hex[1] >= 8)
    <3>1. d = 0
      BY <2>9
    <3> HIDE DEF d
    <3> QED BY <1>5, <1>6, <1>9, <2>3, <2>4, <2>5, <2>6, <2>9, <3>1 DEF m
  <2> QED BY <2>8, <2>9
<1> QED BY <1>10, <1>11

-----------------------------------------------------------------------------
(* Bytes that are read: intFromBinaryStr and toUserTypeHexInt *)

\* Half of the integers of n bytes.
LEMMA HalfOfRange ==
  ASSUME NEW n \in Nat \ {0}
  PROVE  /\ Power(256, n) \div 2 \in Nat \ {0}
         /\ Power(256, n) = 2 * (Power(256, n) \div 2)
         /\ Power(256, n) \div 2 = 128 * Power(256, n - 1)
<1>1. n - 1 \in Nat /\ (n - 1) + 1 = n
  OBVIOUS
<1>2. Power(256, n) = 256 * Power(256, n - 1) /\ Power(256, n - 1) \in Nat \ {0}
  BY <1>1, Powers
<1>3. \A P \in Nat \ {0} : (256 * P) \div 2 = 128 * P /\ 128 * P \in Nat \ {0} /\ 256 * P = 2 * (128 * P)
  OBVIOUS
<1> QED BY <1>2, <1>3

\* The same, by name.
HasHalves(n) ==
  /\ Power(256, n) \div 2 \in Nat \ {0}
  /\ Power(256, n) = 2 * (Power(256, n) \div 2)
  /\ Power(256, n) \div 2 = 128 * Power(256, n - 1)

\* All ranges have halves.
LEMMA HalvesOfRanges == \A n \in Nat \ {0} : HasHalves(n)
BY HalfOfRange DEF HasHalves

\* Too many bytes: one that is no packing in front of those that fit.
LEMMA TooManyBytes ==
  ASSUME NEW bytes \in Seq(Byte), NEW positive \in BOOLEAN, NEW n \in Nat \ {0}
  PROVE  getStrNaturalByteWidth(bytes, positive) > n
           <=> \E i \in 1..(Len(bytes) - n) : bytes[i] # (IF positive THEN 0 ELSE 255)
<1> DEFINE pad == IF positive THEN 0 ELSE 255
           kept == {i \in DOMAIN bytes : bytes[i] # pad}
           least == CHOOSE i \in kept : \A j \in kept : i <= j
<1>1. Len(bytes) \in Nat /\ kept \subseteq 1..Len(bytes)
  OBVIOUS
<1>2. getStrNaturalByteWidth(bytes, positive) = IF kept = {} THEN 1 ELSE Len(bytes) + 1 - least
  BY DEF getStrNaturalByteWidth
<1>3. \A i \in 1..(Len(bytes) - n) : i \in DOMAIN bytes
  BY <1>1
<1>4. CASE kept = {}
  <2>1. ~(1 > n)
    OBVIOUS
  <2>2. \A i \in 1..(Len(bytes) - n) : bytes[i] = pad
    BY <1>3, <1>4
  <2> QED BY <1>2, <1>4, <2>1, <2>2
<1>5. CASE kept # {}
  <2>1. \E i \in kept : \A j \in kept : i <= j
    <3>1. kept \subseteq Nat
      BY <1>1
    <3> HIDE DEF kept
    <3> QED BY <1>5, <3>1, MinOfNats
  <2>2. least \in kept /\ \A j \in kept : least <= j
    <3> HIDE DEF kept
    <3> QED BY <2>1
  <2>3. least \in 1..Len(bytes) /\ bytes[least] # pad
    <3> HIDE DEF least
    <3> QED BY <1>1, <2>2
  <2> HIDE DEF least
  <2>4. Len(bytes) + 1 - least > n <=> least <= Len(bytes) - n
    BY <1>1, <2>3
  <2>5. ASSUME NEW i \in 1..(Len(bytes) - n), bytes[i] # pad
        PROVE  least <= Len(bytes) - n
    <3>1. i \in kept
      BY <1>3, <2>5
    <3>2. least <= i /\ i <= Len(bytes) - n
      BY <2>2, <3>1
    <3> QED BY <1>1, <2>3, <3>2
  <2>6. least <= Len(bytes) - n => least \in 1..(Len(bytes) - n)
    BY <1>1, <2>3
  <2> HIDE DEF kept
  <2> QED BY <1>2, <1>5, <2>3, <2>4, <2>5, <2>6
<1> QED BY <1>4, <1>5

IsIntegerType(type) == type.bytes \in Nat \ {0} /\ type.signed \in BOOLEAN

\* The integers with the bits of a value that a type has.
LEMMA AsSignedIsTyped ==
  ASSUME NEW type, IsIntegerType(type), NEW value \in Int
  PROVE  AsSigned(value, type, type.signed) \in ValuesOf(type)
<1> DEFINE N == Power(256, type.bytes)
           H == N \div 2
           bits == value % N
<1>1. H \in Nat \ {0} /\ N = 2 * H
  <2>1. type.bytes \in Nat \ {0}
    BY DEF IsIntegerType
  <2> QED BY <2>1, HalfOfRange
<1>2. bits \in 0..(N - 1)
  <2> HIDE DEF H, N
  <2> QED BY <1>1
<1>3. type.signed \in BOOLEAN
  BY DEF IsIntegerType
<1>4. AsSigned(value, type, type.signed) = IF type.signed /\ bits >= H THEN bits - N ELSE bits
  BY DEF AsSigned
<1>5. ValuesOf(type) = IF type.signed THEN -H..(H - 1) ELSE 0..(N - 1)
  BY DEF ValuesOf
<1> HIDE DEF bits, H, N
<1> QED BY <1>1, <1>2, <1>3, <1>4, <1>5

\* The packed bytes of intFromBinaryStr.
Packed(bytes, type) ==
  [i \in 1..type.bytes |->
     IF i > type.bytes - Len(bytes) THEN bytes[i - (type.bytes - Len(bytes))]
     ELSE IF IsNegative(bytes, type) THEN 255 ELSE 0]

\* What bytes denote for a type: in two's complement if it is signed.
NumberFor(bytes, type) == IF type.signed THEN SignedNumber(bytes, 256) ELSE Magnitude(bytes, 256)

\* Is there a byte that is no packing, beyond those of the type?
IsTooLong(bytes, type) ==
  \E i \in 1..(Len(bytes) - type.bytes) : bytes[i] # (IF IsNegative(bytes, type) THEN 255 ELSE 0)

\* What intFromBinaryStr returns.
LEMMA IntOfBytes ==
  ASSUME NEW type, IsIntegerType(type), NEW bytes \in Seq(Byte), bytes # <<>>
  PROVE  /\ intFromBinaryStr(bytes, type)
              = IF IsTooLong(bytes, type) THEN {} ELSE {AsSigned(Magnitude(Packed(bytes, type), 256), type, type.signed)}
         /\ Packed(bytes, type) \in Seq(Byte) /\ Len(Packed(bytes, type)) = type.bytes
<1> DEFINE neg == IsNegative(bytes, type)
           pad == IF neg THEN 255 ELSE 0
           k == type.bytes
<1>1. k \in Nat \ {0} /\ type.signed \in BOOLEAN /\ neg \in BOOLEAN
  BY DEF IsIntegerType, IsNegative
<1>2. getStrNaturalByteWidth(bytes, ~neg) > k <=> \E i \in 1..(Len(bytes) - k) : bytes[i] # pad
  <2> DEFINE positive == ~neg
  <2>1. positive \in BOOLEAN /\ (IF positive THEN 0 ELSE 255) = pad
    BY <1>1
  <2> HIDE DEF positive, neg, k
  <2>2. getStrNaturalByteWidth(bytes, positive) > k
          <=> \E i \in 1..(Len(bytes) - k) : bytes[i] # (IF positive THEN 0 ELSE 255)
    BY <1>1, <2>1, TooManyBytes
  <2> QED BY <2>1, <2>2 DEF positive
<1>3. intFromBinaryStr(bytes, type)
        = IF getStrNaturalByteWidth(bytes, ~neg) > k THEN {}
          ELSE {AsSigned(Magnitude(Packed(bytes, type), 256), type, type.signed)}
  BY DEF intFromBinaryStr, Packed
<1>4. Packed(bytes, type) \in Seq(Byte) /\ Len(Packed(bytes, type)) = k
  <2>1. pad \in Byte
    BY DEF Byte
  <2>2. Len(bytes) \in Nat /\ \A i \in 1..Len(bytes) : bytes[i] \in Byte
    BY ElementsOfSequence
  <2> HIDE DEF pad
  <2>3. Packed(bytes, type) \in [1..k -> Byte]
    <3>1. Packed(bytes, type) = [i \in 1..k |-> IF i > k - Len(bytes) THEN bytes[i - (k - Len(bytes))] ELSE pad]
      BY DEF Packed, pad
    <3>2. ASSUME NEW i \in 1..k
          PROVE  (IF i > k - Len(bytes) THEN bytes[i - (k - Len(bytes))] ELSE pad) \in Byte
      <4>1. i > k - Len(bytes) => i - (k - Len(bytes)) \in 1..Len(bytes)
        BY <1>1, <2>2
      <4> QED BY <2>1, <2>2, <4>1
    <3> HIDE DEF k
    <3> QED BY <3>1, <3>2
  <2> QED BY <1>1, <2>3, FunctionIsSequence
<1>5. getStrNaturalByteWidth(bytes, ~neg) > k <=> IsTooLong(bytes, type)
  BY <1>2, Zenon DEF IsTooLong
<1> HIDE DEF neg, k
<1>6. intFromBinaryStr(bytes, type)
        = IF IsTooLong(bytes, type) THEN {} ELSE {AsSigned(Magnitude(Packed(bytes, type), 256), type, type.signed)}
  BY <1>3, <1>5, Zenon
<1> QED BY <1>4, <1>6 DEF k

\* The bytes of a type denote the value with these bits.
LEMMA ValueOfBytes ==
  ASSUME NEW type, IsIntegerType(type), NEW bytes \in Seq(Byte), Len(bytes) = type.bytes
  PROVE  AsSigned(Magnitude(bytes, 256), type, type.signed) = NumberFor(bytes, type)
<1> DEFINE N == Power(256, type.bytes)
           H == N \div 2
           M == Magnitude(bytes, 256)
           k == type.bytes
           P == Power(256, k - 1)
<1>1. k \in Nat \ {0} /\ k - 1 \in Nat /\ type.signed \in BOOLEAN /\ Len(bytes) = k
  BY DEF IsIntegerType
<1>2. H \in Nat \ {0} /\ N = 2 * H /\ H = 128 * P /\ P \in Nat \ {0}
  <2>1. H \in Nat \ {0} /\ N = 2 * H /\ H = 128 * P
    <3>1. type.bytes \in Nat \ {0}
      BY <1>1
    <3>2. HasHalves(type.bytes)
      BY <3>1, HalvesOfRanges
    <3> QED BY <1>1, <3>2 DEF HasHalves
  <2>2. P \in Nat \ {0}
    BY <1>1, PowersOfBases
  <2> QED BY <2>1, <2>2
<1>3. bytes # <<>> /\ bytes[1] \in 0..255
  <2>1. \A i \in 1..k : bytes[i] \in 0..255
    BY <1>1, ElementsOfSequence DEF Byte
  <2>2. bytes # <<>> /\ 1 \in 1..k
    BY <1>1
  <2> QED BY <2>1, <2>2
<1>4. M \in Nat /\ M < N /\ bytes[1] * P <= M /\ M < (bytes[1] + 1) * P
  BY <1>1, <1>3, BytesAreDigits, FirstDigit
<1>5. AsSigned(M, type, type.signed) = IF type.signed /\ M % N >= H THEN (M % N) - N ELSE M % N
  BY DEF AsSigned
<1>6. NumberFor(bytes, type) = IF type.signed THEN M - (IF bytes[1] >= 128 THEN N ELSE 0) ELSE M
  <2>1. 256 \div 2 = 128
    OBVIOUS
  <2> QED BY <1>1, <1>3, <2>1 DEF NumberFor, SignedNumber
<1> HIDE DEF N, H, M, P, k
<1>7. M % N = M
  BY <1>2, <1>4
<1>8. M >= H <=> bytes[1] >= 128
  <2>1. \A d \in 0..255 : d * P <= M /\ M < (d + 1) * P => (M >= 128 * P <=> d >= 128)
    <3> SUFFICES ASSUME NEW d \in 0..255, d * P <= M, M < (d + 1) * P
                 PROVE  M >= 128 * P <=> d >= 128
      OBVIOUS
    <3>1. d >= 128 => d * P >= 128 * P
      BY <1>2
    <3>2. d < 128 => (d + 1) * P <= 128 * P
      BY <1>2
    <3>3. d * P \in Int /\ (d + 1) * P \in Int /\ 128 * P \in Int
      BY <1>2
    <3> QED BY <1>4, <3>1, <3>2, <3>3
  <2> QED BY <1>2, <1>3, <1>4, <2>1
<1>9. M - 0 = M
  BY <1>4
<1> QED BY <1>1, <1>5, <1>6, <1>7, <1>8, <1>9 DEF M

\* What is read is a value of the type.
LEMMA IntIsTyped ==
  ASSUME NEW type, IsIntegerType(type), NEW bytes \in Seq(Byte)
  PROVE  intFromBinaryStr(bytes, type) \subseteq ValuesOf(type)
<1>1. CASE bytes = <<>>
  <2>1. intFromBinaryStr(bytes, type) = {0}
    BY <1>1 DEF intFromBinaryStr
  <2>2. 0 \in ValuesOf(type)
    <3> DEFINE N == Power(256, type.bytes)
               H == N \div 2
    <3>1. H \in Nat \ {0} /\ N = 2 * H
      <4>1. type.bytes \in Nat \ {0}
        BY DEF IsIntegerType
      <4>2. HasHalves(type.bytes)
        BY <4>1, HalvesOfRanges
      <4> QED BY <4>2 DEF HasHalves
    <3>2. ValuesOf(type) = IF type.signed THEN -H..(H - 1) ELSE 0..(N - 1)
      BY DEF ValuesOf
    <3> HIDE DEF H, N
    <3> QED BY <3>1, <3>2
  <2> QED BY <2>1, <2>2
<1>2. CASE bytes # <<>>
  <2>1. Magnitude(Packed(bytes, type), 256) \in Int
    <3>1. Magnitude(Packed(bytes, type), 256) \in Nat
      BY <1>2, IntOfBytes, BytesAreDigits, FirstDigit
    <3> QED BY <3>1
  <2>2. AsSigned(Magnitude(Packed(bytes, type), 256), type, type.signed) \in ValuesOf(type)
    BY <2>1, AsSignedIsTyped
  <2> QED BY <1>2, <2>2, IntOfBytes
<1> QED BY <1>1, <1>2

\* As many bytes as the type has, or fewer, are read exactly.
LEMMA IntIsExact ==
  ASSUME NEW type, IsIntegerType(type), NEW bytes \in Seq(Byte), bytes # <<>>,
         Len(bytes) <= type.bytes
  PROVE  intFromBinaryStr(bytes, type) = {NumberFor(bytes, type)}
<1> DEFINE tb == type.bytes
           n == Len(bytes)
           k == tb - n
           neg == IsNegative(bytes, type)
           pad == IF neg THEN 255 ELSE 0
           packed == Packed(bytes, type)
<1>1. /\ tb \in Nat \ {0} /\ n \in Nat \ {0} /\ k \in 0..tb /\ n <= tb
      /\ type.signed \in BOOLEAN /\ \A i \in 1..n : bytes[i] \in 0..255
  <2>1. n \in Nat /\ \A i \in 1..n : bytes[i] \in 0..255
    BY ElementsOfSequence DEF Byte
  <2>2. n # 0
    OBVIOUS
  <2>3. tb \in Nat \ {0} /\ type.signed \in BOOLEAN
    BY DEF IsIntegerType
  <2> QED BY <2>1, <2>2, <2>3
<1>2. packed \in Seq(Byte) /\ Len(packed) = tb
  BY IntOfBytes
<1>3. intFromBinaryStr(bytes, type) = {AsSigned(Magnitude(packed, 256), type, type.signed)}
  <2>1. ~IsTooLong(bytes, type)
    BY <1>1 DEF IsTooLong
  <2> HIDE DEF packed
  <2> QED BY <2>1, IntOfBytes DEF packed
<1>4. AsSigned(Magnitude(packed, 256), type, type.signed) = NumberFor(packed, type)
  <2> HIDE DEF packed
  <2> QED BY <1>2, ValueOfBytes
<1>5. packed = [i \in 1..tb |-> IF i > k THEN bytes[i - k] ELSE pad]
  BY DEF Packed
<1>6. (\A i \in 1..k : packed[i] = pad) /\ (\A i \in 1..n : packed[k + i] = bytes[i])
  <2> HIDE DEF packed, pad, k, tb, n
  <2>1. ASSUME NEW i \in 1..k PROVE packed[i] = pad
    <3>1. i \in 1..tb /\ ~(i > k)
      BY <1>1
    <3> QED BY <1>5, <3>1
  <2>2. ASSUME NEW i \in 1..n PROVE packed[k + i] = bytes[i]
    <3>1. k + i \in 1..tb /\ k + i > k /\ (k + i) - k = i
      BY <1>1 DEF k
    <3> QED BY <1>5, <3>1
  <2> QED BY <2>1, <2>2
<1>7. SubSeq(packed, k + 1, Len(packed)) = bytes
  <2>1. SubSeq(packed, k + 1, tb) = [i \in 1..(tb - k) |-> packed[k + i]]
    <3> HIDE DEF packed, k, tb
    <3>1. tb \in Nat /\ k \in 0..tb
      BY <1>1
    <3> QED BY <1>2, <3>1
  <2>2. tb - k = n
    BY <1>1
  <2>3. bytes = [i \in 1..n |-> bytes[i]]
    OBVIOUS
  <2> HIDE DEF packed, k, tb, n
  <2> QED BY <1>2, <1>6, <2>1, <2>2, <2>3
<1>8. Magnitude(packed, 256)
        = Magnitude(bytes, 256) + (IF pad = 255 THEN Power(256, tb) - Power(256, n) ELSE 0)
  <2>0. Magnitude(bytes, 256) \in Nat
    BY NumbersAreNatural
  <2>1. pad \in {0, 255} /\ k \in 0..Len(packed) /\ \A i \in 1..k : packed[i] = pad
    BY <1>1, <1>2, <1>6
  <2> HIDE DEF packed, k, pad
  <2>2. IsDigits(packed, 256)
    BY <1>2, BytesAreDigits
  <2>3. CASE pad = 0
    <3>1. Magnitude(packed, 256) = Magnitude(SubSeq(packed, k + 1, Len(packed)), 256)
      BY <2>1, <2>2, <2>3, LeadingZeros
    <3>2. Magnitude(packed, 256) = Magnitude(bytes, 256)
      BY <1>7, <3>1, Zenon
    <3> HIDE DEF tb, n
    <3> QED BY <2>0, <2>3, <3>2
  <2>4. CASE pad = 255
    <3>1. \A i \in 1..k : packed[i] = 256 - 1
      BY <2>1, <2>4
    <3>2. Magnitude(packed, 256) = Magnitude(SubSeq(packed, k + 1, Len(packed)), 256)
                                     + Power(256, Len(packed)) - Power(256, Len(packed) - k)
      BY <2>1, <2>2, <3>1, LeadingLast
    <3>3. Len(packed) = tb /\ tb - k = n /\ Power(256, tb) \in Nat /\ Power(256, n) \in Nat
      <4> HIDE DEF tb, n
      <4>1. tb \in Nat /\ n \in Nat /\ Len(packed) = tb
        BY <1>1, <1>2
      <4>2. tb - k = n
        BY <4>1 DEF k
      <4> QED BY <4>1, <4>2, PowersOfBases
    <3>4. Magnitude(packed, 256) = Magnitude(bytes, 256) + Power(256, tb) - Power(256, n)
      <4>1. Magnitude(SubSeq(packed, k + 1, Len(packed)), 256) = Magnitude(bytes, 256)
        BY <1>7, Zenon
      <4> DEFINE R == Magnitude(SubSeq(packed, k + 1, Len(packed)), 256)
      <4>2. Magnitude(packed, 256) = R + Power(256, Len(packed)) - Power(256, Len(packed) - k) /\ R = Magnitude(bytes, 256)
        BY <3>2, <4>1
      <4> HIDE DEF R, tb, n
      <4> QED BY <3>3, <4>2
    <3> HIDE DEF tb, n
    <3> QED BY <2>0, <2>4, <3>3, <3>4
  <2> QED BY <2>1, <2>3, <2>4
<1>9. Magnitude(bytes, 256) \in Nat /\ Power(256, tb) \in Nat /\ Power(256, n) \in Nat
  <2>1. Power(256, tb) \in Nat
    <3>1. \A j \in Nat : Power(256, j) \in Nat
      BY PowersOfBases
    <3>2. tb \in Nat
      BY <1>1
    <3> HIDE DEF tb
    <3> QED BY <3>1, <3>2
  <2>2. Magnitude(bytes, 256) \in Nat /\ Power(256, n) \in Nat
    BY NumbersAreNatural
  <2> QED BY <2>1, <2>2
<1>10. CASE ~type.signed
  <2>1. pad = 0
    BY <1>10 DEF IsNegative
  <2> HIDE DEF packed, tb, n, pad
  <2>2. Magnitude(packed, 256) = Magnitude(bytes, 256)
    BY <1>8, <1>9, <2>1
  <2> QED BY <1>3, <1>4, <1>10, <2>2 DEF NumberFor
<1>11. CASE type.signed
  <2>1. neg <=> bytes[1] >= 128
    BY <1>11 DEF IsNegative
  <2>2. packed # <<>> /\ (packed[1] >= 128 <=> neg)
    <3>1. packed # <<>>
      BY <1>1, <1>2
    <3>2. CASE k = 0
      <4>1. packed[1] = bytes[1]
        <5>1. 1 \in 1..n /\ k + 1 = 1
          BY <1>1, <3>2
        <5> HIDE DEF packed, k, n
        <5> QED BY <1>6, <5>1
      <4> QED BY <2>1, <3>1, <4>1
    <3>3. CASE k # 0
      <4>1. 1 \in 1..k
        BY <1>1, <3>3
      <4>2. packed[1] = pad
        <5> HIDE DEF packed, k, pad
        <5> QED BY <1>6, <4>1
      <4>3. neg \in BOOLEAN
        BY DEF IsNegative
      <4>4. pad >= 128 <=> neg
        BY <4>3
      <4> HIDE DEF packed, pad, neg
      <4> QED BY <3>1, <4>2, <4>4
    <3> QED BY <3>2, <3>3
  <2>3. 256 \div 2 = 128
    OBVIOUS
  <2>4. SignedNumber(packed, 256) = Magnitude(packed, 256) - (IF neg THEN Power(256, tb) ELSE 0)
    BY <1>2, <2>2, <2>3 DEF SignedNumber
  <2>5. SignedNumber(bytes, 256) = Magnitude(bytes, 256) - (IF neg THEN Power(256, n) ELSE 0)
    BY <2>1, <2>3 DEF SignedNumber
  <2>6. pad = 255 <=> neg
    <3>1. neg \in BOOLEAN
      BY DEF IsNegative
    <3> QED BY <3>1
  <2>7. SignedNumber(packed, 256) = SignedNumber(bytes, 256)
    <3> DEFINE A == Magnitude(packed, 256)
               B == Magnitude(bytes, 256)
               T == Power(256, tb)
               P == Power(256, n)
    <3>1. B \in Nat /\ T \in Nat /\ P \in Nat /\ A = B + (IF neg THEN T - P ELSE 0)
      BY <1>8, <1>9, <2>6
    <3>2. A - (IF neg THEN T ELSE 0) = B - (IF neg THEN P ELSE 0)
      <4> HIDE DEF A, B, T, P, neg
      <4> QED BY <3>1
    <3> QED BY <2>4, <2>5, <3>2
  <2> HIDE DEF packed
  <2> QED BY <1>3, <1>4, <1>11, <2>7 DEF NumberFor
<1> QED BY <1>1, <1>10, <1>11

\* Bytes are refused only if they denote none of the type's values.
LEMMA RefusedInt ==
  ASSUME NEW type, IsIntegerType(type), NEW bytes \in Seq(Byte), bytes # <<>>,
         intFromBinaryStr(bytes, type) = {}
  PROVE  NumberFor(bytes, type) \notin ValuesOf(type)
<1> DEFINE tb == type.bytes
           n == Len(bytes)
           k == n - tb
           neg == IsNegative(bytes, type)
           N == Power(256, tb)
           H == N \div 2
           P == Power(256, n)
           M == Magnitude(bytes, 256)
<1>1. tb \in Nat \ {0} /\ type.signed \in BOOLEAN /\ n \in Nat /\ neg \in BOOLEAN
  BY DEF IsIntegerType, IsNegative
<1>2. PICK i \in 1..k : bytes[i] # (IF neg THEN 255 ELSE 0)
  <2> DEFINE x == AsSigned(Magnitude(Packed(bytes, type), 256), type, type.signed)
  <2>1. intFromBinaryStr(bytes, type) = IF IsTooLong(bytes, type) THEN {} ELSE {x}
    BY IntOfBytes
  <2> HIDE DEF x
  <2>2. IsTooLong(bytes, type)
    BY <2>1
  <2> QED BY <2>2 DEF IsTooLong
<1>3. k \in 0..n /\ n - k = tb
  BY <1>1, <1>2
<1>4. H \in Nat \ {0} /\ N = 2 * H /\ P \in Nat /\ M \in Nat
  <2>1. H \in Nat \ {0} /\ N = 2 * H
    <3>1. type.bytes \in Nat \ {0}
      BY <1>1
    <3>2. HasHalves(type.bytes)
      BY <3>1, HalvesOfRanges
    <3> QED BY <1>1, <3>2 DEF HasHalves
  <2>2. P \in Nat /\ M \in Nat
    BY NumbersAreNatural
  <2> QED BY <2>1, <2>2
<1>5. ValuesOf(type) = IF type.signed THEN -H..(H - 1) ELSE 0..(N - 1)
  BY DEF ValuesOf
<1>6. NumberFor(bytes, type) = M - (IF neg THEN P ELSE 0)
  <2>1. 256 \div 2 = 128
    OBVIOUS
  <2> QED BY <1>1, <1>4, <2>1 DEF NumberFor, SignedNumber, IsNegative
<1>7. IsDigits(bytes, 256)
  BY BytesAreDigits
<1>8. CASE ~neg
  <2>1. ~(M < N)
    BY <1>2, <1>3, <1>7, <1>8, LeadingZeros
  <2> HIDE DEF N, H, P, M, neg
  <2> QED BY <1>1, <1>4, <1>5, <1>6, <1>8, <2>1
<1>9. CASE neg
  <2>1. ~(M >= P - N)
    <3>1. bytes[i] # 256 - 1
      BY <1>2, <1>9
    <3>2. M >= P - N <=> \A j \in 1..k : bytes[j] = 256 - 1
      BY <1>3, <1>7, LeadingLast
    <3> QED BY <3>1, <3>2
  <2>2. type.signed
    BY <1>9 DEF IsNegative
  <2> HIDE DEF N, H, P, M, neg
  <2> QED BY <1>1, <1>4, <1>5, <1>6, <1>9, <2>1, <2>2
<1> QED BY <1>1, <1>8, <1>9

\* What the application reads of hexadecimal digits: a value of its type; the
\* number that they denote, where the type is wide enough; and nothing only if
\* the type does not have that number.
THEOREM ReadNumber ==
  ASSUME NEW type, IsIntegerType(type), NEW slot, slot.isSigned \in BOOLEAN,
         NEW hex \in Seq(Nibble), hex # <<>>
  PROVE  LET read == toUserTypeHexInt(hex, type, slot)
             number == NumberOf(hex, slot.isSigned)
         IN /\ read \subseteq ValuesOf(type)
            /\ read = {} => number \notin ValuesOf(type)
            /\ read # {} /\ (slot.isSigned => type.signed /\ Len(hex) <= 2 * type.bytes) => read = {number}
<1> DEFINE read == toUserTypeHexInt(hex, type, slot)
           number == NumberOf(hex, slot.isSigned)
<1>1. CASE ~slot.isSigned
  <2>1. slot.isSigned = FALSE
    BY <1>1
  <2>2. read = {number} \cap ValuesOf(type)
    BY <2>1 DEF toUserTypeHexInt, userTypeToUserType
  <2> HIDE DEF read, number
  <2>3. /\ read \subseteq ValuesOf(type)
        /\ read = {} => number \notin ValuesOf(type)
        /\ read # {} => read = {number}
    BY <2>2
  <2> QED BY <2>3 DEF read, number
<1>2. CASE slot.isSigned
  <2>1. slot.isSigned = TRUE
    BY <1>2
  <2> DEFINE bytes == binaryStrFromHexStr(hex, TRUE)
  <2>2. read = intFromBinaryStr(bytes, type) /\ number = NumberOf(hex, TRUE)
    BY <2>1 DEF toUserTypeHexInt
  <2>3. /\ bytes \in Seq(Byte) /\ Len(bytes) = (Len(hex) + 1) \div 2 /\ bytes # <<>>
        /\ NumberOf(hex, TRUE) = SignedNumber(bytes, 256)
    <3>1. PICK b : b = bytes
      OBVIOUS
    <3>2. b = binaryStrFromHexStr(hex, TRUE)
      BY <3>1
    <3>3. IsPackedNumber(hex, TRUE, b)
      BY <3>2, PackedNumber
    <3> HIDE DEF bytes, read, number
    <3> QED BY <3>1, <3>3, Zenon DEF IsPackedNumber
  <2> HIDE DEF bytes, read, number
  <2>4. read \subseteq ValuesOf(type)
    BY <2>2, <2>3, IntIsTyped
  <2>5. ASSUME type.signed, Len(hex) <= 2 * type.bytes
        PROVE  read = {number}
    <3>1. Len(bytes) <= type.bytes
      <4>1. Len(hex) \in Nat /\ type.bytes \in Nat
        BY DEF IsIntegerType
      <4> QED BY <2>3, <2>5, <4>1
    <3>2. NumberFor(bytes, type) = number
      BY <2>2, <2>3, <2>5 DEF NumberFor
    <3> QED BY <2>2, <2>3, <3>1, <3>2, IntIsExact
  <2>6. ASSUME read = {}
        PROVE  number \notin ValuesOf(type)
    <3>1. NumberFor(bytes, type) \notin ValuesOf(type)
      BY <2>2, <2>3, <2>6, RefusedInt
    <3>2. CASE type.signed
      BY <2>2, <2>3, <3>1, <3>2 DEF NumberFor
    <3>3. CASE ~type.signed
      <4> DEFINE M == Magnitude(bytes, 256)
                 P == Power(256, Len(bytes))
      <4>1. M \notin 0..(Power(256, type.bytes) - 1) /\ ValuesOf(type) = 0..(Power(256, type.bytes) - 1)
        BY <3>1, <3>3 DEF NumberFor, ValuesOf
      <4>2. M \in Nat /\ M < P /\ P \in Nat
        BY <2>3, NumbersAreNatural
      <4>3. number = M - P \/ number = M - 0
        BY <2>2, <2>3 DEF SignedNumber
      <4>4. Power(256, type.bytes) \in Nat
        BY PowersOfBases DEF IsIntegerType
      <4> HIDE DEF M, P
      <4> QED BY <4>1, <4>2, <4>3, <4>4
    <3> QED BY <3>2, <3>3
  <2> QED BY <1>2, <2>4, <2>5, <2>6 DEF read, number
<1> QED BY <1>1, <1>2

-----------------------------------------------------------------------------
(* Integers that are written: binaryStrFromInt *)

\* Quotient and remainder are determined by what they are.
LEMMA Division ==
  ASSUME NEW v \in Int, NEW d \in Nat \ {0}, NEW q \in Int, NEW r \in 0..(d - 1), v = d * q + r
  PROVE  v \div d = q /\ v % d = r
OBVIOUS

\* Quotient and remainder.
LEMMA Quotient ==
  ASSUME NEW v \in Int, NEW d \in Nat \ {0}
  PROVE  v \div d \in Int /\ v % d \in 0..(d - 1) /\ v = d * (v \div d) + (v % d)
OBVIOUS

\* To divide by a product is to divide twice.
LEMMA DivideTwice ==
  ASSUME NEW v \in Int, NEW b \in Nat \ {0}, NEW P \in Nat \ {0}
  PROVE  /\ v \div (b * P) = (v \div P) \div b
         /\ v % (b * P) = b * ((v \div b) % P) + (v % b)
<1>0. b * P \in Nat \ {0}
  OBVIOUS
<1>1. v \div (b * P) = (v \div P) \div b
  <2>1. PICK q \in Int, r \in 0..(P - 1) : q = v \div P /\ r = v % P /\ v = P * q + r
    BY Quotient
  <2>2. PICK s \in Int, t \in 0..(b - 1) : s = q \div b /\ t = q % b /\ q = b * s + t
    BY Quotient
  <2>3. v = (b * P) * s + (P * t + r)
    <3>1. P * (b * s + t) + r = (b * P) * s + (P * t + r)
      OBVIOUS
    <3> QED BY <2>1, <2>2, <3>1
  <2>4. P * t + r \in 0..(b * P - 1)
    <3>1. P * t <= P * (b - 1)
      OBVIOUS
    <3>2. P * (b - 1) = b * P - P /\ P * t \in Nat
      OBVIOUS
    <3> QED BY <3>1, <3>2
  <2>5. v \div (b * P) = s
    BY <1>0, <2>3, <2>4, Division
  <2> QED BY <2>1, <2>2, <2>5
<1>2. v % (b * P) = b * ((v \div b) % P) + (v % b)
  <2>1. PICK q \in Int, r \in 0..(b - 1) : q = v \div b /\ r = v % b /\ v = b * q + r
    BY Quotient
  <2>2. PICK s \in Int, t \in 0..(P - 1) : s = q \div P /\ t = q % P /\ q = P * s + t
    BY Quotient
  <2>3. v = (b * P) * s + (b * t + r)
    <3>1. b * (P * s + t) + r = (b * P) * s + (b * t + r)
      OBVIOUS
    <3> QED BY <2>1, <2>2, <3>1
  <2>4. b * t + r \in 0..(b * P - 1)
    <3>1. b * t <= b * (P - 1)
      OBVIOUS
    <3>2. b * (P - 1) = b * P - b /\ b * t \in Nat
      OBVIOUS
    <3> QED BY <3>1, <3>2
  <2>5. v % (b * P) = b * t + r
    BY <1>0, <2>3, <2>4, Division
  <2> QED BY <2>1, <2>2, <2>5
<1> QED BY <1>1, <1>2

\* Digits are digits.
LEMMA DigitsAreDigits ==
  ASSUME NEW v \in Int, NEW b \in Nat \ {0}, NEW n \in Nat
  PROVE  IsDigits(Digits(v, b, n), b) /\ Len(Digits(v, b, n)) = n
<1>1. \A i \in 1..n : (v \div Power(b, n - i)) % b \in 0..(b - 1)
  <2> SUFFICES ASSUME NEW i \in 1..n PROVE (v \div Power(b, n - i)) % b \in 0..(b - 1)
    OBVIOUS
  <2>1. n - i \in Nat
    OBVIOUS
  <2>2. PICK P \in Nat \ {0} : P = Power(b, n - i)
    BY <2>1, PowerIsPositive
  <2>3. PICK q \in Int : q = v \div P
    BY Quotient
  <2>4. q % b \in 0..(b - 1)
    BY Quotient
  <2> QED BY <2>2, <2>3, <2>4
<1>2. Digits(v, b, n) \in [1..n -> 0..(b - 1)]
  BY <1>1 DEF Digits
<1> QED BY <1>2, FunctionIsSequence DEF IsDigits

\* n digits denote the number modulo their power: in two's complement.
LEMMA NumberOfDigits ==
  ASSUME NEW v \in Int, NEW b \in Nat \ {0}, NEW n \in Nat
  PROVE  Magnitude(Digits(v, b, n), b) = v % Power(b, n)
<1> DEFINE s == Digits(v, b, n)
<1>1. s \in Seq(Nat) /\ Len(s) = n
  <2>1. IsDigits(s, b) /\ Len(s) = n
    BY DigitsAreDigits
  <2>2. 0..(b - 1) \subseteq Nat
    OBVIOUS
  <2> HIDE DEF s
  <2> QED BY <2>1, <2>2, SequenceOfMore DEF IsDigits
<1>2. \A i \in 1..n : s[i] = (v \div Power(b, n - i)) % b
  BY DEF Digits
<1> HIDE DEF s
<1>3. PICK f : IsPrefixNumber(f, s, b) /\ Magnitude(s, b) = f[n]
  <2>1. \E f : IsPrefixNumber(f, s, b) /\ Magnitude(s, b) = f[Len(s)]
    BY <1>1, NumbersExist
  <2> QED BY <1>1, <2>1
<1>4. f[0] = 0 /\ \A i \in 1..n : f[i] = b * f[i - 1] + s[i]
  BY <1>1, <1>3 DEF IsPrefixNumber
<1>5. \A i \in 0..n : f[i] = (v \div Power(b, n - i)) % Power(b, i)
  <2> DEFINE U == {k \in 0..n : f[k] = (v \div Power(b, n - k)) % Power(b, k)}
  <2>1. 0 \in U
    <3>1. PICK P \in Nat \ {0} : P = Power(b, n - 0)
      <4>1. n - 0 \in Nat
        OBVIOUS
      <4> QED BY <4>1, PowerIsPositive
    <3>2. PICK q \in Int : q = v \div P
      BY Quotient
    <3>3. Power(b, 0) = 1 /\ q % 1 = 0
      BY Powers
    <3> QED BY <1>4, <3>1, <3>2, <3>3
  <2>2. ASSUME NEW k \in 1..n, k - 1 \in U
        PROVE  k \in U
    <3>1. k - 1 \in Nat /\ (k - 1) + 1 = k /\ n - k \in Nat /\ n - (k - 1) = (n - k) + 1
      OBVIOUS
    <3>2. PICK P \in Nat \ {0} : P = Power(b, n - k)
      BY <3>1, PowerIsPositive
    <3>3. PICK Q \in Nat \ {0} : Q = Power(b, k - 1)
      BY <3>1, PowerIsPositive
    <3>4. Power(b, n - (k - 1)) = b * P /\ Power(b, k) = b * Q
      <4>1. Power(b, (n - k) + 1) = b * Power(b, n - k)
        BY <3>1, Powers
      <4>2. Power(b, (k - 1) + 1) = b * Power(b, k - 1)
        BY <3>1, Powers
      <4> QED BY <3>1, <3>2, <3>3, <4>1, <4>2
    <3>5. PICK w \in Int : w = v \div P
      BY Quotient
    <3>6. f[k - 1] = (w \div b) % Q
      <4>1. f[k - 1] = (v \div (b * P)) % Q
        BY <2>2, <3>3, <3>4
      <4>2. v \div (b * P) = (v \div P) \div b
        BY DivideTwice
      <4> QED BY <3>5, <4>1, <4>2
    <3>7. s[k] = w % b
      BY <1>2, <3>2, <3>5
    <3>8. w % (b * Q) = b * ((w \div b) % Q) + (w % b)
      BY DivideTwice
    <3>9. f[k] = w % (b * Q)
      BY <1>4, <3>6, <3>7, <3>8
    <3> QED BY <3>2, <3>4, <3>5, <3>9
  <2>3. \A i \in 0..n : i \in U
    <3> HIDE DEF U
    <3> QED BY <2>1, <2>2, Upwards
  <2> QED BY <2>3
<1>6. f[n] = (v \div Power(b, n - n)) % Power(b, n)
  <2>1. n \in 0..n
    OBVIOUS
  <2> QED BY <1>5, <2>1
<1>7. Power(b, n - n) = 1
  <2>1. n - n = 0
    OBVIOUS
  <2> QED BY <2>1, Powers
<1>8. v \div 1 = v
  OBVIOUS
<1> QED BY <1>3, <1>6, <1>7, <1>8 DEF s

\* More bytes, more numbers.
LEMMA PowerGrows ==
  ASSUME NEW m \in Nat, NEW n \in Nat, m <= n
  PROVE  Power(256, m) <= Power(256, n)
<1> DEFINE U == {k \in 0..(n - m) : Power(256, m) <= Power(256, m + k)}
<1>1. n - m \in Nat /\ m + (n - m) = n
  OBVIOUS
<1>2. 0 \in U
  <2>1. m + 0 = m /\ Power(256, m) \in Nat
    BY PowersOfBases
  <2> QED BY <1>1, <2>1
<1>3. ASSUME NEW k \in 1..(n - m), k - 1 \in U
      PROVE  k \in U
  <2>1. m + (k - 1) \in Nat /\ (m + (k - 1)) + 1 = m + k
    OBVIOUS
  <2>2. Power(256, (m + (k - 1)) + 1) = 256 * Power(256, m + (k - 1))
    BY <2>1, Powers
  <2>3. Power(256, m + (k - 1)) \in Nat /\ Power(256, m) \in Nat
    BY <2>1, PowersOfBases
  <2>4. Power(256, m) <= Power(256, m + (k - 1))
    BY <1>3
  <2>5. Power(256, m) <= Power(256, m + k)
    BY <2>1, <2>2, <2>3, <2>4
  <2> QED BY <2>5
<1>4. \A i \in 0..(n - m) : i \in U
  <2> HIDE DEF U
  <2> QED BY <1>1, <1>2, <1>3, Upwards
<1>5. n - m \in U
  <2> HIDE DEF U
  <2> QED BY <1>1, <1>4
<1> QED BY <1>1, <1>5

\* Eight bits are a byte.
LEMMA EightBitsPerByte ==
  ASSUME NEW n \in Nat
  PROVE  Power(256, n) = Power(2, 8 * n)
<1> DEFINE U == {k \in 0..n : Power(256, k) = Power(2, 8 * k)}
<1>1. 0 \in U
  <2>1. Power(256, 0) = 1 /\ Power(2, 0) = 1 /\ 8 * 0 = 0
    BY Powers
  <2> QED BY <2>1
<1>2. ASSUME NEW k \in 1..n, k - 1 \in U
      PROVE  k \in U
  <2> DEFINE e == 8 * (k - 1)
  <2>1. /\ k - 1 \in Nat /\ (k - 1) + 1 = k /\ e \in Nat /\ 8 * k = e + 8
        /\ (e + 1) + 1 = e + 2 /\ (e + 2) + 1 = e + 3 /\ (e + 3) + 1 = e + 4 /\ (e + 4) + 1 = e + 5
        /\ (e + 5) + 1 = e + 6 /\ (e + 6) + 1 = e + 7 /\ (e + 7) + 1 = e + 8
    OBVIOUS
  <2>2. Power(256, k) = 256 * Power(256, k - 1)
    BY <2>1, Powers
  <2>3. Power(256, k - 1) = Power(2, e)
    BY <1>2
  <2> HIDE DEF e
  <2>4. \A i \in Nat : Power(2, i + 1) = 2 * Power(2, i) /\ Power(2, i) \in Nat
    BY Powers
  <2>5. Power(2, e + 1) = 2 * Power(2, e) /\ Power(2, e) \in Nat
    BY <2>1, <2>4
  <2>6. Power(2, e + 2) = 4 * Power(2, e)
    <3>1. Power(2, (e + 1) + 1) = 2 * Power(2, e + 1) /\ e + 1 \in Nat
      BY <2>1, <2>4
    <3> QED BY <2>1, <2>5, <3>1
  <2>7. Power(2, e + 3) = 8 * Power(2, e)
    <3>1. Power(2, (e + 2) + 1) = 2 * Power(2, e + 2) /\ e + 2 \in Nat
      BY <2>1, <2>4
    <3> QED BY <2>1, <2>5, <2>6, <3>1
  <2>8. Power(2, e + 4) = 16 * Power(2, e)
    <3>1. Power(2, (e + 3) + 1) = 2 * Power(2, e + 3) /\ e + 3 \in Nat
      BY <2>1, <2>4
    <3> QED BY <2>1, <2>5, <2>7, <3>1
  <2>9. Power(2, e + 5) = 32 * Power(2, e)
    <3>1. Power(2, (e + 4) + 1) = 2 * Power(2, e + 4) /\ e + 4 \in Nat
      BY <2>1, <2>4
    <3> QED BY <2>1, <2>5, <2>8, <3>1
  <2>10. Power(2, e + 6) = 64 * Power(2, e)
    <3>1. Power(2, (e + 5) + 1) = 2 * Power(2, e + 5) /\ e + 5 \in Nat
      BY <2>1, <2>4
    <3> QED BY <2>1, <2>5, <2>9, <3>1
  <2>11. Power(2, e + 7) = 128 * Power(2, e)
    <3>1. Power(2, (e + 6) + 1) = 2 * Power(2, e + 6) /\ e + 6 \in Nat
      BY <2>1, <2>4
    <3> QED BY <2>1, <2>5, <2>10, <3>1
  <2>12. Power(2, e + 8) = 256 * Power(2, e)
    <3>1. Power(2, (e + 7) + 1) = 2 * Power(2, e + 7) /\ e + 7 \in Nat
      BY <2>1, <2>4
    <3> QED BY <2>1, <2>5, <2>11, <3>1
  <2> QED BY <2>1, <2>2, <2>3, <2>12
<1>3. \A i \in 0..n : i \in U
  <2> HIDE DEF U
  <2> QED BY <1>1, <1>2, Upwards
<1> QED BY <1>3

\* Bits.
LEMMA PowersOfTwo ==
  \A n \in Nat : Power(2, n + 1) = 2 * Power(2, n) /\ Power(2, n) \in Nat \ {0} /\ Power(2, n) \in Nat
BY Powers

\* The last bit of a negative number.
LEMMA MinusOneIsOdd ==
  (-1) % 2 = 1
<1>1. PICK m \in Int : m = -1
  OBVIOUS
<1>2. m \div 2 \in Int /\ m % 2 \in 0..(2 - 1) /\ m = 2 * (m \div 2) + (m % 2)
  BY Quotient
<1>3. PICK q \in Int, r \in 0..1 : r = m % 2 /\ m = 2 * q + r
  BY <1>2
<1>4. r = 1
  BY <1>1, <1>3
<1> QED BY <1>1, <1>3, <1>4

\* Is value one of the integers of n bytes?
InBytes(value, n, isSigned) == value \in ValuesOf([bytes |-> n, signed |-> isSigned])

\* Such values are those from the lowest to the highest.
LEMMA InBytesIs ==
  ASSUME NEW n \in Nat, NEW isSigned \in BOOLEAN, NEW v \in Int
  PROVE  InBytes(v, n, isSigned)
           <=> IF isSigned THEN v \in -(Power(256, n) \div 2)..(Power(256, n) \div 2 - 1)
               ELSE v \in 0..(Power(256, n) - 1)
BY DEF InBytes, ValuesOf

\* The number of bytes of a magnitude.
LEMMA WidthOfMagnitude ==
  ASSUME NEW tb \in Nat \ {0}, NEW m \in Nat, m < Power(256, tb)
  PROVE  \E n \in 1..tb : m < Power(256, n) /\ (n = 1 \/ m >= Power(256, n - 1))
<1> DEFINE T == {n \in 1..tb : m < Power(256, n)}
<1>1. T \subseteq Nat /\ tb \in T
  OBVIOUS
<1>2. PICK n \in T : \A k \in T : n <= k
  <2> HIDE DEF T
  <2>1. T # {}
    BY <1>1
  <2> QED BY <1>1, <2>1, MinOfNats
<1>3. n \in 1..tb /\ m < Power(256, n)
  BY <1>2
<1>4. ASSUME n # 1
      PROVE  m >= Power(256, n - 1)
  <2>1. n - 1 \in 1..tb /\ ~(n <= n - 1) /\ n - 1 \in Nat
    BY <1>3, <1>4
  <2>2. n - 1 \notin T
    BY <1>2, <2>1
  <2>3. ~(m < Power(256, n - 1))
    BY <2>1, <2>2
  <2>4. Power(256, n - 1) \in Nat
    BY <2>1, PowersOfBases
  <2> HIDE DEF T
  <2> QED BY <2>3, <2>4
<1> QED BY <1>3, <1>4

\* getIntNaturalByteWidth is the least number of bytes of which the value is an
\* integer.
LEMMA NaturalWidth ==
  ASSUME NEW tb \in Nat \ {0}, NEW isSigned \in BOOLEAN, NEW v \in Int, InBytes(v, tb, isSigned),
         NEW W, W = getIntNaturalByteWidth(v, tb, isSigned)
  PROVE  W \in 1..tb /\ InBytes(v, W, isSigned) /\ (W = 1 \/ ~InBytes(v, W - 1, isSigned))
<1> DEFINE mag == IF v < 0 THEN -v ELSE v
           w == CHOOSE n \in 1..tb : mag < Power(256, n) /\ (n = 1 \/ mag >= Power(256, n - 1))
           firstBit == (v \div Power(2, 8 * w - 1)) % 2
           N == Power(256, tb)
           half == N \div 2
<1>1. mag \in Nat /\ half \in Nat \ {0} /\ N = 2 * half
  BY HalfOfRange
<1>2. IF isSigned THEN v \in -half..(half - 1) ELSE v \in 0..(N - 1)
  BY InBytesIs
<1>3. mag < N
  <2> HIDE DEF N, half
  <2> QED BY <1>1, <1>2
<1>4. w \in 1..tb /\ mag < Power(256, w) /\ (w = 1 \/ mag >= Power(256, w - 1))
  <2> HIDE DEF mag, N, half
  <2> QED BY <1>1, <1>3, WidthOfMagnitude DEF N
<1>5. W = IF v = -half THEN tb
          ELSE IF isSigned /\ (v < 0) # (firstBit = 1) THEN w + 1 ELSE w
  BY DEF getIntNaturalByteWidth
<1> HIDE DEF w
<1> DEFINE H == Power(256, w) \div 2
<1>6. H \in Nat \ {0} /\ Power(256, w) = 2 * H
  BY <1>4, HalfOfRange
<1>7. Power(2, 8 * w - 1) = H
  <2>1. 8 * w - 1 \in Nat /\ (8 * w - 1) + 1 = 8 * w /\ w \in Nat
    BY <1>4
  <2>2. Power(2, (8 * w - 1) + 1) = 2 * Power(2, 8 * w - 1) /\ Power(2, 8 * w - 1) \in Nat
    BY <2>1, PowersOfTwo
  <2>3. Power(256, w) = Power(2, 8 * w)
    BY <2>1, EightBitsPerByte
  <2> HIDE DEF H
  <2> QED BY <1>6, <2>1, <2>2, <2>3
<1>8. firstBit = (v \div H) % 2
  BY <1>7
<1> HIDE DEF firstBit, half, N
<1>9. v < 2 * H /\ v > -(2 * H)
  <2> HIDE DEF H
  <2> QED BY <1>1, <1>4, <1>6
<1> HIDE DEF H
<1>10. (v < 0) # (firstBit = 1) <=> v \notin -H..(H - 1)
  <2>1. CASE v < -H
    <3>1. v = H * (-2) + (v + 2 * H) /\ v + 2 * H \in 0..(H - 1)
      BY <1>6, <1>9, <2>1
    <3>2. v \div H = -2
      BY <1>6, <3>1, Division
    <3>3. (-2) % 2 = 0 /\ v < 0
      BY <1>6, <2>1
    <3> QED BY <1>6, <1>8, <2>1, <3>2, <3>3
  <2>2. CASE v >= -H /\ v < 0
    <3>1. v = H * (-1) + (v + H) /\ v + H \in 0..(H - 1)
      BY <1>6, <2>2
    <3>2. v \div H = -1
      BY <1>6, <3>1, Division
    <3>3. (-1) % 2 = 1 /\ v \in -H..(H - 1)
      BY <1>6, <2>2, MinusOneIsOdd
    <3> QED BY <1>8, <2>2, <3>2, <3>3
  <2>3. CASE v >= 0 /\ v < H
    <3>2. v \div H = 0
      BY <1>6, <2>3
    <3>3. 0 % 2 = 0 /\ v \in -H..(H - 1) /\ ~(v < 0)
      BY <1>6, <2>3
    <3> QED BY <1>8, <3>2, <3>3
  <2>4. CASE v >= H
    <3>1. v = H * 1 + (v - H) /\ v - H \in 0..(H - 1)
      BY <1>6, <1>9, <2>4
    <3>2. v \div H = 1
      BY <1>6, <3>1, Division
    <3>3. 1 % 2 = 1 /\ v \notin -H..(H - 1) /\ ~(v < 0)
      BY <1>6, <2>4
    <3> QED BY <1>8, <3>2, <3>3
  <2> QED BY <1>6, <2>1, <2>2, <2>3, <2>4
<1>11. w \in Nat /\ w - 1 \in Nat /\ w + 1 \in Nat
  BY <1>4
<1>12. InBytes(v, w, isSigned) <=> IF isSigned THEN v \in -H..(H - 1) ELSE v \in 0..(2 * H - 1)
  BY <1>6, <1>11, InBytesIs DEF H
<1>13. ASSUME w # 1
       PROVE  ~InBytes(v, w - 1, isSigned)
  <2> DEFINE Q == Power(256, w - 1)
             G == Q \div 2
  <2>1. w - 1 \in Nat \ {0}
    BY <1>11, <1>13
  <2>2. G \in Nat \ {0} /\ Q = 2 * G
    <3>1. HasHalves(w - 1)
      BY <2>1, HalvesOfRanges
    <3> QED BY <3>1 DEF HasHalves
  <2>3. mag >= Q
    BY <1>4, <1>13
  <2>4. InBytes(v, w - 1, isSigned) <=> IF isSigned THEN v \in -G..(G - 1) ELSE v \in 0..(Q - 1)
    BY <2>1, InBytesIs
  <2> HIDE DEF Q, G
  <2> QED BY <2>2, <2>3, <2>4
<1>14. CASE v = -half
  <2>1. isSigned /\ W = tb
    BY <1>1, <1>2, <1>5, <1>14
  <2>2. ASSUME tb # 1
        PROVE  ~InBytes(v, tb - 1, isSigned)
    <3> DEFINE Q == Power(256, tb - 1)
               G == Q \div 2
    <3>1. tb - 1 \in Nat \ {0}
      BY <2>2
    <3>2. G \in Nat \ {0} /\ Q = 2 * G
      BY <3>1, HalfOfRange
    <3>3. half = 128 * Q
      BY HalfOfRange DEF half, N
    <3>4. InBytes(v, tb - 1, isSigned) <=> v \in -G..(G - 1)
      <4>1. isSigned = TRUE /\ tb - 1 \in Nat /\ v \in Int
        BY <2>1, <3>1
      <4> QED BY <4>1, Zenon DEF InBytes, ValuesOf
    <3> HIDE DEF Q, G
    <3> QED BY <1>14, <3>2, <3>3, <3>4
  <2>3. tb \in 1..tb
    OBVIOUS
  <2>4. InBytes(v, W, isSigned) /\ (W = 1 \/ ~InBytes(v, W - 1, isSigned))
    <3>1. isSigned = TRUE
      BY <2>1
    <3> QED BY <2>1, <2>2, <3>1
  <2> QED BY <2>1, <2>3, <2>4
<1>15. CASE v # -half /\ ~(isSigned /\ (v < 0) # (firstBit = 1))
  <2>1. W = w
    BY <1>5, <1>15
  <2>2. InBytes(v, w, isSigned)
    <3>1. CASE isSigned
      BY <1>10, <1>12, <1>15, <3>1
    <3>2. CASE ~isSigned
      <4>1. v >= 0
        BY <1>1, <1>2, <3>2
      <4> QED BY <1>6, <1>9, <1>12, <3>2, <4>1
    <3> QED BY <3>1, <3>2
  <2> QED BY <1>4, <1>13, <2>1, <2>2
<1>16. CASE v # -half /\ isSigned /\ (v < 0) # (firstBit = 1)
  <2>1. W = w + 1 /\ v \notin -H..(H - 1) /\ v \in -half..(half - 1)
    BY <1>2, <1>5, <1>10, <1>16
  <2>2. w # tb
    <3> SUFFICES ASSUME w = tb PROVE FALSE
      OBVIOUS
    <3>1. H = half
      BY DEF H, half, N
    <3> QED BY <2>1, <3>1
  <2>3. W \in 1..tb /\ W - 1 = w /\ W # 1
    BY <1>4, <2>1, <2>2
  <2>4. InBytes(v, W, isSigned)
    <3> DEFINE G == Power(256, w + 1) \div 2
    <3>1. G = 128 * Power(256, w)
      <4>1. w + 1 \in Nat \ {0} /\ (w + 1) - 1 = w
        BY <1>11
      <4> QED BY <4>1, HalfOfRange
    <3>2. InBytes(v, w + 1, isSigned) <=> v \in -G..(G - 1)
      <4>1. isSigned = TRUE /\ w + 1 \in Nat /\ v \in Int
        BY <1>11, <1>16
      <4> QED BY <4>1, Zenon DEF InBytes, ValuesOf
    <3>3. G = 256 * H
      BY <1>6, <3>1
    <3> HIDE DEF G
    <3>4. v \in -G..(G - 1)
      BY <1>6, <1>9, <3>3
    <3> QED BY <2>1, <3>2, <3>4
  <2>5. ~InBytes(v, W - 1, isSigned)
    BY <1>12, <1>16, <2>1, <2>3
  <2> QED BY <2>3, <2>4, <2>5
<1> QED BY <1>14, <1>15, <1>16

\* The bits of a value are an integer of as many bytes.
LEMMA AsSignedIsInBytes ==
  ASSUME NEW type, IsIntegerType(type), NEW value \in Int, NEW isSigned \in BOOLEAN
  PROVE  AsSigned(value, type, isSigned) \in Int /\ InBytes(AsSigned(value, type, isSigned), type.bytes, isSigned)
<1> DEFINE other == [bytes |-> type.bytes, signed |-> isSigned]
           v == AsSigned(value, type, isSigned)
<1>1. type.bytes \in Nat \ {0}
  BY DEF IsIntegerType
<1>2. IsIntegerType(other)
  BY <1>1 DEF IsIntegerType
<1>3. AsSigned(value, other, other.signed) = v
  BY DEF AsSigned
<1>4. v \in ValuesOf(other)
  <2> HIDE DEF other, v
  <2> QED BY <1>2, <1>3, AsSignedIsTyped
<1>5. ValuesOf(other) \subseteq Int
  BY DEF ValuesOf
<1> QED BY <1>4, <1>5 DEF InBytes

\* Integers of a number of bytes are integers of more bytes.
LEMMA MoreBytes ==
  ASSUME NEW m \in Nat \ {0}, NEW n \in Nat, m <= n, NEW isSigned \in BOOLEAN, NEW v \in Int,
         InBytes(v, m, isSigned)
  PROVE  InBytes(v, n, isSigned)
<1> DEFINE P == Power(256, m)
           G == P \div 2
           Q == Power(256, n)
           H == Q \div 2
<1>1. G \in Nat \ {0} /\ P = 2 * G /\ H \in Nat \ {0} /\ Q = 2 * H
  <2>1. G \in Nat \ {0} /\ P = 2 * G
    BY HalfOfRange
  <2>2. n \in Nat \ {0}
    OBVIOUS
  <2>3. H \in Nat \ {0} /\ Q = 2 * H
    BY <2>2, HalfOfRange
  <2> QED BY <2>1, <2>3
<1>2. P <= Q
  BY PowerGrows
<1>3. IF isSigned THEN v \in -G..(G - 1) ELSE v \in 0..(P - 1)
  BY InBytesIs
<1>4. InBytes(v, n, isSigned) <=> IF isSigned THEN v \in -H..(H - 1) ELSE v \in 0..(Q - 1)
  BY InBytesIs
<1> HIDE DEF P, Q, G, H
<1> QED BY <1>1, <1>2, <1>3, <1>4

\* The bytes that are written, and when.
LEMMA WrittenBytes ==
  ASSUME NEW type, IsIntegerType(type), NEW value \in Int, NEW isSigned \in BOOLEAN,
         NEW v, v = AsSigned(value, type, isSigned), NEW w \in Nat \ {0}
  PROVE  binaryStrFromInt(value, type, w, isSigned)
           = IF InBytes(v, w, isSigned) THEN {Digits(v, 256, w)} ELSE {}
<1> DEFINE W == getIntNaturalByteWidth(v, type.bytes, isSigned)
<1>1. type.bytes \in Nat \ {0} /\ v \in Int /\ InBytes(v, type.bytes, isSigned)
  BY AsSignedIsInBytes DEF IsIntegerType
<1>2. W \in 1..type.bytes /\ InBytes(v, W, isSigned) /\ (W = 1 \/ ~InBytes(v, W - 1, isSigned))
  BY <1>1, NaturalWidth
<1>3. binaryStrFromInt(value, type, w, isSigned) = IF w < W THEN {} ELSE {Digits(v, 256, w)}
  BY DEF binaryStrFromInt
<1> HIDE DEF W
<1>4. ASSUME w < W PROVE ~InBytes(v, w, isSigned)
  <2>1. W - 1 \in Nat /\ w <= W - 1 /\ W # 1
    BY <1>1, <1>2, <1>4
  <2>2. InBytes(v, w, isSigned) => InBytes(v, W - 1, isSigned)
    BY <1>1, <2>1, MoreBytes
  <2> QED BY <1>2, <2>1, <2>2
<1>5. ASSUME ~(w < W) PROVE InBytes(v, w, isSigned)
  <2>1. W \in Nat \ {0} /\ W <= w
    BY <1>1, <1>2, <1>5
  <2> QED BY <1>1, <1>2, <2>1, MoreBytes
<1> QED BY <1>3, <1>4, <1>5

\* An integer of n bytes is what its bits denote.
LEMMA BitsOfInteger ==
  ASSUME NEW w \in Nat \ {0}, NEW isSigned \in BOOLEAN, NEW v \in Int, InBytes(v, w, isSigned),
         NEW bytes, bytes = Digits(v, 256, w)
  PROVE  /\ bytes \in Seq(Byte) /\ Len(bytes) = w /\ bytes # <<>>
         /\ v = (IF isSigned THEN SignedNumber(bytes, 256) ELSE Magnitude(bytes, 256))
<1> DEFINE N == Power(256, w)
           H == N \div 2
           t == [bytes |-> w, signed |-> isSigned]
<1>1. bytes \in Seq(Byte) /\ Len(bytes) = w /\ bytes # <<>>
  <2>1. 256 \in Nat \ {0} /\ w \in Nat
    OBVIOUS
  <2>2. IsDigits(bytes, 256) /\ Len(bytes) = w
    BY <2>1, DigitsAreDigits
  <2>3. bytes \in Seq(Byte)
    BY <2>2, BytesAreDigits
  <2> QED BY <2>2, <2>3
<1>2. Magnitude(bytes, 256) = v % N
  BY NumberOfDigits
<1>3. H \in Nat \ {0} /\ N = 2 * H
  BY HalfOfRange
<1>4. IF isSigned THEN v \in -H..(H - 1) ELSE v \in 0..(N - 1)
  BY InBytesIs
<1>5. IsIntegerType(t) /\ t.bytes = w /\ t.signed = isSigned
  BY DEF IsIntegerType
<1>6. AsSigned(Magnitude(bytes, 256), t, isSigned) = (IF isSigned THEN SignedNumber(bytes, 256) ELSE Magnitude(bytes, 256))
  <2> HIDE DEF t
  <2>1. AsSigned(Magnitude(bytes, 256), t, t.signed) = NumberFor(bytes, t)
    BY <1>1, <1>5, ValueOfBytes
  <2> QED BY <1>5, <2>1 DEF NumberFor
<1>7. AsSigned(Magnitude(bytes, 256), t, isSigned)
        = IF isSigned /\ (v % N) % N >= H THEN ((v % N) % N) - N ELSE (v % N) % N
  BY <1>2 DEF AsSigned
<1> HIDE DEF N, H, t
<1>8. PICK q \in Int, r \in 0..(N - 1) : q = v \div N /\ r = v % N /\ v = N * q + r
  <2>1. N \in Nat \ {0}
    BY <1>3
  <2> QED BY <2>1, Quotient
<1>9. r % N = r
  BY <1>3
<1>10. (IF isSigned /\ r >= H THEN r - N ELSE r) = v
  <2>1. CASE v >= 0
    <3>1. v \in 0..(N - 1) /\ (isSigned => v < H) /\ v = N * 0 + v /\ N \in Nat \ {0}
      BY <1>3, <1>4, <2>1
    <3>2. v % N = v
      BY <3>1
    <3> QED BY <1>3, <1>8, <3>1, <3>2
  <2>2. CASE v < 0
    <3>1. isSigned /\ v + N \in H..(N - 1)
      BY <1>3, <1>4, <2>2
    <3>2. v + N \in 0..(N - 1) /\ v = N * (-1) + (v + N) /\ N \in Nat \ {0} /\ -1 \in Int
      BY <1>3, <3>1
    <3>3. v % N = v + N
      BY <3>2, Division
    <3>4. v + N >= H /\ (v + N) - N = v
      BY <1>3, <3>1
    <3> QED BY <1>8, <3>1, <3>3, <3>4
  <2> QED BY <2>1, <2>2
<1> QED BY <1>1, <1>6, <1>7, <1>8, <1>9, <1>10

\* The digits of the bytes, and those but the first.
SplitsOff(bytes) ==
  LET all == hexStrFromBinaryStr(bytes)
      n == Len(bytes)
      P == Power(16, 2 * n - 1)
  IN
    /\ n \in Nat \ {0} /\ P \in Nat \ {0} /\ Power(16, 2 * n) = 16 * P /\ Power(256, n) = 16 * P
    /\ all \in Seq(Nibble) /\ Len(all) = 2 * n /\ all # <<>> /\ bytes[1] \in 0..255
    /\ all[1] = bytes[1] \div 16 /\ all[1] \in 0..15
    /\ Tail(all) \in Seq(Nibble) /\ Len(Tail(all)) = 2 * n - 1
    /\ Tail(all)[1] = bytes[1] % 16
    /\ Magnitude(all, 16) = all[1] * P + Magnitude(Tail(all), 16)
    /\ Magnitude(all, 16) = Magnitude(bytes, 256)
    /\ Magnitude(all, 16) \in Nat /\ Magnitude(Tail(all), 16) \in Nat
    /\ Magnitude(Tail(all), 16) < P

\* They do.
LEMMA WithoutFirstNibble ==
  ASSUME NEW bytes \in Seq(Byte), bytes # <<>>
  PROVE  SplitsOff(bytes)
<1> DEFINE all == hexStrFromBinaryStr(bytes)
           n == Len(bytes)
           P == Power(16, 2 * n - 1)
<1>1. n \in Nat \ {0} /\ bytes[1] \in 0..255
  <2>1. n \in Nat /\ \A i \in 1..n : bytes[i] \in 0..255
    BY ElementsOfSequence DEF Byte
  <2>2. n # 0
    OBVIOUS
  <2>3. 1 \in 1..n
    BY <2>1, <2>2
  <2> QED BY <2>1, <2>2, <2>3
<1>2. 2 * n - 1 \in Nat /\ (2 * n - 1) + 1 = 2 * n
  BY <1>1
<1>3. P \in Nat \ {0} /\ Power(16, 2 * n) = 16 * P /\ Power(256, n) = 16 * P
  <2>1. P \in Nat \ {0}
    BY <1>2, PowersOfBases DEF P
  <2>2. \A i \in Nat : Power(16, i + 1) = 16 * Power(16, i)
    BY Powers
  <2>3. Power(16, 2 * n) = 16 * P
    BY <1>2, <2>2
  <2>4. Power(256, n) = Power(16, 2 * n)
    BY <1>1, TwoDigitsPerByte
  <2> QED BY <2>1, <2>3, <2>4
<1>4. all \in Seq(Nibble) /\ Len(all) = 2 * n /\ all[1] = bytes[1] \div 16 /\ all[2] = bytes[1] % 16
  <2>1. all \in Seq(Nibble) /\ Len(all) = 2 * n
    BY HexOfBytes
  <2>2. all[2 * 1 - 1] = bytes[1] \div 16 /\ all[2 * 1] = bytes[1] % 16
    <3>1. 1 \in 1..n
      BY <1>1
    <3> QED BY <3>1, HexOfBytes
  <2>3. 2 * 1 - 1 = 1 /\ 2 * 1 = 2
    OBVIOUS
  <2> QED BY <2>1, <2>2, <2>3
<1>5. all[1] \in 0..15
  <2>1. \A i \in 1..(2 * n) : all[i] \in Nibble
    BY <1>4, ElementsOfSequence
  <2>2. 1 \in 1..(2 * n)
    BY <1>1
  <2> QED BY <2>1, <2>2 DEF Nibble
<1> HIDE DEF all, P
<1> DEFINE t == Tail(all)
<1>6. t \in Seq(Nibble) /\ Len(t) = 2 * n - 1 /\ t[1] = all[2] /\ all = <<all[1]>> \o t
  <2>1. all # <<>>
    BY <1>1, <1>4
  <2>2. t \in Seq(Nibble) /\ Len(t) = 2 * n - 1 /\ all = <<all[1]>> \o t
    BY <1>1, <1>4, <2>1
  <2>3. t[1] = all[2]
    BY <1>1, <1>4, <2>1
  <2> QED BY <2>2, <2>3
<1> HIDE DEF t
<1>7. Magnitude(all, 16) = all[1] * P + Magnitude(t, 16)
  <2>1. PICK d \in 0..(16 - 1) : d = all[1]
    BY <1>5
  <2>2. IsDigits(t, 16)
    BY <1>6, BytesAreDigits
  <2>3. Magnitude(<<d>> \o t, 16) = d * Power(16, Len(t)) + Magnitude(t, 16)
    BY <2>2, DigitInFront
  <2>4. Magnitude(all, 16) = Magnitude(<<d>> \o t, 16)
    BY <1>6, <2>1, Zenon
  <2> QED BY <1>6, <2>1, <2>3, <2>4 DEF P
<1>8. Magnitude(all, 16) = Magnitude(bytes, 256)
  BY SameNumber DEF all
<1>9. Magnitude(all, 16) \in Nat /\ Magnitude(t, 16) \in Nat /\ Magnitude(t, 16) < P
  <2>1. Magnitude(all, 16) \in Nat
    BY <1>4, NumbersAreNatural
  <2>2. Magnitude(t, 16) \in Nat /\ Magnitude(t, 16) < Power(16, Len(t))
    <3>1. PICK s \in Seq(Nibble) : s = t
      BY <1>6
    <3>2. Magnitude(s, 16) \in Nat /\ Magnitude(s, 16) < Power(16, Len(s))
      BY NumbersAreNatural
    <3> HIDE DEF t
    <3> QED BY <3>1, <3>2
  <2> QED BY <1>6, <2>1, <2>2 DEF P
<1>10. all # <<>>
  BY <1>1, <1>4
<1> QED BY <1>1, <1>3, <1>4, <1>5, <1>6, <1>7, <1>8, <1>9, <1>10 DEF t, all, P, SplitsOff

-----------------------------------------------------------------------------
(* Digits that are written: hexStrFromInt, of a width and compact *)

\* All the digits of an integer of w bytes.
LEMMA WholeBytesNumber ==
  ASSUME NEW w \in Nat \ {0}, NEW isSigned \in BOOLEAN, NEW v \in Int, InBytes(v, w, isSigned),
         NEW bytes, bytes = Digits(v, 256, w)
  PROVE  NumberOf(hexStrFromBinaryStr(bytes), isSigned) = v
<1> DEFINE all == hexStrFromBinaryStr(bytes)
<1>1. /\ bytes \in Seq(Byte) /\ Len(bytes) = w /\ bytes # <<>>
      /\ v = (IF isSigned THEN SignedNumber(bytes, 256) ELSE Magnitude(bytes, 256))
  BY BitsOfInteger
<1>2. bytes = binaryStrFromHexStr(all, isSigned)
  BY <1>1, BytesSurvive
<1>3. all \in Seq(Nibble) /\ all # <<>>
  <2>1. all \in Seq(Nibble) /\ Len(all) = 2 * w
    BY <1>1, HexOfBytes
  <2> HIDE DEF all
  <2> QED BY <2>1
<1> HIDE DEF all
<1>4. NumberOf(all, isSigned) = IF isSigned THEN SignedNumber(bytes, 256) ELSE Magnitude(bytes, 256)
  <2>1. IsPackedNumber(all, isSigned, bytes)
    BY <1>2, <1>3, PackedNumber
  <2> QED BY <2>1, Zenon DEF IsPackedNumber
<1> QED BY <1>1, <1>4 DEF all

\* The number of digits is cut from the left.
LEMMA DigitsOfWidth ==
  ASSUME NEW bytes \in Seq(Byte), bytes # <<>>, NEW isSigned \in BOOLEAN
  PROVE  /\ hexStrOfWidth(bytes, 2 * Len(bytes), isSigned) = hexStrFromBinaryStr(bytes)
         /\ hexStrOfWidth(bytes, 2 * Len(bytes) - 1, isSigned) = Tail(hexStrFromBinaryStr(bytes))
<1> DEFINE all == hexStrFromBinaryStr(bytes)
           n == Len(bytes)
           pack == IF isSigned /\ bytes # <<>> /\ bytes[1] >= 128 THEN 15 ELSE 0
<1>1. n \in Nat \ {0} /\ all \in Seq(Nibble) /\ Len(all) = 2 * n /\ all # <<>>
  BY WithoutFirstNibble DEF SplitsOff
<1>2. \A k : hexStrOfWidth(bytes, k, isSigned)
                = [i \in 1..k |-> IF i + Len(all) > k THEN all[i + Len(all) - k] ELSE pack]
  BY DEF hexStrOfWidth
<1> HIDE DEF all, pack, n
<1>3. hexStrOfWidth(bytes, 2 * n, isSigned) = all
  <2>1. \A i \in 1..(2 * n) : i + Len(all) > 2 * n /\ i + Len(all) - 2 * n = i
    BY <1>1
  <2>2. all = [i \in 1..(2 * n) |-> all[i]]
    BY <1>1
  <2>3. hexStrOfWidth(bytes, 2 * n, isSigned)
          = [i \in 1..(2 * n) |-> IF i + Len(all) > 2 * n THEN all[i + Len(all) - 2 * n] ELSE pack]
    BY <1>2
  <2> QED BY <2>1, <2>2, <2>3
<1>4. hexStrOfWidth(bytes, 2 * n - 1, isSigned) = Tail(all)
  <2>1. \A i \in 1..(2 * n - 1) : i + Len(all) > 2 * n - 1 /\ i + Len(all) - (2 * n - 1) = i + 1
    BY <1>1
  <2>2. Tail(all) = [i \in 1..(2 * n - 1) |-> all[i + 1]]
    <3>1. Tail(all) \in Seq(Nibble) /\ Len(Tail(all)) = 2 * n - 1
      BY <1>1
    <3>2. \A i \in 1..(2 * n - 1) : Tail(all)[i] = all[i + 1]
      BY <1>1
    <3>3. PICK t \in Seq(Nibble) : t = Tail(all)
      BY <3>1
    <3>4. t = [i \in 1..Len(t) |-> t[i]]
      OBVIOUS
    <3>5. Len(t) = 2 * n - 1 /\ \A i \in 1..(2 * n - 1) : t[i] = all[i + 1]
      BY <3>1, <3>2, <3>3, Zenon
    <3>6. t = [i \in 1..(2 * n - 1) |-> all[i + 1]]
      BY <3>4, <3>5, Zenon
    <3> QED BY <3>3, <3>6, Zenon
  <2>3. hexStrOfWidth(bytes, 2 * n - 1, isSigned)
          = [i \in 1..(2 * n - 1) |-> IF i + Len(all) > 2 * n - 1 THEN all[i + Len(all) - (2 * n - 1)] ELSE pack]
    BY <1>2
  <2> QED BY <2>1, <2>2, <2>3
<1> QED BY <1>3, <1>4 DEF all, n

\* A register's slot of one width or none; its numbers, as in the model.
IsSlot(slot) ==
  /\ slot.isSigned \in BOOLEAN /\ slot.isBinary \in BOOLEAN
  /\ slot.width \subseteq Nat \ {0} /\ \A m, n \in slot.width : m = n

NumbersOfDigits(n, isSigned) ==
  IF isSigned THEN -(Power(16, n) \div 2)..(Power(16, n) \div 2 - 1) ELSE 0..(Power(16, n) - 1)

\* What is written into an even number of digits.
THEOREM EvenWidth ==
  ASSUME NEW type, IsIntegerType(type), NEW value \in Int, NEW isSigned \in BOOLEAN,
         NEW v, v = AsSigned(value, type, isSigned), NEW n \in Nat \ {0}, n % 2 = 0
  PROVE  /\ hexStrFromInt(value, type, n, isSigned) = {} <=> v \notin NumbersOfDigits(n, isSigned)
         /\ \A hex \in hexStrFromInt(value, type, n, isSigned) :
              hex \in Seq(Nibble) /\ Len(hex) = n /\ NumberOf(hex, isSigned) = v
<1> DEFINE w == (n + 1) \div 2
           bytes == Digits(v, 256, w)
<1>1. w \in Nat \ {0} /\ n = 2 * w /\ ~(n % 2 = 1) /\ v \in Int
  BY AsSignedIsInBytes
<1> HIDE DEF w
<1>2. binaryStrFromInt(value, type, w, isSigned) = IF InBytes(v, w, isSigned) THEN {bytes} ELSE {}
  BY <1>1, WrittenBytes
<1>3. hexStrFromInt(value, type, n, isSigned)
        = IF InBytes(v, w, isSigned) THEN {hexStrOfWidth(bytes, n, isSigned)} ELSE {}
  <2>1. hexStrFromInt(value, type, n, isSigned)
          = {hexStrOfWidth(b, n, isSigned) : b \in binaryStrFromInt(value, type, w, isSigned)}
    BY <1>1 DEF hexStrFromInt, w
  <2> HIDE DEF bytes
  <2> QED BY <1>2, <2>1
<1>4. InBytes(v, w, isSigned) <=> v \in NumbersOfDigits(n, isSigned)
  <2>1. Power(256, w) = Power(16, n)
    BY <1>1, TwoDigitsPerByte
  <2> QED BY <1>1, <2>1, InBytesIs DEF NumbersOfDigits
<1>5. ASSUME InBytes(v, w, isSigned)
      PROVE  /\ hexStrOfWidth(bytes, n, isSigned) \in Seq(Nibble) /\ Len(hexStrOfWidth(bytes, n, isSigned)) = n
             /\ NumberOf(hexStrOfWidth(bytes, n, isSigned), isSigned) = v
  <2>1. bytes \in Seq(Byte) /\ Len(bytes) = w /\ bytes # <<>>
    BY <1>1, <1>5, BitsOfInteger
  <2>2. NumberOf(hexStrFromBinaryStr(bytes), isSigned) = v
    BY <1>1, <1>5, WholeBytesNumber
  <2> HIDE DEF bytes
  <2>3. hexStrOfWidth(bytes, n, isSigned) = hexStrFromBinaryStr(bytes)
    BY <1>1, <2>1, DigitsOfWidth
  <2>4. hexStrFromBinaryStr(bytes) \in Seq(Nibble) /\ Len(hexStrFromBinaryStr(bytes)) = n
    BY <1>1, <2>1, HexOfBytes
  <2> QED BY <2>2, <2>3, <2>4
<1> HIDE DEF bytes
<1> QED BY <1>3, <1>4, <1>5

\* What is written into an odd number of digits; if they are signed, they
\* denote the value modulo their width.
LEMMA OddWidth ==
  ASSUME NEW type, IsIntegerType(type), NEW value \in Int, NEW isSigned \in BOOLEAN,
         NEW v, v = AsSigned(value, type, isSigned), NEW n \in Nat \ {0}, n % 2 # 0
  PROVE  /\ ~isSigned => (hexStrFromInt(value, type, n, isSigned) = {} <=> v \notin NumbersOfDigits(n, isSigned))
         /\ \A hex \in hexStrFromInt(value, type, n, isSigned) :
              /\ hex \in Seq(Nibble) /\ Len(hex) = n
              /\ ~isSigned => NumberOf(hex, isSigned) = v
              /\ (NumberOf(hex, isSigned) - v) % Power(16, n) = 0
<1> DEFINE w == (n + 1) \div 2
           bytes == Digits(v, 256, w)
           all == hexStrFromBinaryStr(bytes)
           P == Power(16, n)
           cut == IsCutNibbleMeaningful(value, isSigned, bytes[1])
<1>1. w \in Nat \ {0} /\ n = 2 * w - 1 /\ n % 2 = 1 /\ v \in Int
  BY AsSignedIsInBytes
<1> HIDE DEF w
<1>2. binaryStrFromInt(value, type, w, isSigned) = IF InBytes(v, w, isSigned) THEN {bytes} ELSE {}
  BY <1>1, WrittenBytes
<1>3. hexStrFromInt(value, type, n, isSigned)
        = IF InBytes(v, w, isSigned) /\ ~cut THEN {hexStrOfWidth(bytes, n, isSigned)} ELSE {}
  <2>1. hexStrFromInt(value, type, n, isSigned)
          = {hexStrOfWidth(b, n, isSigned) : b \in
               {b \in binaryStrFromInt(value, type, w, isSigned) : ~IsCutNibbleMeaningful(value, isSigned, b[1])}}
    BY <1>1 DEF hexStrFromInt, w
  <2> HIDE DEF bytes
  <2> QED BY <1>2, <2>1
<1>4. P \in Nat \ {0} /\ Power(256, w) = 16 * P
  <2>1. n \in Nat /\ n + 1 = 2 * w /\ w \in Nat
    BY <1>1
  <2>2. \A i \in Nat : Power(16, i + 1) = 16 * Power(16, i)
    BY Powers
  <2>3. Power(16, n + 1) = 16 * P
    BY <2>1, <2>2
  <2>4. Power(256, w) = Power(16, 2 * w)
    BY <2>1, TwoDigitsPerByte
  <2> QED BY <2>1, <2>3, <2>4, PowersOfBases
<1>5. ASSUME InBytes(v, w, isSigned)
      PROVE  /\ bytes[1] \in 0..255 /\ all[1] = bytes[1] \div 16 /\ all[1] \in 0..15
             /\ hexStrOfWidth(bytes, n, isSigned) = Tail(all)
             /\ Tail(all) \in Seq(Nibble) /\ Len(Tail(all)) = n
             /\ Magnitude(all, 16) = all[1] * P + Magnitude(Tail(all), 16)
             /\ Magnitude(Tail(all), 16) \in Nat /\ Magnitude(Tail(all), 16) < P
             /\ \E k \in {0, 1} : v = Magnitude(all, 16) - k * (16 * P)
             /\ ~isSigned => v = Magnitude(all, 16)
  <2>1. bytes \in Seq(Byte) /\ Len(bytes) = w /\ bytes # <<>>
    BY <1>1, <1>5, BitsOfInteger
  <2>2. NumberOf(all, isSigned) = v
    BY <1>1, <1>5, WholeBytesNumber
  <2> HIDE DEF bytes, P
  <2>3. hexStrOfWidth(bytes, n, isSigned) = Tail(all)
    BY <1>1, <2>1, DigitsOfWidth
  <2>4. /\ bytes[1] \in 0..255 /\ all[1] = bytes[1] \div 16 /\ all[1] \in 0..15
        /\ Tail(all) \in Seq(Nibble) /\ Len(Tail(all)) = n /\ Len(all) = 2 * w
        /\ Magnitude(all, 16) = all[1] * P + Magnitude(Tail(all), 16)
        /\ Magnitude(all, 16) \in Nat /\ Magnitude(Tail(all), 16) \in Nat
        /\ Magnitude(Tail(all), 16) < P
    <3>1. PICK bs \in Seq(Byte) : bs = bytes
      BY <2>1
    <3>2. bs # <<>> /\ Len(bs) = w /\ all = hexStrFromBinaryStr(bs)
      BY <2>1, <3>1
    <3>3. P = Power(16, 2 * Len(bs) - 1)
      BY <1>1, <3>2 DEF P
    <3> DEFINE a == hexStrFromBinaryStr(bs)
               m == Len(bs)
    <3>4. /\ bs[1] \in 0..255 /\ a[1] = bs[1] \div 16 /\ a[1] \in 0..15
          /\ Tail(a) \in Seq(Nibble) /\ Len(Tail(a)) = 2 * m - 1 /\ Len(a) = 2 * m
          /\ Magnitude(a, 16) = a[1] * Power(16, 2 * m - 1) + Magnitude(Tail(a), 16)
          /\ Magnitude(a, 16) \in Nat /\ Magnitude(Tail(a), 16) \in Nat
          /\ Magnitude(Tail(a), 16) < Power(16, 2 * m - 1)
      <4>1. SplitsOff(bs)
        BY <3>2, WithoutFirstNibble
      <4> HIDE DEF all
      <4> QED BY <4>1 DEF SplitsOff
    <3>5. a = all /\ 2 * m - 1 = n /\ 2 * m = 2 * w /\ P = Power(16, 2 * m - 1)
      BY <1>1, <3>2, <3>3
    <3> HIDE DEF all, m, a
    <3> QED BY <3>1, <3>4, <3>5
  <2>5. Power(16, Len(all)) = 16 * P
    <3>1. Power(256, w) = Power(16, 2 * w)
      BY <1>1, TwoDigitsPerByte
    <3> QED BY <1>4, <2>4, <3>1
  <2> HIDE DEF all
  <2>6. \/ v = Magnitude(all, 16) - 16 * P
        \/ v = Magnitude(all, 16) - 0
    BY <2>2, <2>5 DEF NumberOf
  <2>7. ~isSigned => v = Magnitude(all, 16) - 0
    BY <2>2, <2>5 DEF NumberOf
  <2>8. 0 * (16 * P) = 0 /\ 1 * (16 * P) = 16 * P
    BY <1>4
  <2>9. \E k \in {0, 1} : v = Magnitude(all, 16) - k * (16 * P)
    BY <2>6, <2>8
  <2>10. ~isSigned => v = Magnitude(all, 16)
    BY <2>4, <2>7
  <2> QED BY <2>3, <2>4, <2>9, <2>10
<1> DEFINE t == Tail(all)
<1>6. ASSUME InBytes(v, w, isSigned), ~cut
      PROVE  /\ ~isSigned => NumberOf(t, isSigned) = v
             /\ (NumberOf(t, isSigned) - v) % P = 0
  <2> HIDE DEF t, all, P, bytes
  <2>1. PICK k \in {0, 1} : v = Magnitude(all, 16) - k * (16 * P)
    BY <1>5, <1>6
  <2>2. all[1] \in 0..15 /\ Magnitude(all, 16) = all[1] * P + Magnitude(t, 16) /\ Magnitude(t, 16) \in Nat
    BY <1>5, <1>6 DEF t
  <2>3. PICK j \in {0, 1} : NumberOf(t, isSigned) = Magnitude(t, 16) - j * P
    <3>1. Len(t) = n
      BY <1>5, <1>6 DEF t
    <3>2. NumberOf(t, isSigned) = Magnitude(t, 16) - P \/ NumberOf(t, isSigned) = Magnitude(t, 16) - 0
      BY <3>1 DEF NumberOf, P
    <3>3. 0 * P = 0 /\ 1 * P = P
      BY <1>4
    <3> QED BY <3>2, <3>3
  <2>4. NumberOf(t, isSigned) - v = P * (k * 16 - j - all[1])
    <3>1. PICK d \in 0..15, M \in Nat : d = all[1] /\ M = Magnitude(t, 16)
      BY <2>2
    <3>2. (M - j * P) - ((d * P + M) - k * (16 * P)) = P * (k * 16 - j - d)
      BY <1>4
    <3> QED BY <2>1, <2>2, <2>3, <3>1, <3>2
  <2>5. (NumberOf(t, isSigned) - v) % P = 0
    <3>1. PICK q \in Int : q = k * 16 - j - all[1]
      BY <2>2
    <3>2. P * q \in Int /\ P * q = P * q + 0 /\ 0 \in 0..(P - 1)
      BY <1>4
    <3>3. (P * q) % P = 0
      BY <1>4, <3>2, Division
    <3> QED BY <2>4, <3>1, <3>3
  <2>6. ASSUME ~isSigned
        PROVE  NumberOf(t, isSigned) = v
    <3>1. all[1] = 0
      <4>1. bytes[1] \div 16 = 0
        BY <1>6, <2>6 DEF IsCutNibbleMeaningful
      <4> QED BY <1>5, <1>6, <4>1
    <3>2. NumberOf(t, isSigned) = Magnitude(t, 16) - 0
      BY <2>6 DEF NumberOf
    <3>3. v = 0 * P + Magnitude(t, 16)
      BY <1>5, <1>6, <2>2, <2>6, <3>1
    <3> QED BY <1>4, <2>2, <3>2, <3>3
  <2> QED BY <2>5, <2>6
<1>7. ASSUME ~isSigned
      PROVE  InBytes(v, w, isSigned) /\ ~cut <=> v \in NumbersOfDigits(n, isSigned)
  <2> HIDE DEF t, all, P, bytes
  <2>1. v \in NumbersOfDigits(n, isSigned) <=> v \in 0..(P - 1)
    BY <1>7 DEF NumbersOfDigits, P
  <2>2. InBytes(v, w, isSigned) <=> v \in 0..(16 * P - 1)
    BY <1>1, <1>4, <1>7, InBytesIs
  <2>3. ASSUME InBytes(v, w, isSigned)
        PROVE  cut <=> v >= P
    <3>1. cut <=> all[1] # 0
      <4>1. cut <=> bytes[1] \div 16 # 0
        BY <1>7 DEF IsCutNibbleMeaningful
      <4> QED BY <1>5, <2>3, <4>1
    <3>2. v = all[1] * P + Magnitude(t, 16) /\ all[1] \in 0..15 /\ Magnitude(t, 16) \in Nat /\ Magnitude(t, 16) < P
      BY <1>5, <1>7, <2>3 DEF t
    <3>3. PICK d \in 0..15, M \in 0..(P - 1) : d = all[1] /\ M = Magnitude(t, 16)
      BY <1>4, <3>2
    <3>4. d # 0 => d * P >= P
      BY <1>4
    <3>5. d = 0 => d * P = 0
      BY <1>4
    <3>6. d * P \in Nat
      BY <1>4
    <3> QED BY <1>4, <3>1, <3>2, <3>3, <3>4, <3>5, <3>6
  <2> QED BY <1>1, <1>4, <2>1, <2>2, <2>3
<1>8. ASSUME NEW hex \in hexStrFromInt(value, type, n, isSigned)
      PROVE  hex = t /\ InBytes(v, w, isSigned) /\ ~cut
  <2> HIDE DEF bytes, cut, P
  <2>1. InBytes(v, w, isSigned) /\ ~cut /\ hex = hexStrOfWidth(bytes, n, isSigned)
    BY <1>3, <1>8
  <2> QED BY <1>5, <2>1
<1>9. ASSUME NEW hex \in hexStrFromInt(value, type, n, isSigned)
      PROVE  /\ hex \in Seq(Nibble) /\ Len(hex) = n
             /\ ~isSigned => NumberOf(hex, isSigned) = v
             /\ (NumberOf(hex, isSigned) - v) % Power(16, n) = 0
  <2> HIDE DEF cut, bytes
  <2>1. hex = t /\ InBytes(v, w, isSigned) /\ ~cut
    BY <1>8
  <2>2. t \in Seq(Nibble) /\ Len(t) = n
    BY <1>5, <2>1
  <2> HIDE DEF t
  <2> QED BY <1>6, <2>1, <2>2
<1>10. ~isSigned => (hexStrFromInt(value, type, n, isSigned) = {} <=> v \notin NumbersOfDigits(n, isSigned))
  <2> HIDE DEF cut, bytes
  <2> QED BY <1>3, <1>7
<1> QED BY <1>9, <1>10

\* Powers of 256.
LEMMA PowersOf256 ==
  \A i \in Nat : Power(256, i) \in Nat \ {0} /\ Power(256, i + 1) = 256 * Power(256, i)
<1>1. 256 \in Nat \ {0}
  OBVIOUS
<1> QED BY <1>1, Powers

\* Where a number is whose quotient is known.
LEMMA BoundsOfProduct ==
  ASSUME NEW q \in Nat \ {0}, NEW m \in Nat, NEW x \in 0..255, x * q <= m, m < (x + 1) * q
  PROVE  /\ m < 256 * q
         /\ x >= 16 => m >= 16 * q
         /\ x >= 8 => m >= 8 * q
         /\ x < 248 => m < 248 * q
<1>1. \A c, d \in Nat : c <= d => c * q <= d * q
  <2> SUFFICES ASSUME NEW c \in Nat, NEW d \in Nat, c <= d PROVE c * q <= d * q
    OBVIOUS
  <2>1. PICK e \in Nat : d = c + e
    <3>1. d - c \in Nat /\ d = c + (d - c)
      OBVIOUS
    <3> QED BY <3>1
  <2>2. d * q = c * q + e * q /\ e * q \in Nat /\ c * q \in Nat
    BY <2>1
  <2> QED BY <2>2
<1>2. x \in Nat /\ x + 1 \in Nat /\ x * q \in Nat /\ (x + 1) * q \in Nat
  OBVIOUS
<1>3. /\ (x + 1) * q <= 256 * q
      /\ x >= 16 => 16 * q <= x * q
      /\ x >= 8 => 8 * q <= x * q
      /\ x < 248 => (x + 1) * q <= 248 * q
  BY <1>1, <1>2
<1> QED BY <1>2, <1>3

\* The first of W bytes says where their number is.
LEMMA FirstByte ==
  ASSUME NEW bytes \in Seq(Byte), bytes # <<>>
  PROVE  LET Q == Power(256, Len(bytes) - 1) IN
         /\ Q \in Nat \ {0} /\ Power(256, Len(bytes)) = 256 * Q
         /\ bytes[1] * Q <= Magnitude(bytes, 256) /\ Magnitude(bytes, 256) < (bytes[1] + 1) * Q
<1>1. 256 \in Nat \ {0} /\ IsDigits(bytes, 256)
  BY BytesAreDigits
<1>2. Len(bytes) - 1 \in Nat /\ (Len(bytes) - 1) + 1 = Len(bytes)
  OBVIOUS
<1>3. /\ bytes[1] * Power(256, Len(bytes) - 1) <= Magnitude(bytes, 256)
      /\ Magnitude(bytes, 256) < (bytes[1] + 1) * Power(256, Len(bytes) - 1)
  <2>1. PICK b \in Nat \ {0} : b = 256 /\ IsDigits(bytes, b)
    BY <1>1
  <2>2. /\ bytes[1] * Power(b, Len(bytes) - 1) <= Magnitude(bytes, b)
        /\ Magnitude(bytes, b) < (bytes[1] + 1) * Power(b, Len(bytes) - 1)
    BY <2>1, FirstDigit
  <2> QED BY <2>1, <2>2, Zenon
<1>4. Power(256, Len(bytes) - 1) \in Nat \ {0} /\ Power(256, Len(bytes)) = 256 * Power(256, Len(bytes) - 1)
  <2>1. PICK b \in Nat \ {0} : b = 256
    BY <1>1
  <2>2. PICK i \in Nat : i = Len(bytes) - 1 /\ i + 1 = Len(bytes)
    BY <1>2
  <2>3. Power(b, i) \in Nat \ {0} /\ Power(b, i + 1) = b * Power(b, i)
    BY Powers
  <2> QED BY <2>1, <2>2, <2>3
<1> QED BY <1>3, <1>4

\* hexStrCompact writes the value into the fewest digits that can denote it.
THEOREM CompactDigits ==
  ASSUME NEW type, IsIntegerType(type), NEW value \in Int, NEW isSigned \in BOOLEAN,
         NEW v, v = AsSigned(value, type, isSigned)
  PROVE  LET hex == hexStrCompact(value, type, isSigned) IN
         /\ hex \in Seq(Nibble) /\ hex # <<>> /\ Len(hex) <= 2 * type.bytes
         /\ NumberOf(hex, isSigned) = v
         /\ v = value => Len(hex) = 1 \/ v \notin NumbersOfDigits(Len(hex) - 1, isSigned)
<1> DEFINE W == getIntNaturalByteWidth(v, type.bytes, isSigned)
<1>1. type.bytes \in Nat \ {0} /\ v \in Int /\ InBytes(v, type.bytes, isSigned)
  BY AsSignedIsInBytes DEF IsIntegerType
<1>2. W \in 1..type.bytes /\ InBytes(v, W, isSigned) /\ (W = 1 \/ ~InBytes(v, W - 1, isSigned))
  BY <1>1, NaturalWidth
<1>3. binaryStrCompact(value, type, isSigned) = Digits(v, 256, W)
  BY DEF binaryStrCompact
<1> HIDE DEF W
<1>4. W \in Nat \ {0} /\ W <= type.bytes
  BY <1>1, <1>2
<1>5. PICK bytes : bytes = Digits(v, 256, W)
  OBVIOUS
<1>6. bytes \in Seq(Byte) /\ Len(bytes) = W /\ bytes # <<>>
  BY <1>1, <1>2, <1>4, <1>5, BitsOfInteger
<1>7. NumberOf(hexStrFromBinaryStr(bytes), isSigned) = v
  BY <1>1, <1>2, <1>4, <1>5, WholeBytesNumber
<1>8. SplitsOff(bytes)
  BY <1>6, WithoutFirstNibble
<1> DEFINE all == hexStrFromBinaryStr(bytes)
           t == Tail(all)
           P == Power(16, 2 * W - 1)
           Q == Power(256, W - 1)
           M == Magnitude(all, 16)
           b == bytes[1]
           removed == zerothNibbleCanBeRemoved(isSigned, value < 0, b)
           hex == hexStrCompact(value, type, isSigned)
<1>9. /\ P \in Nat \ {0} /\ Power(16, 2 * W) = 16 * P
      /\ all \in Seq(Nibble) /\ Len(all) = 2 * W /\ all # <<>> /\ b \in 0..255
      /\ all[1] = b \div 16 /\ all[1] \in 0..15
      /\ t \in Seq(Nibble) /\ Len(t) = 2 * W - 1 /\ t[1] = b % 16
      /\ M = all[1] * P + Magnitude(t, 16) /\ M \in Nat
      /\ Magnitude(t, 16) \in Nat /\ Magnitude(t, 16) < P
      /\ M = Magnitude(bytes, 256)
  <2> HIDE DEF all
  <2> QED BY <1>6, <1>8 DEF SplitsOff, all
<1>10. Q \in Nat \ {0} /\ Power(256, W) = 256 * Q /\ b * Q <= M /\ M < (b + 1) * Q
  <2>1. /\ Q \in Nat \ {0} /\ Power(256, W) = 256 * Q
        /\ b * Q <= Magnitude(bytes, 256) /\ Magnitude(bytes, 256) < (b + 1) * Q
    BY <1>6, FirstByte
  <2> HIDE DEF Q, M, b
  <2> QED BY <1>9, <2>1
<1>11. P = 16 * Q
  <2>1. Power(256, W) = Power(16, 2 * W)
    BY <1>4, TwoDigitsPerByte
  <2> HIDE DEF P, Q
  <2> QED BY <1>9, <1>10, <2>1
<1>12. hex = IF removed THEN t ELSE all
  BY <1>3, <1>5 DEF hexStrCompact
<1>13. v = M - (IF isSigned /\ all[1] >= 8 THEN 16 * P ELSE 0)
  <2>1. v = M - (IF isSigned /\ all # <<>> /\ all[1] >= 8 THEN Power(16, Len(all)) ELSE 0)
    BY <1>7 DEF NumberOf
  <2> HIDE DEF all, M, P
  <2> QED BY <1>9, <2>1
<1>14. NumberOf(t, isSigned) = Magnitude(t, 16) - (IF isSigned /\ t[1] >= 8 THEN P ELSE 0) /\ t # <<>>
  <2>1. t # <<>>
    <3> HIDE DEF t
    <3> QED BY <1>4, <1>9
  <2>2. NumberOf(t, isSigned)
          = Magnitude(t, 16) - (IF isSigned /\ t # <<>> /\ t[1] >= 8 THEN Power(16, Len(t)) ELSE 0)
    BY DEF NumberOf
  <2>3. Power(16, Len(t)) = P
    BY <1>9
  <2> HIDE DEF t, P
  <2> QED BY <2>1, <2>2, <2>3
<1>15. removed <=> \/ isSigned /\ ~(value < 0) /\ b <= 7
                   \/ isSigned /\ value < 0 /\ b >= 248
                   \/ ~isSigned /\ b <= 15
  BY DEF zerothNibbleCanBeRemoved
<1> HIDE DEF all, t, P, Q, M, b, removed, hex
<1>16. CASE removed
  <2>1. hex = t
    BY <1>12, <1>16
  <2>2. NumberOf(t, isSigned) = v
    <3>1. PICK T \in Nat, p \in Nat : T = Magnitude(t, 16) /\ p = P
      BY <1>9
    <3>2. PICK e \in 0..15, x \in 0..255 : e = all[1] /\ x = b /\ e = x \div 16
      BY <1>9
    <3>3. t[1] = x % 16
      BY <1>9, <3>2
    <3>4. v = (e * p + T) - (IF isSigned /\ e >= 8 THEN 16 * p ELSE 0)
      <4>1. M = e * p + T
        BY <1>9, <3>1, <3>2, Zenon
      <4> QED BY <1>13, <3>1, <3>2, <4>1, Zenon
    <3>5. NumberOf(t, isSigned) = T - (IF isSigned /\ x % 16 >= 8 THEN p ELSE 0)
      BY <1>14, <3>1, <3>3, Zenon
    <3>6. \/ x <= 15 /\ (isSigned => x <= 7)
          \/ isSigned /\ x >= 248
      BY <1>15, <1>16, <3>2
    <3>7. CASE x <= 15 /\ (isSigned => x <= 7)
      <4>1. e = 0 /\ ~(isSigned /\ x % 16 >= 8)
        BY <3>2, <3>7
      <4>2. v = T
        BY <3>4, <4>1
      <4>3. NumberOf(t, isSigned) = T
        BY <3>5, <4>1
      <4> QED BY <4>2, <4>3
    <3>8. CASE isSigned /\ x >= 248
      <4>1. e = 15 /\ x % 16 >= 8
        BY <3>2, <3>8
      <4>2. v = (15 * p + T) - 16 * p
        BY <3>4, <3>8, <4>1
      <4>3. NumberOf(t, isSigned) = T - p
        BY <3>5, <3>8, <4>1
      <4> QED BY <4>2, <4>3
    <3> QED BY <3>6, <3>7, <3>8
  <2>3. Len(t) = 1 \/ v \notin NumbersOfDigits(Len(t) - 1, isSigned)
    <3>1. CASE W = 1
      BY <1>9, <3>1
    <3>2. CASE W # 1
      <4>1. W - 1 \in Nat /\ 2 * (W - 1) = Len(t) - 1 /\ ~InBytes(v, W - 1, isSigned)
        BY <1>2, <1>4, <1>9, <3>2
      <4>2. Power(256, W - 1) = Power(16, 2 * (W - 1))
        BY <4>1, TwoDigitsPerByte
      <4>3. Power(256, W - 1) = Power(16, Len(t) - 1)
        BY <4>1, <4>2
      <4> QED BY <1>1, <4>1, <4>3, InBytesIs DEF NumbersOfDigits
    <3> QED BY <3>1, <3>2
  <2>4. Len(t) <= 2 * type.bytes
    <3>1. 2 * W - 1 <= 2 * type.bytes
      BY <1>1, <1>4
    <3> QED BY <1>9, <3>1
  <2> QED BY <1>9, <1>14, <2>1, <2>2, <2>3, <2>4 DEF hex
<1>17. CASE ~removed
  <2>1. hex = all
    BY <1>12, <1>17
  <2>2. ASSUME v = value PROVE v \notin NumbersOfDigits(2 * W - 1, isSigned)
    <3>1. NumbersOfDigits(2 * W - 1, isSigned) = IF isSigned THEN -(8 * Q)..(8 * Q - 1) ELSE 0..(16 * Q - 1)
      <4>1. P \div 2 = 8 * Q
        BY <1>10, <1>11
      <4>2. NumbersOfDigits(2 * W - 1, isSigned) = IF isSigned THEN -(P \div 2)..(P \div 2 - 1) ELSE 0..(P - 1)
        BY DEF NumbersOfDigits, P
      <4> QED BY <1>11, <4>1, <4>2
    <3>a. /\ M \in Nat /\ Q \in Nat \ {0} /\ M < 256 * Q
          /\ b >= 16 => M >= 16 * Q
          /\ b >= 8 => M >= 8 * Q
          /\ b < 248 => M < 248 * Q
      <4>0. M \in Nat /\ b \in 0..255 /\ Q \in Nat \ {0}
        BY <1>9, <1>10, Zenon
      <4>1. PICK m \in Nat, q \in Nat \ {0}, x \in 0..255 : m = M /\ q = Q /\ x = b
        BY <4>0
      <4>2. x * q <= m /\ m < (x + 1) * q
        BY <1>10, <4>1
      <4>3. /\ m < 256 * q
            /\ x >= 16 => m >= 16 * q
            /\ x >= 8 => m >= 8 * q
            /\ x < 248 => m < 248 * q
        BY <4>2, BoundsOfProduct
      <4> QED BY <4>1, <4>3
    <3>2. CASE ~isSigned
      <4>1. b >= 16 /\ v = M
        BY <1>9, <1>13, <1>15, <1>17, <3>2
      <4> QED BY <3>1, <3>2, <3>a, <4>1
    <3>3. CASE isSigned /\ ~(value < 0)
      <4>1. b >= 8
        BY <1>9, <1>15, <1>17, <3>3
      <4>2. all[1] < 8 /\ v = M
        <5>1. M < 16 * P
          BY <1>11, <3>a
        <5>2. all[1] >= 8 => v < 0
          BY <1>13, <3>3, <5>1, <1>9, <1>11, SMTT(30)
        <5>3. ~(v < 0)
          BY <2>2, <3>3
        <5>4. all[1] < 8
          <6>1. PICK e \in 0..15 : e = all[1]
            BY <1>9
          <6> QED BY <5>2, <5>3, <6>1
        <5> QED BY <1>13, <5>4, <1>9, <1>11
      <4>3. v \notin -(8 * Q)..(8 * Q - 1)
        BY <3>a, <4>1, <4>2
      <4> QED BY <3>1, <3>3, <4>3
    <3>4. CASE isSigned /\ value < 0
      <4>1. b < 248
        BY <1>9, <1>15, <1>17, <3>4
      <4>2. v = M - 16 * P
        BY <1>1, <1>9, <1>13, <2>2, <3>4
      <4>3. v = M - 256 * Q
        BY <1>11, <3>a, <4>2
      <4>4. v \notin -(8 * Q)..(8 * Q - 1)
        BY <3>a, <4>1, <4>3
      <4> QED BY <3>1, <3>4, <4>4
    <3> QED BY <3>2, <3>3, <3>4
  <2>3. Len(all) = 2 * W /\ Len(all) - 1 = 2 * W - 1 /\ Len(all) <= 2 * type.bytes
    <3>1. PICK n, m : n = Len(all) /\ m = type.bytes
      OBVIOUS
    <3> HIDE DEF all, P, Q, M, b, t, hex, removed
    <3>2. n = 2 * W
      BY <1>9, <3>1, Zenon
    <3>a. m \in Nat /\ W \in 1..m
      BY <1>1, <1>4, <3>1
    <3>3. n = 2 * W /\ n - 1 = 2 * W - 1 /\ n <= 2 * m
      BY <3>2, <3>a
    <3> QED BY <3>1, <3>3, Zenon
  <2>4. NumberOf(all, isSigned) = v
    BY <1>7 DEF all
  <2> QED BY <1>9, <2>1, <2>2, <2>3, <2>4 DEF hex
<1> QED BY <1>16, <1>17

=============================================================================
