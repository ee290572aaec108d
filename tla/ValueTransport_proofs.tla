------------------------ MODULE ValueTransport_proofs ------------------------
(***************************************************************************)
(* Theorems about an integer on its way to the device and back, for all     *)
(* integer types, slots, values and contents, and whatever byte the line    *)
(* damages.  First the lemmas about checksums, then what is sent and         *)
(* accepted, then the invariant.                                            *)
(***************************************************************************)
EXTENDS ValueTransport, Conversions_proofs

-----------------------------------------------------------------------------
(* Sums of bytes *)

\* A function that follows the steps where it is in S is in S.
LEMMA StepsFollowed ==
  ASSUME NEW S, NEW n \in Nat, NEW start \in S, NEW step \in [1..n -> [S -> S]],
         NEW f, f = [i \in 0..n |-> f[i]], f[0] = start,
         \A i \in 1..n : f[i - 1] \in S => f[i] = step[i][f[i - 1]]
  PROVE  GoesUp(f, S, start, step, n)
<1> DEFINE U == {k \in 0..n : f[k] \in S}
<1>1. 0 \in U
  OBVIOUS
<1>2. ASSUME NEW k \in 1..n, k - 1 \in U
      PROVE  k \in U
  <2>1. step[k] \in [S -> S] /\ f[k - 1] \in S
    BY <1>2
  <2>2. f[k] = step[k][f[k - 1]]
    BY <2>1
  <2>3. f[k] \in S
    BY <2>1, <2>2
  <2> QED BY <2>3
<1>3. \A i \in 0..n : i \in U
  <2> HIDE DEF U
  <2> QED BY <1>1, <1>2, Upwards
<1>4. \A i \in 0..n : f[i] \in S
  BY <1>3
<1>5. f \in [0..n -> S]
  BY <1>4
<1>6. \A i \in 1..n : f[i - 1] \in S
  BY <1>4
<1> QED BY <1>5, <1>6 DEF GoesUp

\* The sums of the first bytes.
IsSum(f, bytes) ==
  /\ f \in [0..Len(bytes) -> Nat]
  /\ f[0] = 0
  /\ \A i \in 1..Len(bytes) : f[i] = f[i - 1] + bytes[i]

\* SumOfBytes is the last of them.
LEMMA SumsExist ==
  ASSUME NEW bytes \in Seq(Byte)
  PROVE  \E f : IsSum(f, bytes) /\ SumOfBytes(bytes) = f[Len(bytes)]
<1> DEFINE n == Len(bytes)
           Rec(p) == [i \in 0..n |-> IF i = 0 THEN 0 ELSE p[i - 1] + bytes[i]]
           step == [i \in 1..n |-> [x \in Nat |-> x + bytes[i]]]
           f == CHOOSE p : p = Rec(p)
<1>1. n \in Nat /\ \A i \in 1..n : bytes[i] \in Nat
  <2>1. n \in Nat /\ \A i \in 1..n : bytes[i] \in Byte
    BY ElementsOfSequence
  <2>2. Byte \subseteq Nat
    BY DEF Byte
  <2> QED BY <2>1, <2>2
<1>2. SumOfBytes(bytes) = f[n]
  BY DEF SumOfBytes
<1> HIDE DEF n
<1>3. step \in [1..n -> [Nat -> Nat]] /\ 0 \in Nat
  BY <1>1
<1>4. \A i \in 1..n : \A x \in Nat : step[i][x] = x + bytes[i]
  OBVIOUS
<1> HIDE DEF step
<1>5. PICK g : GoesUp(g, Nat, 0, step, n)
  BY <1>1, <1>3, StepsExist
<1>6. g = Rec(g)
  <2>1. g \in [0..n -> Nat] /\ g[0] = 0 /\ \A i \in 1..n : g[i] = step[i][g[i - 1]] /\ g[i - 1] \in Nat
    BY <1>1, <1>5 DEF GoesUp
  <2>2. \A i \in 0..n : g[i] = IF i = 0 THEN 0 ELSE g[i - 1] + bytes[i]
    <3>1. ASSUME NEW i \in 0..n, i # 0 PROVE i \in 1..n
      BY <1>1, <3>1
    <3> QED BY <1>4, <2>1, <3>1
  <2> QED BY <2>1, <2>2
<1>7. f = Rec(f)
  BY <1>6
<1> HIDE DEF f
<1>8. f[0] = 0 /\ \A i \in 1..n : f[i] = f[i - 1] + bytes[i]
  BY <1>1, <1>7
<1>9. GoesUp(f, Nat, 0, step, n)
  <2>1. f = [i \in 0..n |-> f[i]]
    BY <1>7
  <2>2. \A i \in 1..n : f[i - 1] \in Nat => f[i] = step[i][f[i - 1]]
    BY <1>4, <1>8
  <2> QED BY <1>1, <1>3, <1>8, <2>1, <2>2, StepsFollowed
<1>10. IsSum(f, bytes)
  BY <1>8, <1>9 DEF IsSum, GoesUp, n
<1> QED BY <1>2, <1>10 DEF n

\* bytes with another byte at place i.
IsDamaged(bytes, other, i) ==
  /\ bytes \in Seq(Byte) /\ other \in Seq(Byte) /\ Len(other) = Len(bytes)
  /\ i \in 1..Len(bytes) /\ other[i] # bytes[i]
  /\ \A j \in 1..Len(bytes) : j # i => other[j] = bytes[j]

\* Sums that differ by the difference of the bytes.
IsSumDamaged(bytes, other, i) ==
  /\ SumOfBytes(bytes) \in Nat /\ SumOfBytes(other) \in Nat
  /\ bytes[i] \in 0..255 /\ other[i] \in 0..255 /\ bytes[i] # other[i]
  /\ SumOfBytes(other) - SumOfBytes(bytes) = other[i] - bytes[i]

\* The sums differ by the difference of the bytes.
LEMMA SumIsDamaged ==
  ASSUME NEW bytes, NEW other, NEW i, IsDamaged(bytes, other, i)
  PROVE  IsSumDamaged(bytes, other, i)
<1> DEFINE n == Len(bytes)
<1>1. /\ bytes \in Seq(Byte) /\ other \in Seq(Byte) /\ n \in Nat /\ Len(other) = n /\ i \in 1..n
      /\ \A j \in 1..n : bytes[j] \in 0..255 /\ other[j] \in 0..255
      /\ \A j \in 1..n : j # i => other[j] = bytes[j]
      /\ bytes[i] # other[i]
  <2>1. /\ bytes \in Seq(Byte) /\ other \in Seq(Byte) /\ n \in Nat /\ Len(other) = n /\ i \in 1..n
        /\ \A j \in 1..n : j # i => other[j] = bytes[j]
        /\ bytes[i] # other[i]
    BY DEF IsDamaged
  <2>2. \A j \in 1..n : bytes[j] \in Byte /\ other[j] \in Byte
    BY <2>1, ElementsOfSequence
  <2> QED BY <2>1, <2>2 DEF Byte
<1>a. PICK a \in 0..255, b \in 0..255 : a = bytes[i] /\ b = other[i] /\ a # b
  BY <1>1
<1>2. PICK f : IsSum(f, bytes) /\ SumOfBytes(bytes) = f[n]
  BY <1>1, SumsExist
<1>3. PICK g : IsSum(g, other) /\ SumOfBytes(other) = g[n]
  BY <1>1, SumsExist
<1> HIDE DEF n
<1>4. /\ f \in [0..n -> Nat] /\ g \in [0..n -> Nat] /\ f[0] = 0 /\ g[0] = 0
      /\ \A j \in 1..n : f[j] = f[j - 1] + bytes[j] /\ g[j] = g[j - 1] + other[j]
  BY <1>1, <1>2, <1>3 DEF IsSum, n
<1> DEFINE d == b - a
           U == {k \in 0..n : g[k] = f[k] + (IF k >= i THEN d ELSE 0)}
<1>5. d \in Int /\ i \in Nat \ {0} /\ i <= n
  BY <1>1, <1>a
<1>6. 0 \in U
  BY <1>1, <1>4, <1>5
<1>7. ASSUME NEW k \in 1..n, k - 1 \in U
      PROVE  k \in U
  <2>1. /\ f[k - 1] \in Nat /\ g[k - 1] \in Nat /\ bytes[k] \in Nat /\ other[k] \in Nat
        /\ f[k] = f[k - 1] + bytes[k] /\ g[k] = g[k - 1] + other[k]
    <3>1. k \in 1..n /\ k - 1 \in 0..n
      BY <1>1
    <3>2. bytes[k] \in 0..255 /\ other[k] \in 0..255
      BY <1>1, <3>1
    <3>3. f[k - 1] \in Nat /\ g[k - 1] \in Nat
      BY <1>4, <3>1
    <3>4. f[k] = f[k - 1] + bytes[k] /\ g[k] = g[k - 1] + other[k]
      BY <1>4, <3>1
    <3>5. bytes[k] \in Nat /\ other[k] \in Nat
      BY <3>2
    <3> QED BY <3>3, <3>4, <3>5
  <2>2. g[k - 1] = f[k - 1] + (IF k - 1 >= i THEN d ELSE 0)
    BY <1>7
  <2>3. CASE k < i
    <3>1. other[k] = bytes[k] /\ ~(k - 1 >= i) /\ ~(k >= i)
      BY <1>1, <2>3
    <3> QED BY <2>1, <2>2, <3>1
  <2>4. CASE k = i
    <3>1. ~(k - 1 >= i) /\ k >= i
      BY <1>5, <2>4
    <3>2. other[k] = b /\ bytes[k] = a /\ b = a + d
      BY <1>a, <2>4
    <3> QED BY <1>5, <2>1, <2>2, <3>1, <3>2
  <2>5. CASE k > i
    <3>1. other[k] = bytes[k] /\ k - 1 >= i /\ k >= i
      BY <1>1, <2>5
    <3> HIDE DEF d
    <3> QED BY <1>5, <2>1, <2>2, <3>1
  <2> QED BY <1>5, <2>3, <2>4, <2>5
<1>8. n \in U
  <2> HIDE DEF U
  <2>1. \A k \in 0..n : k \in U
    BY <1>1, <1>6, <1>7, Upwards
  <2> QED BY <1>1, <2>1
<1>9. g[n] = f[n] + d /\ g[n] \in Nat /\ f[n] \in Nat
  BY <1>1, <1>4, <1>5, <1>8
<1> QED BY <1>a, <1>2, <1>3, <1>9 DEF IsSumDamaged

-----------------------------------------------------------------------------
(* The CRC: exclusive or, the register, and its steps *)

\* A bit of a number, as Xor16 takes it.
BitOf(x, i) == (x \div Power(2, i)) % 2

\* The bits below place i + 1.
LEMMA OneBitMore ==
  ASSUME NEW a \in Nat, NEW i \in Nat
  PROVE  /\ Power(2, i) \in Nat \ {0} /\ Power(2, i + 1) = 2 * Power(2, i)
         /\ BitOf(a, i) \in {0, 1}
         /\ a % Power(2, i) \in 0..(Power(2, i) - 1)
         /\ a % Power(2, i + 1) = (Power(2, i) * BitOf(a, i)) + (a % Power(2, i))
<1>1. 2 \in Nat \ {0}
  OBVIOUS
<1>2. Power(2, i) \in Nat \ {0} /\ Power(2, i + 1) = 2 * Power(2, i)
  BY <1>1, Powers
<1>3. PICK b \in Nat \ {0} : b = Power(2, i)
  BY <1>2
<1>4. a % (b * 2) = b * ((a \div b) % 2) + (a % b)
  <2>1. PICK P \in Nat \ {0} : P = 2
    OBVIOUS
  <2>2. a \in Int
    OBVIOUS
  <2>3. a % (b * P) = b * ((a \div b) % P) + (a % b)
    BY <2>2, DivideTwice
  <2> QED BY <2>1, <2>3
<1>5. b * 2 = 2 * b /\ a % b \in 0..(b - 1)
  BY Quotient
<1>6. (a \div b) \in Int
  BY Quotient
<1>7. (a \div b) % 2 \in {0, 1}
  BY <1>6
<1> QED BY <1>2, <1>3, <1>4, <1>5, <1>7 DEF BitOf

\* The exclusive or of the lowest bits, of more and more of them.
IsXor(f, a, b) ==
  /\ f \in [0..16 -> Nat] /\ f[0] = 0
  /\ \A i \in 1..16 : f[i] = f[i - 1] + Power(2, i - 1) * ((BitOf(a, i - 1) + BitOf(b, i - 1)) % 2)

\* There is such a function, and Xor16 is its last value.
LEMMA XorExists ==
  ASSUME NEW a \in Nat, NEW b \in Nat
  PROVE  \E f : IsXor(f, a, b) /\ Xor16(a, b) = f[16]
<1> DEFINE Bit(y, i) == (y \div Power(2, i)) % 2
           Rec(p) == [i \in 0..16 |->
              IF i = 0 THEN 0 ELSE p[i - 1] + Power(2, i - 1) * ((Bit(a, i - 1) + Bit(b, i - 1)) % 2)]
           f == CHOOSE p : p = Rec(p)
           add == [i \in 1..16 |-> Power(2, i - 1) * ((BitOf(a, i - 1) + BitOf(b, i - 1)) % 2)]
           step == [i \in 1..16 |-> [x \in Nat |-> x + add[i]]]
<1>1. Xor16(a, b) = f[16]
  BY DEF Xor16
<1>2. \A i \in 1..16 : add[i] \in Nat
  <2> SUFFICES ASSUME NEW i \in 1..16 PROVE add[i] \in Nat
    OBVIOUS
  <2>1. i - 1 \in Nat
    OBVIOUS
  <2>2. Power(2, i - 1) \in Nat /\ BitOf(a, i - 1) \in {0, 1} /\ BitOf(b, i - 1) \in {0, 1}
    BY <2>1, OneBitMore
  <2>3. \A p \in Nat : \A c, d \in {0, 1} : p * ((c + d) % 2) \in Nat
    OBVIOUS
  <2>4. Power(2, i - 1) * ((BitOf(a, i - 1) + BitOf(b, i - 1)) % 2) \in Nat
    BY <2>2, <2>3
  <2> QED BY <2>4
<1>3. \A p : Rec(p) = [i \in 0..16 |-> IF i = 0 THEN 0 ELSE p[i - 1] + add[i]]
  <2>1. \A i \in 0..16 : i # 0 => i \in 1..16
    OBVIOUS
  <2>2. \A i \in 1..16 : add[i] = Power(2, i - 1) * ((Bit(a, i - 1) + Bit(b, i - 1)) % 2)
    BY DEF BitOf
  <2> HIDE DEF add, Bit
  <2> QED BY <2>1, <2>2
<1>4. \A i \in 1..16 : add[i] = Power(2, i - 1) * ((BitOf(a, i - 1) + BitOf(b, i - 1)) % 2)
  OBVIOUS
<1> HIDE DEF Rec, Bit, add
<1>5. step \in [1..16 -> [Nat -> Nat]] /\ 0 \in Nat /\ 16 \in Nat
  BY <1>2
<1>6. \A i \in 1..16 : \A x \in Nat : step[i][x] = x + add[i]
  OBVIOUS
<1> HIDE DEF step
<1>7. PICK g : GoesUp(g, Nat, 0, step, 16)
  BY <1>5, StepsExist
<1>8. g = Rec(g)
  <2>1. g \in [0..16 -> Nat] /\ g[0] = 0 /\ \A i \in 1..16 : g[i] = step[i][g[i - 1]] /\ g[i - 1] \in Nat
    BY <1>7 DEF GoesUp
  <2>2. \A i \in 0..16 : g[i] = IF i = 0 THEN 0 ELSE g[i - 1] + add[i]
    <3>1. ASSUME NEW i \in 0..16, i # 0 PROVE i \in 1..16
      BY <3>1
    <3> QED BY <1>6, <2>1, <3>1
  <2>3. g = [i \in 0..16 |-> IF i = 0 THEN 0 ELSE g[i - 1] + add[i]]
    BY <2>1, <2>2
  <2> QED BY <1>3, <2>3
<1>9. f = Rec(f)
  BY <1>8
<1> HIDE DEF f
<1>10. f = [i \in 0..16 |-> IF i = 0 THEN 0 ELSE f[i - 1] + add[i]]
  BY <1>3, <1>9
<1>11. f[0] = 0 /\ \A i \in 1..16 : f[i] = f[i - 1] + add[i]
  BY <1>10
<1>12. GoesUp(f, Nat, 0, step, 16)
  <2>1. f = [i \in 0..16 |-> f[i]]
    BY <1>10
  <2>2. \A i \in 1..16 : f[i - 1] \in Nat => f[i] = step[i][f[i - 1]]
    BY <1>6, <1>11
  <2> QED BY <1>5, <1>11, <2>1, <2>2, StepsFollowed
<1>13. IsXor(f, a, b)
  BY <1>4, <1>11, <1>12 DEF IsXor, GoesUp
<1> QED BY <1>1, <1>13

\* Its bounds, and its lowest bit.
LEMMA XorBounds ==
  ASSUME NEW a \in Nat, NEW b \in Nat, NEW f, IsXor(f, a, b)
  PROVE  /\ \A i \in 0..16 : f[i] \in 0..(Power(2, i) - 1)
         /\ \A i \in 1..16 : f[i] % 2 = (a + b) % 2
<1>1. /\ f \in [0..16 -> Nat] /\ f[0] = 0
      /\ \A i \in 1..16 : f[i] = f[i - 1] + Power(2, i - 1) * ((BitOf(a, i - 1) + BitOf(b, i - 1)) % 2)
  BY DEF IsXor
<1> DEFINE U == {k \in 0..16 : f[k] \in 0..(Power(2, k) - 1)}
           T == {k \in 0..16 : k >= 1 => f[k] % 2 = (a + b) % 2}
<1>2. Power(2, 0) = 1
  <2>1. 2 \in Nat \ {0}
    OBVIOUS
  <2> QED BY <2>1, Powers
<1>3. 0 \in U /\ 0 \in T
  BY <1>1, <1>2
<1>4. ASSUME NEW k \in 1..16
      PROVE  /\ k - 1 \in U => k \in U
             /\ k - 1 \in T => k \in T
  <2>1. k - 1 \in Nat /\ (k - 1) + 1 = k
    OBVIOUS
  <2>2. /\ Power(2, k - 1) \in Nat \ {0} /\ Power(2, k) = 2 * Power(2, k - 1)
        /\ BitOf(a, k - 1) \in {0, 1} /\ BitOf(b, k - 1) \in {0, 1}
    BY <2>1, OneBitMore
  <2>3. PICK p \in Nat \ {0}, c \in {0, 1}, d \in {0, 1} :
          p = Power(2, k - 1) /\ c = BitOf(a, k - 1) /\ d = BitOf(b, k - 1)
    BY <2>2
  <2>4. PICK e \in {0, 1} : e = (c + d) % 2
    OBVIOUS
  <2>5. f[k] = f[k - 1] + p * e /\ f[k - 1] \in Nat /\ f[k] \in Nat
    <3>1. k - 1 \in 0..16 /\ k \in 0..16
      OBVIOUS
    <3>2. f[k - 1] \in Nat /\ f[k] \in Nat
      BY <1>1, <3>1
    <3>3. f[k] = f[k - 1] + Power(2, k - 1) * ((BitOf(a, k - 1) + BitOf(b, k - 1)) % 2)
      BY <1>1
    <3> QED BY <2>3, <2>4, <3>2, <3>3
  <2>6. p * e = (IF e = 1 THEN p ELSE 0)
    OBVIOUS
  <2>7. k - 1 \in U => k \in U
    <3>1. Power(2, k) = 2 * p
      BY <2>2, <2>3
    <3> QED BY <2>3, <2>5, <2>6, <3>1
  <2>8. CASE k = 1
    <3>1. f[k] = e /\ p = 1
      BY <1>1, <1>2, <2>3, <2>5, <2>6, <2>8
    <3>2. c = a % 2 /\ d = b % 2
      <4>1. \A x \in Nat : x \div 1 = x
        OBVIOUS
      <4> QED BY <1>2, <2>3, <2>8, <4>1 DEF BitOf
    <3>3. e % 2 = (a + b) % 2
      BY <2>4, <3>2
    <3> QED BY <2>7, <3>1, <3>3
  <2>9. CASE k # 1
    <3>1. k - 2 \in Nat /\ (k - 2) + 1 = k - 1 /\ k - 1 >= 1
      BY <2>9
    <3>2. PICK q \in Nat : p = 2 * q
      <4>1. \A i \in Nat : Power(2, i) \in Nat \ {0} /\ Power(2, i + 1) = 2 * Power(2, i)
        BY OneBitMore
      <4>2. Power(2, k - 2) \in Nat /\ Power(2, (k - 2) + 1) = 2 * Power(2, k - 2)
        BY <3>1, <4>1, Zenon
      <4> QED BY <2>3, <3>1, <4>2
    <3>3. PICK h \in Nat : p * e = 2 * h
      BY <2>6, <3>2
    <3>4. \A x, y \in Nat : (x + 2 * y) % 2 = x % 2
      OBVIOUS
    <3>5. f[k] % 2 = f[k - 1] % 2
      BY <2>5, <3>3, <3>4
    <3> QED BY <2>1, <2>7, <3>1, <3>5
  <2> QED BY <2>8, <2>9
<1>5. \A i \in 0..16 : i \in U /\ i \in T
  <2> HIDE DEF U, T
  <2>1. 16 \in Nat /\ (\A i \in 1..16 : i - 1 \in U => i \in U) /\ (\A i \in 1..16 : i - 1 \in T => i \in T)
    BY <1>4
  <2>2. \A i \in 0..16 : i \in U
    BY <1>3, <2>1, Upwards
  <2>3. \A i \in 0..16 : i \in T
    BY <1>3, <2>1, Upwards
  <2> QED BY <2>2, <2>3
<1> QED BY <1>5

\* What a register of the CRC holds.
Register == {x \in Nat : x < 65536}

\* Powers up to the register's.
LEMMA RegisterSize == Power(2, 16) = 65536
<1>1. Power(256, 0) = 1 /\ Power(256, 0 + 1) = 256 * Power(256, 0) /\ Power(256, 1 + 1) = 256 * Power(256, 1)
  <2>1. 256 \in Nat \ {0} /\ 0 \in Nat /\ 1 \in Nat
    OBVIOUS
  <2> QED BY <2>1, Powers, PowersOf256
<1>2. 0 + 1 = 1 /\ 1 + 1 = 2
  OBVIOUS
<1>3. Power(256, 2) = 65536
  BY <1>1, <1>2
<1>4. 2 \in Nat /\ 8 * 2 = 16
  OBVIOUS
<1>5. Power(2, 8 * 2) = Power(256, 2)
  BY <1>4, EightBitsPerByte
<1> QED BY <1>3, <1>4, <1>5

\* The sums of the bits of a and b are those of the bits of c and d.
HaveSameSums(a, b, c, d) ==
  \A i \in 0..15 : (BitOf(a, i) + BitOf(b, i)) % 2 = (BitOf(c, i) + BitOf(d, i)) % 2

\* Two exclusive ors that are equal are equal in every bit.
LEMMA XorInBits ==
  ASSUME NEW a \in Nat, NEW b \in Nat, NEW c \in Nat, NEW d \in Nat, Xor16(a, b) = Xor16(c, d)
  PROVE  HaveSameSums(a, b, c, d)
<1>1. PICK f : IsXor(f, a, b) /\ Xor16(a, b) = f[16]
  BY XorExists
<1>2. PICK g : IsXor(g, c, d) /\ Xor16(c, d) = g[16]
  BY XorExists
<1>3. \A i \in 0..16 : f[i] \in 0..(Power(2, i) - 1) /\ g[i] \in 0..(Power(2, i) - 1)
  BY <1>1, <1>2, XorBounds
<1> DEFINE one(i) == (BitOf(a, i) + BitOf(b, i)) % 2
           two(i) == (BitOf(c, i) + BitOf(d, i)) % 2
           U == {k \in 0..16 : f[16 - k] = g[16 - k]}
<1>4. ASSUME NEW i \in 1..16, f[i] = g[i]
      PROVE  f[i - 1] = g[i - 1] /\ one(i - 1) = two(i - 1)
  <2>1. i - 1 \in Nat /\ i - 1 \in 0..16
    OBVIOUS
  <2>2. /\ Power(2, i - 1) \in Nat \ {0}
        /\ BitOf(a, i - 1) \in {0, 1} /\ BitOf(b, i - 1) \in {0, 1}
        /\ BitOf(c, i - 1) \in {0, 1} /\ BitOf(d, i - 1) \in {0, 1}
    BY <2>1, OneBitMore
  <2>3. PICK p \in Nat \ {0} : p = Power(2, i - 1)
    BY <2>2
  <2>4. one(i - 1) \in {0, 1} /\ two(i - 1) \in {0, 1}
    BY <2>2
  <2>5. f[i] = f[i - 1] + p * one(i - 1) /\ g[i] = g[i - 1] + p * two(i - 1)
    BY <1>1, <1>2, <2>3 DEF IsXor
  <2>6. f[i - 1] \in 0..(p - 1) /\ g[i - 1] \in 0..(p - 1)
    BY <1>3, <2>1, <2>3
  <2> HIDE DEF one, two
  <2>7. PICK x \in {0, 1}, y \in {0, 1} : x = one(i - 1) /\ y = two(i - 1)
    BY <2>4
  <2>8. \A u, w \in 0..(p - 1) : u + p * x = w + p * y => u = w /\ x = y
    <3> SUFFICES ASSUME NEW u \in 0..(p - 1), NEW w \in 0..(p - 1), u + p * x = w + p * y
                 PROVE  u = w /\ x = y
      OBVIOUS
    <3>1. p * 0 = 0 /\ p * 1 = p
      OBVIOUS
    <3>2. x = y
      BY <3>1
    <3>3. p * y \in Int
      OBVIOUS
    <3> QED BY <3>2, <3>3
  <2>9. f[i - 1] + p * x = g[i - 1] + p * y
    BY <1>4, <2>5, <2>7
  <2> QED BY <2>6, <2>7, <2>8, <2>9
<1> HIDE DEF one, two
<1>5. \A i \in 0..16 : f[i] = g[i]
  <2>1. 0 \in U
    <3>1. 16 - 0 = 16 /\ 0 \in 0..16
      OBVIOUS
    <3> QED BY <1>1, <1>2, <3>1
  <2>2. ASSUME NEW k \in 1..16, k - 1 \in U
        PROVE  k \in U
    <3>1. 16 - (k - 1) \in 1..16 /\ (16 - (k - 1)) - 1 = 16 - k
      OBVIOUS
    <3>2. f[16 - (k - 1)] = g[16 - (k - 1)]
      BY <2>2
    <3>3. f[(16 - (k - 1)) - 1] = g[(16 - (k - 1)) - 1]
      BY <1>4, <3>1, <3>2
    <3> QED BY <3>1, <3>3
  <2>3. \A k \in 0..16 : k \in U
    <3> HIDE DEF U
    <3>1. 16 \in Nat
      OBVIOUS
    <3> QED BY <2>1, <2>2, <3>1, Upwards
  <2>4. ASSUME NEW i \in 0..16 PROVE f[i] = g[i]
    <3>1. 16 - i \in 0..16 /\ 16 - (16 - i) = i
      OBVIOUS
    <3>2. f[16 - (16 - i)] = g[16 - (16 - i)]
      BY <2>3, <3>1
    <3> QED BY <3>1, <3>2
  <2> QED BY <2>4
<1>6. ASSUME NEW i \in 0..15
      PROVE  one(i) = two(i)
  <2>1. i + 1 \in 1..16 /\ (i + 1) - 1 = i /\ i + 1 \in 0..16
    OBVIOUS
  <2>2. f[i + 1] = g[i + 1]
    BY <1>5, <2>1
  <2>3. one((i + 1) - 1) = two((i + 1) - 1)
    BY <1>4, <2>1, <2>2
  <2> QED BY <2>1, <2>3
<1> QED BY <1>6 DEF one, two, HaveSameSums

\* The bits below place i + 1.
LEMMA LowBits ==
  \A a, i \in Nat : a % Power(2, i + 1) = (Power(2, i) * BitOf(a, i)) + (a % Power(2, i))
BY OneBitMore

\* A register is what its bits are.
LEMMA SameBits ==
  ASSUME NEW a \in Register, NEW c \in Register, \A i \in 0..15 : BitOf(a, i) = BitOf(c, i)
  PROVE  a = c
<1> DEFINE U == {k \in 0..16 : a % Power(2, k) = c % Power(2, k)}
<1>0. a \in Nat /\ c \in Nat
  BY DEF Register
<1>1. a < 65536 /\ c < 65536
  BY DEF Register
<1>2. 0 \in U
  <2>1. Power(2, 0) = 1
    <3>1. 2 \in Nat \ {0} /\ 0 \in Nat
      OBVIOUS
    <3> QED BY <3>1, Powers
  <2>2. a % 1 = 0 /\ c % 1 = 0
    BY <1>0
  <2> QED BY <2>1, <2>2
<1>3. ASSUME NEW k \in 1..16, k - 1 \in U
      PROVE  k \in U
  <2>1. k - 1 \in Nat /\ k - 1 \in 0..15 /\ (k - 1) + 1 = k
    OBVIOUS
  <2>2. /\ a % Power(2, (k - 1) + 1) = (Power(2, k - 1) * BitOf(a, k - 1)) + (a % Power(2, k - 1))
        /\ c % Power(2, (k - 1) + 1) = (Power(2, k - 1) * BitOf(c, k - 1)) + (c % Power(2, k - 1))
    <3>1. \A i \in Nat : /\ a % Power(2, i + 1) = (Power(2, i) * BitOf(a, i)) + (a % Power(2, i))
                         /\ c % Power(2, i + 1) = (Power(2, i) * BitOf(c, i)) + (c % Power(2, i))
      BY <1>0, LowBits
    <3> QED BY <2>1, <3>1
  <2>3. BitOf(a, k - 1) = BitOf(c, k - 1) /\ a % Power(2, k - 1) = c % Power(2, k - 1)
    BY <1>3, <2>1
  <2>4. a % Power(2, (k - 1) + 1) = c % Power(2, (k - 1) + 1)
    BY <2>2, <2>3
  <2> QED BY <2>1, <2>4
<1>4. 16 \in U
  <2> HIDE DEF U
  <2>1. 16 \in Nat /\ 16 \in 0..16
    OBVIOUS
  <2>2. \A k \in 0..16 : k \in U
    BY <1>2, <1>3, <2>1, Upwards
  <2> QED BY <2>1, <2>2
<1>5. a % 65536 = c % 65536
  BY <1>4, RegisterSize
<1>6. a % 65536 = a /\ c % 65536 = c
  BY <1>0, <1>1
<1> QED BY <1>5, <1>6

\* Xor16 is a register's, has the lowest bit of the sum, and loses nothing of
\* either argument.
LEMMA XorLosesNothing ==
  /\ \A a, b \in Nat : Xor16(a, b) \in Register /\ Xor16(a, b) % 2 = (a + b) % 2
  /\ \A a, c \in Register : \A b \in Nat : Xor16(a, b) = Xor16(c, b) => a = c
  /\ \A a, c \in Register : \A b \in Nat : Xor16(b, a) = Xor16(b, c) => a = c
<1>1. ASSUME NEW a \in Nat, NEW b \in Nat
      PROVE  Xor16(a, b) \in Register /\ Xor16(a, b) % 2 = (a + b) % 2
  <2>1. PICK f : IsXor(f, a, b) /\ Xor16(a, b) = f[16]
    BY XorExists
  <2>2. 16 \in 0..16 /\ 16 \in 1..16
    OBVIOUS
  <2>3. f[16] \in 0..(Power(2, 16) - 1) /\ f[16] % 2 = (a + b) % 2
    BY <2>1, <2>2, XorBounds
  <2>4. f[16] \in Nat /\ f[16] < Power(2, 16)
    <3>1. PICK p \in Nat \ {0} : p = Power(2, 16)
      BY OneBitMore
    <3>2. f[16] \in 0..(p - 1)
      BY <2>3, <3>1
    <3> QED BY <3>1, <3>2
  <2> QED BY <2>1, <2>3, <2>4, RegisterSize DEF Register
<1>2. \A x, y, z \in {0, 1} : /\ (x + z) % 2 = (y + z) % 2 => x = y
                              /\ (z + x) % 2 = (z + y) % 2 => x = y
  OBVIOUS
<1>3. ASSUME NEW a \in Register, NEW c \in Register, NEW b \in Nat,
             Xor16(a, b) = Xor16(c, b) \/ Xor16(b, a) = Xor16(b, c)
      PROVE  a = c
  <2>1. a \in Nat /\ c \in Nat
    BY DEF Register
  <2>2. \A i \in 0..15 : i \in Nat
    OBVIOUS
  <2>3. \A i \in 0..15 : BitOf(a, i) \in {0, 1} /\ BitOf(b, i) \in {0, 1} /\ BitOf(c, i) \in {0, 1}
    BY <2>1, <2>2, OneBitMore
  <2>4. \A i \in 0..15 : \/ (BitOf(a, i) + BitOf(b, i)) % 2 = (BitOf(c, i) + BitOf(b, i)) % 2
                         \/ (BitOf(b, i) + BitOf(a, i)) % 2 = (BitOf(b, i) + BitOf(c, i)) % 2
    <3>1. CASE Xor16(a, b) = Xor16(c, b)
      <4>1. HaveSameSums(a, b, c, b)
        BY <2>1, <3>1, XorInBits
      <4> QED BY <4>1, Zenon DEF HaveSameSums
    <3>2. CASE Xor16(b, a) = Xor16(b, c)
      <4>1. HaveSameSums(b, a, b, c)
        BY <2>1, <3>2, XorInBits
      <4> QED BY <4>1, Zenon DEF HaveSameSums
    <3> QED BY <1>3, <3>1, <3>2
  <2>5. \A i \in 0..15 : BitOf(a, i) = BitOf(c, i)
    <3> SUFFICES ASSUME NEW i \in 0..15
                 PROVE  BitOf(a, i) = BitOf(c, i)
      OBVIOUS
    <3>1. PICK x \in {0, 1}, y \in {0, 1}, z \in {0, 1} : x = BitOf(a, i) /\ y = BitOf(c, i) /\ z = BitOf(b, i)
      BY <2>3
    <3>2. (x + z) % 2 = (y + z) % 2 \/ (z + x) % 2 = (z + y) % 2
      BY <2>4, <3>1, Zenon
    <3>3. x = y
      BY <1>2, <3>2
    <3> QED BY <3>1, <3>3
  <2> QED BY <2>5, SameBits
<1> QED BY <1>1, <1>3

\* So does a shift.
LEMMA ShiftLosesNothing ==
  /\ \A x \in Register : Shifted(x) \in Register
  /\ \A x, y \in Register : Shifted(x) = Shifted(y) => x = y
<1> DEFINE rest(x) == (2 * x) % 65536
<1>1. \A x \in Register : /\ x >= 32768 => /\ Shifted(x) = Xor16(rest(x), 4129)
                                           /\ rest(x) = 2 * x - 65536 /\ rest(x) \in Register /\ rest(x) \in Nat
                          /\ ~(x >= 32768) => Shifted(x) = 2 * x /\ 2 * x \in Register
  <2> SUFFICES ASSUME NEW x \in Register
               PROVE  /\ x >= 32768 => /\ Shifted(x) = Xor16(rest(x), 4129)
                                       /\ rest(x) = 2 * x - 65536 /\ rest(x) \in Register /\ rest(x) \in Nat
                      /\ ~(x >= 32768) => Shifted(x) = 2 * x /\ 2 * x \in Register
    OBVIOUS
  <2>1. x \in Nat /\ x < 65536
    BY DEF Register
  <2>2. x >= 32768 => (2 * x) % 65536 = 2 * x - 65536
    BY <2>1
  <2>3. x >= 32768 => 2 * x - 65536 \in Register /\ 2 * x - 65536 \in Nat
    BY <2>1 DEF Register
  <2>4. ~(x >= 32768) => 2 * x \in Register
    BY <2>1 DEF Register
  <2> QED BY <2>2, <2>3, <2>4 DEF Shifted
<1> HIDE DEF rest
<1>2. 4129 \in Nat
  OBVIOUS
<1>3. \A x \in Register : x >= 32768 => Shifted(x) \in Register /\ Shifted(x) % 2 = (rest(x) + 4129) % 2
  BY <1>1, <1>2, XorLosesNothing
<1>4. \A x \in Register : x >= 32768 => Shifted(x) % 2 = 1
  <2>1. \A x \in Nat : (2 * x - 65536 + 4129) % 2 = 1
    OBVIOUS
  <2>2. \A x \in Register : x >= 32768 => (rest(x) + 4129) % 2 = 1
    BY <1>1, <2>1 DEF Register
  <2> QED BY <1>3, <2>2
<1>5. \A x \in Register : ~(x >= 32768) => Shifted(x) % 2 = 0
  <2>1. \A x \in Nat : (2 * x) % 2 = 0
    OBVIOUS
  <2> QED BY <1>1, <2>1 DEF Register
<1>6. ASSUME NEW x \in Register, NEW y \in Register, Shifted(x) = Shifted(y)
      PROVE  x = y
  <2>1. x \in Nat /\ y \in Nat
    BY DEF Register
  <2>2. CASE x >= 32768 /\ y >= 32768
    <3>1. rest(x) = rest(y)
      BY <1>1, <1>2, <1>6, <2>2, XorLosesNothing
    <3> QED BY <1>1, <2>1, <2>2, <3>1
  <2>3. CASE ~(x >= 32768) /\ ~(y >= 32768)
    <3>1. 2 * x = 2 * y
      BY <1>1, <1>6, <2>3
    <3> QED BY <2>1, <3>1
  <2>4. (x >= 32768) <=> (y >= 32768)
    BY <1>4, <1>5, <1>6
  <2> QED BY <2>2, <2>3, <2>4
<1> QED BY <1>1, <1>3, <1>6

\* The register, bit by bit.
LEMMA BitsShifted ==
  ASSUME NEW byte \in Byte, NEW crc \in Register
  PROVE  \E f : /\ f \in [0..8 -> Register] /\ f[0] = Xor16(crc, 256 * byte)
                /\ \A i \in 1..8 : f[i] = Shifted(f[i - 1])
                /\ AddByte(byte, crc) = f[8]
<1> DEFINE start == Xor16(crc, 256 * byte)
           Rec(p) == [i \in 0..8 |-> IF i = 0 THEN start ELSE Shifted(p[i - 1])]
           step == [i \in 1..8 |-> [x \in Register |-> Shifted(x)]]
           f == CHOOSE p : p = Rec(p)
<1>1. AddByte(byte, crc) = f[8]
  BY DEF AddByte
<1>2. start \in Register
  <2>1. crc \in Nat /\ 256 * byte \in Nat
    BY DEF Register, Byte
  <2> QED BY <2>1, XorLosesNothing
<1> HIDE DEF start
<1>3. step \in [1..8 -> [Register -> Register]] /\ 8 \in Nat
  BY ShiftLosesNothing
<1>4. \A i \in 1..8 : \A x \in Register : step[i][x] = Shifted(x)
  OBVIOUS
<1> HIDE DEF step
<1>5. PICK g : GoesUp(g, Register, start, step, 8)
  BY <1>2, <1>3, StepsExist
<1>6. g = Rec(g)
  <2>1. g \in [0..8 -> Register] /\ g[0] = start /\ \A i \in 1..8 : g[i] = step[i][g[i - 1]] /\ g[i - 1] \in Register
    BY <1>5 DEF GoesUp
  <2>2. \A i \in 0..8 : g[i] = IF i = 0 THEN start ELSE Shifted(g[i - 1])
    <3>1. ASSUME NEW i \in 0..8, i # 0 PROVE i \in 1..8
      BY <3>1
    <3> QED BY <1>4, <2>1, <3>1
  <2> QED BY <2>1, <2>2
<1>7. f = Rec(f)
  BY <1>6
<1> HIDE DEF f
<1>8. f[0] = start /\ \A i \in 1..8 : f[i] = Shifted(f[i - 1])
  BY <1>7
<1>9. GoesUp(f, Register, start, step, 8)
  <2>1. f = [i \in 0..8 |-> f[i]]
    BY <1>7
  <2>2. \A i \in 1..8 : f[i - 1] \in Register => f[i] = step[i][f[i - 1]]
    BY <1>4, <1>8
  <2> QED BY <1>2, <1>3, <1>8, <2>1, <2>2, StepsFollowed
<1>10. f \in [0..8 -> Register]
  BY <1>9 DEF GoesUp
<1> QED BY <1>1, <1>8, <1>10 DEF start

\* A byte more in the register, and nothing of either is lost.
LEMMA AddLosesNothing ==
  /\ \A byte \in Byte : \A crc \in Register : AddByte(byte, crc) \in Register
  /\ \A byte \in Byte : \A crc, other \in Register : AddByte(byte, crc) = AddByte(byte, other) => crc = other
  /\ \A byte, other \in Byte : \A crc \in Register : AddByte(byte, crc) = AddByte(other, crc) => byte = other
<1>1. ASSUME NEW byte \in Byte, NEW crc \in Register
      PROVE  AddByte(byte, crc) \in Register
  <2>1. 8 \in 0..8
    OBVIOUS
  <2> QED BY <2>1, BitsShifted
<1>2. ASSUME NEW a \in Byte, NEW c \in Register, NEW b \in Byte, NEW d \in Register,
             AddByte(a, c) = AddByte(b, d)
      PROVE  Xor16(c, 256 * a) = Xor16(d, 256 * b)
  <2>1. PICK f : /\ f \in [0..8 -> Register] /\ f[0] = Xor16(c, 256 * a)
                 /\ \A i \in 1..8 : f[i] = Shifted(f[i - 1])
                 /\ AddByte(a, c) = f[8]
    BY BitsShifted
  <2>2. PICK g : /\ g \in [0..8 -> Register] /\ g[0] = Xor16(d, 256 * b)
                 /\ \A i \in 1..8 : g[i] = Shifted(g[i - 1])
                 /\ AddByte(b, d) = g[8]
    BY BitsShifted
  <2> DEFINE U == {k \in 0..8 : f[8 - k] = g[8 - k]}
  <2>3. 0 \in U
    <3>1. 8 - 0 = 8 /\ 0 \in 0..8
      OBVIOUS
    <3> QED BY <1>2, <2>1, <2>2, <3>1
  <2>4. ASSUME NEW k \in 1..8, k - 1 \in U
        PROVE  k \in U
    <3>1. 8 - (k - 1) \in 1..8 /\ (8 - (k - 1)) - 1 = 8 - k /\ 8 - k \in 0..8
      OBVIOUS
    <3>2. f[8 - (k - 1)] = g[8 - (k - 1)]
      BY <2>4
    <3>3. f[8 - (k - 1)] = Shifted(f[8 - k]) /\ g[8 - (k - 1)] = Shifted(g[8 - k])
      BY <2>1, <2>2, <3>1
    <3>4. f[8 - k] \in Register /\ g[8 - k] \in Register
      BY <2>1, <2>2, <3>1
    <3>5. f[8 - k] = g[8 - k]
      BY <3>2, <3>3, <3>4, ShiftLosesNothing
    <3> QED BY <3>5
  <2>5. 8 \in U
    <3> HIDE DEF U
    <3>1. 8 \in Nat /\ 8 \in 0..8
      OBVIOUS
    <3>2. \A k \in 0..8 : k \in U
      BY <2>3, <2>4, <3>1, Upwards
    <3> QED BY <3>1, <3>2
  <2>6. 8 - 8 = 0
    OBVIOUS
  <2>7. f[0] = g[0]
    BY <2>5, <2>6
  <2> QED BY <2>1, <2>2, <2>7
<1>3. \A byte \in Byte : 256 * byte \in Nat /\ 256 * byte \in Register
  BY DEF Byte, Register
<1>4. \A crc \in Register : crc \in Nat
  BY DEF Register
<1>5. ASSUME NEW byte \in Byte, NEW crc \in Register, NEW other \in Register,
             AddByte(byte, crc) = AddByte(byte, other)
      PROVE  crc = other
  <2>1. Xor16(crc, 256 * byte) = Xor16(other, 256 * byte)
    BY <1>2, <1>5
  <2> QED BY <1>3, <2>1, XorLosesNothing
<1>6. ASSUME NEW byte \in Byte, NEW other \in Byte, NEW crc \in Register,
             AddByte(byte, crc) = AddByte(other, crc)
      PROVE  byte = other
  <2>1. Xor16(crc, 256 * byte) = Xor16(crc, 256 * other)
    BY <1>2, <1>6
  <2>2. 256 * byte = 256 * other
    BY <1>3, <1>4, <2>1, XorLosesNothing
  <2> QED BY <2>2 DEF Byte
<1> QED BY <1>1, <1>5, <1>6

\* The register, byte by byte.
IsCrc(f, bytes) ==
  /\ f \in [0..Len(bytes) -> Register]
  /\ f[0] = 65535
  /\ \A i \in 1..Len(bytes) : f[i] = AddByte(bytes[i], f[i - 1])

\* There is such a function, and the CRC is its last value.
LEMMA CrcsExist ==
  ASSUME NEW bytes \in Seq(Byte)
  PROVE  \E f : IsCrc(f, bytes) /\ checksumCrcCcit16(bytes) = Digits(f[Len(bytes)], 16, 4)
<1> DEFINE seed == 65535
           n == Len(bytes)
           Rec(p) == [i \in 0..n |-> IF i = 0 THEN seed ELSE AddByte(bytes[i], p[i - 1])]
           step == [i \in 1..n |-> [x \in Register |-> AddByte(bytes[i], x)]]
           f == CHOOSE p : p = Rec(p)
<1>1. n \in Nat /\ \A i \in 1..n : bytes[i] \in Byte
  BY ElementsOfSequence
<1>2. checksumCrcCcit16(bytes) = Digits(f[n], 16, 4)
  BY DEF checksumCrcCcit16
<1>a. seed \in Register
  BY DEF Register
<1> HIDE DEF n, seed
<1>3. step \in [1..n -> [Register -> Register]] /\ seed \in Register
  BY <1>1, <1>a, AddLosesNothing
<1>4. \A i \in 1..n : \A x \in Register : step[i][x] = AddByte(bytes[i], x)
  OBVIOUS
<1> HIDE DEF step
<1>5. PICK g : GoesUp(g, Register, seed, step, n)
  BY <1>1, <1>3, StepsExist
<1>6. g = Rec(g)
  <2>1. g \in [0..n -> Register] /\ g[0] = seed /\ \A i \in 1..n : g[i] = step[i][g[i - 1]] /\ g[i - 1] \in Register
    BY <1>1, <1>5 DEF GoesUp
  <2>2. \A i \in 0..n : g[i] = IF i = 0 THEN seed ELSE AddByte(bytes[i], g[i - 1])
    <3>1. ASSUME NEW i \in 0..n, i # 0 PROVE i \in 1..n
      BY <1>1, <3>1
    <3> QED BY <1>4, <2>1, <3>1
  <2> QED BY <2>1, <2>2
<1>7. f = Rec(f)
  BY <1>6
<1> HIDE DEF f
<1>8. f[0] = seed /\ \A i \in 1..n : f[i] = AddByte(bytes[i], f[i - 1])
  BY <1>1, <1>7
<1>9. GoesUp(f, Register, seed, step, n)
  <2>1. f = [i \in 0..n |-> f[i]]
    BY <1>7
  <2>2. \A i \in 1..n : f[i - 1] \in Register => f[i] = step[i][f[i - 1]]
    BY <1>4, <1>8
  <2> QED BY <1>1, <1>3, <1>8, <2>1, <2>2, StepsFollowed
<1>10. IsCrc(f, bytes)
  BY <1>8, <1>9 DEF IsCrc, GoesUp, n, seed
<1> QED BY <1>2, <1>10 DEF n

\* From the damaged byte on the registers differ.
LEMMA CrcIsDamaged ==
  ASSUME NEW bytes, NEW other, NEW i, IsDamaged(bytes, other, i),
         NEW f, IsCrc(f, bytes), NEW g, IsCrc(g, other)
  PROVE  f[Len(bytes)] # g[Len(bytes)]
<1> DEFINE n == Len(bytes)
           U == {k \in 0..n : IF k >= i THEN f[k] # g[k] ELSE f[k] = g[k]}
<1>1. /\ bytes \in Seq(Byte) /\ other \in Seq(Byte) /\ n \in Nat /\ Len(other) = n /\ i \in 1..n
      /\ \A j \in 1..n : j # i => other[j] = bytes[j]
      /\ bytes[i] # other[i]
  BY DEF IsDamaged
<1>2. \A j \in 1..n : bytes[j] \in Byte /\ other[j] \in Byte
  BY <1>1, ElementsOfSequence
<1>3. /\ f \in [0..n -> Register] /\ g \in [0..n -> Register] /\ f[0] = g[0]
      /\ \A j \in 1..n : f[j] = AddByte(bytes[j], f[j - 1]) /\ g[j] = AddByte(other[j], g[j - 1])
  BY <1>1 DEF IsCrc
<1> HIDE DEF n
<1>4. i \in Nat \ {0} /\ i <= n
  BY <1>1
<1>5. 0 \in U
  BY <1>1, <1>3, <1>4
<1>6. ASSUME NEW k \in 1..n, k - 1 \in U
      PROVE  k \in U
  <2>1. k - 1 \in 0..n /\ f[k - 1] \in Register /\ g[k - 1] \in Register
    BY <1>1, <1>3
  <2>2. f[k] = AddByte(bytes[k], f[k - 1]) /\ g[k] = AddByte(other[k], g[k - 1])
    BY <1>3
  <2>3. bytes[k] \in Byte /\ other[k] \in Byte
    BY <1>2
  <2>4. IF k - 1 >= i THEN f[k - 1] # g[k - 1] ELSE f[k - 1] = g[k - 1]
    BY <1>6
  <2>5. CASE k < i
    <3>1. other[k] = bytes[k] /\ f[k - 1] = g[k - 1] /\ ~(k >= i)
      BY <1>1, <1>4, <2>4, <2>5
    <3> QED BY <1>1, <2>2, <3>1
  <2>6. CASE k = i
    <3>1. other[k] # bytes[k] /\ f[k - 1] = g[k - 1] /\ k >= i
      BY <1>1, <1>4, <2>4, <2>6
    <3>2. f[k] # g[k]
      BY <2>1, <2>2, <2>3, <3>1, AddLosesNothing
    <3> QED BY <1>1, <3>1, <3>2
  <2>7. CASE k > i
    <3>1. other[k] = bytes[k] /\ f[k - 1] # g[k - 1] /\ k >= i
      BY <1>1, <1>4, <2>4, <2>7
    <3>2. f[k] # g[k]
      BY <2>1, <2>2, <2>3, <3>1, AddLosesNothing
    <3> QED BY <1>1, <3>1, <3>2
  <2> QED BY <1>4, <2>5, <2>6, <2>7
<1>7. n \in U
  <2> HIDE DEF U
  <2>1. \A k \in 0..n : k \in U
    BY <1>1, <1>5, <1>6, Upwards
  <2> QED BY <1>1, <2>1
<1> QED BY <1>4, <1>7 DEF n

-----------------------------------------------------------------------------
(* Checksums of data and of damaged data *)

\* Numbers with the same digits are the same modulo their power.
LEMMA SameDigits ==
  ASSUME NEW v \in Int, NEW w \in Int, NEW n \in Nat, Digits(v, 16, n) = Digits(w, 16, n)
  PROVE  v % Power(16, n) = w % Power(16, n)
<1>1. PICK b \in Nat \ {0} : b = 16
  OBVIOUS
<1>2. \A u \in Int : Magnitude(Digits(u, b, n), b) = u % Power(b, n)
  BY NumberOfDigits
<1>3. Digits(v, b, n) = Digits(w, b, n)
  BY <1>1
<1>4. v % Power(b, n) = w % Power(b, n)
  <2>1. Magnitude(Digits(v, b, n), b) = Magnitude(Digits(w, b, n), b)
    BY <1>3, Zenon
  <2> QED BY <1>2, <2>1, Zenon
<1> QED BY <1>1, <1>4

\* The base of hexadecimal digits.
LEMMA SixteenDigits ==
  \A v \in Int : \A n \in Nat : Digits(v, 16, n) \in Seq(Nibble) /\ Len(Digits(v, 16, n)) = n
<1>1. 16 \in Nat \ {0}
  OBVIOUS
<1>2. \A v \in Int : \A n \in Nat : IsDigits(Digits(v, 16, n), 16) /\ Len(Digits(v, 16, n)) = n
  BY <1>1, DigitsAreDigits
<1> QED BY <1>2, BytesAreDigits

\* Powers of sixteen that the checksums have as many numbers as.
LEMMA SixteenPowers == Power(16, 2) = 256 /\ Power(16, 4) = 65536 /\ Power(16, 8) \in Nat /\ Power(16, 8) >= 256
<1>1. Power(16, 0) = 1 /\ \A i \in Nat : Power(16, i + 1) = 16 * Power(16, i) /\ Power(16, i) \in Nat \ {0}
  <2>1. PICK b \in Nat \ {0} : b = 16
    OBVIOUS
  <2>2. Power(b, 0) = 1 /\ \A i \in Nat : Power(b, i + 1) = b * Power(b, i) /\ Power(b, i) \in Nat \ {0}
    BY Powers
  <2> QED BY <2>1, <2>2
<1>2. Power(16, 1) = 16
  <2>1. Power(16, 0 + 1) = 16 * Power(16, 0) /\ 0 + 1 = 1
    BY <1>1
  <2> QED BY <1>1, <2>1
<1>3. Power(16, 2) = 256
  <2>1. Power(16, 1 + 1) = 16 * Power(16, 1) /\ 1 + 1 = 2
    BY <1>1
  <2> QED BY <1>2, <2>1
<1>4. Power(16, 3) = 4096
  <2>1. Power(16, 2 + 1) = 16 * Power(16, 2) /\ 2 + 1 = 3
    BY <1>1
  <2> QED BY <1>3, <2>1
<1>5. Power(16, 4) = 65536
  <2>1. Power(16, 3 + 1) = 16 * Power(16, 3) /\ 3 + 1 = 4
    BY <1>1
  <2> QED BY <1>4, <2>1
<1>6. Power(16, 8) \in Nat /\ Power(16, 8) >= 256
  <2>1. Power(256, 1) = 256
    <3>1. Power(256, 0) = 1 /\ Power(256, 0 + 1) = 256 * Power(256, 0) /\ 0 + 1 = 1
      <4>1. 256 \in Nat \ {0} /\ 0 \in Nat
        OBVIOUS
      <4> QED BY <4>1, Powers, PowersOf256
    <3> QED BY <3>1
  <2>2. 1 \in Nat /\ 4 \in Nat /\ 1 <= 4 /\ 2 * 4 = 8
    OBVIOUS
  <2>3. Power(256, 1) <= Power(256, 4) /\ Power(256, 4) = Power(16, 2 * 4)
    BY <2>2, PowerGrows, TwoDigitsPerByte
  <2>4. Power(16, 8) \in Nat
    <3>1. 8 \in Nat
      OBVIOUS
    <3> QED BY <3>1, PowersOfBases
  <2> QED BY <2>1, <2>2, <2>3, <2>4
<1> QED BY <1>3, <1>5, <1>6

\* A checksum has the digits that the regular expressions expect.
LEMMA ChecksumDigits ==
  ASSUME NEW c \in Checksums, NEW bytes \in Seq(Byte)
  PROVE  /\ getChecksumAlgorithm(c, bytes) \in Seq(Nibble)
         /\ Len(getChecksumAlgorithm(c, bytes)) = RegexLength(c)
         /\ RegexLength(c) \in {0, 2, 4, 8}
<1>1. PICK s \in Int : s = SumOfBytes(bytes)
  <2>1. PICK f : IsSum(f, bytes) /\ SumOfBytes(bytes) = f[Len(bytes)]
    BY SumsExist
  <2>2. Len(bytes) \in 0..Len(bytes)
    OBVIOUS
  <2>3. SumOfBytes(bytes) \in Nat
    BY <2>1, <2>2 DEF IsSum
  <2> QED BY <2>3
<1>2. PICK r \in Int : checksumCrcCcit16(bytes) = Digits(r, 16, 4)
  <2>1. PICK f : IsCrc(f, bytes) /\ checksumCrcCcit16(bytes) = Digits(f[Len(bytes)], 16, 4)
    BY CrcsExist
  <2>2. Len(bytes) \in 0..Len(bytes)
    OBVIOUS
  <2>3. f[Len(bytes)] \in Register
    BY <2>1, <2>2 DEF IsCrc
  <2>4. f[Len(bytes)] \in Int
    BY <2>3 DEF Register
  <2> QED BY <2>1, <2>4
<1>3. PICK m \in Int : m = s % 256
  OBVIOUS
<1>4. checksum8(bytes) = Digits(m, 16, 2) /\ checksum32(bytes) = Digits(s, 16, 8)
  BY <1>1, <1>3 DEF checksum8, checksum32
<1>5. /\ checksum8(bytes) \in Seq(Nibble) /\ Len(checksum8(bytes)) = 2
      /\ checksum32(bytes) \in Seq(Nibble) /\ Len(checksum32(bytes)) = 8
      /\ checksumCrcCcit16(bytes) \in Seq(Nibble) /\ Len(checksumCrcCcit16(bytes)) = 4
  BY <1>2, <1>4, SixteenDigits
<1>6. <<>> \in Seq(Nibble) /\ Len(<<>>) = 0
  OBVIOUS
<1>7. CASE c = "none"
  BY <1>6, <1>7 DEF getChecksumAlgorithm, RegexLength
<1>8. CASE c = "cs8"
  BY <1>5, <1>8 DEF getChecksumAlgorithm, RegexLength
<1>9. CASE c = "cs32"
  BY <1>5, <1>9 DEF getChecksumAlgorithm, RegexLength
<1>10. CASE c = "crcccit16"
  BY <1>5, <1>10 DEF getChecksumAlgorithm, RegexLength
<1> QED BY <1>7, <1>8, <1>9, <1>10 DEF Checksums

\* Do two numbers differ in their last digits?
AreApart(s, t, P) == s % P # t % P

\* Numbers that differ by less than a byte differ modulo 256 or more.
LEMMA CloseNumbers ==
  ASSUME NEW s \in Nat, NEW t \in Nat, NEW a \in 0..255, NEW b \in 0..255, a # b, t - s = b - a,
         NEW P \in Nat, P >= 256
  PROVE  AreApart(s, t, P)
<1>1. SUFFICES ASSUME s % P = t % P PROVE FALSE
  BY DEF AreApart
<1>2. PICK q \in Int, r \in Int, m \in 0..(P - 1) : s = P * q + m /\ t = P * r + m
  <2>1. P \in Nat \ {0} /\ s \in Int /\ t \in Int
    OBVIOUS
  <2>2. /\ s \div P \in Int /\ s % P \in 0..(P - 1) /\ s = P * (s \div P) + (s % P)
        /\ t \div P \in Int /\ t = P * (t \div P) + (t % P)
    BY <2>1, Quotient
  <2>3. PICK q \in Int, r \in Int, m \in 0..(P - 1) : q = s \div P /\ r = t \div P /\ m = s % P
    BY <2>2
  <2>4. s = P * q + m /\ t = P * r + m
    BY <1>1, <2>2, <2>3
  <2> QED BY <2>4
<1>3. PICK k \in Int : k = r - q
  OBVIOUS
<1>4. t - s = P * k
  BY <1>2, <1>3
<1>5. CASE k = 0
  BY <1>4, <1>5
<1>6. CASE k > 0
  <2>1. PICK h \in Nat : k = h + 1
    <3>1. k - 1 \in Nat /\ k = (k - 1) + 1
      BY <1>6
    <3> QED BY <3>1
  <2>2. P * k = P * h + P /\ P * h \in Nat
    BY <2>1
  <2> QED BY <1>4, <2>2
<1>7. CASE k < 0
  <2>1. PICK h \in Nat : k = -(h + 1)
    <3>1. -k - 1 \in Nat /\ k = -((-k - 1) + 1)
      BY <1>7
    <3> QED BY <3>1
  <2>2. P * k = -(P * h + P) /\ P * h \in Nat
    BY <2>1
  <2> QED BY <1>4, <2>2
<1> QED BY <1>5, <1>6, <1>7

\* A damaged byte changes every checksum.
THEOREM ChecksumsDiffer ==
  ASSUME NEW c \in Checksums \ {"none"}, NEW bytes, NEW other, NEW i, IsDamaged(bytes, other, i)
  PROVE  getChecksumAlgorithm(c, bytes) # getChecksumAlgorithm(c, other)
<1>0. IsSumDamaged(bytes, other, i)
  BY SumIsDamaged
<1>1. PICK s \in Nat, t \in Nat : s = SumOfBytes(bytes) /\ t = SumOfBytes(other)
  BY <1>0 DEF IsSumDamaged
<1>c. PICK a \in 0..255, b \in 0..255 : a = bytes[i] /\ b = other[i]
  BY <1>0 DEF IsSumDamaged
<1>a. a # b /\ t - s = b - a
  BY <1>0, <1>1, <1>c DEF IsSumDamaged
<1>b. \A P \in Nat : P >= 256 => s % P # t % P
  <2> SUFFICES ASSUME NEW P \in Nat, P >= 256
               PROVE  s % P # t % P
    OBVIOUS
  <2>1. AreApart(s, t, P)
    BY <1>a, CloseNumbers
  <2> QED BY <2>1 DEF AreApart
<1>2. checksum8(bytes) # checksum8(other)
  <2>1. SUFFICES ASSUME Digits(s % 256, 16, 2) = Digits(t % 256, 16, 2) PROVE FALSE
    BY <1>1 DEF checksum8
  <2>2. s % 256 \in 0..255 /\ t % 256 \in 0..255
    OBVIOUS
  <2>3. (s % 256) % Power(16, 2) = (t % 256) % Power(16, 2)
    <3>1. s % 256 \in Int /\ t % 256 \in Int /\ 2 \in Nat
      BY <2>2
    <3> QED BY <2>1, <3>1, SameDigits
  <2>4. s % 256 = t % 256
    <3>1. \A x \in 0..255 : x % 256 = x
      OBVIOUS
    <3> QED BY <2>2, <2>3, <3>1, SixteenPowers
  <2>5. 256 \in Nat /\ 256 >= 256
    OBVIOUS
  <2> QED BY <1>b, <2>4, <2>5
<1>3. checksum32(bytes) # checksum32(other)
  <2>1. SUFFICES ASSUME Digits(s, 16, 8) = Digits(t, 16, 8) PROVE FALSE
    BY <1>1 DEF checksum32
  <2>2. PICK P \in Nat : P = Power(16, 8) /\ P >= 256
    BY SixteenPowers
  <2>3. s % P = t % P
    <3>1. s \in Int /\ t \in Int /\ 8 \in Nat
      OBVIOUS
    <3> QED BY <2>1, <2>2, <3>1, SameDigits
  <2> QED BY <1>b, <2>2, <2>3
<1>4. checksumCrcCcit16(bytes) # checksumCrcCcit16(other)
  <2>1. bytes \in Seq(Byte) /\ other \in Seq(Byte) /\ Len(other) = Len(bytes)
    BY DEF IsDamaged
  <2>2. PICK f : IsCrc(f, bytes) /\ checksumCrcCcit16(bytes) = Digits(f[Len(bytes)], 16, 4)
    BY <2>1, CrcsExist
  <2>3. PICK g : IsCrc(g, other) /\ checksumCrcCcit16(other) = Digits(g[Len(other)], 16, 4)
    BY <2>1, CrcsExist
  <2>4. f[Len(bytes)] # g[Len(bytes)]
    BY <2>2, <2>3, CrcIsDamaged
  <2>5. Len(bytes) \in 0..Len(bytes)
    BY <2>1
  <2>6. f[Len(bytes)] \in Register /\ g[Len(bytes)] \in Register
    BY <2>1, <2>2, <2>3, <2>5 DEF IsCrc
  <2>7. PICK x \in Register, y \in Register : x = f[Len(bytes)] /\ y = g[Len(bytes)]
    BY <2>6
  <2>8. x \in Nat /\ y \in Nat /\ x \in Int /\ y \in Int /\ x < 65536 /\ y < 65536
    BY DEF Register
  <2>9. SUFFICES ASSUME Digits(x, 16, 4) = Digits(y, 16, 4) PROVE FALSE
    BY <2>1, <2>2, <2>3, <2>7
  <2>10. x % Power(16, 4) = y % Power(16, 4)
    <3>1. 4 \in Nat
      OBVIOUS
    <3> QED BY <2>8, <2>9, <3>1, SameDigits
  <2>11. x % 65536 = x /\ y % 65536 = y
    BY <2>8
  <2> QED BY <2>4, <2>7, <2>10, <2>11, SixteenPowers
<1> QED BY <1>2, <1>3, <1>4 DEF Checksums, getChecksumAlgorithm

\* A response as its sender renders it, and as it is sent.
Rendered(c, hex) == hex \o getChecksumAlgorithm(c, binaryStrFromHexStr(hex, FALSE))

\* Rendered digits have the checksum behind them.
HasChecksum(c, hex) ==
  LET all == Rendered(c, hex)
      cs == getChecksumAlgorithm(c, binaryStrFromHexStr(hex, FALSE))
  IN /\ cs \in Seq(Nibble) /\ Len(cs) = RegexLength(c)
     /\ all \in Seq(Nibble) /\ Len(all) = Len(hex) + RegexLength(c) /\ all # <<>>
     /\ SubSeq(all, 1, Len(hex)) = hex
     /\ \A k \in 1..Len(hex) : all[k] = hex[k]
     /\ \A k \in 1..RegexLength(c) : all[Len(hex) + k] = cs[k]
     /\ RegexLength(c) \in Nat /\ RegexLength(c) % 2 = 0

\* makeChecksumer appends its checksum to the digits.
LEMMA RenderedDigits ==
  ASSUME NEW c \in Checksums, NEW hex \in Seq(Nibble), hex # <<>>
  PROVE  HasChecksum(c, hex)
<1> DEFINE cs == getChecksumAlgorithm(c, binaryStrFromHexStr(hex, FALSE))
           all == Rendered(c, hex)
           r == RegexLength(c)
<1>1. binaryStrFromHexStr(hex, FALSE) \in Seq(Byte)
  <2>1. IsPackedNumber(hex, FALSE, binaryStrFromHexStr(hex, FALSE))
    BY PackedNumber
  <2> QED BY <2>1, Zenon DEF IsPackedNumber
<1>2. cs \in Seq(Nibble) /\ Len(cs) = r /\ r \in {0, 2, 4, 8}
  BY <1>1, ChecksumDigits
<1>3. all = hex \o cs
  BY DEF Rendered
<1> HIDE DEF all, cs, r
<1>4. r \in Nat /\ r % 2 = 0
  BY <1>2
<1>5. all \in Seq(Nibble) /\ Len(all) = Len(hex) + r /\ all # <<>>
  BY <1>2, <1>3, <1>4
<1>6. \A k \in 1..Len(hex) : all[k] = hex[k]
  BY <1>2, <1>3
<1>7. \A k \in 1..r : all[Len(hex) + k] = cs[k]
  <2> SUFFICES ASSUME NEW k \in 1..r PROVE all[Len(hex) + k] = cs[k]
    OBVIOUS
  <2>1. Len(hex) \in Nat /\ Len(hex) + k \in 1..(Len(hex) + Len(cs)) /\ Len(hex) + k > Len(hex)
        /\ (Len(hex) + k) - Len(hex) = k
    BY <1>2, <1>4
  <2> QED BY <1>2, <1>3, <2>1
<1>8. SubSeq(all, 1, Len(hex)) = hex
  BY <1>2, <1>3
<1> QED BY <1>2, <1>4, <1>5, <1>6, <1>7, <1>8 DEF all, cs, r, HasChecksum

\* An even number of digits and their bytes.
LEMMA EvenBytes ==
  ASSUME NEW hex \in Seq(Nibble), NEW n \in Nat, Len(hex) = 2 * n
  PROVE  /\ binaryStrFromHexStr(hex, FALSE) \in Seq(Byte) /\ Len(binaryStrFromHexStr(hex, FALSE)) = n
         /\ hexStrFromBinaryStr(binaryStrFromHexStr(hex, FALSE)) = hex
         /\ \A i \in 1..n : binaryStrFromHexStr(hex, FALSE)[i] = 16 * hex[2 * i - 1] + hex[2 * i]
<1> DEFINE bytes == binaryStrFromHexStr(hex, FALSE)
<1>1. FALSE \in BOOLEAN
  OBVIOUS
<1>2. bytes = [i \in 1..n |-> 16 * hex[2 * i - 1] + hex[2 * i]]
  BY <1>1, BytesOfEvenHex
<1>3. hexStrFromBinaryStr(bytes) = hex
  BY <1>1, EvenDigitsSurvive
<1>4. \A i \in 1..n : 16 * hex[2 * i - 1] + hex[2 * i] \in Byte
  <2> SUFFICES ASSUME NEW i \in 1..n PROVE 16 * hex[2 * i - 1] + hex[2 * i] \in Byte
    OBVIOUS
  <2>1. \A k \in 1..(2 * n) : hex[k] \in 0..15
    BY ElementsOfSequence DEF Nibble
  <2>2. 2 * i - 1 \in 1..(2 * n) /\ 2 * i \in 1..(2 * n)
    OBVIOUS
  <2>3. hex[2 * i - 1] \in 0..15 /\ hex[2 * i] \in 0..15
    BY <2>1, <2>2
  <2> QED BY <2>3, ByteOfNibbles DEF Byte
<1> HIDE DEF bytes
<1>5. bytes \in [1..n -> Byte]
  BY <1>2, <1>4
<1>6. bytes \in Seq(Byte) /\ Len(bytes) = n
  BY <1>5, FunctionIsSequence
<1>7. \A i \in 1..n : bytes[i] = 16 * hex[2 * i - 1] + hex[2 * i]
  BY <1>2
<1> QED BY <1>3, <1>6, <1>7 DEF bytes

\* A response one byte of which is damaged is not what the sender of its data
\* would have rendered.
LEMMA DamageShows ==
  ASSUME NEW c \in Checksums \ {"none"}, NEW m \in Nat \ {0}, NEW hex \in Seq(Nibble), Len(hex) = 2 * m,
         NEW sent, sent = binaryStrFromHexStr(Rendered(c, hex), FALSE),
         NEW received, NEW i, IsDamaged(sent, received, i),
         NEW data, data = SubSeq(hexStrFromBinaryStr(received), 1, 2 * m)
  PROVE  hexStrFromBinaryStr(received) # Rendered(c, data)
<1> DEFINE r == RegexLength(c)
           k == r \div 2
           all == Rendered(c, hex)
           cs == getChecksumAlgorithm(c, binaryStrFromHexStr(hex, FALSE))
           seen == hexStrFromBinaryStr(received)
           csSeen == getChecksumAlgorithm(c, binaryStrFromHexStr(data, FALSE))
           D == binaryStrFromHexStr(hex, FALSE)
           E == binaryStrFromHexStr(data, FALSE)
<1>1. SUFFICES ASSUME seen = Rendered(c, data) PROVE FALSE
  OBVIOUS
<1>2. hex # <<>> /\ c \in Checksums /\ Len(hex) \in Nat
  OBVIOUS
<1>3. /\ cs \in Seq(Nibble) /\ Len(cs) = r
      /\ all \in Seq(Nibble) /\ Len(all) = 2 * m + r
      /\ \A j \in 1..(2 * m) : all[j] = hex[j]
      /\ \A j \in 1..r : all[2 * m + j] = cs[j]
      /\ r \in Nat /\ r % 2 = 0
  <2>1. HasChecksum(c, hex)
    BY <1>2, RenderedDigits
  <2>2. Len(hex) = 2 * m
    OBVIOUS
  <2> HIDE DEF k
  <2> QED BY <2>1, <2>2 DEF HasChecksum
<1>4. k \in Nat /\ r = 2 * k
  <2> HIDE DEF r
  <2> QED BY <1>3
<1>5. /\ sent \in Seq(Byte) /\ Len(sent) = m + k
      /\ hexStrFromBinaryStr(sent) = all
      /\ \A j \in 1..(m + k) : sent[j] = 16 * all[2 * j - 1] + all[2 * j]
  <2>1. m + k \in Nat /\ Len(all) = 2 * (m + k)
    <3> HIDE DEF all, k, r
    <3> QED BY <1>3, <1>4
  <2>2. all \in Seq(Nibble)
    BY <1>3
  <2> HIDE DEF all, k
  <2>3. sent = binaryStrFromHexStr(all, FALSE)
    BY DEF all
  <2>4. PICK n \in Nat : n = m + k
    BY <2>1
  <2>5. /\ binaryStrFromHexStr(all, FALSE) \in Seq(Byte) /\ Len(binaryStrFromHexStr(all, FALSE)) = n
        /\ hexStrFromBinaryStr(binaryStrFromHexStr(all, FALSE)) = all
        /\ \A j \in 1..n : binaryStrFromHexStr(all, FALSE)[j] = 16 * all[2 * j - 1] + all[2 * j]
    BY <2>1, <2>2, <2>4, EvenBytes
  <2> QED BY <2>3, <2>4, <2>5
<1>6. /\ received \in Seq(Byte) /\ Len(received) = m + k /\ i \in 1..(m + k) /\ received[i] # sent[i]
      /\ \A j \in 1..(m + k) : j # i => received[j] = sent[j]
  <2> HIDE DEF k
  <2> QED BY <1>5 DEF IsDamaged
<1>7. seen \in Seq(Nibble) /\ Len(seen) = 2 * (m + k)
      /\ \A j \in 1..(m + k) : seen[2 * j - 1] = received[j] \div 16 /\ seen[2 * j] = received[j] % 16
  <2> HIDE DEF k
  <2> QED BY <1>6, HexOfBytes
<1>8. \A j \in 1..(m + k) : all[2 * j - 1] = sent[j] \div 16 /\ all[2 * j] = sent[j] % 16
  <2> HIDE DEF k, all
  <2>1. \A j \in 1..Len(sent) : /\ hexStrFromBinaryStr(sent)[2 * j - 1] = sent[j] \div 16
                                /\ hexStrFromBinaryStr(sent)[2 * j] = sent[j] % 16
    BY <1>5, HexOfBytes
  <2> QED BY <1>5, <2>1
<1> HIDE DEF seen, all, cs, csSeen, D, E, k, r
<1>9. data \in Seq(Nibble) /\ Len(data) = 2 * m /\ data # <<>> /\ \A j \in 1..(2 * m) : data[j] = seen[j]
  <2>1. 2 * m \in 0..Len(seen)
    BY <1>4, <1>7
  <2>2. data = SubSeq(seen, 1, 2 * m)
    BY DEF seen
  <2>3. data \in Seq(Nibble) /\ Len(data) = 2 * m
    BY <1>7, <2>1, <2>2, SplitAt
  <2>4. \A j \in 1..(2 * m) : data[j] = seen[j]
    BY <1>7, <2>1, <2>2
  <2>5. \A s \in Seq(Nibble) : Len(s) # 0 => s # <<>>
    OBVIOUS
  <2>6. 2 * m # 0
    OBVIOUS
  <2>7. data # <<>>
    BY <2>3, <2>5, <2>6, Zenon
  <2> QED BY <2>3, <2>4, <2>7
<1>10. /\ D \in Seq(Byte) /\ Len(D) = m /\ \A j \in 1..m : D[j] = 16 * hex[2 * j - 1] + hex[2 * j]
       /\ E \in Seq(Byte) /\ Len(E) = m /\ \A j \in 1..m : E[j] = 16 * data[2 * j - 1] + data[2 * j]
  <2>1. m \in Nat
    OBVIOUS
  <2> QED BY <1>9, <2>1, EvenBytes DEF D, E
<1>11. \A j \in 1..m : D[j] = sent[j]
  <2> SUFFICES ASSUME NEW j \in 1..m PROVE D[j] = sent[j]
    OBVIOUS
  <2>1. j \in 1..(m + k) /\ 2 * j - 1 \in 1..(2 * m) /\ 2 * j \in 1..(2 * m)
    BY <1>4
  <2>2. all[2 * j - 1] = hex[2 * j - 1] /\ all[2 * j] = hex[2 * j]
    BY <1>3, <2>1
  <2>3. sent[j] = 16 * all[2 * j - 1] + all[2 * j]
    BY <1>5, <2>1
  <2>4. D[j] = 16 * hex[2 * j - 1] + hex[2 * j]
    BY <1>10
  <2> QED BY <2>2, <2>3, <2>4
<1>12. \A j \in 1..m : E[j] = received[j]
  <2> SUFFICES ASSUME NEW j \in 1..m PROVE E[j] = received[j]
    OBVIOUS
  <2>1. j \in 1..(m + k) /\ 2 * j - 1 \in 1..(2 * m) /\ 2 * j \in 1..(2 * m)
    BY <1>4
  <2>2. data[2 * j - 1] = received[j] \div 16 /\ data[2 * j] = received[j] % 16
    BY <1>7, <1>9, <2>1
  <2>3. PICK x \in 0..255 : x = received[j]
    <3>1. received[j] \in Byte
      BY <1>6, <2>1, ElementsOfSequence
    <3> QED BY <3>1 DEF Byte
  <2>4. 16 * (x \div 16) + (x % 16) = x
    BY NibblesOfByte
  <2> QED BY <1>10, <2>2, <2>3, <2>4
<1>13. /\ csSeen \in Seq(Nibble) /\ Len(csSeen) = r
       /\ \A j \in 1..r : seen[2 * m + j] = csSeen[j]
       /\ \A j \in 1..(2 * m) : seen[j] = data[j]
  <2>1. /\ csSeen \in Seq(Nibble) /\ Len(csSeen) = r
        /\ \A j \in 1..r : Rendered(c, data)[Len(data) + j] = csSeen[j]
    <3>1. HasChecksum(c, data)
      BY <1>2, <1>9, RenderedDigits
    <3> QED BY <3>1 DEF csSeen, r, HasChecksum
  <2> QED BY <1>1, <1>9, <2>1
<1>14. CASE i <= m
  <2>1. IsDamaged(D, E, i)
    <3>1. i \in 1..m
      BY <1>6, <1>14
    <3>2. \A j \in 1..m : j \in 1..(m + k)
      BY <1>4
    <3>3. \A j \in 1..m : j # i => E[j] = D[j]
      BY <1>6, <1>11, <1>12, <3>2
    <3>4. E[i] # D[i]
      BY <1>6, <1>11, <1>12, <3>1
    <3> QED BY <1>10, <3>1, <3>3, <3>4 DEF IsDamaged
  <2>2. getChecksumAlgorithm(c, D) # getChecksumAlgorithm(c, E)
    BY <2>1, ChecksumsDiffer
  <2>3. cs # csSeen
    BY <2>2 DEF cs, csSeen, D, E
  <2>4. \A j \in 1..r : cs[j] = csSeen[j]
    <3> SUFFICES ASSUME NEW j \in 1..r PROVE all[2 * m + j] = seen[2 * m + j]
      BY <1>3, <1>13
    <3>1. PICK q \in (m + 1)..(m + k) : 2 * m + j = 2 * q - 1 \/ 2 * m + j = 2 * q
      <4>1. CASE j % 2 = 1
        <5>1. PICK h \in Nat : j = 2 * h + 1
          <6>1. j \div 2 \in Nat /\ j = 2 * (j \div 2) + 1
            BY <4>1
          <6> QED BY <6>1
        <5>2. m + h + 1 \in (m + 1)..(m + k) /\ 2 * m + j = 2 * (m + h + 1) - 1
          BY <1>4, <5>1
        <5> QED BY <5>2
      <4>2. CASE j % 2 # 1
        <5>1. PICK h \in Nat : j = 2 * h
          <6>1. j \div 2 \in Nat /\ j = 2 * (j \div 2)
            BY <1>3, <4>2
          <6> QED BY <6>1
        <5>2. m + h \in (m + 1)..(m + k) /\ 2 * m + j = 2 * (m + h)
          BY <1>3, <1>4, <5>1
        <5> QED BY <5>2
      <4> QED BY <4>1, <4>2
    <3>2. q \in 1..(m + k) /\ q # i
      BY <1>4, <1>14
    <3>3. received[q] = sent[q]
      BY <1>6, <3>2
    <3>4. /\ all[2 * q - 1] = sent[q] \div 16 /\ all[2 * q] = sent[q] % 16
          /\ seen[2 * q - 1] = received[q] \div 16 /\ seen[2 * q] = received[q] % 16
      BY <1>7, <1>8, <3>2
    <3>5. all[2 * q - 1] = seen[2 * q - 1] /\ all[2 * q] = seen[2 * q]
      BY <3>3, <3>4
    <3> QED BY <3>1, <3>5, Zenon
  <2> QED BY <1>3, <1>13, <2>3, <2>4
<1>15. CASE i > m
  <2>1. \A j \in 1..m : j \in 1..(m + k) /\ j # i
    BY <1>4, <1>15
  <2>2. \A j \in 1..m : D[j] = E[j]
    BY <1>6, <1>11, <1>12, <2>1
  <2>3. D = E
    BY <1>10, <2>2
  <2>4. hex = data
    <3>1. hexStrFromBinaryStr(D) = hex /\ hexStrFromBinaryStr(E) = data
      <4>1. m \in Nat
        OBVIOUS
      <4> QED BY <1>9, <4>1, EvenBytes DEF D, E
    <3> QED BY <2>3, <3>1
  <2>5. seen = all
    BY <1>1, <2>4 DEF all
  <2>6. received = sent
    <3>1. /\ binaryStrFromHexStr(hexStrFromBinaryStr(received), FALSE) = received
          /\ binaryStrFromHexStr(hexStrFromBinaryStr(sent), FALSE) = sent
      BY <1>5, <1>6, BytesSurvive
    <3> QED BY <1>5, <2>5, <3>1 DEF seen
  <2> QED BY <1>6, <2>6
<1> QED BY <1>4, <1>6, <1>14, <1>15

-----------------------------------------------------------------------------
(* What is sent, and what is accepted *)

\* The settings of a transport, and the digits that a slot can have.
AreSettings(t, s, c, v) ==
  /\ IsIntegerType(t) /\ IsSlot(s) /\ c \in Checksums /\ v \in ValuesOf(t)
  /\ s.isBinary => s.width # {}
  /\ c # "none" => s.isBinary
  /\ \A n \in s.width : \A hex \in Contents(n) : hex \in Seq(Nibble) /\ Len(hex) = n

IsSlotDigits(s, hex) == hex \in Seq(Nibble) /\ hex # <<>> /\ \A n \in s.width : Len(hex) = n

\* A slot has one width, or none.
LEMMA OneWidth ==
  ASSUME NEW s, IsSlot(s)
  PROVE  s.width = {} \/ \E n \in Nat \ {0} : s.width = {n}
<1>1. CASE s.width # {}
  <2>1. PICK n \in s.width : TRUE
    BY <1>1
  <2>2. n \in Nat \ {0} /\ s.width = {n}
    BY <2>1 DEF IsSlot
  <2> QED BY <2>2
<1> QED BY <1>1

\* What is sent, received and accepted, as functions of the settings.
Sent(c, binary, hex) == IF binary THEN binaryStrFromHexStr(Rendered(c, hex), FALSE) ELSE Rendered(c, hex)
Seen(binary, bytes) == IF binary THEN hexStrFromBinaryStr(bytes) ELSE bytes
DataOf(c, hex) == SubSeq(hex, 1, Len(hex) - RegexLength(c))
Fits(s, c, hex) == s.width = {} \/ \E n \in s.width : Len(hex) = n + RegexLength(c)
Accepted(t, s, c, bytes) ==
  LET hex == Seen(s.isBinary, bytes)
  IN Fits(s, c, hex) /\ toUserTypeHexInt(DataOf(c, hex), t, s) # {} /\ hex = Rendered(c, DataOf(c, hex))

\* An odd number of digits is padded in a binary response.
IsPadded(s, hex) == s.isBinary /\ Len(hex) % 2 = 1

\* The bytes of a binary response.
LEMMA SentBytes ==
  ASSUME NEW c \in Checksums, NEW hex \in Seq(Nibble), hex # <<>>
  PROVE  /\ Sent(c, TRUE, hex) \in Seq(Byte)
         /\ Len(Sent(c, TRUE, hex)) = (Len(hex) + RegexLength(c) + 1) \div 2
         /\ Len(hex) % 2 = 0 => hexStrFromBinaryStr(Sent(c, TRUE, hex)) = Rendered(c, hex)
         /\ Sent(c, FALSE, hex) = Rendered(c, hex) /\ Rendered(c, hex) \in Seq(Nibble)
<1> DEFINE all == Rendered(c, hex)
           r == RegexLength(c)
<1>1. /\ all \in Seq(Nibble) /\ Len(all) = Len(hex) + r /\ all # <<>> /\ r \in Nat /\ r % 2 = 0
      /\ Len(hex) \in Nat
  <2>1. HasChecksum(c, hex)
    BY RenderedDigits
  <2> QED BY <2>1 DEF HasChecksum
<1>2. Sent(c, TRUE, hex) = binaryStrFromHexStr(all, FALSE) /\ Sent(c, FALSE, hex) = all
  BY DEF Sent
<1> HIDE DEF all, r
<1>3. /\ binaryStrFromHexStr(all, FALSE) \in Seq(Byte)
      /\ Len(binaryStrFromHexStr(all, FALSE)) = (Len(all) + 1) \div 2
  <2>1. IsPackedNumber(all, FALSE, binaryStrFromHexStr(all, FALSE))
    BY <1>1, PackedNumber
  <2> QED BY <2>1, Zenon DEF IsPackedNumber
<1>4. ASSUME Len(hex) % 2 = 0
      PROVE  hexStrFromBinaryStr(binaryStrFromHexStr(all, FALSE)) = all
  <2>1. PICK n \in Nat : Len(hex) + r = 2 * n
    <3>1. (Len(hex) + r) \div 2 \in Nat /\ Len(hex) + r = 2 * ((Len(hex) + r) \div 2)
      BY <1>1, <1>4
    <3> QED BY <3>1
  <2> QED BY <1>1, <2>1, EvenBytes
<1> QED BY <1>1, <1>2, <1>3, <1>4 DEF all, r

\* The bytes of an odd number of digits have one digit more.
LEMMA OddIsPadded ==
  ASSUME NEW h \in Nat, NEW q \in Nat, h % 2 = 1, q % 2 = 0
  PROVE  2 * ((h + q + 1) \div 2) # h + q
<1>1. PICK x \in Nat : h = 2 * x + 1
  <2>1. h \div 2 \in Nat /\ h = 2 * (h \div 2) + 1
    OBVIOUS
  <2> QED BY <2>1
<1>2. PICK y \in Nat : q = 2 * y
  <2>1. q \div 2 \in Nat /\ q = 2 * (q \div 2)
    OBVIOUS
  <2> QED BY <2>1
<1>3. h + q + 1 = 2 * (x + y + 1) /\ x + y + 1 \in Nat
  BY <1>1, <1>2
<1>4. (h + q + 1) \div 2 = x + y + 1
  <2>1. PICK z \in Nat : z = x + y + 1
    BY <1>3
  <2>2. (2 * z) \div 2 = z
    BY <2>1
  <2> QED BY <1>3, <2>1, <2>2
<1> QED BY <1>1, <1>2, <1>4

\* An intact response is accepted if its digits have a value, and are not padded.
LEMMA IntactResponse ==
  ASSUME NEW t, NEW s, NEW c, NEW v, AreSettings(t, s, c, v), NEW hex, IsSlotDigits(s, hex)
  PROVE  LET bytes == Sent(c, s.isBinary, hex) IN
         /\ Accepted(t, s, c, bytes) <=> ~IsPadded(s, hex) /\ toUserTypeHexInt(hex, t, s) # {}
         /\ Accepted(t, s, c, bytes) => DataOf(c, Seen(s.isBinary, bytes)) = hex
<1> DEFINE all == Rendered(c, hex)
           r == RegexLength(c)
           bytes == Sent(c, s.isBinary, hex)
           seen == Seen(s.isBinary, bytes)
<1>1. /\ c \in Checksums /\ hex \in Seq(Nibble) /\ hex # <<>> /\ \A n \in s.width : Len(hex) = n
      /\ s.isBinary \in BOOLEAN /\ (s.isBinary => s.width # {}) /\ Len(hex) \in Nat
  BY DEF AreSettings, IsSlotDigits, IsSlot
<1>2. all \in Seq(Nibble) /\ Len(all) = Len(hex) + r /\ r \in Nat /\ r % 2 = 0 /\ SubSeq(all, 1, Len(hex)) = hex
  <2>1. HasChecksum(c, hex)
    BY <1>1, RenderedDigits
  <2> QED BY <2>1 DEF HasChecksum
<1>3. CASE ~IsPadded(s, hex)
  <2>1. seen = all
    <3>1. CASE s.isBinary
      <4>1. Len(hex) % 2 = 0
        BY <1>1, <1>3, <3>1 DEF IsPadded
      <4>2. hexStrFromBinaryStr(Sent(c, TRUE, hex)) = all
        BY <1>1, <4>1, SentBytes
      <4>3. s.isBinary = TRUE
        BY <1>1, <3>1
      <4> QED BY <4>2, <4>3 DEF Seen
    <3>2. CASE ~s.isBinary
      <4>1. Sent(c, FALSE, hex) = all
        BY <1>1, SentBytes
      <4>2. s.isBinary = FALSE
        BY <1>1, <3>2
      <4> QED BY <4>1, <4>2 DEF Seen
    <3> QED BY <3>1, <3>2
  <2>2. DataOf(c, all) = hex
    <3>1. Len(all) - r = Len(hex)
      <4> HIDE DEF all, r
      <4> QED BY <1>1, <1>2
    <3>2. DataOf(c, all) = SubSeq(all, 1, Len(all) - r)
      BY DEF DataOf
    <3> HIDE DEF all, r
    <3> QED BY <1>2, <3>1, <3>2, Zenon
  <2>3. Fits(s, c, all)
    <3>1. s.width # {} => \E n \in s.width : Len(hex) = n
      BY <1>1
    <3>2. Len(all) = Len(hex) + r
      BY <1>2
    <3> HIDE DEF all
    <3> QED BY <3>1, <3>2 DEF Fits
  <2>4. Accepted(t, s, c, bytes)
          <=> Fits(s, c, seen) /\ toUserTypeHexInt(DataOf(c, seen), t, s) # {} /\ seen = Rendered(c, DataOf(c, seen))
    BY DEF Accepted
  <2> HIDE DEF seen, bytes
  <2>5. Accepted(t, s, c, bytes) <=> toUserTypeHexInt(hex, t, s) # {}
    <3>1. all = Rendered(c, hex)
      OBVIOUS
    <3> HIDE DEF all
    <3> QED BY <2>1, <2>2, <2>3, <2>4, <3>1, Zenon
  <2>6. DataOf(c, seen) = hex
    <3> HIDE DEF all
    <3> QED BY <2>1, <2>2, Zenon
  <2> QED BY <1>3, <2>5, <2>6 DEF seen, bytes
<1>4. CASE IsPadded(s, hex)
  <2>1. s.isBinary = TRUE /\ Len(hex) % 2 = 1
    BY <1>1, <1>4 DEF IsPadded
  <2>2. /\ Sent(c, TRUE, hex) \in Seq(Byte)
        /\ Len(Sent(c, TRUE, hex)) = (Len(hex) + r + 1) \div 2
    BY <1>1, SentBytes
  <2>3. seen = hexStrFromBinaryStr(Sent(c, TRUE, hex))
    BY <2>1 DEF Seen
  <2>4. Len(seen) = 2 * Len(Sent(c, TRUE, hex))
    BY <2>2, <2>3, HexOfBytes
  <2>5. Len(seen) # Len(hex) + r
    <3>1. PICK h \in Nat, q \in Nat : h = Len(hex) /\ q = r /\ h % 2 = 1 /\ q % 2 = 0
      BY <1>1, <1>2, <2>1
    <3>2. 2 * ((h + q + 1) \div 2) # h + q
      BY <3>1, OddIsPadded
    <3> HIDE DEF seen, r
    <3> QED BY <2>2, <2>4, <3>1, <3>2
  <2>6. ~Fits(s, c, seen)
    <3> HIDE DEF seen
    <3>1. s.width # {}
      BY <1>1, <2>1
    <3> QED BY <1>1, <2>5, <3>1 DEF Fits
  <2>7. ~Accepted(t, s, c, bytes)
    BY <2>6 DEF Accepted
  <2> QED BY <1>4, <2>7
<1> QED BY <1>3, <1>4

\* No damaged response is accepted.
LEMMA DamagedResponse ==
  ASSUME NEW t, NEW s, NEW c, NEW v, AreSettings(t, s, c, v), c # "none", NEW hex, IsSlotDigits(s, hex),
         NEW bytes, NEW i, IsDamaged(Sent(c, s.isBinary, hex), bytes, i)
  PROVE  ~Accepted(t, s, c, bytes)
<1> DEFINE r == RegexLength(c)
           seen == hexStrFromBinaryStr(bytes)
           sent == Sent(c, TRUE, hex)
<1>1. /\ c \in Checksums /\ hex \in Seq(Nibble) /\ hex # <<>> /\ \A n \in s.width : Len(hex) = n
      /\ s.isBinary = TRUE /\ s.width # {} /\ Len(hex) \in Nat
  BY DEF AreSettings, IsSlotDigits, IsSlot
<1>2. r \in Nat /\ r % 2 = 0
  <2>1. HasChecksum(c, hex)
    BY <1>1, RenderedDigits
  <2> QED BY <2>1 DEF HasChecksum
<1>3. sent \in Seq(Byte) /\ Len(sent) = (Len(hex) + r + 1) \div 2 /\ IsDamaged(sent, bytes, i)
  <2>1. IsDamaged(sent, bytes, i)
    BY <1>1
  <2> QED BY <1>1, <2>1, SentBytes
<1>4. bytes \in Seq(Byte) /\ Len(bytes) = Len(sent)
  BY <1>3 DEF IsDamaged
<1>5. Len(seen) = 2 * Len(bytes)
  BY <1>4, HexOfBytes
<1>6. Accepted(t, s, c, bytes) => Fits(s, c, seen) /\ seen = Rendered(c, DataOf(c, seen))
  BY <1>1 DEF Accepted, Seen
<1>7. CASE Len(hex) % 2 = 1
  <2>1. Len(seen) # Len(hex) + r
    <3>1. PICK h \in Nat, q \in Nat : h = Len(hex) /\ q = r /\ h % 2 = 1 /\ q % 2 = 0
      BY <1>1, <1>2, <1>7
    <3>2. 2 * ((h + q + 1) \div 2) # h + q
      BY <3>1, OddIsPadded
    <3> HIDE DEF seen, r, sent
    <3> QED BY <1>3, <1>4, <1>5, <3>1, <3>2
  <2>2. ~Fits(s, c, seen)
    <3> HIDE DEF seen
    <3> QED BY <1>1, <2>1 DEF Fits
  <2> QED BY <1>6, <2>2
<1>8. CASE Len(hex) % 2 # 1
  <2>1. PICK m \in Nat \ {0} : Len(hex) = 2 * m
    <3>1. Len(hex) # 0
      BY <1>1
    <3>2. Len(hex) \div 2 \in Nat \ {0} /\ Len(hex) = 2 * (Len(hex) \div 2)
      BY <1>1, <1>8, <3>1
    <3> QED BY <3>2
  <2>2. Len(seen) - r = 2 * m
    <3>1. PICK q \in Nat : q = r /\ q % 2 = 0
      BY <1>2
    <3>2. 2 * ((2 * m + q + 1) \div 2) = 2 * m + q
      BY <3>1
    <3> HIDE DEF seen, r, sent
    <3> QED BY <1>3, <1>4, <1>5, <2>1, <3>1, <3>2
  <2>3. DataOf(c, seen) = SubSeq(seen, 1, 2 * m)
    <3>1. DataOf(c, seen) = SubSeq(seen, 1, Len(seen) - r)
      BY DEF DataOf
    <3> HIDE DEF seen, r
    <3> QED BY <2>2, <3>1, Zenon
  <2>4. sent = binaryStrFromHexStr(Rendered(c, hex), FALSE)
    BY DEF Sent
  <2>5. seen # Rendered(c, SubSeq(seen, 1, 2 * m))
    <3>1. c \in Checksums \ {"none"}
      BY <1>1
    <3>2. PICK d : d = SubSeq(seen, 1, 2 * m)
      OBVIOUS
    <3>3. PICK u : u = sent
      OBVIOUS
    <3>4. IsDamaged(u, bytes, i) /\ u = binaryStrFromHexStr(Rendered(c, hex), FALSE)
      BY <1>3, <2>4, <3>3, Zenon
    <3>5. seen # Rendered(c, d)
      BY <1>1, <2>1, <3>1, <3>2, <3>4, DamageShows
    <3> QED BY <3>2, <3>5, Zenon
  <2> HIDE DEF seen
  <2> QED BY <1>6, <2>3, <2>5, Zenon
<1> QED BY <1>7, <1>8

-----------------------------------------------------------------------------
(* What is written *)

\* An odd number of signed digits.
IsOddSignedSlot(s) == s.isSigned /\ \E n \in s.width : n % 2 = 1

\* Digits that denote a value as the slot's sign reads it.
IsWritten(t, s, v, hex) ==
  LET intended == AsSigned(v, t, s.isSigned)
      number == NumberOf(hex, s.isSigned)
  IN /\ IsSlotDigits(s, hex)
     /\ s.width = {} => Len(hex) <= 2 * t.bytes
     /\ IF IsOddSignedSlot(s) THEN (number - intended) % Power(16, Len(hex)) = 0 ELSE number = intended
     /\ s.width = {} /\ intended = v => Len(hex) = 1 \/ intended \notin NumbersOfDigits(Len(hex) - 1, s.isSigned)

\* Is there a width that does not have the value's digits?
IsTooWide(t, s, v) == \E n \in s.width : AsSigned(v, t, s.isSigned) \notin NumbersOfDigits(n, s.isSigned)

\* The values of a type are integers.
LEMMA ValuesAreIntegers ==
  ASSUME NEW t, IsIntegerType(t), NEW v \in ValuesOf(t)
  PROVE  v \in Int
<1>1. PICK N : N = Power(256, t.bytes) /\ N \in Nat
  <2>1. t.bytes \in Nat
    BY DEF IsIntegerType
  <2> QED BY <2>1, PowersOf256
<1>2. v \in IF t.signed THEN -(N \div 2)..(N \div 2 - 1) ELSE 0..(N - 1)
  BY <1>1, Zenon DEF ValuesOf
<1>3. N \div 2 \in Int
  BY <1>1
<1> QED BY <1>1, <1>2, <1>3

\* What is written into the slot denotes the value, or is not written.
LEMMA WrittenHexInt ==
  ASSUME NEW t, NEW s, NEW c, NEW v, AreSettings(t, s, c, v)
  PROVE  /\ \A hex \in toTransportLayerHexInt(v, t, s) : IsWritten(t, s, v, hex)
         /\ ~IsOddSignedSlot(s) => (toTransportLayerHexInt(v, t, s) = {} <=> IsTooWide(t, s, v))
<1> DEFINE w == AsSigned(v, t, s.isSigned)
<1>1. IsIntegerType(t) /\ IsSlot(s) /\ v \in Int /\ s.isSigned \in BOOLEAN /\ t.bytes \in Nat
  <2>1. IsIntegerType(t) /\ IsSlot(s) /\ v \in ValuesOf(t)
    BY DEF AreSettings
  <2>2. v \in Int
    BY <2>1, ValuesAreIntegers
  <2> QED BY <2>1, <2>2 DEF IsSlot, IsIntegerType
<1>2. CASE s.width = {}
  <2>1. toTransportLayerHexInt(v, t, s) = {hexStrCompact(v, t, s.isSigned)}
    BY <1>2 DEF toTransportLayerHexInt
  <2>2. PICK hex : hex = hexStrCompact(v, t, s.isSigned)
    OBVIOUS
  <2>3. /\ hex \in Seq(Nibble) /\ hex # <<>> /\ Len(hex) <= 2 * t.bytes
        /\ NumberOf(hex, s.isSigned) = w
        /\ w = v => Len(hex) = 1 \/ w \notin NumbersOfDigits(Len(hex) - 1, s.isSigned)
    BY <1>1, <2>2, CompactDigits
  <2>4. IsSlotDigits(s, hex) /\ ~IsOddSignedSlot(s) /\ ~IsTooWide(t, s, v)
    BY <1>2, <2>3 DEF IsSlotDigits, IsOddSignedSlot, IsTooWide
  <2>5. IsWritten(t, s, v, hex)
    BY <2>3, <2>4, Zenon DEF IsWritten
  <2> QED BY <2>1, <2>2, <2>4, <2>5, Zenon
<1>3. ASSUME NEW n \in Nat \ {0}, s.width = {n}
      PROVE  /\ \A hex \in toTransportLayerHexInt(v, t, s) : IsWritten(t, s, v, hex)
             /\ ~IsOddSignedSlot(s) => (toTransportLayerHexInt(v, t, s) = {} <=> IsTooWide(t, s, v))
  <2>1. toTransportLayerHexInt(v, t, s) = hexStrFromInt(v, t, n, s.isSigned)
    <3>1. s.width # {}
      BY <1>3
    <3>2. UNION {hexStrFromInt(v, t, m, s.isSigned) : m \in {n}} = hexStrFromInt(v, t, n, s.isSigned)
      BY Zenon
    <3> QED BY <1>3, <3>1, <3>2, Zenon DEF toTransportLayerHexInt
  <2>2. IsTooWide(t, s, v) <=> w \notin NumbersOfDigits(n, s.isSigned)
    BY <1>3, Zenon DEF IsTooWide
  <2>3. IsOddSignedSlot(s) <=> s.isSigned /\ n % 2 = 1
    BY <1>3, Zenon DEF IsOddSignedSlot
  <2>4. n % 2 = 0 \/ n % 2 = 1
    OBVIOUS
  <2> DEFINE set == hexStrFromInt(v, t, n, s.isSigned)
  <2>5. ASSUME NEW hex \in set, hex \in Seq(Nibble), Len(hex) = n
        PROVE  /\ IsSlotDigits(s, hex)
               /\ s.width # {}
    <3>1. hex # <<>>
      BY <2>5
    <3> QED BY <1>3, <2>5, <3>1, Zenon DEF IsSlotDigits
  <2>6. CASE n % 2 = 0
    <3>1. /\ set = {} <=> w \notin NumbersOfDigits(n, s.isSigned)
          /\ \A hex \in set : hex \in Seq(Nibble) /\ Len(hex) = n /\ NumberOf(hex, s.isSigned) = w
      BY <1>1, <2>6, EvenWidth
    <3>2. ~IsOddSignedSlot(s)
      BY <2>3, <2>6
    <3>3. ASSUME NEW hex \in set
          PROVE  IsWritten(t, s, v, hex)
      <4>1. IsSlotDigits(s, hex) /\ s.width # {}
        BY <2>5, <3>1
      <4> HIDE DEF set
      <4> QED BY <3>1, <3>2, <3>3, <4>1, Zenon DEF IsWritten
    <3> QED BY <2>1, <2>2, <3>1, <3>3, Zenon
  <2>7. CASE n % 2 = 1
    <3>1. n % 2 # 0
      BY <2>7
    <3>2. /\ ~s.isSigned => (set = {} <=> w \notin NumbersOfDigits(n, s.isSigned))
          /\ \A hex \in set :
               /\ hex \in Seq(Nibble) /\ Len(hex) = n
               /\ ~s.isSigned => NumberOf(hex, s.isSigned) = w
               /\ (NumberOf(hex, s.isSigned) - w) % Power(16, n) = 0
      <4>1. PICK u : u = w
        OBVIOUS
      <4>2. PICK isSigned \in BOOLEAN : isSigned = s.isSigned
        BY <1>1
      <4>3. /\ ~isSigned => (hexStrFromInt(v, t, n, isSigned) = {} <=> u \notin NumbersOfDigits(n, isSigned))
            /\ \A hex \in hexStrFromInt(v, t, n, isSigned) :
                 /\ hex \in Seq(Nibble) /\ Len(hex) = n
                 /\ ~isSigned => NumberOf(hex, isSigned) = u
                 /\ (NumberOf(hex, isSigned) - u) % Power(16, n) = 0
        <5>1. v \in Int /\ IsIntegerType(t) /\ u = AsSigned(v, t, isSigned)
          BY <1>1, <4>1, <4>2
        <5> HIDE DEF w, set
        <5> QED BY <3>1, <5>1, OddWidth
      <4> QED BY <4>1, <4>2, <4>3, Zenon
    <3>3. IsOddSignedSlot(s) <=> s.isSigned
      BY <2>3, <2>7
    <3>4. ASSUME NEW hex \in set
          PROVE  IsWritten(t, s, v, hex)
      <4>1. IsSlotDigits(s, hex) /\ s.width # {} /\ Len(hex) = n
        BY <2>5, <3>2
      <4> HIDE DEF set
      <4> QED BY <3>2, <3>3, <3>4, <4>1, Zenon DEF IsWritten
    <3> QED BY <2>1, <2>2, <3>2, <3>3, <3>4, Zenon
  <2> QED BY <2>4, <2>6, <2>7
<1> QED BY <1>1, <1>2, <1>3, OneWidth

-----------------------------------------------------------------------------
(* The invariant *)

\* The settings are those of a case.
SettingsInv == AreSettings(type, slot, checksum, value)

\* Nothing is in the command before doPreWrite, or if it fails.
CommandInv ==
  IF pc \in {"write", "unfit"}
  THEN /\ digits = <<>> /\ line = <<>> /\ ~damaged
       /\ pc = "unfit" => toTransportLayerHexInt(value, type, slot) = {}
  ELSE /\ IsSlotDigits(slot, digits)
       /\ pc = "written" \/ slot.width = {} => IsWritten(type, slot, value, digits)
       /\ pc = "written" => digits \in toTransportLayerHexInt(value, type, slot)

\* The transfer buffer has what was sent, or one byte of it is another.
LineInv ==
  pc \notin {"write", "unfit"} =>
    IF damaged
    THEN /\ pc \in {"answered", "refused"} /\ checksum # "none"
         /\ \E i \in DOMAIN line : IsDamaged(Sent(checksum, slot.isBinary, digits), line, i)
    ELSE line = Sent(checksum, slot.isBinary, digits)

\* What is read is what the digits say.
ReadInv ==
  /\ pc = "read" => got = toUserTypeHexInt(digits, type, slot) /\ got # {}
  /\ pc # "read" => got = {}
  /\ pc = "refused" /\ ~damaged =>
       toUserTypeHexInt(digits, type, slot) = {} \/ IsPadded(slot, digits)

TransportInv ==
  /\ pc \in {"write", "unfit", "written", "answered", "refused", "read"} /\ damaged \in BOOLEAN
  /\ SettingsInv
  /\ CommandInv
  /\ LineInv
  /\ ReadInv

\* The model's operators, as functions of the settings.
LEMMA LineOfDigits ==
  ASSUME NEW hex
  PROVE  /\ ToLine(Render(hex)) = Sent(checksum, slot.isBinary, hex)
         /\ makeCombinedReadString(line) = Seen(slot.isBinary, line)
         /\ Render(hex) = Rendered(checksum, hex)
<1>1. Render(hex) = Rendered(checksum, hex)
  BY Zenon DEF Render, Rendered, makeChecksumer
<1>2. ToLine(Render(hex)) = Sent(checksum, slot.isBinary, hex)
  BY <1>1, Zenon DEF ToLine, Sent
<1>3. makeCombinedReadString(line) = Seen(slot.isBinary, line)
  BY Zenon DEF makeCombinedReadString, Seen
<1> QED BY <1>1, <1>2, <1>3

\* The first state has the settings of a case.
LEMMA InitTransport ==
  ASSUME Init
  PROVE  TransportInv
<1>1. PICK c \in Cases :
        /\ type = c.type /\ slot = c.slot /\ checksum = c.checksum /\ value = c.value
        /\ pc = "write" /\ digits = <<>> /\ line = <<>> /\ damaged = FALSE /\ got = {}
  BY DEF Init
<1>2. /\ c.type.bytes \in Nat \ {0} /\ c.type.signed \in BOOLEAN
      /\ c.slot.isSigned \in BOOLEAN /\ c.slot.isBinary \in BOOLEAN
      /\ c.slot.width \subseteq Nat \ {0} /\ \A m, n \in c.slot.width : m = n
      /\ c.value \in ValuesOf(c.type)
      /\ c.checksum \in Checksums
      /\ c.slot.isBinary => c.slot.width # {}
      /\ c.checksum # "none" => c.slot.isBinary
      /\ \A n \in c.slot.width : \A hex \in Contents(n) : hex \in Seq(Nibble) /\ Len(hex) = n
  BY CasesAssumption, Zenon
<1>3. AreSettings(c.type, c.slot, c.checksum, c.value)
  BY <1>2, Zenon DEF AreSettings, IsIntegerType, IsSlot
<1>4. SettingsInv
  BY <1>1, <1>3, Zenon DEF SettingsInv
<1> QED BY <1>1, <1>4 DEF TransportInv, CommandInv, LineInv, ReadInv

\* doPreWrite renders digits that denote the value.
LEMMA WriteKeeps ==
  ASSUME TransportInv, doPreWrite
  PROVE  TransportInv'
<1> USE DEF TransportInv
<1>1. /\ type' = type /\ slot' = slot /\ checksum' = checksum /\ value' = value
      /\ damaged' = damaged /\ got' = got /\ pc = "write"
  BY DEF doPreWrite, settings
<1>2. SettingsInv'
  BY <1>1, Zenon DEF SettingsInv
<1>3. digits = <<>> /\ line = <<>> /\ ~damaged /\ got = {}
  BY <1>1 DEF CommandInv, ReadInv
<1>4. CASE pc' = "unfit" /\ toTransportLayerHexInt(value, type, slot) = {} /\ UNCHANGED <<digits, line>>
  <2>1. toTransportLayerHexInt(value, type, slot)' = {}
    BY <1>1, <1>4, Zenon
  <2> QED BY <1>1, <1>2, <1>3, <1>4, <2>1 DEF CommandInv, LineInv, ReadInv
<1>5. CASE /\ pc' = "written" /\ digits' \in toTransportLayerHexInt(value, type, slot)
           /\ line' = ToLine(Render(digits'))
  <2>1. IsWritten(type, slot, value, digits')
    BY <1>5, WrittenHexInt DEF SettingsInv
  <2>2. IsSlotDigits(slot, digits')
    BY <2>1, Zenon DEF IsWritten
  <2>3. IsWritten(type, slot, value, digits)' /\ IsSlotDigits(slot, digits)'
        /\ digits' \in toTransportLayerHexInt(value, type, slot)'
    BY <1>1, <1>5, <2>1, <2>2, Zenon
  <2>4. line' = Sent(checksum, slot.isBinary, digits)'
    <3>1. line' = Sent(checksum, slot.isBinary, digits')
      BY <1>5, LineOfDigits, Zenon
    <3> QED BY <1>1, <3>1, Zenon
  <2>5. CommandInv'
    BY <1>5, <2>3 DEF CommandInv
  <2>6. LineInv'
    BY <1>1, <1>3, <2>4, Zenon DEF LineInv
  <2>7. ReadInv'
    BY <1>1, <1>3, <1>5 DEF ReadInv
  <2> QED BY <1>1, <1>2, <1>5, <2>5, <2>6, <2>7
<1> QED BY <1>4, <1>5, <1>1 DEF doPreWrite

\* The device answers with digits of the slot.
LEMMA AnswerKeeps ==
  ASSUME TransportInv, Answer
  PROVE  TransportInv'
<1> USE DEF TransportInv
<1>1. /\ type' = type /\ slot' = slot /\ checksum' = checksum /\ value' = value
      /\ damaged' = damaged /\ got' = got /\ pc = "written" /\ pc' = "answered"
      /\ line' = ToLine(Render(digits'))
      /\ digits' \in {digits} \cup UNION {Contents(n) : n \in slot.width}
  BY DEF Answer, settings
<1>2. SettingsInv'
  BY <1>1, Zenon DEF SettingsInv
<1>3. IsSlotDigits(slot, digits) /\ IsWritten(type, slot, value, digits)
  BY <1>1 DEF CommandInv
<1>4. ~damaged /\ got = {}
  BY <1>1 DEF LineInv, ReadInv
<1>5. IsSlotDigits(slot, digits')
      /\ (slot.width = {} => IsWritten(type, slot, value, digits'))
  <2>1. CASE digits' = digits
    BY <1>3, <2>1, Zenon
  <2>2. CASE digits' # digits
    <3>1. PICK n \in slot.width : digits' \in Contents(n)
      BY <1>1, <2>2
    <3>2. digits' \in Seq(Nibble) /\ Len(digits') = n /\ IsSlot(slot)
      BY <3>1 DEF SettingsInv, AreSettings
    <3>3. n \in Nat \ {0} /\ \A m \in slot.width : m = n
      BY <3>1, <3>2 DEF IsSlot
    <3>4. digits' # <<>>
      BY <3>2, <3>3
    <3>5. IsSlotDigits(slot, digits')
      BY <3>2, <3>3, <3>4 DEF IsSlotDigits
    <3> QED BY <3>1, <3>5
  <2> QED BY <2>1, <2>2
<1>6. CommandInv'
  <2>1. IsSlotDigits(slot, digits)'
        /\ (slot.width = {} => IsWritten(type, slot, value, digits))'
    BY <1>1, <1>5, Zenon
  <2> QED BY <1>1, <2>1 DEF CommandInv
<1>7. LineInv'
  <2>1. line' = Sent(checksum, slot.isBinary, digits)'
    <3>1. line' = Sent(checksum, slot.isBinary, digits')
      BY <1>1, LineOfDigits, Zenon
    <3> QED BY <1>1, <3>1, Zenon
  <2> QED BY <1>1, <1>4, <2>1, Zenon DEF LineInv
<1>8. ReadInv'
  BY <1>1, <1>4 DEF ReadInv
<1> QED BY <1>1, <1>2, <1>6, <1>7, <1>8

\* The line changes one byte of a response that has a checksum.
LEMMA DamageKeeps ==
  ASSUME TransportInv, Damage
  PROVE  TransportInv'
<1> USE DEF TransportInv
<1>1. /\ type' = type /\ slot' = slot /\ checksum' = checksum /\ value' = value
      /\ damaged' = TRUE /\ got' = got /\ digits' = digits /\ pc = "answered" /\ pc' = pc
      /\ ~damaged /\ checksum # "none"
  BY DEF Damage, settings
<1>2. SettingsInv'
  BY <1>1, Zenon DEF SettingsInv
<1>3. /\ IsSlotDigits(slot, digits)
      /\ (slot.width = {} => IsWritten(type, slot, value, digits))
  BY <1>1 DEF CommandInv
<1>4. CommandInv'
  <2>1. IsSlotDigits(slot, digits)'
        /\ (slot.width = {} => IsWritten(type, slot, value, digits))'
    BY <1>1, <1>3, Zenon
  <2> QED BY <1>1, <2>1 DEF CommandInv
<1>5. LineInv'
  <2>1. PICK i \in DOMAIN line : \E byte \in Damages(line[i]) \ {line[i]} : line' = [line EXCEPT ![i] = byte]
    BY DEF Damage
  <2>2. PICK byte \in Damages(line[i]) \ {line[i]} : line' = [line EXCEPT ![i] = byte]
    BY <2>1
  <2>3. line = Sent(checksum, slot.isBinary, digits)
    BY <1>1, Zenon DEF LineInv
  <2>4. checksum \in Checksums /\ slot.isBinary = TRUE
    BY <1>1 DEF SettingsInv, AreSettings, IsSlot
  <2>5. line \in Seq(Byte)
    <3>1. digits \in Seq(Nibble) /\ digits # <<>>
      BY <1>3 DEF IsSlotDigits
    <3>2. Sent(checksum, TRUE, digits) \in Seq(Byte)
      BY <2>4, <3>1, SentBytes
    <3> QED BY <2>3, <2>4, <3>2, Zenon
  <2>6. line[i] \in Byte /\ i \in 1..Len(line)
    BY <2>1, <2>5
  <2>7. byte \in Byte
    BY <2>2, <2>6, CasesAssumption
  <2>8. IsDamaged(line, line', i)
    <3>1. PICK bytes \in Seq(Byte) : bytes = line
      BY <2>5
    <3>2. PICK other : other = [bytes EXCEPT ![i] = byte]
      OBVIOUS
    <3>3. i \in 1..Len(bytes) /\ byte # bytes[i]
      BY <2>2, <2>6, <3>1
    <3>4. IsDamaged(bytes, other, i)
      BY <2>7, <3>2, <3>3 DEF IsDamaged
    <3> QED BY <2>2, <3>1, <3>2, <3>4, Zenon
  <2>9. i \in DOMAIN line'
    BY <2>2
  <2>10. IsDamaged(Sent(checksum, slot.isBinary, digits)', line', i)
    BY <1>1, <2>3, <2>8, Zenon
  <2> QED BY <1>1, <2>9, <2>10, Zenon DEF LineInv
<1>6. ReadInv'
  BY <1>1 DEF ReadInv
<1> QED BY <1>1, <1>2, <1>4, <1>5, <1>6

\* doPostRead reads what is accepted, and nothing else.
LEMMA ReadKeeps ==
  ASSUME TransportInv, doPostRead
  PROVE  TransportInv'
<1> USE DEF TransportInv
<1> DEFINE read == toUserTypeHexInt(DataOf(checksum, Seen(slot.isBinary, line)), type, slot)
           accepted == Accepted(type, slot, checksum, line)
<1>1. /\ type' = type /\ slot' = slot /\ checksum' = checksum /\ value' = value
      /\ damaged' = damaged /\ digits' = digits /\ line' = line /\ pc = "answered"
  BY DEF doPostRead, settings
<1>2. SettingsInv'
  BY <1>1, Zenon DEF SettingsInv
<1>3. IF accepted THEN got' = read /\ pc' = "read" ELSE pc' = "refused" /\ UNCHANGED got
  <2>1. PICK hex : hex = Seen(slot.isBinary, line)
    OBVIOUS
  <2>2. PICK data : data = DataOf(checksum, hex)
    OBVIOUS
  <2>3. makeCombinedReadString(line) = hex /\ SubSeq(hex, 1, Len(hex) - RegexLength(checksum)) = data
    BY <2>1, <2>2, LineOfDigits, Zenon DEF DataOf
  <2>4. MatchesResponse(hex) <=> Fits(slot, checksum, hex)
    BY Zenon DEF MatchesResponse, Fits
  <2>5. Render(data) = Rendered(checksum, data)
    BY LineOfDigits
  <2>6. accepted <=> MatchesResponse(hex) /\ toUserTypeHexInt(data, type, slot) # {} /\ hex = Render(data)
    BY <2>1, <2>2, <2>4, <2>5, Zenon DEF Accepted
  <2>7. IF MatchesResponse(hex) /\ toUserTypeHexInt(data, type, slot) # {} /\ hex = Render(data)
        THEN got' = toUserTypeHexInt(data, type, slot) /\ pc' = "read"
        ELSE pc' = "refused" /\ UNCHANGED got
    BY <2>3, Zenon DEF doPostRead
  <2>8. read = toUserTypeHexInt(data, type, slot)
    BY <2>1, <2>2, Zenon
  <2> QED BY <2>6, <2>7, <2>8, Zenon
<1>4. /\ IsSlotDigits(slot, digits)
      /\ (slot.width = {} => IsWritten(type, slot, value, digits))
  BY <1>1 DEF CommandInv
<1>5. AreSettings(type, slot, checksum, value) /\ got = {} /\ pc' \in {"read", "refused"}
  BY <1>1, <1>3 DEF SettingsInv, ReadInv
<1>6. CommandInv'
  <2>1. IsSlotDigits(slot, digits)'
        /\ (slot.width = {} => IsWritten(type, slot, value, digits))'
    BY <1>1, <1>4, Zenon
  <2> QED BY <1>5, <2>1 DEF CommandInv
<1>7. CASE damaged
  <2>1. checksum # "none" /\ \E i \in DOMAIN line : IsDamaged(Sent(checksum, slot.isBinary, digits), line, i)
    BY <1>1, <1>7, Zenon DEF LineInv
  <2>2. PICK i \in DOMAIN line : IsDamaged(Sent(checksum, slot.isBinary, digits), line, i)
    BY <2>1
  <2>3. ~accepted
    BY <1>4, <1>5, <2>1, <2>2, DamagedResponse
  <2>4. pc' = "refused" /\ got' = got
    BY <1>3, <2>3
  <2>5. LineInv'
    <3>1. \E i_1 \in DOMAIN line' : IsDamaged(Sent(checksum, slot.isBinary, digits)', line', i_1)
      BY <1>1, <2>1, Zenon
    <3> QED BY <1>1, <1>7, <2>1, <2>4, <3>1, Zenon DEF LineInv
  <2>6. ReadInv'
    BY <1>1, <1>5, <1>7, <2>4 DEF ReadInv
  <2> QED BY <1>1, <1>2, <1>6, <2>4, <2>5, <2>6
<1>8. CASE ~damaged
  <2>1. line = Sent(checksum, slot.isBinary, digits)
    BY <1>1, <1>8, Zenon DEF LineInv
  <2>2. /\ accepted <=> ~IsPadded(slot, digits) /\ toUserTypeHexInt(digits, type, slot) # {}
        /\ accepted => DataOf(checksum, Seen(slot.isBinary, line)) = digits
    BY <1>4, <1>5, <2>1, IntactResponse
  <2>3. LineInv'
    <3>1. line' = Sent(checksum, slot.isBinary, digits)'
      BY <1>1, <2>1, Zenon
    <3> QED BY <1>1, <1>8, <3>1, Zenon DEF LineInv
  <2>4. ReadInv'
    <3>1. CASE accepted
      <4>1. got' = toUserTypeHexInt(digits, type, slot) /\ pc' = "read" /\ got' # {}
        BY <1>3, <2>2, <3>1, Zenon
      <4>2. got' = toUserTypeHexInt(digits, type, slot)'
        BY <1>1, <4>1, Zenon
      <4> QED BY <4>1, <4>2 DEF ReadInv
    <3>2. CASE ~accepted
      <4>1. got' = {} /\ pc' = "refused"
        BY <1>3, <1>5, <3>2
      <4>2. toUserTypeHexInt(digits, type, slot) = {} \/ IsPadded(slot, digits)
        BY <2>2, <3>2
      <4>3. (toUserTypeHexInt(digits, type, slot) = {} \/ IsPadded(slot, digits))'
        BY <1>1, <4>2, Zenon
      <4> QED BY <4>1, <4>3 DEF ReadInv
    <3> QED BY <3>1, <3>2
  <2> QED BY <1>1, <1>2, <1>5, <1>6, <2>3, <2>4
<1> QED BY <1>7, <1>8

-----------------------------------------------------------------------------
(* Theorems *)

\* The invariant holds.
THEOREM Transported == Spec => []TransportInv
<1>1. Init => TransportInv
  BY InitTransport
<1>2. TransportInv /\ [Next]_vars => TransportInv'
  <2> SUFFICES ASSUME TransportInv, [Next]_vars PROVE TransportInv'
    OBVIOUS
  <2>1. CASE doPreWrite
    BY <2>1, WriteKeeps
  <2>2. CASE Answer
    BY <2>2, AnswerKeeps
  <2>3. CASE Damage
    BY <2>3, DamageKeeps
  <2>4. CASE doPostRead
    BY <2>4, ReadKeeps
  <2>5. CASE UNCHANGED vars
    BY <2>5, Zenon DEF vars, TransportInv, SettingsInv, CommandInv, LineInv, ReadInv
  <2> QED BY <2>1, <2>2, <2>3, <2>4, <2>5, Zenon DEF Next
<1> QED BY <1>1, <1>2, PTL DEF Spec

\* The settings, as the properties need them.
LEMMA Settings ==
  ASSUME TransportInv
  PROVE  /\ IsIntegerType(type) /\ IsSlot(slot) /\ checksum \in Checksums
         /\ slot.isSigned \in BOOLEAN /\ slot.isBinary \in BOOLEAN
         /\ checksum # "none" => slot.isBinary
  BY DEF TransportInv, SettingsInv, AreSettings, IsSlot

\* The digits on the line, before and after.
LEMMA DigitsOnLine ==
  ASSUME TransportInv, pc \notin {"write", "unfit"}
  PROVE  /\ digits \in Seq(Nibble) /\ digits # <<>> /\ \A n \in slot.width : Len(digits) = n
         /\ slot.width = {} => Len(digits) <= 2 * type.bytes
<1>1. IsSlotDigits(slot, digits) /\ (slot.width = {} => IsWritten(type, slot, value, digits))
  BY DEF TransportInv, CommandInv
<1>2. slot.width = {} => Len(digits) <= 2 * type.bytes
  BY <1>1, Zenon DEF IsWritten
<1> QED BY <1>1, <1>2, Zenon DEF IsSlotDigits

\* The transfer buffer has bytes, or digits, and numbers are those of the user type.
THEOREM TypeCorrect == Spec => []TypeOK
<1>1. TransportInv => TypeOK
  <2> SUFFICES ASSUME TransportInv PROVE TypeOK
    OBVIOUS
  <2>1. CASE pc \in {"write", "unfit"}
    <3>1. digits = <<>> /\ line = <<>> /\ got = {}
      BY <2>1 DEF TransportInv, CommandInv, ReadInv
    <3> QED BY <2>1, <3>1 DEF TransportInv, TypeOK
  <2>2. CASE pc \notin {"write", "unfit"}
    <3>1. digits \in Seq(Nibble) /\ digits # <<>>
      BY <2>2, DigitsOnLine
    <3>2. line \in Seq(IF slot.isBinary THEN Byte ELSE Nibble)
      <4>1. CASE damaged
        <5>1. slot.isBinary = TRUE
          BY <2>2, <4>1, Settings DEF TransportInv, LineInv
        <5>2. line \in Seq(Byte)
          BY <2>2, <4>1, Zenon DEF TransportInv, LineInv, IsDamaged
        <5> QED BY <5>1, <5>2, Zenon
      <4>2. CASE ~damaged
        <5>1. line = Sent(checksum, slot.isBinary, digits)
          BY <2>2, <4>2, Zenon DEF TransportInv, LineInv
        <5>2. /\ Sent(checksum, TRUE, digits) \in Seq(Byte)
              /\ Sent(checksum, FALSE, digits) \in Seq(Nibble)
          <6>1. checksum \in Checksums
            BY Settings
          <6>2. /\ Sent(checksum, TRUE, digits) \in Seq(Byte)
                /\ Sent(checksum, FALSE, digits) = Rendered(checksum, digits)
                /\ Rendered(checksum, digits) \in Seq(Nibble)
            BY <3>1, <6>1, SentBytes
          <6> QED BY <6>2, Zenon
        <5>3. slot.isBinary \in {TRUE, FALSE}
          BY Settings
        <5> QED BY <5>1, <5>2, <5>3, Zenon
      <4> QED BY <4>1, <4>2
    <3>3. got \subseteq ValuesOf(type)
      <4>1. toUserTypeHexInt(digits, type, slot) \subseteq ValuesOf(type)
        BY <3>1, ReadNumber, Settings
      <4>2. got = {} \/ got = toUserTypeHexInt(digits, type, slot)
        BY DEF TransportInv, ReadInv
      <4> QED BY <4>1, <4>2, Zenon
    <3> QED BY <3>1, <3>2, <3>3, Zenon DEF TransportInv, TypeOK
  <2> QED BY <2>1, <2>2
<1> QED BY <1>1, Transported, PTL

\* The digits in the command denote the value.
THEOREM WrittenDigits == Spec => []WrittenDigitsDenoteValue
<1>1. TransportInv => WrittenDigitsDenoteValue
  <2> SUFFICES ASSUME TransportInv, pc = "written" PROVE WrittenDigitsDenoteValue
    BY DEF WrittenDigitsDenoteValue
  <2>1. IsWritten(type, slot, value, digits)
    BY DEF TransportInv, CommandInv
  <2>2. IsOddSigned <=> IsOddSignedSlot(slot)
    BY Zenon DEF IsOddSigned, IsOddSignedSlot
  <2> QED BY <2>1, <2>2, Zenon DEF WrittenDigitsDenoteValue, IsWritten, Intended
<1> QED BY <1>1, Transported, PTL

\* What has no digits of the width is refused, and nothing else.
THEOREM TooWideIsRefused == Spec => []RefusedIffTooWide
<1>1. TransportInv => RefusedIffTooWide
  <2> SUFFICES ASSUME TransportInv, ~IsOddSigned, pc \in {"unfit", "written"}
               PROVE  pc = "unfit" <=> \E n \in slot.width : Intended \notin NumbersOf(n)
    BY DEF RefusedIffTooWide
  <2>1. toTransportLayerHexInt(value, type, slot) = {} <=> IsTooWide(type, slot, value)
    <3>1. ~IsOddSignedSlot(slot)
      BY Zenon DEF IsOddSigned, IsOddSignedSlot
    <3> QED BY <3>1, WrittenHexInt DEF TransportInv, SettingsInv
  <2>2. pc = "unfit" <=> toTransportLayerHexInt(value, type, slot) = {}
    <3>1. pc = "unfit" => toTransportLayerHexInt(value, type, slot) = {}
      BY DEF TransportInv, CommandInv
    <3>2. pc = "written" => digits \in toTransportLayerHexInt(value, type, slot)
      BY DEF TransportInv, CommandInv
    <3> QED BY <3>1, <3>2
  <2>3. IsTooWide(type, slot, value) <=> \E n \in slot.width : Intended \notin NumbersOf(n)
    BY Zenon DEF IsTooWide, Intended, NumbersOf, NumbersOfDigits
  <2> QED BY <2>1, <2>2, <2>3, Zenon
<1> QED BY <1>1, Transported, PTL

\* No fewer digits denote the value.
THEOREM FewestDigits == Spec => []CompactIsMinimal
<1>1. TransportInv => CompactIsMinimal
  <2> SUFFICES ASSUME TransportInv, pc = "written", slot.width = {}, Intended = value
               PROVE  Len(digits) = 1 \/ Intended \notin NumbersOf(Len(digits) - 1)
    BY DEF CompactIsMinimal
  <2>1. IsWritten(type, slot, value, digits)
    BY DEF TransportInv, CommandInv
  <2> QED BY <2>1, Zenon DEF IsWritten, Intended, NumbersOf, NumbersOfDigits
<1> QED BY <1>1, Transported, PTL

\* What is read is the number of the device's digits.
THEOREM ReadNumbers == Spec => []ReadIsExact
<1>1. TransportInv => ReadIsExact
  <2> SUFFICES ASSUME TransportInv, pc = "read", ~damaged, IsWideEnough
               PROVE  got = {NumberOf(digits, slot.isSigned)}
    BY DEF ReadIsExact
  <2>1. /\ digits \in Seq(Nibble) /\ digits # <<>> /\ \A n \in slot.width : Len(digits) = n
        /\ slot.width = {} => Len(digits) <= 2 * type.bytes
    BY DigitsOnLine
  <2>2. got = toUserTypeHexInt(digits, type, slot)
    BY DEF TransportInv, ReadInv
  <2>3. got # {}
    BY DEF TransportInv, ReadInv
  <2>4. slot.isSigned => type.signed /\ Len(digits) <= 2 * type.bytes
    <3>1. slot.isSigned => type.signed /\ \A n \in slot.width : n <= 2 * type.bytes
      BY Settings, Zenon DEF IsWideEnough
    <3> QED BY <2>1, <3>1
  <2> QED BY <2>1, <2>2, <2>3, <2>4, Settings, ReadNumber
<1> QED BY <1>1, Transported, PTL

\* No damaged response is read.
THEOREM DamageDetected == Spec => []DamageIsDetected
<1>1. TransportInv => DamageIsDetected
  BY DEF TransportInv, LineInv, CommandInv, DamageIsDetected
<1> QED BY <1>1, Transported, PTL

\* Intact responses are read, if the user type has their number.
THEOREM IntactAccepted == Spec => []IntactIsAccepted
<1>1. TransportInv => IntactIsAccepted
  <2> SUFFICES ASSUME TransportInv, pc = "refused", ~damaged
               PROVE  \/ NumberOf(digits, slot.isSigned) \notin ValuesOf(type)
                      \/ slot.isBinary /\ Len(digits) % 2 = 1
    BY DEF IntactIsAccepted
  <2>1. digits \in Seq(Nibble) /\ digits # <<>>
    BY DigitsOnLine
  <2>2. toUserTypeHexInt(digits, type, slot) = {} \/ IsPadded(slot, digits)
    BY DEF TransportInv, ReadInv
  <2>3. toUserTypeHexInt(digits, type, slot) = {} => NumberOf(digits, slot.isSigned) \notin ValuesOf(type)
    BY <2>1, Settings, ReadNumber
  <2> QED BY <2>2, <2>3 DEF IsPadded
<1> QED BY <1>1, Transported, PTL

=============================================================================
