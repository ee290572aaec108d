--------------------------- MODULE MCValueTransport ---------------------------
(***************************************************************************)
(* Values for TLC: all of one byte, the boundaries of two.                  *)
(***************************************************************************)
EXTENDS ValueTransport

Type(bytes, signed) == [bytes |-> bytes, signed |-> signed]
Slot(width, isSigned, isBinary) == [width |-> width, isSigned |-> isSigned, isBinary |-> isBinary]

\* Around the powers of sixteen, their halves, and their opposites.
MCBoundaries ==
  LET powers == {0} \cup {Power(16, n) : n \in 0..4} \cup {Power(16, n) \div 2 : n \in 1..4}
  IN UNION {{p - 1, p, p + 1, -p - 1, -p, 1 - p} : p \in powers}

MCValues(t) == IF t.bytes = 1 THEN ValuesOf(t) ELSE MCBoundaries \cap ValuesOf(t)

Case(t, s, c, v) == [type |-> t, slot |-> s, checksum |-> c, value |-> v]

MCTypes == {Type(bytes, signed) : bytes \in {1, 2}, signed \in BOOLEAN}

MCSlots ==
  {Slot(width, isSigned, FALSE) : width \in {{}} \cup {{n} : n \in 1..6}, isSigned \in BOOLEAN}
  \cup {Slot({n}, isSigned, TRUE) : n \in {2, 3, 4}, isSigned \in BOOLEAN}

MCCases ==
  UNION {{Case(t, s, "none", v) : v \in MCValues(t)} : t \in MCTypes, s \in MCSlots}
  \cup {Case(Type(2, isSigned), Slot({n}, isSigned, TRUE), c, v) :
          isSigned \in BOOLEAN, n \in {2, 4}, c \in {"cs8", "cs32", "crcccit16"}, v \in {1, 100}}

\* Digits at the boundaries of n digits, and one in the middle.
MCContents(n) == {Digits(number, 16, n) : number \in MCBoundaries \cup {200, 1000}}

\* For the reading of narrow types.
MCNarrow == {Case(Type(1, TRUE), Slot({4}, TRUE, FALSE), "none", v) : v \in {1, -1}}

\* A flipped bit, all bits flipped, one more.
MCDamages(byte) == {255 - byte, (byte + 1) % 256, (byte + 128) % 256}

=============================================================================
