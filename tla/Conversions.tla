----------------------------- MODULE Conversions -----------------------------
(***************************************************************************)
(* Integers, hexadecimal strings and binary strings: the conversions of     *)
(* stringUtils and the accessor's functions made from them.                 *)
(*                                                                          *)
(* A binary string is a sequence of bytes, a hexadecimal string a sequence  *)
(* of nibbles.  A C++ integer type is [bytes, signed]; an optional result   *)
(* is a set of at most one element.  Widths are digits or bytes; the        *)
(* overflow behaviours EXPAND and TRUNCATE have no caller in the backend.   *)
(***************************************************************************)
EXTENDS Integers, Sequences

Byte == 0..255
Nibble == 0..15

\* base to the power of n: a function that can be reasoned about.
Power(base, n) ==
  LET p[i \in 0..n] == IF i = 0 THEN 1 ELSE base * p[i - 1] IN p[n]

\* The values of a C++ integer type.
ValuesOf(type) ==
  LET n == Power(256, type.bytes) IN IF type.signed THEN -(n \div 2)..(n \div 2 - 1) ELSE 0..(n - 1)

\* The value with the same bits whose type is signed, or unsigned.
AsSigned(value, type, isSigned) ==
  LET n == Power(256, type.bytes)
      bits == value % n
  IN IF isSigned /\ bits >= n \div 2 THEN bits - n ELSE bits

\* The last n digits, in two's complement.
Digits(value, base, n) == [i \in 1..n |-> (value \div Power(base, n - i)) % base]

\* The number that digits denote.
Magnitude(digits, base) ==
  LET f[i \in 0..Len(digits)] == IF i = 0 THEN 0 ELSE base * f[i - 1] + digits[i]
  IN f[Len(digits)]

-----------------------------------------------------------------------------
(* Integers to binary and hexadecimal strings *)

\* Mutant: no byte for the sign.
getIntNaturalByteWidth_NoSign(value, bytes, isSigned) ==
  LET magnitude == IF value < 0 THEN -value ELSE value
  IN CHOOSE n \in 1..bytes : magnitude < Power(256, n) /\ (n = 1 \/ magnitude >= Power(256, n - 1))

\* Bytes of the magnitude, and one more if the first bit is not the sign's; the
\* lowest value has no magnitude.
getIntNaturalByteWidth(value, bytes, isSigned) ==
  LET magnitude == IF value < 0 THEN -value ELSE value
      width == CHOOSE n \in 1..bytes : magnitude < Power(256, n) /\ (n = 1 \/ magnitude >= Power(256, n - 1))
      firstBit == (value \div Power(2, 8 * width - 1)) % 2
  IN IF value = -(Power(256, bytes) \div 2) THEN bytes
     ELSE IF isSigned /\ (value < 0) # (firstBit = 1) THEN width + 1 ELSE width

\* binaryStrFromInt for a given width: longer strings are packed with the sign.
binaryStrFromInt(payload, type, width, isSigned) ==
  LET value == AsSigned(payload, type, isSigned)
  IN IF width < getIntNaturalByteWidth(value, type.bytes, isSigned) THEN {}
     ELSE {Digits(value, 256, width)}

binaryStrCompact(payload, type, isSigned) ==
  LET value == AsSigned(payload, type, isSigned)
  IN Digits(value, 256, getIntNaturalByteWidth(value, type.bytes, isSigned))

\* Mutant: the high nibble is left in the low digit.
hexStrFromBinaryStr_Unmasked(bytes) ==
  [i \in 1..(2 * Len(bytes)) |->
     IF i % 2 = 1 THEN bytes[(i + 1) \div 2] \div 16 ELSE bytes[i \div 2]]

hexStrFromBinaryStr(bytes) ==
  [i \in 1..(2 * Len(bytes)) |->
     IF i % 2 = 1 THEN bytes[(i + 1) \div 2] \div 16 ELSE bytes[i \div 2] % 16]

\* Cut or packed on the left.  (char is signed, as the packing relies on.)
hexStrOfWidth(bytes, nHexChars, isSigned) ==
  LET all == hexStrFromBinaryStr(bytes)
      pack == IF isSigned /\ bytes # <<>> /\ bytes[1] >= 128 THEN 15 ELSE 0
  IN [i \in 1..nHexChars |->
        IF i + Len(all) > nHexChars THEN all[i + Len(all) - nHexChars] ELSE pack]

\* Mutant: off by one at the lowest negative digit.
zerothNibbleCanBeRemoved_Strict(isSigned, isNegative, byte0) ==
  \/ isSigned /\ ~isNegative /\ byte0 <= 7
  \/ isSigned /\ isNegative /\ byte0 > 248
  \/ ~isSigned /\ byte0 <= 15

\* May the first nibble go without a change of sign?
zerothNibbleCanBeRemoved(isSigned, isNegative, byte0) ==
  \/ isSigned /\ ~isNegative /\ byte0 <= 7
  \/ isSigned /\ isNegative /\ byte0 >= 248
  \/ ~isSigned /\ byte0 <= 15

\* hexStrFromInt with WidthOption::COMPACT.
hexStrCompact(payload, type, isSigned) ==
  LET bytes == binaryStrCompact(payload, type, isSigned)
      hex == hexStrFromBinaryStr(bytes)
  IN IF zerothNibbleCanBeRemoved(isSigned, payload < 0, bytes[1]) THEN Tail(hex) ELSE hex

\* Mutant: for an odd width the nibble that is cut off is not looked at.
IsCutNibbleMeaningful_Never(payload, isSigned, byte0) == FALSE

IsCutNibbleMeaningful(payload, isSigned, byte0) ==
  \/ (~isSigned \/ payload > 0) /\ byte0 \div 16 # 0
  \/ isSigned /\ payload < 0 /\ byte0 \div 16 # 15

\* hexStrFromInt for a number of digits, with OverflowBehavior::NULLOPT.
hexStrFromInt(payload, type, nHexChars, isSigned) ==
  LET width == (nHexChars + 1) \div 2
  IN {hexStrOfWidth(bytes, nHexChars, isSigned) : bytes \in
        {b \in binaryStrFromInt(payload, type, width, isSigned) :
           nHexChars % 2 = 1 => ~IsCutNibbleMeaningful(payload, isSigned, b[1])}}

-----------------------------------------------------------------------------
(* And back *)

\* Mutant: the first digit of an odd number is never extended.
binaryStrFromHexStr_Unsigned(hex, isSigned) ==
  LET odd == Len(hex) % 2
  IN [b \in 1..((Len(hex) + 1) \div 2) |->
        IF odd = 1 /\ b = 1 THEN hex[1] ELSE 16 * hex[2 * b - 1 - odd] + hex[2 * b - odd]]

\* The first of an odd number of digits has a byte of its own.
binaryStrFromHexStr(hex, isSigned) ==
  LET odd == Len(hex) % 2
      first == IF isSigned /\ hex[1] >= 8 THEN 240 + hex[1] ELSE hex[1]
  IN [b \in 1..((Len(hex) + 1) \div 2) |->
        IF odd = 1 /\ b = 1 THEN first ELSE 16 * hex[2 * b - 1 - odd] + hex[2 * b - odd]]

\* Bytes from the first that is no packing.
getStrNaturalByteWidth(bytes, interpretAsPositive) ==
  LET kept == {i \in DOMAIN bytes : bytes[i] # (IF interpretAsPositive THEN 0 ELSE 255)}
  IN IF kept = {} THEN 1 ELSE Len(bytes) + 1 - CHOOSE i \in kept : \A j \in kept : i <= j

\* Is the integer negative?
IsNegative(bytes, type) == type.signed /\ bytes[1] >= 128

\* Packed with the sign, or cut to the bytes of the type.
intFromBinaryStr(bytes, type) ==
  LET negative == IsNegative(bytes, type)
      pack == IF negative THEN 255 ELSE 0
      missing == type.bytes - Len(bytes)
      packed == [i \in 1..type.bytes |-> IF i > missing THEN bytes[i - missing] ELSE pack]
  IN IF bytes = <<>> THEN {0}
     ELSE IF getStrNaturalByteWidth(bytes, ~negative) > type.bytes THEN {}
     ELSE {AsSigned(Magnitude(packed, 256), type, type.signed)}

-----------------------------------------------------------------------------
(* The accessor's conversions of hexInt and binInt *)

\* The number that hexadecimal digits denote, in two's complement if signed.
NumberOf(hex, isSigned) ==
  Magnitude(hex, 16) - (IF isSigned /\ hex # <<>> /\ hex[1] >= 8 THEN Power(16, Len(hex)) ELSE 0)

\* None: a runtime_error.
toTransportLayerHexInt(value, type, slot) ==
  IF slot.width = {} THEN {hexStrCompact(value, type, slot.isSigned)}
  ELSE UNION {hexStrFromInt(value, type, n, slot.isSigned) : n \in slot.width}

\* ChimeraTK's conversion of an unsigned "0x..." string to a number.
userTypeToUserType(hex, type) == {NumberOf(hex, FALSE)} \cap ValuesOf(type)

toUserTypeHexInt(hex, type, slot) ==
  IF slot.isSigned THEN intFromBinaryStr(binaryStrFromHexStr(hex, TRUE), type)
  ELSE userTypeToUserType(hex, type)

=============================================================================
