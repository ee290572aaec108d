---------------------------- MODULE ValueTransport ----------------------------
(***************************************************************************)
(* An integer on its way to the device and back: written into the command   *)
(* by doPreWrite, packed if the interaction is binary, with a checksum;     *)
(* stored by the device, or replaced; and read by doPostRead from a         *)
(* response of the same form, a byte of which the line may have damaged.    *)
(*                                                                          *)
(* The rest of the command, and line endings, are left out.  The device     *)
(* computes the checksum that the accessor computes.                        *)
(***************************************************************************)
EXTENDS ChecksumAlgorithms

CONSTANTS
  Cases,       \* [type, slot, checksum, value]: user type, slot, and what is written
  Contents(_), \* digits that the device itself may put into a slot of n digits
  Damages(_)   \* what the line may turn a byte into

\* A slot is [width, isSigned, isBinary]: a number of digits, or none; binary
\* interactions have a width, and the text checksums are not modelled.
ASSUME CasesAssumption ==
  /\ \A c \in Cases :
       /\ c.type.bytes \in Nat \ {0} /\ c.type.signed \in BOOLEAN
       /\ c.slot.isSigned \in BOOLEAN /\ c.slot.isBinary \in BOOLEAN
       /\ c.slot.width \subseteq Nat \ {0} /\ \A m, n \in c.slot.width : m = n
       /\ c.value \in ValuesOf(c.type)
       /\ c.checksum \in Checksums
       /\ c.slot.isBinary => c.slot.width # {}
       /\ c.checksum # "none" => c.slot.isBinary
       /\ \A n \in c.slot.width : \A hex \in Contents(n) : hex \in Seq(Nibble) /\ Len(hex) = n
  /\ \A byte \in Byte : Damages(byte) \subseteq Byte

VARIABLES
  type, slot, checksum,
  value,   \* what the application writes
  pc,
  digits,  \* the value in the command, then in the response, as the sender meant it
  line,    \* the transfer buffer
  damaged, \* history: was a byte changed?
  got      \* what the application reads; {} for nothing

vars == <<type, slot, checksum, value, pc, digits, line, damaged, got>>
settings == <<type, slot, checksum, value>>

Init ==
  \E c \in Cases :
    /\ type = c.type /\ slot = c.slot /\ checksum = c.checksum /\ value = c.value
    /\ pc = "write"
    /\ digits = <<>>
    /\ line = <<>>
    /\ damaged = FALSE
    /\ got = {}

\* The pattern "{{csStart.0}}{{x.0}}{{csEnd.0}}{{cs.0}}".
Render(hex) == hex \o makeChecksumer(checksum, hex)

ToLine(hex) == IF slot.isBinary THEN binaryStrFromHexStr(hex, FALSE) ELSE hex

makeCombinedReadString(transferBuffer) ==
  IF slot.isBinary THEN hexStrFromBinaryStr(transferBuffer) ELSE transferBuffer

doPreWrite ==
  /\ pc = "write"
  /\ \/ /\ toTransportLayerHexInt(value, type, slot) = {}
        /\ pc' = "unfit"
        /\ UNCHANGED <<digits, line>>
     \/ /\ digits' \in toTransportLayerHexInt(value, type, slot)
        /\ line' = ToLine(Render(digits'))
        /\ pc' = "written"
  /\ UNCHANGED <<settings, damaged, got>>

\* The device answers a read with what was written, or with another content.
Answer ==
  /\ pc = "written"
  /\ digits' \in {digits} \cup UNION {Contents(n) : n \in slot.width}
  /\ line' = ToLine(Render(digits'))
  /\ pc' = "answered"
  /\ UNCHANGED <<settings, damaged, got>>

Damage ==
  /\ pc = "answered"
  /\ ~damaged
  /\ checksum # "none"
  /\ \E i \in DOMAIN line : \E byte \in Damages(line[i]) \ {line[i]} :
       line' = [line EXCEPT ![i] = byte]
  /\ damaged' = TRUE
  /\ UNCHANGED <<settings, pc, digits, got>>

\* Do the three regular expressions match the response?
MatchesResponse(hex) ==
  \/ slot.width = {}
  \/ \E n \in slot.width : Len(hex) = n + RegexLength(checksum)

\* Conversion, then inspectChecksum.
doPostRead ==
  /\ pc = "answered"
  /\ LET hex == makeCombinedReadString(line)
         data == SubSeq(hex, 1, Len(hex) - RegexLength(checksum))
         read == toUserTypeHexInt(data, type, slot)
     IN IF MatchesResponse(hex) /\ read # {} /\ hex = Render(data)
        THEN got' = read /\ pc' = "read"
        ELSE pc' = "refused" /\ UNCHANGED got
  /\ UNCHANGED <<settings, digits, line, damaged>>

Next == doPreWrite \/ Answer \/ Damage \/ doPostRead

Spec == Init /\ [][Next]_vars

-----------------------------------------------------------------------------
TypeOK ==
  /\ pc \in {"write", "unfit", "written", "answered", "refused", "read"}
  /\ digits \in Seq(Nibble)
  /\ line \in Seq(IF slot.isBinary THEN Byte ELSE Nibble)
  /\ damaged \in BOOLEAN
  /\ got \subseteq ValuesOf(type)

\* The value as the slot's sign reads the bits of the user type.
Intended == AsSigned(value, type, slot.isSigned)

\* The numbers of n digits.
NumbersOf(n) == IF slot.isSigned THEN -(Power(16, n) \div 2)..(Power(16, n) \div 2 - 1) ELSE 0..(Power(16, n) - 1)

\* An odd number of signed digits is where hexStrFromInt does not look at the
\* sign's bit.
IsOddSigned == slot.isSigned /\ \E n \in slot.width : n % 2 = 1

\* The digits in the command denote the value that is written, whatever width
\* and sign the slot and the user type have; in an odd number of signed digits
\* they do so modulo the width only.
WrittenDigitsDenoteValue ==
  pc = "written" =>
    LET number == NumberOf(digits, slot.isSigned) IN
      IF IsOddSigned THEN (number - Intended) % Power(16, Len(digits)) = 0 ELSE number = Intended

\* A value is refused before it is sent exactly if no digits of the slot's
\* width denote it.
RefusedIffTooWide ==
  ~IsOddSigned /\ pc \in {"unfit", "written"} =>
    (pc = "unfit" <=> \E n \in slot.width : Intended \notin NumbersOf(n))

\* Without a width the digits are as few as can denote the value (if user type
\* and slot agree on the sign of it).
CompactIsMinimal ==
  pc = "written" /\ slot.width = {} /\ Intended = value =>
    Len(digits) = 1 \/ Intended \notin NumbersOf(Len(digits) - 1)

\* Does the user type have the numbers of the slot, at least in its width?
IsWideEnough ==
  IF slot.isSigned
  THEN type.signed /\ \A n \in slot.width : n <= 2 * type.bytes
  ELSE TRUE

\* What is read is the number that the device's digits denote.  (Unsigned user
\* types read negative numbers of signed slots by their bits; narrow ones are
\* the subject of NarrowReadIsExact.)
ReadIsExact ==
  pc = "read" /\ ~damaged /\ IsWideEnough => got = {NumberOf(digits, slot.isSigned)}

\* No response with a damaged byte is read, with whichever checksum.
DamageIsDetected == damaged => pc # "read"

\* An intact response with a number that the user type has is read: checksums
\* have the length that the regular expressions expect.  (An odd number of
\* digits in a binary response is padded, and does not match.)
IntactIsAccepted ==
  pc = "refused" /\ ~damaged =>
    \/ NumberOf(digits, slot.isSigned) \notin ValuesOf(type)
    \/ slot.isBinary /\ Len(digits) % 2 = 1

\* "@returns integer of type intType, if possible, representing the data in
\* binaryContainer": a signed number is read exactly, or refused.
NarrowReadIsExact ==
  pc = "read" /\ type.signed /\ slot.isSigned => got = {NumberOf(digits, slot.isSigned)}

=============================================================================
