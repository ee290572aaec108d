-------------------------- MODULE ChecksumAlgorithms --------------------------
(***************************************************************************)
(* The checksums of binary interactions: hexadecimal data in, a string of   *)
(* hexadecimal digits of fixed length out.  SHA256 is OpenSSL's, and the    *)
(* CRC is written out for Boost's crc_optimal<16, 0x1021, 0xFFFF, 0>.       *)
(***************************************************************************)
EXTENDS Conversions

SumOfBytes(bytes) ==
  LET s[i \in 0..Len(bytes)] == IF i = 0 THEN 0 ELSE s[i - 1] + bytes[i] IN s[Len(bytes)]

\* Mutant: no leading zeros.
checksum8_Compact(bytes) ==
  Digits(SumOfBytes(bytes) % 256, 16, IF SumOfBytes(bytes) % 256 < 16 THEN 1 ELSE 2)

\* Mutant: the first byte is left out.
checksum8_FromSecond(bytes) == Digits(SumOfBytes(Tail(bytes)) % 256, 16, 2)

checksum8(bytes) == Digits(SumOfBytes(bytes) % 256, 16, 2)

checksum32(bytes) == Digits(SumOfBytes(bytes), 16, 8)

Xor16(a, b) ==
  LET Bit(value, i) == (value \div Power(2, i)) % 2
      x[i \in 0..16] ==
        IF i = 0 THEN 0 ELSE x[i - 1] + Power(2, i - 1) * ((Bit(a, i - 1) + Bit(b, i - 1)) % 2)
  IN x[16]

\* One bit of the register goes out, and the polynomial in if it was set.
Shifted(crc) == IF crc >= 32768 THEN Xor16((2 * crc) % 65536, 4129) ELSE 2 * crc
AddByte(byte, crc) ==
  LET f[i \in 0..8] == IF i = 0 THEN Xor16(crc, 256 * byte) ELSE Shifted(f[i - 1]) IN f[8]

checksumCrcCcit16(bytes) ==
  LET crc[i \in 0..Len(bytes)] == IF i = 0 THEN 65535 ELSE AddByte(bytes[i], crc[i - 1])
  IN Digits(crc[Len(bytes)], 16, 4)

\* Those that are modelled, and that of an interaction without one.
Checksums == {"none", "cs8", "cs32", "crcccit16"}

getChecksumAlgorithm(checksum, bytes) ==
  CASE checksum = "none" -> <<>>
    [] checksum = "cs8" -> checksum8(bytes)
    [] checksum = "cs32" -> checksum32(bytes)
    [] checksum = "crcccit16" -> checksumCrcCcit16(bytes)

\* getRegexString: how many digits the response's regular expressions expect.
RegexLength(checksum) ==
  CASE checksum = "none" -> 0
    [] checksum = "cs8" -> 2
    [] checksum = "cs32" -> 8
    [] checksum = "crcccit16" -> 4

\* A Checksumer with the adapters of a binary interaction.
makeChecksumer(checksum, hex) == getChecksumAlgorithm(checksum, binaryStrFromHexStr(hex, FALSE))

=============================================================================
