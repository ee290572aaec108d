---------------------------- MODULE MCSerialPort ----------------------------
(***************************************************************************)
(* Instances of SerialPort for TLC.  Lines have at most two bytes and      *)
(* end in two bytes; a buffer of eight bytes takes two of them at once.     *)
(***************************************************************************)
EXTENDS SerialPort

MCDelimiter == <<"CR", "LF">>
MCLines == {<<<<"a">>>>, <<<<"b">>, <<"a">>>>}
MCShortLines == MCLines \cup {<<<<"a", "b">>, <<>>>>}
MCBytes == {<<<<"a", "CR", "LF", "b">>>>}
MCNoResponses == {}
MCNoModes == {}
MCOnlyLines == {"lines"}
MCSplitBytes == {"bytes"}
MCSplitLines == {"lines"}

=============================================================================
