---------------------------- MODULE MCTcpSocket ----------------------------
(***************************************************************************)
(* Instances of TcpSocket for TLC.                                         *)
(***************************************************************************)
EXTENDS TcpSocket

MCDelimiter == <<"CR", "LF">>
MCLine == {<<<<"a">>>>, <<<<"b", "CR">>>>}
MCBytes == {<<<<"a", "CR", "LF", "b">>>>}
MCNoResponses == {}
MCWhole == {}
MCSplit == {"lines", "bytes"}

=============================================================================
