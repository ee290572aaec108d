----------------------- MODULE MCCommandBasedBackend -----------------------
(***************************************************************************)
(* Instances of CommandBasedBackend for TLC.  Register "pos" is readable   *)
(* and writeable, like /cwFrequency of tests/test.json; "stop" is a        *)
(* write-only command without response, like /emergencyStopMovement;       *)
(* "mode" is write-only with a response, like /setByteMode; "axes" is read *)
(* in two lines, like /ACCRO; "idn" is the default recovery register.      *)
(***************************************************************************)
EXTENDS CommandBasedBackend

MCReadLines == [r \in Registers |-> IF r = "axes" THEN 2 ELSE 1]
MCWriteLines == [r \in Registers |-> IF r = "mode" THEN 1 ELSE 0]

=============================================================================
