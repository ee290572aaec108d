-------------------------- MODULE MCRegisterAccessor --------------------------
(***************************************************************************)
(* An instance of RegisterAccessor for TLC: a register of two elements and *)
(* accessors to all of it or to one element.  The value 3 does not fit the *)
(* user type, 2 does not fit the slot of the write command.                *)
(***************************************************************************)
EXTENDS RegisterAccessor

MCValues == 0..3
MCUserType == 0..2
MCSlot == {0, 1, 3}
MCContents == {<<0, 1>>, <<1, 3>>}

=============================================================================
