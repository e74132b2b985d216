--------------------------- MODULE MCTypeCService ---------------------------
(***************************************************************************)
(* Small instances of TypeCService for TLC.                                *)
(***************************************************************************)
EXTENDS TypeCService

Watts == [not |-> 5000, very |-> None, slow |-> 15000]
OneSlow == {7500}
AllOnly == {Changes}
=============================================================================
