------------------------------ MODULE MCPrize ------------------------------
(***************************************************************************)
(* Small instances of Prize for TLC.                                       *)
(***************************************************************************)
EXTENDS Prize, TLC

(* A row that is worth a ticket and one that takes it back. *)
SmallPoints == {150, -100}
=============================================================================
