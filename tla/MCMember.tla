------------------------------ MODULE MCMember ------------------------------
(***************************************************************************)
(* Small instances of Member for TLC.                                      *)
(***************************************************************************)
EXTENDS Member, TLC
=============================================================================
