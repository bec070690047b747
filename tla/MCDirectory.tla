---------------------------- MODULE MCDirectory ----------------------------
(***************************************************************************)
(* Small instances of Directory for TLC.                                   *)
(***************************************************************************)
EXTENDS Directory, TLC

CONSTANTS retail, jasa

Classes      == {retail, jasa}
ClassesFirst == {retail}
=============================================================================
