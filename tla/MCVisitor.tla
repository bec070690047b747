----------------------------- MODULE MCVisitor -----------------------------
(***************************************************************************)
(* A small instance of Visitor for TLC.                                    *)
(***************************************************************************)
EXTENDS Visitor, TLC
=============================================================================
