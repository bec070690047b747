--------------------------- MODULE MCScoringPass ---------------------------
(***************************************************************************)
(* Small instances of ScoringPass for TLC.                                 *)
(***************************************************************************)
EXTENDS ScoringPass, TLC

(* Members, teams and handlers are interchangeable in every safety property. *)
Symmetry == Permutations(Member) \cup Permutations(Team) \cup Permutations(Handler)

(* Friday to Monday: three days of one week and the first of the next. *)
LongWeekend == 4..7

(* Sunday and Monday: the end of a week and the start of the next. *)
TurnOfWeek == 6..7

(* A constraint on the states explored: two passes and two contributions,  *)
(* and an edit when one of these is left out.                              *)
FewSteps == entries + edits + runs <= 4
=============================================================================
