------------------------------ MODULE MCTyfcb ------------------------------
(***************************************************************************)
(* Small instances of Tyfcb for TLC, and what a comment of the code says   *)
(* of the pairs.                                                           *)
(***************************************************************************)
EXTENDS Tyfcb, TLC

(* Entries, members and handlers are interchangeable in every safety property. *)
Symmetry == Permutations(Entry) \cup Permutations(Handler) \cup Permutations(Member)

(* usecase/tyfcb.go:73, "the nth transaction between the same pair is      *)
(* worth 1/n of the band": no two entries of a pair share an ordinal.      *)
OrdinalsDistinct ==
  \A e, f \in Entry :
    /\ e # f /\ status[e] # "absent" /\ status[f] # "absent"
    /\ filed[e].giver = filed[f].giver /\ filed[e].receiver = filed[f].receiver
    => filed[e].ordinal # filed[f].ordinal
=============================================================================
