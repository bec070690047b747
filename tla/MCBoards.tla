------------------------------ MODULE MCBoards ------------------------------
(***************************************************************************)
(* Small instances of Boards for TLC.                                      *)
(***************************************************************************)
EXTENDS Boards, TLC

(* A transaction that counts, one that waits, and a guest. *)
FiledFirst == <<[NewItem("tyfcb", 1) EXCEPT !.status = "verified"], NewItem("tyfcb", 2), NewItem("visitor", 1)>>

(* The first member is in a team, the second in the same one, another or none. *)
TeamsFirst == { t \in [{1, 2, 3} -> {1, 2, None}] : t[1] = 1 /\ t[3] = None }

ListsSeen ==
  { [kind |-> "tyfcb", status |-> None, team |-> None], [kind |-> "tyfcb", status |-> "pending", team |-> None],
    [kind |-> "visitor", status |-> None, team |-> 1],  [kind |-> "member", status |-> None, team |-> None] }

(* Requests differ only in what they do, not in who serves them. *)
Symmetry == Permutations(Handler)
=============================================================================
