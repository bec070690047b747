----------------------------- MODULE EntryBook -----------------------------
(***************************************************************************)
(* What the moderation of TYFCB entries promises, with no requests, locks, *)
(* transactions or ledger rows: every entry is worth a fixed number of     *)
(* points from the moment it is filed, and the season counts those points  *)
(* exactly while the entry stands as counted.  Standing and points change  *)
(* together, in one step.  A cancelled entry is never heard of again.      *)
(*                                                                         *)
(* Module Tyfcb implements this specification.                             *)
(***************************************************************************)
EXTENDS Integers

CONSTANT Entry        \* the entries that may ever be filed

VARIABLES standing,   \* where each entry stands
          worth,      \* what it is worth, fixed when it is filed
          counted     \* the points the season counts for it now

bookVars == <<standing, worth, counted>>

Standing == {"absent", "open", "counted", "cancelled"}

Init ==
  /\ standing = [e \in Entry |-> "absent"]
  /\ worth    = [e \in Entry |-> 0]
  /\ counted  = [e \in Entry |-> 0]

(* An entry is filed for review; it counts for nothing yet. *)
File(e) ==
  /\ standing[e] = "absent"
  /\ standing' = [standing EXCEPT ![e] = "open"]
  /\ worth'[e] \in Int
  /\ worth' = [worth EXCEPT ![e] = worth'[e]]
  /\ UNCHANGED counted

Count(e) ==
  /\ standing[e] = "open"
  /\ standing' = [standing EXCEPT ![e] = "counted"]
  /\ counted'  = [counted EXCEPT ![e] = worth[e]]
  /\ UNCHANGED worth

Uncount(e) ==
  /\ standing[e] = "counted"
  /\ standing' = [standing EXCEPT ![e] = "open"]
  /\ counted'  = [counted EXCEPT ![e] = 0]
  /\ UNCHANGED worth

Cancel(e) ==
  /\ standing[e] \in {"open", "counted"}
  /\ standing' = [standing EXCEPT ![e] = "cancelled"]
  /\ counted'  = [counted EXCEPT ![e] = 0]
  /\ UNCHANGED worth

Next == \E e \in Entry : File(e) \/ Count(e) \/ Uncount(e) \/ Cancel(e)

Spec == Init /\ [][Next]_bookVars
=============================================================================
