----------------------------- MODULE BonusBook -----------------------------
(***************************************************************************)
(* What the settlement passes promise, with no reads, transactions or      *)
(* failures: bonuses of one period are paid together, each of them once    *)
(* and for good, and whom a named bonus was paid to is said by the step    *)
(* that pays it and never changed.                                         *)
(*                                                                         *)
(* Module ScoringPass implements this specification while passes do not    *)
(* overlap.                                                                *)
(***************************************************************************)
EXTENDS Naturals

CONSTANTS Bonus,     \* what may be paid: for what, to whom, for which period
          Period,    \* the sets of bonuses that are settled together
          Named,     \* the bonuses whose holder the settlement finds out
          Person,
          None       \* nobody

VARIABLES paid,      \* how often each bonus was paid
          holder     \* whom each named bonus was paid to

bookVars == <<paid, holder>>

Init ==
  /\ paid   = [b \in Bonus |-> 0]
  /\ holder = [b \in Named |-> None]

Pay(S) ==
  /\ \A b \in S : paid[b] = 0
  /\ paid' = [b \in Bonus |-> IF b \in S THEN 1 ELSE paid[b]]
  /\ \E to \in [Named \cap S -> Person] :
       holder' = [b \in Named |-> IF b \in S THEN to[b] ELSE holder[b]]

Next == \E P \in Period : \E S \in SUBSET P : Pay(S)

Spec == Init /\ [][Next]_bookVars
=============================================================================
