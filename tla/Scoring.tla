------------------------------ MODULE Scoring ------------------------------
(***************************************************************************)
(* The pure scoring rules of internal/domain: what a transaction, a        *)
(* visitor milestone, a colour change and a season of activity are worth.  *)
(* Every rule is a plain operator or function, so the state-machine        *)
(* modules and the proofs can use it.                                      *)
(*                                                                         *)
(* Event multipliers are 1, 1.5 or 2 in the code; here they are counted in *)
(* halves (2, 3 or 4), which keeps every computation in the integers.      *)
(***************************************************************************)
EXTENDS Integers

Max2(a, b) == IF a >= b THEN a ELSE b

(* Round a/b to the nearest integer, halves upwards: math.Round for a >= 0. *)
RoundedQuotient(a, b) == (2 * a + b) \div (2 * b)

(***************************************************************************)
(* TYFCB transactions                                                      *)
(***************************************************************************)

(* Base points of a transaction of `nilai` rupiah. *)
Band(nilai) ==
  CASE nilai < 500000    -> 10
    [] nilai >= 500000    /\ nilai < 2000000   -> 25
    [] nilai >= 2000000   /\ nilai < 10000000  -> 50
    [] nilai >= 10000000  /\ nilai < 50000000  -> 80
    [] nilai >= 50000000  /\ nilai < 250000000 -> 120
    [] nilai >= 250000000 /\ nilai < 500000000 -> 150
    [] nilai >= 500000000 -> 200

(***************************************************************************)
(* TyfcbScore rounds a float64 product.  The four cases below have an     *)
(* exact product of k + 1/2 whose float64 value is 12.499999999999998, so  *)
(* the code rounds them down where exact arithmetic would round them up.   *)
(***************************************************************************)
RoundedDown == { <<25, 3, 3>>, <<50, 6, 3>>, <<150, 18, 3>>, <<200, 24, 3>> }

(* Score of the `ordinal`-th transaction of a pair, multiplier in halves. *)
TyfcbScore(band, ordinal, halves) ==
  LET n == Max2(ordinal, 1)
      m == IF halves <= 0 THEN 2 ELSE halves
  IN  RoundedQuotient(band * m, 2 * n)
        - (IF <<band, n, m>> \in RoundedDown THEN 1 ELSE 0)

NoEvent == "NO_EVENT"

(* What an event rule may ask about one transaction. *)
TyfcbFacts == [ targetMatches : BOOLEAN,  \* receiver's classification is the event's target
                lowColour     : BOOLEAN,  \* receiver is merah or kuning
                weekend       : BOOLEAN,  \* the transaction date is a Saturday or Sunday
                sameSphere    : BOOLEAN ] \* both trades share a contact sphere

TyfcbMultiplier(event, ordinal, facts) ==
  CASE event = "CAT_CAROUSEL" /\ facts.targetMatches -> 4
    [] event = "SPREAD_LOVE"  /\ ordinal = 1         -> 4
    [] event = "UNDERDOG"     /\ facts.lowColour     -> 4
    [] event = "DOUBLE_UP"    /\ facts.weekend       -> 3
    [] event = "POWER_TEAM"   /\ facts.sameSphere    -> 3
    [] event = "FOUNDER"                             -> 3
    [] OTHER                                         -> 2

(***************************************************************************)
(* Visitors                                                                *)
(***************************************************************************)
VisitorStatus == {"terdaftar", "hadir", "hadir_penuh"}

VisitorCumulative ==
  [ s \in VisitorStatus |-> CASE s = "terdaftar"   -> 0
                              [] s = "hadir"       -> 20
                              [] s = "hadir_penuh" -> 50 ]

VisitorStatusDelta(from, to) == VisitorCumulative[to] - VisitorCumulative[from]

ConversionPoints == 100

VisitorMultiplier(event, conversion) ==
  CASE event \in {"VISITOR_BLITZ", "FOUNDER"}   -> 3
    [] event = "CLOSING_WEEK" /\ conversion     -> 4
    [] event = "NEW_BLOOD"    /\ ~conversion    -> 4
    [] OTHER                                    -> 2

(* applyMultiplier: the code only calls it with points >= 0. *)
Boosted(points, halves) ==
  IF halves = 2 THEN points ELSE RoundedQuotient(points * halves, 2)

(***************************************************************************)
(* Bonuses, badges and raffle tickets                                      *)
(***************************************************************************)
ColorStatus == {"merah", "kuning", "hijau"}

LevelUpBonus(from, to) ==
  CASE from = "merah"  /\ to = "kuning" -> 75
    [] from = "kuning" /\ to = "hijau"  -> 150
    [] from = "merah"  /\ to = "hijau"  -> 225
    [] OTHER                            -> 0

BonusFullRoster == 100
FlatHighRoller  == 50
FlatOneToOne    == 30
FlatStreak      == 40

QualifiesFullRoster(active, scoring) == active > 0 /\ scoring = active

RaffleTickets(score, attended, newPairs) ==
  Max2(score, 0) \div 100 + attended + newPairs
=============================================================================
