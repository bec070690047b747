------------------------- MODULE ScoringPassProofs -------------------------
(***************************************************************************)
(* Proofs about the settlement passes, for any number of members, teams,   *)
(* days, contributions, concurrent passes and runs.                        *)
(***************************************************************************)
EXTENDS ScoringPass, FiniteSetTheorems, TLAPS

USE NoneAssumption, DayAssumption, EventAssumption, BoundAssumption

(***************************************************************************)
(* Weeks                                                                   *)
(***************************************************************************)

(* weekBounds finds the Monday of the calendar week of any day. *)
LEMMA WeekStartIsMonday ==
  ASSUME NEW d \in Nat
  PROVE  WeekStart(d) = 7 * (d \div 7) /\ WeekStart(d) \in Nat
BY DEF WeekStart, Weekday

LEMMA DaysInWeekAgree ==
  ASSUME NEW w \in Week, NEW d \in DaysInWeek(w)
  PROVE  InWeek(d, w)
<1>1. PICK e \in Day : w = WeekStart(e)
  BY DEF Week
<1>2. e \in Nat /\ d \in Nat /\ d >= w /\ d <= w + 6
  BY DEF DaysInWeek
<1>3. PICK k \in Nat : w = 7 * k
  BY <1>1, <1>2, WeekStartIsMonday
<1>4. d \div 7 = k /\ w \div 7 = k /\ w % 7 = 0
  BY <1>2, <1>3
<1>5. QED
  BY <1>4 DEF InWeek

LEMMA WeekIsNat ==
  ASSUME NEW w \in Week
  PROVE  w \in Nat /\ w % 7 = 0
<1>1. PICK d \in Day : w = WeekStart(d)
  BY DEF Week
<1>2. PICK k \in Nat : w = 7 * k
  BY <1>1, WeekStartIsMonday
<1>3. QED
  BY <1>2

(* The days of a week of the season are the days the code looks at.        *)
LEMMA InWeekIsDaysInWeek ==
  ASSUME NEW w \in Week, NEW d \in Day
  PROVE  InWeek(d, w) <=> d \in DaysInWeek(w)
<1>1. w \in Nat /\ w % 7 = 0 /\ d \in Nat
  BY WeekIsNat
<1>2. d \div 7 = w \div 7 => d >= w /\ d <= w + 6
  BY <1>1
<1>3. QED
  BY <1>2, DaysInWeekAgree DEF InWeek, DaysInWeek

LEMMA DaysInWeekFinite ==
  ASSUME NEW w \in Week
  PROVE  IsFiniteSet(DaysInWeek(w))
<1>1. w \in Nat
  BY WeekIsNat
<1>2. IsFiniteSet(w..(w + 6))
  BY <1>1, FS_Interval
<1>3. ASSUME NEW d \in DaysInWeek(w) PROVE d \in w..(w + 6)
  <2>1. d \in Nat /\ d >= w /\ d <= w + 6
    BY <1>3 DEF DaysInWeek
  <2>2. QED
    BY <1>1, <2>1
<1>4. QED
  BY <1>2, <1>3, FS_Subset

(***************************************************************************)
(* Types                                                                   *)
(***************************************************************************)

LEMMA IdleType == Idle \in Request
<1>1. (CHOOSE d \in Day : TRUE) \in Day /\ (CHOOSE e \in Event : TRUE) \in Event
  OBVIOUS
<1>2. NoRows \in [Ref -> Nat]
  BY DEF NoRows
<1>3. QED
  BY <1>1, <1>2 DEF Idle, Request

LEMMA MovesType ==
  ASSUME TypeOK, NEW h \in Handler, NEW r \in Request, Moves(h, r)
  PROVE  req' \in [Handler -> Request]
BY DEF TypeOK, Moves


LEMMA RosterType ==
  ASSUME TypeOK, NEW w \in Week
  PROVE  RosterForWeek(w) \subseteq Roster
BY DEF TypeOK, RosterForWeek, RosterOf, Roster, ActiveIn

LEMMA AwardsType ==
  ASSUME TypeOK, NEW h \in Handler
  PROVE  Awards(h) \subseteq Ref \X (Pair \cup {None})
<1>1. req[h] \in Request
  BY DEF TypeOK
<1>2. req[h].day \in Day /\ req[h].rosters \subseteq Roster
  BY <1>1 DEF Request
<1>3. WeekStart(req[h].day) \in Week
  BY <1>2 DEF Week
<1> DEFINE w == WeekStart(req[h].day)
<1>4. \A roster \in req[h].rosters : <<"full_roster", roster.team, w>> \in Ref
  BY <1>2, <1>3 DEF Ref, Roster
<1>5. \A m \in Member : <<"streak", m, w>> \in Ref /\ <<"one_to_one", m, w>> \in Ref
  BY <1>3 DEF Ref
<1>6. StreakMembers(w) \subseteq Member
  BY DEF StreakMembers
<1>7. PairsWithTyfcb(w) \subseteq Pair /\ \A p \in Pair : p \subseteq Member
  BY DEF PairsWithTyfcb, Pair
<1> HIDE DEF w
<1>8. { <<<<"full_roster", roster.team, w>>, None>> : roster \in { r \in req[h].rosters : Qualifies(r) } }
        \subseteq Ref \X (Pair \cup {None})
  BY <1>4
<1>9. { <<<<"streak", m, w>>, None>> : m \in StreakMembers(w) } \subseteq Ref \X (Pair \cup {None})
  <2>1. \A m \in StreakMembers(w) : <<"streak", m, w>> \in Ref
    BY <1>5, <1>6
  <2>2. QED
    BY <2>1
<1>10. UNION { { <<<<"one_to_one", m, w>>, p>> : m \in p } : p \in PairsWithTyfcb(w) }
         \subseteq Ref \X (Pair \cup {None})
  <2>1. \A p \in PairsWithTyfcb(w) : p \in Pair /\ \A m \in p : <<"one_to_one", m, w>> \in Ref
    BY <1>5, <1>7
  <2>2. \A p \in PairsWithTyfcb(w) :
          { <<<<"one_to_one", m, w>>, p>> : m \in p } \subseteq Ref \X (Pair \cup {None})
    BY <2>1
  <2>3. QED
    BY <2>2
<1>11. QED
  BY <1>8, <1>9, <1>10 DEF Awards, w

(* The history only ever holds merits. *)
LEMMA LapsedType ==
  ASSUME TypeOK, [Next]_vars
  PROVE  lapsed' \in [Handler -> SUBSET Merit]
<1>1. Standing \subseteq Merit
  BY DEF Standing, Merit
<1>2. CASE Remember
  BY <1>1, <1>2 DEF Remember, TypeOK
<1>3. CASE Quiet \/ UNCHANGED vars
  BY <1>3 DEF Quiet, vars, TypeOK
<1>4. QED
  BY <1>2, <1>3 DEF Next

(* Every step of the rest of the system keeps the types. *)
LEMMA ContestType ==
  ASSUME TypeOK, Contest, lapsed' \in [Handler -> SUBSET Merit]
  PROVE  TypeOK'
<1> USE DEF TypeOK, contest, ledger, badges, counts
<1>1. ASSUME NEW giver \in Member, NEW receiver \in Member, NEW d \in Day, NEW value \in Value,
             VerifyEntry(giver, receiver, d, value)
      PROVE  TypeOK'
  <2>1. deals' = deals \cup {[giver |-> giver, receiver |-> receiver, day |-> d, value |-> value]}
    BY <1>1 DEF VerifyEntry
  <2>2. [giver |-> giver, receiver |-> receiver, day |-> d, value |-> value] \in Deal
    BY DEF Deal
  <2>3. deals' \subseteq Deal
    BY <2>1, <2>2
  <2>4. Credit(giver) /\ met' = met
    BY <1>1 DEF VerifyEntry
  <2>5. /\ scored' \subseteq Member \X Day /\ teamPlayer' \subseteq Member
        /\ streakMaster' \subseteq Member /\ entries' \in 0..MaxEntries
    BY <2>4 DEF Credit, Evaluate
  <2>6. QED
    BY <2>3, <2>4, <2>5 DEF Credit
<1>2. ASSUME NEW m \in Member, CreditVisitor(m)
      PROVE  TypeOK'
  BY <1>2 DEF CreditVisitor, Credit, Evaluate
<1>3. ASSUME NEW deal \in deals, VoidEntry(deal)
      PROVE  TypeOK'
  BY <1>3 DEF VoidEntry
<1>4. ASSUME NEW p \in Pair, NEW d \in Day, LogOneToOne(p, d)
      PROVE  TypeOK'
  BY <1>4 DEF LogOneToOne
<1>5. ASSUME NEW p \in Pair, NEW d \in Day, DeleteOneToOne(p, d)
      PROVE  TypeOK'
  BY <1>5 DEF DeleteOneToOne
<1>6. ASSUME NEW m \in Member, NEW t \in Team \cup {None}, NEW isActive \in BOOLEAN,
             EditMember(m, t, isActive)
      PROVE  TypeOK'
  BY <1>6 DEF EditMember, Evaluate
<1>7. ASSUME NEW d \in Day, NEW event \in Event, Reschedule(d, event)
      PROVE  TypeOK'
  BY <1>7 DEF Reschedule
<1>8. CASE NextDay
  BY <1>8 DEF NextDay
<1>9. QED
  BY <1>1, <1>2, <1>3, <1>4, <1>6, <1>7, <1>8, <1>5 DEF Contest

(* RunDaily goes on only with an entry at hand. *)
TopKnown == \A h \in Handler : req[h].at = "check" => req[h].top # None

(* Every step of a pass keeps the types: its handler moves on to a         *)
(* well-formed request, and what it writes is well-formed.                 *)
LEMMA PassType ==
  ASSUME TypeOK, TopKnown, lapsed' \in [Handler -> SUBSET Merit], NEW h \in Handler,
         \/ \E d \in Day : StartWeekly(h, d) \/ StartDaily(h, d)
         \/ Step(h) \/ Fail(h)
  PROVE  TypeOK'
<1>0. req[h] \in Request
  BY DEF TypeOK
<1> USE DEF contest, ledger, badges, counts
<1>1. ASSUME NEW d \in Day, StartWeekly(h, d)
      PROVE  TypeOK'
  <2>1. WeekStart(d) \in Week
    BY DEF Week
  <2>2. [Idle EXCEPT !.at = "event", !.day = d, !.rosters = RosterForWeek(WeekStart(d))] \in Request
    BY <2>1, IdleType, RosterType DEF Request
  <2>3. req' \in [Handler -> Request]
    BY <1>1, <2>2, MovesType DEF StartWeekly
  <2>4. runs' \in 0..MaxRuns
    <3>1. runs < MaxRuns /\ runs' = runs + 1
      BY <1>1 DEF StartWeekly
    <3>2. runs \in 0..MaxRuns
      BY DEF TypeOK
    <3>3. QED
      BY <3>1, <3>2
  <2>5. QED
    BY <1>1, <2>3, <2>4 DEF StartWeekly, TypeOK
<1>2. ASSUME NEW d \in Day, StartDaily(h, d)
      PROVE  TypeOK'
  <2>1. [Idle EXCEPT !.at = "top", !.day = d] \in Request
    BY IdleType DEF Request
  <2>2. req' \in [Handler -> Request]
    BY <1>2, <2>1, MovesType DEF StartDaily
  <2>3. runs' \in 0..MaxRuns
    <3>1. runs < MaxRuns /\ runs' = runs + 1
      BY <1>2 DEF StartDaily
    <3>2. runs \in 0..MaxRuns
      BY DEF TypeOK
    <3>3. QED
      BY <3>1, <3>2
  <2>4. QED
    BY <1>2, <2>2, <2>3 DEF StartDaily, TypeOK
<1>3. CASE ReadEvent(h)
  <2>1. eventOn[req[h].day] \in Event
    BY <1>0 DEF TypeOK, Request
  <2>2. [req[h] EXCEPT !.at = "awards", !.event = eventOn[req[h].day]] \in Request
    BY <1>0, <2>1 DEF Request
  <2>3. req' \in [Handler -> Request]
    BY <1>3, <2>2, MovesType DEF ReadEvent
  <2>4. QED
    BY <1>3, <2>3 DEF ReadEvent, TypeOK
<1>4. CASE ReadAwards(h)
  <2>1. today \in Day
    BY DEF TypeOK
  <2>2. [req[h] EXCEPT !.at = "settle", !.due = Awards(h), !.on = today] \in Request
    BY <1>0, <2>1, AwardsType DEF Request
  <2>3. req' \in [Handler -> Request]
    BY <1>4, <2>2, MovesType DEF ReadAwards
  <2>4. QED
    BY <1>4, <2>3 DEF ReadAwards, TypeOK
<1>5. CASE Settle(h)
  <2>1. PICK award \in req[h].due :
          Moves(h, [req[h] EXCEPT
            !.due = @ \ {award},
            !.rows[award[1]] = IF AlreadySettled(h, award[1]) THEN @ ELSE @ + 1])
    BY <1>5 DEF Settle
  <2>2. award[1] \in Ref /\ req[h].rows \in [Ref -> Nat] /\ req[h].due \subseteq Ref \X (Pair \cup {None})
    BY <1>0 DEF Request
  <2>3. /\ req[h].due \ {award} \subseteq Ref \X (Pair \cup {None})
        /\ [req[h].rows EXCEPT ![award[1]] = IF AlreadySettled(h, award[1]) THEN @ ELSE @ + 1] \in [Ref -> Nat]
    BY <2>2
  <2>4. [req[h] EXCEPT
            !.due = @ \ {award},
            !.rows[award[1]] = IF AlreadySettled(h, award[1]) THEN @ ELSE @ + 1] \in Request
    BY <1>0, <2>3 DEF Request
  <2>5. req' \in [Handler -> Request]
    BY <2>1, <2>4, MovesType
  <2>6. QED
    BY <1>5, <2>5 DEF Settle, TypeOK
<1>6. CASE Settled(h)
  <2>1. ToEvaluate(h) \subseteq Member
    BY <1>0 DEF ToEvaluate, Request, Roster
  <2>2. [req[h] EXCEPT !.at = "commit", !.evaluate = ToEvaluate(h)] \in Request
    BY <1>0, <2>1 DEF Request
  <2>3. req' \in [Handler -> Request]
    BY <1>6, <2>2, MovesType DEF Settled
  <2>4. QED
    BY <1>6, <2>3 DEF Settled, TypeOK
<1>7. CASE ReadTop(h)
  <2>1. ASSUME NEW deal \in DealsOn(req[h].day)
        PROVE  [req[h] EXCEPT !.at = "check", !.top = deal.giver] \in Request
    <3>1. deal.giver \in Member
      BY DEF TypeOK, DealsOn, Deal
    <3>2. QED
      BY <1>0, <3>1 DEF Request
  <2>2. req' \in [Handler -> Request]
    BY <1>7, <2>1, MovesType, IdleType DEF ReadTop, TopDeals
  <2>3. QED
    BY <1>7, <2>2 DEF ReadTop, TypeOK
<1>8. CASE CheckSettled(h)
  <2>1. req[h].top \in Member
    BY <1>8, <1>0 DEF CheckSettled, TopKnown, Request
  <2>2. [req[h] EXCEPT !.at = "commit", !.on = today,
           !.rows[<<"high_roller", None, req[h].day>>] = 1, !.evaluate = {req[h].top}] \in Request
    BY <1>0, <2>1 DEF Request, TypeOK
  <2>3. req' \in [Handler -> Request]
    BY <1>8, <2>2, MovesType, IdleType DEF CheckSettled
  <2>4. QED
    BY <1>8, <2>3 DEF CheckSettled, TypeOK
<1>9. CASE Commit(h)
  <2>1. /\ req[h].day \in Day /\ req[h].on \in Day /\ req[h].top \in Member \cup {None}
        /\ req[h].rows \in [Ref -> Nat] /\ req[h].evaluate \subseteq Member
    BY <1>0 DEF Request
  <2>2. [Idle EXCEPT !.at = "badges", !.evaluate = req[h].evaluate] \in Request
    BY <2>1, IdleType DEF Request
  <2>3. req' \in [Handler -> Request]
    BY <1>9, <2>2, MovesType DEF Commit
  <2>4. paid' \in [Ref -> Nat]
    BY <1>9, <2>1 DEF Commit, TypeOK
  <2>5. scored' \subseteq Member \X Day
    BY <1>9, <2>1 DEF Commit, TypeOK, Rewarded
  <2>6. roller' \in [Day -> Member \cup {None}]
    BY <1>9, <2>1 DEF Commit, TypeOK
  <2>7. QED
    BY <1>9, <2>3, <2>4, <2>5, <2>6 DEF Commit, TypeOK
<1>10. CASE EvaluateBadges(h)
  <2>1. \A m \in req[h].evaluate : m \in Member
    BY <1>0 DEF Request
  <2>2. \A m \in req[h].evaluate : [req[h] EXCEPT !.evaluate = @ \ {m}] \in Request
    BY <1>0 DEF Request
  <2>3. req' \in [Handler -> Request]
    BY <1>10, <2>2, MovesType, IdleType DEF EvaluateBadges
  <2>4. teamPlayer' \subseteq Member /\ streakMaster' \subseteq Member
    BY <1>10, <2>1 DEF EvaluateBadges, Evaluate, TypeOK
  <2>5. QED
    BY <1>10, <2>3, <2>4 DEF EvaluateBadges, TypeOK
<1>11. CASE Fail(h)
  <2>1. req' \in [Handler -> Request]
    BY <1>11, MovesType, IdleType DEF Fail
  <2>2. QED
    BY <1>11, <2>1 DEF Fail, TypeOK
<1>12. QED
  BY <1>1, <1>2, <1>3, <1>4, <1>5, <1>6, <1>7, <1>8, <1>9, <1>10, <1>11 DEF Step

LEMMA TopKept ==
  ASSUME TypeOK, TopKnown, [Next]_vars
  PROVE  TopKnown'
<1>1. ASSUME NEW h \in Handler, NEW r, Moves(h, r), r.at = "check" => r.top # None
      PROVE  TopKnown'
  BY <1>1 DEF TypeOK, TopKnown, Moves
<1>2. Idle.at # "check"
  BY DEF Idle
<1>3. ASSUME NEW h \in Handler, NEW d \in Day, StartWeekly(h, d) \/ StartDaily(h, d)
      PROVE  TopKnown'
  BY <1>1, <1>3 DEF StartWeekly, StartDaily, Idle
<1>4. ASSUME NEW h \in Handler, Step(h) \/ Fail(h)
      PROVE  TopKnown'
  <2>0. req[h] \in Request
    BY DEF TypeOK
  <2>1. CASE ReadTop(h)
    <3>1. \A deal \in deals : deal.giver # None
      BY NoneAssumption DEF TypeOK, Deal
    <3>2. \A deal \in DealsOn(req[h].day) :
            [req[h] EXCEPT !.at = "check", !.top = deal.giver].top # None
      BY <2>0, <3>1 DEF DealsOn, Request
    <3>3. QED
      BY <1>1, <1>2, <2>1, <3>2 DEF ReadTop, TopDeals
  <2>2. CASE ReadEvent(h) \/ ReadAwards(h) \/ Settled(h) \/ Commit(h) \/ Fail(h)
    BY <1>1, <1>2, <2>0, <2>2 DEF ReadEvent, ReadAwards, Settled, Commit, Fail, Request, Idle
  <2>3. CASE Settle(h)
    <3>1. PICK award \in req[h].due :
            Moves(h, [req[h] EXCEPT
              !.due = @ \ {award},
              !.rows[award[1]] = IF AlreadySettled(h, award[1]) THEN @ ELSE @ + 1])
      BY <2>3 DEF Settle
    <3>2. req[h].at = "settle"
      BY <2>3 DEF Settle
    <3>3. QED
      BY <1>1, <2>0, <3>1, <3>2 DEF Request
  <2>4. CASE CheckSettled(h)
    BY <1>1, <1>2, <2>0, <2>4 DEF CheckSettled, Request
  <2>5. CASE EvaluateBadges(h)
    BY <1>1, <1>2, <2>0, <2>5 DEF EvaluateBadges, Request
  <2>6. QED
    BY <1>4, <2>1, <2>2, <2>3, <2>4, <2>5 DEF Step
<1>5. CASE Contest \/ Quiet \/ UNCHANGED vars
  <2>1. req' = req
    BY <1>5 DEF Contest, Quiet, vars, VerifyEntry, CreditVisitor, Credit, VoidEntry, LogOneToOne,
                DeleteOneToOne, EditMember, Reschedule, NextDay
  <2>2. QED
    BY <2>1 DEF TopKnown
<1>6. QED
  BY <1>3, <1>4, <1>5 DEF Next

(* Type correctness of the passes, and the fact about the daily pass that  *)
(* it rests on.                                                            *)
THEOREM TypesHold == Spec => [](TypeOK /\ TopKnown)
<1>1. Init => TypeOK /\ TopKnown
  <2>1. NoRows \in [Ref -> Nat]
    BY DEF NoRows
  <2>2. SUFFICES ASSUME Init PROVE TypeOK /\ TopKnown
    OBVIOUS
  <2>3. req \in [Handler -> Request] /\ \A h \in Handler : req[h] = Idle
    BY <2>2, IdleType DEF Init
  <2>4. entries \in 0..MaxEntries /\ edits \in 0..MaxEdits /\ runs \in 0..MaxRuns
    BY <2>2 DEF Init
  <2>5. today \in Day
    BY <2>2 DEF Init
  <2>6. QED
    BY <2>1, <2>2, <2>3, <2>4, <2>5 DEF Init, TypeOK, TopKnown, Idle
<1>2. TypeOK /\ TopKnown /\ [Next]_vars => (TypeOK /\ TopKnown)'
  <2>1. SUFFICES ASSUME TypeOK, TopKnown, [Next]_vars PROVE TypeOK'
    BY TopKept
  <2>2. CASE Quiet \/ UNCHANGED vars
    <3>1. /\ today' = today /\ team' = team /\ active' = active /\ eventOn' = eventOn
          /\ scored' = scored /\ deals' = deals /\ met' = met /\ paid' = paid /\ roller' = roller
          /\ teamPlayer' = teamPlayer /\ streakMaster' = streakMaster /\ req' = req
          /\ entries' = entries /\ edits' = edits /\ runs' = runs /\ lapsed' = lapsed
      BY <2>2 DEF Quiet, vars, contest, ledger, badges, counts
    <3>2. QED
      BY <2>1, <3>1 DEF TypeOK
  <2>3. QED
    BY <2>1, <2>2, LapsedType, ContestType, PassType DEF Next
<1>3. QED
  BY <1>1, <1>2, PTL DEF Spec

(***************************************************************************)
(* Paid once                                                               *)
(***************************************************************************)

(* What is committed and what the open transaction adds is one row at most. *)
RowsOnce == \A h \in Handler, ref \in Ref : paid[ref] + req[h].rows[ref] <= 1

(* The rows of a pass start empty and only a settled check adds to them. *)
LEMMA RowsKept ==
  ASSUME TypeOK, RowsOnce, [Next]_vars, \A g, h \in Handler : g = h
  PROVE  RowsOnce'
<1> USE DEF contest, ledger, badges, counts
<1>0. \A h \in Handler : req[h] \in Request /\ req[h].rows \in [Ref -> Nat]
  BY DEF TypeOK, Request
<1>1. /\ Idle \in Request /\ Idle.rows = NoRows
      /\ \A ref \in Ref : NoRows[ref] = 0
  BY IdleType DEF Idle, NoRows
<1>2. \A ref \in Ref : paid[ref] \in Nat
  BY DEF TypeOK
<1>3. ASSUME NEW h \in Handler, NEW r, Moves(h, r), paid' = paid,
             \A ref \in Ref : paid[ref] + r.rows[ref] <= 1
      PROVE  RowsOnce'
  BY <1>3 DEF TypeOK, RowsOnce, Moves
<1>4. \A ref \in Ref : paid[ref] <= 1 \/ Handler = {}
  BY <1>0, <1>2 DEF RowsOnce
<1>5. ASSUME NEW h \in Handler, NEW r, Moves(h, r), paid' = paid,
             r.rows = NoRows \/ r.rows = req[h].rows
      PROVE  RowsOnce'
  BY <1>1, <1>2, <1>3, <1>4, <1>5 DEF RowsOnce
<1>6. ASSUME NEW h \in Handler, NEW d \in Day, StartWeekly(h, d) \/ StartDaily(h, d)
      PROVE  RowsOnce'
  <2>1. /\ [Idle EXCEPT !.at = "event", !.day = d, !.rosters = RosterForWeek(WeekStart(d))].rows = NoRows
        /\ [Idle EXCEPT !.at = "top", !.day = d].rows = NoRows
    BY <1>1 DEF Request
  <2>2. QED
    BY <1>5, <1>6, <2>1 DEF StartWeekly, StartDaily
<1>7. ASSUME NEW h \in Handler, Step(h) \/ Fail(h)
      PROVE  RowsOnce'
  <2>1. CASE ReadEvent(h) \/ ReadAwards(h) \/ Settled(h)
    <3>1. /\ [req[h] EXCEPT !.at = "awards", !.event = eventOn[req[h].day]].rows = req[h].rows
          /\ [req[h] EXCEPT !.at = "settle", !.due = Awards(h), !.on = today].rows = req[h].rows
          /\ [req[h] EXCEPT !.at = "commit", !.evaluate = ToEvaluate(h)].rows = req[h].rows
      BY <1>0 DEF Request
    <3>2. QED
      BY <1>5, <2>1, <3>1 DEF ReadEvent, ReadAwards, Settled
  <2>2. CASE Settle(h)
    <3>1. PICK award \in req[h].due :
            Moves(h, [req[h] EXCEPT
              !.due = @ \ {award},
              !.rows[award[1]] = IF AlreadySettled(h, award[1]) THEN @ ELSE @ + 1])
      BY <2>2 DEF Settle
    <3>2. award[1] \in Ref
      BY <1>0 DEF Request
    <3>3. ASSUME NEW ref \in Ref
          PROVE  paid[ref] + (IF ref = award[1] /\ ~AlreadySettled(h, award[1])
                                THEN req[h].rows[ref] + 1 ELSE req[h].rows[ref]) <= 1
      BY <1>0, <1>2, <3>2 DEF AlreadySettled, RowsOnce
    <3>4. [req[h] EXCEPT
              !.due = @ \ {award},
              !.rows[award[1]] = IF AlreadySettled(h, award[1]) THEN @ ELSE @ + 1].rows
            = [req[h].rows EXCEPT ![award[1]] = IF AlreadySettled(h, award[1]) THEN @ ELSE @ + 1]
      BY <1>0 DEF Request
    <3>5. paid' = paid
      BY <2>2 DEF Settle
    <3>6. \A ref \in Ref :
            paid[ref] + [req[h].rows EXCEPT
                           ![award[1]] = IF AlreadySettled(h, award[1]) THEN @ ELSE @ + 1][ref] <= 1
      BY <1>0, <3>2, <3>3
    <3>7. QED
      BY <1>3, <3>1, <3>4, <3>5, <3>6
  <2>3. CASE ReadTop(h)
    <3>1. \A deal : [req[h] EXCEPT !.at = "check", !.top = deal.giver].rows = req[h].rows
      BY <1>0 DEF Request
    <3>2. QED
      BY <1>1, <1>5, <2>3, <3>1 DEF ReadTop
  <2>4. CASE CheckSettled(h)
    <3> DEFINE key == <<"high_roller", None, req[h].day>>
    <3>1. key \in Ref
      BY <1>0 DEF Ref, Request
    <3>2. ~AlreadySettled(h, key) => paid[key] = 0
      BY <1>0, <1>2, <3>1 DEF AlreadySettled
    <3>3. ~AlreadySettled(h, key) =>
            \A ref \in Ref : paid[ref] + [req[h].rows EXCEPT ![key] = 1][ref] <= 1
      BY <1>0, <1>2, <3>1, <3>2 DEF RowsOnce
    <3>4. [req[h] EXCEPT !.at = "commit", !.on = today, !.rows[key] = 1,
                         !.evaluate = {req[h].top}].rows = [req[h].rows EXCEPT ![key] = 1]
      BY <1>0 DEF Request
    <3>5. paid' = paid
      BY <2>4 DEF CheckSettled
    <3>6. QED
      BY <1>1, <1>3, <1>5, <2>4, <3>3, <3>4, <3>5 DEF CheckSettled
  <2>5. CASE Commit(h)
    <3>1. req'[h].rows = NoRows
      BY <1>1, <2>5 DEF Commit, Moves, TypeOK, Request
    <3>2. \A ref \in Ref : paid'[ref] <= 1
      BY <2>5 DEF Commit, RowsOnce
    <3>3. \A ref \in Ref : paid'[ref] \in Nat
      BY <1>0, <1>2, <2>5 DEF Commit
    <3>4. QED
      BY <1>1, <3>1, <3>2, <3>3 DEF RowsOnce
  <2>6. CASE EvaluateBadges(h)
    <3>1. \A m : [req[h] EXCEPT !.evaluate = @ \ {m}].rows = req[h].rows
      BY <1>0 DEF Request
    <3>2. QED
      BY <1>1, <1>5, <2>6, <3>1 DEF EvaluateBadges
  <2>7. CASE Fail(h)
    BY <1>1, <1>5, <2>7 DEF Fail
  <2>8. QED
    BY <1>7, <2>1, <2>2, <2>3, <2>4, <2>5, <2>6, <2>7 DEF Step
<1>8. CASE Contest \/ Quiet \/ UNCHANGED vars
  <2>1. req' = req /\ paid' = paid
    BY <1>8 DEF Contest, Quiet, vars, VerifyEntry, CreditVisitor, Credit, VoidEntry, LogOneToOne,
                DeleteOneToOne, EditMember, Reschedule, NextDay
  <2>2. QED
    BY <2>1 DEF RowsOnce
<1>9. QED
  BY <1>6, <1>7, <1>8 DEF Next

(* "Each pass is keyed by period, so re-running one is a no-op instead of  *)
(* a second payment" (README.md:150) holds for any number of runs that do  *)
(* not overlap, wherever they stop: with one handler no source reference   *)
(* is ever on the ledger twice.                                            *)
THEOREM NeverPaidTwice ==
  ASSUME NEW only, Handler = {only}
  PROVE  Spec => []PaidOnce
<1>1. \A g, h \in Handler : g = h
  OBVIOUS
<1>2. Init => RowsOnce
  BY DEF Init, RowsOnce, Idle, NoRows
<1>3. TypeOK /\ RowsOnce /\ [Next]_vars => RowsOnce'
  BY <1>1, RowsKept
<1>4. TypeOK /\ RowsOnce => PaidOnce
  <2>1. SUFFICES ASSUME TypeOK, RowsOnce, NEW ref \in Ref PROVE paid[ref] <= 1
    BY DEF PaidOnce
  <2>2. only \in Handler /\ req[only].rows \in [Ref -> Nat]
    BY <2>1 DEF TypeOK, Request
  <2>3. paid[ref] \in Nat /\ req[only].rows[ref] \in Nat
    BY <2>1, <2>2 DEF TypeOK
  <2>4. QED
    BY <2>1, <2>2, <2>3 DEF RowsOnce
<1>5. QED
  BY <1>2, <1>3, <1>4, TypesHold, PTL DEF Spec

(***************************************************************************)
(* A book of bonuses                                                       *)
(***************************************************************************)

(* A pass settles one week, or else one day and names its member.          *)
OnePeriod(r) ==
  /\ \A a \in r.due : a[1] \in OfWeek(WeekStart(r.day))
  /\ r.top = None => \A ref \in Ref : r.rows[ref] > 0 => ref \in OfWeek(WeekStart(r.day))
  /\ r.top # None => \A ref \in Ref : r.rows[ref] > 0 => ref = OfDay(r.day)
  /\ r.at \in {"event", "awards", "settle"} => r.top = None
  /\ r.at \in {"top", "check"} => r.due = {} /\ r.rows = NoRows
  /\ r.at = "commit" /\ r.top # None => r.rows[OfDay(r.day)] > 0

PeriodsApart == \A h \in Handler : OnePeriod(req[h])

LEMMA IdleOfNoPeriod ==
  ASSUME NEW d \in Day
  PROVE  /\ OnePeriod(Idle)
         /\ \A w : OnePeriod([Idle EXCEPT !.at = "event", !.day = d, !.rosters = w])
         /\ OnePeriod([Idle EXCEPT !.at = "top", !.day = d])
         /\ \A m : OnePeriod([Idle EXCEPT !.at = "badges", !.evaluate = m])
<1>1. \A ref \in Ref : NoRows[ref] = 0
  BY DEF NoRows
<1>2. QED
  BY <1>1 DEF OnePeriod, Idle

LEMMA AwardsOfOneWeek ==
  ASSUME TypeOK, NEW h \in Handler, NEW a \in Awards(h)
  PROVE  a[1] \in OfWeek(WeekStart(req[h].day))
<1> DEFINE w == WeekStart(req[h].day)
<1>1. a[1] \in Ref
  BY AwardsType
<1>2. a[1][1] # "high_roller" /\ a[1][3] = w
  BY DEF Awards
<1>3. QED
  BY <1>1, <1>2 DEF OfWeek

LEMMA PeriodsKept ==
  ASSUME TypeOK, TopKnown, PeriodsApart, [Next]_vars
  PROVE  PeriodsApart'
<1>1. \A h \in Handler : req[h] \in Request /\ OnePeriod(req[h])
  BY DEF TypeOK, PeriodsApart
<1>2. ASSUME NEW h \in Handler, NEW r, Moves(h, r), OnePeriod(r)
      PROVE  PeriodsApart'
  <2>1. \A g \in Handler : req'[g] = IF g = h THEN r ELSE req[g]
    BY <1>2 DEF TypeOK, Moves
  <2>2. \A g \in Handler : OnePeriod(req'[g])
    BY <1>1, <1>2, <2>1
  <2>3. QED
    BY <2>2 DEF PeriodsApart, OnePeriod
<1>3. ASSUME NEW h \in Handler, NEW d \in Day, StartWeekly(h, d) \/ StartDaily(h, d)
      PROVE  PeriodsApart'
  BY <1>2, <1>3, IdleOfNoPeriod DEF StartWeekly, StartDaily
<1>4. \E d \in Day : TRUE
  BY DayAssumption
<1>5. OnePeriod(Idle) /\ \A m : OnePeriod([Idle EXCEPT !.at = "badges", !.evaluate = m])
  BY <1>4, IdleOfNoPeriod
<1>6. ASSUME NEW h \in Handler, Step(h) \/ Fail(h)
      PROVE  PeriodsApart'
  <2>0. req[h] \in Request /\ OnePeriod(req[h]) /\ req[h].rows \in [Ref -> Nat]
    BY <1>1 DEF Request
  <2>1. CASE ReadEvent(h)
    <3>1. OnePeriod([req[h] EXCEPT !.at = "awards", !.event = eventOn[req[h].day]])
      BY <2>0, <2>1 DEF OnePeriod, Request, ReadEvent
    <3>2. QED
      BY <1>2, <2>1, <3>1 DEF ReadEvent
  <2>2. CASE ReadAwards(h)
    <3>1. OnePeriod([req[h] EXCEPT !.at = "settle", !.due = Awards(h), !.on = today])
      BY <2>0, <2>2, AwardsOfOneWeek DEF OnePeriod, Request, ReadAwards
    <3>2. QED
      BY <1>2, <2>2, <3>1 DEF ReadAwards
  <2>3. CASE Settle(h)
    <3>1. PICK award \in req[h].due :
            Moves(h, [req[h] EXCEPT
              !.due = @ \ {award},
              !.rows[award[1]] = IF AlreadySettled(h, award[1]) THEN @ ELSE @ + 1])
      BY <2>3 DEF Settle
    <3> DEFINE r == [req[h] EXCEPT
              !.due = @ \ {award},
              !.rows[award[1]] = IF AlreadySettled(h, award[1]) THEN @ ELSE @ + 1]
    <3>2. award[1] \in OfWeek(WeekStart(req[h].day)) /\ req[h].at = "settle" /\ req[h].top = None
      BY <2>0, <2>3 DEF OnePeriod, Settle
    <3>3. /\ r.day = req[h].day /\ r.at = "settle" /\ r.top = None /\ r.due \subseteq req[h].due
          /\ \A ref \in Ref : ref # award[1] => r.rows[ref] = req[h].rows[ref]
      BY <2>0, <3>2 DEF Request
    <3>4. OnePeriod(r)
      <4> HIDE DEF r
      <4>1. QED  BY <2>0, <3>2, <3>3 DEF OnePeriod
    <3>5. QED
      BY <1>2, <3>1, <3>4
  <2>4. CASE Settled(h)
    <3>1. req[h].at = "settle" /\ req[h].top = None
      BY <2>0, <2>4 DEF Settled, OnePeriod
    <3>2. OnePeriod([req[h] EXCEPT !.at = "commit", !.evaluate = ToEvaluate(h)])
      BY <2>0, <3>1 DEF OnePeriod, Request
    <3>3. QED
      BY <1>2, <2>4, <3>2 DEF Settled
  <2>5. CASE ReadTop(h)
    <3>1. ASSUME NEW deal PROVE OnePeriod([req[h] EXCEPT !.at = "check", !.top = deal.giver])
      <4>1. req[h].due = {} /\ req[h].rows = NoRows
        BY <2>0, <2>5 DEF ReadTop, OnePeriod
      <4>2. \A ref \in Ref : NoRows[ref] = 0
        BY DEF NoRows
      <4>3. QED
        BY <2>0, <4>1, <4>2 DEF OnePeriod, Request
    <3>2. QED
      BY <1>2, <1>5, <2>5, <3>1 DEF ReadTop
  <2>6. CASE CheckSettled(h)
    <3> DEFINE key == OfDay(req[h].day)
               r == [req[h] EXCEPT !.at = "commit", !.on = today, !.rows[key] = 1, !.evaluate = {req[h].top}]
    <3>1. key \in Ref
      BY <2>0 DEF Ref, OfDay, Request
    <3>2. req[h].due = {} /\ req[h].rows = NoRows /\ req[h].top # None
      BY <2>0, <2>6 DEF CheckSettled, OnePeriod, TopKnown
    <3>3. \A ref \in Ref : NoRows[ref] = 0
      BY DEF NoRows
    <3>4. /\ r.at = "commit" /\ r.day = req[h].day /\ r.top = req[h].top /\ r.due = {}
          /\ r.rows = [NoRows EXCEPT ![key] = 1]
      BY <2>0, <3>2 DEF Request
    <3>5. r.rows[key] = 1 /\ \A ref \in Ref : r.rows[ref] > 0 => ref = key
      BY <3>1, <3>3, <3>4 DEF NoRows
    <3>6. OnePeriod(r)
      <4> HIDE DEF r
      <4>1. QED  BY <3>2, <3>4, <3>5 DEF OnePeriod
    <3>7. Moves(h, Idle) \/ Moves(h, r)
      BY <2>6 DEF CheckSettled, OfDay
    <3>8. QED
      BY <1>2, <1>5, <3>6, <3>7
  <2>7. CASE Commit(h)
    BY <1>2, <1>5, <2>7 DEF Commit
  <2>8. CASE EvaluateBadges(h)
    <3>1. req[h].at = "badges"
      BY <2>8 DEF EvaluateBadges
    <3>2. \A m : OnePeriod([req[h] EXCEPT !.evaluate = @ \ {m}])
      BY <2>0, <3>1 DEF OnePeriod, Request
    <3>3. QED
      BY <1>2, <1>5, <2>8, <3>2 DEF EvaluateBadges
  <2>9. CASE Fail(h)
    BY <1>2, <1>5, <2>9 DEF Fail
  <2>10. QED
    BY <1>6, <2>1, <2>2, <2>3, <2>4, <2>5, <2>6, <2>7, <2>8, <2>9 DEF Step
<1>7. CASE Contest \/ Quiet \/ UNCHANGED vars
  <2>1. req' = req
    BY <1>7 DEF Contest, Quiet, vars, VerifyEntry, CreditVisitor, Credit, VoidEntry, LogOneToOne,
                DeleteOneToOne, EditMember, Reschedule, NextDay
  <2>2. QED
    BY <2>1 DEF PeriodsApart, OnePeriod
<1>8. QED
  BY <1>3, <1>6, <1>7 DEF Next

(* Only a commit writes bonuses and their holders.                         *)
LEMMA OnlyCommitsPay ==
  ASSUME [Next]_vars, ~ \E h \in Handler : Commit(h)
  PROVE  paid' = paid /\ roller' = roller
BY DEF Next, Contest, Quiet, vars, ledger, VerifyEntry, CreditVisitor, Credit, VoidEntry, LogOneToOne,
       DeleteOneToOne, EditMember, Reschedule, NextDay, StartWeekly, StartDaily, Step, Fail, ReadEvent, ReadAwards, Settle,
       Settled, ReadTop, CheckSettled, EvaluateBadges

(* What a commit pays was unpaid, and it is of one period.                 *)
LEMMA CommitPays ==
  ASSUME TypeOK, RowsOnce, PeriodsApart, NEW h \in Handler, Commit(h)
  PROVE  LET S == { ref \in Ref : req[h].rows[ref] > 0 }
         IN  /\ \A ref \in S : paid[ref] = 0
             /\ paid' = [ref \in Ref |-> IF ref \in S THEN 1 ELSE paid[ref]]
             /\ \/ req[h].top = None /\ S \subseteq OfWeek(WeekStart(req[h].day)) /\ roller' = roller
                \/ /\ req[h].top # None /\ S = {OfDay(req[h].day)}
                   /\ roller' = [roller EXCEPT ![req[h].day] = req[h].top]
<1> DEFINE S == { ref \in Ref : req[h].rows[ref] > 0 }
<1>1. req[h] \in Request /\ req[h].rows \in [Ref -> Nat] /\ OnePeriod(req[h]) /\ paid \in [Ref -> Nat]
  BY DEF TypeOK, Request, PeriodsApart
<1>2. req[h].at = "commit" /\ paid' = [ref \in Ref |-> paid[ref] + req[h].rows[ref]]
  BY DEF Commit
<1>3. \A ref \in Ref : paid[ref] + req[h].rows[ref] <= 1
  BY DEF RowsOnce
<1>4. \A ref \in Ref : paid[ref] \in Nat /\ req[h].rows[ref] \in Nat
  BY <1>1
<1>5. /\ \A ref \in S : paid[ref] = 0
      /\ \A ref \in Ref : paid[ref] + req[h].rows[ref] = IF ref \in S THEN 1 ELSE paid[ref]
  BY <1>3, <1>4
<1>6. paid' = [ref \in Ref |-> IF ref \in S THEN 1 ELSE paid[ref]]
  <2> HIDE DEF S
  <2>1. QED  BY <1>2, <1>5
<1>7. CASE req[h].top = None
  <2>1. S \subseteq OfWeek(WeekStart(req[h].day))
    BY <1>1, <1>7 DEF OnePeriod
  <2>2. roller' = roller
    BY <1>7 DEF Commit
  <2>3. QED  BY <1>5, <1>6, <1>7, <2>1, <2>2
<1>8. CASE req[h].top # None
  <2>1. OfDay(req[h].day) \in Ref
    BY <1>1 DEF OfDay, Ref, Request
  <2>2. S = {OfDay(req[h].day)}
    BY <1>1, <1>2, <1>8, <2>1 DEF OnePeriod
  <2>3. roller' = [roller EXCEPT ![req[h].day] = req[h].top]
    BY <1>8 DEF Commit
  <2>4. QED  BY <1>5, <1>6, <1>8, <2>2, <2>3
<1>9. QED  BY <1>7, <1>8

(* A commit is a payment of the book, of a week or of a day.               *)
LEMMA CommitIsPayment ==
  ASSUME TypeOK, TypeOK', RowsOnce, PeriodsApart, NEW h \in Handler, Commit(h)
  PROVE  Book!Next
<1> DEFINE holder == [ref \in HighRollers |-> roller[ref[3]]]
           after  == [ref \in HighRollers |-> roller'[ref[3]]]
<1>1. PICK S :
      /\ \A ref \in S : paid[ref] = 0
      /\ paid' = [ref \in Ref |-> IF ref \in S THEN 1 ELSE paid[ref]]
      /\ \/ req[h].top = None /\ S \subseteq OfWeek(WeekStart(req[h].day)) /\ roller' = roller
         \/ /\ req[h].top # None /\ S = {OfDay(req[h].day)}
            /\ roller' = [roller EXCEPT ![req[h].day] = req[h].top]
  BY CommitPays
<1>2. req[h].day \in Day /\ req[h].top \in Member \cup {None} /\ roller \in [Day -> Member \cup {None}]
  BY DEF TypeOK, Request
<1>3. \A ref \in HighRollers : ref[3] \in Day /\ ref = OfDay(ref[3]) /\ ref[1] = "high_roller"
  BY DEF HighRollers, OfDay
<1>4. CASE req[h].top = None
  <2>1. S \subseteq OfWeek(WeekStart(req[h].day)) /\ roller' = roller
    BY <1>1, <1>4
  <2>2. HighRollers \cap S = {}
    BY <1>3, <2>1 DEF OfWeek
  <2> DEFINE to == [ref \in HighRollers \cap S |-> None]
  <2>3. to \in [HighRollers \cap S -> Member]
    BY <2>2
  <2>4. after = [ref \in HighRollers |-> IF ref \in S THEN to[ref] ELSE holder[ref]]
    BY <2>1, <2>2
  <2>5. Book!Pay(S)
    BY <1>1, <2>3, <2>4 DEF Book!Pay
  <2>6. OfWeek(WeekStart(req[h].day)) \in { OfWeek(w) : w \in Week } \cup { {OfDay(d)} : d \in Day }
    BY <1>2 DEF Week
  <2>7. S \in SUBSET OfWeek(WeekStart(req[h].day))
    BY <2>1
  <2>8. QED  BY <2>5, <2>6, <2>7, Zenon DEF Book!Next
<1>5. CASE req[h].top # None
  <2>1. S = {OfDay(req[h].day)} /\ roller' = [roller EXCEPT ![req[h].day] = req[h].top]
    BY <1>1, <1>5
  <2> DEFINE to == [ref \in HighRollers \cap S |-> req[h].top]
  <2>2. to \in [HighRollers \cap S -> Member]
    BY <1>2, <1>5
  <2>3. after = [ref \in HighRollers |-> IF ref \in S THEN to[ref] ELSE holder[ref]]
    <3>1. ASSUME NEW ref \in HighRollers
          PROVE  roller'[ref[3]] = IF ref \in S THEN to[ref] ELSE holder[ref]
      <4>1. ref \in S <=> ref[3] = req[h].day
        BY <1>3, <2>1 DEF OfDay
      <4>2. QED  BY <1>2, <1>3, <2>1, <4>1
    <3>2. QED  BY <3>1
  <2>4. Book!Pay(S)
    BY <1>1, <2>2, <2>3 DEF Book!Pay
  <2>5. {OfDay(req[h].day)} \in { OfWeek(w) : w \in Week } \cup { {OfDay(d)} : d \in Day }
    BY <1>2
  <2>6. S \in SUBSET {OfDay(req[h].day)}
    BY <2>1
  <2>7. QED  BY <2>4, <2>5, <2>6, Zenon DEF Book!Next
<1>6. QED  BY <1>4, <1>5

(* Passes that do not overlap implement the book of bonuses, whatever they *)
(* repeat and wherever they stop, while members score, move and meet: no   *)
(* bonus is paid twice, taken back or mixed with another period's, and a   *)
(* High Roller that was named stays named (usecase/pass.go).               *)
THEOREM PassesImplementBook ==
  ASSUME NEW only, Handler = {only}
  PROVE  Spec => BookSpec
<1>1. Init => Book!Init
  BY DEF Init, Book!Init, NoRows, HighRollers, OfDay
<1>2. Init => RowsOnce /\ PeriodsApart
  <2>1. OnePeriod(Idle)
    BY IdleOfNoPeriod, DayAssumption
  <2>2. QED
    BY <2>1 DEF Init, RowsOnce, PeriodsApart, Idle, NoRows
<1>3. TypeOK /\ TopKnown /\ RowsOnce /\ PeriodsApart /\ [Next]_vars => (RowsOnce /\ PeriodsApart)'
  <2>1. \A g, h \in Handler : g = h
    OBVIOUS
  <2>2. QED
    BY <2>1, RowsKept, PeriodsKept
<1>4. TypeOK /\ TypeOK' /\ RowsOnce /\ PeriodsApart /\ [Next]_vars => [Book!Next]_Book!bookVars
  <2>1. SUFFICES ASSUME TypeOK, TypeOK', RowsOnce, PeriodsApart, [Next]_vars
                 PROVE  [Book!Next]_Book!bookVars
    OBVIOUS
  <2>2. CASE \E h \in Handler : Commit(h)
    BY <2>1, <2>2, CommitIsPayment
  <2>3. CASE ~ \E h \in Handler : Commit(h)
    <3>1. paid' = paid /\ roller' = roller
      BY <2>1, <2>3, OnlyCommitsPay
    <3>2. QED
      BY <3>1 DEF Book!bookVars
  <2>4. QED
    BY <2>2, <2>3
<1>5. QED
  BY <1>1, <1>2, <1>3, <1>4, TypesHold, PTL DEF Spec, BookSpec, Book!Spec

(***************************************************************************)
(* Passes pay what stood                                                   *)
(***************************************************************************)

Running(r) == r.at \notin {"idle", "badges"}

(* Merits that stood at some moment since the pass of h was started. *)
Seen(h) == Standing \cup lapsed[h]

(* Everything r has read, is about to settle or has appended is in S.      *)
BackedBy(r, S) ==
  /\ \A roster \in r.rosters : Qualifies(roster) => <<"full_roster", roster.team, WeekStart(r.day)>> \in S
  /\ \A award \in r.due : award[1] \in S
  /\ \A ref \in Ref : ref[1] # "high_roller" /\ r.rows[ref] > 0 => ref \in S
  /\ r.top # None => <<"high_roller", r.top, r.day>> \in S

Backed == \A h \in Handler : Running(req[h]) => BackedBy(req[h], Seen(h))

LEMMA BackedByMore ==
  ASSUME NEW r, NEW S, NEW T, S \subseteq T, BackedBy(r, S)
  PROVE  BackedBy(r, T)
BY DEF BackedBy

LEMMA NothingReadIsBacked ==
  ASSUME NEW r, NEW S, r.rosters = {}, r.due = {}, r.rows = NoRows, r.top = None
  PROVE  BackedBy(r, S)
BY DEF BackedBy, NoRows

(* A team qualifies only when all its active members scored: equal counts  *)
(* of a finite set and its subset are equal sets.                          *)
LEMMA QualifiedIsFull ==
  ASSUME TypeOK, NEW w \in Week, NEW roster \in RosterForWeek(w), Qualifies(roster)
  PROVE  <<"full_roster", roster.team, w>> \in Standing
<1>1. PICK t \in Team : roster = RosterOf(t, w)
  BY DEF RosterForWeek
<1>2. /\ roster.team = t /\ roster.members = ActiveIn(t)
      /\ roster.scoring = { m \in ActiveIn(t) : ScoredIn(m, w) }
  BY <1>1 DEF RosterOf
<1>3. IsFiniteSet(ActiveIn(t))
  BY MemberAssumption, FS_Subset DEF TypeOK, ActiveIn
<1>4. roster.scoring = roster.members
  BY <1>2, <1>3, FS_Subset DEF Qualifies, QualifiesFullRoster
<1>5. roster.members # {}
  BY FS_EmptySet DEF Qualifies, QualifiesFullRoster
<1>6. \A d \in DaysInWeek(w) : d \in Day /\ InWeek(d, w)
  BY DaysInWeekAgree DEF DaysInWeek
<1>7. FullRoster(t, w)
  BY <1>2, <1>4, <1>5, <1>6 DEF FullRoster, ScoredIn
<1>8. QED
  BY <1>2, <1>7 DEF Standing

(* Whoever the query of the streaks finds has a streak.                    *)
LEMMA StreakMembersStand ==
  ASSUME NEW w \in Week, NEW m \in StreakMembers(w)
  PROVE  <<"streak", m, w>> \in Standing
<1>1. { d \in Day : <<m, d>> \in scored /\ InWeek(d, w) } = { d \in DaysInWeek(w) : <<m, d>> \in scored }
  BY InWeekIsDaysInWeek DEF DaysInWeek
<1>2. m \in Member /\ Streak(m, w)
  BY <1>1 DEF StreakMembers, Streak
<1>3. QED
  BY <1>2 DEF Standing

(* Both sides of a pair the query of the payoffs finds met and dealt.      *)
LEMMA PairsStand ==
  ASSUME TypeOK, NEW w \in Week, NEW p \in PairsWithTyfcb(w), NEW m \in p
  PROVE  <<"one_to_one", m, w>> \in Standing
<1>1. PICK d \in DaysInWeek(w), deal \in deals :
        <<p, d>> \in met /\ {deal.giver, deal.receiver} = p /\ deal.day \in DaysInWeek(w)
  BY DEF PairsWithTyfcb
<1>2. deal.giver \in Member /\ deal.receiver \in Member
  BY DEF TypeOK, Deal
<1>3. PICK n \in Member : p = {m, n}
  BY <1>1, <1>2
<1>4. m \in Member /\ d \in Day /\ InWeek(d, w) /\ InWeek(deal.day, w)
  BY <1>1, <1>2, DaysInWeekAgree DEF DaysInWeek
<1>5. MetAndDealt(m, w)
  BY <1>1, <1>3, <1>4 DEF MetAndDealt
<1>6. QED
  BY <1>4, <1>5 DEF Standing

(* So every award a pass reads is deserved, at the latest, as it reads.    *)
LEMMA AwardsSeen ==
  ASSUME TypeOK, NEW h \in Handler, BackedBy(req[h], Seen(h)), NEW award \in Awards(h)
  PROVE  award[1] \in Seen(h)
<1> DEFINE w == WeekStart(req[h].day)
<1>1. w \in Week
  BY DEF TypeOK, Request, Week
<1>2. CASE \E roster \in req[h].rosters :
             Qualifies(roster) /\ award = <<<<"full_roster", roster.team, w>>, None>>
  BY <1>2 DEF BackedBy
<1>3. CASE \E m \in StreakMembers(w) : award = <<<<"streak", m, w>>, None>>
  BY <1>1, <1>3, StreakMembersStand DEF Seen
<1>4. CASE \E p \in PairsWithTyfcb(w) : \E m \in p : award = <<<<"one_to_one", m, w>>, p>>
  BY <1>1, <1>4, PairsStand DEF Seen
<1>5. QED
  BY <1>2, <1>3, <1>4 DEF Awards

LEMMA TopDealsLead ==
  ASSUME TypeOK, NEW d \in Day, NEW deal \in TopDeals(d)
  PROVE  deal.giver \in Member /\ <<"high_roller", deal.giver, d>> \in Standing
<1>1. deal.giver \in Member
  BY DEF TypeOK, Deal, TopDeals, DealsOn
<1>2. Leads(deal.giver, d)
  BY DEF Leads, TopDeals, DealsOn
<1>3. QED
  BY <1>1, <1>2 DEF Standing

(* What a running pass has seen stays seen.                                *)
LEMMA SeenStays ==
  ASSUME TypeOK, Remember, NEW h \in Handler, Running(req'[h])
  PROVE  Seen(h) \subseteq Seen(h)'
<1>1. lapsed'[h] = (lapsed[h] \cup Standing) \ Standing'
  BY DEF Remember, Running
<1>2. QED
  BY <1>1 DEF Seen

LEMMA StandingStill ==
  ASSUME UNCHANGED vars
  PROVE  Standing' = Standing
<1>1. team' = team /\ active' = active /\ scored' = scored /\ deals' = deals /\ met' = met
  BY DEF vars, contest, ledger
<1>2. \A t, w : FullRoster(t, w)' <=> FullRoster(t, w)
  BY <1>1 DEF FullRoster, ActiveIn
<1>3. \A m, w : Streak(m, w)' <=> Streak(m, w)
  BY <1>1 DEF Streak
<1>4. \A m, w : MetAndDealt(m, w)' <=> MetAndDealt(m, w)
  BY <1>1 DEF MetAndDealt
<1>5. \A m, d : Leads(m, d)' <=> Leads(m, d)
  BY <1>1 DEF Leads
<1>6. QED
  BY <1>2, <1>3, <1>4, <1>5 DEF Standing

(* A handler that moves on with what is backed keeps all passes backed.    *)
LEMMA MovesBacked ==
  ASSUME TypeOK, Backed, Remember, NEW h \in Handler, NEW r, Moves(h, r),
         Running(r) => BackedBy(r, Seen(h))
  PROVE  Backed'
<1>1. \A g \in Handler : req'[g] = IF g = h THEN r ELSE req[g]
  BY DEF TypeOK, Moves
<1>2. ASSUME NEW g \in Handler, Running(req'[g])
      PROVE  BackedBy(req'[g], Seen(g)')
  <2>1. BackedBy(req'[g], Seen(g))
    BY <1>1, <1>2 DEF Backed
  <2>2. QED
    BY <1>2, <2>1, SeenStays, BackedByMore
<1>3. QED
  BY <1>2 DEF Backed, BackedBy, Running

LEMMA BackedKept ==
  ASSUME TypeOK, TopKnown, Backed, [Next]_vars
  PROVE  Backed'
<1>0. \A h \in Handler : req[h] \in Request /\ (Running(req[h]) => BackedBy(req[h], Seen(h)))
  BY DEF TypeOK, Backed
<1>1. ~Running(Idle) /\ \A m : ~Running([Idle EXCEPT !.at = "badges", !.evaluate = m])
  BY DEF Running, Idle
<1>2. ASSUME Remember, NEW h \in Handler, NEW d \in Day, StartWeekly(h, d)
      PROVE  Backed'
  <2> DEFINE r == [Idle EXCEPT !.at = "event", !.day = d, !.rosters = RosterForWeek(WeekStart(d))]
  <2>1. WeekStart(d) \in Week
    BY DEF Week
  <2>2. /\ r.day = d /\ r.rosters = RosterForWeek(WeekStart(d)) /\ r.due = {}
        /\ r.rows = NoRows /\ r.top = None
    BY DEF Idle
  <2>3. BackedBy(r, Seen(h))
    BY <2>1, <2>2, QualifiedIsFull DEF BackedBy, Seen, NoRows
  <2>4. QED
    BY <1>2, <2>3, MovesBacked DEF StartWeekly
<1>3. ASSUME Remember, NEW h \in Handler, NEW d \in Day, StartDaily(h, d)
      PROVE  Backed'
  <2> DEFINE r == [Idle EXCEPT !.at = "top", !.day = d]
  <2>1. r.rosters = {} /\ r.due = {} /\ r.rows = NoRows /\ r.top = None
    BY DEF Idle
  <2>2. BackedBy(r, Seen(h))
    BY <2>1, NothingReadIsBacked
  <2>3. QED
    BY <1>3, <2>2, MovesBacked DEF StartDaily
<1>4. ASSUME Remember, NEW h \in Handler, Step(h) \/ Fail(h)
      PROVE  Backed'
  <2>0. req[h] \in Request /\ req[h].rows \in [Ref -> Nat]
    BY <1>0 DEF Request
  <2>1. CASE ReadEvent(h)
    <3> DEFINE r == [req[h] EXCEPT !.at = "awards", !.event = eventOn[req[h].day]]
    <3>1. BackedBy(req[h], Seen(h))
      BY <1>0, <2>1 DEF ReadEvent, Running
    <3>2. BackedBy(r, Seen(h))
      BY <2>0, <3>1 DEF BackedBy, Request
    <3>3. QED
      BY <1>4, <2>1, <3>2, MovesBacked DEF ReadEvent
  <2>2. CASE ReadAwards(h)
    <3> DEFINE r == [req[h] EXCEPT !.at = "settle", !.due = Awards(h), !.on = today]
    <3>1. BackedBy(req[h], Seen(h))
      BY <1>0, <2>2 DEF ReadAwards, Running
    <3>2. /\ r.day = req[h].day /\ r.rosters = req[h].rosters /\ r.due = Awards(h)
          /\ r.rows = req[h].rows /\ r.top = req[h].top
      BY <2>0 DEF Request
    <3>3. \A award \in Awards(h) : award[1] \in Seen(h)
      BY <3>1, AwardsSeen
    <3>4. BackedBy(r, Seen(h))
      BY <3>1, <3>2, <3>3 DEF BackedBy
    <3>5. QED
      BY <1>4, <2>2, <3>4, MovesBacked DEF ReadAwards
  <2>3. CASE Settle(h)
    <3>1. PICK award \in req[h].due :
            Moves(h, [req[h] EXCEPT
              !.due = @ \ {award},
              !.rows[award[1]] = IF AlreadySettled(h, award[1]) THEN @ ELSE @ + 1])
      BY <2>3 DEF Settle
    <3> DEFINE r == [req[h] EXCEPT
                       !.due = @ \ {award},
                       !.rows[award[1]] = IF AlreadySettled(h, award[1]) THEN @ ELSE @ + 1]
    <3>2. BackedBy(req[h], Seen(h)) /\ award[1] \in Ref
      BY <1>0, <2>0, <2>3 DEF Settle, Running, Request
    <3>3. /\ r.day = req[h].day /\ r.rosters = req[h].rosters /\ r.due = req[h].due \ {award}
          /\ r.top = req[h].top
          /\ \A ref \in Ref : ref # award[1] => r.rows[ref] = req[h].rows[ref]
      BY <2>0, <3>2 DEF Request
    <3>4. award[1] \in Seen(h)
      BY <3>2 DEF BackedBy
    <3>5. BackedBy(r, Seen(h))
      <4> HIDE DEF r
      <4>1. QED  BY <3>2, <3>3, <3>4 DEF BackedBy
    <3>6. QED
      BY <1>4, <3>1, <3>5, MovesBacked
  <2>4. CASE Settled(h)
    <3> DEFINE r == [req[h] EXCEPT !.at = "commit", !.evaluate = ToEvaluate(h)]
    <3>1. BackedBy(req[h], Seen(h))
      BY <1>0, <2>4 DEF Settled, Running
    <3>2. BackedBy(r, Seen(h))
      BY <2>0, <3>1 DEF BackedBy, Request
    <3>3. QED
      BY <1>4, <2>4, <3>2, MovesBacked DEF Settled
  <2>5. CASE ReadTop(h)
    <3>1. CASE Moves(h, Idle)
      BY <1>1, <1>4, <3>1, MovesBacked
    <3>2. ASSUME NEW deal \in TopDeals(req[h].day),
                 Moves(h, [req[h] EXCEPT !.at = "check", !.top = deal.giver])
          PROVE  Backed'
      <4> DEFINE r == [req[h] EXCEPT !.at = "check", !.top = deal.giver]
      <4>1. BackedBy(req[h], Seen(h)) /\ req[h].day \in Day
        BY <1>0, <2>0, <2>5 DEF ReadTop, Running, Request
      <4>2. /\ r.day = req[h].day /\ r.rosters = req[h].rosters /\ r.due = req[h].due
            /\ r.rows = req[h].rows /\ r.top = deal.giver
        BY <2>0 DEF Request
      <4>3. <<"high_roller", deal.giver, req[h].day>> \in Seen(h)
        BY <4>1, TopDealsLead DEF Seen
      <4>4. BackedBy(r, Seen(h))
        BY <4>1, <4>2, <4>3 DEF BackedBy
      <4>5. QED
        BY <1>4, <3>2, <4>4, MovesBacked
    <3>3. QED
      BY <2>5, <3>1, <3>2 DEF ReadTop
  <2>6. CASE CheckSettled(h)
    <3> DEFINE key == <<"high_roller", None, req[h].day>>
               r == [req[h] EXCEPT !.at = "commit", !.on = today, !.rows[key] = 1,
                                   !.evaluate = {req[h].top}]
    <3>1. CASE Moves(h, Idle)
      BY <1>1, <1>4, <3>1, MovesBacked
    <3>2. CASE Moves(h, r)
      <4>1. BackedBy(req[h], Seen(h))
        BY <1>0, <2>6 DEF CheckSettled, Running
      <4>2. /\ r.day = req[h].day /\ r.rosters = req[h].rosters /\ r.due = req[h].due
            /\ r.top = req[h].top
            /\ \A ref \in Ref : ref # key => r.rows[ref] = req[h].rows[ref]
        BY <2>0 DEF Request
      <4>3. key[1] = "high_roller"
        OBVIOUS
      <4>4. BackedBy(r, Seen(h))
        <5> HIDE DEF r, key
        <5>1. QED  BY <4>1, <4>2, <4>3 DEF BackedBy
      <4>5. QED
        BY <1>4, <3>2, <4>4, MovesBacked
    <3>3. QED
      BY <2>6, <3>1, <3>2 DEF CheckSettled
  <2>7. CASE Commit(h)
    BY <1>1, <1>4, <2>7, MovesBacked DEF Commit
  <2>8. CASE EvaluateBadges(h)
    <3>1. \A m : ~Running([req[h] EXCEPT !.evaluate = @ \ {m}])
      BY <2>0, <2>8 DEF EvaluateBadges, Running, Request
    <3>2. QED
      BY <1>1, <1>4, <2>8, <3>1, MovesBacked DEF EvaluateBadges
  <2>9. CASE Fail(h)
    BY <1>1, <1>4, <2>9, MovesBacked DEF Fail
  <2>10. QED
    BY <1>4, <2>1, <2>2, <2>3, <2>4, <2>5, <2>6, <2>7, <2>8, <2>9 DEF Step
<1>5. CASE Contest /\ Remember
  <2>1. req' = req
    BY <1>5 DEF Contest, VerifyEntry, CreditVisitor, Credit, VoidEntry, LogOneToOne,
                DeleteOneToOne, EditMember, Reschedule, NextDay
  <2>2. ASSUME NEW g \in Handler, Running(req'[g])
        PROVE  BackedBy(req'[g], Seen(g)')
    BY <1>0, <1>5, <2>1, <2>2, SeenStays, BackedByMore
  <2>3. QED
    BY <2>2 DEF Backed, BackedBy, Running
<1>6. CASE Quiet \/ UNCHANGED vars
  <2>1. UNCHANGED vars
    BY <1>6 DEF Quiet
  <2>2. req' = req /\ lapsed' = lapsed /\ Standing' = Standing
    BY <2>1, StandingStill DEF vars
  <2>3. QED
    BY <2>2 DEF Backed, BackedBy, Running, Seen
<1>7. QED
  BY <1>2, <1>3, <1>4, <1>5, <1>6 DEF Next

LEMMA BackedHolds == Spec => [](TypeOK /\ PeriodsApart /\ Backed)
<1>1. Init => PeriodsApart /\ Backed
  <2>1. OnePeriod(Idle)
    BY IdleOfNoPeriod, DayAssumption
  <2>2. ~Running(Idle)
    BY DEF Running, Idle
  <2>3. QED
    BY <2>1, <2>2 DEF Init, PeriodsApart, Backed
<1>2. TypeOK /\ TopKnown /\ PeriodsApart /\ Backed /\ [Next]_vars => (PeriodsApart /\ Backed)'
  BY PeriodsKept, BackedKept
<1>3. QED
  BY <1>1, <1>2, TypesHold, PTL DEF Spec

(* A commit adds only what its pass has seen.                              *)
LEMMA CommitPaysSeen ==
  ASSUME TypeOK, PeriodsApart, Backed, NEW h \in Handler, Commit(h),
         NEW ref \in Ref, paid'[ref] > paid[ref]
  PROVE  (IF ref[1] = "high_roller" THEN <<ref[1], roller'[ref[3]], ref[3]>> ELSE ref) \in Seen(h)
<1>1. req[h] \in Request /\ req[h].rows \in [Ref -> Nat] /\ paid \in [Ref -> Nat]
  BY DEF TypeOK, Request
<1>2. req[h].at = "commit" /\ OnePeriod(req[h]) /\ BackedBy(req[h], Seen(h))
  BY DEF Commit, PeriodsApart, Backed, Running
<1>3. paid'[ref] = paid[ref] + req[h].rows[ref]
  BY DEF Commit
<1>4. req[h].rows[ref] > 0
  <2>1. paid[ref] \in Nat /\ req[h].rows[ref] \in Nat
    BY <1>1
  <2>2. QED
    BY <1>3, <2>1
<1>5. CASE ref[1] # "high_roller"
  BY <1>2, <1>4, <1>5 DEF BackedBy
<1>6. CASE ref[1] = "high_roller"
  <2>1. req[h].top # None /\ ref = OfDay(req[h].day)
    BY <1>2, <1>4, <1>6 DEF OnePeriod, OfWeek
  <2>2. ref[3] = req[h].day /\ req[h].day \in Day
    BY <1>1, <2>1 DEF OfDay, Request
  <2>3. roller'[ref[3]] = req[h].top
    BY <2>1, <2>2 DEF Commit, TypeOK
  <2>4. <<"high_roller", req[h].top, req[h].day>> \in Seen(h)
    BY <1>2, <2>1 DEF BackedBy
  <2>5. QED
    BY <1>6, <2>2, <2>3, <2>4
<1>7. QED
  BY <1>5, <1>6

(* What a pass pays is as old as the pass at most: whatever moves, is      *)
(* deleted, voided or outdone between its reads and its commit, and        *)
(* however many passes overlap, every bonus a commit adds was deserved at  *)
(* some moment since that pass was started (usecase/pass.go, RunWeekly and *)
(* RunDaily).                                                              *)
THEOREM PassesPayWhatStood == Spec => PaysWhatStood
<1>1. TypeOK /\ PeriodsApart /\ Backed /\ [Next]_vars =>
        [ \A h \in Handler, ref \in Ref :
            req'[h] # req[h] /\ paid'[ref] > paid[ref] =>
              (IF ref[1] = "high_roller" THEN <<ref[1], roller'[ref[3]], ref[3]>> ELSE ref)
                \in Standing \cup lapsed[h] ]_vars
  <2> SUFFICES ASSUME TypeOK, PeriodsApart, Backed, [Next]_vars, NEW h \in Handler, NEW ref \in Ref,
                      req'[h] # req[h], paid'[ref] > paid[ref]
               PROVE  (IF ref[1] = "high_roller" THEN <<ref[1], roller'[ref[3]], ref[3]>> ELSE ref)
                        \in Seen(h)
    BY DEF Seen
  <2>1. paid[ref] \in Nat
    BY DEF TypeOK
  <2>2. PICK g \in Handler : Commit(g)
    BY <2>1, OnlyCommitsPay
  <2>3. g = h
    BY <2>2 DEF Commit, Moves, TypeOK
  <2>4. QED
    BY <2>2, <2>3, CommitPaysSeen
<1>2. QED
  BY <1>1, BackedHolds, PTL DEF Spec, PaysWhatStood

(***************************************************************************)
(* Merits that last                                                        *)
(***************************************************************************)

(* Nothing takes back a scoring day, so a streak lasts, and a full roster  *)
(* does until somebody is edited.                                          *)
Lasting == { a \in Merit : a[1] = "streak" \/ (a[1] = "full_roster" /\ edits = 0) }

(* Scoring days are never taken back, and rosters stand before any edit.   *)
LEMMA FactsGrow ==
  ASSUME TypeOK, [Next]_vars
  PROVE  /\ scored \subseteq scored'
         /\ edits' = 0 => edits = 0 /\ team' = team /\ active' = active
<1> DEFINE Grown == /\ scored \subseteq scored'
                    /\ edits' = 0 => edits = 0 /\ team' = team /\ active' = active
<1>1. CASE Contest
  <2>1. ASSUME NEW m \in Member, Credit(m)
        PROVE  Grown
    BY <2>1 DEF Credit
  <2>2. ASSUME NEW m \in Member, NEW t, NEW isActive, EditMember(m, t, isActive)
        PROVE  Grown
    BY <2>2 DEF EditMember, ledger, TypeOK
  <2>3. ASSUME NEW deal \in deals, VoidEntry(deal)
        PROVE  Grown
    BY <2>3 DEF VoidEntry, ledger, counts
  <2>4. ASSUME NEW p \in Pair, NEW d \in Day, LogOneToOne(p, d) \/ DeleteOneToOne(p, d)
        PROVE  Grown
    BY <2>4 DEF LogOneToOne, DeleteOneToOne, ledger, counts
  <2>5. ASSUME NEW d \in Day, NEW event \in Event, Reschedule(d, event)
        PROVE  Grown
    BY <2>5 DEF Reschedule, ledger, TypeOK
  <2>6. NextDay => Grown
    BY DEF NextDay, contest, ledger, counts
  <2>7. QED
    BY <1>1, <2>1, <2>2, <2>3, <2>4, <2>5, <2>6 DEF Contest, VerifyEntry, CreditVisitor
<1>2. ASSUME NEW h \in Handler,
             (\E d \in Day : StartWeekly(h, d) \/ StartDaily(h, d)) \/ Step(h) \/ Fail(h)
      PROVE  Grown
  <2>1. UNCHANGED <<contest, edits>> /\ scored \subseteq scored'
    BY <1>2 DEF StartWeekly, StartDaily, Step, Fail, ReadEvent, ReadAwards, Settle, Settled, ReadTop,
                CheckSettled, Commit, EvaluateBadges, contest, ledger, badges, counts
  <2>2. QED
    BY <2>1 DEF contest
<1>3. CASE Quiet \/ UNCHANGED vars
  BY <1>3 DEF Quiet, vars, contest, ledger, counts
<1>4. QED
  BY <1>1, <1>2, <1>3 DEF Next

LEMMA LastingStands ==
  ASSUME TypeOK, [Next]_vars, NEW a \in Lasting'
  PROVE  a \in Lasting /\ (a \in Standing => a \in Standing')
<1>1. scored \subseteq scored' /\ (edits' = 0 => edits = 0 /\ team' = team /\ active' = active)
  BY FactsGrow
<1>0. a \in Lasting
  BY <1>1 DEF Lasting, Merit
<1> SUFFICES ASSUME a \in Standing PROVE a \in Standing'
  BY <1>0
<1>2. CASE a[1] = "streak"
  <2>1. PICK m \in Member, w \in Week : a = <<"streak", m, w>> /\ Streak(m, w)
    BY <1>2 DEF Standing
  <2> DEFINE D  == { d \in Day : <<m, d>> \in scored /\ InWeek(d, w) }
             D2 == { d \in Day : <<m, d>> \in scored' /\ InWeek(d, w) }
  <2>2. D \subseteq D2 /\ D2 \subseteq DaysInWeek(w)
    BY <1>1, InWeekIsDaysInWeek
  <2>3. IsFiniteSet(D2) /\ IsFiniteSet(D)
    BY <2>2, DaysInWeekFinite, FS_Subset
  <2>4. Cardinality(D) <= Cardinality(D2) /\ Cardinality(D) \in Nat /\ Cardinality(D2) \in Nat
    BY <2>2, <2>3, FS_Subset, FS_CardinalityType
  <2>5. Cardinality(D) >= 3
    BY <2>1 DEF Streak
  <2>6. Cardinality(D2) >= 3
    BY <2>4, <2>5
  <2>7. Streak(m, w)'
    BY <2>6 DEF Streak
  <2>8. QED
    BY <2>1, <2>7 DEF Standing
<1>3. CASE a[1] = "full_roster" /\ edits' = 0
  <2>1. PICK t \in Team, w \in Week : a = <<"full_roster", t, w>> /\ FullRoster(t, w)
    BY <1>3 DEF Standing
  <2>2. FullRoster(t, w)'
    BY <1>1, <1>3, <2>1 DEF FullRoster, ActiveIn
  <2>3. QED
    BY <2>1, <2>2 DEF Standing
<1>4. QED
  BY <1>2, <1>3 DEF Lasting

(* Bonuses for what lasts are deserved now, not only when they were paid.  *)
LastingPaid ==
  /\ \A h \in Handler : lapsed[h] \cap Lasting = {}
  /\ \A ref \in Ref \cap Lasting : paid[ref] > 0 => ref \in Standing

LEMMA LastingPaidKept ==
  ASSUME TypeOK, PeriodsApart, Backed, LastingPaid, [Next]_vars
  PROVE  LastingPaid'
<1>1. ASSUME NEW h \in Handler, NEW a \in Lasting'
      PROVE  a \notin lapsed'[h]
  <2>1. CASE Remember
    BY <1>1, <2>1, LastingStands DEF Remember, LastingPaid, TypeOK
  <2>2. CASE Quiet \/ UNCHANGED vars
    BY <1>1, <2>2, LastingStands DEF LastingPaid, Quiet, vars
  <2>3. QED
    BY <2>1, <2>2 DEF Next
<1>2. ASSUME NEW ref \in Ref, ref \in Lasting', paid'[ref] > 0
      PROVE  ref \in Standing
  <2>0. ref \in Lasting
    BY <1>2, LastingStands
  <2>1. CASE paid'[ref] = paid[ref]
    BY <1>2, <2>0, <2>1 DEF LastingPaid
  <2>2. CASE paid'[ref] # paid[ref]
    <3>1. PICK h \in Handler : Commit(h)
      BY <2>2, OnlyCommitsPay
    <3>2. paid'[ref] > paid[ref]
      <4>1. paid'[ref] = paid[ref] + req[h].rows[ref] /\ paid[ref] \in Nat /\ req[h].rows[ref] \in Nat
        BY <3>1 DEF Commit, TypeOK, Request
      <4>2. QED
        BY <2>2, <4>1
    <3>3. ref \in Seen(h)
      BY <2>0, <3>1, <3>2, CommitPaysSeen DEF Lasting
    <3>4. QED
      BY <2>0, <3>3 DEF Seen, LastingPaid
  <2>3. QED
    BY <2>1, <2>2
<1>3. ASSUME NEW ref \in Ref, ref \in Lasting', paid'[ref] > 0
      PROVE  ref \in Standing'
  BY <1>2, <1>3, LastingStands
<1>4. QED
  BY <1>1, <1>3 DEF LastingPaid

LEMMA LastingPaidHolds == Spec => []LastingPaid
<1>1. Init => LastingPaid
  BY DEF Init, LastingPaid, NoRows
<1>2. TypeOK /\ PeriodsApart /\ Backed /\ LastingPaid /\ [Next]_vars => LastingPaid'
  BY LastingPaidKept
<1>3. QED
  BY <1>1, <1>2, BackedHolds, PTL DEF Spec

(* A team that was paid Full Roster for a week has active members, and     *)
(* every one of them scored in that calendar week, until the committee     *)
(* edits something: for any number of passes at once, whatever they        *)
(* interrupt and wherever they stop.                                       *)
THEOREM FullRosterIsEarned == Spec => []FullRosterEarned
<1>1. LastingPaid => FullRosterEarned
  <2> SUFFICES ASSUME LastingPaid, edits = 0, NEW t \in Team, NEW w \in Week, paid[<<"full_roster", t, w>>] > 0
               PROVE  FullRoster(t, w)
    BY DEF FullRosterEarned
  <2>1. <<"full_roster", t, w>> \in Ref \cap Lasting
    BY DEF Ref, Lasting, Merit
  <2>2. <<"full_roster", t, w>> \in Standing
    BY <2>1 DEF LastingPaid
  <2>3. QED
    BY <2>2 DEF Standing
<1>2. QED
  BY <1>1, LastingPaidHolds, PTL

(* Whoever was paid a streak has three scoring days in that one calendar   *)
(* week, whatever passes overlapped and whatever was voided since          *)
(* (repository/postgres/pass.go, MembersWithScoringDays).                  *)
THEOREM StreaksAreEarned == Spec => []StreakEarned
<1>1. LastingPaid => StreakEarned
  <2> SUFFICES ASSUME LastingPaid, NEW m \in Member, NEW w \in Week, paid[<<"streak", m, w>>] > 0
               PROVE  Streak(m, w)
    BY DEF StreakEarned
  <2>1. <<"streak", m, w>> \in Ref \cap Lasting
    BY DEF Ref, Lasting, Merit
  <2>2. <<"streak", m, w>> \in Standing
    BY <2>1 DEF LastingPaid
  <2>3. QED
    BY <2>2 DEF Standing
<1>2. QED
  BY <1>1, LastingPaidHolds, PTL
=============================================================================
