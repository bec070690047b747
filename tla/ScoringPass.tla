------------------------------ MODULE ScoringPass ------------------------------
(***************************************************************************)
(* The settlement passes: the committee runs RunWeekly for Full Roster,    *)
(* Streak Week and 1-2-1 Payoff, and RunDaily for High Roller Day, as      *)
(* often as it likes (usecase/pass.go with repository/postgres/pass.go,    *)
(* PairsWithTyfcbInWindow of sphere.go and the badges of catalog.go).      *)
(*                                                                         *)
(* The passes look at the rest of the system through four things only:     *)
(* which members have a ledger row with positive points on which day,      *)
(* which entries are verified, which meetings are logged, and how many     *)
(* ledger rows carry a given source reference.  These are the state.  The  *)
(* team a member's bonus row is written to is left out: Tyfcb models it.   *)
(*                                                                         *)
(* A definition named Op_Defect is a defective form of Op, never used by   *)
(* the specification: it shows that a property can fail.                   *)
(***************************************************************************)
EXTENDS Scoring, FiniteSets

CONSTANTS
  Member, Team,
  Handler,      \* goroutines that may run a pass at the same time
  Day,          \* the days of the season that are looked at; day 0 is a Monday
  Event,        \* weekly events that may be scheduled
  Value,        \* worth of an entry, as far as two entries compare
  MaxEntries,   \* bound: contributions in a behaviour
  MaxEdits,     \* bound: transfers, (de)activations and reschedulings
  MaxRuns,      \* bound: passes started
  MayWithdraw,  \* whether entries may be voided and meetings deleted
  MayFail,      \* whether a pass may stop before it ends
  None          \* no team, no member

ASSUME NoneAssumption  == None \notin Team \cup Member
ASSUME DayAssumption   == Day \subseteq Nat /\ Day # {}
ASSUME EventAssumption == Event # {}
ASSUME MemberAssumption == IsFiniteSet(Member)
ASSUME BoundAssumption == MaxEntries \in Nat /\ MaxEdits \in Nat /\ MaxRuns \in Nat

VARIABLES
  today,
  team, active,  \* members.team_id, members.is_active
  eventOn,       \* what ActiveOn answers for each day
  scored,        \* <<m, d>>: a ledger row of m with points > 0, created on day d
  deals,         \* verified entries
  met,           \* one_to_one_logs: the pair and its day
  paid,          \* number of ledger rows with each source reference
  roller,        \* whom the High Roller row of a day names
  teamPlayer, streakMaster,  \* members holding TEAM_PLAYER, STREAK_MASTER
  req,           \* the pass each handler is running
  entries, edits, runs,      \* bounded counters
  \* history, read by the properties only
  lapsed         \* merits lost while each pass was running

contest == <<team, active, eventOn, deals, met>>
ledger  == <<scored, paid, roller>>
badges  == <<teamPlayer, streakMaster>>
counts  == <<entries, edits, runs>>
vars    == <<today, contest, ledger, badges, req, counts, lapsed>>

(***************************************************************************)
(* weekBounds: the Monday on or before the day.                            *)
(***************************************************************************)
Weekday(d) == (d + 1) % 7          \* time.Weekday: Sunday is 0

WeekStart_Sunday(d) == d - Weekday(d)

WeekStart(d) == d - ((Weekday(d) + 6) % 7)

DaysInWeek(w) == { d \in Day : d >= w /\ d <= w + 6 }

Week == { WeekStart(d) : d \in Day }

Pair == { p \in SUBSET Member : Cardinality(p) = 2 }

(* d lies in the calendar week that starts on Monday w. *)
InWeek(d, w) == w % 7 = 0 /\ d \div 7 = w \div 7

Deal == [giver : Member, receiver : Member, day : Day, value : Value]

(* sumber_ref of a bonus: what it settles, for whom and for which period. *)
Ref == ({"full_roster"} \X Team \X Week)
         \cup ({"streak", "one_to_one"} \X Member \X Week)
         \cup ({"high_roller"} \X {None} \X Day)

NoRows == [r \in Ref |-> 0]

(***************************************************************************)
(* What the bonuses are for, in words of the season and not of the         *)
(* queries: the properties are about these.                                *)
(***************************************************************************)
ActiveIn(t) == { m \in active : team[m] = t }

FullRoster(t, w) ==
  /\ ActiveIn(t) # {}
  /\ \A m \in ActiveIn(t) : \E d \in Day : <<m, d>> \in scored /\ InWeek(d, w)

Streak(m, w) == Cardinality({ d \in Day : <<m, d>> \in scored /\ InWeek(d, w) }) >= 3

MetAndDealt(m, w) ==
  \E n \in Member, deal \in deals :
    /\ {deal.giver, deal.receiver} = {m, n} /\ InWeek(deal.day, w)
    /\ \E d \in Day : <<{m, n}, d>> \in met /\ InWeek(d, w)

Leads(m, d) ==
  \E deal \in deals :
    /\ deal.giver = m /\ deal.day = d
    /\ \A other \in deals : other.day = d => other.value <= deal.value

(* Merits that hold now, named like the bonuses they earn; High Roller     *)
(* names the member who leads.                                             *)
Merit == ({"full_roster"} \X Team \X Week)
           \cup ({"streak", "one_to_one"} \X Member \X Week)
           \cup ({"high_roller"} \X Member \X Day)

Standing ==
  { a \in {"full_roster"} \X Team \X Week : FullRoster(a[2], a[3]) }
    \cup { a \in {"streak"} \X Member \X Week : Streak(a[2], a[3]) }
    \cup { a \in {"one_to_one"} \X Member \X Week : MetAndDealt(a[2], a[3]) }
    \cup { a \in {"high_roller"} \X Member \X Day : Leads(a[2], a[3]) }

Roster == [team : Team, members : SUBSET Member, scoring : SUBSET Member]

Request ==
  [ at : {"idle", "event", "awards", "top", "check", "settle", "commit", "badges"},
    day : Day,
    event : Event,
    rosters : SUBSET Roster,       \* read by RosterForWeek
    due : SUBSET (Ref \X (Pair \cup {None})),  \* awards the transaction has yet to check
    rows : [Ref -> Nat],           \* appended by the open transaction
    on : Day,                      \* day of the transaction
    top : Member \cup {None},      \* giver of the largest entry of the day
    evaluate : SUBSET Member ]     \* whose badges are still to be evaluated

Idle == [ at |-> "idle", day |-> CHOOSE d \in Day : TRUE, event |-> CHOOSE e \in Event : TRUE,
          rosters |-> {}, due |-> {},
          rows |-> NoRows, on |-> CHOOSE d \in Day : TRUE, top |-> None, evaluate |-> {} ]

TypeOK ==
  /\ today \in Day /\ team \in [Member -> Team \cup {None}] /\ active \subseteq Member
  /\ eventOn \in [Day -> Event]
  /\ scored \subseteq Member \X Day /\ deals \subseteq Deal /\ met \subseteq Pair \X Day
  /\ paid \in [Ref -> Nat] /\ roller \in [Day -> Member \cup {None}]
  /\ teamPlayer \subseteq Member /\ streakMaster \subseteq Member
  /\ req \in [Handler -> Request]
  /\ entries \in 0..MaxEntries /\ edits \in 0..MaxEdits /\ runs \in 0..MaxRuns
  /\ lapsed \in [Handler -> SUBSET Merit]

Init ==
  /\ \E d \in Day : (\A e \in Day : d <= e) /\ today = d
  /\ team \in [Member -> Team] /\ active = Member
  /\ eventOn \in [Day -> Event]
  /\ scored = {} /\ deals = {} /\ met = {}
  /\ paid = NoRows /\ roller = [d \in Day |-> None]
  /\ teamPlayer = {} /\ streakMaster = {}
  /\ req = [h \in Handler |-> Idle]
  /\ entries = 0 /\ edits = 0 /\ runs = 0
  /\ lapsed = [h \in Handler |-> {}]

(***************************************************************************)
(* Badges.Evaluate, for the two badges the passes bear on.  t is the       *)
(* member's team and s the scoring days when Stats reads them.             *)
(***************************************************************************)
ScoringDays(m, s) == { d \in Day : <<m, d>> \in s }

StreakMastery(m, s) == Cardinality(ScoringDays(m, s)) >= 3

(* The team the member is in now collected a Full Roster in some week. *)
TeamCollected(t) == t # None /\ \E w \in Week : paid[<<"full_roster", t, w>>] > 0

Evaluate(m, t, s) ==
  /\ teamPlayer'   = IF TeamCollected(t) THEN teamPlayer \cup {m} ELSE teamPlayer
  /\ streakMaster' = IF StreakMastery(m, s) THEN streakMaster \cup {m} ELSE streakMaster

(***************************************************************************)
(* What goes on around the passes.  Verifying an entry appends a ledger    *)
(* row created today, whatever the date of the entry, and ends with the    *)
(* giver's badges; so do a visitor's milestone and an edit of a member.    *)
(***************************************************************************)
Credit(m) ==
  /\ scored' = scored \cup {<<m, today>>}
  /\ Evaluate(m, team[m], scored')
  /\ entries < MaxEntries /\ entries' = entries + 1
  /\ UNCHANGED <<today, team, active, eventOn, paid, roller, req, edits, runs>>

VerifyEntry(giver, receiver, d, value) ==
  /\ giver # receiver
  /\ deals' = deals \cup {[giver |-> giver, receiver |-> receiver, day |-> d, value |-> value]}
  /\ met' = met
  /\ Credit(giver)

CreditVisitor(m) == Credit(m) /\ UNCHANGED <<deals, met>>

(* The reversal is a row with negative points; the credit stays. *)
VoidEntry(deal) ==
  /\ MayWithdraw /\ deal \in deals
  /\ deals' = deals \ {deal}
  /\ UNCHANGED <<today, team, active, eventOn, met, ledger, badges, req, counts>>

LogOneToOne(p, d) ==
  /\ <<p, d>> \notin met /\ entries < MaxEntries
  /\ met' = met \cup {<<p, d>>}
  /\ entries' = entries + 1
  /\ UNCHANGED <<today, team, active, eventOn, deals, ledger, badges, req, edits, runs>>

(* DELETE /admin/one-to-one/{id} asks nothing of the bonuses paid for it. *)
DeleteOneToOne(p, d) ==
  /\ MayWithdraw /\ <<p, d>> \in met
  /\ met' = met \ {<<p, d>>}
  /\ UNCHANGED <<today, team, active, eventOn, deals, ledger, badges, req, counts>>

EditMember(m, t, isActive) ==
  /\ edits < MaxEdits /\ edits' = edits + 1
  /\ team' = [team EXCEPT ![m] = t]
  /\ active' = IF isActive THEN active \cup {m} ELSE active \ {m}
  /\ Evaluate(m, t, scored)
  /\ UNCHANGED <<today, eventOn, deals, met, ledger, req, entries, runs>>

Reschedule(d, event) ==
  /\ edits < MaxEdits /\ edits' = edits + 1
  /\ eventOn' = [eventOn EXCEPT ![d] = event]
  /\ UNCHANGED <<today, team, active, deals, met, ledger, badges, req, entries, runs>>

NextDay ==
  /\ \E d \in Day : d > today /\ (\A e \in Day : e > today => d <= e) /\ today' = d
  /\ UNCHANGED <<contest, ledger, badges, req, counts>>

(***************************************************************************)
(* RunWeekly: three reads, then one transaction.                           *)
(***************************************************************************)
Moves(h, r) == req' = [req EXCEPT ![h] = r]

(* created_at within the week *)
ScoredIn(m, w) == \E d \in DaysInWeek(w) : <<m, d>> \in scored

RosterOf(t, w) ==
  [team |-> t, members |-> ActiveIn(t), scoring |-> { m \in ActiveIn(t) : ScoredIn(m, w) }]

RosterForWeek(w) == { RosterOf(t, w) : t \in Team }

Qualifies_SomeScored(roster) == Cardinality(roster.scoring) > 0

Qualifies(roster) == QualifiesFullRoster(Cardinality(roster.members), Cardinality(roster.scoring))

StartWeekly(h, d) ==
  /\ req[h].at = "idle" /\ runs < MaxRuns
  /\ Moves(h, [Idle EXCEPT !.at = "event", !.day = d, !.rosters = RosterForWeek(WeekStart(d))])
  /\ runs' = runs + 1
  /\ UNCHANGED <<today, contest, ledger, badges, entries, edits>>

(* ActiveOn the day the pass was asked for, which may be any of the week. *)
ReadEvent(h) ==
  /\ req[h].at = "event"
  /\ Moves(h, [req[h] EXCEPT !.at = "awards", !.event = eventOn[req[h].day]])
  /\ UNCHANGED <<today, contest, ledger, badges, counts>>

StreakMembers_TwoDays(w) ==
  { m \in Member : Cardinality({ d \in DaysInWeek(w) : <<m, d>> \in scored }) >= 2 }

StreakMembers(w) ==
  { m \in Member : Cardinality({ d \in DaysInWeek(w) : <<m, d>> \in scored }) >= 3 }

PairsWithTyfcb_AnyDate(w) ==
  { p \in Pair : \E d \in DaysInWeek(w), deal \in deals :
      <<p, d>> \in met /\ {deal.giver, deal.receiver} = p }

PairsWithTyfcb(w) ==
  { p \in Pair : \E d \in DaysInWeek(w), deal \in deals :
      <<p, d>> \in met /\ {deal.giver, deal.receiver} = p /\ deal.day \in DaysInWeek(w) }

(* Each side of each pair: a member of two pairs comes up twice. *)
Awards(h) ==
  LET w == WeekStart(req[h].day) IN
  { <<<<"full_roster", roster.team, w>>, None>> : roster \in { r \in req[h].rosters : Qualifies(r) } }
  \cup (IF req[h].event # "STREAK" THEN {}
        ELSE { <<<<"streak", m, w>>, None>> : m \in StreakMembers(w) })
  \cup (IF req[h].event # "ONE_TO_ONE" THEN {}
        ELSE UNION { { <<<<"one_to_one", m, w>>, p>> : m \in p } : p \in PairsWithTyfcb(w) })

ReadAwards(h) ==
  /\ req[h].at = "awards"
  /\ Moves(h, [req[h] EXCEPT !.at = "settle", !.due = Awards(h), !.on = today])
  /\ UNCHANGED <<today, contest, ledger, badges, counts>>

(* AlreadySettled sees the committed rows and its own transaction's. *)
AlreadySettled_Never(h, ref) == FALSE

AlreadySettled(h, ref) == paid[ref] + req[h].rows[ref] > 0

(* Full Roster comes first, then the members' bonuses, in any order. *)
Settle(h) ==
  /\ req[h].at = "settle"
  /\ \E award \in req[h].due :
       LET ref == award[1] IN
       /\ ref[1] = "full_roster" \/ \A a \in req[h].due : a[1][1] # "full_roster"
       /\ Moves(h, [req[h] EXCEPT
            !.due = @ \ {award},
            !.rows[ref] = IF AlreadySettled(h, ref) THEN @ ELSE @ + 1])
  /\ UNCHANGED <<today, contest, ledger, badges, counts>>

(* Members a row appended by the pass gives positive points to. *)
Rewarded(h) ==
  { m \in Member : \/ \E ref \in Ref : ref[1] \in {"streak", "one_to_one"} /\ ref[2] = m /\ req[h].rows[ref] > 0
                   \/ req[h].top = m }

(* The members of the rosters that qualify, settled now or before. *)
ToEvaluate_Rewarded(h) == Rewarded(h)

ToEvaluate(h) == UNION { roster.members : roster \in { r \in req[h].rosters : Qualifies(r) } }

Settled(h) ==
  /\ req[h].at = "settle" /\ req[h].due = {}
  /\ Moves(h, [req[h] EXCEPT !.at = "commit", !.evaluate = ToEvaluate(h)])
  /\ UNCHANGED <<today, contest, ledger, badges, counts>>

(***************************************************************************)
(* RunDaily: every read, AlreadySettled too, comes before the transaction. *)
(***************************************************************************)
StartDaily(h, d) ==
  /\ req[h].at = "idle" /\ runs < MaxRuns
  /\ eventOn[d] = "HIGH_ROLLER"
  /\ Moves(h, [Idle EXCEPT !.at = "top", !.day = d])
  /\ runs' = runs + 1
  /\ UNCHANGED <<today, contest, ledger, badges, entries, edits>>

DealsOn_AnyDay(d) == deals

DealsOn(d) == { deal \in deals : deal.day = d }

TopDeals_Unordered(d) == DealsOn(d)

TopDeals(d) == { deal \in DealsOn(d) : \A other \in DealsOn(d) : other.value <= deal.value }

ReadTop(h) ==
  /\ req[h].at = "top"
  /\ \/ /\ DealsOn(req[h].day) = {}
        /\ Moves(h, Idle)
     \/ \E deal \in TopDeals(req[h].day) :
          /\ Moves(h, [req[h] EXCEPT !.at = "check", !.top = deal.giver])
  /\ UNCHANGED <<today, contest, ledger, badges, counts>>

CheckSettled(h) ==
  LET ref == <<"high_roller", None, req[h].day>> IN
  /\ req[h].at = "check"
  /\ \/ /\ AlreadySettled(h, ref)
        /\ Moves(h, Idle)
     \/ /\ ~AlreadySettled(h, ref)
        /\ Moves(h, [req[h] EXCEPT !.at = "commit", !.on = today, !.rows[ref] = 1,
                                   !.evaluate = {req[h].top}])
  /\ UNCHANGED <<today, contest, ledger, badges, counts>>

(***************************************************************************)
(* The commit, and the badges after it.                                    *)
(***************************************************************************)
Commit(h) ==
  /\ req[h].at = "commit"
  /\ paid' = [ref \in Ref |-> paid[ref] + req[h].rows[ref]]
  /\ scored' = scored \cup { <<m, req[h].on>> : m \in Rewarded(h) }
  /\ roller' = IF req[h].top = None THEN roller ELSE [roller EXCEPT ![req[h].day] = req[h].top]
  /\ Moves(h, [Idle EXCEPT !.at = "badges", !.evaluate = req[h].evaluate])
  /\ UNCHANGED <<today, contest, badges, counts>>

EvaluateBadges(h) ==
  /\ req[h].at = "badges"
  /\ \/ \E m \in req[h].evaluate :
          /\ Evaluate(m, team[m], scored)
          /\ Moves(h, [req[h] EXCEPT !.evaluate = @ \ {m}])
     \/ /\ req[h].evaluate = {}
        /\ Moves(h, Idle)
        /\ UNCHANGED badges
  /\ UNCHANGED <<today, contest, ledger, counts>>

(* A pass may stop anywhere; its transaction rolls back. *)
Fail(h) ==
  /\ MayFail /\ req[h].at # "idle"
  /\ Moves(h, Idle)
  /\ UNCHANGED <<today, contest, ledger, badges, counts>>

(***************************************************************************)
(* Specification                                                           *)
(***************************************************************************)
Step(h) ==
  \/ ReadEvent(h) \/ ReadAwards(h) \/ Settle(h) \/ Settled(h)
  \/ ReadTop(h) \/ CheckSettled(h)
  \/ Commit(h) \/ EvaluateBadges(h)

Contest ==
  \/ \E giver, receiver \in Member, d \in Day, value \in Value : VerifyEntry(giver, receiver, d, value)
  \/ \E m \in Member : CreditVisitor(m)
  \/ \E deal \in deals : VoidEntry(deal)
  \/ \E p \in Pair, d \in Day : LogOneToOne(p, d) \/ DeleteOneToOne(p, d)
  \/ \E m \in Member, t \in Team \cup {None}, isActive \in BOOLEAN : EditMember(m, t, isActive)
  \/ \E d \in Day, event \in Event : Reschedule(d, event)
  \/ NextDay

(* Nobody runs a pass. *)
Quiet == (\A h \in Handler : req[h].at = "idle") /\ UNCHANGED vars

(* History: a merit lapses for the passes that run when it is lost. *)
Remember ==
  lapsed' = [h \in Handler |-> IF req'[h].at \in {"idle", "badges"} THEN {}
                               ELSE (lapsed[h] \cup Standing) \ Standing']

Next ==
  \/ Quiet
  \/ Contest /\ Remember
  \/ /\ \E h \in Handler : (\E d \in Day : StartWeekly(h, d) \/ StartDaily(h, d)) \/ Step(h) \/ Fail(h)
     /\ Remember

Spec == Init /\ [][Next]_vars

(* A pass that was started keeps running, and every step moves its         *)
(* request; nobody has to start one.                                       *)
Fairness == \A h \in Handler : WF_req(Step(h))

FairSpec == Spec /\ Fairness

(***************************************************************************)
(* Properties                                                              *)
(***************************************************************************)

(* "Each pass is keyed by period, so re-running one is a no-op instead of  *)
(* a second payment" (README.md:150).  It holds as long as no two passes   *)
(* overlap: nothing but the read of AlreadySettled keeps a second row out. *)
PaidOnce == \A ref \in Ref : paid[ref] <= 1

(* Until the committee edits anything, a team that was paid Full Roster    *)
(* for a week has active members, and every one of them scored in that     *)
(* calendar week, whatever was voided since (usecase/pass.go, RunWeekly;   *)
(* domain/bonus.go, QualifiesFullRoster).                                  *)
FullRosterEarned ==
  edits = 0 => \A t \in Team, w \in Week : paid[<<"full_roster", t, w>>] > 0 => FullRoster(t, w)

(* Whoever was paid a streak scored on three days of that week: the days   *)
(* of two weeks are not added up (repository/postgres/pass.go,             *)
(* MembersWithScoringDays).                                                *)
StreakEarned ==
  \A m \in Member, w \in Week : paid[<<"streak", m, w>>] > 0 => Streak(m, w)

(* What a pass pays is as old as the pass itself at most.  Rosters,        *)
(* streaks, pairs and the leader of a day are read before the transaction, *)
(* and members may move, meetings be deleted and entries be voided until   *)
(* it commits; yet every bonus a commit adds was deserved at some moment   *)
(* since that pass was started, and High Roller by the member it names.  A *)
(* meeting deleted, an entry voided or a larger one verified before the    *)
(* pass began never counts (usecase/pass.go, RunWeekly and RunDaily;       *)
(* repository/postgres/sphere.go, PairsWithTyfcbInWindow).                 *)
PaysWhatStood ==
  [][ \A h \in Handler, ref \in Ref :
        req'[h] # req[h] /\ paid'[ref] > paid[ref] =>
          (IF ref[1] = "high_roller" THEN <<ref[1], roller'[ref[3]], ref[3]>> ELSE ref)
            \in Standing \cup lapsed[h] ]_vars

(* If passes do not stop half way and nobody changes team, the members of  *)
(* a team that was paid Full Roster all get TEAM_PLAYER, which RunWeekly   *)
(* evaluates after its commit for the rosters it read before.              *)
TeamPlayersAwarded ==
  \A m \in Member, t \in Team, w \in Week :
    paid[<<"full_roster", t, w>>] > 0 /\ m \in ActiveIn(t) ~> m \in teamPlayer

(***************************************************************************)
(* What the passes implement.  A week is settled by one transaction, and   *)
(* so is a day.                                                            *)
(***************************************************************************)
OfDay(d) == <<"high_roller", None, d>>

OfWeek(w) == { ref \in Ref : ref[1] # "high_roller" /\ ref[3] = w }

HighRollers == { OfDay(d) : d \in Day }

Book == INSTANCE BonusBook WITH
          Bonus  <- Ref,
          Period <- { OfWeek(w) : w \in Week } \cup { {OfDay(d)} : d \in Day },
          Named  <- HighRollers,
          Person <- Member,
          holder <- [ref \in HighRollers |-> roller[ref[3]]]

(* Passes that do not overlap are a book of bonuses: whatever they repeat  *)
(* and wherever they stop, a commit pays bonuses of one period, none of    *)
(* them again, and High Roller names its member once (usecase/pass.go,     *)
(* RunWeekly and RunDaily; "keyed by period", README.md:150).              *)
BookSpec == Book!Spec
=============================================================================
