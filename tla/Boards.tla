------------------------------- MODULE Boards -------------------------------
(***************************************************************************)
(* Boards: what the screens and the reports say while the season goes on.  *)
(* Standings, drill-downs, paged lists, the dashboard, the captain's       *)
(* screen, exports and the activity feed (usecase/leaderboard.go and       *)
(* report.go, repository/postgres/ledger.go, tyfcb.go, visitor.go,         *)
(* member.go and activity.go), next to the writes they race with: filing,  *)
(* moderation, moves between teams, bonuses, enrolment, teams.             *)
(*                                                                         *)
(* A read of one statement is an operator over the tables; a screen of     *)
(* several statements is a request of several steps, and none of them      *)
(* share a transaction.  Of the writes only what the screens can tell      *)
(* apart is kept: the reads before a moderation are one step and its       *)
(* transaction is another (modules Tyfcb and Visitor have all of them).    *)
(*                                                                         *)
(* A definition named Op_Defect is a defective form of Op, never used by   *)
(* the specification: it shows that a property can fail.                   *)
(***************************************************************************)
EXTENDS Scoring, SequencesExt

CONSTANTS
  Member,       \* people who may be enrolled, in the order of their names
  Team,         \* ids that may be issued to teams, in the order of their numbers
  Captain,      \* members with the captain role
  Handler,      \* goroutines that may serve a request at the same time
  StartMembers, StartTeams, StartTeam, StartFiled,   \* the season so far, members.team_id in any of StartTeam
  Lists,        \* the lists that are looked through
  Asked,        \* limits a caller may ask for, 0 when none
  DefaultPage, MaxPage, DefaultBoard, HistoryRows, FeedRows, SheetRows,
                \* DefaultPageSize, MaxPageSize, the board's 50, the drill-down's
                \* 200, the feed's 50, ExportRowCap
  MaxWrites,    \* bound: requests that write, in a behaviour
  MaxScreens,   \* bound: screens read in a behaviour; they do not affect each other
  MayFail,      \* whether requests may stop before they end
  None          \* no team, no member, no filter

ASSUME OrderAssumption == Member \subseteq Nat /\ Team \subseteq Nat
ASSUME NoneAssumption  == None \notin Member \cup Team
ASSUME StartAssumption == StartMembers \subseteq Member /\ StartTeams \subseteq Team /\ Captain \subseteq Member
ASSUME FiniteAssumption == IsFiniteSet(StartMembers) /\ IsFiniteSet(StartTeams)
ASSUME StartTeamAssumption ==    \* who is not enrolled has no row, and so no team
  StartTeam \subseteq { t \in [Member -> StartTeams \cup {None}] : \A m \in Member \ StartMembers : t[m] = None }
ASSUME PageAssumption  ==
  MaxPage \in Nat /\ DefaultPage \in 1..MaxPage /\ SheetRows \in Nat /\ MaxPage <= SheetRows /\ Asked \subseteq Nat
ASSUME RowsAssumption  == {DefaultBoard, HistoryRows, FeedRows} \subseteq Nat \ {0}
ASSUME BoundAssumption == MaxWrites \in Nat /\ MaxScreens \in Nat /\ MayFail \in BOOLEAN

VARIABLES
  teams,    \* rows of teams
  ever,     \* ids of teams that were ever issued
  roster,   \* members of the season
  team,     \* members.team_id
  filed,    \* tyfcb_entries and visitors, in the order of created_at
  ledger,   \* score_ledger, in the order of created_at
  req,      \* the request each handler is serving
  wrote, screens,   \* requests of either kind accepted so far
  \* history, read by the properties only
  watch,    \* what happened to a request's tables since it began
  strayed   \* items whose owner changed team when they had points or were being moderated

tables == <<teams, ever, roster, team, filed, ledger>>
vars   == <<tables, req, wrote, screens, watch, strayed>>

(***************************************************************************)
(* The values of the variables                                             *)
(***************************************************************************)
Category == {"tyfcb", "visitor", "bonus"}
Status   == [tyfcb |-> {"pending", "verified", "rejected", "void"}, visitor |-> {"terdaftar", "hadir"}]
AnyStatus == Status.tyfcb \cup Status.visitor \cup {None}

Item == UNION { [kind : {k}, by : Member, status : Status[k], void : BOOLEAN] : k \in DOMAIN Status }

Row == [ member : Member \cup {None}, team : Team \cup {None},
         category : Category, points : Int, ref : Nat ]    \* ref 0: no item

ASSUME StartFiledAssumption ==    \* nothing is struck off yet
  StartFiled \in Seq({ i \in Item : i.by \in StartMembers /\ ~i.void })

(* What a list screen filters by. *)
List == [ kind : {"tyfcb", "visitor", "member"}, status : AnyStatus, team : Team \cup {None} ]

ASSUME ListsAssumption == Lists \subseteq List

Request ==
  [ at     : {"idle", "settle", "target", "file", "rows", "next", "individuals", "teams", "roster",
              "pending", "guests", "listed", "board", "dashboard", "screen"},
    who    : Member \cup {None},           \* the caller
    other  : Member \cup {None},           \* the member a captain files for
    team   : Team \cup {None},             \* the team read
    item   : Nat, seen : AnyStatus, to : AnyStatus, sum : Int,    \* of a moderation
    list   : List, asked : Asked \cup {0, SheetRows}, byPage : BOOLEAN, offset : Nat, total : Nat,
    got    : SUBSET Nat,                   \* rows shown so far
    people : SUBSET Member,                \* members shown
    mine   : Team \cup {None},             \* the team shown as the caller's own
    ranked : {"overall", "tyfcb", "visitor"} ]

Idle == [ at |-> "idle", who |-> None, other |-> None, team |-> None,
          item |-> 0, seen |-> None, to |-> None, sum |-> 0,
          list |-> [kind |-> "tyfcb", status |-> None, team |-> None],
          asked |-> 0, byPage |-> FALSE, offset |-> 0, total |-> 0,
          got |-> {}, people |-> {}, mine |-> None, ranked |-> "overall" ]

Watch == [first : Seq(Nat), steady : BOOLEAN, moved : SUBSET Member]

Unwatched == [first |-> <<>>, steady |-> TRUE, moved |-> {}]

(* The foreign keys. *)
References ==
  /\ \A m \in roster : team[m] \in teams \cup {None}
  /\ \A i \in DOMAIN ledger : ledger[i].team \in teams \cup {None} /\ ledger[i].member \in roster \cup {None}
  /\ \A i \in DOMAIN filed : filed[i].by \in roster

TypeOK ==
  /\ teams \subseteq ever /\ ever \subseteq Team /\ roster \subseteq Member
  /\ team \in [Member -> Team \cup {None}]
  /\ filed \in Seq(Item) /\ ledger \in Seq(Row)
  /\ req \in [Handler -> Request] /\ wrote \in 0..MaxWrites /\ screens \in 0..MaxScreens
  /\ watch \in [Handler -> Watch] /\ strayed \subseteq DOMAIN filed
  /\ References

NewItem(kind, m) ==
  [kind |-> kind, by |-> m, void |-> FALSE, status |-> IF kind = "tyfcb" THEN "pending" ELSE "terdaftar"]

Worth(kind) == IF kind = "tyfcb" THEN TyfcbScore(Band(1), 1, 2) ELSE VisitorCumulative["hadir"]

RowOf(item, i, t, points) ==
  [member |-> item.by, team |-> t, category |-> item.kind, points |-> points, ref |-> i]

(* What has been verified was credited to the team the giver is in, and a  *)
(* guest who came to the team of the host.                                 *)
FirstCredits == SetToSeq({ i \in DOMAIN StartFiled : StartFiled[i].status \in {"verified", "hadir"} })

Credit(i) == RowOf(StartFiled[i], i, team[StartFiled[i].by], Worth(StartFiled[i].kind))

Init ==
  /\ teams = StartTeams /\ ever = StartTeams /\ roster = StartMembers
  /\ team \in StartTeam
  /\ filed = StartFiled /\ ledger = [n \in 1..Len(FirstCredits) |-> Credit(FirstCredits[n])]
  /\ req = [h \in Handler |-> Idle] /\ wrote = 0 /\ screens = 0
  /\ watch = [h \in Handler |-> Unwatched] /\ strayed = {}

(***************************************************************************)
(* Reads of one statement                                                  *)
(***************************************************************************)
Points(rows, category) ==
  LET counted == { i \in rows : category \in {"overall", ledger[i].category} }
  IN  SumFunctionOnSet([i \in DOMAIN ledger |-> ledger[i].points], counted)

SumBySource(item) == Points({ i \in DOMAIN ledger : ledger[i].ref = item }, "overall")

(* TeamScores sums what was credited to the team, whoever is in it now. *)
TeamRows_OfMembers(t) ==
  { i \in DOMAIN ledger : IF ledger[i].member = None THEN ledger[i].team = t ELSE team[ledger[i].member] = t }

TeamRows(t) == { i \in DOMAIN ledger : ledger[i].team = t }

TeamScore(t, category) == Points(TeamRows(t), category)

MemberScore(m, category) == Points({ i \in DOMAIN ledger : ledger[i].member = m }, category)

Newest(rows, n) == { i \in rows : Cardinality({ j \in rows : j > i }) < n }

TeamHistory_Current(t, category) ==
  Newest({ i \in TeamRows_OfMembers(t) : category \in {"overall", ledger[i].category} }, HistoryRows)

TeamHistory(t, category) ==
  Newest({ i \in TeamRows(t) : category \in {"overall", ledger[i].category} }, HistoryRows)

(* MemberScores: by the category asked for, then overall, then by name. *)
Outranks_Overall(a, b, category) ==
  \/ MemberScore(a, "overall") > MemberScore(b, "overall")
  \/ MemberScore(a, "overall") = MemberScore(b, "overall") /\ a < b

Outranks(a, b, category) ==
  LET p(m) == MemberScore(m, category)
      q(m) == MemberScore(m, "overall")
  IN  \/ p(a) > p(b)
      \/ p(a) = p(b) /\ (q(a) > q(b) \/ (q(a) = q(b) /\ a < b))

MemberScores(category, n) ==
  { m \in roster : Cardinality({ x \in roster : x # m /\ Outranks(x, m, category) }) < n }

(* Recent: entries and visitors in one stream, the newest first. *)
Feed_CutFirst(n) == { i \in Newest(DOMAIN filed, n) : ~(filed[i].kind = "visitor" /\ filed[i].void) }

Feed(n) == Newest({ i \in DOMAIN filed : ~(filed[i].kind = "visitor" /\ filed[i].void) }, n)

(***************************************************************************)
(* The lists: a filter, an order and a cut.  A list of members goes by the *)
(* number of the team, those without one last, then by name.               *)
(***************************************************************************)
Matches(list, i) ==
  /\ filed[i].kind = list.kind
  /\ list.status \in {None, filed[i].status}
  /\ list.team \in {None, team[filed[i].by]}

Before(a, b) ==
  IF team[a] = team[b] THEN a < b ELSE team[b] = None \/ (team[a] # None /\ team[a] < team[b])

Precedes(list, a, b) == IF list.kind = "member" THEN Before(a, b) ELSE a > b

Rows(list) ==
  IF list.kind = "member" THEN { m \in roster : list.team \in {None, team[m]} }
  ELSE { i \in DOMAIN filed : Matches(list, i) }

Listed(list) ==
  LET rows     == Rows(list)
      before(x) == { y \in rows : Precedes(list, y, x) }
  IN  [k \in 1..Cardinality(rows) |-> CHOOSE x \in rows : Cardinality(before(x)) = k - 1]

Normalise(limit) == IF limit <= 0 THEN DefaultPage ELSE IF limit > MaxPage THEN MaxPage ELSE limit

Cut(rows, offset, limit) == ToSet(SubSeq(rows, offset + 1, offset + Min({limit, Len(rows) - offset})))

(* The sheets of a report; the list of members cuts its own to a page.     *)
SheetOfItems(list) == Cut(Listed(list), 0, SheetRows)

SheetOfMembers(list) == Cut(Listed(list), 0, Normalise(SheetRows))

Sheet(list) == IF list.kind = "member" THEN SheetOfMembers(list) ELSE SheetOfItems(list)

Capped_Beyond(list) == Cardinality(Sheet(list)) > SheetRows

Capped(list) == Cardinality(Sheet(list)) >= SheetRows

(***************************************************************************)
(* Writes                                                                  *)
(***************************************************************************)
Begins(h, r) ==
  /\ req[h].at = "idle" /\ wrote < MaxWrites
  /\ req' = [req EXCEPT ![h] = r] /\ wrote' = wrote + 1 /\ UNCHANGED screens

AtOnce(h) == Begins(h, Idle)

Opens(h, r) ==
  /\ req[h].at = "idle" /\ screens < MaxScreens
  /\ req' = [req EXCEPT ![h] = r] /\ screens' = screens + 1
  /\ UNCHANGED <<tables, wrote>>

Goes(h, r) == req' = [req EXCEPT ![h] = r] /\ UNCHANGED <<wrote, screens>>

Ends(h) == Goes(h, Idle)

Files(kind, m) ==
  /\ filed' = Append(filed, NewItem(kind, m))
  /\ UNCHANGED <<teams, ever, roster, team, ledger>>

Submit(h) == AtOnce(h) /\ \E m \in roster : Files("tyfcb", m)

Register(h) == AtOnce(h) /\ \E m \in roster : Files("visitor", m)

(* A captain files for a member of the team: assertSameTeam reads the      *)
(* captain, then the member, and the filing comes after both.              *)
CaptainRead(h) ==
  /\ \E c \in Captain \cap roster, m \in roster :
       team[c] # None /\ Begins(h, [Idle EXCEPT !.at = "target", !.who = c, !.other = m, !.team = team[c]])
  /\ UNCHANGED tables

SameTeam_AnyTeam(h) == team[req[h].other] # None

SameTeam(h) == team[req[h].other] = req[h].team

AssertSameTeam(h) ==
  /\ req[h].at = "target"
  /\ IF SameTeam(h) THEN Goes(h, [req[h] EXCEPT !.at = "file"]) ELSE Ends(h)
  /\ UNCHANGED tables

CaptainSubmit(h) == req[h].at = "file" /\ Files("tyfcb", req[h].other) /\ Ends(h)

CaptainRegister(h) == req[h].at = "file" /\ Files("visitor", req[h].other) /\ Ends(h)

(* SetStatus, Void and their like for visitors read the item, the team of  *)
(* its owner and what a visitor has earned ...                             *)
ModerateRead(h) ==
  /\ \E i \in DOMAIN filed : \E to \in Status[filed[i].kind] \cup {"void"} :
       /\ ~filed[i].void /\ to # filed[i].status
       /\ Begins(h, [Idle EXCEPT !.at = "settle", !.item = i, !.seen = filed[i].status, !.to = to,
                                 !.team = team[filed[i].by], !.sum = SumBySource(i)])
  /\ UNCHANGED tables

(* ... and commit a guarded update with the ledger row it is worth.  A row *)
(* that names a team deleted since takes the whole transaction back.       *)
Stands(h) ==
  LET i == filed[req[h].item]
  IN  ~i.void /\ (i.status = req[h].seen \/ (i.kind = "visitor" /\ req[h].to = "void"))

Delta(h) ==
  LET kind == filed[req[h].item].kind IN
  CASE req[h].to \in {"verified", "hadir"}              -> Worth(kind)
    [] kind = "tyfcb" /\ req[h].seen = "verified"       -> - Worth(kind)
    [] kind = "visitor" /\ req[h].to = "void"           -> - req[h].sum
    [] kind = "visitor" /\ req[h].to = "terdaftar"      -> - SumBySource(req[h].item)
    [] OTHER                                            -> 0

CreditedTeam_OfCredits(h) == IF Delta(h) > 0 THEN req[h].team ELSE None

CreditedTeam(h) == req[h].team

Settled(i, to) ==
  IF to # "void" THEN [i EXCEPT !.status = to]
  ELSE [i EXCEPT !.void = TRUE, !.status = IF i.kind = "tyfcb" THEN to ELSE @]

Settle(h) ==
  /\ req[h].at = "settle"
  /\ LET i   == filed[req[h].item]
         row == RowOf(i, req[h].item, CreditedTeam(h), Delta(h))
     IN  IF Stands(h) /\ (Delta(h) = 0 \/ row.team \in teams \cup {None})
         THEN /\ filed' = [filed EXCEPT ![req[h].item] = Settled(i, req[h].to)]
              /\ ledger' = IF Delta(h) = 0 THEN ledger ELSE Append(ledger, row)
         ELSE UNCHANGED <<filed, ledger>>
  /\ Ends(h)
  /\ UNCHANGED <<teams, ever, roster, team>>

Bonus(m, t, points) == [member |-> m, team |-> t, category |-> "bonus", points |-> points, ref |-> 0]

(* Member.Update: another team, a better colour or both. *)
MoveMember(h) ==
  /\ AtOnce(h)
  /\ \E m \in roster, t \in teams \cup {None}, raised \in BOOLEAN :
       /\ t # team[m] \/ raised
       /\ team' = [team EXCEPT ![m] = t]
       /\ ledger' = IF raised THEN Append(ledger, Bonus(m, t, LevelUpBonus("merah", "kuning"))) ELSE ledger
  /\ UNCHANGED <<teams, ever, roster, filed>>

(* The Full Roster bonus of the weekly pass names no member. *)
RosterBonus(h) ==
  /\ AtOnce(h)
  /\ \E t \in teams : ledger' = Append(ledger, Bonus(None, t, BonusFullRoster))
  /\ UNCHANGED <<teams, ever, roster, team, filed>>

Enrol(h) ==
  /\ AtOnce(h)
  /\ \E m \in Member \ roster, t \in teams \cup {None} : roster' = roster \cup {m} /\ team' = [team EXCEPT ![m] = t]
  /\ UNCHANGED <<teams, ever, filed, ledger>>

CreateTeam(h) ==
  /\ AtOnce(h)
  /\ \E t \in Team \ ever : teams' = teams \cup {t} /\ ever' = ever \cup {t}
  /\ UNCHANGED <<roster, team, filed, ledger>>

(* The database keeps a team the ledger names and takes its members out of *)
(* any other.                                                              *)
Deletable_Any(t) == TRUE

Deletable(t) == TeamRows(t) = {}

DeleteTeam(h) ==
  /\ AtOnce(h)
  /\ \E t \in teams :
       /\ Deletable(t)
       /\ teams' = teams \ {t}
       /\ team' = [m \in Member |-> IF team[m] = t THEN None ELSE team[m]]
  /\ UNCHANGED <<ever, roster, filed, ledger>>

(***************************************************************************)
(* A walk through the pages of a list, by the offset and limit of each     *)
(* answer or by page numbers.  Each page counts and then reads.            *)
(***************************************************************************)
PageCount(h) ==
  \E list \in Lists, asked \in Asked, byPage \in BOOLEAN :
       /\ byPage => asked > 0    \* without a limit both go by the default page
       /\ Opens(h, [Idle EXCEPT !.at = "rows", !.list = list, !.asked = asked, !.byPage = byPage,
                                 !.total = Len(Listed(list))])

Shown(h) == Cut(Listed(req[h].list), req[h].offset, Normalise(req[h].asked))

HasMore_Strict(h) == req[h].offset + Cardinality(Shown(h)) + 1 < req[h].total

HasMore(h) == req[h].offset + Cardinality(Shown(h)) < req[h].total

PageRows(h) ==
  /\ req[h].at = "rows"
  /\ Goes(h, [req[h] EXCEPT !.at = IF HasMore(h) THEN "next" ELSE "listed", !.got = @ \cup Shown(h)])
  /\ UNCHANGED tables

(* pageFrom turns a page number into an offset before the limit is clamped. *)
NextOffset(h) ==
  req[h].offset + (IF req[h].byPage /\ req[h].asked > 0 THEN req[h].asked ELSE Normalise(req[h].asked))

NextPage(h) ==
  /\ req[h].at = "next"
  /\ Goes(h, [req[h] EXCEPT !.at = "rows", !.offset = NextOffset(h), !.total = Len(Listed(req[h].list))])
  /\ UNCHANGED tables

(***************************************************************************)
(* The leaderboard page: the teams, then the best members of a category.   *)
(***************************************************************************)
Standings(h) ==
  \E asked \in Asked, category \in {"overall", "tyfcb", "visitor"} :
       Opens(h, [Idle EXCEPT !.at = "individuals", !.asked = asked, !.ranked = category])

(* The report of the leaderboard reads the same two, with a limit of its own. *)
LeaderboardReport(h) == Opens(h, [Idle EXCEPT !.at = "individuals", !.asked = SheetRows])

BoardLimit(asked) == IF asked <= 0 THEN DefaultBoard ELSE asked

IndividualStandings(h) ==
  /\ req[h].at = "individuals"
  /\ Goes(h, [req[h] EXCEPT !.at = "board", !.people = MemberScores(req[h].ranked, BoardLimit(req[h].asked))])
  /\ UNCHANGED tables

(***************************************************************************)
(* The dashboard: the caller's row, then the standings among the reads     *)
(* that run at the same time; the caller's own team is looked up in them.  *)
(***************************************************************************)
DashboardMember(h) ==
  \E m \in roster : Opens(h, [Idle EXCEPT !.at = "teams", !.who = m, !.team = team[m]])

MyTeam_Fresh(h) == IF team[req[h].who] \in teams /\ team[req[h].who] = req[h].team THEN req[h].team ELSE None

MyTeam(h) == IF req[h].team \in teams THEN req[h].team ELSE None

DashboardTeams(h) ==
  /\ req[h].at = "teams"
  /\ Goes(h, [req[h] EXCEPT !.at = "dashboard", !.mine = MyTeam(h)])
  /\ UNCHANGED tables

(***************************************************************************)
(* The captain's screen: the team, its members, what waits for approval,   *)
(* the guests who are only registered.                                     *)
(***************************************************************************)
CaptainProfile(h) ==
  \E c \in Captain \cap roster :
       team[c] # None /\ Opens(h, [Idle EXCEPT !.at = "roster", !.who = c, !.team = team[c]])

CaptainRoster(h) ==
  /\ req[h].at = "roster"
  /\ Goes(h, [req[h] EXCEPT !.at = "pending", !.people = { m \in roster : team[m] = req[h].team }])
  /\ UNCHANGED tables

Waiting_OfSeason(h, kind, status) == { i \in DOMAIN filed : filed[i].kind = kind /\ filed[i].status = status }

Waiting(h, kind, status) ==
  { i \in DOMAIN filed : Matches([kind |-> kind, status |-> status, team |-> req[h].team], i) }

CaptainPending(h) ==
  /\ req[h].at = "pending"
  /\ Goes(h, [req[h] EXCEPT !.at = "guests", !.got = Waiting(h, "tyfcb", "pending")])
  /\ UNCHANGED tables

CaptainGuests(h) ==
  /\ req[h].at = "guests"
  /\ Goes(h, [req[h] EXCEPT !.at = "screen", !.got = @ \cup Waiting(h, "visitor", "terdaftar")])
  /\ UNCHANGED tables

(***************************************************************************)
(* Specification                                                           *)
(***************************************************************************)
Leave(h) ==
  /\ req[h].at \in {"listed", "board", "dashboard", "screen"}
  /\ Ends(h) /\ UNCHANGED tables

(* A request may stop anywhere, its transaction rolls back. *)
Fail(h) ==
  /\ MayFail /\ req[h].at # "idle"
  /\ Ends(h) /\ UNCHANGED tables

Begin(h) ==
  \/ Submit(h) \/ Register(h) \/ CaptainRead(h) \/ ModerateRead(h)
  \/ MoveMember(h) \/ RosterBonus(h) \/ Enrol(h) \/ CreateTeam(h) \/ DeleteTeam(h)
  \/ PageCount(h) \/ Standings(h) \/ LeaderboardReport(h) \/ DashboardMember(h) \/ CaptainProfile(h)

Step(h) ==
  \/ AssertSameTeam(h) \/ CaptainSubmit(h) \/ CaptainRegister(h) \/ Settle(h)
  \/ PageRows(h) \/ NextPage(h) \/ IndividualStandings(h) \/ DashboardTeams(h)
  \/ CaptainRoster(h) \/ CaptainPending(h) \/ CaptainGuests(h) \/ Leave(h)

(* History.  A walk is steady while the list loses no row it had, keeps    *)
(* their order and does not grow between the count of a page and its rows. *)
Keeps(rows, later) ==
  \A i \in DOMAIN rows :
    \E k \in DOMAIN later : later[k] = rows[i] /\ \A j \in 1..(i - 1) : rows[j] \in ToSet(SubSeq(later, 1, k - 1))

StaysSteady(h) ==
  /\ watch[h].steady
  /\ req[h].at \in {"rows", "next"} =>
       /\ Keeps(Listed(req[h].list), Listed(req[h].list)')
       /\ req[h].at = "rows" /\ req'[h].at # "rows" => Len(Listed(req[h].list)) = req[h].total

Moved == { m \in Member : team'[m] # team[m] }

Observe ==
  /\ watch' = [h \in Handler |->
       CASE req'[h].at = "idle" -> Unwatched
         [] req[h].at = "idle"  -> [Unwatched EXCEPT !.first = IF req'[h].at = "rows" THEN Listed(req[h].list)' ELSE <<>>]
         [] OTHER -> [watch[h] EXCEPT !.steady = StaysSteady(h), !.moved = @ \cup Moved]]
  /\ strayed' = strayed \cup
       { i \in DOMAIN filed : /\ filed[i].by \in Moved
                              /\ \/ \E j \in DOMAIN ledger : ledger[j].ref = i
                                 \/ \E h \in Handler : req[h].at = "settle" /\ req[h].item = i }

(* Nobody sends a request and none is being served. *)
Quiet == (\A h \in Handler : req[h].at = "idle") /\ UNCHANGED vars

Next == Quiet \/ ((\E h \in Handler : Begin(h) \/ Step(h) \/ Fail(h)) /\ Observe)

Spec == Init /\ [][Next]_vars

(***************************************************************************)
(* Properties                                                              *)
(***************************************************************************)

(* The two boards count the same points: the teams' totals with the rows   *)
(* of nobody's team are the members' totals with the bonuses of whole      *)
(* teams, in every category; a move, a void or the deletion of a team      *)
(* loses nothing (repository/postgres/ledger.go, TeamScores and            *)
(* MemberScores).                                                          *)
BoardsBalance ==
  \A category \in Category :
    LET ofTeams   == SumFunction([t \in teams |-> TeamScore(t, category)])
        ofMembers == SumFunction([m \in roster |-> MemberScore(m, category)])
        rest(S)   == Points(S, category)
    IN  ofTeams + rest({ i \in DOMAIN ledger : ledger[i].team = None })
          = ofMembers + rest({ i \in DOMAIN ledger : ledger[i].member = None })

(* A transaction that no longer counts has cost no team anything: its rows *)
(* cancel out team by team, and one that counts stands with one team only, *)
(* unless its giver moved while it counted or was being moderated: the     *)
(* reversal goes to the team the giver is in then (usecase/tyfcb.go,       *)
(* SetStatus and Void).                                                    *)
TeamsKeepWhatStands ==
  \A i \in DOMAIN filed : filed[i].kind = "tyfcb" /\ i \notin strayed =>
    LET worth   == IF filed[i].status = "verified" THEN Worth("tyfcb") ELSE 0
        cost(t) == Points({ j \in TeamRows(t) : ledger[j].ref = i }, "overall")
    IN  SumBySource(i) = worth /\ \A t \in teams \cup {None} : cost(t) \in {0, worth}

(* "corrections are new rows with the opposite sign, which keeps ... every *)
(* score reproducible from the ledger alone" (ledger.go): the rows a team's *)
(* drill-down lists add up to its score on the board, whoever has left or  *)
(* joined since, as long as they fit.                                      *)
HistoryExplainsScore ==
  \A t \in teams, category \in {"overall"} \cup Category :
    Cardinality(TeamHistory(t, category)) < HistoryRows =>
      Points(TeamHistory(t, category), category) = TeamScore(t, category)

(* Whoever pages through a list sees everything it held when the walk      *)
(* began: rows filed meanwhile push the others back and repeat them, never *)
(* skip them.  It takes a steady list, and no page numbers with a limit    *)
(* above the largest page (domain/page.go, the paged lists, pageFrom).     *)
PagingMissesNothing ==
  \A h \in Handler :
    /\ req[h].at = "listed" /\ watch[h].steady
    /\ req[h].byPage => req[h].asked <= MaxPage
    => ToSet(watch[h].first) \subseteq req[h].got

(* "assertSameTeam stops a captain from acting on members of another       *)
(* team": a captain files for a member of the captain's own team, unless   *)
(* one of the two changed team after the request began                     *)
(* (contribution_handler.go).                                              *)
CaptainFilesForOwnTeam ==
  [][\A h \in Handler :
       req[h].at = "file" /\ filed' # filed /\ req'[h].at = "idle" =>
         LET pair == {req[h].who, req[h].other}
         IN  pair \cap watch[h].moved = {} => team[req[h].who] = team[req[h].other]]_vars

(* A cut list shows the top of its order, and says that it was cut.  "The  *)
(* list is truncated, so the ordering has to happen in the query"          *)
(* (leaderboard.go): nobody left out of a category's board has more points *)
(* in it than someone it shows.  The feed leaves out only what newer items *)
(* fill it without: a guest struck off takes no place in it (activity.go,  *)
(* Recent).  "Truncated names any sheet that hit ExportRowCap, so the      *)
(* reader is told" (report.go): it holds for transactions and guests; the  *)
(* sheet of members is complete only while they fit one page.              *)
BoardShowsTheTop ==
  \A category \in {"overall", "tyfcb", "visitor"}, asked \in Asked :
    LET shown    == MemberScores(category, BoardLimit(asked))
        score(m) == MemberScore(m, category)
    IN  /\ \A m \in roster \ shown, x \in shown : score(m) <= score(x)
        /\ shown # roster => Cardinality(shown) = BoardLimit(asked)

FeedShowsTheNewest ==
  \A i \in DOMAIN filed \ Feed(FeedRows) :
    \/ filed[i].kind = "visitor" /\ filed[i].void
    \/ Cardinality({ j \in Feed(FeedRows) : j > i }) = FeedRows

SheetsSayWhenCut ==
  \A list \in Lists :
    Cardinality(Sheet(list)) < Len(Listed(list)) =>
      Capped(list) \/ (list.kind = "member" /\ Len(Listed(list)) > MaxPage)

CutsKeepTheTop == BoardShowsTheTop /\ FeedShowsTheNewest /\ SheetsSayWhenCut

(* Screens of several statements agree with themselves.  A dashboard lacks *)
(* the team of a member who has one only if that team was deleted while it *)
(* was being read (leaderboard.go, Dashboard; a member who changes team    *)
(* meanwhile sees the old one).  What waits for a captain's approval was   *)
(* brought by the members on the same screen, unless one of them changed   *)
(* team while it was being read (admin_handler.go, handleCaptainTeam).     *)
ScreensAgree ==
  \A h \in Handler :
    /\ req[h].at = "dashboard" /\ req[h].team \in teams => req[h].mine = req[h].team
    /\ req[h].at = "screen" =>
         \A i \in req[h].got : filed[i].by \in req[h].people \cup watch[h].moved

=============================================================================
