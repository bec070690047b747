------------------------------- MODULE Member -------------------------------
(***************************************************************************)
(* Enrolment and the level-up bonus: Create and Update of usecase/member.go *)
(* with repository/postgres/member.go, as concurrent HTTP requests.        *)
(*                                                                         *)
(* A person stands for an e-mail address.  Classification, names, roles    *)
(* and passwords appear only as reasons to refuse an update after its      *)
(* bonus was appended.  The ledger is kept as its sum per source and its   *)
(* sum per team.                                                           *)
(*                                                                         *)
(* A definition named Op_Defect is a defective form of Op, never used by   *)
(* the specification: it shows that a property can fail.                   *)
(***************************************************************************)
EXTENDS Scoring, FiniteSets

CONSTANTS
  Person,       \* people who may be enrolled
  Team,         \* teams of the season
  Handler,      \* goroutines that may serve a request at the same time
  Editor,       \* handlers that may be asked to update a member
  MaxRequests,  \* bound: requests served in a behaviour
  MayFail,      \* whether requests may stop before they end
  None          \* no team, no person

ASSUME NoneAssumption == None \notin Team \cup Person
ASSUME EditorAssumption == Editor \subseteq Handler
ASSUME BoundAssumption == MaxRequests \in Nat
ASSUME MayFailAssumption == MayFail \in BOOLEAN

VARIABLES
  logins,   \* app_users
  members,  \* people with a row in members
  row,      \* what that row says
  paid,     \* sum of the ledger rows level_up:<person>:<colour>
  bonus,    \* sum of these rows for each team
  levelUp,  \* people holding LEVEL_UP in member_badges
  req,      \* the request each handler is serving
  reached,  \* history: colours a person's row has shown
  lost,     \* history: people whose badges a request failed to evaluate
  served    \* bounded counter

roster == <<logins, members, row, reached>>
ledger == <<paid, bonus>>
badges == <<levelUp, lost>>
vars   == <<roster, ledger, badges, req, served>>

Row == [team : Team \cup {None}, color : ColorStatus, active : BOOLEAN]

NewRow == [team |-> None, color |-> "merah", active |-> TRUE]

NoBonus == [c \in ColorStatus |-> 0]

Request == [ at : {"idle", "user", "member", "update", "bonus", "account", "commit", "badges"},
             op : {"none", "create", "update"},
             person : Person \cup {None},
             seen : Row,       \* Update: the row read before the transaction
             to : Row,         \* the row to write
             refused : BOOLEAN, \* the profile, role or password is not accepted
             points : Nat ]    \* appended by the open transaction

Idle == [ at |-> "idle", op |-> "none", person |-> None, seen |-> NewRow, to |-> NewRow,
          refused |-> FALSE, points |-> 0 ]

TypeOK ==
  /\ logins \subseteq Person /\ members \subseteq Person
  /\ row \in [Person -> Row] /\ reached \in [Person -> SUBSET ColorStatus]
  /\ paid \in [Person -> [ColorStatus -> Nat]] /\ bonus \in [Team \cup {None} -> Nat]
  /\ levelUp \subseteq Person /\ lost \subseteq Person
  /\ req \in [Handler -> Request]
  /\ served \in Nat

Init ==
  /\ logins = {} /\ members = {} /\ row = [p \in Person |-> NewRow]
  /\ reached = [p \in Person |-> {}]
  /\ paid = [p \in Person |-> NoBonus] /\ bonus = [t \in Team \cup {None} |-> 0]
  /\ levelUp = {} /\ lost = {}
  /\ req = [h \in Handler |-> Idle]
  /\ served = 0

Moves(h, r) == req' = [req EXCEPT ![h] = r]

Accept(h, r) ==
  /\ req[h].at = "idle" /\ served < MaxRequests
  /\ Moves(h, r)
  /\ served' = served + 1
  /\ UNCHANGED <<roster, ledger, badges>>

(***************************************************************************)
(* Create: FindByEmail, then one transaction with two inserts.  An insert  *)
(* of an address that an open transaction has inserted waits for it.       *)
(***************************************************************************)
ReadCreate(h, p, to) ==
  /\ p \notin logins
  /\ Accept(h, [Idle EXCEPT !.at = "user", !.op = "create", !.person = p, !.to = to])

Inserting(g) == IF req[g].op = "create" /\ req[g].at \in {"member", "commit"} THEN {req[g].person} ELSE {}

LoginAfterInsert_Autocommit(p) == logins \cup {p}

LoginAfterInsert(p) == logins

InsertUser(h) ==
  LET p == req[h].person IN
  /\ req[h].at = "user"
  /\ \A g \in Handler : p \notin Inserting(g)
  /\ IF p \in logins
       THEN Moves(h, Idle) /\ UNCHANGED logins
       ELSE Moves(h, [req[h] EXCEPT !.at = "member"]) /\ logins' = LoginAfterInsert(p)
  /\ UNCHANGED <<members, row, reached, ledger, badges, served>>

InsertMember(h) ==
  /\ req[h].at = "member"
  /\ Moves(h, [req[h] EXCEPT !.at = "commit"])
  /\ UNCHANGED <<roster, ledger, badges, served>>

(***************************************************************************)
(* Update: a read, then one transaction that writes the whole row, appends *)
(* the bonus and goes on to the account, which may refuse.  A field that   *)
(* is not asked for is written back as it was read.                        *)
(***************************************************************************)
ReadUpdate(h, p, to, refused) ==
  /\ h \in Editor /\ p \in members
  /\ Accept(h, [Idle EXCEPT !.at = "update", !.op = "update", !.person = p, !.seen = row[p],
                            !.to = to, !.refused = refused])

Writing(g) == IF req[g].op = "update" /\ req[g].at \in {"bonus", "account", "commit"} THEN {req[g].person} ELSE {}

UpdateRow(h) ==
  /\ req[h].at = "update"
  /\ \A g \in Handler : req[h].person \notin Writing(g)
  /\ Moves(h, [req[h] EXCEPT !.at = "bonus"])
  /\ UNCHANGED <<roster, ledger, badges, served>>

Bonus(h) == LevelUpBonus(req[h].seen.color, req[h].to.color)

(* What the ledger shows of the open transaction. *)
Appended_Autocommit(h) ==
  /\ paid' = [paid EXCEPT ![req[h].person][req[h].to.color] = @ + Bonus(h)]
  /\ bonus' = bonus

Appended(h) == UNCHANGED ledger

AppendBonus(h) ==
  /\ req[h].at = "bonus"
  /\ Appended(h)
  /\ Moves(h, [req[h] EXCEPT !.at = "account", !.points = Bonus(h)])
  /\ UNCHANGED <<roster, badges, served>>

UpdateAccount(h) ==
  /\ req[h].at = "account"
  /\ Moves(h, IF req[h].refused THEN Idle ELSE [req[h] EXCEPT !.at = "commit"])
  /\ UNCHANGED <<roster, ledger, badges, served>>

(***************************************************************************)
(* The commit, and the badges after an update.                             *)
(***************************************************************************)
Credited_OldTeam(h) == req[h].seen.team

Credited(h) == req[h].to.team

Commit(h) ==
  LET p == req[h].person IN
  /\ req[h].at = "commit"
  /\ row' = [row EXCEPT ![p] = req[h].to]
  /\ reached' = [reached EXCEPT ![p] = @ \cup {req[h].to.color}]
  /\ paid' = [paid EXCEPT ![p][req[h].to.color] = @ + req[h].points]
  /\ bonus' = [bonus EXCEPT ![Credited(h)] = @ + req[h].points]
  /\ IF req[h].op = "create"
       THEN logins' = logins \cup {p} /\ members' = members \cup {p} /\ Moves(h, Idle)
       ELSE UNCHANGED <<logins, members>> /\ Moves(h, [Idle EXCEPT !.at = "badges", !.person = p])
  /\ UNCHANGED <<badges, served>>

ColorStatusRaised_Top(p) == row[p].color = "hijau"

ColorStatusRaised(p) == row[p].color # "merah"

EvaluateBadges(h) ==
  LET p == req[h].person IN
  /\ req[h].at = "badges"
  /\ levelUp' = IF ColorStatusRaised(p) THEN levelUp \cup {p} ELSE levelUp
  /\ Moves(h, Idle)
  /\ UNCHANGED <<roster, ledger, lost, served>>

(* A request may stop anywhere: an open transaction rolls back, a badge    *)
(* evaluation is lost.                                                     *)
Fail(h) ==
  /\ MayFail /\ req[h].at # "idle"
  /\ lost' = IF req[h].at = "badges" THEN lost \cup {req[h].person} ELSE lost
  /\ Moves(h, Idle)
  /\ UNCHANGED <<roster, ledger, levelUp, served>>

(***************************************************************************)
(* Specification                                                           *)
(***************************************************************************)
Step(h) ==
  \/ InsertUser(h) \/ InsertMember(h)
  \/ UpdateRow(h) \/ AppendBonus(h) \/ UpdateAccount(h)
  \/ Commit(h) \/ EvaluateBadges(h)

Begin(h) ==
  \E p \in Person, to \in Row :
    \/ to.active /\ ReadCreate(h, p, to)
    \/ \E refused \in BOOLEAN : ReadUpdate(h, p, to, refused)

(* No request is open. *)
Quiet == (\A h \in Handler : req[h].at = "idle") /\ UNCHANGED vars

Next == Quiet \/ \E h \in Handler : Begin(h) \/ Step(h) \/ Fail(h)

Spec == Init /\ [][Next]_vars

(* A request that was accepted keeps running; nobody has to send one. *)
Fairness == \A h \in Handler : WF_vars(Step(h))

FairSpec == Spec /\ Fairness

(***************************************************************************)
(* Properties                                                              *)
(***************************************************************************)

(* "Create provisions the login and the competition profile together, so a *)
(* half-created member cannot exist" (usecase/member.go:112), also when    *)
(* two requests enrol one address or a request stops between the inserts.  *)
NoHalfMember == logins = members

(* Points for reaching a colour are on the ledger only if the member has   *)
(* been that colour: an update that is refused or stops after it appended  *)
(* the bonus leaves no points behind (usecase/member.go, Update).          *)
BonusBacked == \A p \in Person, c \in ColorStatus : paid[p][c] > 0 => c \in reached[p]

(* A rise is paid when it takes effect, to the team the member is then in, *)
(* and nothing else is: "admin raises a member's colour status | team      *)
(* +75 / +150" (README.md:145).  It holds while one admin at a time edits. *)
RisesArePaid ==
  [][\A p \in members :
       LET gain == LevelUpBonus(row[p].color, row'[p].color) IN
       /\ paid'[p] = [paid[p] EXCEPT ![row'[p].color] = @ + gain]
       /\ gain > 0 => bonus'[row'[p].team] = bonus[row'[p].team] + gain]_vars

(* A member whose rise was paid holds LEVEL_UP in the end, unless the rise *)
(* is taken back first or the evaluation itself was lost.                  *)
LevelUpAwarded ==
  \A p \in Person :
    (row[p].color # "merah" /\ \E c \in ColorStatus : paid[p][c] > 0)
      ~> (p \in levelUp \/ p \in lost \/ row[p].color = "merah")
=============================================================================
