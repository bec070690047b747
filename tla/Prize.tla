------------------------------- MODULE Prize -------------------------------
(***************************************************************************)
(* The prize pool and the raffle (usecase/prize.go with                    *)
(* repository/postgres/prize.go): donations, moderation, tickets and the   *)
(* draw, as concurrent HTTP requests.                                      *)
(*                                                                         *)
(* raffle_tickets is kept row by row: a row knows the transaction that     *)
(* inserted it, because a DELETE only sees rows committed before it began. *)
(* One season is modelled; names, values and categories of prizes are not. *)
(*                                                                         *)
(* A definition named Op_Defect is a defective form of Op, never used by   *)
(* the specification: it shows that a property can fail.                   *)
(***************************************************************************)
EXTENDS Scoring, FiniteSets

CONSTANTS
  Prize,        \* prizes that may be donated or seeded
  Member,       \* members of the season
  Handler,      \* goroutines that may serve a request at the same time
  Issuer,       \* handlers that may be asked to issue tickets
  Points,       \* points a ledger row may carry
  MaxRequests,  \* bound: requests served in a behaviour
  MaxChanges,   \* bound: changes of scores, visitors and members
  MayFail,      \* whether requests may stop before they end
  None          \* no donor, no winner, no prize

ASSUME NoneAssumption == None \notin Member \cup Prize
ASSUME IssuerAssumption == Issuer \subseteq Handler
ASSUME PointsAssumption == Points \subseteq Int
ASSUME BoundAssumption == MaxRequests \in Nat /\ MaxChanges \in Nat
ASSUME MayFailAssumption == MayFail \in BOOLEAN

VARIABLES
  prize,    \* prize_pool
  tickets,  \* the committed rows of raffle_tickets
  score,    \* sum of a member's ledger rows
  finds,    \* attending visitors and first pairs of a member
  active,   \* members with is_active
  patron,   \* members holding PATRON in member_badges
  req,      \* the request each handler is serving
  best,     \* history: the highest entitlement a member ever had
  lost,     \* history: members whose badges a request failed to evaluate
  served, changes  \* bounded counters

season == <<score, finds, active, best>>
badges == <<patron, lost>>
vars   == <<prize, tickets, season, badges, req, served, changes>>

PrizeStatus == {"pending", "approved", "rejected", "awarded"}

PrizeRow == [ status  : PrizeStatus \cup {"absent", "deleted"},
              raffled : BOOLEAN,             \* alokasi = undian
              donor   : Member \cup {None},
              winner  : Member \cup {None} ]

NoPrize == [status |-> "absent", raffled |-> FALSE, donor |-> None, winner |-> None]

Ticket == [issue : Nat, member : Member, nr : Nat]

Request == [ at     : {"idle", "write", "badges", "draw", "delete", "insert", "commit"},
             prize  : Prize \cup {None},
             donor  : Member \cup {None},       \* as read by FindByID
             to     : PrizeStatus,              \* SetStatus: asked for
             winner : Member \cup {None},       \* SetStatus: asked for
             issue  : Nat,                      \* IssueTickets: which one
             doomed : SUBSET Ticket,            \* rows its DELETE has seen
             mine   : SUBSET Ticket ]           \* rows it has inserted

Idle == [ at |-> "idle", prize |-> None, donor |-> None, to |-> "pending", winner |-> None,
          issue |-> 0, doomed |-> {}, mine |-> {} ]

TypeOK ==
  /\ prize   \in [Prize -> PrizeRow]
  /\ tickets \subseteq Ticket
  /\ score \in [Member -> Int] /\ finds \in [Member -> Nat] /\ active \subseteq Member
  /\ best \in [Member -> Nat]
  /\ patron \subseteq Member /\ lost \subseteq Member
  /\ req \in [Handler -> Request]
  /\ served \in Nat /\ changes \in Nat

Init ==
  /\ prize = [p \in Prize |-> NoPrize] /\ tickets = {}
  /\ score = [m \in Member |-> 0] /\ finds = [m \in Member |-> 0] /\ active = Member
  /\ best = [m \in Member |-> 0]
  /\ patron = {} /\ lost = {}
  /\ req = [h \in Handler |-> Idle]
  /\ served = 0 /\ changes = 0

Present(p) == prize[p].status \in PrizeStatus

(***************************************************************************)
(* Badges.Evaluate, for PATRON.                                            *)
(***************************************************************************)
Donated_ApprovedOnly(m) == { p \in Prize : prize[p].donor = m /\ prize[p].status = "approved" }

Donated(m) == { p \in Prize : prize[p].donor = m /\ prize[p].status \in {"approved", "awarded"} }

Evaluate(m) ==
  /\ patron' = IF Donated(m) = {} THEN patron ELSE patron \cup {m}
  /\ lost' = lost

(***************************************************************************)
(* What the season does meanwhile: it scores, brings visitors and edits    *)
(* members.  Every such request ends with the member's badges.             *)
(***************************************************************************)
Entitlement(m, s, f, a) == IF m \in a THEN RaffleTickets(s[m], f[m], 0) ELSE 0

Changed(m) ==
  /\ changes < MaxChanges /\ changes' = changes + 1
  /\ best' = [best EXCEPT ![m] = Max2(@, Entitlement(m, score', finds', active'))]
  /\ Evaluate(m)
  /\ UNCHANGED <<prize, tickets, req, served>>

Credit(m, points) ==
  /\ score' = [score EXCEPT ![m] = @ + points]
  /\ UNCHANGED <<finds, active>> /\ Changed(m)

Find(m) ==
  /\ finds' = [finds EXCEPT ![m] = @ + 1]
  /\ UNCHANGED <<score, active>> /\ Changed(m)

SetActive(m, isActive) ==
  /\ active' = IF isActive THEN active \cup {m} ELSE active \ {m}
  /\ UNCHANGED <<score, finds>> /\ Changed(m)

(***************************************************************************)
(* The single statements: Donate, Seed and Delete.                         *)
(***************************************************************************)
Create(p, status, raffled, donor) ==
  /\ prize[p].status = "absent"
  /\ prize' = [prize EXCEPT ![p] = [status |-> status, raffled |-> raffled, donor |-> donor, winner |-> None]]
  /\ UNCHANGED <<tickets, season, badges, req, served, changes>>

Donate(p, raffled, m) == Create(p, "pending", raffled, m)

Seed(p, raffled) == Create(p, "approved", raffled, None)

Delete(p) ==
  /\ Present(p)
  /\ prize' = [prize EXCEPT ![p] = [NoPrize EXCEPT !.status = "deleted"]]
  /\ UNCHANGED <<tickets, season, badges, req, served, changes>>

(***************************************************************************)
(* SetStatus: a read, an unguarded write and the donor's badges.           *)
(***************************************************************************)
Moves(h, r) == req' = [req EXCEPT ![h] = r]

Accept(h, r) ==
  /\ req[h].at = "idle" /\ served < MaxRequests
  /\ Moves(h, r)
  /\ served' = served + 1
  /\ UNCHANGED <<prize, tickets, season, badges, changes>>

(* status = awarded needs a winner, given now or before. *)
HasWinner(p, to, winner) == to = "awarded" => winner # None \/ prize[p].winner # None

ReadStatus(h, p, to, winner) ==
  /\ Present(p) /\ HasWinner(p, to, winner)
  /\ Accept(h, [Idle EXCEPT !.at = "write", !.prize = p, !.donor = prize[p].donor,
                            !.to = to, !.winner = winner])

(* coalesce($2, pemenang_id) *)
WinnerAfter_Overwritten(h) == req[h].winner

WinnerAfter(h) == IF req[h].winner # None THEN req[h].winner ELSE prize[req[h].prize].winner

Evaluates(h) == req[h].donor # None

WriteStatus(h) ==
  /\ req[h].at = "write"
  /\ \/ /\ ~Present(req[h].prize)
        /\ Moves(h, Idle)
        /\ UNCHANGED prize
     \/ /\ Present(req[h].prize)
        /\ prize' = [prize EXCEPT ![req[h].prize].status = req[h].to,
                                  ![req[h].prize].winner = WinnerAfter(h)]
        /\ Moves(h, IF Evaluates(h) THEN [Idle EXCEPT !.at = "badges", !.donor = req[h].donor] ELSE Idle)
  /\ UNCHANGED <<tickets, season, badges, served, changes>>

EvaluateBadges(h) ==
  /\ req[h].at = "badges"
  /\ Evaluate(req[h].donor)
  /\ Moves(h, Idle)
  /\ UNCHANGED <<prize, tickets, season, served, changes>>

(***************************************************************************)
(* Draw: the checks on what it read, then one statement that picks a       *)
(* ticket and writes the winner while there is none.                       *)
(***************************************************************************)
ReadDraw(h, p) ==
  /\ Present(p) /\ prize[p].raffled
  /\ prize[p].winner = None /\ prize[p].status = "approved"
  /\ Accept(h, [Idle EXCEPT !.at = "draw", !.prize = p])

Undrawn_AsRead(p) == Present(p)

Undrawn(p) == Present(p) /\ prize[p].winner = None

DrawWinner(h) ==
  LET p == req[h].prize IN
  /\ req[h].at = "draw"
  /\ \/ /\ ~Undrawn(p) \/ tickets = {}
        /\ UNCHANGED prize
     \/ /\ Undrawn(p)
        /\ \E t \in tickets :
             prize' = [prize EXCEPT ![p].winner = t.member, ![p].status = "awarded"]
  /\ Moves(h, Idle)
  /\ UNCHANGED <<tickets, season, badges, served, changes>>

(***************************************************************************)
(* IssueTickets: one transaction that deletes and inserts.  The DELETE     *)
(* takes the rows it sees when it begins and waits for a transaction that  *)
(* is deleting one of them.                                                *)
(***************************************************************************)
Doomed_None == {}

Doomed == tickets

StartIssue(h) ==
  /\ h \in Issuer
  /\ Accept(h, [Idle EXCEPT !.at = "delete", !.issue = served + 1, !.doomed = Doomed])

DeletedBy(g) == IF req[g].at \in {"insert", "commit"} THEN req[g].doomed ELSE {}

DeleteTickets(h) ==
  /\ req[h].at = "delete"
  /\ \A g \in Handler : DeletedBy(g) \cap req[h].doomed = {}
  /\ Moves(h, [req[h] EXCEPT !.at = "insert", !.doomed = @ \cap tickets])
  /\ UNCHANGED <<prize, tickets, season, badges, served, changes>>

Entitled(i) ==
  UNION { { [issue |-> i, member |-> m, nr |-> n] : n \in 1..Entitlement(m, score, finds, active) } : m \in Member }

InsertTickets(h) ==
  /\ req[h].at = "insert"
  /\ Moves(h, [req[h] EXCEPT !.at = "commit", !.mine = Entitled(req[h].issue)])
  /\ UNCHANGED <<prize, tickets, season, badges, served, changes>>

CommitTickets(h) ==
  /\ req[h].at = "commit"
  /\ tickets' = (tickets \ req[h].doomed) \cup req[h].mine
  /\ Moves(h, Idle)
  /\ UNCHANGED <<prize, season, badges, served, changes>>

(* A request may stop anywhere: an open transaction rolls back, a badge    *)
(* evaluation is lost.                                                     *)
Fail(h) ==
  /\ MayFail /\ req[h].at # "idle"
  /\ lost' = IF req[h].at = "badges" THEN lost \cup {req[h].donor} ELSE lost
  /\ Moves(h, Idle)
  /\ UNCHANGED <<prize, tickets, season, patron, served, changes>>

(***************************************************************************)
(* Specification                                                           *)
(***************************************************************************)
Step(h) ==
  \/ WriteStatus(h) \/ EvaluateBadges(h)
  \/ DrawWinner(h)
  \/ DeleteTickets(h) \/ InsertTickets(h) \/ CommitTickets(h)

Begin(h) ==
  \/ \E p \in Prize, to \in PrizeStatus, winner \in Member \cup {None} : ReadStatus(h, p, to, winner)
  \/ \E p \in Prize : ReadDraw(h, p)
  \/ StartIssue(h)

Season ==
  \E m \in Member :
    \/ \E points \in Points : Credit(m, points)
    \/ Find(m)
    \/ \E isActive \in BOOLEAN : SetActive(m, isActive)

Pool ==
  \E p \in Prize :
    \/ \E raffled \in BOOLEAN, m \in Member : Donate(p, raffled, m)
    \/ \E raffled \in BOOLEAN : Seed(p, raffled)
    \/ Delete(p)

(* No request is open. *)
Quiet == (\A h \in Handler : req[h].at = "idle") /\ UNCHANGED vars

Next ==
  \/ Quiet \/ Season \/ Pool
  \/ \E h \in Handler : Begin(h) \/ Step(h) \/ Fail(h)

Spec == Init /\ [][Next]_vars

(* A request that was accepted keeps running; nobody has to send one. *)
Fairness == \A h \in Handler : WF_vars(Step(h))

FairSpec == Spec /\ Fairness

(***************************************************************************)
(* Properties                                                              *)
(***************************************************************************)

(* An awarded prize has a winner, although SetStatus checks for one on a   *)
(* row it read earlier: a draw, a second moderator and a delete may come   *)
(* in between (usecase/prize.go, SetStatus).                               *)
AwardedHasWinner ==
  \A p \in Prize : prize[p].status = "awarded" => prize[p].winner # None

(* "It is one-way: once a prize has a winner this refuses rather than      *)
(* quietly re-rolling" (usecase/prize.go:141): a winner changes only where *)
(* an admin names another, never by a draw, however stale its checks.      *)
DrawIsOneWay ==
  [][\A p \in Prize :
       prize[p].winner # None /\ prize'[p].winner # prize[p].winner =>
         \/ prize'[p].status = "deleted"
         \/ \E h \in Handler : /\ req[h].at = "write" /\ req[h].prize = p
                               /\ prize'[p].winner = req[h].winner /\ req[h].winner # None]_vars

(* "Rewriting rather than appending keeps the pass re-runnable without     *)
(* inflating anyone's odds" (usecase/prize.go:203): nobody holds more      *)
(* tickets than the most that member was ever entitled to.  It holds while *)
(* one organiser at a time issues tickets.                                 *)
OddsNotInflated ==
  \A m \in Member : Cardinality({ t \in tickets : t.member = m }) <= best[m]

(* The donor of an approved donation holds PATRON in the end, also when a  *)
(* draw awards the prize before the badge is evaluated, unless the         *)
(* approval is taken back or the evaluation itself was lost.               *)
PatronAwarded ==
  \A p \in Prize, m \in Member :
    (prize[p].donor = m /\ prize[p].status \in {"approved", "awarded"})
      ~> (m \in patron \/ m \in lost \/ prize[p].status \notin {"approved", "awarded"})
=============================================================================
