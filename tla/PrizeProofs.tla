---------------------------- MODULE PrizeProofs ----------------------------
(***************************************************************************)
(* Proofs about the prize pool, for any number of prizes, members,         *)
(* concurrent requests and requests in all, whether they stop or not.      *)
(***************************************************************************)
EXTENDS Prize, FiniteSetTheorems, TLAPS

USE NoneAssumption, IssuerAssumption, PointsAssumption

(***************************************************************************)
(* A moderator may award a prize without naming a winner because the row   *)
(* read had one.  That row may be deleted meanwhile, but a winner is never *)
(* taken away from a prize that stays.                                     *)
(***************************************************************************)
AwardBacked(r) ==
  r.at = "write" =>
    /\ r.prize \in Prize /\ prize[r.prize].status # "absent"
    /\ Present(r.prize) /\ r.to = "awarded" /\ r.winner = None => prize[r.prize].winner # None

AwardsBacked == \A h \in Handler : AwardBacked(req[h])

(* What a request that is past its checks relies on. *)
Targets(r) ==
  /\ r.at \in {"write", "draw"} => r.prize \in Prize
  /\ r.at = "badges" => r.donor \in Member

Targeted == \A h \in Handler : Targets(req[h])

(* A prize that is still to be created has no winner. *)
Blank == \A p \in Prize : prize[p].status = "absent" => prize[p].winner = None

IInv == TypeOK /\ Targeted /\ AwardsBacked /\ AwardedHasWinner /\ Blank

(***************************************************************************)
(* Types                                                                   *)
(***************************************************************************)

(* A member is entitled to a number of tickets. *)
LEMMA EntitlementNat ==
  ASSUME NEW m \in Member, NEW s \in [Member -> Int], NEW f \in [Member -> Nat], NEW a
  PROVE  Entitlement(m, s, f, a) \in Nat
<1>1. Max2(s[m], 0) \in Nat
  BY DEF Max2
<1>2. Max2(s[m], 0) \div 100 \in Nat
  BY <1>1
<1>3. f[m] \in Nat
  OBVIOUS
<1>4. QED
  BY <1>2, <1>3 DEF Entitlement, RaffleTickets

LEMMA IdleOK == Idle \in Request /\ Idle.at = "idle" /\ Targets(Idle) /\ AwardBacked(Idle)
BY DEF Idle, Request, PrizeStatus, Targets, AwardBacked

(* A handler that moves on to a request of the right type, which relies    *)
(* on nothing that is missing, keeps the requests well formed.             *)
LEMMA MoveOK ==
  ASSUME TypeOK, Targeted, NEW h \in Handler, NEW r \in Request, Targets(r), Moves(h, r)
  PROVE  req' \in [Handler -> Request] /\ Targeted'
<1>1. req' = [req EXCEPT ![h] = r] /\ req \in [Handler -> Request]
  BY DEF Moves, TypeOK
<1>2. \A g \in Handler : req'[g] = IF g = h THEN r ELSE req[g]
  BY <1>1
<1>3. \A g \in Handler : Targets(req'[g])
  BY <1>2 DEF Targeted
<1>4. QED
  BY <1>1, <1>3 DEF Targeted, Targets

(* While the prize pool stays as it is, moving on to a backed request      *)
(* keeps every award backed.                                               *)
LEMMA MoveBacked ==
  ASSUME TypeOK, AwardsBacked, NEW h \in Handler, NEW r, AwardBacked(r), Moves(h, r),
         UNCHANGED prize
  PROVE  AwardsBacked'
<1>1. \A g \in Handler : req'[g] = IF g = h THEN r ELSE req[g]
  BY DEF Moves, TypeOK
<1>2. \A g \in Handler : AwardBacked(req'[g])
  BY <1>1 DEF AwardsBacked
<1>3. QED
  BY <1>2 DEF AwardsBacked, AwardBacked, Present

(* A pool in which no prize comes back and none loses its winner keeps     *)
(* every award backed.                                                     *)
LEMMA PoolBacked ==
  ASSUME TypeOK, AwardsBacked, NEW h \in Handler, NEW r, r.at # "write", Moves(h, r),
         \A p \in Prize : prize[p].status # "absent" =>
            /\ prize'[p].status # "absent"
            /\ Present(p)' => Present(p)
            /\ Present(p)' /\ prize[p].winner # None => prize'[p].winner # None
  PROVE  AwardsBacked'
<1>1. \A g \in Handler : req'[g] = IF g = h THEN r ELSE req[g]
  BY DEF Moves, TypeOK
<1>2. SUFFICES ASSUME NEW g \in Handler PROVE AwardBacked(req[g])' 
  BY DEF AwardsBacked
<1>3. CASE g = h
  BY <1>1, <1>3 DEF AwardBacked
<1>4. CASE g # h
  <2>1. req'[g] = req[g] /\ AwardBacked(req[g])
    BY <1>1, <1>4 DEF AwardsBacked
  <2>2. QED
    BY <2>1 DEF AwardBacked, Present
<1>5. QED
  BY <1>3, <1>4

LEMMA InitOK == Init => IInv
<1> SUFFICES ASSUME Init PROVE IInv
  OBVIOUS
<1>1. NoPrize \in PrizeRow
  BY DEF NoPrize, PrizeRow
<1>2. TypeOK
  BY <1>1, IdleOK DEF Init, TypeOK
<1>3. Targeted /\ AwardsBacked
  BY IdleOK DEF Init, Targeted, AwardsBacked
<1>4. AwardedHasWinner /\ Blank
  BY DEF Init, AwardedHasWinner, Blank, NoPrize
<1>5. QED
  BY <1>2, <1>3, <1>4 DEF IInv

(***************************************************************************)
(* Steps                                                                   *)
(***************************************************************************)

(* Other requests that finish evaluate badges of members only. *)
LEMMA EvaluateOK ==
  ASSUME TypeOK, NEW m \in Member, Evaluate(m)
  PROVE  patron' \subseteq Member /\ lost' \subseteq Member
BY DEF Evaluate, TypeOK

LEMMA SeasonOK == ASSUME IInv, Season PROVE IInv'
<1>1. PICK m \in Member : \/ \E points \in Points : Credit(m, points)
                          \/ Find(m)
                          \/ \E isActive \in BOOLEAN : SetActive(m, isActive)
  BY DEF Season
<1>2. TypeOK /\ Targeted /\ AwardsBacked /\ AwardedHasWinner /\ Blank
  BY DEF IInv
<1>3. /\ Changed(m)
      /\ score' \in [Member -> Int] /\ finds' \in [Member -> Nat] /\ active' \subseteq Member
  BY <1>1, <1>2 DEF Credit, Find, SetActive, TypeOK
<1>4. Entitlement(m, score', finds', active') \in Nat
  BY <1>3, EntitlementNat
<1>5. Max2(best[m], Entitlement(m, score', finds', active')) \in Nat
  BY <1>2, <1>4 DEF Max2, TypeOK
<1>6. best' \in [Member -> Nat]
  BY <1>2, <1>3, <1>5 DEF Changed, TypeOK
<1>7. patron' \subseteq Member /\ lost' \subseteq Member
  BY <1>2, <1>3, EvaluateOK DEF Changed
<1>8. TypeOK'
  BY <1>2, <1>3, <1>6, <1>7 DEF Changed, TypeOK
<1>9. UNCHANGED <<prize, req>>
  BY <1>3 DEF Changed
<1>10. Targeted' /\ AwardsBacked' /\ AwardedHasWinner' /\ Blank'
  BY <1>2, <1>9 DEF Blank, Targeted, Targets, AwardsBacked, AwardBacked, AwardedHasWinner, Present
<1>11. QED
  BY <1>8, <1>10 DEF IInv

(* A single statement on the pool: it starts a prize or deletes one. *)
LEMMA PoolStepOK ==
  ASSUME IInv, NEW p \in Prize, NEW row \in PrizeRow, prize' = [prize EXCEPT ![p] = row],
         UNCHANGED <<tickets, season, badges, req, served, changes>>,
         row.status # "awarded", row.status # "absent",
         row.status = "deleted" \/ prize[p].status = "absent"
  PROVE  IInv'
<1>1. TypeOK /\ Targeted /\ AwardsBacked /\ AwardedHasWinner /\ Blank
  BY DEF IInv
<1>2. \A q \in Prize : prize'[q] = IF q = p THEN row ELSE prize[q]
  BY <1>1 DEF TypeOK
<1>3. TypeOK'
  BY <1>1 DEF TypeOK, season, badges
<1>4. Targeted'
  BY <1>1 DEF Targeted, Targets
<1>5. AwardsBacked'
  <2>1. SUFFICES ASSUME NEW h \in Handler PROVE AwardBacked(req[h])'
    BY DEF AwardsBacked
  <2>2. AwardBacked(req[h]) /\ req' = req
    BY <1>1 DEF AwardsBacked
  <2>3. QED
    BY <1>2, <2>2 DEF AwardBacked, Present, PrizeStatus
<1>6. AwardedHasWinner' /\ Blank'
  BY <1>1, <1>2 DEF AwardedHasWinner, Blank
<1>7. QED
  BY <1>3, <1>4, <1>5, <1>6 DEF IInv

LEMMA PoolOK == ASSUME IInv, Pool PROVE IInv'
<1>1. PICK p \in Prize : \/ \E raffled \in BOOLEAN, m \in Member : Donate(p, raffled, m)
                         \/ \E raffled \in BOOLEAN : Seed(p, raffled)
                         \/ Delete(p)
  BY DEF Pool
<1>2. CASE \E raffled \in BOOLEAN, m \in Member : Donate(p, raffled, m)
  <2>1. PICK raffled \in BOOLEAN, m \in Member : Create(p, "pending", raffled, m)
    BY <1>2 DEF Donate
  <2> DEFINE row == [status |-> "pending", raffled |-> raffled, donor |-> m, winner |-> None]
  <2>2. row \in PrizeRow /\ row.status = "pending"
    BY DEF PrizeRow, PrizeStatus
  <2>3. QED
    BY <2>1, <2>2, PoolStepOK DEF Create
<1>3. CASE \E raffled \in BOOLEAN : Seed(p, raffled)
  <2>1. PICK raffled \in BOOLEAN : Create(p, "approved", raffled, None)
    BY <1>3 DEF Seed
  <2> DEFINE row == [status |-> "approved", raffled |-> raffled, donor |-> None, winner |-> None]
  <2>2. row \in PrizeRow /\ row.status = "approved"
    BY DEF PrizeRow, PrizeStatus
  <2>3. QED
    BY <2>1, <2>2, PoolStepOK DEF Create
<1>4. CASE Delete(p)
  <2> DEFINE row == [NoPrize EXCEPT !.status = "deleted"]
  <2>1. row \in PrizeRow /\ row.status = "deleted"
    BY DEF NoPrize, PrizeRow
  <2>2. QED
    BY <1>4, <2>1, PoolStepOK DEF Delete
<1>5. QED
  BY <1>1, <1>2, <1>3, <1>4

(* A step that only moves a handler on. *)
LEMMA MoveStepOK ==
  ASSUME IInv, NEW h \in Handler, NEW r \in Request, Targets(r), AwardBacked(r), Moves(h, r),
         UNCHANGED <<prize, season>>, tickets' \subseteq Ticket, served' \in Nat, changes' = changes,
         patron' \subseteq Member, lost' \subseteq Member
  PROVE  IInv'
<1>1. TypeOK /\ Targeted /\ AwardsBacked /\ AwardedHasWinner /\ Blank
  BY DEF IInv
<1>2. req' \in [Handler -> Request] /\ Targeted'
  BY <1>1, MoveOK
<1>3. AwardsBacked'
  BY <1>1, MoveBacked
<1>4. TypeOK'
  BY <1>1, <1>2 DEF TypeOK, season
<1>5. AwardedHasWinner' /\ Blank'
  BY <1>1 DEF AwardedHasWinner, Blank
<1>6. QED
  BY <1>2, <1>3, <1>4, <1>5 DEF IInv

LEMMA AcceptOK ==
  ASSUME IInv, NEW h \in Handler, NEW r \in Request, Targets(r), AwardBacked(r), Accept(h, r)
  PROVE  IInv'
<1>1. TypeOK
  BY DEF IInv
<1>2. /\ Moves(h, r) /\ UNCHANGED <<prize, season>> /\ changes' = changes
      /\ tickets' = tickets /\ patron' = patron /\ lost' = lost /\ served' = served + 1
  BY DEF Accept, badges
<1>3. tickets' \subseteq Ticket /\ patron' \subseteq Member /\ lost' \subseteq Member /\ served' \in Nat
  BY <1>1, <1>2 DEF TypeOK
<1>4. QED
  BY <1>2, <1>3, MoveStepOK

LEMMA BeginOK == ASSUME IInv, NEW h \in Handler, Begin(h) PROVE IInv'
<1>1. TypeOK
  BY DEF IInv
<1>2. CASE \E p \in Prize, to \in PrizeStatus, winner \in Member \cup {None} : ReadStatus(h, p, to, winner)
  <2>1. PICK p \in Prize, to \in PrizeStatus, winner \in Member \cup {None} : ReadStatus(h, p, to, winner)
    BY <1>2
  <2> DEFINE r == [Idle EXCEPT !.at = "write", !.prize = p, !.donor = prize[p].donor,
                               !.to = to, !.winner = winner]
  <2>2. prize[p] \in PrizeRow
    BY <1>1 DEF TypeOK
  <2>3. prize[p].donor \in Member \cup {None}
    BY <2>2 DEF PrizeRow
  <2>4. r \in Request /\ r.at = "write" /\ r.prize = p /\ r.to = to /\ r.winner = winner
    BY <2>3 DEF Idle, Request
  <2>5. Targets(r)
    BY <2>4 DEF Targets
  <2>6. AwardBacked(r)
    BY <2>1, <2>4 DEF ReadStatus, HasWinner, AwardBacked, Present, PrizeStatus
  <2>7. Accept(h, r)
    BY <2>1 DEF ReadStatus
  <2>8. QED
    BY <2>4, <2>5, <2>6, <2>7, AcceptOK
<1>3. CASE \E p \in Prize : ReadDraw(h, p)
  <2>1. PICK p \in Prize : ReadDraw(h, p)
    BY <1>3
  <2> DEFINE r == [Idle EXCEPT !.at = "draw", !.prize = p]
  <2>2. r \in Request /\ r.at = "draw" /\ r.prize = p
    BY IdleOK DEF Idle, Request, PrizeStatus
  <2>3. Targets(r) /\ AwardBacked(r)
    BY <2>2 DEF Targets, AwardBacked
  <2>4. Accept(h, r)
    BY <2>1 DEF ReadDraw
  <2>5. QED
    BY <2>2, <2>3, <2>4, AcceptOK
<1>4. CASE StartIssue(h)
  <2> DEFINE r == [Idle EXCEPT !.at = "delete", !.issue = served + 1, !.doomed = Doomed]
  <2>1. served + 1 \in Nat /\ Doomed \in SUBSET Ticket
    BY <1>1 DEF TypeOK, Doomed
  <2>2. r \in Request /\ r.at = "delete"
    BY <2>1 DEF Idle, Request, PrizeStatus
  <2>3. Targets(r) /\ AwardBacked(r)
    BY <2>2 DEF Targets, AwardBacked
  <2>4. Accept(h, r)
    BY <1>4 DEF StartIssue
  <2>5. QED
    BY <2>2, <2>3, <2>4, AcceptOK
<1>5. QED
  BY <1>2, <1>3, <1>4 DEF Begin

(* The winner a moderator's write leaves behind. *)
LEMMA WinnerKept ==
  ASSUME TypeOK, NEW h \in Handler, req[h].prize \in Prize
  PROVE  /\ WinnerAfter(h) \in Member \cup {None}
         /\ prize[req[h].prize].winner # None => WinnerAfter(h) # None
         /\ req[h].winner # None => WinnerAfter(h) = req[h].winner
         /\ req[h].winner = None => WinnerAfter(h) = prize[req[h].prize].winner
<1>1. req[h] \in Request /\ prize[req[h].prize] \in PrizeRow
  BY DEF TypeOK
<1>2. req[h].winner \in Member \cup {None} /\ prize[req[h].prize].winner \in Member \cup {None}
  BY <1>1 DEF Request, PrizeRow
<1>3. QED
  BY <1>2 DEF WinnerAfter

(* A write to a prize that is there, which keeps a winner once it has one. *)
LEMMA WriteOK ==
  ASSUME IInv, NEW h \in Handler, NEW r \in Request, Targets(r), r.at # "write", Moves(h, r),
         NEW p \in Prize, Present(p), NEW status \in PrizeStatus, NEW winner \in Member \cup {None},
         prize' = [prize EXCEPT ![p].status = status, ![p].winner = winner],
         prize[p].winner # None => winner # None,
         status = "awarded" => winner # None,
         UNCHANGED <<tickets, season, badges, served, changes>>
  PROVE  IInv'
<1>1. TypeOK /\ Targeted /\ AwardsBacked /\ AwardedHasWinner /\ Blank
  BY DEF IInv
<1>2. prize[p] \in PrizeRow
  BY <1>1 DEF TypeOK
<1>3. [prize[p] EXCEPT !.status = status, !.winner = winner] \in PrizeRow
  BY <1>2 DEF PrizeRow
<1>4. prize' = [prize EXCEPT ![p] = [prize[p] EXCEPT !.status = status, !.winner = winner]]
  BY <1>1, <1>2 DEF TypeOK, PrizeRow
<1>5. prize' \in [Prize -> PrizeRow]
  BY <1>1, <1>3, <1>4 DEF TypeOK
<1>6. /\ \A q \in Prize : q # p => prize'[q] = prize[q]
      /\ prize'[p].status = status /\ prize'[p].winner = winner
  BY <1>1, <1>2, <1>4 DEF TypeOK, PrizeRow
<1>7. req' \in [Handler -> Request] /\ Targeted'
  BY <1>1, MoveOK
<1>8. TypeOK'
  BY <1>1, <1>5, <1>7 DEF TypeOK, season, badges
<1>9. AwardsBacked'
  <2>1. \A q \in Prize : prize[q].status # "absent" =>
            /\ prize'[q].status # "absent"
            /\ Present(q)' => Present(q)
            /\ Present(q)' /\ prize[q].winner # None => prize'[q].winner # None
    BY <1>6 DEF Present, PrizeStatus
  <2>2. QED
    BY <1>1, <2>1, PoolBacked
<1>10. AwardedHasWinner' /\ Blank'
  BY <1>1, <1>6 DEF AwardedHasWinner, Blank, PrizeStatus
<1>11. QED
  BY <1>7, <1>8, <1>9, <1>10 DEF IInv

LEMMA WriteStatusOK == ASSUME IInv, NEW h \in Handler, WriteStatus(h) PROVE IInv'
<1>1. TypeOK /\ Targeted /\ AwardsBacked
  BY DEF IInv
<1>2. req[h] \in Request /\ req[h].at = "write"
  BY <1>1 DEF TypeOK, WriteStatus
<1>3. req[h].prize \in Prize /\ req[h].to \in PrizeStatus /\ req[h].donor \in Member \cup {None}
  BY <1>1, <1>2 DEF Targeted, Targets, Request
<1>4. UNCHANGED <<tickets, season, badges, served, changes>>
  BY DEF WriteStatus
<1>5. CASE ~Present(req[h].prize)
  <2>1. Moves(h, Idle) /\ prize' = prize
    BY <1>5 DEF WriteStatus
  <2>2. tickets' \subseteq Ticket /\ patron' \subseteq Member /\ lost' \subseteq Member /\ served' \in Nat
    BY <1>1, <1>4 DEF TypeOK, badges
  <2>3. QED
    BY <1>4, <2>1, <2>2, IdleOK, MoveStepOK
<1>6. CASE Present(req[h].prize)
  <2> DEFINE r == IF Evaluates(h) THEN [Idle EXCEPT !.at = "badges", !.donor = req[h].donor] ELSE Idle
  <2>1. /\ prize' = [prize EXCEPT ![req[h].prize].status = req[h].to,
                                  ![req[h].prize].winner = WinnerAfter(h)]
        /\ Moves(h, r)
    BY <1>6 DEF WriteStatus
  <2>2. r \in Request /\ Targets(r) /\ r.at # "write"
    <3>1. CASE Evaluates(h)
      <4> DEFINE b == [Idle EXCEPT !.at = "badges", !.donor = req[h].donor]
      <4>1. b \in Request /\ b.at = "badges" /\ b.donor = req[h].donor
        BY <1>3 DEF Idle, Request, PrizeStatus
      <4>2. QED
        BY <1>3, <3>1, <4>1 DEF Evaluates, Targets
    <3>2. CASE ~Evaluates(h)
      BY <3>2, IdleOK
    <3>3. QED
      BY <3>1, <3>2
  <2>3. /\ WinnerAfter(h) \in Member \cup {None}
        /\ prize[req[h].prize].winner # None => WinnerAfter(h) # None
        /\ req[h].winner # None => WinnerAfter(h) # None
    BY <1>1, <1>3, WinnerKept
  <2>4. req[h].to = "awarded" => WinnerAfter(h) # None
    <3>1. AwardBacked(req[h])
      BY <1>1 DEF AwardsBacked
    <3>2. QED
      BY <1>2, <1>6, <2>3, <3>1 DEF AwardBacked
  <2>5. QED
    BY <1>3, <1>4, <1>6, <2>1, <2>2, <2>3, <2>4, WriteOK
<1>7. QED
  BY <1>5, <1>6

LEMMA DrawWinnerOK == ASSUME IInv, NEW h \in Handler, DrawWinner(h) PROVE IInv'
<1>1. TypeOK /\ Targeted /\ AwardsBacked
  BY DEF IInv
<1> DEFINE p == req[h].prize
<1>2. p \in Prize
  BY <1>1 DEF Targeted, Targets, DrawWinner
<1>3. Moves(h, Idle) /\ UNCHANGED <<tickets, season, badges, served, changes>>
  BY DEF DrawWinner
<1>4. CASE prize' = prize
  <2>1. tickets' \subseteq Ticket /\ patron' \subseteq Member /\ lost' \subseteq Member /\ served' \in Nat
    BY <1>1, <1>3 DEF TypeOK, badges
  <2>2. QED
    BY <1>3, <1>4, <2>1, IdleOK, MoveStepOK
<1>5. CASE Undrawn(p) /\ \E t \in tickets :
             prize' = [prize EXCEPT ![p].winner = t.member, ![p].status = "awarded"]
  <2>1. PICK t \in tickets : prize' = [prize EXCEPT ![p].winner = t.member, ![p].status = "awarded"]
    BY <1>5
  <2>2. t.member \in Member
    BY <1>1 DEF TypeOK, Ticket
  <2>3. prize[p] \in PrizeRow
    BY <1>1, <1>2 DEF TypeOK
  <2>4. prize' = [prize EXCEPT ![p].status = "awarded", ![p].winner = t.member]
    BY <1>1, <1>2, <2>1, <2>3 DEF TypeOK, PrizeRow
  <2>5. t.member # None /\ Present(p) /\ "awarded" \in PrizeStatus
    BY <1>5, <2>2 DEF Undrawn, PrizeStatus
  <2>6. QED
    BY <1>2, <1>3, <2>2, <2>4, <2>5, IdleOK, WriteOK
<1>6. QED
  BY <1>4, <1>5 DEF DrawWinner

(* The remaining steps leave the pool alone. *)
LEMMA TicketStepOK ==
  ASSUME IInv, NEW h \in Handler,
         EvaluateBadges(h) \/ DeleteTickets(h) \/ InsertTickets(h) \/ CommitTickets(h) \/ Fail(h)
  PROVE  IInv'
<1>1. TypeOK /\ Targeted
  BY DEF IInv
<1>2. req[h] \in Request
  BY <1>1 DEF TypeOK
<1>3. tickets \subseteq Ticket /\ patron \subseteq Member /\ lost \subseteq Member /\ served \in Nat
  BY <1>1 DEF TypeOK
<1>4. CASE EvaluateBadges(h)
  <2>1. req[h].donor \in Member
    BY <1>1, <1>4 DEF Targeted, Targets, EvaluateBadges
  <2>2. patron' \subseteq Member /\ lost' \subseteq Member
    BY <1>1, <1>4, <2>1, EvaluateOK DEF EvaluateBadges
  <2>3. QED
    BY <1>3, <1>4, <2>2, IdleOK, MoveStepOK DEF EvaluateBadges
<1>5. CASE DeleteTickets(h)
  <2> DEFINE r == [req[h] EXCEPT !.at = "insert", !.doomed = @ \cap tickets]
  <2>1. r \in Request /\ r.at = "insert"
    BY <1>2 DEF Request
  <2>2. Targets(r) /\ AwardBacked(r)
    BY <2>1 DEF Targets, AwardBacked
  <2>3. Moves(h, r) /\ UNCHANGED <<prize, tickets, season, badges, served, changes>>
    BY <1>5 DEF DeleteTickets
  <2>4. QED
    BY <1>3, <2>1, <2>2, <2>3, MoveStepOK DEF badges
<1>6. CASE InsertTickets(h)
  <2> DEFINE r == [req[h] EXCEPT !.at = "commit", !.mine = Entitled(req[h].issue)]
  <2>1. req[h].issue \in Nat
    BY <1>2 DEF Request
  <2>2. \A m \in Member : 1..Entitlement(m, score, finds, active) \subseteq Nat
    BY <1>1, EntitlementNat DEF TypeOK
  <2>3. Entitled(req[h].issue) \in SUBSET Ticket
    BY <2>1, <2>2 DEF Entitled, Ticket
  <2>4. r \in Request /\ r.at = "commit"
    BY <1>2, <2>3 DEF Request
  <2>5. Targets(r) /\ AwardBacked(r)
    BY <2>4 DEF Targets, AwardBacked
  <2>6. Moves(h, r) /\ UNCHANGED <<prize, tickets, season, badges, served, changes>>
    BY <1>6 DEF InsertTickets
  <2>7. QED
    BY <1>3, <2>4, <2>5, <2>6, MoveStepOK DEF badges
<1>7. CASE CommitTickets(h)
  <2>1. req[h].mine \subseteq Ticket
    BY <1>2 DEF Request
  <2>2. tickets' \subseteq Ticket
    BY <1>3, <1>7, <2>1 DEF CommitTickets
  <2>3. Moves(h, Idle) /\ UNCHANGED <<prize, season, badges, served, changes>>
    BY <1>7 DEF CommitTickets
  <2>4. QED
    BY <1>3, <2>2, <2>3, IdleOK, MoveStepOK DEF badges
<1>8. CASE Fail(h)
  <2>1. req[h].at = "badges" => req[h].donor \in Member
    BY <1>1 DEF Targeted, Targets
  <2>2. lost' \subseteq Member /\ patron' \subseteq Member
    BY <1>3, <1>8, <2>1 DEF Fail
  <2>3. Moves(h, Idle) /\ UNCHANGED <<prize, tickets, season, served, changes>>
    BY <1>8 DEF Fail
  <2>4. QED
    BY <1>3, <2>2, <2>3, IdleOK, MoveStepOK
<1>9. QED
  BY <1>4, <1>5, <1>6, <1>7, <1>8

LEMMA NextOK == IInv /\ [Next]_vars => IInv'
<1>1. ASSUME IInv, UNCHANGED vars PROVE IInv'
  <2>1. UNCHANGED <<prize, tickets, season, badges, req, served, changes>>
    BY <1>1 DEF vars
  <2>2. QED
    BY <1>1, <2>1 DEF IInv, TypeOK, Targeted, Targets, AwardsBacked, AwardBacked, AwardedHasWinner,
                      Blank, Present, season, badges
<1>2. ASSUME IInv, Next PROVE IInv'
  <2>1. CASE Quiet
    BY <1>1, <1>2, <2>1 DEF Quiet
  <2>2. CASE Season
    BY <1>2, <2>2, SeasonOK
  <2>3. CASE Pool
    BY <1>2, <2>3, PoolOK
  <2>4. CASE \E h \in Handler : Begin(h) \/ Step(h) \/ Fail(h)
    <3>1. PICK h \in Handler : Begin(h) \/ Step(h) \/ Fail(h)
      BY <2>4
    <3>2. CASE Begin(h)
      BY <1>2, <3>2, BeginOK
    <3>3. CASE WriteStatus(h)
      BY <1>2, <3>3, WriteStatusOK
    <3>4. CASE DrawWinner(h)
      BY <1>2, <3>4, DrawWinnerOK
    <3>5. CASE EvaluateBadges(h) \/ DeleteTickets(h) \/ InsertTickets(h) \/ CommitTickets(h) \/ Fail(h)
      BY <1>2, <3>5, TicketStepOK
    <3>6. QED
      BY <3>1, <3>2, <3>3, <3>4, <3>5 DEF Step
  <2>5. QED
    BY <1>2, <2>1, <2>2, <2>3, <2>4 DEF Next
<1>3. QED
  BY <1>1, <1>2

(***************************************************************************)
(* Theorems                                                                *)
(***************************************************************************)

LEMMA IInvHolds == Spec => []IInv
BY InitOK, NextOK, PTL DEF Spec

(* The prize pool, its tickets and every open request stay well formed.    *)
THEOREM TypesHold == Spec => []TypeOK
<1>1. IInv => TypeOK
  BY DEF IInv
<1>2. QED
  BY <1>1, IInvHolds, PTL

(* No interleaving of moderators, draws and deletions leaves a prize       *)
(* awarded to nobody: the check in SetStatus is sound although it is made  *)
(* on a row that may be stale when it is written.                          *)
THEOREM AwardsHaveWinners == Spec => []AwardedHasWinner
<1>1. IInv => AwardedHasWinner
  BY DEF IInv
<1>2. QED
  BY <1>1, IInvHolds, PTL

(* Only a write that names another winner changes the winner of a prize.   *)
LEMMA WinnerMoves ==
  ASSUME IInv, [Next]_vars, NEW p \in Prize,
         prize[p].winner # None, prize'[p].winner # prize[p].winner
  PROVE  \/ prize'[p].status = "deleted"
         \/ \E h \in Handler : /\ req[h].at = "write" /\ req[h].prize = p
                               /\ prize'[p].winner = req[h].winner /\ req[h].winner # None
<1>1. TypeOK /\ Targeted /\ Blank
  BY DEF IInv
<1>2. prize \in [Prize -> PrizeRow] /\ prize[p] \in PrizeRow /\ prize' # prize
  BY <1>1 DEF TypeOK
<1>3. CASE \E q \in Prize, status \in PrizeStatus, raffled \in BOOLEAN, donor \in Member \cup {None} :
             Create(q, status, raffled, donor)
  <2>1. PICK q \in Prize : prize[q].status = "absent" /\ \A o \in Prize : o # q => prize'[o] = prize[o]
    BY <1>2, <1>3 DEF Create
  <2>2. QED
    BY <1>1, <2>1 DEF Blank
<1>4. CASE \E q \in Prize : Delete(q)
  <2>1. PICK q \in Prize : prize' = [prize EXCEPT ![q] = [NoPrize EXCEPT !.status = "deleted"]]
    BY <1>4 DEF Delete
  <2>2. [NoPrize EXCEPT !.status = "deleted"].status = "deleted"
    BY DEF NoPrize
  <2>3. QED
    BY <1>2, <2>1, <2>2
<1>5. CASE \E h \in Handler : WriteStatus(h)
  <2>1. PICK h \in Handler : WriteStatus(h)
    BY <1>5
  <2>2. req[h].prize \in Prize
    BY <1>1, <2>1 DEF Targeted, Targets, WriteStatus
  <2>3. prize' = [prize EXCEPT ![req[h].prize].status = req[h].to,
                              ![req[h].prize].winner = WinnerAfter(h)]
    BY <1>2, <2>1 DEF WriteStatus
  <2>4. req[h].prize = p /\ prize'[p].winner = WinnerAfter(h)
    BY <1>2, <2>2, <2>3 DEF PrizeRow
  <2>5. req[h].winner # None /\ WinnerAfter(h) = req[h].winner
    BY <1>1, <2>2, <2>4, WinnerKept
  <2>6. QED
    BY <2>1, <2>4, <2>5 DEF WriteStatus
<1>6. CASE \E h \in Handler : DrawWinner(h)
  <2>1. PICK h \in Handler : DrawWinner(h)
    BY <1>6
  <2>2. Undrawn(req[h].prize) /\ req[h].prize \in Prize
    BY <1>1, <1>2, <2>1 DEF DrawWinner, Targeted, Targets
  <2>3. req[h].prize # p
    BY <2>2 DEF Undrawn
  <2>4. prize'[p] = prize[p]
    BY <1>2, <2>1, <2>3 DEF DrawWinner
  <2>5. QED
    BY <2>4
<1>7. CASE Season \/ (\E h \in Handler : \/ Begin(h) \/ EvaluateBadges(h) \/ DeleteTickets(h)
                                        \/ InsertTickets(h) \/ CommitTickets(h) \/ Fail(h))
  <2>1. Season => prize' = prize
    BY DEF Season, Credit, Find, SetActive, Changed
  <2>2. ASSUME NEW h \in Handler, Begin(h) PROVE prize' = prize
    BY <2>2 DEF Begin, ReadStatus, ReadDraw, StartIssue, Accept
  <2>3. ASSUME NEW h \in Handler,
               EvaluateBadges(h) \/ DeleteTickets(h) \/ InsertTickets(h) \/ CommitTickets(h) \/ Fail(h)
        PROVE  prize' = prize
    BY <2>3 DEF EvaluateBadges, DeleteTickets, InsertTickets, CommitTickets, Fail
  <2>4. QED
    BY <1>2, <1>7, <2>1, <2>2, <2>3
<1>8. CASE UNCHANGED vars
  BY <1>2, <1>8 DEF vars
<1>9. Pool => \/ \E q \in Prize, status \in PrizeStatus, raffled \in BOOLEAN, donor \in Member \cup {None} :
                   Create(q, status, raffled, donor)
              \/ \E q \in Prize : Delete(q)
  BY DEF Pool, Donate, Seed, PrizeStatus
<1>10. Next => Season \/ Pool \/ UNCHANGED vars \/ (\E h \in Handler : Begin(h) \/ Step(h) \/ Fail(h))
  BY DEF Next, Quiet
<1>11. CASE Pool
  BY <1>3, <1>4, <1>9, <1>11
<1>12. CASE \E h \in Handler : Begin(h) \/ Step(h) \/ Fail(h)
  BY <1>5, <1>6, <1>7, <1>12 DEF Step
<1>13. QED
  BY <1>7, <1>8, <1>10, <1>11, <1>12

(* A draw never replaces a winner: the guard is in the statement itself,   *)
(* so two draws of one prize, however they interleave, give one result.    *)
THEOREM DrawsAreOneWay == Spec => DrawIsOneWay
<1>1. IInv /\ [Next]_vars =>
        [\A p \in Prize :
           prize[p].winner # None /\ prize'[p].winner # prize[p].winner =>
             \/ prize'[p].status = "deleted"
             \/ \E h \in Handler : /\ req[h].at = "write" /\ req[h].prize = p
                                   /\ prize'[p].winner = req[h].winner /\ req[h].winner # None]_vars
  BY WinnerMoves
<1>2. QED
  BY <1>1, IInvHolds, PTL DEF Spec, DrawIsOneWay

(***************************************************************************)
(* Tickets                                                                 *)
(***************************************************************************)

TicketsOf(m, s) == { t \in s : t.member = m }

(* No member holds more of the tickets s than that member was ever         *)
(* entitled to.                                                            *)
Fair(s) == \A m \in Member : IsFiniteSet(TicketsOf(m, s)) /\ Cardinality(TicketsOf(m, s)) <= best[m]

(* The one request that may issue tickets deletes all there are, and       *)
(* inserts no more than its members are entitled to.                       *)
IssueSound(r) ==
  /\ r.at \in {"delete", "insert", "commit"} => r.doomed = tickets
  /\ r.at = "commit" => Fair(r.mine)

Odds ==
  /\ \A h \in Handler : req[h].at \in {"delete", "insert", "commit"} => h \in Issuer
  /\ \A h \in Handler : IssueSound(req[h])
  /\ \A m \in Member : Entitlement(m, score, finds, active) <= best[m]
  /\ Fair(tickets)

(* A member who is issued tickets gets as many as that member is entitled  *)
(* to.                                                                     *)
LEMMA EntitledFair ==
  ASSUME TypeOK, NEW i \in Nat, \A m \in Member : Entitlement(m, score, finds, active) <= best[m]
  PROVE  Fair(Entitled(i))
<1> SUFFICES ASSUME NEW m \in Member
             PROVE  /\ IsFiniteSet(TicketsOf(m, Entitled(i)))
                    /\ Cardinality(TicketsOf(m, Entitled(i))) <= best[m]
  BY DEF Fair
<1>1. PICK n : n = Entitlement(m, score, finds, active)
  OBVIOUS
<1>2. n \in Nat /\ n <= best[m] /\ best[m] \in Nat
  BY <1>1, EntitlementNat DEF TypeOK
<1> DEFINE T == { [issue |-> i, member |-> m, nr |-> k] : k \in 1..n }
<1>3. TicketsOf(m, Entitled(i)) = T
  BY <1>1 DEF TicketsOf, Entitled
<1>4. IsFiniteSet(1..n) /\ Cardinality(1..n) = n
  BY <1>2, FS_Interval
<1>5. IsFiniteSet(T) /\ Cardinality(T) <= Cardinality(1..n) /\ Cardinality(T) \in Nat
  <2>1. PICK S : S = 1..n
    OBVIOUS
  <2>2. PICK f : f = [k \in S |-> [issue |-> i, member |-> m, nr |-> k]]
    OBVIOUS
  <2>3. T = { f[k] : k \in S }
    BY <2>1, <2>2
  <2>4. f \in Surjection(S, T)
    BY <2>2, <2>3 DEF Surjection
  <2>5. QED
    BY <1>4, <2>1, <2>4, FS_Surjection, FS_CardinalityType
<1>6. Cardinality(T) <= best[m]
  BY <1>2, <1>4, <1>5
<1>7. QED
  BY <1>3, <1>5, <1>6

(* While entitlements and tickets stand, moving on to a sound request      *)
(* keeps the odds.                                                         *)
LEMMA MoveOdds ==
  ASSUME TypeOK, Odds, NEW h \in Handler, NEW r, Moves(h, r), IssueSound(r),
         r.at \in {"delete", "insert", "commit"} => h \in Issuer,
         UNCHANGED <<tickets, season>>
  PROVE  Odds'
<1>1. \A g \in Handler : req'[g] = IF g = h THEN r ELSE req[g]
  BY DEF Moves, TypeOK
<1>2. \A s : Fair(s) => Fair(s)'
  BY DEF Fair, TicketsOf, season
<1>3. \A q : IssueSound(q) => IssueSound(q)'
  BY <1>2 DEF IssueSound
<1>4. \A g \in Handler : IssueSound(req'[g])
  BY <1>1 DEF Odds
<1>5. ASSUME NEW g \in Handler PROVE IssueSound(req[g])'
  <2>1. PICK q : q = req'[g]
    OBVIOUS
  <2>2. IssueSound(q)'
    BY <1>3, <1>4, <2>1
  <2>3. QED
    BY <2>1, <2>2 DEF IssueSound
<1>6. \A g \in Handler : req'[g].at \in {"delete", "insert", "commit"} => g \in Issuer
  BY <1>1 DEF Odds
<1>7. Fair(tickets)' /\ \A m \in Member : (Entitlement(m, score, finds, active) <= best[m])'
  BY <1>2 DEF Odds, Fair, season, Entitlement
<1>8. QED
  BY <1>5, <1>6, <1>7 DEF Odds

(* The season only raises what a member was ever entitled to, and raises   *)
(* it with every entitlement.                                              *)
LEMMA SeasonOdds ==
  ASSUME TypeOK, Odds, Season
  PROVE  Odds'
<1>1. PICK m \in Member : \/ \E points \in Points : Credit(m, points)
                          \/ Find(m)
                          \/ \E isActive \in BOOLEAN : SetActive(m, isActive)
  BY DEF Season
<1>2. /\ Changed(m)
      /\ score' \in [Member -> Int] /\ finds' \in [Member -> Nat] /\ active' \subseteq Member
  BY <1>1 DEF Credit, Find, SetActive, TypeOK
<1>3. \A n \in Member \ {m} : Entitlement(n, score', finds', active') = Entitlement(n, score, finds, active)
  BY <1>1 DEF Credit, Find, SetActive, TypeOK, Entitlement
<1>4. Entitlement(m, score', finds', active') \in Nat /\ best[m] \in Nat
  BY <1>2, EntitlementNat DEF TypeOK
<1>5. \A n \in Member : best'[n] = IF n = m THEN Max2(best[m], Entitlement(m, score', finds', active')) ELSE best[n]
  BY <1>2 DEF Changed, TypeOK
<1>6. \A n \in Member : best'[n] \in Nat /\ best[n] \in Nat /\ best[n] <= best'[n]
  BY <1>4, <1>5 DEF Max2, TypeOK
<1>7. ASSUME NEW n \in Member PROVE Entitlement(n, score', finds', active') <= best'[n]
  <2>1. CASE n = m
    BY <1>4, <1>5, <2>1 DEF Max2
  <2>2. CASE n # m
    BY <1>3, <1>5, <2>2 DEF Odds
  <2>3. QED
    BY <2>1, <2>2
<1>8. ASSUME NEW s, Fair(s) PROVE Fair(s)'
  <2>1. \A n \in Member : /\ IsFiniteSet(TicketsOf(n, s)) /\ Cardinality(TicketsOf(n, s)) \in Nat
                          /\ Cardinality(TicketsOf(n, s)) <= best[n]
    BY <1>8, FS_CardinalityType DEF Fair
  <2>2. \A n \in Member : Cardinality(TicketsOf(n, s)) <= best'[n]
    BY <1>6, <2>1
  <2>3. QED
    BY <2>1, <2>2 DEF Fair, TicketsOf
<1>9. tickets' = tickets /\ req' = req
  BY <1>2 DEF Changed
<1>10. \A h \in Handler : IssueSound(req[h])'
  BY <1>8, <1>9 DEF Odds, IssueSound
<1>11. Fair(tickets)'
  BY <1>8, <1>9 DEF Odds, Fair
<1>12. \A n \in Member : (Entitlement(n, score, finds, active) <= best[n])'
  BY <1>7 DEF Entitlement
<1>13. QED
  BY <1>9, <1>10, <1>11, <1>12 DEF Odds

(* A commit replaces all the tickets there are: with one issuer nobody     *)
(* else has deleted or inserted any meanwhile.                             *)
LEMMA CommitOdds ==
  ASSUME TypeOK, Odds, NEW only, Issuer = {only}, NEW h \in Handler, CommitTickets(h)
  PROVE  Odds'
<1>1. h = only /\ req[h].doomed = tickets /\ Fair(req[h].mine)
  BY DEF CommitTickets, Odds, IssueSound
<1>2. tickets' = req[h].mine
  BY <1>1 DEF CommitTickets
<1>3. UNCHANGED <<score, finds, active, best>>
  BY DEF CommitTickets, season
<1>4. \A g \in Handler : req'[g] = IF g = h THEN Idle ELSE req[g]
  BY DEF CommitTickets, Moves, TypeOK
<1>5. \A g \in Handler : req'[g].at \notin {"delete", "insert", "commit"}
  BY <1>1, <1>4 DEF Odds, Idle
<1>6. \A g \in Handler : IssueSound(req[g])'
  BY <1>5 DEF IssueSound
<1>7. Fair(tickets)'
  BY <1>1, <1>2, <1>3 DEF Fair
<1>8. \A m \in Member : (Entitlement(m, score, finds, active) <= best[m])'
  BY <1>3 DEF Odds, Entitlement
<1>9. QED
  BY <1>5, <1>6, <1>7, <1>8 DEF Odds

LEMMA OddsKept ==
  ASSUME TypeOK, Odds, [Next]_vars, NEW only, Issuer = {only}
  PROVE  Odds'
<1>1. ASSUME UNCHANGED <<tickets, season, req>> PROVE Odds'
  BY <1>1 DEF Odds, IssueSound, Fair, TicketsOf, Entitlement, season
<1>2. CASE Quiet \/ UNCHANGED vars
  BY <1>1, <1>2 DEF Quiet, vars
<1>3. CASE Pool
  BY <1>1, <1>3 DEF Pool, Donate, Seed, Create, Delete
<1>4. ASSUME NEW h \in Handler, NEW r, Moves(h, r), r.at \notin {"delete", "insert", "commit"},
             UNCHANGED <<tickets, season>>
      PROVE  Odds'
  BY <1>4, MoveOdds DEF IssueSound
<1>5. ASSUME NEW h \in Handler, Begin(h) PROVE Odds'
  <2>1. UNCHANGED <<tickets, season>>
    BY <1>5 DEF Begin, ReadStatus, ReadDraw, StartIssue, Accept
  <2>2. CASE \E p \in Prize, to \in PrizeStatus, winner \in Member \cup {None} : ReadStatus(h, p, to, winner)
    <3>1. PICK p, to, winner :
            Moves(h, [Idle EXCEPT !.at = "write", !.prize = p, !.donor = prize[p].donor,
                                  !.to = to, !.winner = winner])
      BY <2>2 DEF ReadStatus, Accept
    <3> DEFINE r == [Idle EXCEPT !.at = "write", !.prize = p, !.donor = prize[p].donor,
                                 !.to = to, !.winner = winner]
    <3>2. r.at = "write"
      BY DEF Idle
    <3>3. QED
      BY <1>4, <2>1, <3>1, <3>2
  <2>3. CASE \E p \in Prize : ReadDraw(h, p)
    <3>1. PICK p : Moves(h, [Idle EXCEPT !.at = "draw", !.prize = p])
      BY <2>3 DEF ReadDraw, Accept
    <3>2. [Idle EXCEPT !.at = "draw", !.prize = p].at = "draw"
      BY DEF Idle
    <3>3. QED
      BY <1>4, <2>1, <3>1, <3>2
  <2>4. CASE StartIssue(h)
    <3> DEFINE r == [Idle EXCEPT !.at = "delete", !.issue = served + 1, !.doomed = Doomed]
    <3>1. Moves(h, r) /\ r.at = "delete" /\ r.doomed = tickets
      BY <2>4 DEF StartIssue, Accept, Idle, Doomed
    <3>2. IssueSound(r) /\ h \in Issuer
      BY <2>4, <3>1 DEF StartIssue, IssueSound
    <3>3. QED
      BY <2>1, <3>1, <3>2, MoveOdds
  <2>5. QED
    BY <1>5, <2>2, <2>3, <2>4 DEF Begin
<1>6. ASSUME NEW h \in Handler, Step(h) \/ Fail(h) PROVE Odds'
  <2>0. req[h] \in Request /\ IssueSound(req[h])
    BY DEF TypeOK, Odds
  <2>1. CASE WriteStatus(h)
    <3>1. UNCHANGED <<tickets, season>>
      BY <2>1 DEF WriteStatus
    <3> DEFINE r == [Idle EXCEPT !.at = "badges", !.donor = req[h].donor]
    <3>2. Idle.at = "idle" /\ r.at = "badges"
      BY DEF Idle
    <3>3. Moves(h, Idle) \/ Moves(h, r)
      BY <2>1 DEF WriteStatus
    <3>4. QED
      BY <1>4, <3>1, <3>2, <3>3
  <2>2. CASE EvaluateBadges(h) \/ DrawWinner(h) \/ Fail(h)
    <3>1. UNCHANGED <<tickets, season>> /\ Moves(h, Idle)
      BY <2>2 DEF EvaluateBadges, DrawWinner, Fail
    <3>2. QED
      BY <1>4, <3>1, IdleOK
  <2>3. CASE DeleteTickets(h)
    <3> DEFINE r == [req[h] EXCEPT !.at = "insert", !.doomed = @ \cap tickets]
    <3>1. Moves(h, r) /\ r.at = "insert" /\ r.doomed = req[h].doomed \cap tickets
      BY <2>0, <2>3 DEF DeleteTickets, Request
    <3>2. IssueSound(r) /\ h \in Issuer
      BY <2>0, <2>3, <3>1 DEF DeleteTickets, IssueSound, Odds
    <3>3. QED
      BY <2>3, <3>1, <3>2, MoveOdds DEF DeleteTickets
  <2>4. CASE InsertTickets(h)
    <3> DEFINE r == [req[h] EXCEPT !.at = "commit", !.mine = Entitled(req[h].issue)]
    <3>1. Moves(h, r) /\ r.at = "commit" /\ r.doomed = req[h].doomed /\ r.mine = Entitled(req[h].issue)
      BY <2>0, <2>4 DEF InsertTickets, Request
    <3>2. Fair(r.mine)
      BY <2>0, <3>1, EntitledFair DEF Request, Odds
    <3>3. IssueSound(r) /\ h \in Issuer
      BY <2>0, <2>4, <3>1, <3>2 DEF InsertTickets, IssueSound, Odds
    <3>4. QED
      BY <2>4, <3>1, <3>3, MoveOdds DEF InsertTickets
  <2>5. CASE CommitTickets(h)
    BY <2>5, CommitOdds
  <2>6. QED
    BY <1>6, <2>1, <2>2, <2>3, <2>4, <2>5 DEF Step
<1>7. CASE Season
  BY <1>7, SeasonOdds
<1>8. QED
  BY <1>2, <1>3, <1>5, <1>6, <1>7 DEF Next

(* "Rewriting rather than appending keeps the pass re-runnable without     *)
(* inflating anyone's odds" (usecase/prize.go:203): while one organiser at *)
(* a time issues tickets, nobody ever holds more than the most that member *)
(* was entitled to, wherever the pass stopped and whatever the season and  *)
(* the other requests did meanwhile.                                       *)
THEOREM OddsAreNotInflated ==
  ASSUME NEW only, Issuer = {only}
  PROVE  Spec => []OddsNotInflated
<1>1. Init => Odds
  <2> SUFFICES ASSUME Init PROVE Odds
    OBVIOUS
  <2>1. \A m \in Member : Entitlement(m, score, finds, active) = 0 /\ best[m] = 0
    BY DEF Init, Entitlement, RaffleTickets, Max2
  <2>2. \A m : TicketsOf(m, tickets) = {}
    BY DEF Init, TicketsOf
  <2>3. Fair(tickets)
    BY <2>1, <2>2, FS_EmptySet DEF Fair
  <2>4. \A h \in Handler : req[h].at = "idle"
    BY IdleOK DEF Init
  <2>5. QED
    BY <2>1, <2>3, <2>4 DEF Odds, IssueSound
<1>2. TypeOK /\ Odds /\ [Next]_vars => Odds'
  BY OddsKept
<1>3. Odds => OddsNotInflated
  BY DEF Odds, Fair, TicketsOf, OddsNotInflated
<1>4. QED
  BY <1>1, <1>2, <1>3, TypesHold, PTL DEF Spec
=============================================================================
