---------------------------- MODULE MemberProofs ----------------------------
(***************************************************************************)
(* Proofs about enrolment and the level-up bonus, for any number of        *)
(* people, teams, concurrent requests and requests in all, whether they    *)
(* stop or not.                                                            *)
(***************************************************************************)
EXTENDS Member, TLAPS

USE NoneAssumption, EditorAssumption, BoundAssumption

(* Where a request stands tells what it is and what it has appended. *)
Proceeds(r) ==
  /\ r.at # "idle" => r.person \in Person
  /\ r.at \in {"user", "member"} => r.op = "create"
  /\ r.at \in {"update", "bonus", "account"} => r.op = "update"
  /\ r.at = "commit" => r.op \in {"create", "update"}
  /\ r.op = "create" => r.at \in {"user", "member", "commit"} /\ r.points = 0
  /\ r.op = "update" => /\ r.person \in members
                        /\ r.at \in {"update", "bonus", "account", "commit"}
                        /\ r.at \in {"account", "commit"} => r.points = LevelUpBonus(r.seen.color, r.to.color)

Proceeding == \A h \in Handler : Proceeds(req[h])

(* Only the editors update. *)
EditorsUpdate == \A h \in Handler : req[h].op = "update" => h \in Editor

(* The unique index lets one open transaction at a time insert an address  *)
(* that nobody has.                                                        *)
InsertsApart ==
  /\ \A h \in Handler : \A p \in Inserting(h) : p \notin logins
  /\ \A g, h \in Handler : g # h => Inserting(g) \cap Inserting(h) = {}

IInv == TypeOK /\ Proceeding /\ EditorsUpdate /\ InsertsApart /\ NoHalfMember /\ BonusBacked

(***************************************************************************)
(* Lemmas                                                                  *)
(***************************************************************************)

(* A rise is worth a number of points, and staying is worth none. *)
LEMMA LevelUpBonusNat ==
  ASSUME NEW c \in ColorStatus, NEW d \in ColorStatus
  PROVE  LevelUpBonus(c, d) \in Nat /\ LevelUpBonus(c, c) = 0
BY DEF LevelUpBonus, ColorStatus

LEMMA IdleOK == Idle \in Request /\ Idle.at = "idle" /\ Idle.op = "none" /\ NewRow \in Row
BY DEF Idle, NewRow, Row, Request, ColorStatus

(* A handler moves on, and the others stay. *)
LEMMA MoveOK ==
  ASSUME TypeOK, NEW h \in Handler, NEW r \in Request, Moves(h, r)
  PROVE  /\ req' \in [Handler -> Request]
         /\ \A g \in Handler : req'[g] = IF g = h THEN r ELSE req[g]
BY DEF Moves, TypeOK

(* A handler that moves on while people and ledger stay as they are keeps  *)
(* the invariant, if the new request proceeds and inserts nothing but what *)
(* it inserted before.                                                     *)
LEMMA MoveKeeps ==
  ASSUME IInv, NEW h \in Handler, NEW r \in Request, Moves(h, r), Proceeds(r),
         r.op = "update" => h \in Editor,
         r.op = "create" /\ r.at \in {"member", "commit"} => r.person \in Inserting(h),
         UNCHANGED <<roster, ledger>>, levelUp' \subseteq Person, lost' \subseteq Person, served' \in Nat
  PROVE  IInv'
<1>. USE DEF IInv
<1>1. /\ req' \in [Handler -> Request]
      /\ \A g \in Handler : req'[g] = IF g = h THEN r ELSE req[g]
  BY MoveOK
<1>2. UNCHANGED <<logins, members, row, reached, paid, bonus>>
  BY DEF roster, ledger
<1>3. TypeOK'
  BY <1>1, <1>2 DEF TypeOK
<1>4. Proceeding'
  BY <1>1, <1>2 DEF Proceeding, Proceeds
<1>5. EditorsUpdate'
  BY <1>1 DEF EditorsUpdate
<1>6. InsertsApart'
  <2>1. \A g \in Handler : Inserting(g)' \subseteq Inserting(g)
    BY <1>1 DEF Inserting
  <2>2. QED
    BY <2>1, <1>2 DEF InsertsApart
<1>7. NoHalfMember' /\ BonusBacked'
  BY <1>2 DEF NoHalfMember, BonusBacked
<1>8. QED
  BY <1>3, <1>4, <1>5, <1>6, <1>7

(***************************************************************************)
(* Each step keeps the invariant                                           *)
(***************************************************************************)
LEMMA InitIInv == Init => IInv
<1>. SUFFICES ASSUME Init PROVE IInv
  OBVIOUS
<1>. USE DEF Init
<1>1. TypeOK
  BY IdleOK DEF TypeOK, NoBonus
<1>2. \A h \in Handler : req[h] = Idle
  OBVIOUS
<1>3. Proceeding /\ EditorsUpdate /\ InsertsApart
  BY <1>2 DEF Proceeding, Proceeds, EditorsUpdate, InsertsApart, Inserting, Idle
<1>4. NoHalfMember /\ BonusBacked
  BY DEF NoHalfMember, BonusBacked, NoBonus
<1>5. QED
  BY <1>1, <1>3, <1>4 DEF IInv

(* Accepting a request keeps the invariant. *)
LEMMA BeginKeeps ==
  ASSUME IInv, NEW h \in Handler, Begin(h)
  PROVE  IInv'
<1>1. TypeOK /\ served \in Nat /\ served + 1 \in Nat
  BY DEF IInv, TypeOK
<1>2. PICK p \in Person, to \in Row : ReadCreate(h, p, to) \/ \E refused \in BOOLEAN : ReadUpdate(h, p, to, refused)
  BY DEF Begin
<1>3. CASE ReadCreate(h, p, to)
  <2>. DEFINE r == [Idle EXCEPT !.at = "user", !.op = "create", !.person = p, !.to = to]
  <2>1. r \in Request /\ r.at = "user" /\ r.op = "create" /\ r.person = p /\ r.points = 0
    BY IdleOK DEF Idle, Request
  <2>2. Moves(h, r) /\ served' = served + 1 /\ UNCHANGED <<roster, ledger, levelUp, lost>>
    BY <1>3 DEF ReadCreate, Accept, badges
  <2>3. Proceeds(r)
    BY <2>1 DEF Proceeds
  <2>. HIDE DEF r
  <2>4. QED
    BY <1>1, <2>1, <2>2, <2>3, MoveKeeps DEF TypeOK
<1>4. ASSUME NEW refused \in BOOLEAN, ReadUpdate(h, p, to, refused)
      PROVE  IInv'
  <2>. DEFINE r == [Idle EXCEPT !.at = "update", !.op = "update", !.person = p, !.seen = row[p],
                                !.to = to, !.refused = refused]
  <2>1. row[p] \in Row
    BY <1>1 DEF TypeOK
  <2>2. r \in Request /\ r.at = "update" /\ r.op = "update" /\ r.person = p
    BY <2>1, IdleOK DEF Idle, Request
  <2>3. /\ Moves(h, r) /\ served' = served + 1 /\ UNCHANGED <<roster, ledger, levelUp, lost>>
        /\ h \in Editor /\ p \in members
    BY <1>4 DEF ReadUpdate, Accept, badges
  <2>4. Proceeds(r)
    BY <2>2, <2>3 DEF Proceeds
  <2>. HIDE DEF r
  <2>5. QED
    BY <1>1, <2>2, <2>3, <2>4, MoveKeeps DEF TypeOK
<1>5. QED
  BY <1>2, <1>3, <1>4

(* What the invariant says of the request a handler is serving. *)
LEMMA ReqFacts ==
  ASSUME IInv, NEW h \in Handler
  PROVE  /\ req[h] \in Request /\ Proceeds(req[h])
         /\ req[h].op = "update" => h \in Editor
BY DEF IInv, TypeOK, Proceeding, EditorsUpdate

LEMMA InsertUserKeeps ==
  ASSUME IInv, NEW h \in Handler, InsertUser(h)
  PROVE  IInv'
<1>. DEFINE p == req[h].person
            r == [req[h] EXCEPT !.at = "member"]
<1>1. req[h] \in Request /\ Proceeds(req[h])
  BY ReqFacts
<1>2. req[h].at = "user" /\ req[h].op = "create" /\ req[h].points = 0 /\ p \in Person
  BY <1>1 DEF InsertUser, Proceeds
<1>3. served' \in Nat /\ levelUp' \subseteq Person /\ lost' \subseteq Person
  BY DEF IInv, TypeOK, InsertUser, badges
<1>4. CASE p \in logins
  <2>1. Moves(h, Idle) /\ UNCHANGED <<roster, ledger>>
    BY <1>4 DEF InsertUser, roster
  <2>2. Proceeds(Idle)
    BY DEF Proceeds, Idle
  <2>3. QED
    BY <2>1, <2>2, <1>3, MoveKeeps, IdleOK
<1>5. CASE p \notin logins
  <2>1. Moves(h, r) /\ UNCHANGED <<logins, members, row, reached, paid, bonus>>
    BY <1>5 DEF InsertUser, LoginAfterInsert, ledger
  <2>2. r \in Request
    BY <1>1 DEF Request
  <2>3. r.at = "member" /\ r.op = "create" /\ r.person = p /\ r.points = 0
    BY <1>1, <1>2 DEF Request
  <2>4. Proceeds(r)
    BY <1>2, <2>3 DEF Proceeds
  <2>. HIDE DEF r
  <2>5. /\ req' \in [Handler -> Request]
        /\ \A g \in Handler : req'[g] = IF g = h THEN r ELSE req[g]
    BY <2>1, <2>2, MoveOK DEF IInv
  <2>6. TypeOK'
    BY <2>1, <2>5, <1>3 DEF IInv, TypeOK
  <2>7. Proceeding'
    BY <2>1, <2>4, <2>5 DEF IInv, Proceeding, Proceeds
  <2>8. EditorsUpdate'
    BY <2>3, <2>5 DEF IInv, EditorsUpdate
  <2>9. InsertsApart'
    <3>1. Inserting(h)' = {p} /\ \A g \in Handler : g # h => Inserting(g)' = Inserting(g)
      BY <2>3, <2>5 DEF Inserting
    <3>2. \A g \in Handler : p \notin Inserting(g)
      BY DEF InsertUser
    <3>. HIDE DEF p
    <3>3. QED
      BY <3>1, <3>2, <1>5, <2>1 DEF IInv, InsertsApart
  <2>10. NoHalfMember' /\ BonusBacked'
    BY <2>1 DEF IInv, NoHalfMember, BonusBacked
  <2>11. QED
    BY <2>6, <2>7, <2>8, <2>9, <2>10 DEF IInv
<1>6. QED
  BY <1>4, <1>5

LEMMA InsertMemberKeeps ==
  ASSUME IInv, NEW h \in Handler, InsertMember(h)
  PROVE  IInv'
<1>. DEFINE r == [req[h] EXCEPT !.at = "commit"]
<1>1. req[h] \in Request /\ Proceeds(req[h]) /\ req[h].at = "member"
  BY ReqFacts DEF InsertMember
<1>2. r \in Request /\ r.at = "commit" /\ r.op = req[h].op /\ r.person = req[h].person /\ r.points = req[h].points
  BY <1>1 DEF Request
<1>3. Proceeds(r) /\ r.op = "create" /\ r.person \in Inserting(h)
  BY <1>1, <1>2 DEF Proceeds, Inserting
<1>4. Moves(h, r) /\ UNCHANGED <<roster, ledger, levelUp, lost, served>>
  BY DEF InsertMember, badges
<1>5. levelUp' \subseteq Person /\ lost' \subseteq Person /\ served' \in Nat
  BY <1>4 DEF IInv, TypeOK
<1>. HIDE DEF r
<1>6. QED
  BY <1>2, <1>3, <1>4, <1>5, MoveKeeps

LEMMA UpdateRowKeeps ==
  ASSUME IInv, NEW h \in Handler, UpdateRow(h)
  PROVE  IInv'
<1>. DEFINE r == [req[h] EXCEPT !.at = "bonus"]
<1>1. req[h] \in Request /\ Proceeds(req[h]) /\ req[h].at = "update" /\ (req[h].op = "update" => h \in Editor)
  BY ReqFacts DEF UpdateRow
<1>2. r \in Request /\ r.at = "bonus" /\ r.op = req[h].op /\ r.person = req[h].person
  BY <1>1 DEF Request
<1>3. Proceeds(r) /\ r.op = "update" /\ h \in Editor
  BY <1>1, <1>2 DEF Proceeds
<1>4. Moves(h, r) /\ UNCHANGED <<roster, ledger, levelUp, lost, served>>
  BY DEF UpdateRow, badges
<1>5. levelUp' \subseteq Person /\ lost' \subseteq Person /\ served' \in Nat
  BY <1>4 DEF IInv, TypeOK
<1>. HIDE DEF r
<1>6. QED
  BY <1>2, <1>3, <1>4, <1>5, MoveKeeps

LEMMA AppendBonusKeeps ==
  ASSUME IInv, NEW h \in Handler, AppendBonus(h)
  PROVE  IInv'
<1>. DEFINE r == [req[h] EXCEPT !.at = "account", !.points = Bonus(h)]
<1>1. req[h] \in Request /\ Proceeds(req[h]) /\ req[h].at = "bonus" /\ (req[h].op = "update" => h \in Editor)
  BY ReqFacts DEF AppendBonus
<1>2. req[h].seen.color \in ColorStatus /\ req[h].to.color \in ColorStatus
  BY <1>1 DEF Request, Row
<1>3. Bonus(h) \in Nat /\ Bonus(h) = LevelUpBonus(req[h].seen.color, req[h].to.color)
  BY <1>2, LevelUpBonusNat DEF Bonus
<1>4. /\ r \in Request /\ r.at = "account" /\ r.op = req[h].op /\ r.person = req[h].person
      /\ r.points = Bonus(h) /\ r.seen = req[h].seen /\ r.to = req[h].to
  BY <1>1, <1>3 DEF Request
<1>5. Proceeds(r) /\ r.op = "update" /\ h \in Editor
  BY <1>1, <1>3, <1>4 DEF Proceeds
<1>6. Moves(h, r) /\ UNCHANGED <<roster, ledger, levelUp, lost, served>>
  BY DEF AppendBonus, Appended, badges
<1>7. levelUp' \subseteq Person /\ lost' \subseteq Person /\ served' \in Nat
  BY <1>6 DEF IInv, TypeOK
<1>. HIDE DEF r
<1>8. QED
  BY <1>4, <1>5, <1>6, <1>7, MoveKeeps

(* A handler that ends its request leaves nothing behind. *)
LEMMA EndKeeps ==
  ASSUME IInv, NEW h \in Handler, Moves(h, Idle), UNCHANGED <<roster, ledger, served>>,
         levelUp' \subseteq Person, lost' \subseteq Person
  PROVE  IInv'
<1>1. Proceeds(Idle)
  BY DEF Proceeds, Idle
<1>2. served' \in Nat
  BY DEF IInv, TypeOK
<1>3. QED
  BY <1>1, <1>2, IdleOK, MoveKeeps

LEMMA UpdateAccountKeeps ==
  ASSUME IInv, NEW h \in Handler, UpdateAccount(h)
  PROVE  IInv'
<1>. DEFINE r == [req[h] EXCEPT !.at = "commit"]
<1>1. req[h] \in Request /\ Proceeds(req[h]) /\ req[h].at = "account" /\ (req[h].op = "update" => h \in Editor)
  BY ReqFacts DEF UpdateAccount
<1>2. UNCHANGED <<roster, ledger, levelUp, lost, served>>
  BY DEF UpdateAccount, badges
<1>3. levelUp' \subseteq Person /\ lost' \subseteq Person /\ served' \in Nat
  BY <1>2 DEF IInv, TypeOK
<1>4. CASE req[h].refused
  <2>1. Moves(h, Idle)
    BY <1>4 DEF UpdateAccount
  <2>2. QED
    BY <2>1, <1>2, <1>3, EndKeeps
<1>5. CASE ~req[h].refused
  <2>1. Moves(h, r)
    BY <1>5 DEF UpdateAccount
  <2>2. /\ r \in Request /\ r.at = "commit" /\ r.op = req[h].op /\ r.person = req[h].person
        /\ r.points = req[h].points /\ r.seen = req[h].seen /\ r.to = req[h].to
    BY <1>1 DEF Request
  <2>3. Proceeds(r) /\ r.op = "update" /\ h \in Editor
    BY <1>1, <2>2 DEF Proceeds
  <2>. HIDE DEF r
  <2>4. QED
    BY <2>1, <2>2, <2>3, <1>2, <1>3, MoveKeeps
<1>6. QED
  BY <1>4, <1>5

(* The commit writes the row, the ledger and the colours reached together. *)
LEMMA CommitFacts ==
  ASSUME IInv, NEW h \in Handler, Commit(h)
  PROVE  /\ req[h] \in Request /\ Proceeds(req[h]) /\ req[h].at = "commit"
         /\ req[h].person \in Person /\ req[h].to \in Row /\ req[h].points \in Nat
         /\ req[h].to.color \in ColorStatus /\ req[h].to.team \in Team \cup {None}
         /\ req[h].op \in {"create", "update"}
<1>1. req[h] \in Request /\ Proceeds(req[h]) /\ req[h].at = "commit"
  BY ReqFacts DEF Commit
<1>2. req[h].person \in Person /\ req[h].op \in {"create", "update"}
  BY <1>1 DEF Proceeds
<1>3. req[h].to \in Row /\ req[h].points \in Nat
  BY <1>1 DEF Request
<1>4. req[h].to.color \in ColorStatus /\ req[h].to.team \in Team \cup {None}
  BY <1>3 DEF Row
<1>5. QED
  BY <1>1, <1>2, <1>3, <1>4

(* What the commit does to the ledger, the rows and the people.           *)
LEMMA CommitEffect ==
  ASSUME IInv, NEW h \in Handler, Commit(h)
  PROVE  LET p == req[h].person  c == req[h].to.color IN
         /\ row' \in [Person -> Row] /\ reached' \in [Person -> SUBSET ColorStatus]
         /\ paid' \in [Person -> [ColorStatus -> Nat]] /\ bonus' \in [Team \cup {None} -> Nat]
         /\ \A q \in Person : row'[q] = IF q = p THEN req[h].to ELSE row[q]
         /\ \A q \in Person : reached'[q] = IF q = p THEN reached[q] \cup {c} ELSE reached[q]
         /\ \A q \in Person : paid'[q] = IF q = p THEN [paid[q] EXCEPT ![c] = @ + req[h].points] ELSE paid[q]
         /\ bonus'[req[h].to.team] = bonus[req[h].to.team] + req[h].points
<1>. DEFINE p == req[h].person
            c == req[h].to.color
            n == req[h].points
            t == req[h].to.team
<1>1. p \in Person /\ req[h].to \in Row /\ n \in Nat /\ c \in ColorStatus /\ t \in Team \cup {None}
  BY CommitFacts
<1>2. /\ row \in [Person -> Row] /\ reached \in [Person -> SUBSET ColorStatus]
      /\ paid \in [Person -> [ColorStatus -> Nat]] /\ bonus \in [Team \cup {None} -> Nat]
  BY DEF IInv, TypeOK
<1>3. /\ row' = [row EXCEPT ![p] = req[h].to]
      /\ reached' = [reached EXCEPT ![p] = @ \cup {c}]
      /\ paid' = [paid EXCEPT ![p][c] = @ + n]
      /\ bonus' = [bonus EXCEPT ![t] = @ + n]
  BY DEF Commit, Credited
<1>. HIDE DEF p, c, n, t
<1>4. /\ row' \in [Person -> Row]
      /\ \A q \in Person : row'[q] = IF q = p THEN req[h].to ELSE row[q]
  BY <1>1, <1>2, <1>3
<1>5. /\ reached' \in [Person -> SUBSET ColorStatus]
      /\ \A q \in Person : reached'[q] = IF q = p THEN reached[q] \cup {c} ELSE reached[q]
  BY <1>1, <1>2, <1>3
<1>6. /\ paid[p] \in [ColorStatus -> Nat] /\ paid[p][c] + n \in Nat
      /\ [paid[p] EXCEPT ![c] = @ + n] \in [ColorStatus -> Nat]
  BY <1>1, <1>2
<1>7. /\ paid' \in [Person -> [ColorStatus -> Nat]]
      /\ \A q \in Person : paid'[q] = IF q = p THEN [paid[q] EXCEPT ![c] = @ + n] ELSE paid[q]
  BY <1>1, <1>2, <1>3, <1>6
<1>8. bonus' \in [Team \cup {None} -> Nat] /\ bonus'[t] = bonus[t] + n
  BY <1>1, <1>2, <1>3
<1>9. QED
  BY <1>4, <1>5, <1>7, <1>8 DEF p, c, n, t

LEMMA CommitKeeps ==
  ASSUME IInv, NEW h \in Handler, Commit(h)
  PROVE  IInv'
<1>. DEFINE p == req[h].person
            c == req[h].to.color
            end == IF req[h].op = "create" THEN Idle ELSE [Idle EXCEPT !.at = "badges", !.person = p]
<1>1. /\ req[h] \in Request /\ Proceeds(req[h]) /\ req[h].at = "commit"
      /\ p \in Person /\ c \in ColorStatus /\ req[h].points \in Nat /\ req[h].op \in {"create", "update"}
  BY CommitFacts
<1>2. /\ row' \in [Person -> Row] /\ reached' \in [Person -> SUBSET ColorStatus]
      /\ paid' \in [Person -> [ColorStatus -> Nat]] /\ bonus' \in [Team \cup {None} -> Nat]
      /\ \A q \in Person : reached'[q] = IF q = p THEN reached[q] \cup {c} ELSE reached[q]
      /\ \A q \in Person : paid'[q] = IF q = p THEN [paid[q] EXCEPT ![c] = @ + req[h].points] ELSE paid[q]
  BY CommitEffect
<1>3. /\ Moves(h, end) /\ UNCHANGED <<levelUp, lost, served>>
      /\ logins' = logins \cup (IF req[h].op = "create" THEN {p} ELSE {})
      /\ members' = members \cup (IF req[h].op = "create" THEN {p} ELSE {})
  BY DEF Commit, badges
<1>4. end \in Request /\ end.op = "none" /\ end.at \in {"idle", "badges"} /\ (end.at = "badges" => end.person = p)
  BY <1>1, IdleOK DEF Request, Idle
<1>5. Proceeds(end)
  BY <1>1, <1>4 DEF Proceeds
<1>. HIDE DEF end
<1>6. /\ req' \in [Handler -> Request]
      /\ \A g \in Handler : req'[g] = IF g = h THEN end ELSE req[g]
  BY <1>3, <1>4, MoveOK DEF IInv
<1>7. TypeOK'
  BY <1>1, <1>2, <1>3, <1>6 DEF IInv, TypeOK
<1>8. Proceeding'
  <2>1. \A g \in Handler : Proceeds(req[g])
    BY DEF IInv, Proceeding
  <2>2. members \subseteq members'
    BY <1>3
  <2>3. QED
    BY <1>5, <1>6, <2>1, <2>2 DEF Proceeding, Proceeds
<1>9. EditorsUpdate'
  BY <1>4, <1>6 DEF IInv, EditorsUpdate
<1>10. InsertsApart'
  <2>1. Inserting(h)' = {} /\ \A g \in Handler : g # h => Inserting(g)' = Inserting(g)
    BY <1>4, <1>6 DEF Inserting
  <2>2. req[h].op = "create" => Inserting(h) = {p}
    BY <1>1 DEF Inserting
  <2>3. \A g \in Handler : \A q \in Inserting(g) : g # h => q \notin logins'
    BY <1>3, <2>2 DEF IInv, InsertsApart
  <2>4. QED
    BY <2>1, <2>3 DEF IInv, InsertsApart
<1>11. NoHalfMember'
  BY <1>3 DEF IInv, NoHalfMember
<1>12. BonusBacked'
  <2>1. SUFFICES ASSUME NEW q \in Person, NEW d \in ColorStatus, paid'[q][d] > 0
                 PROVE  d \in reached'[q]
    BY DEF BonusBacked
  <2>2. paid[q] \in [ColorStatus -> Nat] /\ (paid[q][d] > 0 => d \in reached[q])
    BY DEF IInv, TypeOK, BonusBacked
  <2>3. CASE q = p /\ d = c
    BY <1>2, <2>3
  <2>4. CASE ~(q = p /\ d = c)
    <3>1. paid'[q][d] = paid[q][d]
      BY <1>2, <2>2, <2>4
    <3>2. QED
      BY <1>2, <2>1, <2>2, <3>1
  <2>5. QED
    BY <2>3, <2>4
<1>13. QED
  BY <1>7, <1>8, <1>9, <1>10, <1>11, <1>12 DEF IInv

LEMMA EvaluateBadgesKeeps ==
  ASSUME IInv, NEW h \in Handler, EvaluateBadges(h)
  PROVE  IInv'
<1>1. req[h].person \in Person
  BY ReqFacts DEF EvaluateBadges, Proceeds
<1>2. Moves(h, Idle) /\ UNCHANGED <<roster, ledger, lost, served>>
  BY DEF EvaluateBadges
<1>3. levelUp' \subseteq Person /\ lost' \subseteq Person
  BY <1>1, <1>2 DEF IInv, TypeOK, EvaluateBadges
<1>4. QED
  BY <1>2, <1>3, EndKeeps

LEMMA FailKeeps ==
  ASSUME IInv, NEW h \in Handler, Fail(h)
  PROVE  IInv'
<1>1. req[h].person \in Person
  BY ReqFacts DEF Fail, Proceeds
<1>2. Moves(h, Idle) /\ UNCHANGED <<roster, ledger, levelUp, served>>
  BY DEF Fail
<1>3. levelUp' \subseteq Person /\ lost' \subseteq Person
  BY <1>1, <1>2 DEF IInv, TypeOK, Fail
<1>4. QED
  BY <1>2, <1>3, EndKeeps

LEMMA StutterKeeps == ASSUME IInv, UNCHANGED vars PROVE IInv'
<1>1. UNCHANGED <<logins, members, row, paid, bonus, levelUp, req, reached, lost, served>>
  BY DEF vars, roster, ledger, badges
<1>2. TypeOK' /\ Proceeding' /\ EditorsUpdate'
  BY <1>1 DEF IInv, TypeOK, Proceeding, Proceeds, EditorsUpdate
<1>3. InsertsApart' /\ NoHalfMember' /\ BonusBacked'
  BY <1>1 DEF IInv, InsertsApart, Inserting, NoHalfMember, BonusBacked
<1>4. QED
  BY <1>2, <1>3 DEF IInv

(* Every step keeps the invariant, whichever request takes it. *)
LEMMA NextKeeps == ASSUME IInv, [Next]_vars PROVE IInv'
<1>1. ASSUME NEW h \in Handler, Step(h)
      PROVE  IInv'
  BY <1>1, InsertUserKeeps, InsertMemberKeeps, UpdateRowKeeps, AppendBonusKeeps, UpdateAccountKeeps,
     CommitKeeps, EvaluateBadgesKeeps DEF Step
<1>2. QED
  BY <1>1, BeginKeeps, FailKeeps, StutterKeeps DEF Next, Quiet

LEMMA Invariant == Spec => []IInv
<1>1. IInv /\ [Next]_vars => IInv'
  BY NextKeeps
<1>2. QED
  BY InitIInv, <1>1, PTL DEF Spec

(***************************************************************************)
(* Theorems                                                                *)
(***************************************************************************)

(* People, rows, the ledger and every open request keep their types; in    *)
(* particular no bonus is ever negative (usecase/member.go, Update).       *)
THEOREM TypesHold == Spec => []TypeOK
<1>1. IInv => TypeOK
  BY DEF IInv
<1>2. QED
  BY <1>1, Invariant, PTL

(* However many requests enrol the same addresses and wherever they stop,  *)
(* nobody has a login without a profile (usecase/member.go, Create).       *)
THEOREM NoHalfMembers == Spec => []NoHalfMember
<1>1. IInv => NoHalfMember
  BY DEF IInv
<1>2. QED
  BY <1>1, Invariant, PTL

(* However many admins update whom and wherever their requests stop or are *)
(* refused, the ledger pays only for colours that were reached.            *)
THEOREM BonusesBacked == Spec => []BonusBacked
<1>1. IInv => BonusBacked
  BY DEF IInv
<1>2. QED
  BY <1>1, Invariant, PTL

(***************************************************************************)
(* One admin at a time.  What an update read before its transaction is     *)
(* then still what the row says, and so the bonus is that of the rise.     *)
(***************************************************************************)
OneEditor == \A g, h \in Editor : g = h

SeenStill == \A h \in Handler : req[h].op = "update" => req[h].seen = row[req[h].person]

(* A row changes at a commit: that of the editor, or that of an enrolment. *)
LEMMA SeenStillKeeps ==
  ASSUME OneEditor, IInv, SeenStill, [Next]_vars
  PROVE  SeenStill'
<1>. SUFFICES ASSUME NEW g \in Handler, req'[g].op = "update"
              PROVE  req'[g].seen = row'[req'[g].person]
  BY DEF SeenStill
<1>1. ASSUME NEW h \in Handler, Moves(h, Idle), UNCHANGED roster
      PROVE  req'[g].seen = row'[req'[g].person]
  <2>1. req'[g] = req[g] /\ row' = row
    BY <1>1, IdleOK DEF Moves, IInv, TypeOK, roster
  <2>2. QED
    BY <2>1 DEF SeenStill
<1>2. ASSUME NEW h \in Handler, NEW r \in Request, Moves(h, r), UNCHANGED row,
             r.op = "update" => r.seen = row[r.person]
      PROVE  req'[g].seen = row'[req'[g].person]
  <2>1. \A k \in Handler : req'[k] = IF k = h THEN r ELSE req[k]
    BY <1>2, MoveOK DEF IInv
  <2>2. QED
    BY <1>2, <2>1 DEF SeenStill
<1>3. ASSUME NEW h \in Handler, Begin(h)
      PROVE  req'[g].seen = row'[req'[g].person]
  <2>1. PICK p \in Person, to \in Row : ReadCreate(h, p, to) \/ \E refused \in BOOLEAN : ReadUpdate(h, p, to, refused)
    BY <1>3 DEF Begin
  <2>2. CASE ReadCreate(h, p, to)
    <3>. DEFINE r == [Idle EXCEPT !.at = "user", !.op = "create", !.person = p, !.to = to]
    <3>1. r \in Request /\ r.op = "create"
      BY IdleOK DEF Idle, Request
    <3>2. Moves(h, r) /\ UNCHANGED row
      BY <2>2 DEF ReadCreate, Accept, roster
    <3>. HIDE DEF r
    <3>3. QED
      BY <3>1, <3>2, <1>2
  <2>3. ASSUME NEW refused \in BOOLEAN, ReadUpdate(h, p, to, refused)
        PROVE  req'[g].seen = row'[req'[g].person]
    <3>. DEFINE r == [Idle EXCEPT !.at = "update", !.op = "update", !.person = p, !.seen = row[p],
                                  !.to = to, !.refused = refused]
    <3>1. row[p] \in Row
      BY DEF IInv, TypeOK
    <3>2. r \in Request /\ r.seen = row[p] /\ r.person = p
      BY <3>1, IdleOK DEF Idle, Request
    <3>3. Moves(h, r) /\ UNCHANGED row
      BY <2>3 DEF ReadUpdate, Accept, roster
    <3>. HIDE DEF r
    <3>4. QED
      BY <3>2, <3>3, <1>2
  <2>4. QED
    BY <2>1, <2>2, <2>3
<1>4. ASSUME NEW h \in Handler, Step(h), ~Commit(h)
      PROVE  req'[g].seen = row'[req'[g].person]
  <2>1. req[h] \in Request
    BY ReqFacts
  <2>2. UNCHANGED row
    BY <1>4 DEF Step, InsertUser, InsertMember, UpdateRow, AppendBonus, UpdateAccount, EvaluateBadges, roster
  <2>. DEFINE At(x) == [req[h] EXCEPT !.at = x]
  <2>3. /\ At("member").op = req[h].op /\ At("member").seen = req[h].seen /\ At("member").person = req[h].person
        /\ At("commit").op = req[h].op /\ At("commit").seen = req[h].seen /\ At("commit").person = req[h].person
        /\ At("bonus").op = req[h].op /\ At("bonus").seen = req[h].seen /\ At("bonus").person = req[h].person
        /\ At("member") \in Request /\ At("commit") \in Request /\ At("bonus") \in Request
    BY <2>1 DEF Request
  <2>4. req[h].op = "update" => req[h].seen = row[req[h].person]
    BY DEF SeenStill
  <2>5. CASE InsertUser(h) \/ InsertMember(h) \/ UpdateRow(h) \/ UpdateAccount(h) \/ EvaluateBadges(h)
    <3>1. Moves(h, Idle) \/ Moves(h, At("member")) \/ Moves(h, At("commit")) \/ Moves(h, At("bonus"))
      BY <2>5 DEF InsertUser, InsertMember, UpdateRow, UpdateAccount, EvaluateBadges
    <3>. HIDE DEF At
    <3>2. QED
      BY <3>1, <2>2, <2>3, <2>4, <1>2, IdleOK
  <2>6. CASE AppendBonus(h)
    <3>. DEFINE r == [req[h] EXCEPT !.at = "account", !.points = Bonus(h)]
    <3>1. req[h].seen.color \in ColorStatus /\ req[h].to.color \in ColorStatus
      BY <2>1 DEF Request, Row
    <3>2. Bonus(h) \in Nat
      BY <3>1, LevelUpBonusNat DEF Bonus
    <3>3. r \in Request /\ r.op = req[h].op /\ r.seen = req[h].seen /\ r.person = req[h].person
      BY <2>1, <3>2 DEF Request
    <3>4. Moves(h, r)
      BY <2>6 DEF AppendBonus
    <3>. HIDE DEF r
    <3>5. QED
      BY <3>3, <3>4, <2>2, <2>4, <1>2
  <2>7. QED
    BY <1>4, <2>5, <2>6 DEF Step
<1>5. ASSUME NEW h \in Handler, Commit(h)
      PROVE  req'[g].seen = row'[req'[g].person]
  <2>. DEFINE p == req[h].person
              end == IF req[h].op = "create" THEN Idle ELSE [Idle EXCEPT !.at = "badges", !.person = p]
  <2>1. Moves(h, end) /\ p \in Person /\ req[h].op \in {"create", "update"} /\ req[h].at = "commit"
    BY <1>5, CommitFacts DEF Commit
  <2>2. end \in Request /\ end.op = "none"
    BY <2>1, IdleOK DEF Request, Idle
  <2>3. g # h /\ req'[g] = req[g]
    BY <2>1, <2>2, MoveOK DEF IInv
  <2>4. g \in Editor /\ req[g].person \in members /\ req[g].person \in Person /\ req[g].op = "update"
    BY <2>3, ReqFacts DEF Proceeds
  <2>5. req[h].op = "create"
    BY <2>1, <2>3, <2>4, ReqFacts DEF OneEditor
  <2>6. p \notin members
    BY <2>1, <2>5 DEF IInv, InsertsApart, Inserting, NoHalfMember
  <2>7. row'[req[g].person] = row[req[g].person]
    BY <1>5, <2>4, <2>6, CommitEffect
  <2>8. QED
    BY <2>3, <2>4, <2>7 DEF SeenStill
<1>6. CASE UNCHANGED vars
  <2>1. req' = req /\ row' = row
    BY <1>6 DEF vars, roster
  <2>2. QED
    BY <2>1 DEF SeenStill
<1>7. ASSUME NEW h \in Handler, Fail(h)
      PROVE  req'[g].seen = row'[req'[g].person]
  BY <1>1, <1>7 DEF Fail
<1>8. QED
  BY <1>3, <1>4, <1>5, <1>6, <1>7 DEF Next, Quiet

(* The ledger of a person and the bonus of the person's team move exactly  *)
(* with the colour on the row.                                             *)
Paid(p) ==
  LET gain == LevelUpBonus(row[p].color, row'[p].color) IN
  /\ paid'[p] = [paid[p] EXCEPT ![row'[p].color] = @ + gain]
  /\ gain > 0 => bonus'[row'[p].team] = bonus[row'[p].team] + gain

LEMMA StillPaid ==
  ASSUME IInv, NEW p \in Person, row'[p] = row[p], paid'[p] = paid[p]
  PROVE  Paid(p)
<1>1. row[p].color \in ColorStatus /\ paid[p] \in [ColorStatus -> Nat]
  BY DEF IInv, TypeOK, Row
<1>2. LevelUpBonus(row[p].color, row'[p].color) = 0
  BY <1>1, LevelUpBonusNat
<1>3. [paid[p] EXCEPT ![row[p].color] = @ + 0] = paid[p]
  BY <1>1
<1>4. QED
  BY <1>2, <1>3 DEF Paid

LEMMA CommitPays ==
  ASSUME IInv, SeenStill, NEW h \in Handler, Commit(h), NEW p \in members
  PROVE  Paid(p)
<1>1. p \in Person
  BY DEF IInv, TypeOK
<1>2. /\ Proceeds(req[h]) /\ req[h].at = "commit" /\ req[h].op \in {"create", "update"}
      /\ req[h].person \in Person
  BY CommitFacts
<1>3. CASE p # req[h].person
  <2>1. row'[p] = row[p] /\ paid'[p] = paid[p]
    BY <1>1, <1>3, CommitEffect
  <2>2. QED
    BY <1>1, <2>1, StillPaid
<1>4. CASE p = req[h].person
  <2>1. req[h].op = "update"
    <3>1. SUFFICES ASSUME req[h].op = "create" PROVE p \notin members
      BY <1>2
    <3>2. QED
      BY <1>2, <1>4, <3>1 DEF IInv, InsertsApart, Inserting, NoHalfMember
  <2>2. req[h].points = LevelUpBonus(row[p].color, req[h].to.color)
    BY <1>2, <1>4, <2>1 DEF SeenStill, Proceeds
  <2>3. /\ row'[p] = req[h].to
        /\ paid'[p] = [paid[p] EXCEPT ![req[h].to.color] = @ + req[h].points]
        /\ bonus'[req[h].to.team] = bonus[req[h].to.team] + req[h].points
    BY <1>1, <1>4, CommitEffect
  <2>4. QED
    BY <2>2, <2>3 DEF Paid
<1>5. QED
  BY <1>3, <1>4

LEMMA NextPays ==
  ASSUME IInv, SeenStill, [Next]_vars, NEW p \in members
  PROVE  Paid(p)
<1>1. p \in Person
  BY DEF IInv, TypeOK
<1>2. CASE \E h \in Handler : Commit(h)
  BY <1>2, CommitPays
<1>3. CASE ~\E h \in Handler : Commit(h)
  <2>1. row' = row /\ paid' = paid
    BY <1>3 DEF Next, Quiet, vars, Begin, Step, Fail, ReadCreate, ReadUpdate, Accept, InsertUser, InsertMember,
       UpdateRow, AppendBonus, Appended, UpdateAccount, EvaluateBadges, roster, ledger
  <2>2. QED
    BY <1>1, <2>1, StillPaid
<1>4. QED
  BY <1>2, <1>3

(* While one admin at a time edits, whoever enrols meanwhile and wherever  *)
(* requests stop, every rise is paid once, when it takes effect, to the    *)
(* team the member is then in (usecase/member.go, Update).                 *)
THEOREM RisesPaid == ASSUME OneEditor PROVE Spec => RisesArePaid
<1>1. Init => SeenStill
  BY DEF Init, SeenStill, Idle
<1>2. IInv /\ SeenStill /\ [Next]_vars => SeenStill'
  BY SeenStillKeeps
<1>3. IInv /\ SeenStill /\ [Next]_vars => \A p \in members : Paid(p)
  BY NextPays
<1>4. (\A p \in members : Paid(p)) => [\A p \in members :
         LET gain == LevelUpBonus(row[p].color, row'[p].color) IN
         /\ paid'[p] = [paid[p] EXCEPT ![row'[p].color] = @ + gain]
         /\ gain > 0 => bonus'[row'[p].team] = bonus[row'[p].team] + gain]_vars
  BY DEF Paid
<1>5. QED
  BY <1>1, <1>2, <1>3, <1>4, Invariant, PTL DEF Spec, RisesArePaid
=============================================================================
