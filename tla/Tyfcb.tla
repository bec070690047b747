------------------------------- MODULE Tyfcb -------------------------------
(***************************************************************************)
(* TYFCB transactions: submission, moderation and voiding, as concurrent   *)
(* HTTP requests against PostgreSQL (usecase/tyfcb.go with                 *)
(* repository/postgres/tyfcb.go, ledger.go and db.go).                     *)
(*                                                                         *)
(* A request is served by one goroutine.  It reads the entry, reads the    *)
(* giver, and only then opens a transaction in which a guarded UPDATE and  *)
(* an INSERT into score_ledger commit or roll back together.  Other        *)
(* requests run between any two of these steps.  Under READ COMMITTED the  *)
(* guarded UPDATE waits for the row lock and evaluates its WHERE clause on *)
(* the row it finds then, not on the row the request read.                 *)
(*                                                                         *)
(* A definition named Op_Defect is a defective form of Op, never used by   *)
(* the specification: it shows that a property can fail.                   *)
(***************************************************************************)
EXTENDS Scoring, Sequences, FiniteSets

CONSTANTS
  Entry,        \* identifiers of the entries that may be filed
  Member,       \* members of the season
  Team,         \* teams of the season
  Handler,      \* goroutines that may serve a request at the same time
  Nilai,        \* rupiah amounts a submission may carry
  Event,        \* weekly events that may cover the transaction date
  MaxRequests,  \* bound: requests served in a behaviour
  None          \* no entry, no member, no team, no lock holder

ASSUME NoneAssumption ==
  None \notin Entry \cup Member \cup Team \cup Handler
ASSUME EntryAssumption == IsFiniteSet(Entry)
ASSUME AmountsAssumption == Nilai \subseteq Nat \ {0}
ASSUME MaxRequestsAssumption == MaxRequests \in Nat

VARIABLES
  status,   \* tyfcb_entries.status, "absent" before the insert
  filed,    \* the immutable columns of tyfcb_entries
  team,     \* members.team_id
  ledger,   \* score_ledger rows in commit order
  badge,    \* members holding FIRST_BLOOD in member_badges
  lock,     \* which open transaction holds the row lock of an entry
  req,      \* the request each handler is serving
  served    \* requests accepted so far

tables == <<status, filed, team, ledger, badge>>
vars   == <<status, filed, team, ledger, badge, lock, req, served>>

(***************************************************************************)
(* The values of the variables                                             *)
(***************************************************************************)
Moderated == {"pending", "verified", "rejected"}   \* what SetStatus accepts
Statuses  == Moderated \cup {"void", "absent"}

Filing == [ giver    : Member \cup {None},    \* the buyer, who earns the points
            receiver : Member \cup {None},    \* the seller
            ordinal  : Nat,                   \* pair_ordinal
            score    : Int ]                  \* computed_score

Unfiled == [giver |-> None, receiver |-> None, ordinal |-> 0, score |-> 0]

LedgerRow == [ ref    : Entry,
               member : Member \cup {None},
               team   : Team \cup {None},
               points : Int,
               note   : {"verified", "reversal", "void"} ]

Request == [ at    : {"idle", "create", "giver", "guard", "append", "commit", "badges"},
             op    : {"none", "submit", "setStatus", "void"},
             entry : Entry \cup {None},
             to    : Statuses,              \* the status asked for
             seen  : Statuses,              \* the status read before the transaction
             team  : Team \cup {None},      \* the giver's team, read before it too
             giver : Member \cup {None}, receiver : Member \cup {None},
             prior : Nat,                   \* CountPair
             rows  : Seq(LedgerRow) ]       \* rows inserted by the open transaction

Idle == [ at |-> "idle", op |-> "none", entry |-> None, to |-> "absent",
          seen |-> "absent", team |-> None, giver |-> None, receiver |-> None,
          prior |-> 0, rows |-> <<>> ]

TypeOK ==
  /\ status \in [Entry -> Statuses]
  /\ filed  \in [Entry -> Filing]
  /\ team   \in [Member -> Team \cup {None}]
  /\ ledger \in Seq(LedgerRow)
  /\ badge  \subseteq Member
  /\ lock   \in [Entry -> Handler \cup {None}]
  /\ req    \in [Handler -> Request]
  /\ served \in Nat

Init ==
  /\ status = [e \in Entry |-> "absent"]
  /\ filed  = [e \in Entry |-> Unfiled]
  /\ team   \in [Member -> Team]
  /\ ledger = <<>>
  /\ badge  = {}
  /\ lock   = [e \in Entry |-> None]
  /\ req    = [h \in Handler |-> Idle]
  /\ served = 0

(***************************************************************************)
(* Submit: count the pair, then insert.  There is no transaction around    *)
(* the two, so another submission of the pair may land in between.         *)
(***************************************************************************)
PairEntries(g, r) ==
  { e \in Entry : status[e] # "absent" /\ filed[e].giver = g /\ filed[e].receiver = r }

CountPair(g, r) == Cardinality(PairEntries(g, r))

(* Bound: a submission is only accepted while an identifier is left for it. *)
EntryLeft ==
  Cardinality({e \in Entry : status[e] # "absent"})
    + Cardinality({h \in Handler : req[h].at = "create"}) < Cardinality(Entry)

SubmitRead(h) ==
  /\ req[h].at = "idle" /\ served < MaxRequests /\ EntryLeft
  /\ \E g, r \in Member :
       /\ g # r
       /\ req' = [req EXCEPT ![h] = [Idle EXCEPT !.at = "create", !.op = "submit",
                                                 !.giver = g, !.receiver = r,
                                                 !.prior = CountPair(g, r)]]
  /\ served' = served + 1
  /\ UNCHANGED <<tables, lock>>

PairOrdinal(h) == req[h].prior + 1

NewFiling(h, nilai, event, facts) ==
  LET n == PairOrdinal(h) IN
  [ giver |-> req[h].giver, receiver |-> req[h].receiver, ordinal |-> n,
    score |-> TyfcbScore(Band(nilai), n, TyfcbMultiplier(event, n, facts)) ]

SubmitCreate(h) ==
  /\ req[h].at = "create"
  /\ \E e \in Entry, nilai \in Nilai, event \in Event, facts \in TyfcbFacts :
       /\ status[e] = "absent"
       /\ status' = [status EXCEPT ![e] = "pending"]
       /\ filed'  = [filed EXCEPT ![e] = NewFiling(h, nilai, event, facts)]
  /\ req' = [req EXCEPT ![h] = Idle]
  /\ UNCHANGED <<team, ledger, badge, lock, served>>

(***************************************************************************)
(* SetStatus and Void: the reads that precede the transaction.  A request  *)
(* that an early return refuses changes nothing and is not a step.         *)
(***************************************************************************)
Accept(h, op, e, to) ==
  /\ req[h].at = "idle" /\ served < MaxRequests
  /\ status[e] \notin {"absent", "void"}
  /\ req' = [req EXCEPT ![h] = [Idle EXCEPT !.at = "giver", !.op = op, !.entry = e,
                                            !.to = to, !.seen = status[e]]]
  /\ served' = served + 1
  /\ UNCHANGED <<tables, lock>>

SetStatusRead(h) ==
  \E e \in Entry, to \in Moderated : status[e] # to /\ Accept(h, "setStatus", e, to)

VoidRead(h) == \E e \in Entry : Accept(h, "void", e, "void")

(* The giver's team is read after the entry and before the transaction. *)
ReadGiver(h) ==
  /\ req[h].at = "giver"
  /\ req' = [req EXCEPT ![h].team = team[filed[req[h].entry].giver],
                        ![h].at   = IF req[h].op = "void" THEN "append" ELSE "guard"]
  /\ UNCHANGED <<tables, lock, served>>

(***************************************************************************)
(* The transaction.  Its UPDATE waits while another transaction holds the  *)
(* row, then compares the committed status with the one the request read.  *)
(***************************************************************************)
RowUnlocked_NoRowLock(h) == TRUE
RowStillAt_NoGuard(h)    == TRUE

RowUnlocked(h) == lock[req[h].entry] = None

(* where id = $1 and status = <the status the request read> *)
RowStillAt(h) == status[req[h].entry] = req[h].seen

GuardedUpdate(h) ==
  /\ req[h].at = "guard"
  /\ RowUnlocked(h) /\ RowStillAt(h)
  /\ lock' = [lock EXCEPT ![req[h].entry] = h]
  /\ req'  = [req EXCEPT ![h].at = IF req[h].op = "void" THEN "commit" ELSE "append"]
  /\ UNCHANGED <<tables, served>>

(* Zero rows updated: the use case returns Conflict and the transaction,   *)
(* with any reversal it inserted, rolls back.                              *)
GuardLost(h) ==
  /\ req[h].at = "guard"
  /\ RowUnlocked(h) /\ ~RowStillAt(h)
  /\ req' = [req EXCEPT ![h] = Idle]
  /\ UNCHANGED <<tables, lock, served>>

Reverses_OnlyRejections(h) == req[h].seen = "verified" /\ req[h].to = "rejected"

Credits(h)  == req[h].seen # "verified" /\ req[h].to = "verified"
Reverses(h) == req[h].seen = "verified" /\ req[h].to # "verified"

PointsRow(h) ==
  LET e == req[h].entry IN
  [ ref    |-> e,
    member |-> filed[e].giver,
    team   |-> req[h].team,
    points |-> IF Reverses(h) THEN - filed[e].score ELSE filed[e].score,
    note   |-> CASE Credits(h) -> "verified"
                 [] Reverses(h) /\ req[h].op = "setStatus" -> "reversal"
                 [] OTHER -> "void" ]

RowsToAppend(h) == IF Credits(h) \/ Reverses(h) THEN <<PointsRow(h)>> ELSE <<>>

(* The end of a transaction, committed or not, gives its row locks back. *)
LocksAfter_Kept(h) == lock

LocksAfter(h) == [e \in Entry |-> IF lock[e] = h THEN None ELSE lock[e]]

(* The INSERT into score_ledger: after the UPDATE in SetStatus, before it in Void. *)
AppendPoints(h) ==
  /\ req[h].at = "append"
  /\ req' = [req EXCEPT ![h].rows = RowsToAppend(h),
                        ![h].at   = IF req[h].op = "void" THEN "guard" ELSE "commit"]
  /\ UNCHANGED <<tables, lock, served>>

(* Void does not re-evaluate badges; SetStatus does, after the commit. *)
Commit(h) ==
  /\ req[h].at = "commit"
  /\ status' = [status EXCEPT ![req[h].entry] = req[h].to]
  /\ ledger' = ledger \o req[h].rows
  /\ lock'   = LocksAfter(h)
  /\ req'    = [req EXCEPT ![h] = IF req[h].op = "void" THEN Idle
                                  ELSE [@ EXCEPT !.at = "badges", !.rows = <<>>]]
  /\ UNCHANGED <<filed, team, badge, served>>

(***************************************************************************)
(* Badges.EvaluateQuietly for the giver: of the twelve rules, the one that *)
(* reads only TYFCB entries.  Awarding is an insert that does nothing on   *)
(* conflict, and no code path deletes a badge.                             *)
(***************************************************************************)
VerifiedBy_AnyStatus(m) == { e \in Entry : filed[e].giver = m }

VerifiedBy(m) == { e \in Entry : status[e] = "verified" /\ filed[e].giver = m }

EvaluateBadges(h) ==
  /\ req[h].at = "badges"
  /\ LET m == filed[req[h].entry].giver
     IN  badge' = IF VerifiedBy(m) # {} THEN badge \cup {m} ELSE badge
  /\ req' = [req EXCEPT ![h] = Idle]
  /\ UNCHANGED <<status, filed, team, ledger, lock, served>>

(***************************************************************************)
(* A request may stop anywhere: a database error, the 30 second timeout of *)
(* the router, a panic, or the process going down.  The open transaction   *)
(* rolls back and its row lock is released.                                *)
(***************************************************************************)
Fail(h) ==
  /\ req[h].at # "idle"
  /\ lock' = LocksAfter(h)
  /\ req'  = [req EXCEPT ![h] = Idle]
  /\ UNCHANGED <<tables, served>>

(* An administrator moves a member to another team, or out of any. *)
MoveMember(m) ==
  /\ \E t \in Team \cup {None} : team[m] # t /\ team' = [team EXCEPT ![m] = t]
  /\ UNCHANGED <<status, filed, ledger, badge, lock, req, served>>

(***************************************************************************)
(* Specification                                                           *)
(***************************************************************************)
Step(h) ==
  \/ SubmitCreate(h) \/ ReadGiver(h) \/ GuardedUpdate(h) \/ GuardLost(h)
  \/ AppendPoints(h) \/ Commit(h) \/ EvaluateBadges(h)

Arrive(h) == SubmitRead(h) \/ SetStatusRead(h) \/ VoidRead(h)

Next ==
  \/ \E h \in Handler : Arrive(h) \/ Step(h) \/ Fail(h)
  \/ \E m \in Member : MoveMember(m)

Spec == Init /\ [][Next]_vars

(* An accepted request keeps running: its goroutine is scheduled and its   *)
(* queries return.  Nobody has to send a request, and none has to fail.    *)
Fairness == \A h \in Handler : WF_vars(Step(h))

FairSpec == Spec /\ Fairness

(***************************************************************************)
(* Properties                                                              *)
(***************************************************************************)
CreditRows(e)   == { i \in 1..Len(ledger) : ledger[i].ref = e /\ ledger[i].note = "verified" }
ReversalRows(e) == { i \in 1..Len(ledger) : ledger[i].ref = e /\ ledger[i].note # "verified" }

(* The points the ledger holds for an entry, counted from its rows. *)
NetPoints(e) ==
  filed[e].score * (Cardinality(CreditRows(e)) - Cardinality(ReversalRows(e)))

(* Transactions that have written the row of entry e and not ended yet. *)
HoldsRow(h, e) ==
  /\ req[h].entry = e
  /\ \/ req[h].op = "setStatus" /\ req[h].at \in {"append", "commit"}
     \/ req[h].op = "void"      /\ req[h].at = "commit"

(* The row lock is held by exactly the transaction that wrote the row, and *)
(* the row still has the status that transaction read.                     *)
LocksMatch ==
  /\ \A h \in Handler, e \in Entry : lock[e] = h <=> HoldsRow(h, e)
  /\ \A h \in Handler, e \in Entry : HoldsRow(h, e) => status[e] = req[h].seen

(* What a request carries was read from rows that were there to be read: a *)
(* moderation request from a filed entry that was not void, of which it    *)
(* asks a different status.                                                *)
RequestSound(h) ==
  /\ req[h].at = "create" => req[h].giver \in Member /\ req[h].receiver \in Member
  /\ req[h].op \in {"setStatus", "void"} =>
       /\ req[h].entry \in Entry /\ status[req[h].entry] # "absent"
       /\ req[h].seen \in Moderated
       /\ req[h].to # req[h].seen
       /\ req[h].to \in (IF req[h].op = "void" THEN {"void"} ELSE Moderated)
  /\ req[h].at \in {"giver", "guard", "append", "commit", "badges"} =>
       req[h].op \in {"setStatus", "void"}
  /\ req[h].at = "commit" \/ (req[h].at = "guard" /\ req[h].op = "void") =>
       req[h].rows = RowsToAppend(h)

RequestsSound == \A h \in Handler : RequestSound(h)

(* An entry has a giver from its insert on, and nothing before. *)
FilingsSound ==
  \A e \in Entry : IF status[e] = "absent" THEN filed[e] = Unfiled
                                          ELSE filed[e].giver \in Member

(* Every ledger row of an entry is a credit or a reversal of exactly its   *)
(* score, in the name of its giver.                                        *)
RowsFaithful ==
  \A i \in 1..Len(ledger) :
    LET row == ledger[i] IN
    /\ status[row.ref] # "absent"
    /\ row.member = filed[row.ref].giver
    /\ row.points = IF row.note = "verified" THEN filed[row.ref].score
                                            ELSE - filed[row.ref].score

(* The ledger has one credit more than it has reversals for a verified     *)
(* entry, and as many of one as of the other for any other entry.  This is *)
(* "crossing into verified credits the points, leaving it writes an equal  *)
(* and opposite reversal" (usecase/tyfcb.go) at every committed state,     *)
(* whatever requests were racing and wherever one of them stopped.         *)
Balanced ==
  \A e \in Entry :
    Cardinality(CreditRows(e)) =
      Cardinality(ReversalRows(e)) + (IF status[e] = "verified" THEN 1 ELSE 0)

(* The inductive invariant of the proofs. *)
IInv ==
  /\ TypeOK
  /\ FilingsSound /\ LocksMatch /\ RequestsSound
  /\ RowsFaithful /\ Balanced

(* A member holds FIRST_BLOOD only if the ledger shows a verified entry of *)
(* theirs: badge evaluation runs after the commit and outside it, so it    *)
(* must never act on a status whose transaction did not commit.            *)
BadgeWasEarned ==
  \A m \in badge :
    \E i \in 1..Len(ledger) : ledger[i].member = m /\ ledger[i].note = "verified"

(* Nothing happens to a voided entry: its status stays, and no later       *)
(* commit of a request that read it before writes a row for it.            *)
VoidIsFinal ==
  [][\A e \in Entry :
       status[e] = "void" =>
         /\ status'[e] = "void"
         /\ CreditRows(e)' = CreditRows(e) /\ ReversalRows(e)' = ReversalRows(e)]_vars

(* A moderation decision is applied only to the status its request read: a *)
(* request that lost a race gets a conflict instead of overwriting.        *)
NoLostUpdate ==
  [][\A e \in Entry :
       status[e] # "absent" /\ status'[e] # status[e] =>
         \E h \in Handler :
           req[h].at = "commit" /\ req[h].entry = e /\ req[h].seen = status[e]]_vars

(* Every accepted request comes to an end, row locks or not. *)
EveryRequestEnds == \A h \in Handler : req[h].at # "idle" ~> req[h].at = "idle"

(* Moderation implements the promise of EntryBook: an entry's standing is  *)
(* its status, and what is counted for it is what the ledger's rows say.   *)
StandsAs(s) == CASE s = "absent"   -> "absent"
                 [] s = "verified" -> "counted"
                 [] s = "void"     -> "cancelled"
                 [] OTHER          -> "open"

StandingOf == [e \in Entry |-> StandsAs(status[e])]

Book == INSTANCE EntryBook WITH
          standing <- StandingOf,
          worth    <- [e \in Entry |-> filed[e].score],
          counted  <- [e \in Entry |-> NetPoints(e)]

BookSpec == Book!Spec
=============================================================================
