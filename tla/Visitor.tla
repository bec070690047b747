------------------------------ MODULE Visitor ------------------------------
(***************************************************************************)
(* Visitors: registration, attendance milestones, conversion and voiding,  *)
(* as concurrent HTTP requests (usecase/visitor.go with                    *)
(* repository/postgres/visitor.go and ledger.go).                          *)
(*                                                                         *)
(* The code reads the ledger only through SumBySource, so the ledger is    *)
(* kept as its sum per source: a visitor has one source for attendance     *)
(* and one for the conversion bonus.  A visitor is identified by contact,  *)
(* which the table keeps unique in a season.                               *)
(*                                                                         *)
(* A definition named Op_Defect is a defective form of Op, never used by   *)
(* the specification: it shows that a property can fail.                   *)
(***************************************************************************)
EXTENDS Scoring, FiniteSets

CONSTANTS
  Contact,      \* contacts that may be registered as visitors
  Member,       \* members who may invite
  Handler,      \* goroutines that may serve a request at the same time
  Event,        \* weekly events that may be running when a request is served
  MaxRequests,  \* bound: moderation requests served in a behaviour
  MayFail,      \* whether requests may stop before they end
  None          \* no inviter, no lock holder, no contact

ASSUME NoneAssumption == None \notin Member \cup Handler \cup Contact
ASSUME MaxRequestsAssumption == MaxRequests \in Nat
ASSUME MayFailAssumption == MayFail \in BOOLEAN

VARIABLES
  inviter,   \* visitors.inviter_id, None before the insert
  row,       \* the columns of visitors that moderation writes
  points,    \* the ledger's sum for each source of a visitor
  host,      \* members holding HOST in member_badges
  lock,      \* which open transaction holds the row lock of a visitor
  req,       \* the request each handler is serving
  served,    \* moderation requests accepted so far
  \* history, read by the properties only
  raced,     \* visitors who earned something while a void held their old sums
  lost       \* members one of whose badge evaluations was cut short

tables  == <<inviter, row, points, host>>
history == <<raced, lost>>
vars    == <<tables, lock, req, served, history>>

Columns == [status : VisitorStatus, converted : BOOLEAN, void : BOOLEAN]
Sources == [attendance : Int, conversion : Int]

NewColumns == [status |-> "terdaftar", converted |-> FALSE, void |-> FALSE]
NoPoints   == [attendance |-> 0, conversion |-> 0]

Steps == {"idle", "status", "statusPoints", "conversion", "conversionPoints",
          "sumAttendance", "sumConversion", "void", "commit", "badges"}

Request == [ at    : Steps,
             op    : {"none", "update", "void"},
             whom  : Contact \cup {None},
             seen  : Columns,      \* the row read before the transaction
             to    : Columns,      \* the row asked for
             event : Event,        \* the weekly event read before it
             earned : Int,         \* Void: the sums read before it
             delta : Sources ]     \* points appended by the open transaction

Idle == [ at |-> "idle", op |-> "none", whom |-> None, seen |-> NewColumns,
          to |-> NewColumns, event |-> CHOOSE e \in Event : TRUE,
          earned |-> 0, delta |-> NoPoints ]

ASSUME EventAssumption == Event # {}

TypeOK ==
  /\ inviter \in [Contact -> Member \cup {None}]
  /\ row     \in [Contact -> Columns]
  /\ points  \in [Contact -> Sources]
  /\ host    \subseteq Member
  /\ lock    \in [Contact -> Handler \cup {None}]
  /\ req     \in [Handler -> Request]
  /\ served  \in Nat
  /\ raced \subseteq Contact /\ lost \subseteq Member

Init ==
  /\ inviter = [v \in Contact |-> None]
  /\ row     = [v \in Contact |-> NewColumns]
  /\ points  = [v \in Contact |-> NoPoints]
  /\ host    = {}
  /\ lock    = [v \in Contact |-> None]
  /\ req     = [h \in Handler |-> Idle]
  /\ served  = 0
  /\ raced = {} /\ lost = {}

(***************************************************************************)
(* Register is one insert; a contact of the season is refused.             *)
(***************************************************************************)

NewContact(v) == inviter[v] = None

Register(m, v) ==
  /\ NewContact(v)
  /\ inviter' = [inviter EXCEPT ![v] = m]
  /\ UNCHANGED <<row, points, host, lock, req, served, history>>

(***************************************************************************)
(* Update and Void: the reads before the transaction.  A field the caller  *)
(* leaves out is a field asked to stay as it was read.                     *)
(***************************************************************************)

Exists(v) == inviter[v] # None

Accept(h, op, at, v, to, event) ==
  /\ req[h].at = "idle" /\ served < MaxRequests
  /\ Exists(v) /\ ~row[v].void
  /\ req' = [req EXCEPT ![h] = [Idle EXCEPT !.at = at, !.op = op, !.whom = v, !.seen = row[v],
                                            !.to = to, !.event = event]]
  /\ served' = served + 1
  /\ UNCHANGED <<tables, lock, history>>

UpdateRead(h) ==
  \E v \in Contact, s \in VisitorStatus, c \in BOOLEAN, event \in Event :
    Accept(h, "update", "status", v, [status |-> s, converted |-> c, void |-> FALSE], event)

VoidRead(h) ==
  \E v \in Contact : Accept(h, "void", "sumAttendance", v, [row[v] EXCEPT !.void = TRUE], Idle.event)

SumAttendance(h) ==
  /\ req[h].at = "sumAttendance"
  /\ req' = [req EXCEPT ![h].earned = points[req[h].whom].attendance, ![h].at = "sumConversion"]
  /\ UNCHANGED <<tables, lock, served, history>>

SumConversion(h) ==
  /\ req[h].at = "sumConversion"
  /\ req' = [req EXCEPT ![h].earned = @ + points[req[h].whom].conversion, ![h].at = "void"]
  /\ UNCHANGED <<tables, lock, served, history>>

(***************************************************************************)
(* The transaction.  A guarded UPDATE waits for the row lock; what it      *)
(* compares is the committed row, since a transaction that has written     *)
(* the row holds the lock.                                                 *)
(***************************************************************************)
RowFree(h) == lock[req[h].whom] \in {h, None}

StatusStill_NoGuard(h) == TRUE

(* where ... is_void = false *)
NotVoid(h) == ~row[req[h].whom].void

(* where ... status_hadir = <the status read> and is_void = false *)
StatusStill(h) == row[req[h].whom].status = req[h].seen.status /\ NotVoid(h)

(* where ... is_converted = <the flag read> and is_void = false *)
ConversionStill(h) == row[req[h].whom].converted = req[h].seen.converted /\ NotVoid(h)

StatusMoves(h)     == req[h].to.status # req[h].seen.status
ConversionMoves(h) == req[h].to.converted # req[h].seen.converted

LocksAfter(h) == [v \in Contact |-> IF lock[v] = h THEN None ELSE lock[v]]

(* A guarded UPDATE that matches the row locks it, one that does not ends  *)
(* the request with a conflict.                                            *)
Guarded(h, stands, next) ==
  /\ RowFree(h)
  /\ \/ /\ stands
        /\ lock' = [lock EXCEPT ![req[h].whom] = h]
        /\ req'  = [req EXCEPT ![h].at = next]
     \/ /\ ~stands
        /\ lock' = LocksAfter(h)
        /\ req'  = [req EXCEPT ![h] = Idle]
  /\ UNCHANGED <<tables, served, history>>

UpdateStatus(h) ==
  /\ req[h].at = "status" /\ StatusMoves(h)
  /\ Guarded(h, StatusStill(h), "statusPoints")

SameStatus(h) ==
  /\ req[h].at = "status" /\ ~StatusMoves(h)
  /\ req' = [req EXCEPT ![h].at = "conversion"]
  /\ UNCHANGED <<tables, lock, served, history>>

(* An award is boosted by today's event.  A correction settles what was    *)
(* credited to the plain worth of the lower status, whatever the event     *)
(* that granted it.                                                        *)
AttendanceDelta_Recomputed(h) ==
  LET d == VisitorStatusDelta(req[h].seen.status, req[h].to.status)
  IN  IF d > 0 THEN Boosted(d, VisitorMultiplier(req[h].event, FALSE)) ELSE d

AttendanceDelta(h) ==
  LET d == VisitorStatusDelta(req[h].seen.status, req[h].to.status)
  IN  IF d > 0 THEN Boosted(d, VisitorMultiplier(req[h].event, FALSE))
      ELSE VisitorCumulative[req[h].to.status] - points[req[h].whom].attendance

AppendStatusPoints(h) ==
  /\ req[h].at = "statusPoints"
  /\ req' = [req EXCEPT ![h].delta.attendance = AttendanceDelta(h), ![h].at = "conversion"]
  /\ UNCHANGED <<tables, lock, served, history>>

UpdateConversion(h) ==
  /\ req[h].at = "conversion" /\ ConversionMoves(h)
  /\ Guarded(h, ConversionStill(h), "conversionPoints")

SameConversion(h) ==
  /\ req[h].at = "conversion" /\ ~ConversionMoves(h)
  /\ req' = [req EXCEPT ![h].at = "commit"]
  /\ UNCHANGED <<tables, lock, served, history>>

ConversionDelta_Flat(h) ==
  IF req[h].to.converted THEN Boosted(ConversionPoints, VisitorMultiplier(req[h].event, TRUE))
                         ELSE - ConversionPoints

ConversionDelta(h) ==
  IF req[h].to.converted THEN Boosted(ConversionPoints, VisitorMultiplier(req[h].event, TRUE))
                         ELSE - points[req[h].whom].conversion

AppendConversionPoints(h) ==
  /\ req[h].at = "conversionPoints"
  /\ req' = [req EXCEPT ![h].delta.conversion = ConversionDelta(h), ![h].at = "commit"]
  /\ UNCHANGED <<tables, lock, served, history>>

(* Void appends the refund first; the sums behind it are the ones read     *)
(* before the transaction, and all of it goes to the attendance source.    *)
Refund_FromStatus(h) == VisitorCumulative[req[h].seen.status]

Refund(h) == req[h].earned

VoidRow(h) ==
  /\ req[h].at = "void" /\ RowFree(h)
  /\ \/ /\ NotVoid(h)
        /\ lock' = [lock EXCEPT ![req[h].whom] = h]
        /\ req'  = [req EXCEPT ![h].delta.attendance = - Refund(h), ![h].at = "commit"]
     \/ /\ ~NotVoid(h)
        /\ lock' = lock
        /\ req'  = [req EXCEPT ![h] = Idle]
  /\ UNCHANGED <<tables, served, history>>

(* Each UPDATE of the transaction wrote its own columns only. *)
Written(h) ==
  LET r == row[req[h].whom] IN
  [ status    |-> IF StatusMoves(h) THEN req[h].to.status ELSE r.status,
    converted |-> IF ConversionMoves(h) THEN req[h].to.converted ELSE r.converted,
    void      |-> r.void \/ req[h].op = "void" ]

Credited(h) ==
  LET p == points[req[h].whom] IN
  [ attendance |-> p.attendance + req[h].delta.attendance,
    conversion |-> p.conversion + req[h].delta.conversion ]

(* Update goes on to evaluate badges, Void does not. *)
AfterCommit_OnlyConversions(h) ==
  IF ~ConversionMoves(h) THEN Idle
  ELSE [Idle EXCEPT !.at = "badges", !.op = "update", !.whom = req[h].whom]

AfterCommit(h) ==
  IF req[h].op = "void" THEN Idle
  ELSE [Idle EXCEPT !.at = "badges", !.op = "update", !.whom = req[h].whom]

(* A void that has read the sums of v and not yet locked the row. *)
HoldsSums(g, v) ==
  req[g].whom = v /\ req[g].op = "void" /\ req[g].at \in {"sumConversion", "void"}

Commit(h) ==
  /\ req[h].at = "commit"
  /\ row'    = [row EXCEPT ![req[h].whom] = Written(h)]
  /\ points' = [points EXCEPT ![req[h].whom] = Credited(h)]
  /\ lock'   = LocksAfter(h)
  /\ req'    = [req EXCEPT ![h] = AfterCommit(h)]
  /\ LET v == req[h].whom
     IN  raced' = IF Credited(h) # points[v] /\ \E g \in Handler : HoldsSums(g, v)
                  THEN raced \cup {v} ELSE raced
  /\ UNCHANGED <<inviter, host, served, lost>>

(***************************************************************************)
(* Badges.EvaluateQuietly for the inviter: HOST needs one visitor who      *)
(* attended and is not void.  A badge is never taken back.                 *)
(***************************************************************************)
Attended(v) == inviter[v] # None /\ ~row[v].void /\ row[v].status # "terdaftar"

AttendedFor(m) == { v \in Contact : Attended(v) /\ inviter[v] = m }

EvaluateBadges(h) ==
  /\ req[h].at = "badges"
  /\ LET m == inviter[req[h].whom]
     IN  host' = IF AttendedFor(m) # {} THEN host \cup {m} ELSE host
  /\ req' = [req EXCEPT ![h] = Idle]
  /\ UNCHANGED <<inviter, row, points, lock, served, history>>

(* A request may stop anywhere; its transaction rolls back. *)
Fail(h) ==
  /\ MayFail /\ req[h].at # "idle"
  /\ lock' = LocksAfter(h)
  /\ req'  = [req EXCEPT ![h] = Idle]
  /\ lost' = IF req[h].at = "badges" THEN lost \cup {inviter[req[h].whom]} ELSE lost
  /\ UNCHANGED <<tables, served, raced>>

(***************************************************************************)
(* Specification                                                           *)
(***************************************************************************)
Step(h) ==
  \/ SumAttendance(h) \/ SumConversion(h) \/ VoidRow(h)
  \/ UpdateStatus(h) \/ SameStatus(h) \/ AppendStatusPoints(h)
  \/ UpdateConversion(h) \/ SameConversion(h) \/ AppendConversionPoints(h)
  \/ Commit(h) \/ EvaluateBadges(h)

(* Nobody sends a request and none is being served. *)
Quiet == (\A h \in Handler : req[h].at = "idle") /\ UNCHANGED vars

Next ==
  \/ Quiet
  \/ \E m \in Member, v \in Contact : Register(m, v)
  \/ \E h \in Handler : UpdateRead(h) \/ VoidRead(h) \/ Step(h) \/ Fail(h)

Spec == Init /\ [][Next]_vars

(* An accepted request keeps running; nobody has to send one. *)
Fairness == \A h \in Handler : WF_vars(Step(h))

FairSpec == Spec /\ Fairness

(***************************************************************************)
(* Properties                                                              *)
(***************************************************************************)

(* Transactions that have written the row of a visitor and not ended yet. *)
HoldsRow(h, v) ==
  /\ req[h].whom = v
  /\ \/ req[h].at \in {"statusPoints", "conversionPoints"}
     \/ req[h].at = "conversion" /\ StatusMoves(h)
     \/ req[h].at = "commit" /\ (StatusMoves(h) \/ ConversionMoves(h) \/ req[h].op = "void")

(* A row lock is held by exactly the transaction that wrote the row, and   *)
(* the columns it wrote still hold what its request read.                  *)
LockMatches(h, v) ==
  /\ lock[v] = h <=> HoldsRow(h, v)
  /\ HoldsRow(h, v) =>
       /\ ~row[v].void
       /\ req[h].op = "update" /\ StatusMoves(h) => row[v].status = req[h].seen.status
       /\ req[h].at \in {"conversionPoints", "commit"} /\ ConversionMoves(h) =>
            row[v].converted = req[h].seen.converted

(* The status points, and the conversion points, of a request are settled. *)
StatusSettled(r) ==
  r.at \in {"conversion", "conversionPoints", "commit"} /\ r.to.status # r.seen.status

ConversionSettled(r) == r.at = "commit" /\ r.to.converted # r.seen.converted

(* What an update is about to append takes the visitor from what the       *)
(* ledger holds to what the new status and conversion are worth.           *)
UpdateSound(r) ==
  /\ r.at \in {"status", "statusPoints", "conversion", "conversionPoints", "commit", "badges"}
  /\ ~r.seen.void /\ ~r.to.void
  /\ r.at = "statusPoints" => r.to.status # r.seen.status
  /\ r.at = "conversionPoints" => r.to.converted # r.seen.converted
  /\ IF StatusSettled(r)
     THEN LET c == VisitorCumulative[r.to.status]
          IN  /\ points[r.whom].attendance + r.delta.attendance \in c..(2 * c)
              /\ IF VisitorStatusDelta(r.seen.status, r.to.status) > 0
                 THEN r.delta.attendance > 0 ELSE r.delta.attendance < 0
     ELSE r.delta.attendance = 0
  /\ IF ConversionSettled(r)
     THEN points[r.whom].conversion + r.delta.conversion \in (IF r.to.converted THEN {100, 150, 200} ELSE {0})
     ELSE r.delta.conversion = 0

(* What a void is about to append takes back what the ledger holds, unless *)
(* the visitor earned something after the sums were read.                  *)
VoidSound(r) ==
  /\ r.at \in {"sumAttendance", "sumConversion", "void", "commit"}
  /\ r.to = [r.seen EXCEPT !.void = TRUE]
  /\ r.delta = IF r.at = "commit" THEN [attendance |-> - r.earned, conversion |-> 0] ELSE NoPoints
  /\ r.whom \notin raced =>
       /\ r.at = "sumConversion" => r.earned = points[r.whom].attendance
       /\ r.at \in {"void", "commit"} => r.earned = points[r.whom].attendance + points[r.whom].conversion

RequestSound(r) ==
  IF r.op = "none" THEN r = Idle
  ELSE /\ r.whom \in Contact /\ inviter[r.whom] # None
       /\ IF r.op = "update" THEN UpdateSound(r) ELSE VoidSound(r)

(* Together with the three invariants that follow, the inductive invariant *)
(* of moderation: row locks are with the                                   *)
(* transactions that wrote the rows, and what a request has read and       *)
(* computed by its step still agrees with the tables, however its reads    *)
(* and writes are mixed with those of others (usecase/visitor.go, Update   *)
(* and Void).                                                              *)
IInv ==
  /\ TypeOK
  /\ \A h \in Handler, v \in Contact : LockMatches(h, v)
  /\ \A h \in Handler : RequestSound(req[h])

(* A visitor who is not void has earned at least the plain worth of the    *)
(* status and at most twice that: what each step pays depends on the event *)
(* running when it is confirmed, and corrections in between settle it      *)
(* (usecase/visitor.go, Update).                                           *)
AttendanceWithinStatus ==
  \A v \in Contact :
    ~row[v].void =>
      points[v].attendance \in VisitorCumulative[row[v].status]..(2 * VisitorCumulative[row[v].status])

(* The conversion bonus is on the ledger exactly while the visitor counts  *)
(* as converted, and taking the conversion back gives back what it was     *)
(* worth when granted (usecase/visitor.go, Update).                        *)
ConversionExact ==
  \A v \in Contact :
    ~row[v].void =>
      points[v].conversion \in (IF row[v].converted THEN {100, 150, 200} ELSE {0})

(* "Void cancels a visitor and reverses every point it has earned so far,  *)
(* including the conversion bonus" (usecase/visitor.go:232): what a void   *)
(* visitor earned adds up to nothing, unless a milestone or a conversion   *)
(* committed after the void had read the sums it refunds.                  *)
VoidedIsWorthNothing ==
  \A v \in Contact :
    row[v].void /\ v \notin raced => points[v].attendance + points[v].conversion = 0

(* The same promise as it is written, without the exception: a milestone   *)
(* or a conversion that commits between the sums a void reads and the lock *)
(* it takes breaks it (usecase/visitor.go, Void).                          *)
VoidReversesEveryPoint ==
  \A v \in Contact : row[v].void => points[v].attendance + points[v].conversion = 0

(* A voided visitor never changes again and earns nothing more, whatever   *)
(* requests read it before.                                                *)
VoidIsFinal ==
  [][\A v \in Contact :
       row[v].void => row'[v] = row[v] /\ points'[v] = points[v]]_vars

(* The inviter of a visitor who attended holds HOST in the end, although   *)
(* the badge is evaluated after the commit and other requests may correct  *)
(* the status in between: only an evaluation that was cut short loses it   *)
(* (usecase/visitor.go, Update; usecase/badges.go).                        *)
HostAwarded ==
  \A v \in Contact : Attended(v) ~> (inviter[v] \in host \cup lost \/ ~Attended(v))
=============================================================================
