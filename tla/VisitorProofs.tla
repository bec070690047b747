---------------------------- MODULE VisitorProofs ----------------------------
(***************************************************************************)
(* Proofs about visitors, for any number of contacts, members, events and  *)
(* concurrent requests, whether they stop or not.                          *)
(***************************************************************************)
EXTENDS Visitor, TLAPS

USE NoneAssumption, MaxRequestsAssumption, MayFailAssumption, EventAssumption

(* IInv with what visitors are worth: a correction is sound only because   *)
(* the ledger held no less than the higher status was worth.               *)
AllInv == IInv /\ AttendanceWithinStatus /\ ConversionExact /\ VoidedIsWorthNothing

(***************************************************************************)
(* Lemmas                                                                  *)
(***************************************************************************)
LEMMA CumulativeIs ==
  /\ VisitorCumulative["terdaftar"] = 0
  /\ VisitorCumulative["hadir"] = 20
  /\ VisitorCumulative["hadir_penuh"] = 50
BY DEF VisitorCumulative, VisitorStatus

LEMMA DeltaIs ==
  ASSUME NEW s \in VisitorStatus, NEW t \in VisitorStatus, s # t
  PROVE  /\ VisitorCumulative[s] \in {0, 20, 50}
         /\ VisitorCumulative[t] = VisitorCumulative[s] + VisitorStatusDelta(s, t)
         /\ VisitorStatusDelta(s, t) \in {20, 30, 50} \/ VisitorStatusDelta(s, t) \in {-20, -30, -50}
BY CumulativeIs DEF VisitorStatus, VisitorStatusDelta

LEMMA MultiplierIs ==
  ASSUME NEW e, NEW c \in BOOLEAN
  PROVE  VisitorMultiplier(e, c) \in {2, 3, 4}
BY DEF VisitorMultiplier

LEMMA BoostedIs ==
  ASSUME NEW p \in {20, 30, 50, 100}, NEW m \in {2, 3, 4}
  PROVE  /\ Boosted(p, m) \in Int /\ p <= Boosted(p, m) /\ Boosted(p, m) <= 2 * p
         /\ p = 100 => Boosted(p, m) \in {100, 150, 200}
<1>1. m = 2 => Boosted(p, m) = p
  BY DEF Boosted
<1>2. m = 3 => Boosted(p, m) = (6 * p + 2) \div 4
  BY DEF Boosted, RoundedQuotient
<1>3. m = 4 => Boosted(p, m) = (8 * p + 2) \div 4
  BY DEF Boosted, RoundedQuotient
<1>4. /\ (6 * 20 + 2) \div 4 = 30 /\ (6 * 30 + 2) \div 4 = 45
      /\ (6 * 50 + 2) \div 4 = 75 /\ (6 * 100 + 2) \div 4 = 150
      /\ (8 * 20 + 2) \div 4 = 40 /\ (8 * 30 + 2) \div 4 = 60
      /\ (8 * 50 + 2) \div 4 = 100 /\ (8 * 100 + 2) \div 4 = 200
  OBVIOUS
<1>5. QED
  BY <1>1, <1>2, <1>3, <1>4

LEMMA IdleOK ==
  /\ Idle \in Request /\ RequestSound(Idle)
  /\ Idle.at = "idle" /\ Idle.op = "none" /\ Idle.whom = None /\ Idle.delta = NoPoints
  /\ Idle.seen = NewColumns /\ Idle.to = NewColumns /\ Idle.event \in Event
  /\ NewColumns \in Columns /\ NoPoints \in Sources
<1>1. Idle.event \in Event
  BY DEF Idle
<1>2. NewColumns \in Columns /\ NoPoints \in Sources
  BY DEF NewColumns, Columns, VisitorStatus, NoPoints, Sources
<1>3. QED
  BY <1>1, <1>2 DEF Idle, Request, Steps, RequestSound

(* Where a request that is sound can stand. *)
LEMMA SoundAt ==
  ASSUME NEW r \in Request, RequestSound(r)
  PROVE  /\ r.at = "idle" => r.op = "none"
         /\ r.at \in {"status", "statusPoints", "conversion", "conversionPoints", "badges"} => r.op = "update"
         /\ r.at \in {"sumAttendance", "sumConversion", "void"} => r.op = "void"
         /\ r.at # "idle" => r.op # "none" /\ r.whom \in Contact /\ inviter[r.whom] # None
         /\ r.op = "update" => UpdateSound(r)
         /\ r.op # "none" /\ r.op # "update" => VoidSound(r)
BY IdleOK DEF RequestSound, UpdateSound, VoidSound, Request, Steps

(* A handler that moves on while the tables stay as they are.              *)
LEMMA MoveKeeps ==
  ASSUME AllInv, NEW h \in Handler, NEW r \in Request, req' = [req EXCEPT ![h] = r],
         UNCHANGED <<inviter, row, points, raced>>,
         host' \subseteq Member, lost' \subseteq Member, served' \in Nat,
         lock' \in [Contact -> Handler \cup {None}],
         \A v \in Contact, g \in Handler : g # h => (lock'[v] = g <=> lock[v] = g),
         RequestSound(r), \A v \in Contact : LockMatches(h, v)'
  PROVE  AllInv'
<1>1. /\ req' \in [Handler -> Request]
      /\ \A g \in Handler : req'[g] = IF g = h THEN r ELSE req[g]
  BY DEF AllInv, IInv, TypeOK
<1>2. TypeOK'
  BY <1>1 DEF AllInv, IInv, TypeOK
<1>3. \A g \in Handler : RequestSound(req'[g])
  BY <1>1 DEF AllInv, IInv
<1>5. \A g \in Handler : RequestSound(req[g])'
  <2>. SUFFICES ASSUME NEW g \in Handler PROVE RequestSound(req[g])'
    OBVIOUS
  <2>1. RequestSound(req'[g])
    BY <1>3
  <2>2. QED
    BY <2>1 DEF RequestSound, UpdateSound, VoidSound, StatusSettled, ConversionSettled
<1>6. \A g \in Handler, v \in Contact : LockMatches(g, v)'
  <2>. SUFFICES ASSUME NEW g \in Handler, NEW v \in Contact, g # h PROVE LockMatches(g, v)'
    OBVIOUS
  <2>1. req'[g] = req[g] /\ LockMatches(g, v)
    BY <1>1 DEF AllInv, IInv
  <2>2. QED
    BY <2>1 DEF LockMatches, HoldsRow, StatusMoves, ConversionMoves
<1>7. AttendanceWithinStatus' /\ ConversionExact' /\ VoidedIsWorthNothing'
  BY DEF AllInv, AttendanceWithinStatus, ConversionExact, VoidedIsWorthNothing
<1>8. QED
  BY <1>2, <1>5, <1>6, <1>7 DEF AllInv, IInv

(* The row locks a request leaves when it ends. *)
LEMMA ReleaseOK ==
  ASSUME TypeOK, NEW h \in Handler, lock' = LocksAfter(h)
  PROVE  /\ lock' \in [Contact -> Handler \cup {None}]
         /\ \A v \in Contact : lock'[v] # h
         /\ \A v \in Contact, g \in Handler : g # h => (lock'[v] = g <=> lock[v] = g)
BY DEF TypeOK, LocksAfter

(* A request ends, whatever it was about to append. *)
LEMMA EndKeeps ==
  ASSUME AllInv, NEW h \in Handler, req' = [req EXCEPT ![h] = Idle],
         UNCHANGED <<inviter, row, points, raced>>,
         host' \subseteq Member, lost' \subseteq Member, served' \in Nat,
         lock' = LocksAfter(h)
  PROVE  AllInv'
<1>1. TypeOK
  BY DEF AllInv, IInv
<1>2. req'[h] = Idle
  BY <1>1 DEF TypeOK
<1>3. \A v \in Contact : LockMatches(h, v)'
  BY <1>1, <1>2, IdleOK, ReleaseOK DEF LockMatches, HoldsRow
<1>4. QED
  BY <1>1, <1>3, IdleOK, ReleaseOK, MoveKeeps

(***************************************************************************)
(* Each step keeps the invariant                                           *)
(***************************************************************************)
LEMMA InitAllInv == Init => AllInv
<1>. SUFFICES ASSUME Init PROVE AllInv
  OBVIOUS
<1>. USE DEF Init
<1>1. TypeOK
  BY IdleOK DEF TypeOK
<1>2. \A h \in Handler : req[h] = Idle
  OBVIOUS
<1>3. \A h \in Handler : RequestSound(req[h])
  BY <1>2, IdleOK
<1>4. \A h \in Handler, v \in Contact : LockMatches(h, v)
  BY <1>2, IdleOK DEF LockMatches, HoldsRow
<1>5. \A v \in Contact : row[v] = NewColumns /\ points[v] = NoPoints
  OBVIOUS
<1>6. AttendanceWithinStatus /\ ConversionExact /\ VoidedIsWorthNothing
  BY <1>5, CumulativeIs DEF AttendanceWithinStatus, ConversionExact, VoidedIsWorthNothing, NewColumns, NoPoints
<1>7. QED
  BY <1>1, <1>3, <1>4, <1>6 DEF AllInv, IInv

LEMMA RegisterKeeps ==
  ASSUME AllInv, NEW m \in Member, NEW v \in Contact, Register(m, v)
  PROVE  AllInv'
<1>1. /\ UNCHANGED <<row, points, host, lock, req, served, raced, lost>>
      /\ inviter' = [inviter EXCEPT ![v] = m]
  BY DEF Register, history
<1>2. TypeOK'
  BY <1>1 DEF AllInv, IInv, TypeOK
<1>3. \A w \in Contact : inviter[w] # None => inviter'[w] # None
  BY <1>1 DEF AllInv, IInv, TypeOK
<1>4a. \A h \in Handler : RequestSound(req[h])'
  BY <1>1, <1>3, SMTT(30) DEF AllInv, IInv, RequestSound, UpdateSound, VoidSound, StatusSettled, ConversionSettled
<1>4. \A h \in Handler, w \in Contact : LockMatches(h, w)'
  BY <1>1 DEF AllInv, IInv, LockMatches, HoldsRow, StatusMoves, ConversionMoves
<1>5. QED
  BY <1>1, <1>2, <1>4a, <1>4 DEF AllInv, IInv, AttendanceWithinStatus, ConversionExact, VoidedIsWorthNothing

(* A request is accepted for a row that is not void. *)
LEMMA AcceptKeeps ==
  ASSUME AllInv, NEW h \in Handler, UpdateRead(h) \/ VoidRead(h)
  PROVE  AllInv'
<1>1. TypeOK /\ served \in Nat /\ req[h] \in Request /\ RequestSound(req[h])
  BY DEF AllInv, IInv, TypeOK
<1>2. PICK v \in Contact, op \in {"update", "void"}, at \in {"status", "sumAttendance"}, to \in Columns, event \in Event :
        /\ Accept(h, op, at, v, to, event)
        /\ \/ op = "update" /\ at = "status" /\ ~to.void
           \/ op = "void" /\ at = "sumAttendance" /\ to = [row[v] EXCEPT !.void = TRUE]
  <2>1. CASE UpdateRead(h)
    <3>1. PICK v \in Contact, s \in VisitorStatus, c \in BOOLEAN, event \in Event :
            Accept(h, "update", "status", v, [status |-> s, converted |-> c, void |-> FALSE], event)
      BY <2>1 DEF UpdateRead
    <3>2. [status |-> s, converted |-> c, void |-> FALSE] \in Columns
      BY DEF Columns
    <3>3. QED
      BY <3>1, <3>2
  <2>2. CASE VoidRead(h)
    <3>1. PICK v \in Contact : Accept(h, "void", "sumAttendance", v, [row[v] EXCEPT !.void = TRUE], Idle.event)
      BY <2>2 DEF VoidRead
    <3>. DEFINE r == row[v]
    <3>2. r \in Columns
      BY <1>1 DEF TypeOK
    <3>3. [r EXCEPT !.void = TRUE] \in Columns
      BY <3>2 DEF Columns
    <3>4. QED
      BY <3>1, <3>3, IdleOK
  <2>3. QED
    BY <2>1, <2>2
<1>. DEFINE r == [Idle EXCEPT !.at = at, !.op = op, !.whom = v, !.seen = row[v], !.to = to, !.event = event]
<1>3. /\ req[h].at = "idle" /\ ~row[v].void /\ inviter[v] # None /\ req' = [req EXCEPT ![h] = r] /\ served' = served + 1
      /\ UNCHANGED <<inviter, row, points, host, lock, raced, lost>>
  BY <1>2 DEF Accept, Exists, tables, history
<1>4. row[v] \in Columns
  BY <1>1 DEF TypeOK
<1>5. /\ r \in Request /\ r.at = at /\ r.op = op /\ r.whom = v /\ r.seen = row[v] /\ r.to = to /\ r.delta = NoPoints
  BY <1>2, <1>4, IdleOK DEF Request, Steps
<1>6. RequestSound(r)
  <2>1. CASE op = "update"
    BY <1>2, <1>3, <1>5, <2>1 DEF RequestSound, UpdateSound, StatusSettled, ConversionSettled, NoPoints
  <2>2. CASE op = "void"
    BY <1>2, <1>3, <1>5, <2>2 DEF RequestSound, VoidSound
  <2>3. QED
    BY <2>1, <2>2
<1>7. req'[h] = r
  BY <1>1, <1>3 DEF TypeOK
<1>. HIDE DEF r
<1>8. \A w \in Contact : LockMatches(h, w)'
  <2>1. \A w \in Contact : lock[w] # h
    BY <1>3 DEF AllInv, IInv, LockMatches, HoldsRow
  <2>2. QED
    BY <1>2, <1>3, <1>5, <1>7, <2>1 DEF LockMatches, HoldsRow
<1>9. /\ host' \subseteq Member /\ lost' \subseteq Member /\ served' \in Nat
      /\ lock' \in [Contact -> Handler \cup {None}]
  BY <1>1, <1>3 DEF TypeOK
<1>10. QED
  BY <1>3, <1>5, <1>6, <1>8, <1>9, MoveKeeps

(* Void reads the sums it refunds, before its transaction. *)
LEMMA SumKeeps ==
  ASSUME AllInv, NEW h \in Handler, SumAttendance(h) \/ SumConversion(h)
  PROVE  AllInv'
<1>1. TypeOK /\ req[h] \in Request /\ RequestSound(req[h]) /\ req[h].at \in {"sumAttendance", "sumConversion"}
  BY DEF AllInv, IInv, TypeOK, SumAttendance, SumConversion
<1>2. req[h].op = "void" /\ req[h].whom \in Contact /\ VoidSound(req[h]) /\ inviter[req[h].whom] # None
  BY <1>1, SoundAt
<1>. DEFINE p == points[req[h].whom]
<1>3. p \in Sources /\ p.attendance \in Int /\ p.conversion \in Int
  BY <1>1, <1>2 DEF TypeOK, Sources
<1>4. UNCHANGED <<inviter, row, points, host, lock, served, raced, lost>>
  BY DEF SumAttendance, SumConversion, tables, history
<1>5. PICK r \in Request :
        /\ req' = [req EXCEPT ![h] = r] /\ RequestSound(r)
        /\ r.whom = req[h].whom /\ r.at \in {"sumConversion", "void"}
  <2>1. CASE SumAttendance(h)
    <3>. DEFINE r == [req[h] EXCEPT !.earned = p.attendance, !.at = "sumConversion"]
    <3>1. r \in Request
      BY <1>1, <1>3 DEF Request, Steps
    <3>2. RequestSound(r)
      BY <1>1, <1>2, <2>1 DEF SumAttendance, RequestSound, VoidSound, Request
    <3>3. req' = [req EXCEPT ![h] = r]
      BY <1>1, <2>1 DEF SumAttendance, TypeOK
    <3>4. QED
      BY <1>1, <3>1, <3>2, <3>3 DEF Request
  <2>2. CASE SumConversion(h)
    <3>. DEFINE sum == req[h].earned + p.conversion
                r   == [req[h] EXCEPT !.earned = sum, !.at = "void"]
    <3>0. sum \in Int
      BY <1>1, <1>3 DEF Request
    <3>1. r \in Request
      BY <1>1, <3>0 DEF Request, Steps
    <3>2. RequestSound(r)
      BY <1>1, <1>2, <2>2 DEF SumConversion, RequestSound, VoidSound, Request
    <3>3. req' = [req EXCEPT ![h] = r]
      BY <1>1, <2>2 DEF SumConversion, TypeOK
    <3>4. QED
      BY <1>1, <3>1, <3>2, <3>3 DEF Request
  <2>3. QED
    BY <2>1, <2>2
<1>6. \A w \in Contact : LockMatches(h, w)'
  <2>1. \A w \in Contact : lock[w] # h
    BY <1>1 DEF AllInv, IInv, LockMatches, HoldsRow
  <2>2. req'[h] = r
    BY <1>1, <1>5 DEF TypeOK
  <2>3. QED
    BY <1>4, <1>5, <2>1, <2>2 DEF LockMatches, HoldsRow
<1>7. QED
  BY <1>1, <1>4, <1>5, <1>6, MoveKeeps DEF TypeOK

(* A guarded UPDATE takes a free row lock. *)
LEMMA LockOK ==
  ASSUME AllInv, NEW h \in Handler, req[h].whom \in Contact, RowFree(h),
         lock' = [lock EXCEPT ![req[h].whom] = h]
  PROVE  /\ lock' \in [Contact -> Handler \cup {None}]
         /\ lock'[req[h].whom] = h
         /\ \A v \in Contact : v # req[h].whom => lock'[v] = lock[v]
         /\ \A v \in Contact, g \in Handler : g # h => (lock'[v] = g <=> lock[v] = g)
BY DEF AllInv, IInv, TypeOK, RowFree

(* A request holds no row but that of its visitor. *)
LEMMA OwnRowOnly ==
  ASSUME AllInv, NEW h \in Handler, NEW v \in Contact, v # req[h].whom
  PROVE  lock[v] # h
BY DEF AllInv, IInv, LockMatches, HoldsRow

(* A step of an update that keeps its locks. *)
LEMMA StayKeeps ==
  ASSUME AllInv, NEW h \in Handler, NEW r \in Request, req' = [req EXCEPT ![h] = r],
         req[h].op = "update", RequestSound(r), UNCHANGED <<tables, lock, served, history>>,
         r.whom = req[h].whom, r.op = req[h].op, r.seen = req[h].seen, r.to = req[h].to,
         \/ req[h].at = "status" /\ r.at = "conversion" /\ ~StatusMoves(h)
         \/ req[h].at = "statusPoints" /\ r.at = "conversion" /\ StatusMoves(h)
         \/ req[h].at = "conversion" /\ r.at = "commit" /\ ~ConversionMoves(h)
         \/ req[h].at = "conversionPoints" /\ r.at = "commit" /\ ConversionMoves(h)
  PROVE  AllInv'
<1>1. TypeOK /\ UNCHANGED <<inviter, row, points, host, raced, lost>>
  BY DEF AllInv, IInv, tables, history
<1>2. req'[h] = r
  BY <1>1 DEF TypeOK
<1>3. \A v \in Contact : LockMatches(h, v)'
  <2>. SUFFICES ASSUME NEW v \in Contact PROVE LockMatches(h, v)'
    OBVIOUS
  <2>1. LockMatches(h, v)
    BY DEF AllInv, IInv
  <2>2. (StatusMoves(h)' <=> StatusMoves(h)) /\ (ConversionMoves(h)' <=> ConversionMoves(h))
    BY <1>2 DEF StatusMoves, ConversionMoves
  <2>3. HoldsRow(h, v)' <=> HoldsRow(h, v)
    BY <1>2, <2>2 DEF HoldsRow
  <2>4. QED
    BY <1>1, <1>2, <2>1, <2>2, <2>3 DEF LockMatches
<1>4. QED
  BY <1>1, <1>3, MoveKeeps DEF TypeOK

LEMMA SameKeeps ==
  ASSUME AllInv, NEW h \in Handler, SameStatus(h) \/ SameConversion(h)
  PROVE  AllInv'
<1>1. /\ TypeOK /\ req[h] \in Request /\ RequestSound(req[h]) /\ UNCHANGED <<tables, lock, served, history>>
      /\ \/ req[h].at = "status" /\ ~StatusMoves(h)
         \/ req[h].at = "conversion" /\ ~ConversionMoves(h)
  BY DEF AllInv, IInv, TypeOK, SameStatus, SameConversion
<1>2. req[h].op = "update" /\ UpdateSound(req[h]) /\ req[h].whom \in Contact /\ inviter[req[h].whom] # None
  BY <1>1, SoundAt
<1>. DEFINE at == IF req[h].at = "status" THEN "conversion" ELSE "commit"
            r  == [req[h] EXCEPT !.at = at]
<1>3. req' = [req EXCEPT ![h] = r]
  BY <1>1 DEF SameStatus, SameConversion, TypeOK
<1>4. /\ r \in Request /\ r.at = at /\ r.whom = req[h].whom /\ r.op = req[h].op /\ r.seen = req[h].seen
      /\ r.to = req[h].to /\ r.delta = req[h].delta
  BY <1>1 DEF Request, Steps
<1>. HIDE DEF r
<1>5. RequestSound(r)
  BY <1>1, <1>2, <1>4 DEF RequestSound, UpdateSound, StatusSettled, ConversionSettled, StatusMoves, ConversionMoves
<1>6. QED
  BY <1>1, <1>2, <1>3, <1>4, <1>5, StayKeeps

(* An award takes a visitor from within the bounds of the old status to    *)
(* within those of the new, and a correction to the worth of the new one.  *)
LEMMA AttendanceDeltaIs ==
  ASSUME TypeOK, NEW h \in Handler, req[h] \in Request, req[h].whom \in Contact, StatusMoves(h),
         points[req[h].whom].attendance
           \in VisitorCumulative[req[h].seen.status]..(2 * VisitorCumulative[req[h].seen.status])
  PROVE  LET c == VisitorCumulative[req[h].to.status]
         IN  /\ AttendanceDelta(h) \in Int
             /\ points[req[h].whom].attendance + AttendanceDelta(h) \in c..(2 * c)
             /\ IF VisitorStatusDelta(req[h].seen.status, req[h].to.status) > 0
                THEN AttendanceDelta(h) > 0 ELSE AttendanceDelta(h) < 0
<1>. DEFINE s == req[h].seen.status  t == req[h].to.status
            d == VisitorStatusDelta(s, t)
            p == points[req[h].whom].attendance
<1>1. s \in VisitorStatus /\ t \in VisitorStatus /\ s # t
  BY DEF Request, Columns, StatusMoves
<1>2. /\ VisitorCumulative[s] \in {0, 20, 50} /\ VisitorCumulative[t] = VisitorCumulative[s] + d
      /\ d \in {20, 30, 50} \/ d \in {-20, -30, -50}
  BY <1>1, DeltaIs
<1>3. p \in VisitorCumulative[s]..(2 * VisitorCumulative[s])
  OBVIOUS
<1>4. CASE d \in {20, 30, 50}
  <2>. DEFINE m == VisitorMultiplier(req[h].event, FALSE)
  <2>1. d \in Int /\ d > 0
    BY <1>4
  <2>2. AttendanceDelta(h) = Boosted(d, m)
    BY <2>1 DEF AttendanceDelta
  <2>3. m \in {2, 3, 4}
    BY MultiplierIs
  <2>. HIDE DEF m, s, t, d, p
  <2>4. d \in {20, 30, 50, 100}
    BY <1>4
  <2>5. Boosted(d, m) \in Int /\ d <= Boosted(d, m) /\ Boosted(d, m) <= 2 * d
    BY <2>3, <2>4, BoostedIs
  <2>6. /\ AttendanceDelta(h) \in Int /\ AttendanceDelta(h) > 0 /\ d > 0
        /\ p + AttendanceDelta(h) \in VisitorCumulative[t]..(2 * VisitorCumulative[t])
    BY <1>2, <1>3, <1>4, <2>1, <2>2, <2>5
  <2>7. QED
    BY <2>6 DEF p, t, s, d
<1>5. CASE d \in {-20, -30, -50}
  <2>1. d \in Int /\ ~(d > 0)
    BY <1>5
  <2>2. AttendanceDelta(h) = VisitorCumulative[t] - p
    BY <2>1 DEF AttendanceDelta
  <2>. HIDE DEF s, t, d, p
  <2>3. VisitorCumulative[t] \in Int /\ VisitorCumulative[t] >= 0 /\ VisitorCumulative[t] < VisitorCumulative[s]
    <3>1. VisitorCumulative[t] \in {0, 20, 50}
      BY <1>1, DeltaIs
    <3>2. QED
      BY <1>2, <1>5, <3>1
  <2>4. p \in Int /\ p >= VisitorCumulative[s] /\ VisitorCumulative[s] \in Int
    BY <1>2, <1>3
  <2>5. /\ AttendanceDelta(h) \in Int /\ AttendanceDelta(h) < 0 /\ ~(d > 0)
        /\ p + AttendanceDelta(h) \in VisitorCumulative[t]..(2 * VisitorCumulative[t])
    BY <2>1, <2>2, <2>3, <2>4
  <2>6. QED
    BY <2>5 DEF p, t, s, d
<1>6. QED
  BY <1>2, <1>4, <1>5

LEMMA AppendStatusKeeps ==
  ASSUME AllInv, NEW h \in Handler, AppendStatusPoints(h)
  PROVE  AllInv'
<1>1. /\ TypeOK /\ req[h] \in Request /\ RequestSound(req[h]) /\ UNCHANGED <<tables, lock, served, history>>
      /\ req[h].at = "statusPoints"
  BY DEF AllInv, IInv, TypeOK, AppendStatusPoints
<1>2. req[h].op = "update" /\ UpdateSound(req[h]) /\ req[h].whom \in Contact /\ inviter[req[h].whom] # None
  BY <1>1, SoundAt
<1>3. StatusMoves(h)
  BY <1>1, <1>2 DEF UpdateSound, StatusMoves
<1>4. ~row[req[h].whom].void /\ row[req[h].whom].status = req[h].seen.status
  BY <1>1, <1>2, <1>3 DEF AllInv, IInv, LockMatches, HoldsRow
<1>5. points[req[h].whom].attendance
        \in VisitorCumulative[req[h].seen.status]..(2 * VisitorCumulative[req[h].seen.status])
  BY <1>2, <1>4 DEF AllInv, AttendanceWithinStatus
<1>. DEFINE delta == [req[h].delta EXCEPT !.attendance = AttendanceDelta(h)]
            r     == [req[h] EXCEPT !.delta = delta, !.at = "conversion"]
<1>6. req[h].delta \in Sources /\ AttendanceDelta(h) \in Int
  BY <1>1, <1>2, <1>3, <1>5, AttendanceDeltaIs DEF Request
<1>7. delta \in Sources /\ delta.attendance = AttendanceDelta(h) /\ delta.conversion = req[h].delta.conversion
  BY <1>6 DEF Sources
<1>8. req' = [req EXCEPT ![h] = r]
  BY <1>1 DEF AppendStatusPoints, TypeOK
<1>. HIDE DEF delta
<1>9. /\ r \in Request /\ r.at = "conversion" /\ r.whom = req[h].whom /\ r.op = req[h].op
      /\ r.seen = req[h].seen /\ r.to = req[h].to /\ r.delta = delta
  BY <1>1, <1>7 DEF Request, Steps
<1>. HIDE DEF r
<1>10. UpdateSound(r)
  BY <1>1, <1>2, <1>3, <1>5, <1>7, <1>9, AttendanceDeltaIs
     DEF UpdateSound, StatusSettled, ConversionSettled, StatusMoves
<1>11. RequestSound(r)
  BY <1>2, <1>9, <1>10 DEF RequestSound
<1>12. QED
  BY <1>1, <1>2, <1>3, <1>8, <1>9, <1>11, StayKeeps

LEMMA AppendConversionKeeps ==
  ASSUME AllInv, NEW h \in Handler, AppendConversionPoints(h)
  PROVE  AllInv'
<1>1. /\ TypeOK /\ req[h] \in Request /\ RequestSound(req[h]) /\ UNCHANGED <<tables, lock, served, history>>
      /\ req[h].at = "conversionPoints"
  BY DEF AllInv, IInv, TypeOK, AppendConversionPoints
<1>2. req[h].op = "update" /\ UpdateSound(req[h]) /\ req[h].whom \in Contact /\ inviter[req[h].whom] # None
  BY <1>1, SoundAt
<1>3. ConversionMoves(h)
  BY <1>1, <1>2 DEF UpdateSound, ConversionMoves
<1>4. ~row[req[h].whom].void /\ row[req[h].whom].converted = req[h].seen.converted
  BY <1>1, <1>2, <1>3 DEF AllInv, IInv, LockMatches, HoldsRow
<1>5. points[req[h].whom].conversion \in (IF req[h].seen.converted THEN {100, 150, 200} ELSE {0})
  BY <1>2, <1>4 DEF AllInv, ConversionExact
<1>6. /\ ConversionDelta(h) \in Int
      /\ points[req[h].whom].conversion + ConversionDelta(h)
           \in (IF req[h].to.converted THEN {100, 150, 200} ELSE {0})
  <2>1. req[h].to.converted \in BOOLEAN /\ req[h].seen.converted \in BOOLEAN
    BY <1>1 DEF Request, Columns
  <2>2. CASE req[h].to.converted
    <3>1. points[req[h].whom].conversion = 0
      BY <1>3, <1>5, <2>1, <2>2 DEF ConversionMoves
    <3>2. ConversionDelta(h) \in {100, 150, 200}
      BY <2>2, MultiplierIs, BoostedIs, ZenonT(60) DEF ConversionDelta, ConversionPoints
    <3>3. QED
      BY <2>2, <3>1, <3>2
  <2>3. CASE ~req[h].to.converted
    <3>1. ConversionDelta(h) = - points[req[h].whom].conversion
      BY <2>3 DEF ConversionDelta
    <3>2. points[req[h].whom].conversion \in Int
      BY <1>5
    <3>3. QED
      BY <2>3, <3>1, <3>2
  <2>4. QED
    BY <2>1, <2>2, <2>3
<1>. DEFINE delta == [req[h].delta EXCEPT !.conversion = ConversionDelta(h)]
            r     == [req[h] EXCEPT !.delta = delta, !.at = "commit"]
<1>7. delta \in Sources /\ delta.conversion = ConversionDelta(h) /\ delta.attendance = req[h].delta.attendance
  BY <1>1, <1>6 DEF Request, Sources
<1>8. req' = [req EXCEPT ![h] = r]
  BY <1>1 DEF AppendConversionPoints, TypeOK
<1>. HIDE DEF delta
<1>9. /\ r \in Request /\ r.at = "commit" /\ r.whom = req[h].whom /\ r.op = req[h].op
      /\ r.seen = req[h].seen /\ r.to = req[h].to /\ r.delta = delta
  BY <1>1, <1>7 DEF Request, Steps
<1>. HIDE DEF r
<1>10. UpdateSound(r)
  BY <1>1, <1>2, <1>3, <1>6, <1>7, <1>9 DEF UpdateSound, StatusSettled, ConversionSettled, ConversionMoves
<1>11. RequestSound(r)
  BY <1>2, <1>9, <1>10 DEF RequestSound
<1>12. QED
  BY <1>1, <1>2, <1>3, <1>8, <1>9, <1>11, StayKeeps

(* A guarded UPDATE locks the row it matched, or ends the request. *)
LEMMA GuardedKeeps ==
  ASSUME AllInv, NEW h \in Handler, UpdateStatus(h) \/ UpdateConversion(h)
  PROVE  AllInv'
<1>1. /\ TypeOK /\ req[h] \in Request /\ RequestSound(req[h]) /\ RowFree(h)
      /\ UNCHANGED <<inviter, row, points, host, served, raced, lost>>
  BY DEF AllInv, IInv, TypeOK, UpdateStatus, UpdateConversion, Guarded, tables, history
<1>2. PICK next \in {"statusPoints", "conversionPoints"} :
        /\ next = "statusPoints" => req[h].at = "status" /\ StatusMoves(h)
        /\ next = "conversionPoints" => req[h].at = "conversion" /\ ConversionMoves(h)
        /\ \/ /\ next = "statusPoints" => StatusStill(h)
              /\ next = "conversionPoints" => ConversionStill(h)
              /\ lock' = [lock EXCEPT ![req[h].whom] = h]
              /\ req' = [req EXCEPT ![h].at = next]
           \/ lock' = LocksAfter(h) /\ req' = [req EXCEPT ![h] = Idle]
  <2>1. CASE UpdateStatus(h)
    BY <2>1 DEF UpdateStatus, Guarded
  <2>2. CASE UpdateConversion(h)
    BY <2>2 DEF UpdateConversion, Guarded
  <2>3. QED
    BY <2>1, <2>2
<1>3. req[h].op = "update" /\ UpdateSound(req[h]) /\ req[h].whom \in Contact /\ inviter[req[h].whom] # None
  BY <1>1, <1>2, SoundAt
<1>4. CASE lock' = LocksAfter(h) /\ req' = [req EXCEPT ![h] = Idle]
  BY <1>1, <1>4, EndKeeps DEF TypeOK
<1>5. CASE /\ next = "statusPoints" => StatusStill(h)
           /\ next = "conversionPoints" => ConversionStill(h)
           /\ lock' = [lock EXCEPT ![req[h].whom] = h]
           /\ req' = [req EXCEPT ![h].at = next]
  <2>. DEFINE r == [req[h] EXCEPT !.at = next]
  <2>1. req' = [req EXCEPT ![h] = r] /\ req'[h] = r
    BY <1>1, <1>5 DEF TypeOK
  <2>2. /\ r \in Request /\ r.at = next /\ r.whom = req[h].whom /\ r.op = req[h].op
        /\ r.seen = req[h].seen /\ r.to = req[h].to /\ r.delta = req[h].delta
    BY <1>1 DEF Request, Steps
  <2>. HIDE DEF r
  <2>3. UpdateSound(r)
    BY <1>2, <1>3, <2>2 DEF UpdateSound, StatusSettled, ConversionSettled, StatusMoves, ConversionMoves
  <2>4. RequestSound(r)
    BY <1>3, <2>2, <2>3 DEF RequestSound
  <2>5. \A v \in Contact : LockMatches(h, v)'
    <3>. SUFFICES ASSUME NEW v \in Contact PROVE LockMatches(h, v)'
      OBVIOUS
    <3>1. CASE v # req[h].whom
      BY <1>1, <1>3, <1>5, <2>1, <2>2, <3>1, OwnRowOnly, LockOK DEF LockMatches, HoldsRow
    <3>2. CASE v = req[h].whom
      <4>1. HoldsRow(h, v)' /\ lock'[v] = h
        BY <1>1, <1>2, <1>3, <1>5, <2>1, <2>2, <3>2, LockOK DEF HoldsRow
      <4>2. ~row[v].void
        BY <1>2, <1>5, <3>2 DEF StatusStill, ConversionStill, NotVoid
      <4>3. StatusMoves(h) => row[v].status = req[h].seen.status
        <5>1. CASE next = "statusPoints"
          BY <1>5, <3>2, <5>1 DEF StatusStill
        <5>2. CASE next = "conversionPoints"
          BY <1>2, <1>3, <3>2, <5>2 DEF AllInv, IInv, LockMatches, HoldsRow
        <5>3. QED
          BY <5>1, <5>2
      <4>4. next = "conversionPoints" => row[v].converted = req[h].seen.converted
        BY <1>5, <3>2 DEF ConversionStill
      <4>5. QED
        BY <1>1, <2>1, <2>2, <4>1, <4>2, <4>3, <4>4 DEF LockMatches, StatusMoves, ConversionMoves
    <3>3. QED
      BY <3>1, <3>2
  <2>6. /\ lock' \in [Contact -> Handler \cup {None}]
        /\ \A v \in Contact, g \in Handler : g # h => (lock'[v] = g <=> lock[v] = g)
    BY <1>1, <1>3, <1>5, LockOK
  <2>7. host' \subseteq Member /\ lost' \subseteq Member /\ served' \in Nat
    BY <1>1 DEF TypeOK
  <2>8. QED
    BY <1>1, <2>1, <2>2, <2>4, <2>5, <2>6, <2>7, MoveKeeps
<1>6. QED
  BY <1>2, <1>4, <1>5

(* The refund is what the sums were before the transaction. *)
LEMMA VoidRowKeeps ==
  ASSUME AllInv, NEW h \in Handler, VoidRow(h)
  PROVE  AllInv'
<1>1. /\ TypeOK /\ req[h] \in Request /\ RequestSound(req[h]) /\ RowFree(h) /\ req[h].at = "void"
      /\ UNCHANGED <<inviter, row, points, host, served, raced, lost>>
  BY DEF AllInv, IInv, TypeOK, VoidRow, tables, history
<1>2. req[h].op = "void" /\ VoidSound(req[h]) /\ req[h].whom \in Contact /\ inviter[req[h].whom] # None
  BY <1>1, SoundAt
<1>3. CASE ~NotVoid(h)
  <2>1. \A v \in Contact : lock[v] # h
    BY <1>1 DEF AllInv, IInv, LockMatches, HoldsRow
  <2>2. lock' = LocksAfter(h)
    BY <1>1, <1>3, <2>1 DEF VoidRow, LocksAfter, TypeOK
  <2>3. req' = [req EXCEPT ![h] = Idle]
    BY <1>3 DEF VoidRow
  <2>4. QED
    BY <1>1, <2>2, <2>3, EndKeeps DEF TypeOK
<1>4. CASE NotVoid(h)
  <2>. DEFINE delta == [req[h].delta EXCEPT !.attendance = - Refund(h)]
              r     == [req[h] EXCEPT !.delta = delta, !.at = "commit"]
  <2>1. lock' = [lock EXCEPT ![req[h].whom] = h] /\ req' = [req EXCEPT ![h] = r] /\ req'[h] = r
    BY <1>1, <1>4 DEF VoidRow, TypeOK
  <2>2. req[h].earned \in Int /\ req[h].delta = NoPoints
    BY <1>1, <1>2 DEF Request, VoidSound
  <2>3. delta = [attendance |-> - req[h].earned, conversion |-> 0] /\ delta \in Sources
    BY <2>2 DEF Refund, NoPoints, Sources
  <2>. HIDE DEF delta
  <2>4. /\ r \in Request /\ r.at = "commit" /\ r.whom = req[h].whom /\ r.op = req[h].op
        /\ r.seen = req[h].seen /\ r.to = req[h].to /\ r.delta = delta /\ r.earned = req[h].earned
    BY <1>1, <2>3 DEF Request, Steps
  <2>. HIDE DEF r
  <2>5. VoidSound(r)
    BY <1>1, <1>2, <2>3, <2>4 DEF VoidSound
  <2>6. RequestSound(r)
    BY <1>2, <2>4, <2>5 DEF RequestSound
  <2>7. \A v \in Contact : LockMatches(h, v)'
    <3>. SUFFICES ASSUME NEW v \in Contact PROVE LockMatches(h, v)'
      OBVIOUS
    <3>1. CASE v # req[h].whom
      BY <1>1, <1>2, <2>1, <2>4, <3>1, OwnRowOnly, LockOK DEF LockMatches, HoldsRow
    <3>2. CASE v = req[h].whom
      <4>1. HoldsRow(h, v)' /\ lock'[v] = h
        BY <1>1, <1>2, <2>1, <2>4, <3>2, LockOK DEF HoldsRow
      <4>2. ~row[v].void
        BY <1>4, <3>2 DEF NotVoid
      <4>3. r.to.converted = r.seen.converted
        BY <1>1, <1>2, <2>4 DEF VoidSound, Request, Columns
      <4>4. QED
        BY <1>1, <1>2, <2>1, <2>4, <4>1, <4>2, <4>3 DEF LockMatches, ConversionMoves
    <3>3. QED
      BY <3>1, <3>2
  <2>8. /\ lock' \in [Contact -> Handler \cup {None}]
        /\ \A v \in Contact, g \in Handler : g # h => (lock'[v] = g <=> lock[v] = g)
    BY <1>1, <1>2, <2>1, LockOK
  <2>9. host' \subseteq Member /\ lost' \subseteq Member /\ served' \in Nat
    BY <1>1 DEF TypeOK
  <2>10. QED
    BY <1>1, <2>1, <2>4, <2>6, <2>7, <2>8, <2>9, MoveKeeps
<1>5. QED
  BY <1>3, <1>4

(* The inviter of a visitor that a request has moderated. *)
LEMMA EvaluateKeeps ==
  ASSUME AllInv, NEW h \in Handler, EvaluateBadges(h)
  PROVE  AllInv'
<1>1. /\ TypeOK /\ req[h].at = "badges" /\ req' = [req EXCEPT ![h] = Idle]
      /\ UNCHANGED <<inviter, row, points, lock, served, raced, lost>>
  BY DEF AllInv, IInv, EvaluateBadges, history
<1>2. host' \subseteq Member
  <2>. DEFINE m == inviter[req[h].whom]
  <2>1. AttendedFor(m) # {} => m \in Member
    BY <1>1 DEF AttendedFor, Attended, TypeOK
  <2>2. host' = IF AttendedFor(m) # {} THEN host \cup {m} ELSE host
    BY DEF EvaluateBadges
  <2>. HIDE DEF m
  <2>3. QED
    BY <1>1, <2>1, <2>2 DEF TypeOK
<1>3. \A v \in Contact : lock[v] # h
  BY <1>1 DEF AllInv, IInv, LockMatches, HoldsRow
<1>4. lock' = LocksAfter(h)
  BY <1>1, <1>3 DEF LocksAfter, TypeOK
<1>5. QED
  BY <1>1, <1>2, <1>4, EndKeeps DEF TypeOK

(* A request stops anywhere, and its transaction rolls back. *)
LEMMA FailKeeps ==
  ASSUME AllInv, NEW h \in Handler, Fail(h)
  PROVE  AllInv'
<1>1. /\ TypeOK /\ req[h] \in Request /\ RequestSound(req[h]) /\ req[h].at # "idle"
      /\ req' = [req EXCEPT ![h] = Idle] /\ lock' = LocksAfter(h)
      /\ UNCHANGED <<inviter, row, points, host, served, raced>>
      /\ lost' = IF req[h].at = "badges" THEN lost \cup {inviter[req[h].whom]} ELSE lost
  BY DEF AllInv, IInv, TypeOK, Fail, tables
<1>2. req[h].whom \in Contact /\ inviter[req[h].whom] # None
  BY <1>1, SoundAt
<1>3. lost' \subseteq Member
  BY <1>1, <1>2 DEF TypeOK
<1>4. QED
  BY <1>1, <1>3, EndKeeps DEF TypeOK

(* What a transaction may change when it commits: nothing, or the row and  *)
(* the points of its visitor while it holds the row.                       *)
LEMMA CommitIs ==
  ASSUME AllInv, NEW h \in Handler, Commit(h)
  PROVE  /\ req[h] \in Request /\ req[h].op \in {"update", "void"} /\ req[h].whom \in Contact
         /\ req[h].op = "update" => UpdateSound(req[h])
         /\ req[h].op = "void" => VoidSound(req[h])
         /\ Written(h) \in Columns /\ Credited(h) \in Sources
         /\ row' = [row EXCEPT ![req[h].whom] = Written(h)]
         /\ points' = [points EXCEPT ![req[h].whom] = Credited(h)]
         /\ HoldsRow(h, req[h].whom) =>
              /\ lock[req[h].whom] = h /\ ~row[req[h].whom].void
              /\ req[h].op = "update" /\ StatusMoves(h) => row[req[h].whom].status = req[h].seen.status
              /\ ConversionMoves(h) => row[req[h].whom].converted = req[h].seen.converted
         /\ ~HoldsRow(h, req[h].whom) => req[h].op = "update" /\ row' = row /\ points' = points
<1>1. /\ TypeOK /\ req[h] \in Request /\ RequestSound(req[h]) /\ req[h].at = "commit"
      /\ row' = [row EXCEPT ![req[h].whom] = Written(h)]
      /\ points' = [points EXCEPT ![req[h].whom] = Credited(h)]
  BY DEF AllInv, IInv, TypeOK, Commit
<1>2. /\ req[h].op \in {"update", "void"} /\ req[h].whom \in Contact
      /\ req[h].op = "update" => UpdateSound(req[h])
      /\ req[h].op = "void" => VoidSound(req[h])
  BY <1>1, SoundAt DEF Request
<1>. DEFINE v == req[h].whom
<1>3. row[v] \in Columns /\ points[v] \in Sources /\ req[h].delta \in Sources /\ req[h].to \in Columns
  BY <1>1, <1>2 DEF TypeOK, Request
<1>4. Written(h) \in Columns
  BY <1>3 DEF Written, Columns
<1>5. Credited(h) \in Sources
  BY <1>3 DEF Credited, Sources
<1>6. LockMatches(h, v)
  BY <1>2 DEF AllInv, IInv
<1>7. HoldsRow(h, v) =>
        /\ lock[v] = h /\ ~row[v].void
        /\ req[h].op = "update" /\ StatusMoves(h) => row[v].status = req[h].seen.status
        /\ ConversionMoves(h) => row[v].converted = req[h].seen.converted
  BY <1>1, <1>6 DEF LockMatches
<1>8. ASSUME ~HoldsRow(h, v)
      PROVE  req[h].op = "update" /\ row' = row /\ points' = points
  <2>1. req[h].op = "update" /\ ~StatusMoves(h) /\ ~ConversionMoves(h)
    BY <1>1, <1>2, <1>8 DEF HoldsRow
  <2>2. req[h].delta.attendance = 0 /\ req[h].delta.conversion = 0
    BY <1>1, <1>2, <2>1 DEF UpdateSound, StatusSettled, ConversionSettled, StatusMoves, ConversionMoves
  <2>3. Written(h) = row[v]
    BY <1>3, <2>1 DEF Written, Columns
  <2>4. Credited(h) = points[v]
    BY <1>3, <2>2 DEF Credited, Sources
  <2>5. QED
    BY <1>1, <2>1, <2>3, <2>4 DEF TypeOK
<1>9. QED
  BY <1>1, <1>2, <1>4, <1>5, <1>7, <1>8

(* A commit leaves what the other requests carry true: those that hold a   *)
(* row hold another one, and a void whose sums it outdates is put among    *)
(* the raced.                                                              *)
LEMMA CommitSparesOthers ==
  ASSUME AllInv, NEW h \in Handler, Commit(h), NEW g \in Handler, g # h
  PROVE  RequestSound(req[g])' /\ \A w \in Contact : LockMatches(g, w)'
<1>. DEFINE v == req[h].whom
<1>1. /\ TypeOK /\ UNCHANGED inviter /\ lock' = LocksAfter(h) /\ req' = [req EXCEPT ![h] = AfterCommit(h)]
      /\ raced' = IF Credited(h) # points[v] /\ \E f \in Handler : HoldsSums(f, v) THEN raced \cup {v} ELSE raced
      /\ v \in Contact
  BY CommitIs DEF AllInv, IInv, Commit
<1>2. req'[g] = req[g] /\ RequestSound(req[g]) /\ \A w \in Contact : LockMatches(g, w)
  BY <1>1 DEF AllInv, IInv, TypeOK
<1>3. \A w \in Contact : lock'[w] = g <=> lock[w] = g
  BY <1>1, ReleaseOK
<1>4. CASE ~HoldsRow(h, v)
  <2>1. row' = row /\ points' = points /\ points'[v] = Credited(h)
    BY <1>1, <1>4, CommitIs DEF TypeOK
  <2>2. raced' = raced
    BY <1>1, <2>1
  <2>3. RequestSound(req[g])'
    BY <1>1, <1>2, <2>1, <2>2 DEF RequestSound, UpdateSound, VoidSound, StatusSettled, ConversionSettled
  <2>4. \A w \in Contact : LockMatches(g, w)'
    BY <1>2, <1>3, <2>1 DEF LockMatches, HoldsRow, StatusMoves, ConversionMoves
  <2>5. QED
    BY <2>3, <2>4
<1>5. CASE HoldsRow(h, v)
  <2>1. /\ \A w \in Contact : w # v => row'[w] = row[w] /\ points'[w] = points[w]
        /\ points'[v] = Credited(h) /\ raced \subseteq raced' /\ ~HoldsRow(g, v) /\ lock'[v] # g
    <3>1. lock[v] = h
      BY <1>5, CommitIs
    <3>2. ~HoldsRow(g, v) /\ lock'[v] # g
      BY <1>1, <1>2, <1>3, <3>1 DEF LockMatches
    <3>3. QED
      BY <1>1, <3>2, CommitIs DEF TypeOK
  <2>2. \A w \in Contact : LockMatches(g, w)'
    <3>. SUFFICES ASSUME NEW w \in Contact PROVE LockMatches(g, w)'
      OBVIOUS
    <3>1. HoldsRow(g, w)' <=> HoldsRow(g, w)
      BY <1>2 DEF HoldsRow, StatusMoves, ConversionMoves
    <3>2. QED
      BY <1>2, <1>3, <2>1, <3>1 DEF LockMatches, StatusMoves, ConversionMoves
  <2>3. RequestSound(req[g])'
    <3>1. CASE req[g].op = "none"
      BY <1>2, <3>1 DEF RequestSound
    <3>2. CASE req[g].op # "none" /\ req[g].whom # v
      <4>1. req[g].whom \in Contact /\ points'[req[g].whom] = points[req[g].whom]
        BY <1>2, <2>1, <3>2 DEF RequestSound
      <4>2. QED
        BY <1>1, <1>2, <2>1, <3>2, <4>1 DEF RequestSound, UpdateSound, VoidSound, StatusSettled, ConversionSettled
    <3>3. CASE req[g].op = "update" /\ req[g].whom = v
      <4>1. UpdateSound(req[g]) /\ inviter[v] # None
        BY <1>2, <3>3 DEF RequestSound
      <4>2. ~StatusSettled(req[g]) /\ ~ConversionSettled(req[g])
        BY <2>1, <3>3 DEF HoldsRow, StatusSettled, ConversionSettled, StatusMoves, ConversionMoves
      <4>3. UpdateSound(req[g])'
        BY <1>2, <4>1, <4>2 DEF UpdateSound, StatusSettled, ConversionSettled
      <4>4. QED
        BY <1>1, <1>2, <3>3, <4>1, <4>3 DEF RequestSound
    <3>4. CASE req[g].op \notin {"none", "update"} /\ req[g].whom = v
      <4>1. VoidSound(req[g]) /\ inviter[v] # None /\ req[g].op = "void"
        BY <1>1, <1>2, <3>4 DEF RequestSound, TypeOK, Request
      <4>2. req[g].at # "commit"
        BY <2>1, <3>4, <4>1 DEF HoldsRow
      <4>3. CASE req[g].at \in {"sumConversion", "void"}
        <5>1. HoldsSums(g, v)
          BY <3>4, <4>1, <4>3 DEF HoldsSums
        <5>2. v \notin raced' => points'[v] = points[v] /\ v \notin raced
          BY <1>1, <2>1, <5>1
        <5>3. VoidSound(req[g])'
          BY <1>2, <3>4, <4>1, <5>2 DEF VoidSound
        <5>4. QED
          BY <1>1, <1>2, <3>4, <4>1, <5>3 DEF RequestSound
      <4>4. CASE req[g].at \notin {"sumConversion", "void"}
        <5>1. VoidSound(req[g])'
          BY <1>2, <4>1, <4>2, <4>4 DEF VoidSound
        <5>2. QED
          BY <1>1, <1>2, <3>4, <4>1, <5>1 DEF RequestSound
      <4>5. QED
        BY <4>3, <4>4
    <3>5. QED
      BY <3>1, <3>2, <3>3, <3>4
  <2>4. QED
    BY <2>2, <2>3
<1>6. QED
  BY <1>4, <1>5

LEMMA CommitKeeps ==
  ASSUME AllInv, NEW h \in Handler, Commit(h)
  PROVE  AllInv'
<1>. DEFINE v == req[h].whom
<1>1. /\ TypeOK /\ req[h].at = "commit" /\ RequestSound(req[h])
      /\ UNCHANGED <<inviter, host, served, lost>> /\ lock' = LocksAfter(h)
      /\ req' = [req EXCEPT ![h] = AfterCommit(h)]
      /\ raced' = IF Credited(h) # points[v] /\ \E g \in Handler : HoldsSums(g, v) THEN raced \cup {v} ELSE raced
  BY DEF AllInv, IInv, Commit
<1>2. /\ req[h] \in Request /\ req[h].op \in {"update", "void"} /\ v \in Contact
      /\ req[h].op = "update" => UpdateSound(req[h])
      /\ req[h].op = "void" => VoidSound(req[h])
      /\ Written(h) \in Columns /\ Credited(h) \in Sources
      /\ row' = [row EXCEPT ![v] = Written(h)] /\ points' = [points EXCEPT ![v] = Credited(h)]
  BY CommitIs
<1>3. inviter[v] # None
  BY <1>1, <1>2, SoundAt
<1>4. AfterCommit(h) \in Request /\ AfterCommit(h).at \in {"idle", "badges"}
  BY <1>2, IdleOK DEF AfterCommit, Request, Steps
<1>5. req' \in [Handler -> Request] /\ req'[h] = AfterCommit(h)
  BY <1>1, <1>4 DEF TypeOK
<1>6. RequestSound(req[h])'
  <2>1. CASE req[h].op = "void"
    <3>1. req'[h] = Idle
      BY <1>5, <2>1 DEF AfterCommit
    <3>2. QED
      BY <3>1, IdleOK DEF RequestSound, Idle
  <2>2. CASE req[h].op = "update"
    <3>1. req'[h] = [Idle EXCEPT !.at = "badges", !.op = "update", !.whom = v]
      BY <1>5, <2>2 DEF AfterCommit
    <3>2. /\ req'[h].at = "badges" /\ req'[h].op = "update" /\ req'[h].whom = v
          /\ req'[h].seen = NewColumns /\ req'[h].to = NewColumns /\ req'[h].delta = NoPoints
      BY <3>1, IdleOK DEF Request
    <3>3. UpdateSound(req[h])'
      BY <3>2 DEF UpdateSound, StatusSettled, ConversionSettled, NewColumns, NoPoints
    <3>4. QED
      BY <1>1, <1>2, <1>3, <3>2, <3>3 DEF RequestSound
  <2>3. QED
    BY <1>2, <2>1, <2>2
<1>7. TypeOK'
  BY <1>1, <1>2, <1>5, ReleaseOK DEF TypeOK
<1>8. \A g \in Handler : RequestSound(req[g])'
  <2>. SUFFICES ASSUME NEW g \in Handler PROVE RequestSound(req[g])'
    OBVIOUS
  <2>1. CASE g = h
    BY <1>6, <2>1
  <2>2. CASE g # h
    BY <2>2, CommitSparesOthers
  <2>3. QED
    BY <2>1, <2>2
<1>9. \A g \in Handler, w \in Contact : LockMatches(g, w)'
  <2>. SUFFICES ASSUME NEW g \in Handler, NEW w \in Contact PROVE LockMatches(g, w)'
    OBVIOUS
  <2>1. CASE g = h
    BY <1>1, <1>4, <1>5, <2>1, ReleaseOK DEF LockMatches, HoldsRow
  <2>2. CASE g # h
    BY <2>2, CommitSparesOthers
  <2>3. QED
    BY <2>1, <2>2
<1>10. \A w \in Contact : w # v => row'[w] = row[w] /\ points'[w] = points[w]
  BY <1>1, <1>2 DEF TypeOK
<1>11. raced \subseteq raced' /\ row'[v] = Written(h) /\ points'[v] = Credited(h)
  BY <1>1, <1>2 DEF TypeOK
<1>12. CASE ~HoldsRow(h, v)
  <2>1. row' = row /\ points' = points
    BY <1>12, CommitIs
  <2>2. QED
    BY <1>7, <1>8, <1>9, <1>11, <2>1
       DEF AllInv, IInv, AttendanceWithinStatus, ConversionExact, VoidedIsWorthNothing
<1>13. CASE HoldsRow(h, v)
  <2>1. /\ ~row[v].void /\ row[v] \in Columns /\ points[v] \in Sources /\ req[h].delta \in Sources
        /\ ConversionMoves(h) => row[v].converted = req[h].seen.converted
    BY <1>1, <1>2, <1>13, CommitIs DEF TypeOK, Request
  <2>2. /\ Written(h).void <=> req[h].op = "void"
        /\ Written(h).status = IF StatusMoves(h) THEN req[h].to.status ELSE row[v].status
        /\ Written(h).converted = IF ConversionMoves(h) THEN req[h].to.converted ELSE row[v].converted
        /\ Credited(h).attendance = points[v].attendance + req[h].delta.attendance
        /\ Credited(h).conversion = points[v].conversion + req[h].delta.conversion
    BY <1>2, <2>1 DEF Written, Credited, Columns
  <2>3. /\ points[v].attendance \in Int /\ points[v].conversion \in Int
        /\ points[v].attendance \in VisitorCumulative[row[v].status]..(2 * VisitorCumulative[row[v].status])
        /\ points[v].conversion \in (IF row[v].converted THEN {100, 150, 200} ELSE {0})
    BY <1>2, <2>1 DEF AllInv, AttendanceWithinStatus, ConversionExact, Sources
  <2>4. CASE req[h].op = "update"
    <3>1. UpdateSound(req[h])
      BY <1>2, <2>4
    <3>2. Credited(h).attendance \in VisitorCumulative[Written(h).status]..(2 * VisitorCumulative[Written(h).status])
      <4>1. CASE StatusMoves(h)
        BY <1>1, <2>2, <3>1, <4>1 DEF UpdateSound, StatusSettled, StatusMoves
      <4>2. CASE ~StatusMoves(h)
        <5>1. req[h].delta.attendance = 0
          BY <1>1, <3>1, <4>2 DEF UpdateSound, StatusSettled, StatusMoves
        <5>2. QED
          BY <2>2, <2>3, <4>2, <5>1
      <4>3. QED
        BY <4>1, <4>2
    <3>3. Credited(h).conversion \in (IF Written(h).converted THEN {100, 150, 200} ELSE {0})
      <4>1. CASE ConversionMoves(h)
        BY <1>1, <2>2, <3>1, <4>1 DEF UpdateSound, ConversionSettled, ConversionMoves
      <4>2. CASE ~ConversionMoves(h)
        <5>1. req[h].delta.conversion = 0
          BY <1>1, <3>1, <4>2 DEF UpdateSound, ConversionSettled, ConversionMoves
        <5>2. QED
          BY <2>2, <2>3, <4>2, <5>1
      <4>3. QED
        BY <4>1, <4>2
    <3>4. AttendanceWithinStatus'
      BY <1>10, <1>11, <3>2 DEF AllInv, AttendanceWithinStatus
    <3>5. ConversionExact'
      BY <1>10, <1>11, <3>3 DEF AllInv, ConversionExact
    <3>6. VoidedIsWorthNothing'
      BY <1>10, <1>11, <2>2, <2>4 DEF AllInv, VoidedIsWorthNothing
    <3>7. QED
      BY <1>7, <1>8, <1>9, <3>4, <3>5, <3>6 DEF AllInv, IInv
  <2>5. CASE req[h].op = "void"
    <3>1. VoidSound(req[h]) /\ req[h].earned \in Int
      BY <1>2, <2>5 DEF Request
    <3>2. v \notin raced' => Credited(h).attendance + Credited(h).conversion = 0
      <4>1. req[h].delta.attendance = - req[h].earned /\ req[h].delta.conversion = 0
        BY <1>1, <3>1 DEF VoidSound
      <4>2. v \notin raced' => req[h].earned = points[v].attendance + points[v].conversion
        BY <1>1, <1>11, <3>1 DEF VoidSound
      <4>3. QED
        BY <2>2, <2>3, <3>1, <4>1, <4>2
    <3>3. AttendanceWithinStatus' /\ ConversionExact'
      BY <1>10, <1>11, <2>2, <2>5 DEF AllInv, AttendanceWithinStatus, ConversionExact
    <3>4. VoidedIsWorthNothing'
      BY <1>10, <1>11, <3>2 DEF AllInv, VoidedIsWorthNothing
    <3>5. QED
      BY <1>7, <1>8, <1>9, <3>3, <3>4 DEF AllInv, IInv
  <2>6. QED
    BY <1>2, <2>4, <2>5
<1>14. QED
  BY <1>12, <1>13

(* No step breaks the invariant. *)
LEMMA NextKeeps == AllInv /\ [Next]_vars => AllInv'
<1>. SUFFICES ASSUME AllInv, [Next]_vars PROVE AllInv'
  OBVIOUS
<1>1. CASE UNCHANGED vars
  <2>1. UNCHANGED <<inviter, row, points, host, lock, req, served, raced, lost>>
    BY <1>1 DEF vars, tables, history
  <2>2. TypeOK'
    BY <2>1 DEF AllInv, IInv, TypeOK
  <2>3. \A h \in Handler, v \in Contact : LockMatches(h, v)'
    BY <2>1 DEF AllInv, IInv, LockMatches, HoldsRow, StatusMoves, ConversionMoves
  <2>4. \A h \in Handler : RequestSound(req[h])'
    BY <2>1 DEF AllInv, IInv, RequestSound, UpdateSound, VoidSound, StatusSettled, ConversionSettled
  <2>5. QED
    BY <2>1, <2>2, <2>3, <2>4 DEF AllInv, IInv, AttendanceWithinStatus, ConversionExact, VoidedIsWorthNothing
<1>2. ASSUME NEW m \in Member, NEW v \in Contact, Register(m, v)
      PROVE  AllInv'
  BY <1>2, RegisterKeeps
<1>3. ASSUME NEW h \in Handler, UpdateRead(h) \/ VoidRead(h) \/ Step(h) \/ Fail(h)
      PROVE  AllInv'
  BY <1>3, AcceptKeeps, SumKeeps, VoidRowKeeps, GuardedKeeps, SameKeeps, AppendStatusKeeps,
     AppendConversionKeeps, CommitKeeps, EvaluateKeeps, FailKeeps DEF Step
<1>4. QED
  BY <1>1, <1>2, <1>3 DEF Next, Quiet

(* Only a commit changes rows and points. *)
LEMMA OnlyCommitWrites ==
  ASSUME [Next]_vars, ~(row' = row /\ points' = points)
  PROVE  \E h \in Handler : Commit(h)
<1>1. ~UNCHANGED vars /\ ~Quiet
  BY DEF vars, tables, Quiet
<1>2. ASSUME NEW m \in Member, NEW v \in Contact, Register(m, v) PROVE FALSE
  BY <1>2 DEF Register
<1>3. ASSUME NEW h \in Handler, UpdateRead(h) \/ VoidRead(h) \/ Fail(h) PROVE FALSE
  BY <1>3 DEF UpdateRead, VoidRead, Accept, Fail, tables
<1>4. ASSUME NEW h \in Handler, Step(h), ~Commit(h) PROVE FALSE
  BY <1>4 DEF Step, SumAttendance, SumConversion, VoidRow, UpdateStatus, SameStatus, AppendStatusPoints,
              UpdateConversion, SameConversion, AppendConversionPoints, EvaluateBadges, Guarded, tables
<1>5. QED
  BY <1>1, <1>2, <1>3, <1>4 DEF Next

(***************************************************************************)
(* Theorems                                                                *)
(***************************************************************************)
LEMMA AllInvHolds == Spec => []AllInv
BY InitAllInv, NextKeeps, PTL DEF Spec

(* Locks are where the writes are, and what requests carry is sound.       *)
THEOREM InvariantHolds == Spec => []IInv
<1>1. AllInv => IInv
  BY DEF AllInv
<1>2. QED
  BY <1>1, AllInvHolds, PTL

(* For any number of concurrent moderators and any sequence of events, a   *)
(* visitor has earned between the plain worth of the status and twice it.  *)
THEOREM AttendanceStaysWithin == Spec => []AttendanceWithinStatus
<1>1. AllInv => AttendanceWithinStatus
  BY DEF AllInv
<1>2. QED
  BY <1>1, AllInvHolds, PTL

(* The conversion bonus is on the ledger exactly while it is deserved.     *)
THEOREM ConversionIsExact == Spec => []ConversionExact
<1>1. AllInv => ConversionExact
  BY DEF AllInv
<1>2. QED
  BY <1>1, AllInvHolds, PTL

(* A void takes back everything, but for what was earned while it had the  *)
(* old sums in hand.                                                       *)
THEOREM VoidedWorthNothing == Spec => []VoidedIsWorthNothing
<1>1. AllInv => VoidedIsWorthNothing
  BY DEF AllInv
<1>2. QED
  BY <1>1, AllInvHolds, PTL

(* A voided visitor keeps its row and its points for ever. *)
THEOREM VoidsAreFinal == Spec => VoidIsFinal
<1>. DEFINE Final == \A v \in Contact : row[v].void => row'[v] = row[v] /\ points'[v] = points[v]
<1>1. AllInv /\ [Next]_vars => [Final]_vars
  <2>. SUFFICES ASSUME AllInv, [Next]_vars, NEW v \in Contact, row[v].void
                PROVE  row'[v] = row[v] /\ points'[v] = points[v]
    OBVIOUS
  <2>1. CASE row' = row /\ points' = points
    BY <2>1
  <2>2. CASE ~(row' = row /\ points' = points)
    <3>1. PICK h \in Handler : Commit(h)
      BY <2>2, OnlyCommitWrites
    <3>2. v # req[h].whom
      BY <2>2, <3>1, CommitIs
    <3>3. QED
      BY <3>1, <3>2, CommitIs DEF AllInv, IInv, TypeOK
  <2>3. QED
    BY <2>1, <2>2
<1>2. QED
  BY <1>1, AllInvHolds, PTL DEF Spec, VoidIsFinal
=============================================================================
