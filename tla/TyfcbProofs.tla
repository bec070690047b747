---------------------------- MODULE TyfcbProofs ----------------------------
(***************************************************************************)
(* Proofs about TYFCB moderation, for any number of entries, members,      *)
(* teams, concurrent requests and requests in all.                         *)
(***************************************************************************)
EXTENDS Tyfcb, FiniteSetTheorems, SequenceTheorems, TLAPS

USE NoneAssumption

(***************************************************************************)
(* Scores are integers                                                     *)
(***************************************************************************)

(* The rounding helper is total on integers with a positive divisor. *)
LEMMA QuotientInt ==
  ASSUME NEW a \in Int, NEW b \in Nat \ {0}
  PROVE  RoundedQuotient(a, b) \in Int
BY DEF RoundedQuotient

(* Every amount falls in a band. *)
LEMMA BandInt == \A nilai \in Nat : Band(nilai) \in Nat
BY DEF Band

LEMMA MultiplierInt ==
  ASSUME NEW event, NEW n \in Nat, NEW facts \in TyfcbFacts
  PROVE  TyfcbMultiplier(event, n, facts) \in {2, 3, 4}
BY DEF TyfcbMultiplier

LEMMA ScoreInt ==
  ASSUME NEW band \in Nat, NEW n \in Nat, NEW m \in {2, 3, 4}
  PROVE  TyfcbScore(band, n, m) \in Int
<1>1. Max2(n, 1) \in Nat \ {0}
  BY DEF Max2
<1>2. RoundedQuotient(band * m, 2 * Max2(n, 1)) \in Int
  BY <1>1, QuotientInt
<1>3. QED
  BY <1>2 DEF TyfcbScore

(***************************************************************************)
(* Counting ledger rows                                                    *)
(***************************************************************************)

LEMMA RowsFinite ==
  ASSUME NEW e, ledger \in Seq(LedgerRow)
  PROVE  /\ IsFiniteSet(CreditRows(e)) /\ Cardinality(CreditRows(e)) \in Nat
         /\ IsFiniteSet(ReversalRows(e)) /\ Cardinality(ReversalRows(e)) \in Nat
<1>1. IsFiniteSet(1..Len(ledger))
  BY FS_Interval
<1>2. CreditRows(e) \subseteq 1..Len(ledger) /\ ReversalRows(e) \subseteq 1..Len(ledger)
  BY DEF CreditRows, ReversalRows
<1>3. QED
  BY <1>1, <1>2, FS_Subset, FS_CardinalityType

(* Committing one row adds it to the credits or to the reversals of its    *)
(* entry and leaves every other count alone.                               *)
LEMMA RowCommitted ==
  ASSUME NEW e \in Entry, NEW row \in LedgerRow,
         ledger \in Seq(LedgerRow), ledger' = ledger \o <<row>>
  PROVE  /\ Cardinality(CreditRows(e)') = Cardinality(CreditRows(e)) +
              (IF row.ref = e /\ row.note = "verified" THEN 1 ELSE 0)
         /\ Cardinality(ReversalRows(e)') = Cardinality(ReversalRows(e)) +
              (IF row.ref = e /\ row.note # "verified" THEN 1 ELSE 0)
<1> DEFINE n == Len(ledger)
<1>1. /\ n \in Nat /\ Len(ledger') = n + 1
      /\ \A i \in 1..n : ledger'[i] = ledger[i]
      /\ ledger'[n + 1] = row
  OBVIOUS
<1>2. n + 1 \notin CreditRows(e) /\ n + 1 \notin ReversalRows(e)
  BY <1>1 DEF CreditRows, ReversalRows
<1>3. CreditRows(e)' = IF row.ref = e /\ row.note = "verified"
                         THEN CreditRows(e) \cup {n + 1} ELSE CreditRows(e)
  BY <1>1 DEF CreditRows
<1>4. ReversalRows(e)' = IF row.ref = e /\ row.note # "verified"
                           THEN ReversalRows(e) \cup {n + 1} ELSE ReversalRows(e)
  BY <1>1 DEF ReversalRows
<1>5. /\ IsFiniteSet(CreditRows(e)) /\ Cardinality(CreditRows(e)) \in Nat
      /\ IsFiniteSet(ReversalRows(e)) /\ Cardinality(ReversalRows(e)) \in Nat
  BY RowsFinite
<1>6. /\ Cardinality(CreditRows(e) \cup {n + 1}) = Cardinality(CreditRows(e)) + 1
      /\ Cardinality(ReversalRows(e) \cup {n + 1}) = Cardinality(ReversalRows(e)) + 1
  <2> HIDE DEF n
  <2> QED BY <1>2, <1>5, FS_AddElement
<1> HIDE DEF n
<1>7. CASE row.ref = e /\ row.note = "verified"
  BY <1>3, <1>4, <1>5, <1>6, <1>7
<1>8. CASE row.ref = e /\ row.note # "verified"
  BY <1>3, <1>4, <1>5, <1>6, <1>8
<1>9. CASE row.ref # e
  BY <1>3, <1>4, <1>5, <1>9
<1>10. QED
  BY <1>7, <1>8, <1>9

(***************************************************************************)
(* The inductive invariant                                                 *)
(***************************************************************************)

LEMMA InitIInv == Init => IInv
<1> SUFFICES ASSUME Init PROVE IInv
  OBVIOUS
<1> USE DEF Init
<1>1. TypeOK
  BY DEF TypeOK, Statuses, Moderated, Filing, Unfiled, LedgerRow, Idle, Request
<1>2. FilingsSound /\ RowsFaithful
  BY DEF FilingsSound, RowsFaithful
<1>3. LocksMatch /\ RequestsSound
  BY DEF LocksMatch, HoldsRow, RequestsSound, RequestSound, Idle
<1>4. Balanced
  <2>1. \A e \in Entry : CreditRows(e) = {} /\ ReversalRows(e) = {}
    BY DEF CreditRows, ReversalRows
  <2>2. \A e \in Entry : Cardinality(CreditRows(e)) = 0 /\ Cardinality(ReversalRows(e)) = 0
    BY <2>1, FS_EmptySet
  <2>3. \A e \in Entry : status[e] # "verified"
    OBVIOUS
  <2>4. QED
    BY <2>2, <2>3 DEF Balanced
<1>5. QED
  BY <1>1, <1>2, <1>3, <1>4 DEF IInv

(* A step that leaves the entries and the ledger alone keeps the three     *)
(* conjuncts that speak of nothing else.                                   *)
LEMMA TablesKept ==
  ASSUME IInv, UNCHANGED <<status, filed, ledger>>
  PROVE  FilingsSound' /\ RowsFaithful' /\ Balanced'
BY DEF IInv, FilingsSound, RowsFaithful, Balanced, CreditRows, ReversalRows

(* A request keeps what it carries while other requests move, as long as   *)
(* no entry disappears and no filing changes once it is made.              *)
LEMMA BystanderKept ==
  ASSUME NEW k \in Handler, TypeOK, RequestSound(k), req'[k] = req[k],
         \A e \in Entry : status[e] # "absent" =>
                             status'[e] # "absent" /\ filed'[e] = filed[e]
  PROVE  RequestSound(k)'
BY DEF RequestSound, RowsToAppend, PointsRow, Credits, Reverses, Moderated

LEMMA IdleType == Idle \in Request
BY DEF Idle, Request, Statuses, Moderated

(* A request may move to any of its steps. *)
LEMMA RequestMoves ==
  ASSUME NEW r \in Request,
         NEW a \in {"idle", "create", "giver", "guard", "append", "commit", "badges"}
  PROVE  [r EXCEPT !.at = a] \in Request
BY DEF Request

(* The request of one handler is replaced. *)
LEMMA RequestReplaced ==
  ASSUME TypeOK, NEW h \in Handler, NEW r \in Request, req' = [req EXCEPT ![h] = r]
  PROVE  /\ req' \in [Handler -> Request] /\ req'[h] = r
         /\ \A k \in Handler \ {h} : req'[k] = req[k]
BY DEF TypeOK

(* A row lock given back was the holder's, and only its own locks go.      *)
LEMMA LocksReleased ==
  ASSUME TypeOK, NEW h \in Handler
  PROVE  /\ LocksAfter(h) \in [Entry -> Handler \cup {None}]
         /\ \A e \in Entry : LocksAfter(h)[e] # h
         /\ \A e \in Entry, k \in Handler \ {h} : LocksAfter(h)[e] = k <=> lock[e] = k
BY DEF LocksAfter, TypeOK

(* The row a transaction inserts is well formed. *)
LEMMA PointsRowType ==
  ASSUME TypeOK, NEW h \in Handler, req[h].entry \in Entry
  PROVE  PointsRow(h) \in LedgerRow /\ RowsToAppend(h) \in Seq(LedgerRow)
<1>1. /\ filed[req[h].entry] \in Filing /\ req[h] \in Request
  BY DEF TypeOK
<1>2. PointsRow(h) \in LedgerRow
  BY <1>1 DEF PointsRow, LedgerRow, Filing, Request
<1>3. QED
  BY <1>2 DEF RowsToAppend

(***************************************************************************)
(* One lemma per action                                                    *)
(***************************************************************************)

LEMMA SubmitReadKeeps ==
  ASSUME IInv, NEW h \in Handler, SubmitRead(h)
  PROVE  IInv'
<1> USE DEF SubmitRead, tables
<1>1. TypeOK /\ RequestsSound /\ LocksMatch
  BY DEF IInv
<1>2. PICK g, r \in Member :
        req' = [req EXCEPT ![h] = [Idle EXCEPT !.at = "create", !.op = "submit",
                                     !.giver = g, !.receiver = r, !.prior = CountPair(g, r)]]
  OBVIOUS
<1>3. CountPair(g, r) \in Nat
  BY EntryAssumption, FS_Subset, FS_CardinalityType DEF CountPair, PairEntries
<1>4. TypeOK'
  <2> DEFINE r0 == [Idle EXCEPT !.at = "create", !.op = "submit",
                                !.giver = g, !.receiver = r, !.prior = CountPair(g, r)]
  <2>1. r0 \in Request
    BY <1>3, IdleType DEF Request
  <2>2. req' \in [Handler -> Request]
    BY <1>1, <1>2, <2>1, RequestReplaced
  <2>3. QED
    BY <1>1, <2>2 DEF TypeOK
<1>5. LocksMatch'
  BY <1>1, <1>2 DEF LocksMatch, HoldsRow, TypeOK, Idle
<1>6. RequestSound(h)'
  BY <1>1, <1>2 DEF RequestSound, TypeOK, Idle
<1>7. RequestsSound'
  BY <1>1, <1>6, BystanderKept DEF RequestsSound, TypeOK
<1>8. QED
  BY <1>4, <1>5, <1>7, TablesKept DEF IInv

LEMMA SubmitCreateKeeps ==
  ASSUME IInv, NEW h \in Handler, SubmitCreate(h)
  PROVE  IInv'
<1> USE DEF SubmitCreate
<1>1. TypeOK /\ FilingsSound /\ RequestsSound /\ LocksMatch /\ RowsFaithful /\ Balanced
  BY DEF IInv
<1>2. PICK e \in Entry, nilai \in Nilai, event \in Event, facts \in TyfcbFacts :
        /\ status[e] = "absent"
        /\ status' = [status EXCEPT ![e] = "pending"]
        /\ filed'  = [filed EXCEPT ![e] = NewFiling(h, nilai, event, facts)]
  OBVIOUS
<1>3. NewFiling(h, nilai, event, facts) \in Filing
  <2>1. req[h] \in Request /\ PairOrdinal(h) \in Nat
    BY <1>1 DEF TypeOK, Request, PairOrdinal
  <2>2. TyfcbScore(Band(nilai), PairOrdinal(h), TyfcbMultiplier(event, PairOrdinal(h), facts)) \in Int
    <3>1. Band(nilai) \in Nat
      BY AmountsAssumption, BandInt
    <3>2. TyfcbMultiplier(event, PairOrdinal(h), facts) \in {2, 3, 4}
      BY <2>1, MultiplierInt
    <3>3. QED
      BY <2>1, <3>1, <3>2, ScoreInt
  <2>3. QED
    BY <2>1, <2>2 DEF NewFiling, Filing, Request
<1>4. NewFiling(h, nilai, event, facts).giver \in Member
  BY <1>1 DEF NewFiling, RequestsSound, RequestSound
<1>5. TypeOK'
  BY <1>1, <1>2, <1>3 DEF TypeOK, Statuses, Moderated, Request, Idle
<1>6. \A f \in Entry : f # e => status'[f] = status[f] /\ filed'[f] = filed[f]
  BY <1>1, <1>2 DEF TypeOK
<1>7. status'[e] = "pending"
  BY <1>1, <1>2 DEF TypeOK
<1>8. FilingsSound'
  BY <1>1, <1>2, <1>4, <1>6, <1>7 DEF FilingsSound, TypeOK
<1>9. LocksMatch'
  BY <1>1, <1>2, <1>6 DEF LocksMatch, HoldsRow, TypeOK, Idle, RequestsSound, RequestSound
<1>10. RequestsSound'
  <2>1. RequestSound(h)'
    BY <1>1 DEF RequestSound, TypeOK, Idle
  <2>2. QED
    BY <1>1, <1>2, <1>6, <2>1, BystanderKept DEF RequestsSound, TypeOK
<1>11. RowsFaithful'
  BY <1>1, <1>2, <1>6 DEF RowsFaithful, TypeOK, LedgerRow
<1>12. Balanced'
  BY <1>1, <1>2, <1>6, <1>7 DEF Balanced, CreditRows, ReversalRows
<1>13. QED
  BY <1>5, <1>8, <1>9, <1>10, <1>11, <1>12 DEF IInv

LEMMA AcceptKeeps ==
  ASSUME IInv, NEW h \in Handler, NEW e \in Entry, NEW op, NEW to, Accept(h, op, e, to),
         \/ op = "setStatus" /\ to \in Moderated /\ status[e] # to
         \/ op = "void" /\ to = "void"
  PROVE  IInv'
<1> USE DEF Accept, tables
<1>1. TypeOK /\ RequestsSound /\ LocksMatch
  BY DEF IInv
<1>2. status[e] \in Moderated
  BY <1>1 DEF TypeOK, Statuses
<1>3. TypeOK'
  <2> DEFINE r0 == [Idle EXCEPT !.at = "giver", !.op = op, !.entry = e,
                                !.to = to, !.seen = status[e]]
  <2>1. r0 \in Request
    BY <1>1, <1>2, IdleType, ZenonT(60) DEF Request, Statuses, Moderated
  <2>2. req' \in [Handler -> Request]
    BY <1>1, <2>1, RequestReplaced
  <2>3. QED
    BY <1>1, <2>2 DEF TypeOK
<1>4. LocksMatch'
  BY <1>1 DEF LocksMatch, HoldsRow, TypeOK, Idle
<1>5. RequestSound(h)'
  BY <1>1, <1>2 DEF RequestSound, TypeOK, Idle, Moderated
<1>6. RequestsSound'
  BY <1>1, <1>5, BystanderKept DEF RequestsSound, TypeOK
<1>7. QED
  BY <1>3, <1>4, <1>6, TablesKept DEF IInv

LEMMA ReadGiverKeeps ==
  ASSUME IInv, NEW h \in Handler, ReadGiver(h)
  PROVE  IInv'
<1> USE DEF ReadGiver, tables
<1>1. TypeOK /\ FilingsSound /\ RequestsSound /\ LocksMatch
  BY DEF IInv
<1>2. team[filed[req[h].entry].giver] \in Team \cup {None}
  BY <1>1 DEF TypeOK, FilingsSound, RequestsSound, RequestSound
<1>3. TypeOK'
  <2> DEFINE r0 == [req[h] EXCEPT !.team = team[filed[req[h].entry].giver],
                                  !.at = IF req[h].op = "void" THEN "append" ELSE "guard"]
  <2>1. req[h] \in Request
    BY <1>1 DEF TypeOK
  <2>2. r0 \in Request
    BY <1>2, <2>1 DEF Request
  <2>3. req' = [req EXCEPT ![h] = r0]
    OBVIOUS
  <2>4. req' \in [Handler -> Request]
    BY <1>1, <2>2, <2>3, RequestReplaced
  <2>5. QED
    BY <1>1, <2>4 DEF TypeOK
<1>4. LocksMatch'
  <2>1. /\ req'[h].at \in {"append", "guard"} /\ req'[h].entry = req[h].entry
        /\ req'[h].op = req[h].op /\ req'[h].seen = req[h].seen
        /\ req'[h].at = "append" <=> req[h].op = "void"
    BY <1>1 DEF TypeOK, Request
  <2>2. \A k \in Handler \ {h} : req'[k] = req[k]
    BY <1>1 DEF TypeOK
  <2>3. \A k \in Handler, e \in Entry : HoldsRow(k, e)' <=> HoldsRow(k, e)
    BY <2>1, <2>2 DEF HoldsRow
  <2>4. \A k \in Handler : req'[k].seen = req[k].seen
    BY <2>1, <2>2
  <2>5. QED
    BY <1>1, <2>3, <2>4 DEF LocksMatch
<1>5. RequestSound(h)'
  <2>1. /\ req'[h].at \in {"append", "guard"} /\ req'[h].entry = req[h].entry
        /\ req'[h].op = req[h].op /\ req'[h].seen = req[h].seen /\ req'[h].to = req[h].to
        /\ req'[h].at = "append" <=> req[h].op = "void"
    BY <1>1 DEF TypeOK, Request
  <2>2. req[h].at = "giver" /\ status' = status
    OBVIOUS
  <2>3. /\ req'[h].at \notin {"create", "commit"}
        /\ ~(req'[h].at = "guard" /\ req'[h].op = "void")
    BY <2>1
  <2>4. RequestSound(h)
    BY <1>1 DEF RequestsSound
  <2>5. QED
    BY <2>1, <2>2, <2>3, <2>4 DEF RequestSound
<1>6. RequestsSound'
  BY <1>1, <1>5, BystanderKept DEF RequestsSound, TypeOK
<1>7. QED
  BY <1>3, <1>4, <1>6, TablesKept DEF IInv

LEMMA GuardedUpdateKeeps ==
  ASSUME IInv, NEW h \in Handler, GuardedUpdate(h)
  PROVE  IInv'
<1> USE DEF GuardedUpdate, tables
<1>1. TypeOK /\ RequestsSound /\ LocksMatch
  BY DEF IInv
<1>2. req[h].entry \in Entry /\ req[h].op \in {"setStatus", "void"}
  BY <1>1 DEF RequestsSound, RequestSound
<1> DEFINE r0 == [req[h] EXCEPT !.at = IF req[h].op = "void" THEN "commit" ELSE "append"]
<1>3. TypeOK'
  <2>1. r0 \in Request
    <3>1. req[h] \in Request
      BY <1>1 DEF TypeOK
    <3>2. QED
      BY <3>1, RequestMoves
  <2>2. req' \in [Handler -> Request]
    BY <1>1, <2>1, RequestReplaced
  <2>3. lock' \in [Entry -> Handler \cup {None}]
    BY <1>1 DEF TypeOK
  <2>4. QED
    BY <1>1, <2>2, <2>3 DEF TypeOK
<1>4. LocksMatch'
  BY <1>1, <1>2 DEF LocksMatch, HoldsRow, RowUnlocked, RowStillAt, TypeOK
<1>5. RequestSound(h)'
  BY <1>1, <1>2 DEF RequestsSound, RequestSound, TypeOK, Request,
                    RowsToAppend, PointsRow, Credits, Reverses
<1>6. RequestsSound'
  BY <1>1, <1>5, BystanderKept DEF RequestsSound, TypeOK
<1>7. QED
  BY <1>3, <1>4, <1>6, TablesKept DEF IInv

LEMMA AppendPointsKeeps ==
  ASSUME IInv, NEW h \in Handler, AppendPoints(h)
  PROVE  IInv'
<1> USE DEF AppendPoints, tables
<1>1. TypeOK /\ RequestsSound /\ LocksMatch
  BY DEF IInv
<1>2. req[h].entry \in Entry /\ req[h].op \in {"setStatus", "void"}
  BY <1>1 DEF RequestsSound, RequestSound
<1>3. TypeOK'
  BY <1>1, <1>2, PointsRowType DEF TypeOK, Request
<1>4. LocksMatch'
  BY <1>1, <1>2 DEF LocksMatch, HoldsRow, TypeOK
<1>5. RequestSound(h)'
  <2>1. /\ req'[h].entry = req[h].entry /\ req'[h].op = req[h].op
        /\ req'[h].to = req[h].to /\ req'[h].seen = req[h].seen
        /\ req'[h].team = req[h].team /\ req'[h].rows = RowsToAppend(h)
        /\ req'[h].at \in {"guard", "commit"}
    BY <1>1 DEF TypeOK, Request
  <2>2. RowsToAppend(h)' = RowsToAppend(h)
    <3>1. (Credits(h)' <=> Credits(h)) /\ (Reverses(h)' <=> Reverses(h))
      BY <2>1 DEF Credits, Reverses
    <3>2. PointsRow(h)' = PointsRow(h)
      BY <2>1, <3>1 DEF PointsRow
    <3>3. QED
      BY <3>1, <3>2 DEF RowsToAppend
  <2>3. QED
    BY <1>1, <1>2, <2>1, <2>2 DEF RequestsSound, RequestSound
<1>6. RequestsSound'
  BY <1>1, <1>5, BystanderKept DEF RequestsSound, TypeOK
<1>7. QED
  BY <1>3, <1>4, <1>6, TablesKept DEF IInv

(* GuardLost, Fail and EvaluateBadges end the request without a commit. *)
LEMMA GiveUpKeeps ==
  ASSUME IInv, NEW h \in Handler, UNCHANGED <<status, filed, ledger, team, served>>,
         badge' \subseteq Member, req' = [req EXCEPT ![h] = Idle], lock' = LocksAfter(h)
  PROVE  IInv'
<1>1. TypeOK /\ RequestsSound /\ LocksMatch
  BY DEF IInv
<1>2. TypeOK'
  BY <1>1, LocksReleased DEF TypeOK, Request, Idle, Statuses, Moderated
<1>3. LocksMatch'
  BY <1>1, LocksReleased DEF LocksMatch, HoldsRow, TypeOK, Idle
<1>4. RequestSound(h)'
  BY <1>1 DEF RequestSound, TypeOK, Idle
<1>5. RequestsSound'
  BY <1>1, <1>4, BystanderKept DEF RequestsSound, TypeOK
<1>6. QED
  BY <1>2, <1>3, <1>5, TablesKept DEF IInv

LEMMA CommitKeeps ==
  ASSUME IInv, NEW h \in Handler, Commit(h)
  PROVE  IInv'
<1> USE DEF Commit
<1> DEFINE e == req[h].entry
<1>1. TypeOK /\ FilingsSound /\ RequestsSound /\ LocksMatch /\ RowsFaithful /\ Balanced
  BY DEF IInv
<1>2. /\ e \in Entry /\ req[h].op \in {"setStatus", "void"}
      /\ req[h].rows = RowsToAppend(h)
      /\ req[h].to # req[h].seen /\ req[h].to \in Moderated \cup {"void"}
      /\ status[e] # "absent"
  BY <1>1 DEF RequestsSound, RequestSound
<1>3. lock[e] = h /\ status[e] = req[h].seen
  BY <1>1, <1>2 DEF LocksMatch, HoldsRow
<1>4. PointsRow(h) \in LedgerRow /\ RowsToAppend(h) \in Seq(LedgerRow)
  BY <1>1, <1>2, PointsRowType
<1>5. /\ status'[e] = req[h].to
      /\ \A f \in Entry \ {e} : status'[f] = status[f]
  BY <1>1, <1>2 DEF TypeOK
<1>6. req'[h].at \in {"idle", "badges"} /\ \A k \in Handler \ {h} : req'[k] = req[k]
  BY <1>1 DEF TypeOK, Idle, Request
<1>7. TypeOK'
  <2> DEFINE r0 == IF req[h].op = "void" THEN Idle
                   ELSE [req[h] EXCEPT !.at = "badges", !.rows = <<>>]
  <2>1. r0 \in Request
    <3>1. req[h] \in Request /\ <<>> \in Seq(LedgerRow)
      BY <1>1 DEF TypeOK
    <3>2. [req[h] EXCEPT !.at = "badges", !.rows = <<>>] \in Request
      BY <3>1 DEF Request
    <3>3. QED
      BY <3>2, IdleType
  <2>2. req' \in [Handler -> Request]
    BY <1>1, <2>1, RequestReplaced
  <2>3. status' \in [Entry -> Statuses]
    BY <1>1, <1>2 DEF TypeOK, Statuses
  <2>4. ledger' \in Seq(LedgerRow)
    BY <1>1, <1>2, <1>4 DEF TypeOK
  <2>5. lock' \in [Entry -> Handler \cup {None}]
    BY <1>1, LocksReleased
  <2>6. QED
    BY <1>1, <2>2, <2>3, <2>4, <2>5 DEF TypeOK
<1>8. FilingsSound'
  BY <1>1, <1>2, <1>5 DEF FilingsSound, Moderated
<1>9. LocksMatch'
  <2>1. \A f \in Entry : ~HoldsRow(h, f)'
    BY <1>6 DEF HoldsRow
  <2>2. \A k \in Handler \ {h}, f \in Entry : HoldsRow(k, f)' <=> HoldsRow(k, f)
    BY <1>6 DEF HoldsRow
  <2>3. \A k \in Handler \ {h} : ~HoldsRow(k, e)
    BY <1>1, <1>2, <1>3 DEF LocksMatch
  <2>4. QED
    BY <1>1, <1>5, <1>6, <2>1, <2>2, <2>3, LocksReleased DEF LocksMatch
<1>10. RequestsSound'
  <2>1. RequestSound(h)'
    BY <1>1, <1>2, <1>5 DEF RequestsSound, RequestSound, TypeOK, Request, Idle, Moderated
  <2>2. QED
    BY <1>1, <1>2, <1>5, <1>6, <2>1, BystanderKept DEF RequestsSound, Moderated
<1>11. CASE RowsToAppend(h) = <<>>
  <2>1. ledger' = ledger
    BY <1>1, <1>2, <1>11 DEF TypeOK
  <2>2. status[e] # "verified" /\ status'[e] # "verified"
    BY <1>2, <1>3, <1>5, <1>11 DEF RowsToAppend, Credits, Reverses
  <2>3. RowsFaithful'
    BY <1>1, <1>2, <1>5, <2>1 DEF RowsFaithful, TypeOK, Moderated
  <2>4. Balanced'
    BY <1>1, <1>5, <2>1, <2>2 DEF Balanced, CreditRows, ReversalRows
  <2>5. QED
    BY <1>7, <1>8, <1>9, <1>10, <2>3, <2>4 DEF IInv
<1>12. CASE RowsToAppend(h) = <<PointsRow(h)>>
  <2> DEFINE row == PointsRow(h)
  <2>1. ledger' = ledger \o <<row>>
    BY <1>2, <1>12
  <2>2. Credits(h) \/ Reverses(h)
    BY <1>12 DEF RowsToAppend
  <2>3. /\ row.ref = e /\ row.member = filed[e].giver
        /\ row.note = "verified" <=> Credits(h)
        /\ row.points = IF row.note = "verified" THEN filed[e].score ELSE - filed[e].score
    BY <1>2, <2>2 DEF PointsRow, Credits, Reverses
  <2>4. RowsFaithful'
    <3> SUFFICES ASSUME NEW i \in 1..Len(ledger')
                 PROVE  LET r == ledger'[i] IN
                        /\ status'[r.ref] # "absent"
                        /\ r.member = filed[r.ref].giver
                        /\ r.points = IF r.note = "verified" THEN filed[r.ref].score
                                                            ELSE - filed[r.ref].score
      BY DEF RowsFaithful
    <3>1. CASE i \in 1..Len(ledger)
      <4>1. ledger'[i] = ledger[i] /\ ledger[i] \in LedgerRow
        BY <1>1, <1>4, <2>1, <3>1 DEF TypeOK
      <4>2. ledger[i].ref \in Entry
        BY <4>1 DEF LedgerRow
      <4>3. QED
        BY <1>1, <1>2, <1>5, <3>1, <4>1, <4>2 DEF RowsFaithful, Moderated
    <3>2. CASE i = Len(ledger) + 1
      <4>1. ledger'[i] = row
        BY <1>1, <1>4, <2>1, <3>2 DEF TypeOK
      <4>2. QED
        BY <1>2, <1>5, <2>3, <4>1 DEF Moderated
    <3>3. QED
      BY <1>1, <1>4, <2>1, <3>1, <3>2, SMTT(30) DEF TypeOK
  <2>5. Balanced'
    <3> SUFFICES ASSUME NEW f \in Entry
                 PROVE  Cardinality(CreditRows(f)') =
                          Cardinality(ReversalRows(f)') + (IF status'[f] = "verified" THEN 1 ELSE 0)
      BY DEF Balanced
    <3>1. /\ Cardinality(CreditRows(f)') = Cardinality(CreditRows(f)) +
                (IF row.ref = f /\ row.note = "verified" THEN 1 ELSE 0)
          /\ Cardinality(ReversalRows(f)') = Cardinality(ReversalRows(f)) +
                (IF row.ref = f /\ row.note # "verified" THEN 1 ELSE 0)
      BY <1>1, <1>4, <2>1, RowCommitted DEF TypeOK
    <3>2. Cardinality(CreditRows(f)) \in Nat /\ Cardinality(ReversalRows(f)) \in Nat
      BY <1>1, RowsFinite DEF TypeOK
    <3>3. Cardinality(CreditRows(f)) =
            Cardinality(ReversalRows(f)) + (IF status[f] = "verified" THEN 1 ELSE 0)
      BY <1>1 DEF Balanced
    <3> HIDE DEF row
    <3>4. CASE f = e
      BY <1>3, <1>5, <2>2, <2>3, <3>1, <3>2, <3>3, <3>4 DEF Credits, Reverses
    <3>5. CASE f # e
      BY <1>5, <2>3, <3>1, <3>2, <3>3, <3>5
    <3>6. QED
      BY <3>4, <3>5
  <2>6. QED
    BY <1>7, <1>8, <1>9, <1>10, <2>4, <2>5 DEF IInv
<1>13. QED
  BY <1>11, <1>12 DEF RowsToAppend

LEMMA MoveMemberKeeps ==
  ASSUME IInv, NEW m \in Member, MoveMember(m)
  PROVE  IInv'
<1> USE DEF MoveMember
<1>1. TypeOK /\ RequestsSound /\ LocksMatch
  BY DEF IInv
<1>2. TypeOK' /\ LocksMatch'
  BY <1>1 DEF TypeOK, LocksMatch, HoldsRow
<1>3. RequestsSound'
  BY <1>1, BystanderKept DEF RequestsSound
<1>4. QED
  BY <1>2, <1>3, TablesKept DEF IInv

(***************************************************************************)
(* Every step                                                              *)
(***************************************************************************)

(* A request that has not written its row holds no lock. *)
LEMMA NothingToRelease ==
  ASSUME IInv, NEW h \in Handler, req[h].at \in {"badges", "guard"}
  PROVE  LocksAfter(h) = lock
BY DEF IInv, TypeOK, LocksMatch, HoldsRow, LocksAfter

LEMMA NextIInv == IInv /\ [Next]_vars => IInv'
<1> SUFFICES ASSUME IInv, [Next]_vars PROVE IInv'
  OBVIOUS
<1>1. ASSUME NEW h \in Handler, Arrive(h) PROVE IInv'
  <2>1. CASE SubmitRead(h)
    BY <2>1, SubmitReadKeeps
  <2>2. CASE SetStatusRead(h)
    BY <2>2, AcceptKeeps DEF SetStatusRead
  <2>3. CASE VoidRead(h)
    BY <2>3, AcceptKeeps DEF VoidRead
  <2>4. QED
    BY <1>1, <2>1, <2>2, <2>3 DEF Arrive
<1>2. ASSUME NEW h \in Handler, Step(h) PROVE IInv'
  <2>1. CASE SubmitCreate(h)
    BY <2>1, SubmitCreateKeeps
  <2>2. CASE ReadGiver(h)
    BY <2>2, ReadGiverKeeps
  <2>3. CASE GuardedUpdate(h)
    BY <2>3, GuardedUpdateKeeps
  <2>4. CASE GuardLost(h)
    <3>1. lock' = LocksAfter(h) /\ badge' \subseteq Member
      BY <2>4, NothingToRelease DEF GuardLost, tables, IInv, TypeOK
    <3>2. QED
      BY <2>4, <3>1, GiveUpKeeps DEF GuardLost, tables
  <2>5. CASE AppendPoints(h)
    BY <2>5, AppendPointsKeeps
  <2>6. CASE Commit(h)
    BY <2>6, CommitKeeps
  <2>7. CASE EvaluateBadges(h)
    <3>1. filed[req[h].entry].giver \in Member
      BY <2>7 DEF EvaluateBadges, IInv, FilingsSound, RequestsSound, RequestSound
    <3>2. lock' = LocksAfter(h) /\ badge' \subseteq Member
      BY <2>7, <3>1, NothingToRelease DEF EvaluateBadges, IInv, TypeOK
    <3>3. QED
      BY <2>7, <3>2, GiveUpKeeps DEF EvaluateBadges
  <2>8. QED
    BY <1>2, <2>1, <2>2, <2>3, <2>4, <2>5, <2>6, <2>7 DEF Step
<1>3. ASSUME NEW h \in Handler, Fail(h) PROVE IInv'
  <2>1. badge' \subseteq Member
    BY <1>3 DEF Fail, tables, IInv, TypeOK
  <2>2. QED
    BY <1>3, <2>1, GiveUpKeeps DEF Fail, tables
<1>4. ASSUME NEW m \in Member, MoveMember(m) PROVE IInv'
  BY <1>4, MoveMemberKeeps
<1>5. CASE UNCHANGED vars
  BY <1>5 DEF vars, IInv, TypeOK, FilingsSound, LocksMatch, HoldsRow, RequestsSound,
              RequestSound, RowsToAppend, PointsRow, Credits, Reverses, RowsFaithful,
              Balanced, CreditRows, ReversalRows
<1>6. QED
  BY <1>1, <1>2, <1>3, <1>4, <1>5 DEF Next

(* The moderation protocol keeps its invariant: in every committed state   *)
(* the ledger credits exactly the verified entries, row locks match the    *)
(* open transactions, and no request acts on a row it never read           *)
(* (usecase/tyfcb.go, SetStatus and Void).                                 *)
THEOREM InvariantHolds == Spec => []IInv
BY InitIInv, NextIInv, PTL DEF Spec

(* The variables keep their types. *)
COROLLARY TypesHold == Spec => []TypeOK
BY InvariantHolds, PTL DEF IInv

(***************************************************************************)
(* What a step does to the tables                                          *)
(***************************************************************************)

(* Only an insert or a commit changes an entry, its filing or its rows. *)
LEMMA StepShapes ==
  ASSUME [Next]_vars
  PROVE  \/ UNCHANGED <<status, filed, ledger>>
         \/ \E h \in Handler : SubmitCreate(h)
         \/ \E h \in Handler : Commit(h)
BY DEF Next, Arrive, Step, SubmitRead, SetStatusRead, VoidRead, Accept, ReadGiver,
       GuardedUpdate, GuardLost, AppendPoints, EvaluateBadges, Fail, MoveMember, tables, vars

(* What a commit does: one entry moves from the status its request read to *)
(* the one it asked for, and the rows appended are rows of that entry.     *)
LEMMA CommitShape ==
  ASSUME IInv, NEW h \in Handler, Commit(h)
  PROVE  LET e == req[h].entry IN
         /\ e \in Entry /\ status[e] = req[h].seen /\ status[e] \in Moderated
         /\ status' = [status EXCEPT ![e] = req[h].to] /\ req[h].to # status[e]
         /\ req[h].to \in Moderated \cup {"void"}
         /\ filed' = filed
         /\ \A f \in Entry \ {e} : /\ CreditRows(f)' = CreditRows(f)
                                   /\ ReversalRows(f)' = ReversalRows(f)
<1> USE DEF Commit
<1> DEFINE e == req[h].entry
<1>1. TypeOK /\ RequestsSound /\ LocksMatch
  BY DEF IInv
<1>2. /\ e \in Entry /\ req[h].op \in {"setStatus", "void"}
      /\ req[h].rows = RowsToAppend(h) /\ req[h].seen \in Moderated
      /\ req[h].to # req[h].seen /\ req[h].to \in Moderated \cup {"void"}
  BY <1>1 DEF RequestsSound, RequestSound
<1>3. status[e] = req[h].seen
  BY <1>1, <1>2 DEF LocksMatch, HoldsRow
<1>4. ASSUME NEW f \in Entry \ {e}
      PROVE  CreditRows(f)' = CreditRows(f) /\ ReversalRows(f)' = ReversalRows(f)
  <2>1. CASE RowsToAppend(h) = <<>>
    <3>1. ledger' = ledger
      BY <1>1, <1>2, <2>1 DEF TypeOK
    <3>2. QED
      BY <3>1 DEF CreditRows, ReversalRows
  <2>2. CASE RowsToAppend(h) = <<PointsRow(h)>>
    <3> DEFINE row == PointsRow(h)
    <3>1. ledger' = ledger \o <<row>> /\ row \in LedgerRow /\ row.ref = e
      BY <1>1, <1>2, <2>2, PointsRowType DEF PointsRow
    <3> HIDE DEF row
    <3>2. /\ Len(ledger') = Len(ledger) + 1 /\ ledger'[Len(ledger) + 1] = row
          /\ \A i \in 1..Len(ledger) : ledger'[i] = ledger[i]
          /\ Len(ledger) \in Nat
      BY <1>1, <3>1 DEF TypeOK
    <3>3. QED
      BY <1>4, <3>1, <3>2 DEF CreditRows, ReversalRows
  <2>3. QED
    BY <2>1, <2>2 DEF RowsToAppend
<1>5. QED
  BY <1>2, <1>3, <1>4

(* A voided entry stays void and its points never move again, however late *)
(* a request that read it before commits (usecase/tyfcb.go, Void).         *)
THEOREM VoidsAreFinal == Spec => VoidIsFinal
<1>1. ASSUME IInv, [Next]_vars, NEW e \in Entry, status[e] = "void"
      PROVE  /\ status'[e] = "void"
             /\ CreditRows(e)' = CreditRows(e) /\ ReversalRows(e)' = ReversalRows(e)
  <2>1. TypeOK
    BY <1>1 DEF IInv
  <2>2. CASE UNCHANGED <<status, filed, ledger>>
    BY <1>1, <2>2 DEF CreditRows, ReversalRows
  <2>3. ASSUME NEW h \in Handler, SubmitCreate(h)
        PROVE  /\ status'[e] = "void"
               /\ CreditRows(e)' = CreditRows(e) /\ ReversalRows(e)' = ReversalRows(e)
    BY <1>1, <2>1, <2>3 DEF SubmitCreate, CreditRows, ReversalRows, TypeOK
  <2>4. ASSUME NEW h \in Handler, Commit(h)
        PROVE  /\ status'[e] = "void"
               /\ CreditRows(e)' = CreditRows(e) /\ ReversalRows(e)' = ReversalRows(e)
    <3>1. e # req[h].entry
      BY <1>1, <2>4, CommitShape DEF Moderated
    <3>2. QED
      BY <1>1, <2>1, <2>4, <3>1, CommitShape DEF TypeOK
  <2>5. QED
    BY <1>1, <2>2, <2>3, <2>4, StepShapes
<1>2. IInv /\ [Next]_vars =>
        [\A e \in Entry :
           status[e] = "void" =>
             /\ status'[e] = "void"
             /\ CreditRows(e)' = CreditRows(e) /\ ReversalRows(e)' = ReversalRows(e)]_vars
  BY <1>1
<1>3. QED
  BY <1>2, InvariantHolds, PTL DEF Spec, VoidIsFinal

(* A decision is only ever applied to the status its request had read: no  *)
(* two moderators overwrite each other (repository/postgres/tyfcb.go,      *)
(* UpdateStatusGuarded and Void).                                          *)
THEOREM NoUpdateIsLost == Spec => NoLostUpdate
<1>1. ASSUME IInv, [Next]_vars, NEW e \in Entry, status[e] # "absent", status'[e] # status[e]
      PROVE  \E h \in Handler :
               req[h].at = "commit" /\ req[h].entry = e /\ req[h].seen = status[e]
  <2>1. TypeOK
    BY <1>1 DEF IInv
  <2>2. ASSUME NEW h \in Handler, SubmitCreate(h) PROVE FALSE
    BY <1>1, <2>1, <2>2 DEF SubmitCreate, TypeOK
  <2>3. PICK h \in Handler : Commit(h)
    BY <1>1, <2>2, StepShapes
  <2>4. e = req[h].entry
    BY <1>1, <2>1, <2>3, CommitShape DEF TypeOK
  <2>5. QED
    BY <1>1, <2>3, <2>4, CommitShape DEF Commit
<1>2. IInv /\ [Next]_vars =>
        [\A e \in Entry :
           status[e] # "absent" /\ status'[e] # status[e] =>
             \E h \in Handler :
               req[h].at = "commit" /\ req[h].entry = e /\ req[h].seen = status[e]]_vars
  BY <1>1
<1>3. QED
  BY <1>2, InvariantHolds, PTL DEF Spec, NoLostUpdate

(***************************************************************************)
(* Badges                                                                  *)
(***************************************************************************)

(* No step removes or rewrites a ledger row.                               *)
LEMMA LedgerGrows ==
  ASSUME TypeOK, [Next]_vars, NEW i \in 1..Len(ledger)
  PROVE  i \in 1..Len(ledger') /\ ledger'[i] = ledger[i]
<1>1. ledger \in Seq(LedgerRow)
  BY DEF TypeOK
<1>2. CASE ledger' = ledger
  BY <1>1, <1>2
<1>3. ASSUME NEW h \in Handler, Commit(h)
      PROVE  i \in 1..Len(ledger') /\ ledger'[i] = ledger[i]
  <2>1. ledger' = ledger \o req[h].rows /\ req[h].rows \in Seq(LedgerRow)
    BY <1>3 DEF Commit, TypeOK, Request
  <2>2. Len(ledger') = Len(ledger) + Len(req[h].rows)
    BY <1>1, <2>1, ConcatProperties
  <2>3. Len(ledger) \in Nat /\ Len(req[h].rows) \in Nat
    BY <1>1, <2>1, LenProperties
  <2>4. ledger'[i] = ledger[i]
    BY <1>1, <2>1, <2>3, ConcatProperties
  <2>5. QED
    BY <2>2, <2>3, <2>4
<1>4. ASSUME NEW h \in Handler, SubmitCreate(h) PROVE ledger' = ledger
  BY <1>4 DEF SubmitCreate
<1>5. QED
  BY <1>2, <1>3, <1>4, StepShapes

(* An entry that is verified has a credit row in the name of its giver.    *)
LEMMA VerifiedIsCredited ==
  ASSUME IInv, NEW e \in Entry, status[e] = "verified"
  PROVE  \E i \in 1..Len(ledger) : ledger[i].member = filed[e].giver /\ ledger[i].note = "verified"
<1>1. /\ Cardinality(CreditRows(e)) \in Nat /\ Cardinality(ReversalRows(e)) \in Nat
  BY RowsFinite DEF IInv, TypeOK
<1>2. Cardinality(CreditRows(e)) = Cardinality(ReversalRows(e)) + 1
  BY DEF IInv, Balanced
<1>3. CreditRows(e) # {}
  <2>1. Cardinality(CreditRows(e)) # 0
    BY <1>1, <1>2
  <2>2. QED
    BY <2>1, FS_EmptySet, Zenon
<1>4. PICK i \in 1..Len(ledger) : ledger[i].ref = e /\ ledger[i].note = "verified"
  BY <1>3 DEF CreditRows
<1>5. QED
  BY <1>4 DEF IInv, RowsFaithful

(* A badge is awarded, after the commit and outside it, only for what the  *)
(* ledger keeps: a holder of FIRST_BLOOD has a credited entry there for    *)
(* ever (usecase/badge.go, EvaluateQuietly).                               *)
THEOREM BadgesAreEarned == Spec => []BadgeWasEarned
<1>1. Init => BadgeWasEarned
  BY DEF Init, BadgeWasEarned
<1>2. IInv /\ BadgeWasEarned /\ [Next]_vars => BadgeWasEarned'
  <2> SUFFICES ASSUME IInv, BadgeWasEarned, [Next]_vars, NEW m \in badge'
               PROVE  \E i \in 1..Len(ledger') : ledger'[i].member = m /\ ledger'[i].note = "verified"
    BY DEF BadgeWasEarned
  <2>1. \E i \in 1..Len(ledger) : ledger[i].member = m /\ ledger[i].note = "verified"
    <3>1. CASE m \in badge
      BY <3>1 DEF BadgeWasEarned
    <3>2. ASSUME m \notin badge
          PROVE  \E e \in Entry : status[e] = "verified" /\ filed[e].giver = m
      BY <3>2, ZenonT(60) DEF Next, Arrive, Step, SubmitRead, SetStatusRead, VoidRead, Accept, ReadGiver,
                  SubmitCreate, GuardedUpdate, GuardLost, AppendPoints, Commit, EvaluateBadges,
                  VerifiedBy, Fail, MoveMember, tables, vars
    <3>3. QED
      BY <3>1, <3>2, VerifiedIsCredited
  <2>2. PICK i \in 1..Len(ledger) : ledger[i].member = m /\ ledger[i].note = "verified"
    BY <2>1
  <2>3. TypeOK
    BY DEF IInv
  <2>4. QED
    BY <2>2, <2>3, LedgerGrows
<1>3. QED
  BY <1>1, <1>2, InvariantHolds, PTL DEF Spec

(***************************************************************************)
(* Tyfcb implements EntryBook                                              *)
(***************************************************************************)

(* What the ledger holds for an entry is its score while it is verified    *)
(* and nothing otherwise.                                                  *)
NetIsScore ==
  \A e \in Entry : NetPoints(e) = IF status[e] = "verified" THEN filed[e].score ELSE 0

LEMMA NetIsScoreWhileVerified == IInv => NetIsScore
<1> USE DEF NetIsScore
<1> SUFFICES ASSUME IInv, NEW e \in Entry
             PROVE  NetPoints(e) = IF status[e] = "verified" THEN filed[e].score ELSE 0
  OBVIOUS
<1>1. filed[e].score \in Int
  BY DEF IInv, TypeOK, Filing
<1>2. /\ Cardinality(CreditRows(e)) \in Nat /\ Cardinality(ReversalRows(e)) \in Nat
  BY RowsFinite DEF IInv, TypeOK
<1>3. Cardinality(CreditRows(e)) - Cardinality(ReversalRows(e)) =
        IF status[e] = "verified" THEN 1 ELSE 0
  BY <1>2 DEF IInv, Balanced
<1>4. QED
  BY <1>1, <1>2, <1>3 DEF NetPoints

(* An entry whose status, filing and points stay as they are stands where  *)
(* it stood.                                                               *)
LEMMA StutterMaps ==
  ASSUME IInv, IInv', UNCHANGED <<status, filed, ledger>>
  PROVE  UNCHANGED Book!bookVars
<1>1. StandingOf' = StandingOf
  BY DEF StandingOf
<1>2. [e \in Entry |-> filed[e].score]' = [e \in Entry |-> filed[e].score]
  OBVIOUS
<1>3. [e \in Entry |-> NetPoints(e)]' = [e \in Entry |-> NetPoints(e)]
  BY DEF NetPoints, CreditRows, ReversalRows
<1>4. QED
  BY <1>1, <1>2, <1>3 DEF Book!bookVars

(* The insert of a submission files an entry. *)
LEMMA SubmitCreateMaps ==
  ASSUME IInv, IInv', NEW h \in Handler, SubmitCreate(h)
  PROVE  Book!Next
<1>1. PICK e \in Entry :
        /\ status[e] = "absent" /\ status' = [status EXCEPT ![e] = "pending"]
        /\ \A f \in Entry \ {e} : filed'[f] = filed[f]
  BY DEF SubmitCreate, IInv, TypeOK
<1>2. /\ \A f \in Entry \ {e} : status'[f] = status[f]
      /\ status'[e] = "pending"
  BY <1>1 DEF IInv, TypeOK
<1>3. StandingOf[e] = "absent" /\ StandingOf' = [StandingOf EXCEPT ![e] = "open"]
  <2>1. StandingOf[e] = "absent" /\ StandingOf'[e] = "open"
    BY <1>1, <1>2 DEF StandingOf, StandsAs
  <2>2. \A f \in Entry \ {e} : StandingOf'[f] = StandingOf[f]
    BY <1>2 DEF StandingOf
  <2>3. StandingOf = [f \in Entry |-> StandingOf[f]] /\ StandingOf' = [f \in Entry |-> StandingOf'[f]]
    BY DEF StandingOf
  <2>4. QED
    BY <2>1, <2>2, <2>3
<1>4. filed'[e].score \in Int
  BY DEF IInv, TypeOK, Filing
<1>5. [f \in Entry |-> filed[f].score]' =
        [[f \in Entry |-> filed[f].score] EXCEPT ![e] = filed'[e].score]
  BY <1>1
<1>6. \A f \in Entry : NetPoints(f)' = NetPoints(f)
  <2>1. NetIsScore
    BY NetIsScoreWhileVerified
  <2>2. NetIsScore'
    BY NetIsScoreWhileVerified, PTL
  <2>3. ASSUME NEW f \in Entry PROVE NetPoints(f)' = NetPoints(f)
    <3>1. CASE f = e
      BY <1>1, <1>2, <2>1, <2>2, <3>1 DEF NetIsScore
    <3>2. CASE f # e
      BY <1>1, <1>2, <2>1, <2>2, <3>2 DEF NetIsScore
    <3>3. QED
      BY <3>1, <3>2
  <2>4. QED
    BY <2>3
<1>7. Book!File(e)
  BY <1>3, <1>4, <1>5, <1>6 DEF Book!File
<1>8. QED
  BY <1>7 DEF Book!Next

(* A commit that credits counts the entry, one that reverses uncounts or   *)
(* cancels it, and one between two unverified statuses goes unnoticed.     *)
LEMMA CommitMaps ==
  ASSUME IInv, IInv', NEW h \in Handler, Commit(h)
  PROVE  [Book!Next]_Book!bookVars
<1>1. PICK e \in Entry :
        /\ e = req[h].entry /\ status[e] \in Moderated /\ filed' = filed
        /\ status' = [status EXCEPT ![e] = req[h].to] /\ req[h].to # status[e]
        /\ req[h].to \in Moderated \cup {"void"}
  BY CommitShape
<1>2. /\ \A f \in Entry \ {e} : status'[f] = status[f]
      /\ status'[e] = req[h].to
  BY <1>1 DEF IInv, TypeOK
<1>3. NetIsScore /\ NetIsScore'
  <2>1. NetIsScore
    BY NetIsScoreWhileVerified
  <2>2. NetIsScore'
    BY NetIsScoreWhileVerified, PTL
  <2>3. QED
    BY <2>1, <2>2
<1>4. /\ \A f \in Entry \ {e} : NetPoints(f)' = NetPoints(f)
      /\ NetPoints(e)  = IF status[e] = "verified" THEN filed[e].score ELSE 0
      /\ NetPoints(e)' = IF req[h].to = "verified" THEN filed[e].score ELSE 0
  BY <1>1, <1>2, <1>3 DEF NetIsScore
<1> DEFINE counted  == [f \in Entry |-> NetPoints(f)]
           counted2 == [f \in Entry |-> NetPoints(f)']
<1>5. /\ counted2 = [counted EXCEPT ![e] = NetPoints(e)']
  BY <1>1, <1>4
<1>6. StandingOf' = [StandingOf EXCEPT ![e] = StandsAs(req[h].to)] /\ StandingOf[e] = StandsAs(status[e])
  <2>1. StandingOf[e] = StandsAs(status[e]) /\ StandingOf'[e] = StandsAs(req[h].to)
    BY <1>1, <1>2 DEF StandingOf
  <2>2. \A f \in Entry \ {e} : StandingOf'[f] = StandingOf[f]
    BY <1>2 DEF StandingOf
  <2>3. StandingOf = [f \in Entry |-> StandingOf[f]] /\ StandingOf' = [f \in Entry |-> StandingOf'[f]]
    BY DEF StandingOf
  <2>4. QED
    BY <2>1, <2>2, <2>3
<1>7. [f \in Entry |-> filed[f].score]' = [f \in Entry |-> filed[f].score]
  BY <1>1
<1>8. CASE req[h].to = "verified"
  <2>1. StandsAs(status[e]) = "open" /\ StandsAs(req[h].to) = "counted"
    BY <1>1, <1>8 DEF StandsAs, Moderated
  <2>2. Book!Count(e)
    BY <1>1, <1>4, <1>5, <1>6, <1>7, <1>8, <2>1 DEF Book!Count
  <2>3. QED
    BY <1>1, <2>2 DEF Book!Next
<1>9. CASE status[e] = "verified" /\ req[h].to # "void"
  <2>1. StandsAs(status[e]) = "counted" /\ StandsAs(req[h].to) = "open"
    BY <1>1, <1>9 DEF StandsAs, Moderated
  <2>2. Book!Uncount(e)
    BY <1>1, <1>4, <1>5, <1>6, <1>7, <1>9, <2>1 DEF Book!Uncount
  <2>3. QED
    BY <1>1, <2>2 DEF Book!Next
<1>10. CASE req[h].to = "void"
  <2>1. StandsAs(status[e]) \in {"open", "counted"} /\ StandsAs(req[h].to) = "cancelled"
    BY <1>1, <1>10 DEF StandsAs, Moderated
  <2>2. Book!Cancel(e)
    BY <1>1, <1>4, <1>5, <1>6, <1>7, <1>10, <2>1 DEF Book!Cancel
  <2>3. QED
    BY <1>1, <2>2 DEF Book!Next
<1>11. CASE status[e] # "verified" /\ req[h].to \in {"pending", "rejected"}
  <2>1. StandsAs(status[e]) = "open" /\ StandsAs(req[h].to) = "open"
    BY <1>1, <1>11 DEF StandsAs, Moderated
  <2>2. StandingOf' = StandingOf
    BY <1>6, <2>1 DEF StandingOf
  <2>3. counted2 = counted
    BY <1>4, <1>5, <1>11
  <2>4. QED
    BY <1>7, <2>2, <2>3 DEF Book!bookVars
<1>12. QED
  BY <1>1, <1>8, <1>9, <1>10, <1>11 DEF Moderated

(* TYFCB moderation, with its racing requests, lost guards, rollbacks and  *)
(* append-only ledger, implements the book of entries: points are counted  *)
(* exactly while an entry stands as verified, and a voided entry is never  *)
(* heard of again (usecase/tyfcb.go).                                      *)
THEOREM TyfcbImplementsBook == Spec => BookSpec
<1>1. Init => Book!Init
  <2> SUFFICES ASSUME Init PROVE Book!Init
    OBVIOUS
  <2>1. IInv
    BY InitIInv
  <2>2. NetIsScore
    BY <2>1, NetIsScoreWhileVerified
  <2>3. \A e \in Entry : NetPoints(e) = 0 /\ filed[e].score = 0 /\ StandsAs(status[e]) = "absent"
    BY <2>2 DEF NetIsScore, Init, Unfiled, StandsAs
  <2>4. QED
    BY <2>3 DEF Book!Init, StandingOf
<1>2. IInv /\ IInv' /\ [Next]_vars => [Book!Next]_Book!bookVars
  <2> SUFFICES ASSUME IInv, IInv', [Next]_vars PROVE [Book!Next]_Book!bookVars
    OBVIOUS
  <2>1. CASE UNCHANGED <<status, filed, ledger>>
    BY <2>1, StutterMaps
  <2>2. ASSUME NEW h \in Handler, SubmitCreate(h) PROVE Book!Next
    BY <2>2, SubmitCreateMaps
  <2>3. ASSUME NEW h \in Handler, Commit(h) PROVE [Book!Next]_Book!bookVars
    BY <2>3, CommitMaps
  <2>4. QED
    BY <2>1, <2>2, <2>3, StepShapes
<1>3. QED
  BY <1>1, <1>2, InvariantHolds, PTL DEF Spec, BookSpec, Book!Spec
=============================================================================
