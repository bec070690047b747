-------------------------- MODULE DirectoryProofs --------------------------
(***************************************************************************)
(* Proofs about the committee's master data, for any number of             *)
(* classifications, spheres, members, weeks, boosters and concurrent       *)
(* requests, whether they stop or not.                                     *)
(***************************************************************************)
EXTENDS Directory, FiniteSetTheorems, WellFoundedInduction, TLAPS

USE NoneAssumption, IdAssumption, OrderAssumption, WeekAssumption, BoundAssumption, StartAssumption, RowAssumption

(* What a request carries depends on where it stands. *)
Placed(r) ==
  /\ r.at = "delete" => r.class \in Class
  /\ r.at \in {"create", "empty", "insert"} => r.sphere \in Sphere /\ r.left \subseteq r.asked
  /\ r.at = "empty" => r.left = r.asked
  /\ r.at = "update" => r.booster \in Booster /\ r.seen \in Status

Placement == \A h \in Handler : Placed(req[h])

(* A deletion found nobody who holds its classification, so whoever holds  *)
(* it now took it since.                                                   *)
HoldersAreLate ==
  \A h \in Handler : req[h].at = "delete" =>
    \A m \in Member : klass[m] = req[h].class => m \in late

(* Callers name what there is or was, which is never issued again.         *)
Known(S) == S \subseteq there \cup gone

NamesKnown ==
  /\ \A s \in Sphere : Known(wanted[s])
  /\ \A h \in Handler : req[h].at \in {"empty", "insert"} =>
       /\ Known(req[h].asked)
       /\ sphere[req[h].sphere] # None \/ req[h].sphere \in gone

Fills(h, s) == req[h].at = "insert" /\ req[h].sphere = s

(* A sphere that is not mixed up has one replacement at most, and its      *)
(* members are those wanted but for what that has still to insert.         *)
SphereSound(s) ==
  sphere[s] # None /\ s \notin mixed =>
    /\ (\A h \in Handler : ~Fills(h, s)) => sphere[s] = wanted[s] \cap there
    /\ \A h \in Handler : Fills(h, s) =>
         /\ \A g \in Handler : Fills(g, s) => g = h
         /\ req[h].asked = wanted[s]
         /\ sphere[s] = (wanted[s] \ req[h].left) \cap there

SpheresSound == \A s \in Sphere : SphereSound(s)

(* An open creation has a sphere of its own that nobody can see, and what  *)
(* it has inserted cannot be deleted before it commits.                    *)
CreationSound(h) ==
  req[h].at = "create" =>
    /\ sphere[req[h].sphere] = None /\ req[h].sphere \notin gone
    /\ wanted[req[h].sphere] = req[h].asked
    /\ Inserted(h) \subseteq there
    /\ \A g \in Handler : req[g].at = "create" /\ req[g].sphere = req[h].sphere => g = h

CreationsSound == \A h \in Handler : CreationSound(h)

IInv ==
  /\ TypeOK /\ Placement
  /\ HoldersAreLate /\ NoSilentOrphan
  /\ NamesKnown /\ SpheresSound /\ CreationsSound
  /\ BoosterStatusKept

(***************************************************************************)
(* Lemmas                                                                  *)
(***************************************************************************)
LEMMA IdleOK == Idle \in Request /\ Placed(Idle) /\ Idle.at = "idle"
BY DEF Idle, Request, Placed

(* A handler moves on, and the others stay. *)
LEMMA MoveOK ==
  ASSUME TypeOK, NEW h \in Handler, NEW r \in Request, req' = [req EXCEPT ![h] = r]
  PROVE  /\ req' \in [Handler -> Request]
         /\ \A g \in Handler : req'[g] = IF g = h THEN r ELSE req[g]
BY DEF TypeOK

(* A request of one statement leaves no trace but in the tables. *)
LEMMA AtOnceIs ==
  ASSUME TypeOK, NEW h \in Handler, AtOnce(h)
  PROVE  /\ req' \in [Handler -> Request] /\ served' \in 0..MaxRequests
         /\ \A g \in Handler : req'[g].at # "idle" \/ req[g].at # "idle" => req'[g] = req[g]
<1>1. req' = [req EXCEPT ![h] = Idle] /\ served' = served + 1 /\ served < MaxRequests /\ req[h].at = "idle"
  BY DEF AtOnce, Begins
<1>2. served' \in 0..MaxRequests
  BY <1>1 DEF TypeOK
<1>3. QED
  BY <1>1, <1>2, IdleOK, MoveOK

(* The parts of the invariant under a request that is over at once. *)
LEMMA AtOnceKeeps ==
  ASSUME IInv, NEW h \in Handler, AtOnce(h)
  PROVE  /\ Placement'
         /\ UNCHANGED <<klass, late>> => HoldersAreLate'
         /\ UNCHANGED <<klass, late, chosen>> => NoSilentOrphan'
         /\ UNCHANGED <<there, gone, sphere, wanted>> => NamesKnown'
         /\ UNCHANGED <<there, sphere, wanted, mixed>> => SpheresSound'
         /\ UNCHANGED <<there, gone, sphere, wanted>> => CreationsSound'
         /\ UNCHANGED <<booster, stale, switched>> => BoosterStatusKept'
<1>1. \A g \in Handler : req'[g].at # "idle" \/ req[g].at # "idle" => req'[g] = req[g]
  BY AtOnceIs DEF IInv
<1>2. Placement'
  BY <1>1 DEF IInv, Placement, Placed
<1>3. UNCHANGED <<klass, late>> => HoldersAreLate'
  BY <1>1 DEF IInv, HoldersAreLate
<1>4. UNCHANGED <<klass, late, chosen>> => NoSilentOrphan'
  BY DEF IInv, NoSilentOrphan
<1>5. UNCHANGED <<there, gone, sphere, wanted>> => NamesKnown'
  BY <1>1 DEF IInv, NamesKnown, Known
<1>6. UNCHANGED <<there, sphere, wanted, mixed>> => SpheresSound'
  <2>1. \A g \in Handler, s \in Sphere : Fills(g, s)' <=> Fills(g, s)
    BY <1>1 DEF Fills
  <2>2. \A g \in Handler, s \in Sphere : Fills(g, s) => req'[g] = req[g]
    BY <1>1 DEF Fills
  <2>3. QED
    BY <2>1, <2>2 DEF IInv, SpheresSound, SphereSound
<1>7. UNCHANGED <<booster, stale, switched>> => BoosterStatusKept'
  BY DEF IInv, BoosterStatusKept
<1>8. UNCHANGED <<there, gone, sphere, wanted>> => CreationsSound'
  BY <1>1 DEF IInv, CreationsSound, CreationSound, Inserted
<1>9. QED
  BY <1>2, <1>3, <1>4, <1>5, <1>6, <1>7, <1>8

(* A handler moves on while the tables stay; one that leaves a replacement *)
(* has nothing left to insert, or says that the sphere is mixed up.        *)
LEMMA MoveKeeps ==
  ASSUME IInv, NEW h \in Handler, NEW r \in Request, req' = [req EXCEPT ![h] = r], Placed(r),
         r.at \notin {"insert", "create"},
         r.at = "delete" => \A m \in Member : klass[m] # r.class,
         r.at = "empty" => Known(r.asked) /\ (sphere[r.sphere] # None \/ r.sphere \in gone),
         mixed' = IF req[h].left # {} /\ req[h].at = "insert" THEN mixed \cup {req[h].sphere} ELSE mixed,
         served' \in 0..MaxRequests,
         UNCHANGED <<tables, chosen, late, wanted, switched, stale>>
  PROVE  IInv'
<1>1. /\ req' \in [Handler -> Request]
      /\ \A g \in Handler : req'[g] = IF g = h THEN r ELSE req[g]
  BY MoveOK DEF IInv
<1>2. UNCHANGED <<there, klass, sphere, met, event, booster, gone, chosen, late, wanted, switched, stale>>
  BY DEF tables
<1>3. TypeOK'
  <2>1. mixed' \subseteq Sphere
    BY DEF IInv, TypeOK, Placement, Placed
  <2>2. QED
    BY <1>1, <1>2, <2>1 DEF IInv, TypeOK, References
<1>4. Placement'
  BY <1>1 DEF IInv, Placement
<1>5. HoldersAreLate' /\ NoSilentOrphan' /\ BoosterStatusKept'
  BY <1>1, <1>2 DEF IInv, HoldersAreLate, NoSilentOrphan, BoosterStatusKept
<1>6. NamesKnown'
  BY <1>1, <1>2 DEF IInv, NamesKnown, Known
<1>7. SpheresSound'
  <2>. SUFFICES ASSUME NEW s \in Sphere PROVE SphereSound(s)'
    BY DEF SpheresSound
  <2>. USE DEF IInv, SpheresSound, SphereSound
  <2>1. \A g \in Handler : Fills(g, s)' <=> g # h /\ Fills(g, s)
    BY <1>1 DEF Fills
  <2>2. \A g \in Handler : Fills(g, s)' => req'[g] = req[g]
    BY <1>1, <2>1
  <2>3. CASE ~Fills(h, s)
    <3>1. (\A g \in Handler : Fills(g, s)' <=> Fills(g, s)) /\ (s \in mixed' <=> s \in mixed)
      BY <2>1, <2>3 DEF Fills
    <3>2. QED
      BY <1>2, <2>2, <3>1
  <2>4. CASE Fills(h, s) /\ req[h].left # {}
    BY <2>4 DEF Fills
  <2>5. CASE Fills(h, s) /\ req[h].left = {} /\ sphere[s] # None /\ s \notin mixed
    <3>1. sphere[s] = wanted[s] \cap there /\ \A g \in Handler : ~Fills(g, s)'
      BY <2>1, <2>5
    <3>2. QED
      BY <1>2, <3>1
  <2>6. CASE sphere[s] = None \/ s \in mixed
    BY <1>2, <2>6
  <2>7. QED
    BY <2>3, <2>4, <2>5, <2>6
<1>8. CreationsSound'
  BY <1>1, <1>2 DEF IInv, CreationsSound, CreationSound, Inserted
<1>9. QED
  BY <1>3, <1>4, <1>5, <1>6, <1>7, <1>8 DEF IInv

(***************************************************************************)
(* Each step keeps the invariant                                           *)
(***************************************************************************)
LEMMA InitIInv == Init => IInv
<1>. SUFFICES ASSUME Init PROVE IInv
  OBVIOUS
<1>. USE DEF Init
<1>1. \A h \in Handler : req[h] = Idle
  OBVIOUS
<1>2. TypeOK
  <2>1. PICK s \in Sphere : sphere = [x \in Sphere |-> IF x = s THEN StartClasses ELSE None]
    OBVIOUS
  <2>2. PICK b \in Booster : booster = [x \in Booster |-> IF x = b THEN "aktif" ELSE None]
    OBVIOUS
  <2>3. sphere \in [Sphere -> (SUBSET Class) \cup {None}] /\ \A x \in Sphere : sphere[x] # None => sphere[x] \subseteq there
    BY <2>1
  <2>4. booster \in [Booster -> Status \cup {None}] /\ switched \in [Booster -> Status]
    BY <2>2 DEF Status
  <2>5. klass \in [Member -> Class \cup {None}] /\ \A m \in Member : klass[m] # None => klass[m] \in there
    OBVIOUS
  <2>6. References
    BY <2>3, <2>5 DEF References
  <2>7. QED
    BY <2>3, <2>4, <2>5, <2>6, IdleOK DEF TypeOK
<1>3. Placement /\ HoldersAreLate /\ NoSilentOrphan /\ NamesKnown
  BY <1>1, IdleOK DEF Placement, HoldersAreLate, NoSilentOrphan, NamesKnown, Known
<1>4. SpheresSound
  BY <1>1, IdleOK DEF SpheresSound, SphereSound, Fills
<1>5. BoosterStatusKept /\ CreationsSound
  BY <1>1, IdleOK DEF BoosterStatusKept, CreationsSound, CreationSound
<1>6. QED
  BY <1>2, <1>3, <1>4, <1>5 DEF IInv

(* The reads that begin a deletion, a replacement or an edit. *)
LEMMA ReadKeeps ==
  ASSUME IInv, NEW h \in Handler, DeleteClassRead(h) \/ ReplaceRead(h) \/ UpdateBoosterRead(h)
  PROVE  IInv'
<1>1. /\ req[h].at = "idle" /\ served' \in 0..MaxRequests
      /\ UNCHANGED <<tables, chosen, late, wanted, mixed, switched, stale>>
  <2>1. /\ req[h].at = "idle" /\ served < MaxRequests /\ served' = served + 1
        /\ UNCHANGED <<tables, history>>
    BY DEF DeleteClassRead, ReplaceRead, UpdateBoosterRead, Begins
  <2>2. served' \in 0..MaxRequests
    BY <2>1 DEF IInv, TypeOK
  <2>3. QED
    BY <2>1, <2>2 DEF history
<1>2. mixed' = IF req[h].left # {} /\ req[h].at = "insert" THEN mixed \cup {req[h].sphere} ELSE mixed
  BY <1>1
<1>3. CASE DeleteClassRead(h)
  <2>1. PICK c \in there :
          MayDelete(c) /\ req' = [req EXCEPT ![h] = [Idle EXCEPT !.at = "delete", !.class = c]]
    BY <1>3 DEF DeleteClassRead, Begins
  <2>. DEFINE r == [Idle EXCEPT !.at = "delete", !.class = c]
              holders == { m \in Member : klass[m] = c }
  <2>2. c \in Class
    BY DEF IInv, TypeOK
  <2>3. r \in Request /\ Placed(r) /\ r.at = "delete" /\ r.class = c
    BY <2>2 DEF Idle, Request, Placed
  <2>4. IsFiniteSet(holders) /\ Cardinality(holders) = 0
    <3>1. holders \in SUBSET Member
      OBVIOUS
    <3>2. QED
      BY <2>1, <3>1, MembersAssumption, FS_Subset DEF MayDelete, CountMembers
  <2>5. holders = {}
    BY <2>4, FS_EmptySet
  <2>6. \A m \in Member : klass[m] # r.class
    BY <2>3, <2>5
  <2>7. req' = [req EXCEPT ![h] = r]
    BY <2>1
  <2>. HIDE DEF r
  <2>8. QED
    BY <1>1, <1>2, <2>3, <2>6, <2>7, MoveKeeps
<1>4. CASE ReplaceRead(h)
  <2>1. PICK s \in Sphere, asked \in SUBSET Named :
          /\ sphere[s] # None \/ s \in gone
          /\ req' = [req EXCEPT ![h] = [Idle EXCEPT !.at = "empty", !.sphere = s, !.asked = asked, !.left = asked]]
    BY <1>4 DEF ReplaceRead, Begins
  <2>. DEFINE r == [Idle EXCEPT !.at = "empty", !.sphere = s, !.asked = asked, !.left = asked]
  <2>2. Named \subseteq Class /\ Known(asked)
    BY DEF IInv, TypeOK, Named, Known
  <2>3. r \in Request /\ Placed(r) /\ r.at = "empty" /\ r.sphere = s /\ r.asked = asked
    BY <2>2 DEF Idle, Request, Placed
  <2>4. req' = [req EXCEPT ![h] = r]
    BY <2>1
  <2>. HIDE DEF r
  <2>5. QED
    BY <1>1, <1>2, <2>1, <2>2, <2>3, <2>4, MoveKeeps
<1>5. CASE UpdateBoosterRead(h)
  <2>1. PICK b \in Booster, status \in Status \cup {None} :
          /\ booster[b] # None
          /\ req' = [req EXCEPT ![h] = [Idle EXCEPT !.at = "update", !.booster = b, !.seen = booster[b], !.status = status]]
    BY <1>5 DEF UpdateBoosterRead, Begins
  <2>. DEFINE r == [Idle EXCEPT !.at = "update", !.booster = b, !.seen = booster[b], !.status = status]
  <2>2. booster[b] \in Status
    BY <2>1 DEF IInv, TypeOK
  <2>3. r \in Request /\ Placed(r) /\ r.at = "update"
    BY <2>2 DEF Idle, Request, Placed
  <2>4. req' = [req EXCEPT ![h] = r]
    BY <2>1
  <2>. HIDE DEF r
  <2>5. QED
    BY <1>1, <1>2, <2>3, <2>4, MoveKeeps
<1>6. QED
  BY <1>3, <1>4, <1>5

(* A request that is done, or stops, with nothing more to write. *)
LEMMA EndKeeps ==
  ASSUME IInv, NEW h \in Handler, Replaced(h) \/ Fail(h)
  PROVE  IInv'
<1>1. /\ req' = [req EXCEPT ![h] = Idle] /\ served' = served
      /\ UNCHANGED <<tables, chosen, late, wanted, switched, stale>>
      /\ mixed' = IF req[h].left # {} /\ req[h].at = "insert" THEN mixed \cup {req[h].sphere} ELSE mixed
  BY DEF Replaced, Fail, Ends, RolledBack, tables, history
<1>2. served' \in 0..MaxRequests
  BY <1>1 DEF IInv, TypeOK
<1>3. QED
  BY <1>1, <1>2, IdleOK, MoveKeeps

LEMMA CreateClassKeeps ==
  ASSUME IInv, NEW h \in Handler, CreateClass(h)
  PROVE  IInv'
<1>1. PICK c \in Class \ (there \cup gone) : there' = there \cup {c}
  BY DEF CreateClass
<1>2. AtOnce(h) /\ UNCHANGED <<klass, sphere, met, event, booster, gone, chosen, late, wanted, mixed, switched, stale>>
  BY DEF CreateClass, history
<1>3. TypeOK'
  BY <1>1, <1>2, AtOnceIs DEF IInv, TypeOK, References
<1>4. Placement' /\ HoldersAreLate' /\ NoSilentOrphan' /\ BoosterStatusKept'
  BY <1>2, AtOnceKeeps
<1>5. NamesKnown'
  BY <1>1, <1>2, AtOnceIs DEF IInv, NamesKnown, Known
<1>6. SpheresSound'
  <2>1. \A s \in Sphere : wanted[s] \cap there' = wanted[s] \cap there
    BY <1>1 DEF IInv, NamesKnown, Known
  <2>2. \A g \in Handler, s \in Sphere : Fills(g, s)' <=> Fills(g, s)
    BY <1>2, AtOnceIs DEF IInv, Fills
  <2>3. \A g \in Handler, s \in Sphere : Fills(g, s) => req'[g] = req[g]
    BY <1>2, AtOnceIs DEF IInv, Fills
  <2>4. \A s \in Sphere : \A left : (wanted[s] \ left) \cap there' = (wanted[s] \ left) \cap there
    BY <2>1
  <2>5. QED
    BY <1>2, <2>1, <2>2, <2>3, <2>4 DEF IInv, SpheresSound, SphereSound
<1>7. CreationsSound'
  BY <1>1, <1>2, AtOnceIs DEF IInv, CreationsSound, CreationSound, Inserted
<1>8. QED
  BY <1>3, <1>4, <1>5, <1>6, <1>7 DEF IInv

LEMMA TakeClassKeeps ==
  ASSUME IInv, NEW h \in Handler, TakeClass(h)
  PROVE  IInv'
<1>1. PICK m \in Member, c \in there \cup {None} :
        /\ klass' = [klass EXCEPT ![m] = c]
        /\ chosen' = [chosen EXCEPT ![m] = c]
        /\ late' = IF \E g \in Handler : req[g].at = "delete" /\ req[g].class = c
                   THEN late \cup {m} ELSE late \ {m}
  BY DEF TakeClass
<1>2. AtOnce(h) /\ UNCHANGED <<there, sphere, met, event, booster, gone, wanted, mixed, switched, stale>>
  BY DEF TakeClass
<1>3. TypeOK'
  BY <1>1, <1>2, AtOnceIs DEF IInv, TypeOK, References
<1>4. Placement' /\ NamesKnown' /\ SpheresSound' /\ CreationsSound' /\ BoosterStatusKept'
  BY <1>2, AtOnceKeeps
<1>5. HoldersAreLate'
  <2>. SUFFICES ASSUME NEW g \in Handler, req'[g].at = "delete", NEW n \in Member, klass'[n] = req'[g].class
                PROVE  n \in late'
    BY DEF HoldersAreLate
  <2>1. req'[g] = req[g]
    BY <1>2, AtOnceIs DEF IInv
  <2>2. klass'[n] = IF n = m THEN c ELSE klass[n]
    BY <1>1 DEF IInv, TypeOK
  <2>3. QED
    BY <1>1, <2>1, <2>2 DEF IInv, HoldersAreLate
<1>6. NoSilentOrphan'
  <2>. SUFFICES ASSUME NEW n \in Member, klass'[n] # chosen'[n] PROVE n \in late'
    BY DEF NoSilentOrphan
  <2>1. klass'[n] = IF n = m THEN c ELSE klass[n]
    BY <1>1 DEF IInv, TypeOK
  <2>2. n # m /\ chosen'[n] = chosen[n]
    BY <1>1, <2>1 DEF IInv, TypeOK
  <2>3. QED
    BY <1>1, <2>1, <2>2 DEF IInv, NoSilentOrphan
<1>7. QED
  BY <1>3, <1>4, <1>5, <1>6 DEF IInv

(* A classification goes: its holders are late, no sphere keeps it. *)
LEMMA DeleteClassKeeps ==
  ASSUME IInv, NEW h \in Handler, DeleteClass(h)
  PROVE  IInv'
<1>. DEFINE c == req[h].class
<1>1. /\ req[h].at = "delete" /\ req' = [req EXCEPT ![h] = Idle] /\ ~Locked(c)
      /\ UNCHANGED <<met, event, booster, served, chosen, late, wanted, mixed, switched, stale>>
  BY DEF DeleteClass, Ends, history
<1>2. c \in Class
  BY <1>1 DEF IInv, Placement, Placed
<1>3. CASE ~Deletable(c)
  <2>1. UNCHANGED <<tables, chosen, late, wanted, switched, stale>>
    BY <1>1, <1>3 DEF DeleteClass, tables
  <2>2. mixed' = IF req[h].left # {} /\ req[h].at = "insert" THEN mixed \cup {req[h].sphere} ELSE mixed
    BY <1>1
  <2>3. served' \in 0..MaxRequests
    BY <1>1 DEF IInv, TypeOK
  <2>4. QED
    BY <1>1, <2>1, <2>2, <2>3, IdleOK, MoveKeeps
<1>4. CASE Deletable(c)
  <2>1. /\ there' = there \ {c} /\ gone' = gone \cup {c}
        /\ klass' = [m \in Member |-> IF klass[m] = c THEN None ELSE klass[m]]
        /\ sphere' = [s \in Sphere |-> IF sphere[s] = None THEN None ELSE sphere[s] \ {c}]
    BY <1>4 DEF DeleteClass
  <2>2. /\ req' \in [Handler -> Request]
        /\ \A g \in Handler : req'[g] = IF g = h THEN Idle ELSE req[g]
    BY <1>1, IdleOK, MoveOK DEF IInv
  <2>3. TypeOK'
    <3>1. /\ klass' \in [Member -> Class \cup {None}]
          /\ \A m \in Member : klass'[m] # None => klass'[m] \in there'
      BY <2>1 DEF IInv, TypeOK, References
    <3>2. /\ sphere' \in [Sphere -> (SUBSET Class) \cup {None}]
          /\ \A s \in Sphere : sphere'[s] # None => sphere'[s] \subseteq there'
      BY <2>1 DEF IInv, TypeOK, References
    <3>3. \A w \in Week : event'[w] # None => event'[w].target \in there' \cup {None}
      BY <1>1, <1>2, <1>4, <2>1 DEF Deletable, IInv, TypeOK, References
    <3>4. References'
      BY <3>1, <3>2, <3>3 DEF References
    <3>5. there' \subseteq Class /\ gone' \subseteq Class \cup Sphere \cup Booster
      BY <1>2, <2>1 DEF IInv, TypeOK
    <3>6. QED
      BY <1>1, <2>2, <3>1, <3>2, <3>4, <3>5 DEF IInv, TypeOK
  <2>4. Placement'
    BY <2>2, IdleOK DEF IInv, Placement
  <2>5. HoldersAreLate'
    <3>1. \A m \in Member : klass'[m] # None => klass'[m] = klass[m]
      BY <2>1
    <3>2. \A g \in Handler : req'[g].at = "delete" => req'[g] = req[g] /\ req[g].class # None
      BY <2>2, IdleOK DEF IInv, Placement, Placed
    <3>3. QED
      BY <1>1, <3>1, <3>2 DEF IInv, HoldersAreLate
  <2>6. NoSilentOrphan'
    <3>1. \A m \in Member : klass[m] = c => m \in late
      BY <1>1 DEF IInv, HoldersAreLate
    <3>2. QED
      BY <1>1, <2>1, <3>1 DEF IInv, NoSilentOrphan
  <2>7. NamesKnown'
    <3>1. there' \cup gone' = there \cup gone \cup {c}
      BY <2>1
    <3>2. \A s \in Sphere : sphere[s] # None => sphere'[s] # None
      BY <2>1 DEF IInv, TypeOK
    <3>3. \A g \in Handler : req'[g].at \in {"empty", "insert"} => req'[g] = req[g] /\ req[g].sphere \in Sphere
      BY <2>2, IdleOK DEF IInv, Placement, Placed
    <3>4. QED
      BY <1>1, <2>1, <3>1, <3>2, <3>3 DEF IInv, NamesKnown, Known
  <2>8. SpheresSound'
    <3>1. \A g \in Handler, s \in Sphere : Fills(g, s)' <=> Fills(g, s)
      BY <1>1, <2>2, IdleOK DEF Fills
    <3>2. \A g \in Handler, s \in Sphere : Fills(g, s) => req'[g] = req[g]
      BY <1>1, <2>2 DEF Fills
    <3>3. \A s \in Sphere : sphere'[s] # None => sphere[s] # None /\ sphere'[s] = sphere[s] \ {c}
      BY <2>1
    <3>4. QED
      BY <1>1, <2>1, <3>1, <3>2, <3>3 DEF IInv, SpheresSound, SphereSound
  <2>9. BoosterStatusKept'
    BY <1>1 DEF IInv, BoosterStatusKept
  <2>10. CreationsSound'
    <3>1. \A g \in Handler : req'[g].at = "create" => req'[g] = req[g] /\ req[g].sphere \in Sphere /\ c \notin Inserted(g)
      BY <1>1, <2>2, IdleOK DEF Locked, IInv, Placement, Placed
    <3>2. \A x \in Sphere : sphere[x] = None => sphere'[x] = None
      BY <2>1
    <3>3. \A x \in Sphere : x \in gone' => x \in gone
      BY <1>2, <2>1
    <3>4. \A S : S \subseteq there /\ c \notin S => S \subseteq there'
      BY <2>1
    <3>5. SUFFICES ASSUME NEW g \in Handler, req'[g].at = "create" PROVE CreationSound(g)'
      BY DEF CreationsSound, CreationSound
    <3>6. /\ req'[g] = req[g] /\ CreationSound(g) /\ Inserted(g)' = Inserted(g)
          /\ Inserted(g) \subseteq there' /\ req[g].sphere \in Sphere
      BY <3>1, <3>4, <3>5 DEF IInv, CreationsSound, CreationSound, Inserted
    <3>7. QED
      BY <1>1, <3>1, <3>2, <3>3, <3>5, <3>6 DEF CreationSound
  <2>11. QED
    BY <2>3, <2>4, <2>5, <2>6, <2>7, <2>8, <2>9, <2>10 DEF IInv
<1>5. QED
  BY <1>3, <1>4

(* Nobody replaces the members of a sphere that was never seen.            *)
LEMMA NobodyReplaces ==
  ASSUME IInv, NEW s \in Sphere, sphere[s] = None, s \notin gone, NEW h \in Handler
  PROVE  ~(req[h].at \in {"empty", "insert"} /\ req[h].sphere = s)
BY DEF IInv, NamesKnown

LEMMA CreateSphereKeeps ==
  ASSUME IInv, NEW h \in Handler, CreateSphere(h)
  PROVE  IInv'
<1>1. PICK s \in Sphere \ gone, asked \in SUBSET Named :
        /\ sphere[s] = None /\ \A g \in Handler : req[g].at = "create" => req[g].sphere # s
        /\ Begins(h, [Idle EXCEPT !.at = "create", !.sphere = s, !.asked = asked, !.left = asked])
        /\ wanted' = [wanted EXCEPT ![s] = asked]
  BY DEF CreateSphere
<1>. DEFINE r == [Idle EXCEPT !.at = "create", !.sphere = s, !.asked = asked, !.left = asked]
<1>2. UNCHANGED <<there, klass, sphere, met, event, booster, gone, chosen, late, mixed, switched, stale>>
  BY DEF CreateSphere, tables
<1>3. Named \subseteq Class /\ Known(asked)
  BY DEF IInv, TypeOK, Named, Known
<1>4. /\ r \in Request /\ Placed(r) /\ r.at = "create" /\ r.sphere = s
      /\ r.asked = asked /\ r.left = asked
  BY <1>3 DEF Idle, Request, Placed
<1>5. req[h].at = "idle" /\ req' = [req EXCEPT ![h] = r] /\ served' \in 0..MaxRequests
  <2>1. req[h].at = "idle" /\ req' = [req EXCEPT ![h] = r] /\ served < MaxRequests /\ served' = served + 1
    BY <1>1 DEF Begins
  <2>2. QED
    BY <2>1 DEF IInv, TypeOK
<1>. HIDE DEF r
<1>6. /\ req' \in [Handler -> Request]
      /\ \A g \in Handler : req'[g] = IF g = h THEN r ELSE req[g]
  BY <1>4, <1>5, MoveOK DEF IInv
<1>7. \A x \in Sphere : wanted'[x] = IF x = s THEN asked ELSE wanted[x]
  BY <1>1 DEF IInv, TypeOK
<1>8. TypeOK'
  <2>1. wanted' \in [Sphere -> SUBSET Class]
    BY <1>1, <1>3 DEF IInv, TypeOK
  <2>2. QED
    BY <1>2, <1>5, <1>6, <2>1 DEF IInv, TypeOK, References
<1>9. Placement'
  BY <1>4, <1>6 DEF IInv, Placement
<1>10. HoldersAreLate' /\ NoSilentOrphan' /\ BoosterStatusKept'
  BY <1>2, <1>4, <1>6 DEF IInv, HoldersAreLate, NoSilentOrphan, BoosterStatusKept
<1>11. NamesKnown'
  BY <1>2, <1>3, <1>4, <1>6, <1>7 DEF IInv, NamesKnown, Known
<1>12. SpheresSound'
  <2>. SUFFICES ASSUME NEW x \in Sphere PROVE SphereSound(x)'
    BY DEF SpheresSound
  <2>1. \A g \in Handler : (Fills(g, x)' <=> Fills(g, x)) /\ (Fills(g, x) => req'[g] = req[g])
    BY <1>4, <1>5, <1>6 DEF Fills
  <2>2. CASE x = s
    BY <1>1, <1>2, <2>2 DEF SphereSound
  <2>3. CASE x # s
    BY <1>2, <1>7, <2>1, <2>3 DEF IInv, SpheresSound, SphereSound
  <2>4. QED
    BY <2>2, <2>3
<1>13. CreationsSound'
  <2>. SUFFICES ASSUME NEW g \in Handler PROVE CreationSound(g)'
    BY DEF CreationsSound
  <2>1. \A f \in Handler : req[f].at = "create" => req[f].sphere # s /\ req[f].sphere \in Sphere
    BY <1>1 DEF IInv, Placement, Placed
  <2>2. CASE g = h
    <3>1. Inserted(h)' = {}
      BY <1>4, <1>6 DEF Inserted
    <3>2. QED
      BY <1>1, <1>2, <1>4, <1>6, <1>7, <2>1, <2>2, <3>1 DEF CreationSound
  <2>3. CASE g # h
    BY <1>2, <1>4, <1>5, <1>6, <1>7, <2>1, <2>3 DEF IInv, CreationsSound, CreationSound, Inserted
  <2>4. QED
    BY <2>2, <2>3
<1>14. QED
  BY <1>8, <1>9, <1>10, <1>11, <1>12, <1>13 DEF IInv

(* A member more, or everything taken back.                                *)
LEMMA CreateInsertKeeps ==
  ASSUME IInv, NEW h \in Handler, CreateInsert(h)
  PROVE  IInv'
<1>1. PICK c \in req[h].left :
        IF c \in there
        THEN req' = [req EXCEPT ![h].left = @ \ {c}] /\ UNCHANGED sphere
        ELSE Ends(h) /\ sphere' = sphere
  BY DEF CreateInsert, RolledBack
<1>2. /\ req[h].at = "create" /\ served' \in 0..MaxRequests
      /\ UNCHANGED <<there, klass, sphere, met, event, booster, gone, chosen, late, wanted, mixed, switched, stale>>
  BY <1>1 DEF CreateInsert, history, IInv, TypeOK
<1>3. CASE c \notin there
  <2>1. req' = [req EXCEPT ![h] = Idle] /\ UNCHANGED tables
    BY <1>1, <1>2, <1>3 DEF Ends, tables
  <2>2. QED
    BY <1>2, <2>1, IdleOK, MoveKeeps
<1>4. CASE c \in there
  <2>. DEFINE r == [req[h] EXCEPT !.left = @ \ {c}]
  <2>1. req' = [req EXCEPT ![h] = r]
    BY <1>1, <1>4 DEF IInv, TypeOK
  <2>2. /\ r \in Request /\ Placed(r) /\ r.at = "create" /\ r.sphere = req[h].sphere
        /\ r.asked = req[h].asked /\ r.left = req[h].left \ {c}
    BY <1>2 DEF IInv, TypeOK, Request, Placement, Placed
  <2>. HIDE DEF r
  <2>3. /\ req' \in [Handler -> Request]
        /\ \A g \in Handler : req'[g] = IF g = h THEN r ELSE req[g]
    BY <2>1, <2>2, MoveOK DEF IInv
  <2>4. TypeOK'
    BY <1>2, <2>3 DEF IInv, TypeOK, References
  <2>5. Placement'
    BY <2>2, <2>3 DEF IInv, Placement
  <2>6. HoldersAreLate' /\ NoSilentOrphan' /\ NamesKnown' /\ BoosterStatusKept'
    BY <1>2, <2>2, <2>3 DEF IInv, HoldersAreLate, NoSilentOrphan, NamesKnown, Known, BoosterStatusKept
  <2>7. SpheresSound'
    <3>1. \A g \in Handler, x \in Sphere : (Fills(g, x)' <=> Fills(g, x)) /\ (Fills(g, x) => req'[g] = req[g])
      BY <1>2, <2>2, <2>3 DEF Fills
    <3>2. QED
      BY <1>2, <3>1 DEF IInv, SpheresSound, SphereSound
  <2>8. CreationsSound'
    <3>. SUFFICES ASSUME NEW g \in Handler PROVE CreationSound(g)'
      BY DEF CreationsSound
    <3>1. CASE g = h
      <4>1. Inserted(h)' \subseteq Inserted(h) \cup {c}
        BY <2>2, <2>3 DEF Inserted
      <4>2. QED
        BY <1>2, <1>4, <2>2, <2>3, <3>1, <4>1 DEF IInv, CreationsSound, CreationSound
    <3>2. CASE g # h
      BY <1>2, <2>2, <2>3, <3>2 DEF IInv, CreationsSound, CreationSound, Inserted
    <3>3. QED
      BY <3>1, <3>2
  <2>9. QED
    BY <2>4, <2>5, <2>6, <2>7, <2>8 DEF IInv
<1>5. QED
  BY <1>3, <1>4

(* The sphere appears, with what was asked for. *)
LEMMA CreateCommitKeeps ==
  ASSUME IInv, NEW h \in Handler, CreateCommit(h)
  PROVE  IInv'
<1>. DEFINE s == req[h].sphere
<1>1. /\ req[h].at = "create" /\ req[h].left = {} /\ req' = [req EXCEPT ![h] = Idle]
      /\ sphere' = [sphere EXCEPT ![s] = Inserted(h)] /\ served' \in 0..MaxRequests
      /\ UNCHANGED <<there, klass, met, event, booster, gone, chosen, late, wanted, mixed, switched, stale>>
  BY DEF CreateCommit, Ends, history, IInv, TypeOK
<1>2. /\ s \in Sphere /\ sphere[s] = None /\ s \notin gone
      /\ Inserted(h) = wanted[s] /\ wanted[s] \subseteq there /\ wanted[s] \in SUBSET Class
      /\ \A g \in Handler : req[g].at = "create" /\ req[g].sphere = s => g = h
  BY <1>1 DEF IInv, TypeOK, Placement, Placed, CreationsSound, CreationSound, Inserted
<1>3. /\ req' \in [Handler -> Request]
      /\ \A g \in Handler : req'[g] = IF g = h THEN Idle ELSE req[g]
  BY <1>1, IdleOK, MoveOK DEF IInv
<1>4. \A x \in Sphere : sphere'[x] = IF x = s THEN wanted[s] ELSE sphere[x]
  BY <1>1, <1>2 DEF IInv, TypeOK
<1>5. TypeOK'
  <2>1. sphere' \in [Sphere -> (SUBSET Class) \cup {None}]
    BY <1>1, <1>2 DEF IInv, TypeOK
  <2>2. References'
    BY <1>1, <1>2, <1>4 DEF IInv, TypeOK, References
  <2>3. QED
    BY <1>1, <1>3, <2>1, <2>2 DEF IInv, TypeOK
<1>6. Placement' /\ HoldersAreLate' /\ NoSilentOrphan' /\ BoosterStatusKept'
  BY <1>1, <1>3, IdleOK DEF IInv, Placement, HoldersAreLate, NoSilentOrphan, BoosterStatusKept
<1>7. wanted[s] # None
  BY <1>2
<1>8. NamesKnown'
  <2>1. \A g \in Handler : req[g].at \in {"empty", "insert"} => req[g].sphere \in Sphere
    BY DEF IInv, Placement, Placed
  <2>2. QED
    BY <1>1, <1>3, <1>4, <1>7, <2>1, IdleOK DEF IInv, NamesKnown, Known
<1>9. SpheresSound'
  <2>. SUFFICES ASSUME NEW x \in Sphere PROVE SphereSound(x)'
    BY DEF SpheresSound
  <2>1. \A g \in Handler : (Fills(g, x)' <=> Fills(g, x)) /\ (Fills(g, x) => req'[g] = req[g])
    BY <1>1, <1>3, IdleOK DEF Fills
  <2>2. CASE x = s
    <3>1. \A g \in Handler : ~Fills(g, s)
      BY <1>2, NobodyReplaces DEF Fills
    <3>2. QED
      BY <1>1, <1>2, <1>4, <2>1, <2>2, <3>1 DEF SphereSound
  <2>3. CASE x # s
    BY <1>1, <1>4, <2>1, <2>3 DEF IInv, SpheresSound, SphereSound
  <2>4. QED
    BY <2>2, <2>3
<1>10. CreationsSound'
  <2>1. \A g \in Handler : req'[g].at = "create" => req'[g] = req[g] /\ req[g].sphere # s /\ req[g].sphere \in Sphere
    BY <1>2, <1>3, IdleOK DEF IInv, Placement, Placed
  <2>2. QED
    BY <1>1, <1>4, <2>1 DEF IInv, CreationsSound, CreationSound, Inserted
<1>11. QED
  BY <1>5, <1>6, <1>8, <1>9, <1>10 DEF IInv

LEMMA DeleteSphereKeeps ==
  ASSUME IInv, NEW h \in Handler, DeleteSphere(h)
  PROVE  IInv'
<1>1. PICK s \in Sphere :
        sphere[s] # None /\ sphere' = [sphere EXCEPT ![s] = None] /\ gone' = gone \cup {s}
  BY DEF DeleteSphere
<1>2. AtOnce(h) /\ UNCHANGED <<there, klass, met, event, booster, chosen, late, wanted, mixed, switched, stale>>
  BY DEF DeleteSphere, history
<1>3. \A x \in Sphere : sphere'[x] = IF x = s THEN None ELSE sphere[x]
  BY <1>1 DEF IInv, TypeOK
<1>4. TypeOK'
  <2>1. sphere' \in [Sphere -> (SUBSET Class) \cup {None}] /\ gone' \subseteq Class \cup Sphere \cup Booster
    BY <1>1 DEF IInv, TypeOK
  <2>2. References'
    BY <1>2, <1>3 DEF IInv, TypeOK, References
  <2>3. QED
    BY <1>2, <2>1, <2>2, AtOnceIs DEF IInv, TypeOK
<1>5. Placement' /\ HoldersAreLate' /\ NoSilentOrphan' /\ BoosterStatusKept'
  BY <1>2, AtOnceKeeps
<1>6. \A g \in Handler : req[g].at # "idle" \/ req'[g].at # "idle" => req'[g] = req[g]
  BY <1>2, AtOnceIs DEF IInv
<1>7. NamesKnown'
  <2>1. \A g \in Handler : req[g].at \in {"empty", "insert"} => req[g].sphere \in Sphere
    BY DEF IInv, Placement, Placed
  <2>2. QED
    BY <1>1, <1>2, <1>3, <1>6, <2>1 DEF IInv, NamesKnown, Known
<1>8. SpheresSound'
  <2>1. \A g \in Handler, x \in Sphere : (Fills(g, x)' <=> Fills(g, x)) /\ (Fills(g, x) => req'[g] = req[g])
    BY <1>6 DEF Fills
  <2>2. QED
    BY <1>2, <1>3, <2>1 DEF IInv, SpheresSound, SphereSound
<1>9. CreationsSound'
  BY <1>1, <1>2, <1>3, <1>6 DEF IInv, CreationsSound, CreationSound, Inserted, Placement, Placed
<1>10. QED
  BY <1>4, <1>5, <1>7, <1>8, <1>9 DEF IInv

(* A replacement that begins alone makes a mixed sphere sound again. *)
LEMMA EmptySphereKeeps ==
  ASSUME IInv, NEW h \in Handler, EmptySphere(h)
  PROVE  IInv'
<1>. DEFINE s == req[h].sphere
            r == [req[h] EXCEPT !.at = "insert"]
<1>1. /\ req[h].at = "empty" /\ req' = [req EXCEPT ![h] = r]
      /\ sphere' = [sphere EXCEPT ![s] = Emptied(s)]
      /\ wanted' = [wanted EXCEPT ![s] = req[h].asked]
      /\ mixed' = IF Replacing(s) = {} THEN mixed \ {s} ELSE mixed \cup {s}
      /\ UNCHANGED <<there, klass, met, event, booster, gone, served, chosen, late, switched, stale>>
  BY DEF EmptySphere, IInv, TypeOK
<1>2. /\ s \in Sphere /\ req[h].left = req[h].asked /\ req[h].asked \subseteq Class /\ Known(req[h].asked)
      /\ sphere[s] # None \/ s \in gone
  BY <1>1 DEF IInv, TypeOK, Request, Placement, Placed, NamesKnown
<1>3. r \in Request /\ Placed(r) /\ r.at = "insert" /\ r.sphere = s /\ r.asked = req[h].asked /\ r.left = req[h].asked
  BY <1>2 DEF IInv, TypeOK, Request, Placed
<1>. HIDE DEF r
<1>4. /\ req' \in [Handler -> Request]
      /\ \A g \in Handler : req'[g] = IF g = h THEN r ELSE req[g]
  BY <1>1, <1>3, MoveOK DEF IInv
<1>5. \A x \in Sphere : /\ sphere'[x] = IF x = s /\ sphere[s] # None THEN {} ELSE sphere[x]
                        /\ wanted'[x] = IF x = s THEN req[h].asked ELSE wanted[x]
  BY <1>1, <1>2 DEF Emptied, IInv, TypeOK
<1>6. TypeOK'
  <2>1. /\ sphere' \in [Sphere -> (SUBSET Class) \cup {None}]
        /\ wanted' \in [Sphere -> SUBSET Class] /\ mixed' \subseteq Sphere
    BY <1>1, <1>2 DEF Emptied, IInv, TypeOK
  <2>2. References'
    BY <1>1, <1>5 DEF IInv, TypeOK, References
  <2>3. QED
    BY <1>1, <1>4, <2>1, <2>2 DEF IInv, TypeOK
<1>7. Placement'
  BY <1>3, <1>4 DEF IInv, Placement
<1>8. HoldersAreLate' /\ NoSilentOrphan' /\ BoosterStatusKept'
  BY <1>1, <1>3, <1>4 DEF IInv, HoldersAreLate, NoSilentOrphan, BoosterStatusKept
<1>9. NamesKnown'
  <2>1. \A g \in Handler : req[g].at \in {"empty", "insert"} => req[g].sphere \in Sphere
    BY DEF IInv, Placement, Placed
  <2>2. \A x \in Sphere : sphere'[x] = None => sphere[x] = None
    BY <1>5
  <2>3. QED
    BY <1>1, <1>2, <1>3, <1>4, <1>5, <2>1, <2>2 DEF IInv, NamesKnown, Known
<1>10. SpheresSound'
  <2>. SUFFICES ASSUME NEW x \in Sphere PROVE SphereSound(x)'
    BY DEF SpheresSound
  <2>1. \A g \in Handler : Fills(g, x)' <=> Fills(g, x) \/ (g = h /\ x = s)
    BY <1>1, <1>3, <1>4 DEF Fills
  <2>2. CASE x # s
    <3>1. \A g \in Handler : (Fills(g, x)' <=> Fills(g, x)) /\ (Fills(g, x) => req'[g] = req[g])
      BY <1>1, <1>4, <2>1, <2>2 DEF Fills
    <3>2. QED
      BY <1>1, <1>5, <2>2, <3>1 DEF IInv, SpheresSound, SphereSound
  <2>3. CASE x = s /\ Replacing(s) = {}
    <3>1. \A g \in Handler : Fills(g, s)' <=> g = h
      BY <2>1, <2>3 DEF Replacing, Fills
    <3>2. QED
      BY <1>3, <1>4, <1>5, <2>3, <3>1 DEF SphereSound
  <2>4. CASE x = s /\ Replacing(s) # {}
    BY <1>1, <2>4 DEF SphereSound
  <2>5. QED
    BY <2>2, <2>3, <2>4
<1>11. CreationsSound'
  <2>1. \A g \in Handler : req'[g].at = "create" => req'[g] = req[g] /\ req[g].sphere # s /\ req[g].sphere \in Sphere
    BY <1>2, <1>3, <1>4 DEF IInv, CreationsSound, CreationSound, Placement, Placed
  <2>2. QED
    BY <1>1, <1>5, <2>1 DEF IInv, CreationsSound, CreationSound, Inserted
<1>12. QED
  BY <1>6, <1>7, <1>8, <1>9, <1>10, <1>11 DEF IInv

LEMMA InsertMemberKeeps ==
  ASSUME IInv, NEW h \in Handler, InsertMember(h)
  PROVE  IInv'
<1>. DEFINE s == req[h].sphere
<1>1. /\ req[h].at = "insert" /\ s \in Sphere /\ req[h].left \subseteq req[h].asked /\ req[h].asked \subseteq Class
      /\ UNCHANGED <<there, klass, met, event, booster, gone, served, chosen, late, wanted, switched, stale>>
  BY DEF InsertMember, IInv, TypeOK, Request, Placement, Placed
<1>2. PICK c \in req[h].left :
        IF sphere[s] # None /\ c \in there
        THEN /\ sphere' = [sphere EXCEPT ![s] = @ \cup {c}]
             /\ req' = [req EXCEPT ![h].left = @ \ {c}]
             /\ UNCHANGED mixed
        ELSE Ends(h) /\ mixed' = mixed \cup {s} /\ UNCHANGED sphere
  BY DEF InsertMember
<1>3. CASE ~(sphere[s] # None /\ c \in there)
  <2>1. UNCHANGED <<tables, chosen, late, wanted, switched, stale>> /\ req' = [req EXCEPT ![h] = Idle]
    BY <1>1, <1>2, <1>3 DEF tables, Ends
  <2>2. mixed' = IF req[h].left # {} /\ req[h].at = "insert" THEN mixed \cup {req[h].sphere} ELSE mixed
    BY <1>1, <1>2, <1>3
  <2>3. served' \in 0..MaxRequests
    BY <1>1 DEF IInv, TypeOK
  <2>4. QED
    BY <2>1, <2>2, <2>3, IdleOK, MoveKeeps
<1>4. CASE sphere[s] # None /\ c \in there
  <2>. DEFINE r == [req[h] EXCEPT !.left = @ \ {c}]
  <2>1. req' = [req EXCEPT ![h] = r] /\ sphere' = [sphere EXCEPT ![s] = @ \cup {c}] /\ mixed' = mixed
    BY <1>2, <1>4 DEF IInv, TypeOK
  <2>2. /\ r \in Request /\ Placed(r) /\ r.at = "insert" /\ r.sphere = s
        /\ r.asked = req[h].asked /\ r.left = req[h].left \ {c}
    <3>1. req[h] \in Request
      BY DEF IInv, TypeOK
    <3>2. /\ r \in Request /\ r.at = "insert" /\ r.sphere = s
          /\ r.asked = req[h].asked /\ r.left = req[h].left \ {c}
      BY <1>1, <3>1 DEF Request
    <3>3. Placed(r)
      <4> HIDE DEF r
      <4>1. QED  BY <1>1, <3>2 DEF Placed
    <3>4. QED
      BY <3>2, <3>3
  <2>. HIDE DEF r
  <2>3. /\ req' \in [Handler -> Request]
        /\ \A g \in Handler : req'[g] = IF g = h THEN r ELSE req[g]
    BY <2>1, <2>2, MoveOK DEF IInv
  <2>4. \A x \in Sphere : sphere'[x] = IF x = s THEN sphere[s] \cup {c} ELSE sphere[x]
    BY <2>1 DEF IInv, TypeOK
  <2>5. sphere[s] \cup {c} \in SUBSET Class /\ sphere[s] \cup {c} # None /\ sphere[s] \subseteq there
    <3>1. sphere[s] \in SUBSET Class /\ sphere[s] \subseteq there
      BY <1>1, <1>4 DEF IInv, TypeOK, References
    <3>2. c \in Class
      BY <1>1
    <3>3. QED
      BY <3>1, <3>2
  <2>6. TypeOK'
    <3>1. sphere' \in [Sphere -> (SUBSET Class) \cup {None}]
      BY <1>1, <2>1, <2>5 DEF IInv, TypeOK
    <3>2. References'
      BY <1>1, <1>4, <2>4, <2>5 DEF IInv, TypeOK, References
    <3>3. QED
      BY <1>1, <2>1, <2>3, <3>1, <3>2 DEF IInv, TypeOK
  <2>7. Placement'
    BY <2>2, <2>3 DEF IInv, Placement
  <2>8. HoldersAreLate' /\ NoSilentOrphan' /\ BoosterStatusKept'
    BY <1>1, <2>2, <2>3 DEF IInv, HoldersAreLate, NoSilentOrphan, BoosterStatusKept
  <2>9. NamesKnown'
    <3>1. \A g \in Handler : req[g].at \in {"empty", "insert"} => req[g].sphere \in Sphere
      BY DEF IInv, Placement, Placed
    <3>2. \A x \in Sphere : sphere'[x] = None => sphere[x] = None
      BY <2>4, <2>5
    <3>3. QED
      BY <1>1, <2>2, <2>3, <3>1, <3>2 DEF IInv, NamesKnown, Known
  <2>10. SpheresSound'
    <3>. SUFFICES ASSUME NEW x \in Sphere PROVE SphereSound(x)'
      BY DEF SpheresSound
    <3>1. \A g \in Handler : Fills(g, x)' <=> Fills(g, x)
      BY <1>1, <2>2, <2>3 DEF Fills
    <3>2. CASE x # s
      <4>1. \A g \in Handler : Fills(g, x) => req'[g] = req[g]
        BY <2>3, <3>2 DEF Fills
      <4>2. QED
        BY <1>1, <2>1, <2>4, <3>1, <3>2, <4>1 DEF IInv, SpheresSound, SphereSound
    <3>3. CASE x = s /\ s \notin mixed
      <4>1. Fills(h, s) /\ \A g \in Handler : Fills(g, s) => g = h
        BY <1>1, <1>4, <3>3 DEF IInv, SpheresSound, SphereSound, Fills
      <4>2. req[h].asked = wanted[s] /\ sphere[s] = (wanted[s] \ req[h].left) \cap there
        BY <1>1, <1>4, <3>3, <4>1 DEF IInv, SpheresSound, SphereSound
      <4>3. sphere[s] \cup {c} = (wanted[s] \ (req[h].left \ {c})) \cap there
        BY <1>1, <1>4, <4>2
      <4>4. QED
        BY <1>1, <2>2, <2>3, <2>4, <3>1, <3>3, <4>1, <4>2, <4>3 DEF SphereSound
    <3>4. CASE s \in mixed /\ x = s
      BY <2>1, <3>4 DEF SphereSound
    <3>5. QED
      BY <3>2, <3>3, <3>4
  <2>11. CreationsSound'
    <3>1. \A g \in Handler : req'[g].at = "create" => req'[g] = req[g] /\ req[g].sphere # s /\ req[g].sphere \in Sphere
      BY <1>4, <2>2, <2>3 DEF IInv, CreationsSound, CreationSound, Placement, Placed
    <3>2. QED
      BY <1>1, <2>4, <3>1 DEF IInv, CreationsSound, CreationSound, Inserted
  <2>12. QED
    BY <2>6, <2>7, <2>8, <2>9, <2>10, <2>11 DEF IInv
<1>5. QED
  BY <1>3, <1>4

(* Meetings and events are tables of their own. *)
LEMMA CalendarKeeps ==
  ASSUME IInv, NEW h \in Handler, LogOneToOne(h) \/ DeleteOneToOne(h) \/ ScheduleEvent(h) \/ DeleteEvent(h)
  PROVE  IInv'
<1>1. /\ AtOnce(h)
      /\ UNCHANGED <<there, klass, sphere, booster, gone, chosen, late, wanted, mixed, switched, stale>>
  BY DEF LogOneToOne, DeleteOneToOne, ScheduleEvent, DeleteEvent, history
<1>2. met' \subseteq Meeting
  <2>1. CASE LogOneToOne(h)
    <3>1. \A a, b \in Member, d \in Day : a # b => Canonical(a, b, d) \in Meeting
      BY DEF Canonical, Meeting
    <3>2. QED
      BY <2>1, <3>1 DEF LogOneToOne, IInv, TypeOK
  <2>2. CASE ~LogOneToOne(h)
    BY <2>2 DEF DeleteOneToOne, ScheduleEvent, DeleteEvent, IInv, TypeOK
  <2>3. QED
    BY <2>1, <2>2
<1>3. event' \in [Week -> EventRow \cup {None}] /\ \A w \in Week : event'[w] # None => event'[w].target \in there \cup {None}
  <2>1. CASE ScheduleEvent(h)
    BY <2>1 DEF ScheduleEvent, IInv, TypeOK, References
  <2>2. CASE DeleteEvent(h)
    BY <2>2 DEF DeleteEvent, IInv, TypeOK, References
  <2>3. CASE LogOneToOne(h) \/ DeleteOneToOne(h)
    BY <2>3 DEF LogOneToOne, DeleteOneToOne, IInv, TypeOK, References
  <2>4. QED
    BY <2>1, <2>2, <2>3
<1>4. TypeOK'
  BY <1>1, <1>2, <1>3, AtOnceIs DEF IInv, TypeOK, References
<1>5. QED
  BY <1>1, <1>4, AtOnceKeeps DEF IInv

LEMMA BoosterAtOnceKeeps ==
  ASSUME IInv, NEW h \in Handler, CreateBooster(h) \/ DeleteBooster(h)
  PROVE  IInv'
<1>1. /\ AtOnce(h)
      /\ UNCHANGED <<there, klass, sphere, met, event, chosen, late, wanted, mixed, stale>>
  BY DEF CreateBooster, DeleteBooster, history
<1>2. gone \subseteq gone' /\ gone' \subseteq gone \cup Booster
  BY DEF CreateBooster, DeleteBooster, IInv, TypeOK
<1>3. /\ booster' \in [Booster -> Status \cup {None}] /\ switched' \in [Booster -> Status]
      /\ BoosterStatusKept'
  <2>1. CASE CreateBooster(h)
    BY <2>1 DEF CreateBooster, IInv, TypeOK, BoosterStatusKept
  <2>2. CASE DeleteBooster(h)
    BY <2>2 DEF DeleteBooster, history, IInv, TypeOK, BoosterStatusKept
  <2>3. QED
    BY <2>1, <2>2
<1>4. TypeOK'
  BY <1>1, <1>2, <1>3, AtOnceIs DEF IInv, TypeOK, References
<1>5. Placement' /\ HoldersAreLate' /\ NoSilentOrphan' /\ SpheresSound'
  BY <1>1, AtOnceKeeps
<1>6. NamesKnown'
  <2>1. \A g \in Handler : req'[g].at # "idle" => req'[g] = req[g]
    BY <1>1, AtOnceIs DEF IInv
  <2>2. QED
    BY <1>1, <1>2, <2>1 DEF IInv, NamesKnown, Known
<1>7. CreationsSound'
  <2>1. \A g \in Handler : req'[g].at = "create" => req'[g] = req[g] /\ req[g].sphere \in Sphere
    BY <1>1, AtOnceIs DEF IInv, Placement, Placed
  <2>2. \A x \in Sphere : x \in gone' => x \in gone
    BY <1>2
  <2>3. QED
    BY <1>1, <2>1, <2>2 DEF IInv, CreationsSound, CreationSound, Inserted
<1>8. QED
  BY <1>3, <1>4, <1>5, <1>6, <1>7 DEF IInv

LEMMA UpdateBoosterKeeps ==
  ASSUME IInv, NEW h \in Handler, UpdateBooster(h)
  PROVE  IInv'
<1>. DEFINE b == req[h].booster
<1>1. /\ req[h].at = "update" /\ req' = [req EXCEPT ![h] = Idle]
      /\ UNCHANGED <<there, klass, sphere, met, event, gone, served, chosen, late, wanted, mixed>>
  BY DEF UpdateBooster, Ends
<1>2. b \in Booster /\ StatusAfter(h) \in Status /\ (req[h].status # None => req[h].status \in Status)
  BY <1>1 DEF IInv, TypeOK, Request, Placement, Placed, StatusAfter
<1>3. /\ booster' \in [Booster -> Status \cup {None}] /\ switched' \in [Booster -> Status] /\ stale' \subseteq Booster
      /\ BoosterStatusKept'
  <2>1. CASE booster[b] = None
    BY <2>1 DEF UpdateBooster, IInv, TypeOK, BoosterStatusKept
  <2>2. CASE booster[b] # None /\ req[h].status # None
    <3>1. /\ booster' = [booster EXCEPT ![b] = req[h].status]
          /\ switched' = [switched EXCEPT ![b] = req[h].status] /\ stale' = stale \ {b}
      BY <2>2 DEF UpdateBooster, StatusAfter
    <3>2. QED
      BY <1>2, <2>2, <3>1 DEF IInv, TypeOK, BoosterStatusKept
  <2>3. CASE booster[b] # None /\ req[h].status = None
    <3>1. /\ booster' = [booster EXCEPT ![b] = req[h].seen] /\ switched' = switched
          /\ stale' = IF req[h].seen # booster[b] THEN stale \cup {b} ELSE stale
      BY <2>3 DEF UpdateBooster, StatusAfter
    <3>2. req[h].seen \in Status
      BY <1>1 DEF IInv, Placement, Placed
    <3>3. QED
      BY <1>2, <2>3, <3>1, <3>2 DEF IInv, TypeOK, BoosterStatusKept
  <2>4. QED
    BY <2>1, <2>2, <2>3
<1>4. /\ req' \in [Handler -> Request]
      /\ \A g \in Handler : req'[g] = IF g = h THEN Idle ELSE req[g]
  BY <1>1, IdleOK, MoveOK DEF IInv
<1>5. TypeOK'
  BY <1>1, <1>3, <1>4 DEF IInv, TypeOK, References
<1>6. Placement' /\ HoldersAreLate' /\ NoSilentOrphan' /\ NamesKnown'
  BY <1>1, <1>4, IdleOK DEF IInv, Placement, HoldersAreLate, NoSilentOrphan, NamesKnown, Known
<1>7. SpheresSound'
  <2>1. \A g \in Handler, s \in Sphere : (Fills(g, s)' <=> Fills(g, s)) /\ (Fills(g, s) => req'[g] = req[g])
    BY <1>1, <1>4, IdleOK DEF Fills
  <2>2. QED
    BY <1>1, <2>1 DEF IInv, SpheresSound, SphereSound
<1>8. CreationsSound'
  BY <1>1, <1>4, IdleOK DEF IInv, CreationsSound, CreationSound, Inserted
<1>9. QED
  BY <1>3, <1>5, <1>6, <1>7, <1>8 DEF IInv

LEMMA NextKeeps == IInv /\ [Next]_vars => IInv'
<1>. SUFFICES ASSUME IInv, [Next]_vars PROVE IInv'
  OBVIOUS
<1>1. CASE UNCHANGED vars
  BY <1>1 DEF vars, tables, history, IInv, TypeOK, References, Placement, HoldersAreLate, NoSilentOrphan,
              NamesKnown, Known, SpheresSound, SphereSound, Fills, CreationsSound, CreationSound, Inserted,
              BoosterStatusKept
<1>2. ASSUME NEW h \in Handler, Begin(h) PROVE IInv'
  BY <1>2, CreateClassKeeps, TakeClassKeeps, ReadKeeps, CreateSphereKeeps, DeleteSphereKeeps,
     CalendarKeeps, BoosterAtOnceKeeps DEF Begin
<1>3. ASSUME NEW h \in Handler, Step(h) PROVE IInv'
  BY <1>3, DeleteClassKeeps, CreateInsertKeeps, CreateCommitKeeps, EmptySphereKeeps, InsertMemberKeeps,
     EndKeeps, UpdateBoosterKeeps DEF Step
<1>4. ASSUME NEW h \in Handler, Fail(h) PROVE IInv'
  BY <1>4, EndKeeps
<1>5. QED
  BY <1>1, <1>2, <1>3, <1>4 DEF Next, Quiet

(***************************************************************************)
(* Theorems                                                                *)
(***************************************************************************)

(* What requests carry, and what every table holds, is consistent at every *)
(* step.                                                                   *)
THEOREM InvariantHolds == Spec => []IInv
BY InitIInv, NextKeeps, PTL DEF Spec

(* Type correctness, the foreign keys included.                            *)
THEOREM TypesHold == Spec => []TypeOK
<1>1. IInv => TypeOK
  BY DEF IInv
<1>2. QED
  BY <1>1, InvariantHolds, PTL

(* For any number of concurrent requests, a member loses a classification  *)
(* to its deletion only by taking it after the deletion had counted.       *)
THEOREM OrphansAreLate == Spec => []NoSilentOrphan
<1>1. IInv => NoSilentOrphan
  BY DEF IInv
<1>2. QED
  BY <1>1, InvariantHolds, PTL

(* For any number of concurrent replacements, stopping anywhere, a sphere  *)
(* holds what was asked for last unless it was mixed up, and one whole     *)
(* replacement on its own repairs it.                                      *)
THEOREM SpheresAsAsked == Spec => []SphereIsWhatWasAsked
<1>1. IInv => SphereIsWhatWasAsked
  <2>. SUFFICES ASSUME IInv, NEW s \in Sphere, sphere[s] # None, s \notin mixed, Replacing(s) = {}
                PROVE  sphere[s] = wanted[s] \cap there
    BY DEF SphereIsWhatWasAsked
  <2>1. \A h \in Handler : ~Fills(h, s)
    BY DEF Replacing, Fills
  <2>2. QED
    BY <2>1 DEF IInv, SpheresSound, SphereSound
<1>2. QED
  BY <1>1, InvariantHolds, PTL

(* Only a stale write changes the status of a booster unasked.             *)
THEOREM BoostersKeepStatus == Spec => []BoosterStatusKept
<1>1. IInv => BoosterStatusKept
  BY DEF IInv
<1>2. QED
  BY <1>1, InvariantHolds, PTL

(* Two members share one record of a meeting a day, whoever files it.      *)
THEOREM MeetingsCountOnce == Spec => []NoDoubleMeeting
<1>1. TypeOK => NoDoubleMeeting
  <2>. SUFFICES ASSUME TypeOK, NEW m \in Member, NEW n \in Member, m # n,
                       NEW r \in MeetingsOf(m) \cap MeetingsOf(n), NEW q \in MeetingsOf(m) \cap MeetingsOf(n),
                       r[3] = q[3]
                PROVE  r = q
    BY DEF NoDoubleMeeting
  <2>1. r \in Meeting /\ q \in Meeting
    BY DEF MeetingsOf, TypeOK
  <2>2. {r[1], r[2]} = {m, n} /\ {q[1], q[2]} = {m, n}
    BY DEF MeetingsOf
  <2>3. r[1] = q[1] /\ r[2] = q[2]
    <3>1. r[1] < r[2] /\ q[1] < q[2] /\ r[1] \in Nat /\ r[2] \in Nat /\ q[1] \in Nat /\ q[2] \in Nat
      BY <2>1 DEF Meeting
    <3>2. (r[1] = q[1] /\ r[2] = q[2]) \/ (r[1] = q[2] /\ r[2] = q[1])
      BY <2>2
    <3>3. QED
      BY <3>1, <3>2
  <2>4. QED
    BY <2>1, <2>3 DEF Meeting
<1>2. QED
  BY <1>1, TypesHold, PTL

(* Of some naturals one is the least.                                      *)
LEMMA LeastOf ==
  ASSUME NEW S \in SUBSET Nat, S # {}
  PROVE  \E n \in S : \A m \in S : n <= m
<1>1. PICK n \in S : \A m \in S : <<m, n>> \notin OpToRel(<, Nat)
  BY WFMin, NatLessThanWellFounded, Zenon
<1>2. \A m \in S : m \in Nat /\ n \in Nat
  OBVIOUS
<1>3. ASSUME NEW m \in S  PROVE ~(m < n)
  BY <1>1, <1>2 DEF OpToRel
<1>4. \A m \in S : n <= m
  BY <1>2, <1>3
<1>5. QED  BY <1>4

(* Of the windows over a day one started last, and among those that        *)
(* started with it one is of the latest week.                              *)
LEMMA SomeEventWins ==
  ASSUME TypeOK, NEW d \in Day, NEW u \in Week, Runs(event[u], d)
  PROVE  \E w \in Week : Runs(event[w], d) /\ \A v \in Week : Runs(event[v], d) => Beats(w, v)
<1> DEFINE open == { v \in Week : Runs(event[v], d) }
           ages == { d - event[v].from : v \in open }
<1>1. \A v \in open : /\ event[v] \in EventRow /\ event[v].from \in Nat /\ event[v].from <= d
                      /\ d \in Nat /\ v \in Nat /\ v <= 12
  BY DEF TypeOK, Runs, EventRow
<1>2. ages \in SUBSET Nat /\ ages # {}
  BY <1>1
<1>3. PICK w1 \in open : \A v \in open : d - event[w1].from <= d - event[v].from
  <2>1. PICK a \in ages : \A b \in ages : a <= b
    <3> HIDE DEF ages
    <3>1. QED  BY <1>2, LeastOf
  <2>2. PICK w1 \in open : a = d - event[w1].from
    OBVIOUS
  <2>3. QED  BY <2>1, <2>2
<1>4. \A v \in open : event[v].from <= event[w1].from
  BY <1>1, <1>3
<1> DEFINE last == { v \in open : event[v].from = event[w1].from }
           lefts == { 12 - v : v \in last }
<1>5. lefts \in SUBSET Nat /\ lefts # {}
  BY <1>1
<1>6. PICK w \in last : \A v \in last : 12 - w <= 12 - v
  <2>1. PICK a \in lefts : \A b \in lefts : a <= b
    <3> HIDE DEF lefts
    <3>1. QED  BY <1>5, LeastOf
  <2>2. PICK w \in last : a = 12 - w
    OBVIOUS
  <2>3. QED  BY <2>1, <2>2
<1>7. ASSUME NEW v \in Week, Runs(event[v], d)  PROVE Beats(w, v)
  <2>1. v \in open
    BY <1>7
  <2>2. CASE event[v].from = event[w1].from
    BY <1>1, <1>6, <2>1, <2>2 DEF Beats
  <2>3. CASE event[v].from # event[w1].from
    BY <1>1, <1>4, <2>1, <2>3 DEF Beats
  <2>4. QED  BY <2>2, <2>3
<1>8. QED  BY <1>7

(* Whatever windows were filed, one event prices a day at most, and one    *)
(* does if any covers it.                                                  *)
THEOREM OneEventPricesADay == Spec => []OneEventADay
<1>1. TypeOK => OneEventADay
  <2> SUFFICES ASSUME TypeOK, NEW d \in Day
               PROVE  Cardinality(ActiveOn(d)) = IF \E w \in Week : Runs(event[w], d) THEN 1 ELSE 0
    BY DEF OneEventADay
  <2>1. CASE ~ \E w \in Week : Runs(event[w], d)
    <3>1. ActiveOn(d) = {}
      BY <2>1 DEF ActiveOn
    <3>2. QED  BY <2>1, <3>1, FS_EmptySet
  <2>2. CASE \E w \in Week : Runs(event[w], d)
    <3>1. PICK w \in Week : Runs(event[w], d) /\ \A v \in Week : Runs(event[v], d) => Beats(w, v)
      BY <2>2, SomeEventWins
    <3>2. ASSUME NEW v \in Week, Runs(event[v], d), \A x \in Week : Runs(event[x], d) => Beats(v, x)
          PROVE  v = w
      <4>1. Beats(w, v) /\ Beats(v, w)
        BY <3>1, <3>2
      <4>2. event[w].from \in Nat /\ event[v].from \in Nat /\ w \in Nat /\ v \in Nat
        BY <3>1, <3>2 DEF TypeOK, Runs, EventRow
      <4>3. QED  BY <4>1, <4>2 DEF Beats
    <3>3. ActiveOn(d) = {w}
      BY <3>1, <3>2 DEF ActiveOn
    <3>4. QED  BY <2>2, <3>3, FS_Singleton
  <2>3. QED  BY <2>1, <2>2
<1>2. QED
  BY <1>1, TypesHold, PTL

(* A sphere appears with all the members asked for, which all exist, or    *)
(* not at all: whatever is refused, stops or is deleted between the        *)
(* statements of its creation, and however many requests are served.       *)
THEOREM SpheresStartWhole == Spec => NewSphereWhole
<1>. DEFINE Whole == \A s \in Sphere : sphere[s] = None /\ sphere'[s] # None =>
                       sphere'[s] = wanted[s] /\ sphere'[s] \subseteq there'
<1>1. IInv /\ [Next]_vars => [Whole]_vars
  <2>. SUFFICES ASSUME IInv, [Next]_vars, NEW s \in Sphere, sphere[s] = None, sphere'[s] # None
                PROVE  sphere'[s] = wanted[s] /\ sphere'[s] \subseteq there'
    OBVIOUS
  <2>1. sphere' # sphere
    OBVIOUS
  <2>2. PICK h \in Handler : CreateCommit(h) \/ DeleteSphere(h) \/ DeleteClass(h) \/ EmptySphere(h) \/ InsertMember(h)
    <3>1. ASSUME NEW h \in Handler, Begin(h), ~DeleteSphere(h) PROVE FALSE
      BY <2>1, <3>1 DEF Begin, CreateClass, TakeClass, DeleteClassRead, CreateSphere, ReplaceRead, LogOneToOne,
                        DeleteOneToOne, ScheduleEvent, DeleteEvent, CreateBooster, UpdateBoosterRead,
                        DeleteBooster, tables
    <3>2. ASSUME NEW h \in Handler, Step(h) \/ Fail(h), ~CreateCommit(h), ~DeleteClass(h), ~EmptySphere(h),
                 ~InsertMember(h)
          PROVE  FALSE
      BY <2>1, <3>2 DEF Step, Fail, RolledBack, CreateInsert, Replaced, UpdateBooster, tables
    <3>3. QED
      BY <2>1, <3>1, <3>2 DEF Next, Quiet, vars, tables
  <2>3. CASE CreateCommit(h)
    <3>1. /\ req[h].at = "create" /\ req[h].left = {} /\ there' = there
          /\ sphere' = [sphere EXCEPT ![req[h].sphere] = Inserted(h)]
      BY <2>3 DEF CreateCommit
    <3>2. req[h].sphere = s /\ sphere'[s] = Inserted(h)
      BY <3>1 DEF IInv, TypeOK
    <3>3. Inserted(h) = wanted[s] /\ Inserted(h) \subseteq there
      BY <3>1, <3>2 DEF IInv, CreationsSound, CreationSound, Inserted
    <3>4. QED
      BY <3>1, <3>2, <3>3
  <2>4. CASE DeleteSphere(h)
    BY <2>4 DEF DeleteSphere, IInv, TypeOK
  <2>5. CASE DeleteClass(h)
    BY <2>5 DEF DeleteClass
  <2>6. CASE EmptySphere(h)
    BY <2>6 DEF EmptySphere, Emptied, IInv, TypeOK
  <2>7. CASE InsertMember(h)
    <3>1. \/ sphere' = sphere
          \/ \E x, c : sphere[x] # None /\ sphere' = [sphere EXCEPT ![x] = @ \cup {c}]
      BY <2>7 DEF InsertMember
    <3>2. QED
      BY <3>1 DEF IInv, TypeOK
  <2>8. QED
    BY <2>2, <2>3, <2>4, <2>5, <2>6, <2>7
<1>2. QED
  BY <1>1, InvariantHolds, PTL DEF Spec, NewSphereWhole
=============================================================================
