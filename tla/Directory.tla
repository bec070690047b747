----------------------------- MODULE Directory -----------------------------
(***************************************************************************)
(* Directory: the committee's master data that scoring reads.  Business    *)
(* classifications and who holds them, contact spheres, one-to-one         *)
(* meetings, the weekly events and the boosters (usecase/catalog.go,       *)
(* usecase/network.go, repository/postgres/catalog.go, sphere.go and       *)
(* event.go, the handlers of gamification_handler.go).                     *)
(*                                                                         *)
(* Only the creation of a sphere is a transaction.  Every other statement  *)
(* commits on its own, and an operation of several statements can be cut   *)
(* short or mixed with another between any two of them.  Deleted ids are   *)
(* never issued again.  Names, texts and points are left out.              *)
(*                                                                         *)
(* A definition named Op_Defect is a defective form of Op, never used by   *)
(* the specification: it shows that a property can fail.                   *)
(***************************************************************************)
EXTENDS Naturals, FiniteSets

CONSTANTS
  Class, Sphere, Booster,  \* ids that may be issued
  Member,                  \* the members, in the order of their ids
  Week, Day,               \* weeks of the season, days of the calendar
  Handler,                 \* goroutines that may serve a request at the same time
  StartClasses,            \* the classifications there are at first
  MaxRequests,             \* bound: requests served in a behaviour
  MayFail,                 \* whether requests may stop before they end
  None                     \* no row, no classification

ASSUME NoneAssumption   == None \notin Class \cup Sphere \cup Booster
ASSUME IdAssumption     == Class \cap Sphere = {} /\ (Class \cup Sphere) \cap Booster = {}
ASSUME OrderAssumption  == Member \subseteq Nat /\ Day \subseteq Nat
ASSUME WeekAssumption   == Week \subseteq 1..12    \* weekly_events.minggu_ke
ASSUME BoundAssumption  == MaxRequests \in Nat /\ MayFail \in BOOLEAN
ASSUME StartAssumption  == StartClasses \subseteq Class
ASSUME MembersAssumption == IsFiniteSet(Member)

VARIABLES
  there,    \* rows of classifications
  klass,    \* members.klasifikasi_id
  sphere,   \* contact_spheres and, for each, its contact_sphere_members
  met,      \* one_to_one_logs
  event,    \* weekly_events, by week
  booster,  \* booster_events, by their status
  gone,     \* ids that were deleted
  req,      \* the request each handler is serving
  served,   \* requests accepted so far
  \* history, read by the properties only
  chosen,   \* the classification an edit last gave each member
  late,     \* members who took theirs after a deletion had counted its holders
  wanted,   \* the membership last asked for each sphere
  mixed,    \* spheres whose replacement was cut short or met another
  switched, \* the status last asked for each booster
  stale     \* boosters written back from a row read before another write

tables  == <<there, klass, sphere, met, event, booster, gone>>
history == <<chosen, late, wanted, mixed, switched, stale>>
vars    == <<tables, req, served, history>>

Status == {"aktif", "nonaktif"}

EventRow == { e \in [from : Day, to : Day, target : Class \cup {None}] : e.from <= e.to }

ASSUME RowAssumption ==
  None \notin Status /\ (\A e \in EventRow : e # None) /\ (\A S \in SUBSET Class : S # None)

(* A meeting is kept with the lower id first. *)
Meeting == { r \in Member \X Member \X Day : r[1] < r[2] }

Request ==
  [ at      : {"idle", "delete", "create", "empty", "insert", "update"},
    class   : Class \cup {None},
    sphere  : Sphere \cup {None},
    asked   : SUBSET Class,               \* the membership to reach
    left    : SUBSET Class,               \* rows still to insert
    booster : Booster \cup {None},
    seen    : Status \cup {None},         \* the status read
    status  : Status \cup {None} ]        \* the status asked for, None for ""

Idle == [ at |-> "idle", class |-> None, sphere |-> None, asked |-> {}, left |-> {},
          booster |-> None, seen |-> None, status |-> None ]

(* The foreign keys: what refers to a classification refers to one there is. *)
References ==
  /\ \A m \in Member : klass[m] # None => klass[m] \in there
  /\ \A s \in Sphere : sphere[s] # None => sphere[s] \subseteq there
  /\ \A w \in Week : event[w] # None => event[w].target \in there \cup {None}

TypeOK ==
  /\ there \subseteq Class /\ klass \in [Member -> Class \cup {None}]
  /\ sphere \in [Sphere -> (SUBSET Class) \cup {None}]
  /\ met \subseteq Meeting
  /\ event \in [Week -> EventRow \cup {None}]
  /\ booster \in [Booster -> Status \cup {None}]
  /\ gone \subseteq Class \cup Sphere \cup Booster
  /\ req \in [Handler -> Request] /\ served \in 0..MaxRequests
  /\ chosen \in [Member -> Class \cup {None}] /\ late \subseteq Member
  /\ wanted \in [Sphere -> SUBSET Class] /\ mixed \subseteq Sphere
  /\ switched \in [Booster -> Status] /\ stale \subseteq Booster
  /\ References

(* One sphere of all classifications there are, one booster; anyone may    *)
(* hold a classification.                                                  *)
Init ==
  /\ there = StartClasses
  /\ klass \in [Member -> StartClasses \cup {None}]
  /\ \E s \in Sphere : sphere = [x \in Sphere |-> IF x = s THEN StartClasses ELSE None]
  /\ met = {} /\ event = [w \in Week |-> None] /\ gone = {}
  /\ \E b \in Booster : booster = [x \in Booster |-> IF x = b THEN "aktif" ELSE None]
  /\ req = [h \in Handler |-> Idle] /\ served = 0
  /\ chosen = klass /\ late = {} /\ wanted = [s \in Sphere |-> StartClasses] /\ mixed = {}
  /\ switched = [b \in Booster |-> "aktif"] /\ stale = {}

Begins(h, r) ==
  /\ req[h].at = "idle" /\ served < MaxRequests
  /\ req' = [req EXCEPT ![h] = r] /\ served' = served + 1

(* A request of one statement is over in one step. *)
AtOnce(h) == Begins(h, Idle)

Ends(h) == req' = [req EXCEPT ![h] = Idle]

(* The members of a sphere that a request has inserted so far. *)
Inserted(h) == req[h].asked \ req[h].left

(***************************************************************************)
(* Classifications.                                                        *)
(***************************************************************************)
CreateClass(h) ==
  /\ AtOnce(h)
  /\ \E c \in Class \ (there \cup gone) : there' = there \cup {c}
  /\ UNCHANGED <<klass, sphere, met, event, booster, gone, history>>

(* Member.Update with a classification; the foreign key wants it there.    *)
TakeClass(h) ==
  /\ AtOnce(h)
  /\ \E m \in Member, c \in there \cup {None} :
       /\ klass' = [klass EXCEPT ![m] = c]
       /\ chosen' = [chosen EXCEPT ![m] = c]
       /\ late' = IF \E g \in Handler : req[g].at = "delete" /\ req[g].class = c
                  THEN late \cup {m} ELSE late \ {m}
  /\ UNCHANGED <<there, sphere, met, event, booster, gone, wanted, mixed, switched, stale>>

(* DeleteClassification counts the members who hold it ... *)
CountMembers(c) == Cardinality({ m \in Member : klass[m] = c })

MayDelete_Any(c) == CountMembers(c) >= 0

MayDelete(c) == CountMembers(c) = 0

DeleteClassRead(h) ==
  /\ \E c \in there : MayDelete(c) /\ Begins(h, [Idle EXCEPT !.at = "delete", !.class = c])
  /\ UNCHANGED <<tables, history>>

(* ... and deletes it in a statement of its own: members lose it, spheres  *)
(* drop it, and a weekly event that names it makes the database refuse.    *)
(* The row is locked while an open transaction has a member refer to it.   *)
Locked_Never(c) == FALSE

Locked(c) == \E g \in Handler : req[g].at = "create" /\ c \in Inserted(g)

Deletable(c) == c \in there /\ \A w \in Week : event[w] # None => event[w].target # c

DeleteClass(h) ==
  /\ req[h].at = "delete" /\ ~Locked(req[h].class)
  /\ LET c == req[h].class IN
     IF Deletable(c)
     THEN /\ there' = there \ {c} /\ gone' = gone \cup {c}
          /\ klass' = [m \in Member |-> IF klass[m] = c THEN None ELSE klass[m]]
          /\ sphere' = [s \in Sphere |-> IF sphere[s] = None THEN None ELSE sphere[s] \ {c}]
     ELSE UNCHANGED <<there, gone, klass, sphere>>
  /\ Ends(h)
  /\ UNCHANGED <<met, event, booster, served, history>>

(***************************************************************************)
(* Contact spheres.                                                        *)
(***************************************************************************)

(* The ids a caller can name: a page may show what was deleted since.      *)
Named == there \cup (gone \cap Class)

(* CreateSphere opens a transaction and inserts the sphere ... *)
CreateSphere(h) ==
  /\ \E s \in Sphere \ gone, asked \in SUBSET Named :
       /\ sphere[s] = None /\ \A g \in Handler : req[g].at = "create" => req[g].sphere # s
       /\ Begins(h, [Idle EXCEPT !.at = "create", !.sphere = s, !.asked = asked, !.left = asked])
       /\ wanted' = [wanted EXCEPT ![s] = asked]
  /\ UNCHANGED <<tables, chosen, late, mixed, switched, stale>>

(* ... then its members one by one.  When a foreign key refuses one, or    *)
(* the request stops, the transaction takes all of it back.                *)
RolledBack_Half(h) == [sphere EXCEPT ![req[h].sphere] = Inserted(h)]

RolledBack(h) == sphere

CreateInsert(h) ==
  /\ req[h].at = "create"
  /\ \E c \in req[h].left :
       IF c \in there
       THEN req' = [req EXCEPT ![h].left = @ \ {c}] /\ UNCHANGED sphere
       ELSE Ends(h) /\ sphere' = RolledBack(h)
  /\ UNCHANGED <<there, klass, met, event, booster, gone, served, history>>

CreateCommit(h) ==
  /\ req[h].at = "create" /\ req[h].left = {}
  /\ sphere' = [sphere EXCEPT ![req[h].sphere] = Inserted(h)]
  /\ Ends(h)
  /\ UNCHANGED <<there, klass, met, event, booster, gone, served, history>>

(* SetSphereMembers: whether the sphere exists is not asked.               *)
ReplaceRead(h) ==
  /\ \E s \in Sphere, asked \in SUBSET Named :
       /\ sphere[s] # None \/ s \in gone
       /\ Begins(h, [Idle EXCEPT !.at = "empty", !.sphere = s, !.asked = asked, !.left = asked])
  /\ UNCHANGED <<tables, history>>

Replacing(s) == { g \in Handler : req[g].at = "insert" /\ req[g].sphere = s }

(* It deletes the members there are ... *)
Emptied_Kept(s) == sphere[s]
Emptied(s)      == IF sphere[s] = None THEN None ELSE {}

EmptySphere(h) ==
  /\ req[h].at = "empty"
  /\ LET s == req[h].sphere IN
     /\ sphere' = [sphere EXCEPT ![s] = Emptied(s)]
     /\ wanted' = [wanted EXCEPT ![s] = req[h].asked]
     /\ mixed' = IF Replacing(s) = {} THEN mixed \ {s} ELSE mixed \cup {s}
  /\ req' = [req EXCEPT ![h].at = "insert"]
  /\ UNCHANGED <<there, klass, met, event, booster, gone, served, chosen, late, switched, stale>>

(* ... and inserts those asked for one by one; the first that a foreign    *)
(* key refuses ends the request with the rest left out.                    *)
InsertMember(h) ==
  /\ req[h].at = "insert"
  /\ LET s == req[h].sphere IN
     \E c \in req[h].left :
       IF sphere[s] # None /\ c \in there
       THEN /\ sphere' = [sphere EXCEPT ![s] = @ \cup {c}]
            /\ req' = [req EXCEPT ![h].left = @ \ {c}]
            /\ UNCHANGED mixed
       ELSE Ends(h) /\ mixed' = mixed \cup {s} /\ UNCHANGED sphere
  /\ UNCHANGED <<there, klass, met, event, booster, gone, served, chosen, late, wanted, switched, stale>>

Replaced(h) ==
  /\ req[h].at = "insert" /\ req[h].left = {}
  /\ Ends(h)
  /\ UNCHANGED <<tables, served, history>>

DeleteSphere(h) ==
  /\ AtOnce(h)
  /\ \E s \in Sphere : sphere[s] # None /\ sphere' = [sphere EXCEPT ![s] = None] /\ gone' = gone \cup {s}
  /\ UNCHANGED <<there, klass, met, event, booster, history>>

(***************************************************************************)
(* One-to-one meetings.                                                    *)
(***************************************************************************)

Canonical(a, b, d) == IF a > b THEN <<b, a, d>> ELSE <<a, b, d>>

(* LogOneToOne: the unique index makes a second record of the pair and day *)
(* an error.                                                               *)
LogOneToOne(h) ==
  /\ AtOnce(h)
  /\ \E a, b \in Member, d \in Day : a # b /\ met' = met \cup {Canonical(a, b, d)}
  /\ UNCHANGED <<there, klass, sphere, event, booster, gone, history>>

DeleteOneToOne(h) ==
  /\ AtOnce(h)
  /\ \E r \in met : met' = met \ {r}
  /\ UNCHANGED <<there, klass, sphere, event, booster, gone, history>>

(* ListOneToOne: the meetings of a member, on either side of the pair. *)
MeetingsOf(m) == { r \in met : r[1] = m \/ r[2] = m }

(***************************************************************************)
(* Weekly events.                                                          *)
(***************************************************************************)

(* handleScheduleEvent: one event a week, a second one replaces the first. *)
ScheduleEvent(h) ==
  /\ AtOnce(h)
  /\ \E w \in Week, e \in EventRow :
       e.target \in there \cup {None} /\ event' = [event EXCEPT ![w] = e]
  /\ UNCHANGED <<there, klass, sphere, met, booster, gone, history>>

DeleteEvent(h) ==
  /\ AtOnce(h)
  /\ \E w \in Week : event[w] # None /\ event' = [event EXCEPT ![w] = None]
  /\ UNCHANGED <<there, klass, sphere, met, booster, gone, history>>

(* ActiveOn: windows may overlap; the one that started last wins, and the  *)
(* later week breaks a tie.                                                *)
Runs(e, d) == e # None /\ e.from <= d /\ d <= e.to

Beats_Tie(w, v) == event[v].from <= event[w].from
Beats(w, v)     == event[v].from < event[w].from \/ (event[v].from = event[w].from /\ v <= w)

ActiveOn(d) ==
  { w \in Week : Runs(event[w], d) /\ \A v \in Week : Runs(event[v], d) => Beats(w, v) }

(***************************************************************************)
(* Boosters.                                                               *)
(***************************************************************************)
CreateBooster(h) ==
  /\ AtOnce(h)
  /\ \E b \in Booster \ gone, status \in Status :
       /\ booster[b] = None
       /\ booster' = [booster EXCEPT ![b] = status]
       /\ switched' = [switched EXCEPT ![b] = status]
  /\ UNCHANGED <<there, klass, sphere, met, event, gone, chosen, late, wanted, mixed, stale>>

(* UpdateBooster reads the row ... *)
UpdateBoosterRead(h) ==
  /\ \E b \in Booster, status \in Status \cup {None} :
       /\ booster[b] # None
       /\ Begins(h, [Idle EXCEPT !.at = "update", !.booster = b, !.seen = booster[b], !.status = status])
  /\ UNCHANGED <<tables, history>>

(* ... and writes all of it back: the status read when none was asked for. *)
StatusAfter_Default(h) == IF req[h].status = None THEN "aktif" ELSE req[h].status
StatusAfter(h)         == IF req[h].status = None THEN req[h].seen ELSE req[h].status

UpdateBooster(h) ==
  /\ req[h].at = "update"
  /\ LET b == req[h].booster IN
     IF booster[b] = None
     THEN UNCHANGED <<booster, switched, stale>>
     ELSE /\ booster' = [booster EXCEPT ![b] = StatusAfter(h)]
          /\ switched' = IF req[h].status = None THEN switched
                         ELSE [switched EXCEPT ![b] = req[h].status]
          /\ stale' = IF req[h].status # None THEN stale \ {b}
                      ELSE IF req[h].seen # booster[b] THEN stale \cup {b} ELSE stale
  /\ Ends(h)
  /\ UNCHANGED <<there, klass, sphere, met, event, gone, served, chosen, late, wanted, mixed>>

DeleteBooster(h) ==
  /\ AtOnce(h)
  /\ \E b \in Booster : booster[b] # None /\ booster' = [booster EXCEPT ![b] = None] /\ gone' = gone \cup {b}
  /\ UNCHANGED <<there, klass, sphere, met, event, history>>

(***************************************************************************)
(* Specification                                                           *)
(***************************************************************************)
Begin(h) ==
  \/ CreateClass(h) \/ TakeClass(h) \/ DeleteClassRead(h)
  \/ CreateSphere(h) \/ ReplaceRead(h) \/ DeleteSphere(h)
  \/ LogOneToOne(h) \/ DeleteOneToOne(h)
  \/ ScheduleEvent(h) \/ DeleteEvent(h)
  \/ CreateBooster(h) \/ UpdateBoosterRead(h) \/ DeleteBooster(h)

Step(h) ==
  \/ DeleteClass(h) \/ CreateInsert(h) \/ CreateCommit(h)
  \/ EmptySphere(h) \/ InsertMember(h) \/ Replaced(h) \/ UpdateBooster(h)

(* A request may stop anywhere; what it had committed stays. *)
Fail(h) ==
  /\ MayFail /\ req[h].at # "idle"
  /\ sphere' = IF req[h].at = "create" THEN RolledBack(h) ELSE sphere
  /\ mixed' = IF req[h].left # {} /\ req[h].at = "insert" THEN mixed \cup {req[h].sphere} ELSE mixed
  /\ Ends(h)
  /\ UNCHANGED <<there, klass, met, event, booster, gone, served, chosen, late, wanted, switched, stale>>

(* Nobody sends a request and none is being served. *)
Quiet == (\A h \in Handler : req[h].at = "idle") /\ UNCHANGED vars

Next == Quiet \/ \E h \in Handler : Begin(h) \/ Step(h) \/ Fail(h)

Spec == Init /\ [][Next]_vars

(***************************************************************************)
(* Properties                                                              *)
(***************************************************************************)

(* DeleteClassification "refuses while members still reference it, rather  *)
(* than silently orphaning their profiles": a member has the               *)
(* classification last chosen for them, unless they took it while the      *)
(* deletion was between its count and its delete (usecase/catalog.go).     *)
NoSilentOrphan ==
  \A m \in Member : klass[m] # chosen[m] => m \in late

(* "The caller sends the desired end state": once no replacement of a      *)
(* sphere is running its members are those asked for last, without the     *)
(* classifications deleted since, unless a replacement was cut short or    *)
(* two of them met; and a later one that does neither sets that right      *)
(* (repository/postgres/sphere.go, SetMembers; usecase/network.go).        *)
SphereIsWhatWasAsked ==
  \A s \in Sphere :
    sphere[s] # None /\ s \notin mixed /\ Replacing(s) = {} => sphere[s] = wanted[s] \cap there

(* A sphere is created with all its members or not at all: whatever the    *)
(* foreign keys refuse, wherever the request stops and whatever is deleted *)
(* between its inserts, a sphere that appears has every classification the *)
(* request asked for, and all of them still exist (usecase/network.go,     *)
(* CreateSphere; the locks of repository/postgres/sphere.go, SetMembers).  *)
NewSphereWhole ==
  [][\A s \in Sphere : sphere[s] = None /\ sphere'[s] # None =>
       sphere'[s] = wanted[s] /\ sphere'[s] \subseteq there']_vars

(* However two members file a meeting, and whoever files it first, the     *)
(* lists of the two share one record of it a day: the payoff of a          *)
(* ONE_TO_ONE week cannot find the same meeting twice                      *)
(* (repository/postgres/sphere.go, Create and List).                       *)
NoDoubleMeeting ==
  \A m, n \in Member : m # n =>
    \A r, q \in MeetingsOf(m) \cap MeetingsOf(n) : r[3] = q[3] => r = q

(* At most one event prices a day, however the windows overlap, and        *)
(* exactly one when some window covers it: a multiplier is never applied   *)
(* twice or left to chance (repository/postgres/event.go, ActiveOn).       *)
OneEventADay ==
  \A d \in Day :
    Cardinality(ActiveOn(d)) = IF \E w \in Week : Runs(event[w], d) THEN 1 ELSE 0

(* An edit of a booster that does not mention its status leaves it as it   *)
(* was last set, unless the row was read before another edit set it: then  *)
(* the stale status is written back (usecase/catalog.go, UpdateBooster).   *)
BoosterStatusKept ==
  \A b \in Booster : booster[b] # None /\ b \notin stale => booster[b] = switched[b]
=============================================================================
