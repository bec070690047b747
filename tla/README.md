# BRAG competition backend in TLA+

This directory specifies the scoring backend of the BRAG competition
(`src/backend`, Go, PostgreSQL) in TLA+, checks it with TLC on small instances
and proves the central results with TLAPS for every instance.

BRAG is a season-long contest between teams of a business network. Members
file transactions they closed with each other (TYFCB), bring visitors, and
collect points, badges, bonuses and raffle tickets. Points live in one
append-only table, `score_ledger`: a correction is a new row with the opposite
sign, and every leaderboard is a sum over it.

## 1. Inventory

Each HTTP request runs on a goroutine of its own. Nothing in the process
coordinates them: there is no mutex and no queue, and a request usually reads
what it needs with separate statements before it opens a transaction
(`db.go`, `WithinTx`). What coordination there is comes from PostgreSQL under
READ COMMITTED: row locks taken by UPDATE, UPDATEs guarded by the value that was
read, unique constraints, and all-or-nothing transactions. A request may stop
between any two steps (30 s router timeout, database error, panic, process
stop).

| Component | State | Operations | What is hard | Correct when |
|---|---|---|---|---|
| TYFCB (`usecase/tyfcb.go`) | `tyfcb_entries`, its ledger rows | Submit, SetStatus, Void | the status is read long before it is changed; pair count and insert are separate; the giver may change team in between | points follow the status, a void is final, no decision is lost, points leave the team they went to |
| Visitors (`usecase/visitor.go`) | `visitors`, its ledger rows | Register, Update (status, conversion), Void | two guards in one transaction; sums read before the transaction; event multipliers differ from one step to the next | a voided visitor is worth nothing, a step is paid once |
| Ledger (`repository/postgres/ledger.go`) | `score_ledger` | Append, the sums | append only, no uniqueness | a source is credited once |
| Settlement passes (`usecase/pass.go`) | bonus rows in the ledger | RunWeekly, RunDaily | rosters are read before the transaction, "already settled" is a read, two operators may run it at once | each bonus is paid once per team, member and period |
| Members (`usecase/member.go`) | `members` | Create, Update, SetPassword | Update writes every column from a stale read; level-up bonus depends on the stale colour | a level-up is paid for every rise, once |
| Prizes and raffle (`usecase/prize.go`) | `prizes`, `raffle_tickets` | Donate, Seed, SetStatus, Draw, Delete, IssueTickets | the draw, the award and the rebuild of the pool race | one winner per prize, who held a ticket; the pool holds what members are entitled to |
| Badges (`usecase/badges.go`) | `member_badges` | Evaluate | after the commit, best effort | a badge is earned, eventually awarded, never taken back |
| Weekly events (`repository/postgres/event.go`, `gamification_handler.go`) | `weekly_events` | Upsert, Delete, ActiveOn | windows overlap | exactly one event prices a day that some window covers |
| Scoring rules (`domain/`) | none | Band, TyfcbScore, multipliers, bonuses | float64 rounding, boundaries | equal to the specified formula |
| Contact network (`usecase/network.go`, `sphere.go`) | `one_to_one_logs`, `contact_spheres` and their members | LogOneToOne, Delete, CreateSphere, SetSphereMembers, DeleteSphere | replacing a sphere deletes and inserts without a transaction | one log per pair and day; a sphere is what was asked for last, or a replacement was broken or met another |
| Catalog (`usecase/catalog.go`) | `teams`, `classifications`, `booster_events` | Create, Update, Delete | count, then delete; write back what was read | a member loses a classification only by taking it during its deletion; no switch is undone but by a stale write |
| Accounts and sessions (`usecase/auth.go`, `middleware.go`) | `app_users`, `user_sessions` | SignIn, SignOut, authenticate, ChangePassword, SetPasswordFor, roles, sweep | password and sessions change in separate statements, a sign-in compares before it inserts | a session of a replaced password has one of three known reasons; the sweep takes the dead and only the dead |
| API keys (`usecase/apikey.go`) | `api_keys` | Create, Authenticate, Revoke, TouchLastUsed | two revocations at once, the throttled `last_used_at` | one request revokes; `last_used_at` lags by a minute at most |
| Leaderboards, reports, export, activity (`usecase/leaderboard.go`, `report.go`, `activity.go`) | none (read only) | standings, drill-down, paged lists, dashboard, captain's screen, sheets, feed | a screen is several statements of different moments; lists are cut and paged by offset | boards of teams and members balance, a cut keeps the top and says so, paging misses nothing that stays |
| HTTP layer (`delivery/http`) | none | decoding, roles, routing | a request may stop at its timeout | every operation is asked of the use case it names |
| Frontend (`src/frontend`) | browser state | pages | a form may be sent twice | shows what the HTTP interface answers |

Components interact through the database only: TYFCB and Visitors call the
ledger inside their transaction and badges after it; the passes read TYFCB,
visitors, events and the ledger and append to it; the raffle reads the ledger,
visitors and TYFCB. `PROJECT.json` lists every component with its status, and
every hazard at its line.

## 2. Modules

| Module | Models | Used by |
|---|---|---|
| `Scoring` | the pure rules of `domain/`: bands, pair damping, event multipliers, visitor worth, level-up bonus, raffle entitlement. Multipliers are counted in halves so that all arithmetic is in integers | all |
| `EntryBook` | the abstract promise of TYFCB moderation: standing and points of an entry change in one step, a cancelled entry stays cancelled | `Tyfcb` |
| `BonusBook` | the abstract promise of the passes: bonuses of one period are paid together, each once and for good, and a named holder stays named | `ScoringPass` |
| `Tyfcb` | Submit, SetStatus, Void of `usecase/tyfcb.go` | `MCTyfcb`, `TyfcbProofs` |
| `Visitor` | Register, Update, Void of `usecase/visitor.go` | `MCVisitor`, `VisitorProofs` |
| `ScoringPass` | RunWeekly, RunDaily of `usecase/pass.go`, with what the season does meanwhile | `MCScoringPass`, `ScoringPassProofs` |
| `Prize` | Donate, Seed, SetStatus, Draw, Delete, IssueTickets of `usecase/prize.go` | `MCPrize`, `PrizeProofs` |
| `Member` | Create, Update of `usecase/member.go` | `MCMember`, `MemberProofs` |
| `Accounts` | sign-in, sessions, passwords, roles and API keys: `usecase/auth.go`, `usecase/apikey.go`, the authentication of `middleware.go`, the sweep of `cmd/api/main.go` | `MCAccounts`, `AccountsProofs` |
| `Directory` | classifications, contact spheres, one-to-one meetings, weekly events, boosters: `usecase/catalog.go`, `usecase/network.go`, `sphere.go`, `event.go` | `MCDirectory`, `DirectoryProofs` |
| `Boards` | what standings, drill-downs, paged lists, dashboard, captain's screen, feed and report sheets read, next to the writes they race with: `usecase/leaderboard.go`, `usecase/report.go`, the lists of `repository/postgres` | `MCBoards`, `BoardsProofs` |
| `MC*` | definitions the TLC instances need (symmetry, small sets, sums over the ledger) | the `.cfg` files |
| `*Proofs` | lemmas and theorems checked by TLAPS | readers |

### From the code to the modules

All component modules have one shape.

* **A handler is a goroutine.** `Handler` is a set, and `req[h]` is the local
  state of the request `h` is serving: where it stands (`at`), what it was asked
  for, and what it *read*. A value read before a transaction stays in `req`
  while the tables move on; that is how stale reads enter the model.
* **An action is what the database sees at once:** a read, a statement, or the
  commit. Statements of one request that nobody else can tell apart (two reads
  of columns that never change, a computation between them) share an action.
* **Transactions.** A statement that only the transaction can see yet is kept in
  `req` (rows to append, the row to write) and takes effect at `Commit`. Row
  locks are state (`lock`) where a second writer waits for them and its guard is
  looked at again after the wait, as READ COMMITTED does. In `Prize` and
  `Member` a lock is the set of open requests past the write.
* **Guards** are the `where` clauses: `status = $old`, `not is_void`,
  `dimenangkan_oleh is null`. A guard that fails is an action of its own
  (conflict and rollback).
* **`Fail`** stops a request anywhere: the open transaction is gone, nothing
  committed is undone, a badge evaluation that was due is lost.
* **Badges** are evaluated by an action after the commit, from what the tables
  say then, which is what `EvaluateQuietly` does.
* **History variables** (`reached`, `lost`, `best`, `raced`, `excused`,
  `confirmed`, `usedAt`, `chosen`, `late`, `wanted`, `mixed`, `switched`,
  `stale`, `watch`, `strayed`, `lapsed`) are read by properties only. They appear in no
  guard. Several of them name the reason for an exception: a property says "this
  holds, unless exactly that happened", and the history says whether it did.
* **Defects.** A definition `Op_Defect` is `Op` with a plausible bug: a dropped
  guard, a stale value, a wrong boundary. The specifications never use them.
  Put in the place of `Op`, each breaks the property that `PROJECT.json` lists
  with it, so the properties depend on the code they are about.

The four modules of this shape that reach furthest:

* **`ScoringPass`.** A pass is a chain of actions, one per read
  (`RosterForWeek` at the start, `ReadEvent`, `ReadAwards`, `ReadTop`), one per
  award it settles, the commit and the badge evaluations after it. Between any
  two of them the season goes on: entries are verified and, with `MayWithdraw`,
  voided, meetings are logged and deleted (`LogOneToOne`, `DeleteOneToOne`),
  members are edited, events rescheduled. What deserves a bonus now is
  `Standing`; what deserved one at some moment since a pass began is `Standing`
  with its `lapsed`.

* **`Accounts`.** A password is known by its digest, and every update writes a
  digest of its own; a session remembers in `basis` the digest its password was
  compared with. `SignInRead`/`OpenSession` are the two halves of a sign-in,
  `UpdatePassword`/`DropSessions` those of a change, and an authenticated request
  stands at `serve` with the role that was read, whatever happens to the account
  meanwhile. `Tick` is the database's clock, `Sweep` the hourly deletion.
* **`Directory`.** An operation is as many actions as it has statements:
  `DeleteClassRead` (the count) and `DeleteClass`; `ReplaceRead`, `EmptySphere`,
  one `InsertMember` per row and `Replaced`; `UpdateBoosterRead` and
  `UpdateBooster`. Only the creation of a sphere is a transaction:
  `CreateSphere`, one `CreateInsert` per member and `CreateCommit`, where nobody
  sees the sphere before the commit and a refusal or a stop takes all of it back
  (`RolledBack`). Its delete of the members of a sphere just inserted finds none
  and is left out. Foreign keys are guards of the statements they refuse and
  effects of the deletions they follow; the row a foreign key of an open
  transaction refers to is locked, and a deletion waits for it (`Locked`).
* **`Boards`.** A query is an operator over the tables; a screen of several
  queries is a request of several steps that keeps what it has shown so far. The
  writes next to it keep only what a screen can tell apart: a moderation is one
  read and one commit (`Tyfcb` and `Visitor` have all its steps), a move, a
  bonus, an enrolment and a team are one step each.

Dates, names, amounts and texts are small sets of values. Money is an integer
number of points; `float64` multipliers are exact halves (see *Known
differences* for where that matters). Every counter that would grow for ever has
a named bound (`MaxRequests`, `MaxEntries`, `MaxRuns`, `MaxEdits`,
`MaxChanges`, `MaxWrites`, `MaxScreens`, `MaxTime`): the proofs do not depend on its value.

## 3. What is checked

Each row is a run of TLC; `PROJECT.json` has the properties of each.

| Run | Question | Instance | Answer |
|---|---|---|---|
| `tyfcb` | do points follow the status, whatever moderators race and wherever they stop? | 2 entries, 2 members, 2 concurrent requests, 4 in all | yes; the protocol also refines `EntryBook`, and every request ends |
| `tyfcb_ordinal` | do the transactions of a pair have distinct ordinals? | 2 submissions of a pair | **no**: both count before either inserts |
| `visitor` | is every milestone and conversion paid once, and is a void worth nothing? | 1 contact, 2 inviters, 2 concurrent requests, 3 in all, 3 kinds of event | yes, but for what was earned while a void had the old sums in hand; HOST arrives |
| `visitor_refund` | does a void take back every point, without exception? | the same, 2 requests | **no**: what commits after the sums were read stays |
| `pass_awards` | is anything paid twice, for another period, or undeserved since its pass began? is Full Roster earned when it is paid? | passes one at a time, repeated, failing; 2 members, Sunday and Monday, entries of 2 worths; meetings deleted, entries voided or outdone, members moved, events rescheduled meanwhile | no; the passes refine `BonusBook`, and what they pay is as old as the pass at most; yes |
| `pass_streak` | are three days three days of one week; is a period asked for on several days paid once; do the badges arrive? | 1 member, Friday to Monday, bonus rows of earlier passes count | yes |
| `pass_race` | is a bonus paid twice by passes that overlap? | 2 passes | **yes** |
| `prize` | prizes awarded to nobody, winners replaced, odds inflated, PATRON missed? | 1 prize, 2 members, 2 concurrent requests, 3 in all, one issuer | none of these |
| `member` | half-created members, bonuses without a rise, rises unpaid or paid to another team, LEVEL_UP missed? | 1 person, 2 teams, 2 concurrent requests, 4 in all, one editor | none of these |
| `accounts` | which sessions outlive their password; does `last_used_at` tell the truth; what does the sweep take? | 2 accounts, 2 sessions (one open at first), 1 key, 2 concurrent requests, 3 in all, 3 instants | only those of the three known histories; yes; all dead sessions and no live one |
| `directory` | who loses a classification, is a new sphere whole, what is in a replaced one, which event prices a day, whose switch is undone? | 2 classifications, spheres, boosters, members, weeks and days, 2 concurrent requests, 3 in all | new spheres are whole; otherwise only what the exceptions of the properties name |
| `boards` | do boards, drill-downs, lists and screens agree while the season goes on? | 2 of 3 members and teams at first, a list in each filter, 2 writes and 1 screen, pages of 1 and 2 rows | yes, with the exceptions below |

Type correctness is proved for every value of the constants in every module, so
the runs do not repeat it. `boards` treats its handlers as symmetric, which they
are: no action and no property compares two of them. `pass_awards` treats members
so. The `IInv` of `Tyfcb` and of `Visitor` are the inductive invariants of the
proofs, checked here on the small instance as well.

**Why the bounds are enough.** Interference in this code is pairwise: a request
is disturbed by what commits between its read and its write, and one other
request is enough to commit anything. Three or four requests allow the
sequences that matter for a single row (create, confirm, correct, void; create,
raise, lower, raise). Two entries are the least with an ordinal; two members the
least for a pair and for a stranger to it; Sunday and Monday are the only
boundary of a week, and Friday to Monday has three days of one week, which a
streak needs, and one of the next. `pass_awards` leaves out the
states after more than four contributions, edits and passes in all (`FewSteps`):
two contributions make a meeting that turns into business, or an entry and a
larger one, two passes a retry, and an edit takes the place of one of these; voids
and deletions do not count. It has two members and so no member of two pairs, which
`NeverPaidTwice` covers. The theorems below remove the bounds altogether for the
properties they cover. In `boards` one screen is enough,
because screens write nothing another could see, and two writes because a screen
of three statements has two gaps; callers ask for 0 rows (none given: the default
page of 1) or 3 (more than there may be: cut to the largest page of 2), and a list
of three rows has a page after the first under each. In `accounts` an instant is
both the life of a session and the minute of `last_used_at`, so that three instants hold "before", "at" and
"after" either boundary.

**Fairness.** `FairSpec` assumes weak fairness of each handler's own steps: an
accepted request goes on. The code justifies it: goroutines are scheduled, every
query has a context that ends it, and PostgreSQL grants a row lock once its
holder has ended. Nothing is assumed about requests being sent, and `Fail` has
no fairness. Liveness is then `EveryRequestEnds` (no request waits for a row
lock for ever), and that the badges evaluated after a commit arrive
(`HostAwarded`, `TeamPlayersAwarded`, `PatronAwarded`, `LevelUpAwarded`), either
with failures off or with the evaluations that failed set aside. `Accounts`
assumes weak fairness of `Sweep` only: the ticker of `cmd/api/main.go` never
stops, and an error is logged and the loop goes on; then there is time and again
no session that can no longer be used (`ExpiredSwept`).

`Quiet` is a step that changes nothing, for states where no request is open: the
system may rest there, but a request that is stuck would be a deadlock. `Tyfcb`
needs none, members may always move between teams.

### Findings

1. **Two submissions of a pair get the same ordinal** (`tyfcb_ordinal`).
   `Submit` counts the pair and inserts in two statements. A member who files
   two transactions at once gets full points for both.
2. **Two overlapping passes pay twice** (`pass_race`). `AlreadySettled` is a
   read, and nothing in the schema makes a source reference unique.
3. **A void keeps points that were earned meanwhile** (`visitor_refund`). `Void`
   sums the ledger before its transaction and is guarded on `is_void` only
   (`usecase/visitor.go:257`), so a milestone that commits in between is not
   refunded; line 232 says every point is reversed. `VoidedIsWorthNothing` in
   `visitor` shows that nothing else escapes a void.

### Known differences

These came up while modelling. No run expects them as a violation; the model
has the code's behaviour where it has the step at all, and where a property
meets one of them its exception says so (`strayed`, `excused`, `mixed`,
`late`, `stale`).

Points and rules:

* Two organisers who issue tickets at once double them: a rebuild deletes what it
  can see and inserts without regard to another
  (`repository/postgres/prize.go:128`; `usecase/prize.go:203`, "without
  inflating anyone's odds"). `prize` has one issuer.
* A pass pays what it read: a meeting that is deleted, an entry that is voided or
  outdone, or a member who moves before its commit is paid for, and nothing takes
  a paid bonus back when its ground goes later (`usecase/pass.go:75` to `:105`,
  `usecase/network.go:138`). `PaysWhatStood` says that it goes no further.
* A repeated pair is damped by 1/n (`domain/scoring.go:29`, `README.md:91`);
  `docs/product/PRD.md:53` says 1.0, 0.7 and 0.5.
* The ordinal of a pair is counted when an entry is filed
  (`usecase/tyfcb.go:74`); `docs/product/PRD.md:175` and
  `ACCEPTANCE-CRITERIA.md:47` count it by order of verification. Every filed entry of the pair counts, whatever its status.
* A daily pass that runs before the day is over settles the entry that leads so
  far (`usecase/pass.go:254`; `README.md:147` says the largest of the day).
* TEAM_PLAYER goes to whoever is in a paid team when badges are evaluated, also
  to a member who joined later (`repository/postgres/catalog.go:334`).
* STREAK_MASTER counts scoring days of the season; `docs/product/PRD.md:132`
  says three days of one week (`repository/postgres/catalog.go:328`).
* A streak or 1-2-1 bonus is not followed by a badge evaluation of its member
  unless a roster was paid as well (`usecase/pass.go:219`; `README.md:163`).
* `Draw` checks `approved` on a row it read; the write guards on the winner only
  (`usecase/prize.go:166`), so a prize rejected in between is awarded.
* Two updates of one member at once are both paid for the same rise, and the
  later whole-row write loses what the other one changed
  (`usecase/member.go:228`).
* A credit that was reversed later still counts as scoring in its week: the
  reversal is a row of its own (`repository/postgres/pass.go:25`).
* `TyfcbScore` rounds a product of `float64` values of which 1/n is not exact
  (`domain/scoring.go:41`). Exact arithmetic gives 12.5 and so 13 points for a
  band of 25, the third of a pair and a multiplier of 1.5; the code gives 12.
  Likewise (50, 6), (150, 18) and (200, 24). `Scoring` has these four cases
  (`RoundedDown`); everywhere else exact arithmetic and the code agree.
* `app_users.email` is unique as text, while `FindByEmail` compares in lower
  case, so two enrolments of one address in different case can both pass.

Accounts and master data:

* A session opened with a replaced password survives when the sign-in compared
  the old password before the change and inserted after it
  (`usecase/auth.go:79`), when the change stopped between its two statements
  (line 132), and after a reset by an administrator or a captain, which drops no
  session.
* Two concurrent changes of one password, or of one address, are not guarded:
  the last write wins.
* An edit of a booster that does not mention its status writes back the one it
  read (`usecase/catalog.go:196`); no document promises otherwise.
* `DeleteClassification` counts and deletes in two statements
  (`usecase/catalog.go:99`); a member who takes the classification in between
  loses it, which the comment at line 96 rules out. `NoSilentOrphan` shows that
  this is the only way.
* Deleting a classification refuses while members hold it; deleting a team takes
  its members out of it without a word, unless the ledger names it
  (`repository/postgres/catalog.go:82`).
* While a sphere is being replaced its members are partly gone, and a 1-2-1 pass
  that runs then misses a pair (`repository/postgres/sphere.go:69`).

Boards and reports:

* A reversal goes to the team the giver is in then; the credit went to the team
  at that time. Boards of teams and members still balance, single teams do not
  (`TeamsKeepWhatStands` has the exception).
* A team's points stay with it when a member leaves, while its counts and amounts
  follow the members it has now (`repository/postgres/ledger.go`, `TeamScores`).
  The dashboard's season-wide totals add up the teams and so miss the entries of
  members without one (`usecase/leaderboard.go:155`).
* The member sheet of a report asks for `ExportRowCap` rows, and the list it asks
  cuts every request to 200, so it is cut without a word (`usecase/report.go:310`
  to `322`). Leaderboard sheets never say they were cut.
* `?page=` becomes an offset with the limit as asked, before it is clamped to 200
  (`delivery/http/query.go:23`): with a larger limit and page numbers rows are
  skipped. `PagingMissesNothing` leaves that case out.
* The count and the rows of a page are two statements; a filing in between can
  make a walk end one row early.

## 4. What is proved

TLAPS checks these for every value of the constants that satisfies the
assumptions of the modules (special values lie outside the sets they are special
for, bounds are naturals, points are integers).

**`TyfcbProofs`.** The inductive invariant `IInv` says: the row of an entry is
locked by exactly the transaction that wrote it, and until that one ends the row
has the status its request read (`LocksMatch`); a request past its guard carries
exactly the rows its transition calls for (`RequestsSound`); every ledger row is
the entry's score with the sign of its note (`RowsFaithful`); and an entry has
one credit more than it has reversals when it is verified, as many otherwise
(`Balanced`). `Balanced` alone is not inductive: a commit appends a credit
because of a status read long ago, and only `LocksMatch` says that this status
is still the one in the row. From `IInv` follow `TypesHold`, `VoidsAreFinal`,
`NoUpdateIsLost`, and `TyfcbImplementsBook`: under the mapping of statuses to
standings and ledger rows to counted points, every step is a step of `EntryBook`
or changes nothing there. `BadgesAreEarned`: badges are evaluated after the
commit, so a badge rests on a status that another request may change at once;
`Balanced` turns that status into a credit row and the ledger only grows
(`LedgerGrows`).

**`ScoringPassProofs`.** `NeverPaidTwice`: with one handler, whatever it repeats
and wherever it stops. The invariant is that a pass whose check found a
reference unpaid still finds it unpaid when it commits, because nobody else
writes bonus rows, and that rows within one transaction are distinct.
`PassesImplementBook` adds that a pass carries rows of one week, or else of one
day whose member it names (`OnePeriod`): under the mapping that forgets reads,
requests, badges and the rest of the season, every commit is a payment of
`BonusBook` and every other step a stutter. It cannot hold for two handlers
(`pass_race`).
`PassesPayWhatStood`: for any number of overlapping passes, with meetings
deleted, entries voided and members moved as they please, every bonus a commit
adds was deserved at some moment since its pass began. The invariant `Backed`
says so of everything a pass has read, has still to settle or has appended; it
needs what a pass has seen to stay seen (`Seen`: a merit that is lost moves into
`lapsed`), that a roster with equal counts is a full one, and that a pass settles
one week or one day (`PeriodsApart`). Nothing stronger holds of pairs and of High
Roller, since a meeting can be deleted once it is paid. `FullRosterIsEarned` and
`StreaksAreEarned` are stronger: what was paid is deserved still. Scoring days
are never taken back, so a streak lasts, and a full roster does until somebody
is edited (`edits = 0`); `LastingPaid` is `Backed` for these two without the
history. Every day that counts lies in the week of its key, which is arithmetic
about Monday-based weeks.

**`PrizeProofs`.** `AwardsHaveWinners`: a moderator may award without naming a
winner only if the row that was read had one; `AwardsBacked` carries that from
the read to the write, and holds because a winner is never set back to null and
a deleted row is not written. `DrawsAreOneWay`: a draw writes only where there
is no winner, so a winner changes only where an admin names another. Both for
any number of moderators, draws and deletions. `OddsAreNotInflated`: with one
issuer (`Issuer = {only}`) the rows an issue deletes are all there are, and the
rows it inserts are no more than each member is entitled to at that moment
(`IssueSound`), which is at most the most that member ever was. The season may
change entitlements and the issue may stop at any step.

**`MemberProofs`.** `NoHalfMembers`: open inserts of an address exclude each
other and concern addresses nobody has (`InsertsApart`). `BonusesBacked`: the
points of an update become visible only together with its row, and are those of
the rise between what it read and what it writes (`Proceeding`); any number of
editors. `RisesPaid`: if at most one handler edits (`OneEditor`), what an update
read is still what the row says (`SeenStill`), so the bonus is that of the rise
that takes effect. The proof needs that enrolments never touch the row of a
member, which is `InsertsApart` again. `OneEditor` cannot be dropped: with two
editors both are paid.

**`VisitorProofs`.** `IInv` says that a row lock is held by exactly the
transaction that wrote the row and that the columns it wrote still hold what its
request read (`LockMatches`), and that what an update is about to append takes
the visitor from what the ledger holds to what the new status and conversion are
worth (`UpdateSound`), or, for a void, takes back what the ledger holds
(`VoidSound`). With `AttendanceWithinStatus`, `ConversionExact` and
`VoidedIsWorthNothing` it is inductive, and none of the three is so without it:
a commit pays for a status read several steps before. `AttendanceStaysWithin`,
`ConversionIsExact`, `VoidedWorthNothing` and `VoidsAreFinal` hold for any number
of contacts, moderators and events.

**`AccountsProofs`.** `OutdatedSessionsExplained`: every step that leaves a
session behind its owner's digest is one of the three the property names; the
step that needs care is `DropSessions`, which spares exactly what it excuses.
`UsesAreRecent` needs that nothing was used in the future and that keys are
never deleted (`UsesPast`, `KeysKnown`). `KeysRevokedOnce` and
`LiveSessionsAreKept` follow the guards of the statements through every
interleaving.

**`DirectoryProofs`.** `OrphansAreLate`: while a deletion is between its count
and its delete, everyone who holds the classification is late
(`HoldersAreLate`). `SpheresAsAsked`: a sphere that is not mixed up has at most
one replacement running, which wants what was wanted last, and its members are
those wanted but for what that one has still to insert (`SphereSound`); it needs
that ids are never issued again (`NamesKnown`), or a deleted classification could
come back as wanted. `SpheresStartWhole`: what the creation of a sphere has
inserted so far exists, is part of what was asked for, and its sphere is still
unseen and claimed by no other creation (`CreationsSound`). That a classification
inserted by an open creation is not deleted before its commit is what the lock is
for; without it the sphere would appear short (`Locked_Never`). `MeetingsCountOnce`
is not run.

`OneEventPricesADay`: weeks are 1 to 12 (a check of the schema), so of the
windows over a day there is one that started last and, among those, one of the
latest week; `Beats` is a total order on them, so it is the only one.

**`BoardsProofs`.** Four invariants, each on top of the first.

* `Typed`: the values `TypeOK` says, teams and members finite and known
  (`Tables`), and in each request what its place among the statements says
  (`Placed`). `TypeCorrect`, `BoardsAgree`, `HistoryExplains` and `CutsShowTheTop`
  need no more, since what boards, drill-downs and cuts show is a function of the
  tables.
* `AllSeen`: what a screen has read still agrees with the tables but for the
  members who moved since and the teams deleted since. It holds because a team's
  id is never issued again (`ever`) and who filed an entry never changes
  (`Grows`). `ScreensAlwaysAgree` and `CaptainsFileForOwnTeam` follow; a write can
  only move people into the exception, which is what `SeenStays` says.
* `AllStand`: the rows of a transaction whose giver has not moved are all with
  the giver's team and sum to what its status is worth, and so is the team a
  moderation has in hand (`JudgedWell`). `TeamsKeepWhatStands` by itself is not
  inductive: a reversal goes to the team that was read, and only `JudgedWell`
  says that it is the team of the credit.
* `AllCovered`: of the rows a walk wants, those at positions the walk has passed
  have been shown (`Covers`). Rows that enter push the others back and never
  forward, so a row that was not yet shown stays ahead of the walk.
  `PagesMissNothing` adds that the walk ends only when nothing is ahead.

Sums and sorted lists are recursive in nature, and the facts about them would
normally be inductions: a sum splits over a partition of its indices, a sum of
one summand is that summand, adding a row adds its points, a finite set in a
strict order has exactly one element of each rank. The module derives all of
them from one lemma, `SmallestSubset` (of some subsets of a finite set one
contains no other): a counterexample of the smallest size is taken apart by one
element. So `Boards` sums with the folds of the community modules and ranks with
`Cardinality`, and declares no recursive operator.

Assumptions on the constants of `Directory`: ids of different tables are
different (`IdAssumption`; the code uses uuids), weeks are 1 to 12, members are
finitely many. Assumptions on the constants of `Boards`: members and teams of the first season
are finitely many and named by naturals, a member who is not enrolled has no
team, nothing is struck off at first, page and sheet limits are as `page.go` and
`report.go` have them (the default page is at most the largest, which is at most
a sheet).

Together the proofs have type correctness for every component module, and every
invariant and every action property that a passing run checks.

**Model-checked only.** Liveness under fairness (`EveryRequestEnds`,
`HostAwarded`, `TeamPlayersAwarded`, `PatronAwarded`, `LevelUpAwarded`,
`ExpiredSwept`) is outside the prover's logic. The three violations are
counterexamples, and need no proof.

## 5. What is not modelled

* **Rendering.** Sheets as workbook, PDF or text, the prize sheet, columns and
  labels (`delivery/http/export.go`, parts of `usecase/report.go`): they compute
  nothing anyone relies on later. Which rows a sheet has is in `Boards`.
* **Counts beside a list.** `CountByStatus` and the like are one statement each
  and are not related to anything else on the page.
* **Routing, decoding, headers, the tour and the API documents**
  (`delivery/http`): stateless.
* **Seed and load tools, frontend, start-up, pool, migrations.** The schema's
  constraints are in the modules; how it came to be is not.
* **Within the modelled parts:** names, texts, proof links; renaming and its
  unique indexes; the team of a visitor's and of a bonus's row (`Tyfcb`, `Member`
  and `Boards` model the team of theirs); the badges that differ from a modelled
  one only in the counter they look at; more than one season.

## 6. Plan

1. **Composition** of `Directory` and `ScoringPass`: a pass that reads events and
   meetings while they are edited uses an arbitrary change of a day now.
2. **The other badges**, as one evaluation over all counters.
3. **A refinement** for visitors, like those of TYFCB and of the passes: a book
   of guests in which status and points change together and a void is final.
