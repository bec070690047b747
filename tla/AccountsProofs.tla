--------------------------- MODULE AccountsProofs ---------------------------
(***************************************************************************)
(* Proofs about sessions, passwords and API keys, for any number of        *)
(* accounts, sessions, keys and concurrent requests, whether they stop or  *)
(* not.                                                                    *)
(***************************************************************************)
EXTENDS Accounts, TLAPS

USE UserAssumption, TokenAssumption, NoneAssumption, TimeAssumption, BoundAssumption, RowAssumption

(* What a request carries depends on where it stands. *)
Placed(r) ==
  /\ r.at \in {"open", "serve", "touch", "revoke"} => r.user \in User
  /\ r.at \in {"update", "drop", "role", "insert"} => r.whom \in User
  /\ r.at = "signOut" => r.token \in Token
  /\ r.at \in {"touch", "revoke"} => r.key \in Key

Placement == \A h \in Handler : Placed(req[h])

(* Keys are never deleted, so a key that was read is still there. *)
KeysKnown == \A h \in Handler : req[h].at \in {"touch", "revoke"} => key[req[h].key] # None

(* Nothing was used in the future, and only what was issued was used. *)
UsesPast ==
  \A a \in Key :
    /\ usedAt[a] # None => key[a] # None /\ usedAt[a] <= now
    /\ (key[a] # None /\ key[a].lastUsed # None) => key[a].lastUsed <= now

IInv ==
  TypeOK /\ Placement /\ KeysKnown /\ UsesPast /\ OldSessionsExplained /\ RevokedOnce /\ LastUsedIsRecent

(***************************************************************************)
(* Lemmas                                                                  *)
(***************************************************************************)
LEMMA IdleOK == Idle \in Request /\ Placed(Idle) /\ Idle.at = "idle"
BY DEF Idle, Request, Placed, Role, Steps

(* A handler moves on, and the others stay. *)
LEMMA MoveOK ==
  ASSUME TypeOK, NEW h \in Handler, NEW r \in Request, req' = [req EXCEPT ![h] = r]
  PROVE  /\ req' \in [Handler -> Request]
         /\ \A g \in Handler : req'[g] = IF g = h THEN r ELSE req[g]
BY DEF TypeOK

(* A handler that is not about to drop sessions moves on while the tables  *)
(* stay as they are.                                                       *)
LEMMA MoveKeeps ==
  ASSUME IInv, NEW h \in Handler, NEW r \in Request, req' = [req EXCEPT ![h] = r],
         req[h].at # "drop", Placed(r), r.at \in {"touch", "revoke"} => key[r.key] # None,
         served' \in 0..MaxRequests, UNCHANGED <<now, tables, history>>
  PROVE  IInv'
<1>1. /\ req' \in [Handler -> Request]
      /\ \A g \in Handler : req'[g] = IF g = h THEN r ELSE req[g]
  BY MoveOK DEF IInv
<1>2. UNCHANGED <<now, digest, role, session, key, issued, excused, confirmed, usedAt>>
  BY DEF tables, users, history
<1>3. TypeOK'
  BY <1>1, <1>2 DEF IInv, TypeOK
<1>4. Placement' /\ KeysKnown' /\ UsesPast'
  BY <1>1, <1>2 DEF IInv, Placement, Placed, KeysKnown, UsesPast
<1>5. OldSessionsExplained'
  BY <1>1, <1>2 DEF IInv, OldSessionsExplained, Outdated
<1>6. RevokedOnce' /\ LastUsedIsRecent'
  BY <1>2 DEF IInv, RevokedOnce, LastUsedIsRecent
<1>7. QED
  BY <1>3, <1>4, <1>5, <1>6 DEF IInv

(***************************************************************************)
(* Each step keeps the invariant                                           *)
(***************************************************************************)
LEMMA InitIInv == Init => IInv
<1>. SUFFICES ASSUME Init PROVE IInv
  OBVIOUS
<1>. USE DEF Init
<1>1. PICK owner \in [Opened -> User] :
        session = [k \in Token |-> IF k \in Opened
                                  THEN [user |-> owner[k], expires |-> SessionDuration, basis |-> 0]
                                  ELSE None]
  OBVIOUS
<1>2. \A k \in Token : session[k] \in Session \cup {None} /\ (session[k] # None => session[k].basis = 0 /\ session[k].user \in User)
  BY <1>1 DEF Session
<1>3. key \in [Key -> ApiKey \cup {None}]
  BY DEF ApiKey
<1>4. TypeOK
  BY <1>1, <1>2, <1>3, IdleOK DEF TypeOK
<1>5. \A h \in Handler : req[h] = Idle
  OBVIOUS
<1>6. Placement /\ KeysKnown
  BY <1>5, IdleOK DEF Placement, KeysKnown
<1>7. UsesPast /\ RevokedOnce /\ LastUsedIsRecent
  BY DEF UsesPast, RevokedOnce, LastUsedIsRecent
<1>8. OldSessionsExplained
  BY <1>2 DEF OldSessionsExplained, Outdated
<1>9. QED
  BY <1>4, <1>6, <1>7, <1>8 DEF IInv

(* A request that is accepted. *)
LEMMA BeginKeeps ==
  ASSUME IInv, NEW h \in Handler,
         SignInRead(h) \/ AuthenticateCookie(h) \/ AuthenticateKey(h) \/ SignOutAsked(h)
  PROVE  IInv'
<1>1. TypeOK /\ req[h].at = "idle"
  BY DEF IInv, SignInRead, AuthenticateCookie, AuthenticateKey, SignOutAsked
<1>1a. served' \in 0..MaxRequests
  <2>1. served < MaxRequests /\ served' = served + 1
    BY DEF SignInRead, AuthenticateCookie, AuthenticateKey, SignOutAsked
  <2>2. served \in 0..MaxRequests
    BY <1>1 DEF TypeOK
  <2>3. QED
    BY <2>1, <2>2
<1>2. CASE SignInRead(h)
  <2>1. PICK u \in User : req' = [req EXCEPT ![h] = [Idle EXCEPT !.at = "open", !.user = u, !.seen = digest[u]]]
    BY <1>2 DEF SignInRead
  <2>. DEFINE r == [Idle EXCEPT !.at = "open", !.user = u, !.seen = digest[u]]
  <2>2. r \in Request /\ Placed(r) /\ r.at = "open"
    BY <1>1, IdleOK DEF TypeOK, Idle, Request, Placed, Steps
  <2>3. UNCHANGED <<now, tables, history>>
    BY <1>2 DEF SignInRead
  <2>. HIDE DEF r
  <2>4. QED
    BY <1>1, <1>1a, <2>1, <2>2, <2>3, MoveKeeps DEF r
<1>3. CASE AuthenticateCookie(h)
  <2>1. PICK k \in Token :
          /\ Live(k)
          /\ req' = [req EXCEPT ![h] = [Idle EXCEPT !.at = "serve", !.user = session[k].user,
                                                   !.role = role[session[k].user]]]
    BY <1>3 DEF AuthenticateCookie
  <2>. DEFINE u == session[k].user
              r == [Idle EXCEPT !.at = "serve", !.user = u, !.role = role[u]]
  <2>2. u \in User /\ role[u] \in Role
    BY <1>1, <2>1 DEF TypeOK, Live, Session
  <2>3. r \in Request /\ Placed(r) /\ r.at = "serve"
    BY <2>2, IdleOK DEF Idle, Request, Placed, Steps
  <2>4. UNCHANGED <<now, tables, history>>
    BY <1>3 DEF AuthenticateCookie
  <2>5. req' = [req EXCEPT ![h] = r]
    BY <2>1
  <2>. HIDE DEF r
  <2>6. QED
    BY <1>1, <1>1a, <2>3, <2>4, <2>5, MoveKeeps
<1>4. CASE AuthenticateKey(h)
  <2>1. PICK a \in Key :
          /\ Active(a)
          /\ req' = [req EXCEPT ![h] = [Idle EXCEPT !.at = "touch", !.user = key[a].owner,
                                                   !.role = role[key[a].owner], !.key = a]]
    BY <1>4 DEF AuthenticateKey
  <2>. DEFINE u == key[a].owner
              r == [Idle EXCEPT !.at = "touch", !.user = u, !.role = role[u], !.key = a]
  <2>2. u \in User /\ role[u] \in Role /\ key[a] # None
    BY <1>1, <2>1 DEF TypeOK, Active, ApiKey
  <2>3. r \in Request /\ Placed(r) /\ r.at = "touch" /\ r.key = a
    BY <2>2, IdleOK DEF Idle, Request, Placed, Steps
  <2>4. UNCHANGED <<now, tables, history>>
    BY <1>4 DEF AuthenticateKey
  <2>5. req' = [req EXCEPT ![h] = r]
    BY <2>1
  <2>. HIDE DEF r
  <2>6. QED
    BY <1>1, <1>1a, <2>2, <2>3, <2>4, <2>5, MoveKeeps
<1>5. CASE SignOutAsked(h)
  <2>1. PICK k \in issued : req' = [req EXCEPT ![h] = [Idle EXCEPT !.at = "signOut", !.token = k]]
    BY <1>5 DEF SignOutAsked, Asks
  <2>. DEFINE r == [Idle EXCEPT !.at = "signOut", !.token = k]
  <2>2. r \in Request /\ Placed(r) /\ r.at = "signOut"
    BY <1>1, IdleOK DEF TypeOK, Idle, Request, Placed, Steps
  <2>3. UNCHANGED <<now, tables, history>>
    BY <1>5 DEF SignOutAsked
  <2>. HIDE DEF r
  <2>4. QED
    BY <1>1, <1>1a, <2>1, <2>2, <2>3, MoveKeeps DEF r
<1>6. QED
  BY <1>2, <1>3, <1>4, <1>5

(* The steps that only decide what comes next. *)
LEMMA DecideKeeps ==
  ASSUME IInv, NEW h \in Handler,
         \/ NoTokenLeft(h) \/ TouchFails(h) \/ ReadOnly(h) \/ ChangeRead(h) \/ ResetRead(h)
         \/ SetRoleRead(h) \/ CreateKeyRead(h) \/ NoKeyLeft(h) \/ RevokeRead(h)
  PROVE  IInv'
<1>1. /\ req[h].at # "drop" /\ served' \in 0..MaxRequests /\ UNCHANGED <<now, tables, history>>
  BY DEF IInv, TypeOK, NoTokenLeft, TouchFails, ReadOnly, ChangeRead, ResetRead, SetRoleRead,
         CreateKeyRead, NoKeyLeft, RevokeRead
<1>2. req[h] \in Request /\ Placed(req[h])
  BY DEF IInv, TypeOK, Placement
<1>3. PICK r \in Request :
        /\ req' = [req EXCEPT ![h] = r] /\ Placed(r)
        /\ r.at \in {"touch", "revoke"} => key[r.key] # None
  <2>1. CASE NoTokenLeft(h) \/ ReadOnly(h) \/ NoKeyLeft(h)
    BY <2>1, IdleOK DEF NoTokenLeft, ReadOnly, NoKeyLeft, Ends
  <2>2. CASE TouchFails(h)
    <3>1. AfterTouch(h) \in Request /\ Placed(AfterTouch(h)) /\ AfterTouch(h).at \in {"idle", "serve"}
      BY <1>2, <2>2, IdleOK DEF TouchFails, AfterTouch, Request, Placed, Steps
    <3>2. QED
      BY <2>2, <3>1 DEF TouchFails
  <2>3. CASE ChangeRead(h)
    <3>. DEFINE r == [Idle EXCEPT !.at = "update", !.whom = req[h].user]
    <3>1. r \in Request /\ Placed(r) /\ r.at = "update"
      BY <1>2, <2>3 DEF ChangeRead, Idle, Request, Placed, Steps, Role
    <3>2. req' = [req EXCEPT ![h] = r]
      BY <2>3 DEF ChangeRead, Asks
    <3>. QED
      BY <3>1, <3>2
  <2>4. CASE ResetRead(h)
    <3>1. PICK u \in User : req' = [req EXCEPT ![h] = [Idle EXCEPT !.at = "update", !.whom = u, !.reset = TRUE]]
      BY <2>4 DEF ResetRead, Asks
    <3>. DEFINE r == [Idle EXCEPT !.at = "update", !.whom = u, !.reset = TRUE]
    <3>2. r \in Request /\ Placed(r) /\ r.at = "update"
      BY DEF Idle, Request, Placed, Steps, Role
    <3>. QED
      BY <3>1, <3>2
  <2>5. CASE SetRoleRead(h)
    <3>1. PICK u \in User, to \in Role : req' = [req EXCEPT ![h] = [Idle EXCEPT !.at = "role", !.whom = u, !.to = to]]
      BY <2>5 DEF SetRoleRead, Asks
    <3>. DEFINE r == [Idle EXCEPT !.at = "role", !.whom = u, !.to = to]
    <3>2. r \in Request /\ Placed(r) /\ r.at = "role"
      BY DEF Idle, Request, Placed, Steps, Role
    <3>. QED
      BY <3>1, <3>2
  <2>6. CASE CreateKeyRead(h)
    <3>1. PICK u \in User : req' = [req EXCEPT ![h] = [Idle EXCEPT !.at = "insert", !.whom = u]]
      BY <2>6 DEF CreateKeyRead, Asks
    <3>. DEFINE r == [Idle EXCEPT !.at = "insert", !.whom = u]
    <3>2. r \in Request /\ Placed(r) /\ r.at = "insert"
      BY DEF Idle, Request, Placed, Steps, Role
    <3>. QED
      BY <3>1, <3>2
  <2>7. CASE RevokeRead(h)
    <3>1. PICK a \in Key :
            /\ key[a] # None
            /\ req' = [req EXCEPT ![h] = [Idle EXCEPT !.at = "revoke", !.user = req[h].user, !.key = a]]
      BY <2>7 DEF RevokeRead, Asks
    <3>. DEFINE r == [Idle EXCEPT !.at = "revoke", !.user = req[h].user, !.key = a]
    <3>2. r \in Request /\ Placed(r) /\ r.at = "revoke" /\ r.key = a
      BY <1>2, <2>7 DEF RevokeRead, Idle, Request, Placed, Steps, Role
    <3>. QED
      BY <3>1, <3>2
  <2>8. QED
    BY <2>1, <2>2, <2>3, <2>4, <2>5, <2>6, <2>7
<1>4. QED
  BY <1>1, <1>3, MoveKeeps

(* A session is inserted for the digest that was compared: if it has been  *)
(* replaced since, the session is excused.                                 *)
LEMMA OpenSessionKeeps ==
  ASSUME IInv, NEW h \in Handler, OpenSession(h)
  PROVE  IInv'
<1>1. TypeOK /\ req[h].at = "open" /\ req[h].user \in User /\ req[h].seen \in Nat
  BY DEF IInv, TypeOK, OpenSession, Placement, Placed, Request
<1>2. PICK k \in Token \ issued :
        /\ session' = [session EXCEPT ![k] = NewSession(h)]
        /\ issued' = issued \cup {k}
        /\ excused' = IF req[h].seen = digest[req[h].user] THEN excused ELSE excused \cup {k}
  BY DEF OpenSession
<1>3. /\ req' \in [Handler -> Request]
      /\ \A g \in Handler : req'[g] = IF g = h THEN Idle ELSE req[g]
  BY <1>1, IdleOK, MoveOK DEF OpenSession, Ends
<1>4. UNCHANGED <<now, digest, role, key, served, confirmed, usedAt>>
  BY DEF OpenSession, users
<1>5. /\ NewSession(h) \in Session /\ NewSession(h) # None
      /\ NewSession(h).user = req[h].user /\ NewSession(h).basis = req[h].seen
  <2>1. now \in Nat /\ now + SessionDuration \in Nat
    BY <1>1 DEF TypeOK
  <2>2. QED
    BY <1>1, <2>1 DEF NewSession, Session
<1>6. TypeOK'
  BY <1>1, <1>2, <1>3, <1>4, <1>5 DEF TypeOK
<1>7. Placement' /\ KeysKnown' /\ UsesPast' /\ RevokedOnce' /\ LastUsedIsRecent'
  BY <1>3, <1>4, IdleOK DEF IInv, Placement, KeysKnown, UsesPast, RevokedOnce, LastUsedIsRecent
<1>8. OldSessionsExplained'
  <2>. SUFFICES ASSUME NEW t \in Token, Outdated(t)'
                PROVE  t \in excused' \/ \E g \in Handler : req'[g].at = "drop" /\ req'[g].whom = session'[t].user
    BY DEF OldSessionsExplained
  <2>1. CASE t = k
    BY <1>1, <1>2, <1>4, <1>5, <2>1 DEF Outdated, TypeOK
  <2>2. CASE t # k
    <3>1. Outdated(t) /\ session'[t] = session[t]
      BY <1>1, <1>2, <1>4, <2>2 DEF Outdated, TypeOK
    <3>2. QED
      BY <1>1, <1>2, <1>3, <3>1 DEF IInv, OldSessionsExplained
  <2>3. QED
    BY <2>1, <2>2
<1>9. QED
  BY <1>6, <1>7, <1>8 DEF IInv

(* A use is written down when the last one is a minute old. *)
LEMMA TouchKeeps ==
  ASSUME IInv, NEW h \in Handler, Touch(h)
  PROVE  IInv'
<1>. DEFINE a == req[h].key
<1>1. TypeOK /\ req[h].at = "touch" /\ a \in Key /\ key[a] # None /\ key[a] \in ApiKey /\ now \in Nat
  BY DEF IInv, TypeOK, Touch, Placement, Placed, KeysKnown
<1>2. AfterTouch(h) \in Request /\ Placed(AfterTouch(h)) /\ AfterTouch(h).at \in {"idle", "serve"}
  BY <1>1, IdleOK, ZenonT(60) DEF IInv, TypeOK, Placement, AfterTouch, Request, Placed, Steps
<1>3. /\ req' \in [Handler -> Request]
      /\ \A g \in Handler : req'[g] = IF g = h THEN AfterTouch(h) ELSE req[g]
  BY <1>1, <1>2, MoveOK DEF Touch
<1>4. UNCHANGED <<now, digest, role, session, served, issued, excused, confirmed>>
  BY DEF Touch, users
<1>5. /\ usedAt' = [usedAt EXCEPT ![a] = now]
      /\ key' = IF TouchDue(a) THEN [key EXCEPT ![a].lastUsed = now] ELSE key
  BY DEF Touch
<1>6. key' \in [Key -> ApiKey \cup {None}] /\ \A b \in Key : key[b] # None => key'[b] # None
  BY <1>1, <1>5 DEF TypeOK, ApiKey
<1>7. TypeOK'
  BY <1>1, <1>3, <1>4, <1>5, <1>6 DEF TypeOK
<1>8a. Placement'
  BY <1>2, <1>3 DEF IInv, Placement
<1>8b. KeysKnown'
  BY <1>2, <1>3, <1>6 DEF IInv, TypeOK, Placement, Placed, KeysKnown
<1>8. OldSessionsExplained'
  BY <1>1, <1>2, <1>3, <1>4 DEF IInv, OldSessionsExplained, Outdated
<1>9. \A b \in Key :
        /\ key'[b] = None <=> key[b] = None
        /\ key[b] # None => key'[b].revokedBy = key[b].revokedBy
        /\ b # a => key'[b] = key[b] /\ usedAt'[b] = usedAt[b]
        /\ usedAt'[a] = now
  BY <1>1, <1>5, <1>6 DEF TypeOK, ApiKey
<1>10. RevokedOnce'
  BY <1>4, <1>9 DEF IInv, RevokedOnce
<1>11. key'[a].lastUsed \in Nat /\ key'[a].lastUsed <= now /\ now <= key'[a].lastUsed + TouchEvery
  <2>1. CASE TouchDue(a)
    BY <1>1, <1>5, <2>1 DEF TypeOK, ApiKey
  <2>2. CASE ~TouchDue(a)
    <3>1. key'[a] = key[a] /\ key[a].lastUsed \in Nat /\ ~(key[a].lastUsed + TouchEvery < now)
      BY <1>1, <1>5, <2>2 DEF TypeOK, ApiKey, TouchDue
    <3>2. key[a].lastUsed <= now
      BY <1>1, <3>1 DEF IInv, UsesPast
    <3>3. QED
      BY <1>1, <3>1, <3>2
  <2>3. QED
    BY <2>1, <2>2
<1>12. UsesPast'
  BY <1>1, <1>4, <1>9, <1>11 DEF IInv, UsesPast
<1>13. LastUsedIsRecent'
  <2>. SUFFICES ASSUME NEW b \in Key, usedAt'[b] # None
                PROVE  /\ key'[b].lastUsed # None /\ key'[b].lastUsed \in 0..usedAt'[b]
                       /\ usedAt'[b] <= key'[b].lastUsed + TouchEvery
    BY <1>4 DEF LastUsedIsRecent
  <2>1. CASE b = a
    BY <1>1, <1>9, <1>11, <2>1
  <2>2. CASE b # a
    BY <1>9, <2>2 DEF IInv, LastUsedIsRecent
  <2>3. QED
    BY <2>1, <2>2
<1>14. QED
  BY <1>7, <1>8a, <1>8b, <1>8, <1>10, <1>12, <1>13 DEF IInv

(* A new digest outdates the sessions there are: a reset excuses them, a   *)
(* change goes on to drop them.                                            *)
LEMMA UpdatePasswordKeeps ==
  ASSUME IInv, NEW h \in Handler, UpdatePassword(h)
  PROVE  IInv'
<1>. DEFINE u == req[h].whom
            r == IF req[h].reset THEN Idle ELSE [req[h] EXCEPT !.at = "drop"]
<1>1. TypeOK /\ req[h].at = "update" /\ u \in User /\ req[h] \in Request /\ Placed(req[h])
  BY DEF IInv, TypeOK, UpdatePassword, Placement, Placed
<1>2. r \in Request /\ Placed(r) /\ r.at \in {"idle", "drop"}
  BY <1>1, IdleOK DEF Request, Placed, Steps
<1>3. req' = [req EXCEPT ![h] = r]
  BY <1>1 DEF UpdatePassword, Ends, Goes, TypeOK
<1>4. /\ req' \in [Handler -> Request]
      /\ \A g \in Handler : req'[g] = IF g = h THEN r ELSE req[g]
  BY <1>1, <1>2, <1>3, MoveOK
<1>5. /\ UNCHANGED <<now, role, session, key, served, issued, confirmed, usedAt>>
      /\ digest' = [digest EXCEPT ![u] = @ + 1]
      /\ excused' = IF req[h].reset THEN excused \cup SessionsOf(u) ELSE excused
  BY DEF UpdatePassword
<1>6. TypeOK'
  BY <1>1, <1>4, <1>5 DEF TypeOK, SessionsOf
<1>7. Placement' /\ KeysKnown' /\ UsesPast' /\ RevokedOnce' /\ LastUsedIsRecent'
  BY <1>2, <1>4, <1>5 DEF IInv, Placement, KeysKnown, UsesPast, RevokedOnce, LastUsedIsRecent
<1>8. OldSessionsExplained'
  <2>. SUFFICES ASSUME NEW t \in Token, Outdated(t)'
                PROVE  t \in excused' \/ \E g \in Handler : req'[g].at = "drop" /\ req'[g].whom = session'[t].user
    BY DEF OldSessionsExplained
  <2>1. session'[t] = session[t] /\ session[t] # None /\ session[t].user \in User
    BY <1>1, <1>5 DEF Outdated, TypeOK, Session
  <2>2. CASE session[t].user = u
    <3>1. CASE req[h].reset
      BY <1>5, <2>1, <2>2, <3>1 DEF SessionsOf
    <3>2. CASE ~req[h].reset
      <4>1. req'[h].at = "drop" /\ req'[h].whom = u
        BY <1>1, <1>4, <3>2 DEF Request
      <4>2. QED
        BY <2>1, <2>2, <4>1
    <3>3. QED
      BY <3>1, <3>2
  <2>3. CASE session[t].user # u
    <3>1. Outdated(t)
      BY <1>1, <1>5, <2>1, <2>3 DEF Outdated, TypeOK
    <3>2. QED
      BY <1>1, <1>4, <1>5, <2>1, <3>1 DEF IInv, OldSessionsExplained
  <2>4. QED
    BY <2>2, <2>3
<1>9. QED
  BY <1>6, <1>7, <1>8 DEF IInv

(* A handler whose request ends, and some sessions go: those that stay are *)
(* explained as before, unless by this request.                            *)
LEMMA EndKeeps ==
  ASSUME IInv, NEW h \in Handler, Ends(h),
         \A k \in Token : session'[k] \in {session[k], None},
         session' \in [Token -> Session \cup {None}],
         excused \subseteq excused', excused' \subseteq Token,
         \A k \in Token : req[h].at = "drop" /\ session'[k] # None /\ session[k].user = req[h].whom => k \in excused',
         UNCHANGED <<now, digest, key, served, issued, confirmed, usedAt>>, role' \in [User -> Role]
  PROVE  IInv'
<1>1. /\ req' \in [Handler -> Request]
      /\ \A g \in Handler : req'[g] = IF g = h THEN Idle ELSE req[g]
  BY IdleOK, MoveOK DEF IInv, Ends
<1>2. TypeOK'
  BY <1>1 DEF IInv, TypeOK
<1>3. Placement' /\ KeysKnown' /\ UsesPast' /\ RevokedOnce' /\ LastUsedIsRecent'
  BY <1>1, IdleOK DEF IInv, Placement, KeysKnown, UsesPast, RevokedOnce, LastUsedIsRecent
<1>4. OldSessionsExplained'
  <2>. SUFFICES ASSUME NEW t \in Token, Outdated(t)'
                PROVE  t \in excused' \/ \E g \in Handler : req'[g].at = "drop" /\ req'[g].whom = session'[t].user
    BY DEF OldSessionsExplained
  <2>1. Outdated(t) /\ session'[t] = session[t] /\ session'[t] # None
    BY DEF Outdated
  <2>2. t \in excused \/ \E g \in Handler : req[g].at = "drop" /\ req[g].whom = session[t].user
    BY <2>1 DEF IInv, OldSessionsExplained
  <2>3. QED
    BY <1>1, <2>1, <2>2
<1>5. QED
  BY <1>2, <1>3, <1>4 DEF IInv

LEMMA DropSessionsKeeps ==
  ASSUME IInv, NEW h \in Handler, DropSessions(h)
  PROVE  IInv'
<1>1. TypeOK /\ UNCHANGED <<now, digest, role, key, served, issued, excused, confirmed, usedAt>>
  BY DEF IInv, DropSessions, users, history
<1>2. session' = [k \in Token |-> IF k \in SessionsOf(req[h].whom) THEN None ELSE session[k]] /\ Ends(h)
  BY DEF DropSessions, Dropped
<1>3. \A k \in Token : session'[k] \in {session[k], None} /\ (session'[k] # None => session[k].user # req[h].whom)
  BY <1>2 DEF SessionsOf
<1>4. session' \in [Token -> Session \cup {None}]
  BY <1>1, <1>2 DEF TypeOK
<1>5. QED
  BY <1>1, <1>2, <1>3, <1>4, EndKeeps DEF TypeOK

LEMMA SignOutKeeps ==
  ASSUME IInv, NEW h \in Handler, SignOut(h)
  PROVE  IInv'
<1>1. TypeOK /\ UNCHANGED <<now, digest, role, key, served, issued, excused, confirmed, usedAt>>
  BY DEF IInv, SignOut, users, history
<1>2. session' = [session EXCEPT ![req[h].token] = None] /\ Ends(h) /\ req[h].at # "drop"
  BY DEF SignOut
<1>3. /\ \A k \in Token : session'[k] \in {session[k], None}
      /\ session' \in [Token -> Session \cup {None}]
  BY <1>1, <1>2 DEF TypeOK
<1>4. QED
  BY <1>1, <1>2, <1>3, EndKeeps DEF TypeOK

LEMMA SetRoleKeeps ==
  ASSUME IInv, NEW h \in Handler, SetRole(h)
  PROVE  IInv'
<1>1. TypeOK /\ UNCHANGED <<now, digest, session, key, served, issued, excused, confirmed, usedAt>>
  BY DEF IInv, SetRole, history
<1>2. Ends(h) /\ req[h].at # "drop" /\ req[h].to \in Role /\ role' = [role EXCEPT ![req[h].whom] = req[h].to]
  BY <1>1 DEF SetRole, TypeOK, Request
<1>3. role' \in [User -> Role]
  BY <1>1, <1>2 DEF TypeOK
<1>4. QED
  BY <1>1, <1>2, <1>3, EndKeeps DEF TypeOK

(* A request that stops between the two statements of a change spares the  *)
(* sessions it would have dropped.                                         *)
LEMMA FailKeeps ==
  ASSUME IInv, NEW h \in Handler, Fail(h)
  PROVE  IInv'
<1>1. TypeOK /\ UNCHANGED <<now, digest, role, session, key, served, issued, confirmed, usedAt>> /\ Ends(h)
  BY DEF IInv, Fail, tables, users
<1>2. excused' = IF req[h].at = "drop" THEN excused \cup SessionsOf(req[h].whom) ELSE excused
  BY DEF Fail
<1>3. excused \subseteq excused' /\ excused' \subseteq Token
  BY <1>1, <1>2 DEF TypeOK, SessionsOf
<1>4. \A k \in Token : req[h].at = "drop" /\ session'[k] # None /\ session[k].user = req[h].whom => k \in excused'
  BY <1>1, <1>2 DEF SessionsOf
<1>5. QED
  BY <1>1, <1>3, <1>4, EndKeeps DEF TypeOK

(* Keys: the two steps that write one end the request. *)
LEMMA WriteKeyKeeps ==
  ASSUME IInv, NEW h \in Handler, CreateKey(h) \/ Revoke(h)
  PROVE  IInv'
<1>1. /\ TypeOK /\ req[h] \in Request /\ Placed(req[h]) /\ req[h].at \in {"insert", "revoke"} /\ Ends(h)
      /\ UNCHANGED <<now, digest, role, session, served, issued, excused, usedAt>>
  BY DEF IInv, TypeOK, CreateKey, Revoke, users, history, Placement
<1>2. /\ req' \in [Handler -> Request]
      /\ \A g \in Handler : req'[g] = IF g = h THEN Idle ELSE req[g]
  BY <1>1, IdleOK, MoveOK DEF Ends
<1>3. Placement' /\ OldSessionsExplained'
  BY <1>1, <1>2, IdleOK DEF IInv, Placement, OldSessionsExplained, Outdated
<1>4. /\ key' \in [Key -> ApiKey \cup {None}] /\ confirmed' \in [Key -> Nat]
      /\ \A b \in Key :
           /\ key[b] # None => key'[b] # None /\ key'[b].lastUsed = key[b].lastUsed
           /\ key[b] = None /\ key'[b] # None => key'[b].lastUsed = None
      /\ RevokedOnce'
  <2>1. CASE CreateKey(h)
    <3>1. PICK a \in Key, ro \in BOOLEAN, e \in {now + 1, None} :
            /\ key[a] = None
            /\ key' = [key EXCEPT ![a] = [owner |-> req[h].whom, readOnly |-> ro, expires |-> e,
                                          lastUsed |-> None, revokedBy |-> None]]
      BY <2>1 DEF CreateKey
    <3>. DEFINE k == [owner |-> req[h].whom, readOnly |-> ro, expires |-> e, lastUsed |-> None, revokedBy |-> None]
    <3>2. now \in Nat /\ now + 1 \in Nat /\ req[h].whom \in User /\ UNCHANGED confirmed
      BY <1>1, <2>1 DEF TypeOK, Placed, CreateKey, history
    <3>3. k \in ApiKey /\ k # None /\ k.revokedBy = None /\ k.lastUsed = None
      BY <3>2 DEF ApiKey
    <3>4. \A b \in Key : key'[b] = IF b = a THEN k ELSE key[b]
      BY <1>1, <3>1 DEF TypeOK
    <3>5. key' \in [Key -> ApiKey \cup {None}]
      BY <1>1, <3>1, <3>3 DEF TypeOK
    <3>. HIDE DEF k
    <3>6. RevokedOnce'
      BY <3>1, <3>2, <3>3, <3>4 DEF IInv, RevokedOnce
    <3>7. QED
      BY <1>1, <3>1, <3>2, <3>3, <3>4, <3>5, <3>6 DEF TypeOK
  <2>2. CASE Revoke(h)
    <3>. DEFINE a == req[h].key
    <3>1. a \in Key /\ req[h].user \in User /\ key[a] \in ApiKey /\ key[a] # None
      BY <1>1, <2>2 DEF IInv, KeysKnown, TypeOK, Placed, Revoke
    <3>2. CASE StillValid(h)
      <4>1. /\ key' = [key EXCEPT ![a].revokedBy = req[h].user]
            /\ confirmed' = [confirmed EXCEPT ![a] = @ + 1]
            /\ key[a].revokedBy = None
        BY <2>2, <3>2 DEF Revoke, StillValid
      <4>. DEFINE k == [key[a] EXCEPT !.revokedBy = req[h].user]
      <4>2. k \in ApiKey /\ k.revokedBy = req[h].user /\ k.lastUsed = key[a].lastUsed
        BY <3>1 DEF ApiKey
      <4>3. /\ key' \in [Key -> ApiKey \cup {None}] /\ confirmed' \in [Key -> Nat]
            /\ \A b \in Key : key'[b] = IF b = a THEN k ELSE key[b]
            /\ \A b \in Key : confirmed'[b] = IF b = a THEN confirmed[a] + 1 ELSE confirmed[b]
        BY <1>1, <3>1, <4>1, <4>2 DEF TypeOK
      <4>. HIDE DEF k
      <4>4. confirmed[a] = 0 /\ k # None /\ req[h].user # None
        <5>1. confirmed[a] = 0
          BY <3>1, <4>1 DEF IInv, RevokedOnce
        <5>2. k # None /\ req[h].user # None
          BY <3>1, <4>2
        <5>3. QED
          BY <5>1, <5>2
      <4>5. RevokedOnce'
        <5>1. key'[a].revokedBy = req[h].user /\ key'[a] # None /\ confirmed'[a] = 1
          BY <3>1, <4>2, <4>3, <4>4
        <5>2. \A b \in Key : b # a => key'[b] = key[b] /\ confirmed'[b] = confirmed[b]
          BY <4>3
        <5>3. QED
          BY <4>4, <5>1, <5>2 DEF IInv, RevokedOnce
      <4>6. QED
        BY <3>1, <4>2, <4>3, <4>4, <4>5
    <3>3. CASE ~StillValid(h)
      BY <1>1, <2>2, <3>3 DEF Revoke, IInv, RevokedOnce, TypeOK
    <3>4. QED
      BY <3>2, <3>3
  <2>3. QED
    BY <2>1, <2>2
<1>5. TypeOK'
  BY <1>1, <1>2, <1>4 DEF TypeOK
<1>6. KeysKnown'
  BY <1>2, <1>4, IdleOK DEF IInv, KeysKnown, Placement, Placed
<1>7. UsesPast'
  BY <1>1, <1>4 DEF IInv, UsesPast
<1>8. LastUsedIsRecent'
  BY <1>1, <1>4 DEF IInv, UsesPast, LastUsedIsRecent
<1>9. QED
  BY <1>3, <1>4, <1>5, <1>6, <1>7, <1>8 DEF IInv

(* Time passes, and the sweep takes sessions away. *)
LEMMA ClockKeeps ==
  ASSUME IInv, Tick \/ Sweep
  PROVE  IInv'
<1>1. CASE Tick
  <2>1. now' = now + 1 /\ now' \in 0..MaxTime /\ now \in Nat
    BY <1>1 DEF IInv, TypeOK, Tick
  <2>2. UNCHANGED <<digest, role, session, key, req, served, issued, excused, confirmed, usedAt>>
    BY <1>1 DEF Tick, tables, users, history
  <2>3. TypeOK'
    BY <2>1, <2>2 DEF IInv, TypeOK
  <2>4. Placement' /\ KeysKnown' /\ OldSessionsExplained' /\ RevokedOnce' /\ LastUsedIsRecent'
    BY <2>2 DEF IInv, Placement, KeysKnown, OldSessionsExplained, Outdated, RevokedOnce, LastUsedIsRecent
  <2>5. UsesPast'
    <3>1. \A a \in Key : /\ usedAt[a] \in Nat \cup {None}
                         /\ key[a] # None => key[a].lastUsed \in Nat \cup {None}
      BY DEF IInv, TypeOK, ApiKey
    <3>2. QED
      BY <2>1, <2>2, <3>1 DEF IInv, UsesPast
  <2>6. QED
    BY <2>3, <2>4, <2>5 DEF IInv
<1>2. CASE Sweep
  <2>1. /\ session' = [k \in Token |-> IF Expired(k) THEN None ELSE session[k]]
        /\ UNCHANGED <<now, digest, role, key, req, served, issued, excused, confirmed, usedAt>>
    BY <1>2 DEF Sweep, users, history
  <2>2. TypeOK'
    BY <2>1 DEF IInv, TypeOK
  <2>3. Placement' /\ KeysKnown' /\ UsesPast' /\ RevokedOnce' /\ LastUsedIsRecent'
    BY <2>1 DEF IInv, Placement, KeysKnown, UsesPast, RevokedOnce, LastUsedIsRecent
  <2>4. OldSessionsExplained'
    BY <2>1 DEF IInv, OldSessionsExplained, Outdated
  <2>5. QED
    BY <2>2, <2>3, <2>4 DEF IInv
<1>3. QED
  BY <1>1, <1>2

(* No step breaks the invariant. *)
LEMMA NextKeeps == IInv /\ [Next]_vars => IInv'
<1>. SUFFICES ASSUME IInv, [Next]_vars PROVE IInv'
  OBVIOUS
<1>1. CASE UNCHANGED vars
  BY <1>1 DEF vars, tables, users, history, IInv, TypeOK, Placement, KeysKnown, UsesPast,
              OldSessionsExplained, Outdated, RevokedOnce, LastUsedIsRecent
<1>2. CASE Tick \/ Sweep
  BY <1>2, ClockKeeps
<1>3. ASSUME NEW h \in Handler,
             SignInRead(h) \/ AuthenticateCookie(h) \/ AuthenticateKey(h) \/ SignOutAsked(h) \/ Step(h) \/ Fail(h)
      PROVE  IInv'
  BY <1>3, BeginKeeps, DecideKeeps, OpenSessionKeeps, TouchKeeps, UpdatePasswordKeeps, DropSessionsKeeps,
     SignOutKeeps, SetRoleKeeps, WriteKeyKeeps, FailKeeps DEF Step
<1>4. QED
  BY <1>1, <1>2, <1>3 DEF Next, Quiet

(***************************************************************************)
(* Theorems                                                                *)
(***************************************************************************)

(* The invariant holds in every reachable state. *)
THEOREM InvariantHolds == Spec => []IInv
BY InitIInv, NextKeeps, PTL DEF Spec

(* Type correctness of accounts, sessions, keys and every open request.    *)
THEOREM TypesHold == Spec => []TypeOK
<1>1. IInv => TypeOK
  BY DEF IInv
<1>2. QED
  BY <1>1, InvariantHolds, PTL

(* However many sign-ins, changes and resets race and wherever they stop,  *)
(* a session outlives its password for one of the named reasons only.      *)
THEOREM OutdatedSessionsExplained == Spec => []OldSessionsExplained
<1>1. IInv => OldSessionsExplained
  BY DEF IInv
<1>2. QED
  BY <1>1, InvariantHolds, PTL

(* One request at most is told that it revoked a key.                      *)
THEOREM KeysRevokedOnce == Spec => []RevokedOnce
<1>1. IInv => RevokedOnce
  BY DEF IInv
<1>2. QED
  BY <1>1, InvariantHolds, PTL

(* last_used_at never falls behind by more than the minute it saves.       *)
THEOREM UsesAreRecent == Spec => []LastUsedIsRecent
<1>1. IInv => LastUsedIsRecent
  BY DEF IInv
<1>2. QED
  BY <1>1, InvariantHolds, PTL

(* A session that could still be used is taken away by a sign-out of it or *)
(* by its owner's change of password, never by the sweep.                  *)
THEOREM LiveSessionsAreKept == Spec => LiveSessionsStay
<1>. DEFINE Kept == \A k \in Token :
                      Live(k) /\ session'[k] = None =>
                        \E h \in Handler :
                          \/ req[h].at = "signOut" /\ req[h].token = k
                          \/ req[h].at = "drop" /\ req[h].whom = session[k].user
<1>1. IInv /\ [Next]_vars => [Kept]_vars
  <2>. SUFFICES ASSUME IInv, [Next]_vars, NEW k \in Token, Live(k), session'[k] = None
                PROVE  \E h \in Handler :
                          \/ req[h].at = "signOut" /\ req[h].token = k
                          \/ req[h].at = "drop" /\ req[h].whom = session[k].user
    OBVIOUS
  <2>1. session' # session
    BY DEF Live
  <2>2. CASE Sweep
    <3>1. ~Expired(k)
      BY DEF Live, Expired, IInv, TypeOK, Session
    <3>2. QED
      BY <2>2, <3>1 DEF Sweep, Live
  <2>3. CASE Tick \/ Quiet \/ UNCHANGED vars
    BY <2>1, <2>3 DEF Tick, Quiet, vars, tables
  <2>4. ASSUME NEW h \in Handler,
               SignInRead(h) \/ AuthenticateCookie(h) \/ AuthenticateKey(h) \/ SignOutAsked(h) \/ Step(h) \/ Fail(h)
        PROVE  \E g \in Handler :
                  \/ req[g].at = "signOut" /\ req[g].token = k
                  \/ req[g].at = "drop" /\ req[g].whom = session[k].user
    <3>1. CASE OpenSession(h)
      <4>1. PICK t \in Token \ issued : session' = [session EXCEPT ![t] = NewSession(h)]
        BY <3>1 DEF OpenSession
      <4>2. now \in Nat /\ req[h].user \in User /\ req[h].seen \in Nat
        BY <3>1 DEF IInv, TypeOK, Placement, Placed, Request, OpenSession
      <4>3. NewSession(h) \in Session
        BY <4>2 DEF NewSession, Session
      <4>4. session'[t] # None /\ \A x \in Token : x # t => session'[x] = session[x]
        BY <4>1, <4>3 DEF IInv, TypeOK
      <4>5. QED
        BY <4>4 DEF Live
    <3>2. CASE DropSessions(h)
      BY <3>2 DEF DropSessions, Dropped, SessionsOf, Live
    <3>3. CASE SignOut(h)
      <4>1. req[h].at = "signOut" /\ session' = [session EXCEPT ![req[h].token] = None]
        BY <3>3 DEF SignOut
      <4>2. req[h].token = k
        BY <4>1 DEF IInv, TypeOK, Live
      <4>3. QED
        BY <4>1, <4>2
    <3>4. CASE \/ NoTokenLeft(h) \/ Touch(h) \/ TouchFails(h) \/ ReadOnly(h) \/ ChangeRead(h) \/ ResetRead(h)
               \/ UpdatePassword(h) \/ SetRoleRead(h) \/ SetRole(h) \/ CreateKeyRead(h) \/ CreateKey(h)
               \/ NoKeyLeft(h) \/ RevokeRead(h) \/ Revoke(h) \/ Fail(h)
      BY <2>1, <3>4 DEF tables, NoTokenLeft, Touch, TouchFails, ReadOnly, ChangeRead, ResetRead, UpdatePassword,
                        SetRoleRead, SetRole, CreateKeyRead, CreateKey, NoKeyLeft, RevokeRead, Revoke, Fail
    <3>5. CASE SignInRead(h) \/ AuthenticateCookie(h) \/ AuthenticateKey(h) \/ SignOutAsked(h)
      BY <2>1, <3>5 DEF tables, SignInRead, AuthenticateCookie, AuthenticateKey, SignOutAsked
    <3>6. QED
      BY <2>4, <3>1, <3>2, <3>3, <3>4, <3>5 DEF Step
  <2>5. QED
    BY <2>2, <2>3, <2>4 DEF Next
<1>2. QED
  BY <1>1, InvariantHolds, PTL DEF Spec, LiveSessionsStay
=============================================================================
