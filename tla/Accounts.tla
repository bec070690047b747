------------------------------ MODULE Accounts ------------------------------
(***************************************************************************)
(* Accounts: sign-in and sessions, passwords, roles and API keys, as       *)
(* concurrent HTTP requests, and the hourly sweep of expired sessions      *)
(* (usecase/auth.go, usecase/apikey.go, repository/postgres/auth.go and    *)
(* apikey.go, delivery/http/middleware.go, cmd/api/main.go).               *)
(*                                                                         *)
(* A password is known by its digest, and every update writes a digest of  *)
(* its own, so digests are numbered.  Whoever is on whose team is fixed:   *)
(* module Member models transfers.  The clock counts abstract instants.    *)
(*                                                                         *)
(* A definition named Op_Defect is a defective form of Op, never used by   *)
(* the specification: it shows that a property can fail.                   *)
(***************************************************************************)
EXTENDS Naturals, FiniteSets

CONSTANTS
  User,             \* rows of app_users
  StartRole,        \* the role of each account at first
  Teammates,        \* <<a, b>>: a and b are members of one team
  Token, Key,       \* session tokens and API keys that may be issued
  Opened,           \* the tokens handed out before
  Handler,          \* goroutines that may serve a request at the same time
  SessionDuration,  \* instants a session lives
  TouchEvery,       \* instants between two writes of last_used_at
  MaxTime,          \* bound: the last instant
  MaxRequests,      \* bound: requests served in a behaviour
  MayFail,          \* whether requests may stop before they end
  None              \* no row, no user, no instant

Role == {"admin", "captain", "member"}

ASSUME UserAssumption  == StartRole \in [User -> Role] /\ Teammates \subseteq User \X User
ASSUME TokenAssumption == Opened \subseteq Token
ASSUME NoneAssumption  == None \notin User \cup Token \cup Key \cup Nat
ASSUME TimeAssumption  == SessionDuration \in Nat \ {0} /\ TouchEvery \in Nat /\ MaxTime \in Nat
ASSUME BoundAssumption == MaxRequests \in Nat /\ MayFail \in BOOLEAN

VARIABLES
  now,       \* the clock of the database
  digest,    \* app_users.password_hash
  role,      \* app_users.role
  session,   \* user_sessions, by token
  key,       \* api_keys
  req,       \* the request each handler is serving
  served,    \* requests accepted so far
  issued,    \* tokens handed out so far; none is handed out twice
  \* history, read by the properties only
  excused,   \* sessions that may outlive the password they were opened with
  confirmed, \* how many requests were told they revoked a key
  usedAt     \* when a key last authenticated a request that recorded it

users   == <<digest, role>>
tables  == <<users, session, key>>
history == <<issued, excused, confirmed, usedAt>>
vars    == <<now, tables, req, served, history>>

(* A session and the digest its password was compared with. *)
Session == [user : User, expires : Nat, basis : Nat]

ApiKey == [ owner : User, readOnly : BOOLEAN, expires : Nat \cup {None},
            lastUsed : Nat \cup {None}, revokedBy : User \cup {None} ]

ASSUME RowAssumption == None \notin Session \cup ApiKey

Steps == {"idle", "open", "serve", "touch", "update", "drop", "signOut", "role", "insert", "revoke"}

Request ==
  [ at     : Steps,
    user   : User \cup {None},   \* whom the request acts as
    role   : Role,               \* and the role read with that user
    seen   : Nat,                \* the digest read
    whom   : User \cup {None},   \* whose account it changes
    to     : Role,
    key    : Key \cup {None},
    token  : Token \cup {None},
    reset  : BOOLEAN ]           \* SetPassword, which keeps sessions

Idle == [ at |-> "idle", user |-> None, role |-> "member", seen |-> 0, whom |-> None,
          to |-> "member", key |-> None, token |-> None, reset |-> FALSE ]

TypeOK ==
  /\ now \in 0..MaxTime
  /\ digest \in [User -> Nat] /\ role \in [User -> Role]
  /\ session \in [Token -> Session \cup {None}]
  /\ key \in [Key -> ApiKey \cup {None}]
  /\ req \in [Handler -> Request] /\ served \in 0..MaxRequests
  /\ issued \subseteq Token /\ excused \subseteq Token
  /\ confirmed \in [Key -> Nat] /\ usedAt \in [Key -> Nat \cup {None}]

(* A season under way: some people are signed in, some keys were issued. *)
Init ==
  /\ now = 0
  /\ digest = [u \in User |-> 0]
  /\ role = StartRole
  /\ \E owner \in [Opened -> User] :
       session = [k \in Token |-> IF k \in Opened
                                 THEN [user |-> owner[k], expires |-> SessionDuration, basis |-> 0]
                                 ELSE None]
  /\ key \in [Key -> [owner : User, readOnly : BOOLEAN, expires : {1, None},
                      lastUsed : {None}, revokedBy : {None}] \cup {None}]
  /\ req = [h \in Handler |-> Idle] /\ served = 0
  /\ issued = Opened /\ excused = {}
  /\ confirmed = [k \in Key |-> 0] /\ usedAt = [k \in Key |-> None]

(***************************************************************************)
(* Credentials.                                                            *)
(***************************************************************************)
Asks(h, r)    == req' = [req EXCEPT ![h] = r]
Goes(h, next) == req' = [req EXCEPT ![h].at = next]
Ends(h)       == req' = [req EXCEPT ![h] = Idle]

(* where s.expires_at > now() *)
Live(k) == session[k] # None /\ session[k].expires > now

(* where expires_at <= now() *)
Expired_Early(k)  == session[k] # None /\ session[k].expires <= now + 1
Expired_Strict(k) == session[k] # None /\ session[k].expires < now

Expired(k) == session[k] # None /\ session[k].expires <= now

SessionsOf(u) == { k \in Token : session[k] # None /\ session[k].user = u }

(* APIKey.Active *)
Active(a) ==
  /\ key[a] # None /\ key[a].revokedBy = None
  /\ key[a].expires # None => key[a].expires > now

(* SignIn reads the digest and compares; a wrong password ends there. *)
SignInRead(h) ==
  /\ req[h].at = "idle" /\ served < MaxRequests
  /\ \E u \in User :
       req' = [req EXCEPT ![h] = [Idle EXCEPT !.at = "open", !.user = u, !.seen = digest[u]]]
  /\ served' = served + 1
  /\ UNCHANGED <<now, tables, history>>

NewSession(h) ==
  [user |-> req[h].user, basis |-> req[h].seen, expires |-> now + SessionDuration]

(* ... and then inserts a session, whatever became of the digest.          *)
OpenSession(h) ==
  /\ req[h].at = "open"
  /\ \E k \in Token \ issued :
       /\ session' = [session EXCEPT ![k] = NewSession(h)]
       /\ issued' = issued \cup {k}
       /\ excused' = IF req[h].seen = digest[req[h].user] THEN excused ELSE excused \cup {k}
  /\ Ends(h)
  /\ UNCHANGED <<now, users, key, served, confirmed, usedAt>>

(* No token is left in the instance: the request is given up. *)
NoTokenLeft(h) ==
  /\ req[h].at = "open" /\ issued = Token
  /\ Ends(h)
  /\ UNCHANGED <<now, tables, served, history>>

(* authenticate: the cookie's session, or else an API key, and the user it *)
(* stands for, with the role that user has at that moment.                 *)
AuthenticateCookie(h) ==
  /\ req[h].at = "idle" /\ served < MaxRequests
  /\ \E k \in Token :
       /\ Live(k)
       /\ LET u == session[k].user
          IN  req' = [req EXCEPT ![h] = [Idle EXCEPT !.at = "serve", !.user = u, !.role = role[u]]]
  /\ served' = served + 1
  /\ UNCHANGED <<now, tables, history>>

AuthenticateKey(h) ==
  /\ req[h].at = "idle" /\ served < MaxRequests
  /\ \E a \in Key :
       /\ Active(a)
       /\ LET u == key[a].owner
          IN  req' = [req EXCEPT ![h] = [Idle EXCEPT !.at = "touch", !.user = u, !.role = role[u],
                                                    !.key = a]]
  /\ served' = served + 1
  /\ UNCHANGED <<now, tables, history>>

(* TouchLastUsed writes once a minute.  A read-only key is refused before  *)
(* that in a request that changes something, so what is served is a read.  *)
TouchDue_Late(a) ==
  \/ key[a].lastUsed = None
  \/ key[a].lastUsed + 2 * TouchEvery < now

TouchDue(a) ==
  \/ key[a].lastUsed = None
  \/ key[a].lastUsed + TouchEvery < now

AfterTouch(h) == IF key[req[h].key].readOnly THEN Idle ELSE [req[h] EXCEPT !.at = "serve", !.key = None]

Touch(h) ==
  /\ req[h].at = "touch"
  /\ LET a == req[h].key
     IN  /\ key' = IF TouchDue(a) THEN [key EXCEPT ![a].lastUsed = now] ELSE key
         /\ usedAt' = [usedAt EXCEPT ![a] = now]
  /\ req' = [req EXCEPT ![h] = AfterTouch(h)]
  /\ UNCHANGED <<now, users, session, served, issued, excused, confirmed>>

(* TouchQuietly: the request goes on when the write fails. *)
TouchFails(h) ==
  /\ MayFail /\ req[h].at = "touch"
  /\ req' = [req EXCEPT ![h] = AfterTouch(h)]
  /\ UNCHANGED <<now, tables, served, history>>

(***************************************************************************)
(* Passwords.                                                              *)
(***************************************************************************)

(* ChangePassword compares the current password with the digest it reads. *)
ChangeRead(h) ==
  /\ req[h].at = "serve"
  /\ LET u == req[h].user
     IN  Asks(h, [Idle EXCEPT !.at = "update", !.whom = u])
  /\ UNCHANGED <<now, tables, served, history>>

(* SetPassword, by an admin for anyone and by a captain for a teammate. *)
MayReset(h, u) ==
  \/ req[h].role = "admin"
  \/ req[h].role = "captain" /\ <<req[h].user, u>> \in Teammates

ResetRead(h) ==
  /\ req[h].at = "serve"
  /\ \E u \in User :
       /\ MayReset(h, u)
       /\ Asks(h, [Idle EXCEPT !.at = "update", !.whom = u, !.reset = TRUE])
  /\ UNCHANGED <<now, tables, served, history>>

UpdatePassword(h) ==
  /\ req[h].at = "update"
  /\ LET u == req[h].whom
     IN  /\ digest' = [digest EXCEPT ![u] = @ + 1]
         /\ excused' = IF req[h].reset THEN excused \cup SessionsOf(u) ELSE excused
  /\ IF req[h].reset THEN Ends(h) ELSE Goes(h, "drop")
  /\ UNCHANGED <<now, role, session, key, served, issued, confirmed, usedAt>>

(* DeleteAllForUser is a statement of its own, after the update. *)
Dropped_Expired(h) == { k \in SessionsOf(req[h].whom) : Expired(k) }

Dropped(h) == SessionsOf(req[h].whom)

DropSessions(h) ==
  /\ req[h].at = "drop"
  /\ session' = [k \in Token |-> IF k \in Dropped(h) THEN None ELSE session[k]]
  /\ Ends(h)
  /\ UNCHANGED <<now, users, key, served, history>>

(* The logout route deletes the row of the cookie it is shown, which need *)
(* not be live: no other request looks at it first.                        *)
SignOutAsked(h) ==
  /\ req[h].at = "idle" /\ served < MaxRequests
  /\ \E k \in issued : Asks(h, [Idle EXCEPT !.at = "signOut", !.token = k])
  /\ served' = served + 1
  /\ UNCHANGED <<now, tables, history>>

SignOut(h) ==
  /\ req[h].at = "signOut"
  /\ session' = [session EXCEPT ![req[h].token] = None]
  /\ Ends(h)
  /\ UNCHANGED <<now, users, key, served, history>>

(* Member.Update, as far as it writes app_users.role. *)
SetRoleRead(h) ==
  /\ req[h].at = "serve" /\ req[h].role = "admin"
  /\ \E u \in User, r \in Role :
       Asks(h, [Idle EXCEPT !.at = "role", !.whom = u, !.to = r])
  /\ UNCHANGED <<now, tables, served, history>>

SetRole(h) ==
  /\ req[h].at = "role"
  /\ role' = [role EXCEPT ![req[h].whom] = req[h].to]
  /\ Ends(h)
  /\ UNCHANGED <<now, digest, session, key, served, history>>

(***************************************************************************)
(* API keys.                                                               *)
(***************************************************************************)

(* Create: for oneself, or by an admin for anyone. *)
MayIssueFor(h, u) ==
  /\ \/ u = req[h].user
     \/ req[h].role = "admin"
  /\ role[u] = "admin" => req[h].role = "admin"

CreateKeyRead(h) ==
  /\ req[h].at = "serve"
  /\ \E u \in User :
       /\ MayIssueFor(h, u)
       /\ Asks(h, [Idle EXCEPT !.at = "insert", !.whom = u])
  /\ UNCHANGED <<now, tables, served, history>>

CreateKey(h) ==
  /\ req[h].at = "insert"
  /\ \E a \in Key, ro \in BOOLEAN, e \in {now + 1, None} :
       /\ key[a] = None
       /\ key' = [key EXCEPT ![a] = [owner |-> req[h].whom, readOnly |-> ro, expires |-> e,
                                     lastUsed |-> None, revokedBy |-> None]]
  /\ Ends(h)
  /\ UNCHANGED <<now, users, session, served, history>>

NoKeyLeft(h) ==
  /\ req[h].at = "insert" /\ \A a \in Key : key[a] # None
  /\ Ends(h)
  /\ UNCHANGED <<now, tables, served, history>>

(* Revoke looks for the key among those its caller may list, and refuses   *)
(* one that is revoked already.                                            *)
RevokeRead(h) ==
  /\ req[h].at = "serve"
  /\ \E a \in Key :
       /\ key[a] # None /\ key[a].revokedBy = None
       /\ \/ req[h].role = "admin"
          \/ key[a].owner = req[h].user
       /\ Asks(h, [Idle EXCEPT !.at = "revoke", !.user = req[h].user, !.key = a])
  /\ UNCHANGED <<now, tables, served, history>>

(* ... where id = $2 and revoked_at is null *)

StillValid(h) == key[req[h].key].revokedBy = None

Revoke(h) ==
  /\ req[h].at = "revoke"
  /\ LET a == req[h].key IN
     IF StillValid(h)
     THEN /\ key' = [key EXCEPT ![a].revokedBy = req[h].user]
          /\ confirmed' = [confirmed EXCEPT ![a] = @ + 1]
     ELSE UNCHANGED <<key, confirmed>>
  /\ Ends(h)
  /\ UNCHANGED <<now, users, session, served, issued, excused, usedAt>>

(***************************************************************************)
(* Specification                                                           *)
(***************************************************************************)

(* A request that only reads changes nothing. *)
ReadOnly(h) ==
  /\ req[h].at = "serve"
  /\ Ends(h)
  /\ UNCHANGED <<now, tables, served, history>>

Step(h) ==
  \/ OpenSession(h) \/ NoTokenLeft(h) \/ Touch(h) \/ TouchFails(h)
  \/ ReadOnly(h) \/ ChangeRead(h) \/ ResetRead(h) \/ UpdatePassword(h) \/ DropSessions(h)
  \/ SignOut(h) \/ SetRoleRead(h) \/ SetRole(h)
  \/ CreateKeyRead(h) \/ CreateKey(h) \/ NoKeyLeft(h) \/ RevokeRead(h) \/ Revoke(h)

(* A request may stop anywhere: there is no transaction to roll back. *)
Fail(h) ==
  /\ MayFail /\ req[h].at # "idle"
  /\ excused' = IF req[h].at = "drop" THEN excused \cup SessionsOf(req[h].whom) ELSE excused
  /\ Ends(h)
  /\ UNCHANGED <<now, tables, served, issued, confirmed, usedAt>>

(* DeleteExpired, once an hour; an error is logged and the loop goes on. *)
Sweep ==
  /\ \E k \in Token : Expired(k)
  /\ session' = [k \in Token |-> IF Expired(k) THEN None ELSE session[k]]
  /\ UNCHANGED <<now, users, key, req, served, history>>

Tick ==
  /\ now < MaxTime /\ now' = now + 1
  /\ UNCHANGED <<tables, req, served, history>>

(* Nobody sends a request and none is being served. *)
Quiet == (\A h \in Handler : req[h].at = "idle") /\ UNCHANGED vars

Next ==
  \/ Quiet \/ Tick \/ Sweep
  \/ \E h \in Handler :
       \/ SignInRead(h) \/ AuthenticateCookie(h) \/ AuthenticateKey(h) \/ SignOutAsked(h)
       \/ Step(h) \/ Fail(h)

Spec == Init /\ [][Next]_vars

(* The ticker never stops, and a sweep that failed is tried again. *)
FairSpec == Spec /\ WF_vars(Sweep)

(***************************************************************************)
(* Properties                                                              *)
(***************************************************************************)

(* A session opened with a password that has been replaced.                *)
Outdated(k) == session[k] # None /\ session[k].basis # digest[session[k].user]

(* "Other sessions are dropped so a compromised one dies with the change": *)
(* a session whose password was replaced is still there only while the     *)
(* change that drops it is under way, or because the session was inserted  *)
(* after the change, kept by an administrative reset, or spared by a       *)
(* change that stopped half way (usecase/auth.go, ChangePassword).         *)
OldSessionsExplained ==
  \A k \in Token :
    Outdated(k) =>
      k \in excused \/ \E h \in Handler : req[h].at = "drop" /\ req[h].whom = session[k].user

(* Of the requests that revoke one key at the same time exactly one is     *)
(* told so, and the key keeps the name of that one                         *)
(* (repository/postgres/apikey.go, Revoke).                                *)
RevokedOnce ==
  \A a \in Key : confirmed[a] = IF key[a] # None /\ key[a].revokedBy # None THEN 1 ELSE 0

(* last_used_at is written at most once a minute and still answers "is     *)
(* this key still in use": it never lags the last recorded use by more     *)
(* than a minute, and never runs ahead of it                               *)
(* (repository/postgres/apikey.go, TouchLastUsed).                         *)
LastUsedIsRecent ==
  \A a \in Key :
    usedAt[a] # None =>
      key[a].lastUsed # None /\ key[a].lastUsed \in 0..usedAt[a] /\ usedAt[a] <= key[a].lastUsed + TouchEvery

(* "Expired sessions are dead weight: nothing can use them": what the      *)
(* sweep and the other deletions take away is a session that no request    *)
(* can be authenticated with, one that is being signed out, or one whose   *)
(* owner is changing the password (cmd/api/main.go, the session sweep).    *)
LiveSessionsStay ==
  [][\A k \in Token :
       Live(k) /\ session'[k] = None =>
         \E h \in Handler :
           \/ req[h].at = "signOut" /\ req[h].token = k
           \/ req[h].at = "drop" /\ req[h].whom = session[k].user]_vars

(* The sweep leaves nothing behind: time and again there is no session     *)
(* that can no longer be used (repository/postgres/auth.go, DeleteExpired, *)
(* whose bound is the one sign-in checks from the other side).             *)
ExpiredSwept == []<>(\A k \in Token : session[k] # None => Live(k))
=============================================================================
