------------------------------ MODULE Accounts ------------------------------
(***************************************************************************)
(* User accounts, portal sessions and the handlers that change them        *)
(* (internal/auth/users.go, internal/portal, internal/cli/user.go).        *)
(*                                                                         *)
(* Every SQL statement and every transaction is one step; an HTTP handler  *)
(* is several, and any number of handlers and CLI processes are under way  *)
(* at once.  What a handler read in one step may be out of date when it    *)
(* acts in a later one.                                                    *)
(*                                                                         *)
(* A login that is refused changes nothing but the throttle, so of the     *)
(* wrong passwords only unknown names are modelled.  Emails are left out,  *)
(* and a password is the number of times it was set.  An expired session   *)
(* is one whose row is gone: Lookup refuses both alike.  A statement that  *)
(* changes the database may fail for reasons of its own (a busy database), *)
(* which leaves the tables as they were and ends the handler.              *)
(***************************************************************************)
EXTENDS Naturals, FiniteSets

CONSTANTS
  Names,         \* usernames
  Sids,          \* session tokens (random, never drawn twice)
  Procs,         \* HTTP handlers
  Absent,        \* no row
  MaxUsers,      \* bound: user ids handed out
  MaxEpoch,      \* bound: resets and demotions of one user
  UseCli         \* whether CLI commands run beside the server

UserIds == 1..MaxUsers
UserRow == [name: Names, admin: BOOLEAN]
\* Beside the user: the name typed at login, the account whose password was
\* verified (or just set), that password's generation, and the user's epoch when
\* the row was written.
SessionRow == [user: UserIds, name: Names, who: UserIds, gen: Nat, born: Nat]

\* Rows are told from "no row", names from "no name".
ASSUME AccountsAssumption ==
  /\ MaxUsers \in Nat \ {0} /\ MaxEpoch \in Nat
  /\ UseCli \in BOOLEAN
  /\ Absent \notin UserRow /\ Absent \notin SessionRow /\ Absent \notin Names

VARIABLES
  users,      \* the users table: id -> row or Absent
  nextId,     \* AUTOINCREMENT: the next id to hand out
  pwGen,      \* history: how often each user's password was set
  epoch,      \* history: how often each user was signed out everywhere
  sessions,   \* portal_sessions: token -> row or Absent
  usedSids,   \* session tokens already drawn
  proc        \* what each handler is doing and the values it has read

vars == <<users, nextId, pwGen, epoch, sessions, usedSids, proc>>

\* user: the account acted for; target: the account acted on; who and gen: the
\* account and the generation of the password verified or set; name: the name
\* typed; flag: the is_admin form field.
ProcState == [at: {"idle", "hashed", "verified", "seen", "admin", "emailing",
                   "emailed", "delete", "reissue"},
              user: UserIds \cup {0}, target: UserIds \cup {0},
              who: UserIds \cup {0}, gen: Nat, name: Names \cup {Absent},
              flag: BOOLEAN]

Idle == [at |-> "idle", user |-> 0, target |-> 0, who |-> 0, gen |-> 0,
         name |-> Absent, flag |-> FALSE]

TypeOK ==
  /\ users \in [UserIds -> UserRow \cup {Absent}]
  /\ nextId \in Nat \ {0}
  /\ pwGen \in [UserIds -> Nat]
  /\ epoch \in [UserIds -> Nat]
  /\ sessions \in [Sids -> SessionRow \cup {Absent}]
  /\ usedSids \subseteq Sids
  /\ proc \in [Procs -> ProcState]

Present(id) == users[id] # Absent
Admins == {id \in UserIds : Present(id) /\ users[id].admin}

\* `nass init` creates the first account, an admin.
Init ==
  /\ \E n \in Names :
       users = [id \in UserIds |-> IF id = 1 THEN [name |-> n, admin |-> TRUE]
                                             ELSE Absent]
  /\ nextId = 2
  /\ pwGen = [id \in UserIds |-> 0]
  /\ epoch = [id \in UserIds |-> 0]
  /\ sessions = [s \in Sids |-> Absent]
  /\ usedSids = {}
  /\ proc = [p \in Procs |-> Idle]

-----------------------------------------------------------------------------
(* The user store (internal/auth/users.go): one statement or transaction.  *)

SessionsWithout(id) ==
  [s \in Sids |-> IF sessions[s] # Absent /\ sessions[s].user = id
                    THEN Absent ELSE sessions[s]]

\* A plausible bug: ids are reused (INTEGER PRIMARY KEY without AUTOINCREMENT).
CreateReusingIds(n, adm) ==
  \E id \in UserIds :
    /\ ~ Present(id)
    /\ \A k \in UserIds : Present(k) => users[k].name # n
    /\ users' = [users EXCEPT ![id] = [name |-> n, admin |-> adm]]
    /\ UNCHANGED <<nextId, pwGen, epoch, sessions, usedSids>>

\* A plausible bug: an account without a username is accepted.
CreateUnnamed(n, adm) ==
  /\ nextId \in UserIds
  /\ users' = [users EXCEPT ![nextId] = [name |-> Absent, admin |-> adm]]
  /\ nextId' = nextId + 1
  /\ UNCHANGED <<pwGen, epoch, sessions, usedSids>>

\* Create: the username is given and UNIQUE, the id is fresh.
Create(n, adm) ==
  /\ nextId \in UserIds
  /\ \A k \in UserIds : Present(k) => users[k].name # n
  /\ users' = [users EXCEPT ![nextId] = [name |-> n, admin |-> adm]]
  /\ nextId' = nextId + 1
  /\ UNCHANGED <<pwGen, epoch, sessions, usedSids>>

\* A plausible bug: the portal's table is left out of revokeSessions.
RevokeNothing(id) == UNCHANGED sessions

\* revokeSessions, inside the transaction of SetPassword or SetAdmin.
revokeSessions(id) == sessions' = SessionsWithout(id)

SetPassword(id) ==
  /\ Present(id)
  /\ epoch[id] < MaxEpoch
  /\ pwGen' = [pwGen EXCEPT ![id] = @ + 1]
  /\ epoch' = [epoch EXCEPT ![id] = @ + 1]
  /\ revokeSessions(id)
  /\ UNCHANGED <<users, nextId, usedSids>>

\* Only a demotion signs the user out.
SetAdmin(id, adm) ==
  /\ Present(id)
  /\ users' = [users EXCEPT ![id].admin = adm]
  /\ IF users[id].admin /\ ~adm
       THEN /\ epoch[id] < MaxEpoch
            /\ epoch' = [epoch EXCEPT ![id] = @ + 1]
            /\ revokeSessions(id)
       ELSE UNCHANGED <<epoch, sessions>>
  /\ UNCHANGED <<nextId, pwGen, usedSids>>

\* A plausible bug: the connection was opened without foreign_keys(1).
DeleteNoCascade(id) ==
  /\ Present(id)
  /\ users' = [users EXCEPT ![id] = Absent]
  /\ UNCHANGED <<nextId, pwGen, epoch, sessions, usedSids>>

\* DELETE FROM users; the foreign keys cascade.
Delete(id) ==
  /\ Present(id)
  /\ users' = [users EXCEPT ![id] = Absent]
  /\ sessions' = SessionsWithout(id)
  /\ UNCHANGED <<nextId, pwGen, epoch, usedSids>>

dbVars == <<users, nextId, pwGen, epoch, sessions, usedSids>>

-----------------------------------------------------------------------------
(* Handlers.                                                               *)

Goto(p, st) == proc' = [proc EXCEPT ![p] = st]
Return(p) == Goto(p, Idle)

\* SessionStore.Issue: the foreign key refuses the row when the user is gone.
Issue(p) ==
  LET me == proc[p] IN
  /\ \/ /\ Present(me.user)
        /\ \E s \in Sids \ usedSids :
             /\ usedSids' = usedSids \cup {s}
             /\ sessions' = [sessions EXCEPT
                  ![s] = [user |-> me.user, name |-> me.name, who |-> me.who,
                          gen |-> me.gen, born |-> epoch[me.user]]]
     \/ UNCHANGED <<usedSids, sessions>>
  /\ Return(p)
  /\ UNCHANGED <<users, nextId, pwGen, epoch>>

(* postLogin: Verify reads the hash, spends its time in bcrypt, reads the   *)
(* user by name again; then the session is issued.                         *)

VerifyHash(p, n) ==
  /\ proc[p].at = "idle"
  /\ \E id \in UserIds :
       /\ Present(id) /\ users[id].name = n
       /\ Goto(p, [Idle EXCEPT !.at = "hashed", !.name = n, !.who = id,
                               !.gen = pwGen[id]])
  /\ UNCHANGED dbVars

VerifyUnknown(p, n) ==
  /\ proc[p].at = "idle"
  /\ \A id \in UserIds : Present(id) => users[id].name # n
  /\ UNCHANGED vars

VerifyUser(p) ==
  /\ proc[p].at = "hashed"
  /\ \/ \E id \in UserIds :
          /\ Present(id) /\ users[id].name = proc[p].name
          /\ Goto(p, [proc[p] EXCEPT !.at = "verified", !.user = id])
     \/ /\ \A id \in UserIds : Present(id) => users[id].name # proc[p].name
        /\ Return(p)
  /\ UNCHANGED dbVars

LoginIssue(p) == proc[p].at = "verified" /\ Issue(p)

(* requireAdmin: Lookup reads the session row, then the user; the handler   *)
(* goes on with what it read then.                                         *)

LookupSession(p, s) ==
  /\ proc[p].at = "idle"
  /\ sessions[s] # Absent
  /\ Goto(p, [Idle EXCEPT !.at = "seen", !.user = sessions[s].user,
                          !.name = sessions[s].name])
  /\ UNCHANGED dbVars

requireAdmin(p) ==
  /\ proc[p].at = "seen"
  /\ IF proc[p].user \in Admins THEN Goto(p, [proc[p] EXCEPT !.at = "admin"])
                                ELSE Return(p)
  /\ UNCHANGED dbVars

Authorized(p) == proc[p].at = "admin"

\* canRemoveAdmin: one SELECT over the table.
canRemoveAdmin(id) == id \notin Admins \/ Cardinality(Admins) > 1

\* postUpdateUser up to and including the check: refusing to demote oneself
\* or the last admin.
UpdateCheck(p, id, adm) ==
  /\ Authorized(p)
  /\ IF \/ id = proc[p].user /\ ~adm
        \/ ~adm /\ ~canRemoveAdmin(id)
       THEN Return(p)
       ELSE Goto(p, [proc[p] EXCEPT !.at = "emailing", !.target = id, !.flag = adm])
  /\ UNCHANGED dbVars

\* SetEmail fails when the user is gone; emails are not modelled.
UpdateEmail(p) ==
  /\ proc[p].at = "emailing"
  /\ IF Present(proc[p].target) THEN Goto(p, [proc[p] EXCEPT !.at = "emailed"])
                                ELSE Return(p)
  /\ UNCHANGED dbVars

UpdateRole(p) ==
  /\ proc[p].at = "emailed"
  /\ SetAdmin(proc[p].target, proc[p].flag) \/ UNCHANGED dbVars
  /\ Return(p)

\* postSetUserPassword; one's own reset is followed by a fresh session.
PasswordSet(p, id) ==
  /\ Authorized(p)
  /\ \/ /\ SetPassword(id)
        /\ IF id = proc[p].user
             THEN Goto(p, [proc[p] EXCEPT !.at = "reissue", !.who = id,
                                          !.gen = pwGen[id] + 1])
             ELSE Return(p)
     \/ UNCHANGED dbVars /\ Return(p)

PasswordReissue(p) == proc[p].at = "reissue" /\ Issue(p)

\* postDeleteUser: check, then delete.
DeleteCheck(p, id) ==
  /\ Authorized(p)
  /\ IF id = proc[p].user \/ ~canRemoveAdmin(id)
       THEN Return(p)
       ELSE Goto(p, [proc[p] EXCEPT !.at = "delete", !.target = id])
  /\ UNCHANGED dbVars

DeleteUser(p) ==
  /\ proc[p].at = "delete"
  /\ Delete(proc[p].target) \/ UNCHANGED dbVars
  /\ Return(p)

\* postCreateUser.
CreateUser(p, n, adm) ==
  /\ Authorized(p)
  /\ Create(n, adm) \/ UNCHANGED dbVars
  /\ Return(p)

\* postLogout, an expired session met by Lookup, or the hourly purge.
DropSession(s) ==
  /\ sessions[s] # Absent
  /\ sessions' = [sessions EXCEPT ![s] = Absent]
  /\ UNCHANGED <<users, nextId, pwGen, epoch, usedSids, proc>>

(* The CLI works on the same database, without sessions or checks.  It     *)
(* looks a user up by name and acts on the id; names do not change and ids *)
(* are not reused, so this is one step.                                    *)

Cli(id) ==
  /\ UseCli
  /\ \/ SetPassword(id)
     \/ Delete(id)
  /\ UNCHANGED proc

CliAdd(n, adm) == UseCli /\ Create(n, adm) /\ UNCHANGED proc

-----------------------------------------------------------------------------
LoginStep(p) ==
  \/ \E n \in Names : VerifyHash(p, n) \/ VerifyUnknown(p, n)
  \/ VerifyUser(p)
  \/ LoginIssue(p)

AdminStep(p) ==
  \/ \E s \in Sids : LookupSession(p, s)
  \/ requireAdmin(p)
  \/ \E id \in UserIds :
       \/ \E adm \in BOOLEAN : UpdateCheck(p, id, adm)
       \/ PasswordSet(p, id)
       \/ DeleteCheck(p, id)
  \/ UpdateEmail(p)
  \/ UpdateRole(p)
  \/ PasswordReissue(p)
  \/ DeleteUser(p)
  \/ \E n \in Names, adm \in BOOLEAN : CreateUser(p, n, adm)

Next ==
  \/ \E p \in Procs : LoginStep(p) \/ AdminStep(p)
  \/ \E s \in Sids : DropSession(s)
  \/ \E id \in UserIds : Cli(id)
  \/ \E n \in Names, adm \in BOOLEAN : CliAdd(n, adm)

Spec == Init /\ [][Next]_vars

-----------------------------------------------------------------------------
(* Properties.                                                             *)

Live(s) == sessions[s] # Absent

\* No session outlives its account, and none that existed when its user's
\* password was reset or admin role removed is left: every remaining one was
\* inserted afterwards (users.go:168-171, design.md:97-98).
RevocationComplete ==
  \A s \in Sids :
    Live(s) => Present(sessions[s].user) /\ sessions[s].born = epoch[sessions[s].user]

\* The account has taken the name over from one that was deleted.
Heir(id, of) == ~ Present(of) /\ of < id

\* A session is for the account whose password was checked (or, after one's own
\* reset, set), however many accounts are deleted and created while the login is
\* under way; only when that account was deleted between the two reads of Verify
\* is it for a later account to which the name was given, since the second read
\* goes by the name that was typed (users.go:70-90, 0001_init.sql:2).
SessionOfVerified ==
  \A s \in Sids : Live(s) =>
    /\ users[sessions[s].user].name = sessions[s].name
    /\ sessions[s].user = sessions[s].who \/ Heir(sessions[s].user, sessions[s].who)

\* What users.go:137-138 promises: after a reset no session rests on the old
\* password.
ResetLocksOut ==
  \A s \in Sids : Live(s) => sessions[s].gen = pwGen[sessions[s].user]

\* What the refusals at admin.go:188-199 and 257-266 are for: the portal never
\* leaves the system without an admin.
AdminRemains == Admins # {}

-----------------------------------------------------------------------------
(* Sessions as credentials.                                                *)

SessionCred ==
  [s \in Sids |->
     IF Live(s)
       THEN [state |-> "live", user |-> sessions[s].user, scope |-> "portal",
             since |-> sessions[s].born]
       ELSE [state |-> IF s \in usedSids THEN "over" ELSE "unborn"]]

Sessions == INSTANCE Credentials WITH
  Ids <- Sids, Users <- UserIds, Scopes <- {"portal"},
  members <- {id \in UserIds : Present(id)}, round <- epoch, cred <- SessionCred

\* A portal session is a credential: a login or one's own reset gives it out to
\* the user of an account that is still there, a cookie once dropped is worth
\* nothing again, and a reset, a demotion or a deletion ends all of a user's
\* sessions at one moment, whatever logins are under way
\* (session.go:46-131, users.go:164-179).
SessionsAreCredentials == Sessions!Spec
=============================================================================
