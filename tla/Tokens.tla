------------------------------- MODULE Tokens -------------------------------
(***************************************************************************)
(* The OIDC grants: sign-in requests, authorization codes, access and      *)
(* refresh tokens (internal/auth/oidc), and the account and client changes *)
(* that revoke them.                                                       *)
(*                                                                         *)
(* The OP library drives the storage: a token-endpoint call authenticates  *)
(* the client and reads the code or refresh token it was given, inserts an *)
(* access token, inserts or rotates a refresh token, and for a code        *)
(* deletes the sign-in request.  Each SQL statement or transaction is a    *)
(* step, and calls, sign-ins, resets and revocations interleave freely.  A *)
(* call may stop after any step (an error, a closed connection, a crash).  *)
(*                                                                         *)
(* A call names the tokens it makes: access[c] and refresh[c] are the rows *)
(* with the ids drawn by call c.  A row past its expiry is a row that is   *)
(* gone, because every read refuses both alike; only an expired code is    *)
(* told apart, since its row still keeps a second one out.                 *)
(***************************************************************************)
EXTENDS FiniteSets, Naturals

CONSTANTS
  Users,       \* user ids, never reused
  Clients,     \* client ids, never reused
  Requests,    \* ids of sign-in requests (random)
  Calls,       \* token-endpoint calls
  None,        \* no row, no user
  MaxEpoch,    \* bound: resets and demotions of one user
  MaxMarks     \* bound: sign-ins under way

\* auth: the epoch of the user when he signed in; None: not signed in yet.
ReqRow == [client: Clients, offline: BOOLEAN, user: Users \cup {None}, auth: Nat]
\* born: the user's epoch when the row was inserted; linked: the row carries
\* the refresh token's id.
AccessRow == [client: Clients, user: Users, born: Nat, linked: BOOLEAN]
\* chain: the user's epoch when the first token of the chain was inserted.
RefreshRow == [client: Clients, user: Users, auth: Nat, born: Nat, chain: Nat]
Mark == [req: Requests, user: Users, auth: Nat]

\* A call and what it has read; src is the code's request or the refresh token.
NewCall == [at |-> "new"]
Begun == {"read", "access", "stored", "done", "failed"}
CodeCall == [at: Begun, kind: {"code"}, src: Requests, client: Clients,
             user: Users, offline: BOOLEAN, auth: Nat]
RefreshCall == [at: Begun, kind: {"refresh"}, src: Calls, client: Clients,
                user: Users, offline: {TRUE}, auth: Nat]

\* The value for nothing is told from rows and ids.
ASSUME TokensAssumption ==
  /\ None \notin Users \cup Clients \cup Requests \cup Calls
  /\ None \notin ReqRow /\ None \notin AccessRow /\ None \notin RefreshRow
  /\ MaxEpoch \in Nat /\ MaxMarks \in Nat

VARIABLES
  present,    \* users that have an account
  epoch,      \* history: how often each user was signed out everywhere
  client,     \* oidc_clients: "new", "live" or "gone"
  used,       \* request ids drawn so far
  req,        \* oidc_auth_requests
  code,       \* oidc_auth_codes by request: "none", "valid" or "expired"
  marks,      \* sign-ins that know their user and are about to record it
  call,       \* token-endpoint calls and what each has read
  access,     \* oidc_access_tokens
  refresh,    \* oidc_refresh_tokens
  rotations,  \* history: <<old, new>> for every rotation
  revoking,   \* RevokeToken calls between their two statements
  revoked,    \* history: refresh tokens whose RevokeToken has reported success
  severed,    \* history: refresh tokens whose row went and left their access token
  ending      \* TerminateSession calls between their two statements

accountVars == <<present, epoch, client>>
signInVars == <<used, req, code, marks>>
tokenVars == <<access, refresh, rotations>>
revokeVars == <<revoking, revoked, severed, ending>>
vars == <<accountVars, signInVars, call, tokenVars, revokeVars>>

TypeOK ==
  /\ present \subseteq Users
  /\ epoch \in [Users -> Nat]
  /\ client \in [Clients -> {"new", "live", "gone"}]
  /\ used \subseteq Requests
  /\ req \in [Requests -> ReqRow \cup {None}]
  /\ code \in [Requests -> {"none", "valid", "expired"}]
  /\ marks \subseteq Mark
  /\ call \in [Calls -> {NewCall} \cup CodeCall \cup RefreshCall]
  /\ access \in [Calls -> AccessRow \cup {None}]
  /\ refresh \in [Calls -> RefreshRow \cup {None}]
  /\ rotations \subseteq Calls \X Calls
  /\ revoking \subseteq Calls /\ revoked \subseteq Calls /\ severed \subseteq Calls
  /\ ending \subseteq Users \X Clients

Init ==
  /\ present = Users
  /\ epoch = [u \in Users |-> 0]
  /\ client = [k \in Clients |-> "new"]
  /\ used = {}
  /\ req = [r \in Requests |-> None]
  /\ code = [r \in Requests |-> "none"]
  /\ marks = {}
  /\ call = [c \in Calls |-> NewCall]
  /\ access = [c \in Calls |-> None]
  /\ refresh = [c \in Calls |-> None]
  /\ rotations = {}
  /\ revoking = {} /\ revoked = {} /\ severed = {} /\ ending = {}

\* The rows of a table that do not match a condition.
Without(table, Gone(_)) ==
  [c \in Calls |-> IF table[c] # None /\ Gone(table[c]) THEN None ELSE table[c]]

-----------------------------------------------------------------------------
(* Accounts and clients.                                                   *)

\* A plausible bug: "oidc_refresh_tokens" is missing from the list of tables.
RevokeAccessOnly(u) ==
  /\ access' = Without(access, LAMBDA row : row.user = u)
  /\ UNCHANGED refresh

\* revokeSessions as far as it concerns OIDC, in the transaction of
\* SetPassword or of a SetAdmin that demotes.
revokeSessions(u) ==
  /\ access' = Without(access, LAMBDA row : row.user = u)
  /\ refresh' = Without(refresh, LAMBDA row : row.user = u)

ResetUser(u) ==
  /\ u \in present
  /\ epoch[u] < MaxEpoch
  /\ epoch' = [epoch EXCEPT ![u] = @ + 1]
  /\ revokeSessions(u)
  /\ UNCHANGED <<present, client, signInVars, call, rotations, revokeVars>>

\* DELETE FROM users; the tokens' foreign keys cascade, sign-in requests have
\* none and stay.
DeleteUser(u) ==
  /\ u \in present
  /\ present' = present \ {u}
  /\ access' = Without(access, LAMBDA row : row.user = u)
  /\ refresh' = Without(refresh, LAMBDA row : row.user = u)
  /\ UNCHANGED <<epoch, client, signInVars, call, rotations, revokeVars>>

\* Provision, seen from the clients table.
Provision(k) ==
  /\ client[k] = "new"
  /\ client' = [client EXCEPT ![k] = "live"]
  /\ UNCHANGED <<present, epoch, signInVars, call, tokenVars, revokeVars>>

\* A plausible bug: the list of a client's tables lacks "oidc_refresh_tokens".
deleteClientAndAccess(k) ==
  /\ client[k] = "live"
  /\ client' = [client EXCEPT ![k] = "gone"]
  /\ access' = Without(access, LAMBDA row : row.client = k)
  /\ UNCHANGED <<present, epoch, signInVars, call, refresh, rotations, revokeVars>>

\* deleteClient: one transaction.
deleteClient(k) ==
  /\ client[k] = "live"
  /\ client' = [client EXCEPT ![k] = "gone"]
  /\ access' = Without(access, LAMBDA row : row.client = k)
  /\ refresh' = Without(refresh, LAMBDA row : row.client = k)
  /\ UNCHANGED <<present, epoch, signInVars, call, rotations, revokeVars>>

-----------------------------------------------------------------------------
(* Signing in.                                                             *)

CreateAuthRequest(r, k, off) ==
  /\ client[k] = "live"
  /\ r \notin used
  /\ used' = used \cup {r}
  /\ req' = [req EXCEPT ![r] = [client |-> k, offline |-> off, user |-> None,
                                auth |-> 0]]
  /\ UNCHANGED <<accountVars, code, marks, call, tokenVars, revokeVars>>

\* The login page knows who is there: from the portal's session, or from a
\* password that Verify accepted.
Identify(r, u) ==
  /\ r \in used /\ u \in present
  /\ Cardinality(marks) < MaxMarks
  /\ marks' = marks \cup {[req |-> r, user |-> u, auth |-> epoch[u]]}
  /\ UNCHANGED <<accountVars, used, req, code, call, tokenVars, revokeVars>>

\* markAuthRequestComplete: an UPDATE, whoever completed the request before.
markAuthRequestComplete(m) ==
  /\ m \in marks
  /\ marks' = marks \ {m}
  /\ req' = IF req[m.req] = None THEN req
            ELSE [req EXCEPT ![m.req].user = m.user, ![m.req].auth = m.auth]
  /\ UNCHANGED <<accountVars, used, code, call, tokenVars, revokeVars>>

\* A plausible bug: a code is issued before the request is completed.
SaveAuthCodeEarly(r) ==
  /\ req[r] # None
  /\ code[r] = "none"
  /\ code' = [code EXCEPT ![r] = "valid"]
  /\ UNCHANGED <<accountVars, used, req, marks, call, tokenVars, revokeVars>>

\* The callback of a completed request; UNIQUE(request_id) refuses a second
\* code.
SaveAuthCode(r) ==
  /\ req[r] # None
  /\ req[r].user # None
  /\ code[r] = "none"
  /\ code' = [code EXCEPT ![r] = "valid"]
  /\ UNCHANGED <<accountVars, used, req, marks, call, tokenVars, revokeVars>>

ExpireCode(r) ==
  /\ code[r] = "valid"
  /\ code' = [code EXCEPT ![r] = "expired"]
  /\ UNCHANGED <<accountVars, used, req, marks, call, tokenVars, revokeVars>>

\* A request expires, or is purged with its code.
ExpireRequest(r) ==
  /\ req[r] # None
  /\ req' = [req EXCEPT ![r] = None]
  /\ code' = [code EXCEPT ![r] = "none"]
  /\ UNCHANGED <<accountVars, used, marks, call, tokenVars, revokeVars>>

-----------------------------------------------------------------------------
(* The token endpoint.  The secret is checked before the code or token is  *)
(* read; a client deleted in between is one deleted right after.           *)

Set(c, st) == call' = [call EXCEPT ![c] = st]

\* VerifyClientSecret and AuthRequestByCode; the OP compares the clients.
CodeBegin(c, r) ==
  /\ call[c].at = "new"
  /\ code[r] = "valid"
  /\ client[req[r].client] = "live"
  /\ Set(c, [at |-> "read", kind |-> "code", src |-> r, client |-> req[r].client,
             user |-> req[r].user, offline |-> req[r].offline, auth |-> req[r].auth])
  /\ UNCHANGED <<accountVars, signInVars, tokenVars, revokeVars>>

\* The client holds the refresh token that call t made.
HandedOut(t) == call[t].at = "done" /\ call[t].offline

\* VerifyClientSecret and loadRefreshToken.
RefreshBegin(c, t) ==
  /\ call[c].at = "new"
  /\ HandedOut(t) /\ refresh[t] # None
  /\ client[refresh[t].client] = "live"
  /\ Set(c, [at |-> "read", kind |-> "refresh", src |-> t,
             client |-> refresh[t].client, user |-> refresh[t].user,
             offline |-> TRUE, auth |-> refresh[t].auth])
  /\ UNCHANGED <<accountVars, signInVars, tokenVars, revokeVars>>

\* insertAccessToken; without offline_access there is no refresh token.
insertAccessToken(c) ==
  /\ call[c].at = "read"
  /\ call[c].user \in present
  /\ access' = [access EXCEPT ![c] =
                  [client |-> call[c].client, user |-> call[c].user,
                   born |-> epoch[call[c].user], linked |-> call[c].offline]]
  /\ Set(c, [call[c] EXCEPT !.at = IF call[c].offline THEN "access" ELSE "stored"])
  /\ UNCHANGED <<accountVars, signInVars, refresh, rotations, revokeVars>>

\* insertRefreshToken, for a code.
insertRefreshToken(c) ==
  /\ call[c].at = "access" /\ call[c].kind = "code"
  /\ call[c].user \in present
  /\ refresh' = [refresh EXCEPT ![c] =
                   [client |-> call[c].client, user |-> call[c].user,
                    auth |-> call[c].auth, born |-> epoch[call[c].user],
                    chain |-> epoch[call[c].user]]]
  /\ Set(c, [call[c] EXCEPT !.at = "stored"])
  /\ UNCHANGED <<accountVars, signInVars, access, rotations, revokeVars>>

\* What a rotation does to the tables.
RotateTo(c, row) ==
  LET t == call[c].src IN
  /\ refresh' = [refresh EXCEPT ![t] = None, ![c] = row]
  /\ access' = IF access[t] # None /\ access[t].linked
                 THEN [access EXCEPT ![t] = None]
                 ELSE access
  /\ rotations' = rotations \cup {<<t, c>>}
  /\ Set(c, [call[c] EXCEPT !.at = "stored"])
  /\ UNCHANGED <<accountVars, signInVars, revokeVars>>

\* A plausible bug: the transaction trusts what loadRefreshToken read.
rotateUnchecked(c) ==
  /\ call[c].at = "access" /\ call[c].kind = "refresh"
  /\ call[c].user \in present
  /\ RotateTo(c, [client |-> call[c].client, user |-> call[c].user,
                  auth |-> call[c].auth, born |-> epoch[call[c].user],
                  chain |-> call[c].auth])

\* A plausible bug: the old access token is left in place.
rotateKeepingAccess(c) ==
  LET t == call[c].src IN
  /\ call[c].at = "access" /\ call[c].kind = "refresh"
  /\ refresh[t] # None
  /\ refresh' = [refresh EXCEPT ![t] = None,
                                ![c] = [refresh[t] EXCEPT !.born = epoch[refresh[t].user]]]
  /\ rotations' = rotations \cup {<<t, c>>}
  /\ Set(c, [call[c] EXCEPT !.at = "stored"])
  /\ UNCHANGED <<accountVars, signInVars, access, revokeVars>>

\* rotateRefreshToken: one transaction that reads the old row again; when it
\* is gone the call fails and its access token stays, undelivered.
rotateRefreshToken(c) ==
  LET t == call[c].src IN
  /\ call[c].at = "access" /\ call[c].kind = "refresh"
  /\ refresh[t] # None
  /\ RotateTo(c, [refresh[t] EXCEPT !.born = epoch[refresh[t].user]])

\* A plausible bug: the request is left for the purge to remove.
FinishKeepingRequest(c) ==
  /\ call[c].at = "stored"
  /\ call[c].user \in present
  /\ Set(c, [call[c] EXCEPT !.at = "done"])
  /\ UNCHANGED <<accountVars, signInVars, tokenVars, revokeVars>>

\* The id token needs the user's row; then a code's request is deleted, which
\* takes the code along, and the tokens are handed out.
Finish(c) ==
  /\ call[c].at = "stored"
  /\ call[c].user \in present
  /\ Set(c, [call[c] EXCEPT !.at = "done"])
  /\ IF call[c].kind = "code"
       THEN /\ req' = [req EXCEPT ![call[c].src] = None]
            /\ code' = [code EXCEPT ![call[c].src] = "none"]
       ELSE UNCHANGED <<req, code>>
  /\ UNCHANGED <<accountVars, used, marks, tokenVars, revokeVars>>

\* An error in any of the steps; what was inserted stays.
Fail(c) ==
  /\ call[c].at \in {"read", "access", "stored"}
  /\ Set(c, [call[c] EXCEPT !.at = "failed"])
  /\ UNCHANGED <<accountVars, signInVars, tokenVars, revokeVars>>

-----------------------------------------------------------------------------
(* Revocation and logout at the OP, and expiry of tokens.                  *)

\* RevokeToken of an access token; an expired or purged one goes the same way.
DropAccess(c) ==
  /\ access[c] # None
  /\ access' = [access EXCEPT ![c] = None]
  /\ UNCHANGED <<accountVars, signInVars, call, refresh, rotations, revokeVars>>

\* A refresh token expires or is purged; the access token issued with it lives
\* an hour, the refresh token thirty days.
ExpireRefresh(t) ==
  /\ refresh[t] # None
  /\ access[t] = None
  /\ refresh' = [refresh EXCEPT ![t] = None]
  /\ UNCHANGED <<accountVars, signInVars, call, access, rotations, revokeVars>>

\* RevokeToken of a refresh token: first its row, then the access tokens that
\* name it.
RevokeRefresh(t) ==
  /\ HandedOut(t) /\ refresh[t] # None
  /\ refresh' = [refresh EXCEPT ![t] = None]
  /\ revoking' = revoking \cup {t}
  /\ UNCHANGED <<accountVars, signInVars, call, access, rotations, revoked, severed,
                 ending>>

\* RevokeToken of a refresh token that has no row any more: "silently succeed".
RevokeUnknown(t) ==
  /\ HandedOut(t) /\ refresh[t] = None
  /\ revoked' = revoked \cup {t}
  /\ UNCHANGED <<accountVars, signInVars, call, tokenVars, revoking, severed, ending>>

\* A plausible bug: the second statement is missing.
RevokeLinkedNothing(t) ==
  /\ t \in revoking
  /\ revoking' = revoking \ {t}
  /\ revoked' = revoked \cup {t}
  /\ UNCHANGED <<accountVars, signInVars, call, tokenVars, severed, ending>>

RevokeLinked(t) ==
  /\ t \in revoking
  /\ revoking' = revoking \ {t}
  /\ revoked' = revoked \cup {t}
  /\ access' = IF access[t] # None /\ access[t].linked
                 THEN [access EXCEPT ![t] = None]
                 ELSE access
  /\ UNCHANGED <<accountVars, signInVars, call, refresh, rotations, severed, ending>>

\* The process dies between the two statements, or the second one fails.
RevokeStops(t) ==
  /\ t \in revoking
  /\ revoking' = revoking \ {t}
  /\ severed' = severed \cup (IF access[t] = None THEN {} ELSE {t})
  /\ UNCHANGED <<accountVars, signInVars, call, tokenVars, revoked, ending>>

\* TerminateSession: the access tokens, then the refresh tokens.
EndAccess(u, k) ==
  /\ access' = Without(access, LAMBDA row : row.user = u /\ row.client = k)
  /\ ending' = ending \cup {<<u, k>>}
  /\ UNCHANGED <<accountVars, signInVars, call, refresh, rotations, revoking, revoked,
                 severed>>

\* Tokens issued since EndAccess lose their refresh token only.
EndRefresh(u, k) ==
  /\ <<u, k>> \in ending
  /\ ending' = ending \ {<<u, k>>}
  /\ refresh' = Without(refresh, LAMBDA row : row.user = u /\ row.client = k)
  /\ severed' = severed \cup {t \in Calls : refresh[t] # refresh'[t] /\ access[t] # None}
  /\ UNCHANGED <<accountVars, signInVars, call, access, rotations, revoking, revoked>>

-----------------------------------------------------------------------------
AccountStep ==
  \/ \E u \in Users : ResetUser(u) \/ DeleteUser(u)
  \/ \E k \in Clients : Provision(k) \/ deleteClient(k)

SignInStep ==
  \/ \E r \in Requests :
       \/ \E k \in Clients, off \in BOOLEAN : CreateAuthRequest(r, k, off)
       \/ \E u \in Users : Identify(r, u)
       \/ SaveAuthCode(r)
       \/ ExpireCode(r)
       \/ ExpireRequest(r)
  \/ \E m \in marks : markAuthRequestComplete(m)

CallStep(c) ==
  \/ \E r \in Requests : CodeBegin(c, r)
  \/ \E t \in Calls : RefreshBegin(c, t)
  \/ insertAccessToken(c)
  \/ insertRefreshToken(c)
  \/ rotateRefreshToken(c)
  \/ Finish(c)
  \/ Fail(c)

RevokeStep ==
  \/ \E c \in Calls :
       \/ DropAccess(c)
       \/ ExpireRefresh(c)
       \/ RevokeRefresh(c)
       \/ RevokeUnknown(c)
       \/ RevokeLinked(c)
       \/ RevokeStops(c)
  \/ \E u \in Users, k \in Clients : EndAccess(u, k) \/ EndRefresh(u, k)

Next ==
  \/ AccountStep
  \/ SignInStep
  \/ \E c \in Calls : CallStep(c)
  \/ RevokeStep

Spec == Init /\ [][Next]_vars

-----------------------------------------------------------------------------
(* Properties.                                                             *)

\* A refresh token is good for one rotation, however many calls present it at
\* the same time: it has at most one successor, and neither it nor the access
\* token issued with it ever comes back (tokens.go:172-198).
OneSuccessor ==
  /\ \A x, y \in rotations : x[1] = y[1] => x = y
  /\ \A x \in rotations : refresh[x[1]] = None /\ access[x[1]] = None

\* No token of a deleted account is left, and none that existed when its user's
\* password was reset or admin role removed; nor is a token that carries on a
\* chain from before, though a rotation was under way when the reset committed
\* (users.go:168-179, tokens.go:172-180).
RevocationComplete ==
  \A c \in Calls :
    /\ access[c] # None =>
         access[c].user \in present /\ access[c].born = epoch[access[c].user]
    /\ refresh[c] # None =>
         /\ refresh[c].user \in present
         /\ refresh[c].born = epoch[refresh[c].user]
         /\ refresh[c].chain = epoch[refresh[c].user]

\* When tokens have been handed out for a code, the code and the request it
\* belonged to are gone for good, even if the user signs in to that request
\* again (storage.go:74-76, authrequest.go:148-161).
CodeGoneAfterUse ==
  \A c \in Calls :
    call[c].at = "done" /\ call[c].kind = "code"
      => req[call[c].src] = None /\ code[call[c].src] = "none"

\* A refresh token whose revocation reported success is dead, also when there was
\* no row left to revoke, and so is the access token issued with it, unless another
\* revocation of it is between its two deletes or was cut off there, or a logout
\* overtaken by the call that issued them took only the refresh token: then the
\* repeated revocation finds no row and reports success all the same
\* (storage.go:150-168, :120-128).
RevokedStayDead ==
  \A t \in revoked :
    /\ refresh[t] = None
    /\ access[t] = None \/ t \in revoking \/ t \in severed

\* A token call that outlives its client may still insert what it has read, but
\* no refresh token is rotated for a client that is gone, although the rotation
\* never looks at oidc_clients (clients.go:140-155, tokens.go:158-200).
RotatedForLiveClient ==
  [][\A x \in rotations' \ rotations : client[refresh'[x[2]].client] = "live"]_vars

\* What users.go:137-138 promises: a reset locks out whoever had the old
\* password, so no refresh token rests on a sign-in from before the reset.
GrantsFollowReset ==
  \A c \in Calls : refresh[c] # None => refresh[c].auth = epoch[refresh[c].user]

-----------------------------------------------------------------------------
(* Tokens as credentials.                                                  *)

\* A call's token is over once the call can no longer insert it.
Unissued(c, before) ==
  [state |-> IF call[c].at \in before THEN "unborn" ELSE "over"]

Issued(user, client_, since) ==
  [state |-> "live", user |-> user, scope |-> client_, since |-> since]

AccessCred ==
  [c \in Calls |->
     IF access[c] = None THEN Unissued(c, {"new", "read"})
     ELSE Issued(access[c].user, access[c].client, access[c].born)]

\* A renewed refresh token has the age of its chain.
RefreshCred ==
  [c \in Calls |->
     IF refresh[c] = None THEN Unissued(c, {"new", "read", "access"})
     ELSE Issued(refresh[c].user, refresh[c].client, refresh[c].chain)]

AccessTokens == INSTANCE Credentials WITH
  Ids <- Calls, Scopes <- Clients, members <- present, round <- epoch, cred <- AccessCred

RefreshTokens == INSTANCE Credentials WITH
  Ids <- Calls, Scopes <- Clients, members <- present, round <- epoch, cred <- RefreshCred

\* Access tokens and refresh tokens are credentials: given out once, by a call
\* that has not failed yet, to a user who has an account; renewed into one token
\* of the same user, client and age; and ended for good, by a reset, a demotion or
\* a deletion all at one moment, whatever calls are under way
\* (tokens.go:43-205, users.go:164-179).
TokensAreCredentials == AccessTokens!Spec /\ RefreshTokens!Spec
=============================================================================
