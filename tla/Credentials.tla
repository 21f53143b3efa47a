----------------------------- MODULE Credentials -----------------------------
(***************************************************************************)
(* What nass promises about everything that lets a user in - sessions of   *)
(* the portal, access tokens, refresh tokens - with nothing of the tables  *)
(* and calls that bring it about: a credential is given out once, to a     *)
(* user who has an account, and when it ends it has ended for good.  A     *)
(* credential may be renewed, which ends it and gives out one of the same  *)
(* user, scope and age.  Signing a user out everywhere ends all he has, at *)
(* one moment, and so does deleting his account.                           *)
(***************************************************************************)
EXTENDS Naturals

CONSTANTS
  Ids,     \* credentials, each with an id of its own
  Users,   \* ids of users
  Scopes   \* what a credential is good for

VARIABLES
  members,  \* users that have an account
  round,    \* how often each user has been signed out everywhere
  cred      \* what has become of each credential

vars == <<members, round, cred>>

Unborn == [state |-> "unborn"]
Over == [state |-> "over"]
\* since: the user's round when the credential, or the one it was renewed from,
\* was given out.
Granted(u, k, since) == [state |-> "live", user |-> u, scope |-> k, since |-> since]

Live(c) == cred[c].state = "live"
Of(u) == {c \in Ids : Live(c) /\ cred[c].user = u}

Init ==
  /\ members \subseteq Users
  /\ round = [u \in Users |-> 0]
  /\ cred = [c \in Ids |-> Unborn]

\* The credentials of S are no good any more.
Ended(S) == [c \in Ids |-> IF c \in S THEN Over ELSE cred[c]]

Join(u) ==
  /\ u \notin members
  /\ members' = members \cup {u}
  /\ UNCHANGED <<round, cred>>

Leave(u) ==
  /\ u \in members
  /\ members' = members \ {u}
  /\ cred' = Ended(Of(u))
  /\ UNCHANGED round

SignOut(u) ==
  /\ u \in members
  /\ round' = [round EXCEPT ![u] = @ + 1]
  /\ cred' = Ended(Of(u))
  /\ UNCHANGED members

Give(c, u, k) ==
  /\ cred[c] = Unborn
  /\ u \in members
  /\ cred' = [cred EXCEPT ![c] = Granted(u, k, round[u])]
  /\ UNCHANGED <<members, round>>

Renew(c, d) ==
  /\ Live(c) /\ cred[d] = Unborn
  /\ cred' = [cred EXCEPT ![c] = Over, ![d] = cred[c]]
  /\ UNCHANGED <<members, round>>

\* Logout, revocation, expiry; also a credential that is never given out.
End(S) ==
  /\ UNCHANGED <<members, round>>
  /\ cred' = Ended(S)

Next ==
  \/ \E S \in SUBSET Ids : End(S)
  \/ \E u \in Users : Join(u) \/ Leave(u) \/ SignOut(u)
  \/ \E c \in Ids, u \in Users, k \in Scopes : Give(c, u, k)
  \/ \E c, d \in Ids : Renew(c, d)

Spec == Init /\ [][Next]_vars

-----------------------------------------------------------------------------
\* No credential outlives the account it is for, or a sign-out of its user, be
\* it by renewal (users.go:164-179).
Current ==
  \A c \in Ids :
    Live(c) => cred[c].user \in members /\ cred[c].since = round[cred[c].user]

\* What has ended stays so (tokens.go:172-186, session.go:101-108).
EndedForGood == [][\A c \in Ids : cred[c] = Over => cred'[c] = Over]_cred
=============================================================================
