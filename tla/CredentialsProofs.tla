-------------------------- MODULE CredentialsProofs --------------------------
(***************************************************************************)
(* What follows from Credentials alone, and so holds of everything that    *)
(* implements it: portal sessions, access tokens, refresh tokens.          *)
(***************************************************************************)
EXTENDS Credentials, TLAPS

LiveCreds == [state: {"live"}, user: Users, scope: Scopes, since: Nat]

TypeOK ==
  /\ members \subseteq Users
  /\ round \in [Users -> Nat]
  /\ cred \in [Ids -> {Unborn, Over} \cup LiveCreds]

IInv == TypeOK /\ Current

\* Ending credentials keeps the invariant, when what stays alive is of users
\* who keep their account and round.
LEMMA EndedKeeps ==
  ASSUME IInv, NEW S \in SUBSET Ids, cred' = Ended(S),
         members' \subseteq Users, round' \in [Users -> Nat],
         \A c \in Ids \ S : Live(c) =>
            /\ cred[c].user \in members => cred[c].user \in members'
            /\ round'[cred[c].user] = round[cred[c].user]
  PROVE  IInv'
<1>1. \A c \in Ids : cred'[c] = IF c \in S THEN Over ELSE cred[c]
  BY DEF Ended
<1>2. cred' \in [Ids -> {Unborn, Over} \cup LiveCreds]
  BY DEF IInv, TypeOK, Ended
<1>3. ASSUME NEW c \in Ids, Live(c)'
      PROVE  c \notin S /\ Live(c) /\ cred'[c] = cred[c]
  BY <1>1, <1>3 DEF Live, Over
<1>4. Current'
  BY <1>3 DEF IInv, Current
<1> QED
  BY <1>2, <1>4 DEF IInv, TypeOK

\* Giving out and renewing credentials keeps the invariant.
LEMMA GiveRenewKeep ==
  ASSUME IInv, NEW c \in Ids, NEW d \in Ids,
         \/ \E u \in Users, k \in Scopes : Give(c, u, k)
         \/ Renew(c, d)
  PROVE  IInv'
<1>1. ASSUME NEW u \in Users, NEW k \in Scopes, Give(c, u, k)
      PROVE  IInv'
  <2>1. /\ cred' = [cred EXCEPT ![c] = Granted(u, k, round[u])] /\ u \in members
        /\ UNCHANGED <<members, round>>
    BY <1>1 DEF Give
  <2>2. Granted(u, k, round[u]) \in LiveCreds /\ Granted(u, k, round[u]).user = u
        /\ Granted(u, k, round[u]).since = round[u]
    BY DEF IInv, TypeOK, Granted, LiveCreds
  <2>3. TypeOK'
    BY <2>1, <2>2 DEF IInv, TypeOK
  <2>4. cred'[c] = Granted(u, k, round[u]) /\ \A b \in Ids \ {c} : cred'[b] = cred[b]
    BY <2>1 DEF IInv, TypeOK
  <2>5. Current'
    BY <2>1, <2>2, <2>4 DEF IInv, Current, Live
  <2> QED
    BY <2>3, <2>5 DEF IInv
<1>2. CASE Renew(c, d)
  <2>1. /\ Live(c) /\ cred[d] = Unborn /\ UNCHANGED <<members, round>>
        /\ cred' = [cred EXCEPT ![c] = Over, ![d] = cred[c]]
    BY <1>2 DEF Renew
  <2>2. cred' \in [Ids -> {Unborn, Over} \cup LiveCreds]
    BY <2>1 DEF IInv, TypeOK
  <2>3. \A b \in Ids : \/ cred'[b] = Over
                       \/ cred'[b] = cred[b]
                       \/ cred'[b] = cred[c]
    BY <2>1 DEF IInv, TypeOK
  <2>4. ASSUME NEW b \in Ids, Live(b)'
        PROVE  cred'[b].user \in members' /\ cred'[b].since = round'[cred'[b].user]
    <3>1. cred'[b] # Over
      BY <2>4 DEF Live, Over
    <3>2. CASE cred'[b] = cred[b]
      BY <2>1, <2>4, <3>2 DEF IInv, Current, Live
    <3>3. CASE cred'[b] = cred[c]
      BY <2>1, <3>3 DEF IInv, Current
    <3> QED
      BY <2>3, <3>1, <3>2, <3>3
  <2> QED
    BY <2>1, <2>2, <2>4 DEF IInv, TypeOK, Current
<1> QED
  BY <1>1, <1>2

\* Every step keeps the invariant.
LEMMA NextKeeps ==
  ASSUME IInv, [Next]_vars
  PROVE  IInv'
<1>1. ASSUME NEW S \in SUBSET Ids, End(S)
      PROVE  IInv'
  BY <1>1, EndedKeeps DEF End, IInv, TypeOK
<1>2. ASSUME NEW u \in Users
      PROVE  /\ Of(u) \in SUBSET Ids
             /\ \A c \in Ids \ Of(u) : Live(c) => cred[c].user \in Users \ {u}
  BY DEF Of, Live, IInv, TypeOK, LiveCreds, Unborn, Over
<1>3. ASSUME NEW u \in Users, Leave(u)
      PROVE  IInv'
  BY <1>2, <1>3, EndedKeeps DEF Leave, IInv, TypeOK
<1>4. ASSUME NEW u \in Users, SignOut(u)
      PROVE  IInv'
  <2>1. /\ cred' = Ended(Of(u)) /\ members' = members
        /\ round' = [round EXCEPT ![u] = round[u] + 1]
    BY <1>4 DEF SignOut
  <2>2. round' \in [Users -> Nat] /\ \A v \in Users \ {u} : round'[v] = round[v]
    BY <2>1 DEF IInv, TypeOK
  <2> QED
    BY <1>2, <2>1, <2>2, EndedKeeps DEF IInv, TypeOK
<1>5. ASSUME NEW u \in Users, Join(u)
      PROVE  IInv'
  BY <1>5 DEF Join, IInv, TypeOK, Current, Live
<1>6. CASE UNCHANGED vars
  BY <1>6 DEF vars, IInv, TypeOK, Current, Live
<1> QED
  BY <1>1, <1>3, <1>4, <1>5, <1>6, GiveRenewKeep DEF Next

\* IInv is an invariant of the specification.
THEOREM CredentialsInvariance == Spec => []IInv
<1>1. Init => IInv
  <2> SUFFICES ASSUME Init PROVE IInv
    OBVIOUS
  <2>1. TypeOK
    BY DEF Init, TypeOK
  <2>2. Current
    BY DEF Init, Current, Live, Unborn
  <2> QED
    BY <2>1, <2>2 DEF IInv
<1>2. IInv /\ [Next]_vars => IInv'
  BY NextKeeps
<1> QED
  BY <1>1, <1>2, PTL DEF Spec

\* A credential that is good belongs to an account there is, and its user was
\* not signed out since it, or the first of its line, was given out (users.go
\* revokeSessions, tokens.go rotateRefreshToken).
THEOREM CredentialsCurrent == Spec => []Current
<1>1. IInv => Current
  BY DEF IInv
<1> QED
  BY <1>1, CredentialsInvariance, PTL

\* Nothing revives a credential (session.go Lookup, storage.go RevokeToken).
THEOREM CredentialsEndForGood == Spec => EndedForGood
<1>1. IInv /\ [Next]_vars => [\A c \in Ids : cred[c] = Over => cred'[c] = Over]_cred
  <2> SUFFICES ASSUME IInv, [Next]_vars, NEW c \in Ids, cred[c] = Over, cred' # cred
               PROVE  cred'[c] = Over
    OBVIOUS
  <2>1. cred[c] # Unborn /\ ~ Live(c)
    BY DEF Over, Unborn, Live
  <2>2. ASSUME NEW S, cred' = Ended(S)
        PROVE  cred'[c] = Over
    BY <2>2 DEF Ended
  <2>3. ASSUME NEW b \in Ids, NEW u \in Users, NEW k \in Scopes, Give(b, u, k)
        PROVE  cred'[c] = Over
    BY <2>1, <2>3 DEF Give, IInv, TypeOK
  <2>4. ASSUME NEW b \in Ids, NEW d \in Ids, Renew(b, d)
        PROVE  cred'[c] = Over
    BY <2>1, <2>4 DEF Renew, IInv, TypeOK
  <2> QED
    BY <2>2, <2>3, <2>4 DEF Next, vars, End, Join, Leave, SignOut
<1> QED
  BY <1>1, CredentialsInvariance, PTL DEF Spec, EndedForGood
=============================================================================
