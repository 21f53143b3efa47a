---------------------------- MODULE TokensProofs ----------------------------
(***************************************************************************)
(* Proofs about Tokens, for every set of users, clients, sign-in requests  *)
(* and token-endpoint calls, and any number of resets.                     *)
(***************************************************************************)
EXTENDS Tokens, TLAPS

\* A code belongs to a completed request, and ids of requests are drawn once.
RequestsOK ==
  \A r \in Requests :
    /\ code[r] # "none" => req[r] # None
    /\ code[r] # "none" => req[r].user # None
    /\ req[r] # None => r \in used

\* Which rows a call can have, by how far it got.
CallsOK ==
  \A c \in Calls :
    /\ call[c].at \in {"new", "read"} => access[c] = None
    /\ call[c].at \in {"new", "read", "access"} => refresh[c] = None
    /\ call[c].at = "access" => call[c].offline
    /\ refresh[c] # None => call[c].offline
    /\ access[c] # None => access[c].linked = call[c].offline
    /\ call[c].at # "new" /\ call[c].kind = "code" => call[c].src \in used

\* A call that makes no further row.
Past(c) == call[c].at \in {"stored", "done", "failed"}

\* Rotated tokens come from calls that are over with their inserts; revoked ones,
\* and those being revoked, were handed out and have no row.
HistoryOK ==
  /\ \A x \in rotations : Past(x[1])
  /\ \A t \in revoking \cup revoked : HandedOut(t) /\ refresh[t] = None

Dead == OneSuccessor /\ CodeGoneAfterUse

IInv == TypeOK /\ RequestsOK /\ CallsOK /\ HistoryOK /\ RevocationComplete /\ Dead

USE DEF accountVars, signInVars, tokenVars, revokeVars

-----------------------------------------------------------------------------
\* A call is new or has read what it was given.
LEMMA CallCases ==
  ASSUME TypeOK, NEW c \in Calls
  PROVE  /\ call[c].at \in {"new"} \cup Begun
         /\ call[c].at # "new" => call[c] \in CodeCall \cup RefreshCall
<1>1. CASE call[c] = NewCall
  BY <1>1 DEF NewCall
<1>2. CASE call[c] \in CodeCall
  BY <1>2 DEF CodeCall
<1>3. CASE call[c] \in RefreshCall
  BY <1>3 DEF RefreshCall
<1> QED
  BY <1>1, <1>2, <1>3 DEF TypeOK

\* Removing rows from the token tables, and nothing else that tokens depend on,
\* keeps the invariant: the rows of a user whose account or epoch changes must
\* be among the removed ones.
LEMMA ShrinkKeeps ==
  ASSUME IInv, TypeOK', UNCHANGED <<signInVars, call, rotations>>,
         \A c \in Calls : access'[c] = access[c] \/ access'[c] = None,
         \A c \in Calls : refresh'[c] = refresh[c] \/ refresh'[c] = None,
         \A c \in Calls : access'[c] # None =>
            /\ access[c].user \in present => access[c].user \in present'
            /\ epoch'[access[c].user] = epoch[access[c].user],
         \A c \in Calls : refresh'[c] # None =>
            /\ refresh[c].user \in present => refresh[c].user \in present'
            /\ epoch'[refresh[c].user] = epoch[refresh[c].user],
         \A t \in revoking' \cup revoked' :
            t \in revoking \cup revoked \/ (HandedOut(t) /\ refresh'[t] = None)
  PROVE  IInv'
<1>1. RequestsOK'
  BY DEF IInv, RequestsOK
<1>2. CallsOK'
  BY DEF IInv, CallsOK
<1>4. HistoryOK'
  BY DEF IInv, HistoryOK, Past, HandedOut, TypeOK
<1>5. RevocationComplete'
  BY DEF IInv, RevocationComplete
<1>7. OneSuccessor' /\ CodeGoneAfterUse'
  BY DEF IInv, Dead, OneSuccessor, CodeGoneAfterUse, TypeOK
<1> QED
  BY <1>1, <1>2, <1>4, <1>5, <1>7 DEF IInv, Dead

\* Changes to accounts and clients keep the invariant.
LEMMA AccountKeeps ==
  ASSUME IInv, AccountStep
  PROVE  IInv'
<1>0. TypeOK
  BY DEF IInv
<1>1. ASSUME NEW u \in Users, ResetUser(u)
      PROVE  IInv'
  <2>1. TypeOK'
    BY <1>0, <1>1 DEF TypeOK, ResetUser, revokeSessions, Without
  <2>2. \A c \in Calls : /\ access'[c] = access[c] \/ access'[c] = None
                         /\ refresh'[c] = refresh[c] \/ refresh'[c] = None
    BY <1>1 DEF ResetUser, revokeSessions, Without
  <2>3. \A c \in Calls : /\ access'[c] # None => access[c].user # u /\ access[c] \in AccessRow
                         /\ refresh'[c] # None => refresh[c].user # u /\ refresh[c] \in RefreshRow
    BY <1>0, <1>1 DEF TypeOK, ResetUser, revokeSessions, Without
  <2>4. \A v \in Users \ {u} : epoch'[v] = epoch[v]
    BY <1>0, <1>1 DEF TypeOK, ResetUser
  <2>5. UNCHANGED <<present, signInVars, call, rotations, revokeVars>>
    BY <1>1 DEF ResetUser
  <2>6. \A c \in Calls : /\ access'[c] # None => epoch'[access[c].user] = epoch[access[c].user]
                         /\ refresh'[c] # None => epoch'[refresh[c].user] = epoch[refresh[c].user]
    BY <2>3, <2>4 DEF AccessRow, RefreshRow
  <2> QED
    BY <2>1, <2>2, <2>5, <2>6, ShrinkKeeps
<1>2. ASSUME NEW u \in Users, DeleteUser(u)
      PROVE  IInv'
  <2>1. TypeOK'
    BY <1>0, <1>2 DEF TypeOK, DeleteUser, Without
  <2>2. \A c \in Calls : /\ access'[c] = access[c] \/ access'[c] = None
                         /\ refresh'[c] = refresh[c] \/ refresh'[c] = None
                         /\ access'[c] # None => access[c].user # u
                         /\ refresh'[c] # None => refresh[c].user # u
    BY <1>2 DEF DeleteUser, Without
  <2>3. present' = present \ {u} /\ UNCHANGED <<epoch, signInVars, call, rotations, revokeVars>>
    BY <1>2 DEF DeleteUser
  <2> QED
    BY <2>1, <2>2, <2>3, ShrinkKeeps
<1>3. ASSUME NEW k \in Clients, Provision(k)
      PROVE  IInv'
  <2>1. TypeOK'
    BY <1>0, <1>3 DEF TypeOK, Provision
  <2>2. UNCHANGED <<present, epoch, signInVars, call, tokenVars, revokeVars>>
    BY <1>3 DEF Provision
  <2> QED
    BY <2>1, <2>2, ShrinkKeeps
<1>4. ASSUME NEW k \in Clients, deleteClient(k)
      PROVE  IInv'
  <2>1. TypeOK'
    BY <1>0, <1>4 DEF TypeOK, deleteClient, Without
  <2>2. \A c \in Calls : /\ access'[c] = access[c] \/ access'[c] = None
                         /\ refresh'[c] = refresh[c] \/ refresh'[c] = None
    BY <1>4 DEF deleteClient, Without
  <2>3. UNCHANGED <<present, epoch, signInVars, call, rotations, revokeVars>>
    BY <1>4 DEF deleteClient
  <2> QED
    BY <2>1, <2>2, <2>3, ShrinkKeeps
<1> QED
  BY <1>1, <1>2, <1>3, <1>4 DEF AccountStep

\* Revocation, logout and expiry keep the invariant.
LEMMA RevokeKeeps ==
  ASSUME IInv, RevokeStep
  PROVE  IInv'
<1>0. TypeOK
  BY DEF IInv
<1>1. ASSUME NEW c \in Calls, DropAccess(c) \/ ExpireRefresh(c) \/ RevokeRefresh(c)
                              \/ RevokeUnknown(c)
      PROVE  IInv'
  <2>1. TypeOK'
    BY <1>0, <1>1 DEF TypeOK, DropAccess, ExpireRefresh, RevokeRefresh, RevokeUnknown
  <2>2. \A d \in Calls : /\ access'[d] = access[d] \/ access'[d] = None
                         /\ refresh'[d] = refresh[d] \/ refresh'[d] = None
    BY <1>0, <1>1 DEF TypeOK, DropAccess, ExpireRefresh, RevokeRefresh, RevokeUnknown
  <2>3. UNCHANGED <<accountVars, signInVars, call, rotations>>
    BY <1>1 DEF DropAccess, ExpireRefresh, RevokeRefresh, RevokeUnknown
  <2>4. ASSUME NEW t \in revoking' \cup revoked'
        PROVE  t \in revoking \cup revoked \/ (HandedOut(t) /\ refresh'[t] = None)
    <3>1. CASE t \in revoking \cup revoked
      BY <3>1
    <3>2. CASE t \notin revoking \cup revoked
      BY <1>0, <1>1, <2>4, <3>2 DEF TypeOK, DropAccess, ExpireRefresh, RevokeRefresh, RevokeUnknown
    <3> QED
      BY <3>1, <3>2
  <2> QED
    BY <2>1, <2>2, <2>3, <2>4, ShrinkKeeps
<1>2. ASSUME NEW t \in Calls, RevokeLinked(t) \/ RevokeStops(t)
      PROVE  IInv'
  <2>1. TypeOK'
    BY <1>0, <1>2 DEF TypeOK, RevokeLinked, RevokeStops
  <2>2. \A d \in Calls : access'[d] = access[d] \/ access'[d] = None
    BY <1>0, <1>2 DEF TypeOK, RevokeLinked, RevokeStops
  <2>3. /\ UNCHANGED <<accountVars, signInVars, call, refresh, rotations>>
        /\ revoking' \cup revoked' \subseteq revoking \cup revoked
    BY <1>2 DEF RevokeLinked, RevokeStops
  <2> QED
    BY <2>1, <2>2, <2>3, ShrinkKeeps
<1>3. ASSUME NEW u \in Users, NEW k \in Clients, EndAccess(u, k) \/ EndRefresh(u, k)
      PROVE  IInv'
  <2>1. TypeOK'
    <3>1. CASE EndAccess(u, k)
      BY <1>0, <3>1 DEF TypeOK, EndAccess, Without
    <3>2. CASE EndRefresh(u, k)
      BY <1>0, <3>2 DEF TypeOK, EndRefresh, Without
    <3> QED
      BY <1>3, <3>1, <3>2
  <2>2. \A c \in Calls : /\ access'[c] = access[c] \/ access'[c] = None
                         /\ refresh'[c] = refresh[c] \/ refresh'[c] = None
    BY <1>3 DEF EndAccess, EndRefresh, Without
  <2>3. UNCHANGED <<accountVars, signInVars, call, rotations, revoking, revoked>>
    BY <1>3 DEF EndAccess, EndRefresh
  <2> QED
    BY <2>1, <2>2, <2>3, ShrinkKeeps
<1> QED
  BY <1>1, <1>2, <1>3 DEF RevokeStep

\* Signing in, and the expiry of requests and codes, keep the invariant: a
\* deleted request is not written again.
LEMMA SignInKeeps ==
  ASSUME IInv, SignInStep
  PROVE  IInv'
<1>0. TypeOK
  BY DEF IInv
\* What these steps have in common: tokens, calls and accounts stay, and no
\* request id that was used comes back.
<1>1. ASSUME TypeOK', RequestsOK', used \subseteq used',
             UNCHANGED <<accountVars, call, tokenVars, revokeVars>>,
             \A r \in used : /\ req[r] = None => req'[r] = None
                             /\ req[r] = None /\ code[r] = "none" => code'[r] = "none"
      PROVE  IInv'
  <2>1. CallsOK' /\ HistoryOK' /\ RevocationComplete'
    BY <1>1 DEF IInv, CallsOK, HistoryOK, HandedOut, Past, RevocationComplete
  <2>2. OneSuccessor'
    BY <1>1 DEF IInv, Dead, OneSuccessor
  <2>3. CodeGoneAfterUse'
    BY <1>1 DEF IInv, CallsOK, Dead, CodeGoneAfterUse
  <2> QED
    BY <1>1, <2>1, <2>2, <2>3 DEF IInv, Dead
<1>2. ASSUME NEW r \in Requests, NEW k \in Clients, NEW off \in BOOLEAN,
             CreateAuthRequest(r, k, off)
      PROVE  IInv'
  <2> DEFINE row == [client |-> k, offline |-> off, user |-> None, auth |-> 0]
  <2>1. row \in ReqRow /\ row # None
    BY TokensAssumption DEF ReqRow
  <2>2. req[r] = None /\ code[r] = "none"
    BY <1>2 DEF IInv, RequestsOK, CreateAuthRequest
  <2>3. req' = [req EXCEPT ![r] = row] /\ used' = used \cup {r} /\ r \notin used
        /\ UNCHANGED <<accountVars, code, marks, call, tokenVars, revokeVars>>
    BY <1>2 DEF CreateAuthRequest
  <2>4. TypeOK'
    BY <1>0, <2>1, <2>3 DEF TypeOK
  <2>5. RequestsOK'
    BY <1>0, <2>2, <2>3 DEF IInv, TypeOK, RequestsOK
  <2> QED
    BY <1>0, <1>1, <2>3, <2>4, <2>5 DEF TypeOK
<1>3. ASSUME NEW r \in Requests, NEW u \in Users, Identify(r, u)
      PROVE  IInv'
  <2>1. [req |-> r, user |-> u, auth |-> epoch[u]] \in Mark
    BY <1>0 DEF TypeOK, Mark
  <2>2. TypeOK'
    BY <1>0, <1>3, <2>1 DEF TypeOK, Identify
  <2>3. UNCHANGED <<accountVars, used, req, code, call, tokenVars, revokeVars>>
    BY <1>3 DEF Identify
  <2>4. RequestsOK'
    BY <2>3 DEF IInv, RequestsOK
  <2> QED
    BY <1>1, <2>2, <2>3, <2>4
<1>4. ASSUME NEW r \in Requests, SaveAuthCode(r)
      PROVE  IInv'
  <2>1. TypeOK'
    BY <1>0, <1>4 DEF TypeOK, SaveAuthCode
  <2>2. RequestsOK'
    BY <1>0, <1>4 DEF IInv, TypeOK, RequestsOK, SaveAuthCode
  <2>3. \A q \in used : /\ req[q] = None => req'[q] = None
                        /\ req[q] = None /\ code[q] = "none" => code'[q] = "none"
    BY <1>0, <1>4 DEF TypeOK, SaveAuthCode
  <2>4. UNCHANGED <<accountVars, used, req, call, tokenVars, revokeVars>>
    BY <1>4 DEF SaveAuthCode
  <2> QED
    BY <1>1, <2>1, <2>2, <2>3, <2>4
<1>5. ASSUME NEW r \in Requests, ExpireCode(r) \/ ExpireRequest(r)
      PROVE  IInv'
  <2>1. TypeOK'
    BY <1>0, <1>5 DEF TypeOK, ExpireCode, ExpireRequest
  <2>2. RequestsOK'
    BY <1>0, <1>5 DEF IInv, TypeOK, RequestsOK, ExpireCode, ExpireRequest
  <2>3. \A q \in used : /\ req[q] = None => req'[q] = None
                        /\ req[q] = None /\ code[q] = "none" => code'[q] = "none"
    BY <1>0, <1>5 DEF TypeOK, ExpireCode, ExpireRequest
  <2>4. UNCHANGED <<accountVars, used, call, tokenVars, revokeVars>>
    BY <1>5 DEF ExpireCode, ExpireRequest
  <2> QED
    BY <1>1, <2>1, <2>2, <2>3, <2>4
<1>6. ASSUME NEW m \in marks, markAuthRequestComplete(m)
      PROVE  IInv'
  <2>1. m.req \in Requests /\ m.user \in Users /\ m.auth \in Nat /\ m.user # None
    BY <1>0, TokensAssumption DEF TypeOK, Mark
  <2> DEFINE row == [req[m.req] EXCEPT !.user = m.user, !.auth = m.auth]
  <2>2. ASSUME req[m.req] # None
        PROVE  row \in ReqRow /\ row # None /\ row.user = m.user
    <3>1. req[m.req] \in ReqRow
      BY <1>0, <2>1, <2>2 DEF TypeOK
    <3>2. row \in ReqRow /\ row.user = m.user
      BY <2>1, <3>1 DEF ReqRow
    <3> QED
      BY <3>2, TokensAssumption
  <2>3. req' = IF req[m.req] = None THEN req ELSE [req EXCEPT ![m.req] = row]
    BY <1>0, <1>6, <2>1 DEF TypeOK, markAuthRequestComplete
  <2>4. marks' \subseteq marks /\ UNCHANGED <<accountVars, used, code, call, tokenVars, revokeVars>>
    BY <1>6 DEF markAuthRequestComplete
  <2>5. TypeOK'
    BY <1>0, <2>1, <2>2, <2>3, <2>4 DEF TypeOK
  <2>6. RequestsOK'
    BY <1>0, <2>1, <2>2, <2>3, <2>4 DEF IInv, TypeOK, RequestsOK
  <2>7. \A q \in used : req[q] = None => req'[q] = None
    BY <1>0, <2>1, <2>3 DEF TypeOK
  <2> QED
    BY <1>1, <2>4, <2>5, <2>6, <2>7
<1> QED
  BY <1>2, <1>3, <1>4, <1>5, <1>6 DEF SignInStep

-----------------------------------------------------------------------------
(* The token endpoint.                                                     *)

\* The only call that moves does so within its stages, keeping what it read.
MovesTo(c, at) ==
  /\ call[c].at # "new"
  /\ call' = [call EXCEPT ![c].at = at]
  /\ at \in Begun

\* A call that moves keeps its type and what it has read.
LEMMA MoveType ==
  ASSUME TypeOK, NEW c \in Calls, NEW at, MovesTo(c, at)
  PROVE  /\ call' \in [Calls -> {NewCall} \cup CodeCall \cup RefreshCall]
         /\ call'[c].at = at
         /\ call'[c].kind = call[c].kind /\ call'[c].src = call[c].src
         /\ call'[c].offline = call[c].offline
         /\ call'[c].user = call[c].user /\ call'[c].client = call[c].client
         /\ \A d \in Calls \ {c} : call'[d] = call[d]
<1>1. call[c] \in CodeCall \cup RefreshCall
  BY CallCases DEF MovesTo
<1>2. /\ [call[c] EXCEPT !.at = at].at = at
      /\ [call[c] EXCEPT !.at = at].kind = call[c].kind
      /\ [call[c] EXCEPT !.at = at].src = call[c].src
      /\ [call[c] EXCEPT !.at = at].offline = call[c].offline
      /\ [call[c] EXCEPT !.at = at].user = call[c].user
      /\ [call[c] EXCEPT !.at = at].client = call[c].client
      /\ [call[c] EXCEPT !.at = at] \in CodeCall \cup RefreshCall
  <2>1. CASE call[c] \in CodeCall
    BY <2>1 DEF CodeCall, MovesTo
  <2>2. CASE call[c] \in RefreshCall
    BY <2>2 DEF RefreshCall, MovesTo
  <2> QED
    BY <1>1, <2>1, <2>2
<1>3. call \in [Calls -> {NewCall} \cup CodeCall \cup RefreshCall]
      /\ call' = [call EXCEPT ![c] = [call[c] EXCEPT !.at = at]]
  BY DEF TypeOK, MovesTo
<1> QED
  BY <1>2, <1>3

\* A call that reads its code or refresh token keeps the invariant.
LEMMA BeginKeeps ==
  ASSUME IInv, NEW c \in Calls,
         (\E r \in Requests : CodeBegin(c, r)) \/ (\E t \in Calls : RefreshBegin(c, t))
  PROVE  IInv'
<1>0. TypeOK
  BY DEF IInv
<1>1. ASSUME NEW st \in CodeCall \cup RefreshCall, call[c].at = "new", Set(c, st),
             st.at = "read", st.kind = "code" => st.src \in used,
             UNCHANGED <<accountVars, signInVars, tokenVars, revokeVars>>
      PROVE  IInv'
  <2>1. call' = [call EXCEPT ![c] = st] /\ TypeOK'
    BY <1>0, <1>1 DEF TypeOK, Set
  <2>2. \A d \in Calls \ {c} : call'[d] = call[d]
    BY <1>0, <2>1 DEF TypeOK
  <2>3. call'[c] = st
    BY <1>0, <2>1 DEF TypeOK
  <2>4. access[c] = None /\ refresh[c] = None
    BY <1>1 DEF IInv, CallsOK
  <2>5. CallsOK'
    BY <1>1, <2>2, <2>3, <2>4 DEF IInv, CallsOK
  <2>6. ~ Past(c) /\ \A d \in Calls : Past(d) => d # c /\ Past(d)' /\ call'[d] = call[d]
    BY <1>1, <2>2 DEF Past
  <2>7. HistoryOK'
    BY <1>0, <1>1, <2>6 DEF IInv, TypeOK, HistoryOK, HandedOut, Past
  <2>8. RequestsOK' /\ RevocationComplete'
    BY <1>1 DEF IInv, RequestsOK, RevocationComplete
  <2>9. OneSuccessor'
    BY <1>1 DEF IInv, Dead, OneSuccessor
  <2>10. CodeGoneAfterUse'
    BY <1>1, <2>2, <2>3 DEF IInv, Dead, CodeGoneAfterUse
  <2> QED
    BY <2>1, <2>5, <2>7, <2>8, <2>9, <2>10 DEF IInv, Dead
<1>2. ASSUME NEW r \in Requests, CodeBegin(c, r)
      PROVE  IInv'
  <2> DEFINE st == [at |-> "read", kind |-> "code", src |-> r, client |-> req[r].client,
                    user |-> req[r].user, offline |-> req[r].offline, auth |-> req[r].auth]
  <2>1. req[r] \in ReqRow /\ req[r].user # None /\ r \in used
    BY <1>0, <1>2 DEF IInv, TypeOK, RequestsOK, CodeBegin
  <2>2. st \in CodeCall
    BY <2>1 DEF ReqRow, CodeCall, Begun
  <2>3. call[c].at = "new" /\ Set(c, st)
        /\ UNCHANGED <<accountVars, signInVars, tokenVars, revokeVars>>
    BY <1>2 DEF CodeBegin
  <2>4. st.at = "read" /\ st.src \in used
    BY <2>1
  <2> HIDE DEF st
  <2> QED
    BY <1>1, <2>2, <2>3, <2>4
<1>3. ASSUME NEW t \in Calls, RefreshBegin(c, t)
      PROVE  IInv'
  <2> DEFINE st == [at |-> "read", kind |-> "refresh", src |-> t,
                    client |-> refresh[t].client, user |-> refresh[t].user,
                    offline |-> TRUE, auth |-> refresh[t].auth]
  <2>1. refresh[t] \in RefreshRow
    BY <1>0, <1>3 DEF TypeOK, RefreshBegin
  <2>2. st \in RefreshCall
    BY <2>1 DEF RefreshRow, RefreshCall, Begun
  <2>3. call[c].at = "new" /\ Set(c, st)
        /\ UNCHANGED <<accountVars, signInVars, tokenVars, revokeVars>>
    BY <1>3 DEF RefreshBegin
  <2>4. st.at = "read" /\ st.kind = "refresh"
    OBVIOUS
  <2> HIDE DEF st
  <2> QED
    BY <1>1, <2>2, <2>3, <2>4
<1> QED
  BY <1>2, <1>3

\* Inserting an access token keeps the invariant: the call has no row yet and
\* no token of it was rotated or revoked.
LEMMA InsertAccessKeeps ==
  ASSUME IInv, NEW c \in Calls, insertAccessToken(c)
  PROVE  IInv'
<1> DEFINE at == IF call[c].offline THEN "access" ELSE "stored"
           row == [client |-> call[c].client, user |-> call[c].user,
                   born |-> epoch[call[c].user], linked |-> call[c].offline]
<1>0. TypeOK
  BY DEF IInv
<1>1. call[c].at = "read" /\ call[c].user \in present /\ access' = [access EXCEPT ![c] = row]
      /\ call' = [call EXCEPT ![c].at = at]
      /\ UNCHANGED <<accountVars, signInVars, refresh, rotations, revokeVars>>
  BY DEF insertAccessToken, Set
<1>2. MovesTo(c, at)
  BY <1>1 DEF MovesTo, Begun
<1>3. /\ call' \in [Calls -> {NewCall} \cup CodeCall \cup RefreshCall]
      /\ call'[c].at = at
      /\ call'[c].kind = call[c].kind /\ call'[c].src = call[c].src
      /\ call'[c].offline = call[c].offline
      /\ \A d \in Calls \ {c} : call'[d] = call[d]
  BY <1>0, <1>2, MoveType
<1>4. call[c] \in CodeCall \cup RefreshCall
  BY <1>0, <1>1, CallCases
<1>5. row \in AccessRow
  <2>1. call[c].client \in Clients /\ call[c].user \in Users /\ call[c].offline \in BOOLEAN
    BY <1>4 DEF CodeCall, RefreshCall
  <2> QED
    BY <1>0, <2>1 DEF TypeOK, AccessRow
<1>6. TypeOK'
  BY <1>0, <1>1, <1>3, <1>5 DEF TypeOK
<1>7. access'[c] = row /\ \A d \in Calls \ {c} : access'[d] = access[d]
  BY <1>0, <1>1 DEF TypeOK
<1>8. refresh[c] = None
  BY <1>1 DEF IInv, CallsOK
<1>9. CallsOK'
  BY <1>1, <1>3, <1>7, <1>8 DEF IInv, CallsOK
<1>10. ~ Past(c) /\ \A d \in Calls : Past(d) => d # c /\ Past(d)' /\ call'[d] = call[d]
                                                /\ access'[d] = access[d]
  BY <1>1, <1>3, <1>7 DEF Past
<1>11. HistoryOK' /\ OneSuccessor'
  BY <1>0, <1>1, <1>10 DEF IInv, TypeOK, HistoryOK, HandedOut, Past, Dead, OneSuccessor
<1>12. RequestsOK'
  BY <1>1 DEF IInv, RequestsOK
<1>13. RevocationComplete'
  BY <1>1, <1>7 DEF IInv, RevocationComplete
<1>14. CodeGoneAfterUse'
  BY <1>1, <1>3 DEF IInv, Dead, CodeGoneAfterUse
<1> QED
  BY <1>6, <1>9, <1>11, <1>12, <1>13, <1>14 DEF IInv, Dead

\* Inserting the first refresh token of a chain keeps the invariant.
LEMMA InsertRefreshKeeps ==
  ASSUME IInv, NEW c \in Calls, insertRefreshToken(c)
  PROVE  IInv'
<1> DEFINE row == [client |-> call[c].client, user |-> call[c].user,
                   auth |-> call[c].auth, born |-> epoch[call[c].user],
                   chain |-> epoch[call[c].user]]
<1>0. TypeOK
  BY DEF IInv
<1>1. call[c].at = "access" /\ call[c].user \in present /\ refresh' = [refresh EXCEPT ![c] = row]
      /\ call' = [call EXCEPT ![c].at = "stored"]
      /\ UNCHANGED <<accountVars, signInVars, access, rotations, revokeVars>>
  BY DEF insertRefreshToken, Set
<1>2. MovesTo(c, "stored")
  BY <1>1 DEF MovesTo, Begun
<1>3. /\ call' \in [Calls -> {NewCall} \cup CodeCall \cup RefreshCall]
      /\ call'[c].at = "stored"
      /\ call'[c].kind = call[c].kind /\ call'[c].src = call[c].src
      /\ call'[c].offline = call[c].offline
      /\ \A d \in Calls \ {c} : call'[d] = call[d]
  BY <1>0, <1>2, MoveType
<1>4. call[c] \in CodeCall \cup RefreshCall
  BY <1>0, <1>1, CallCases
<1>5. row \in RefreshRow
  <2>1. call[c].client \in Clients /\ call[c].user \in Users /\ call[c].auth \in Nat
    BY <1>4 DEF CodeCall, RefreshCall
  <2> QED
    BY <1>0, <2>1 DEF TypeOK, RefreshRow
<1>6. TypeOK'
  BY <1>0, <1>1, <1>3, <1>5 DEF TypeOK
<1>7. refresh'[c] = row /\ \A d \in Calls \ {c} : refresh'[d] = refresh[d]
  BY <1>0, <1>1 DEF TypeOK
<1>8. CallsOK'
  BY <1>1, <1>3, <1>7 DEF IInv, CallsOK
<1>9. ~ Past(c) /\ \A d \in Calls : Past(d) => d # c /\ Past(d)' /\ call'[d] = call[d]
                                               /\ refresh'[d] = refresh[d]
  BY <1>1, <1>3, <1>7 DEF Past
<1>10. HistoryOK' /\ OneSuccessor'
  BY <1>0, <1>1, <1>9 DEF IInv, TypeOK, HistoryOK, HandedOut, Past, Dead, OneSuccessor
<1>11. RequestsOK'
  BY <1>1 DEF IInv, RequestsOK
<1>12. RevocationComplete'
  BY <1>1, <1>7 DEF IInv, RevocationComplete
<1>13. CodeGoneAfterUse'
  BY <1>1, <1>3 DEF IInv, Dead, CodeGoneAfterUse
<1> QED
  BY <1>6, <1>8, <1>10, <1>11, <1>12, <1>13 DEF IInv, Dead

\* A rotation keeps the invariant: the old token is alive, so it has no
\* successor yet, and its row's chain is carried over as it is now.
LEMMA RotateKeeps ==
  ASSUME IInv, NEW c \in Calls, rotateRefreshToken(c)
  PROVE  IInv'
<1> DEFINE t == call[c].src
           row == [refresh[t] EXCEPT !.born = epoch[refresh[t].user]]
<1>0. TypeOK
  BY DEF IInv
<1>1. /\ call[c].at = "access" /\ call[c].kind = "refresh" /\ refresh[t] # None
      /\ refresh' = [refresh EXCEPT ![t] = None, ![c] = row]
      /\ access' = IF access[t] # None /\ access[t].linked
                     THEN [access EXCEPT ![t] = None] ELSE access
      /\ rotations' = rotations \cup {<<t, c>>}
      /\ call' = [call EXCEPT ![c].at = "stored"]
      /\ UNCHANGED <<accountVars, signInVars, revokeVars>>
  BY DEF rotateRefreshToken, RotateTo, Set
<1>2. MovesTo(c, "stored")
  BY <1>1 DEF MovesTo, Begun
<1>3. /\ call' \in [Calls -> {NewCall} \cup CodeCall \cup RefreshCall]
      /\ call'[c].at = "stored"
      /\ call'[c].kind = call[c].kind /\ call'[c].src = call[c].src
      /\ call'[c].offline = call[c].offline
      /\ \A d \in Calls \ {c} : call'[d] = call[d]
  BY <1>0, <1>2, MoveType
<1>4. t \in Calls
  <2>1. call[c] \in RefreshCall
    BY <1>0, <1>1, CallCases DEF CodeCall
  <2> QED
    BY <2>1 DEF RefreshCall
<1>5. Past(t) /\ t # c /\ refresh[c] = None
  BY <1>0, <1>1, <1>4, CallCases DEF IInv, CallsOK, Past, Begun
<1>6. refresh[t] \in RefreshRow
  BY <1>0, <1>1, <1>4 DEF TypeOK
<1>7. row \in RefreshRow /\ row.user = refresh[t].user /\ row.chain = refresh[t].chain
      /\ row.born = epoch[row.user]
  BY <1>0, <1>6 DEF TypeOK, RefreshRow
<1> HIDE DEF row, t
<1>8. /\ refresh'[c] = row /\ refresh'[t] = None
      /\ \A d \in Calls \ {c, t} : refresh'[d] = refresh[d]
  BY <1>0, <1>1, <1>4, <1>5 DEF TypeOK
<1>9. access'[t] = None /\ \A d \in Calls \ {t} : access'[d] = access[d]
  <2>1. access[t] # None => access[t].linked
    BY <1>1, <1>4 DEF IInv, CallsOK
  <2> QED
    BY <1>0, <1>1, <1>4, <2>1 DEF TypeOK
<1>10. TypeOK'
  <2>1. refresh' \in [Calls -> RefreshRow \cup {None}]
    BY <1>0, <1>1, <1>7 DEF TypeOK
  <2>2. access' \in [Calls -> AccessRow \cup {None}]
    BY <1>0, <1>1 DEF TypeOK
  <2>3. rotations' \subseteq Calls \X Calls
    BY <1>0, <1>1, <1>4 DEF TypeOK
  <2> QED
    BY <1>0, <1>1, <1>3, <2>1, <2>2, <2>3 DEF TypeOK
<1>11. call[c].at = "access" /\ UNCHANGED <<accountVars, signInVars, revokeVars>>
  BY <1>1
<1>12. CallsOK'
  <2>1. ASSUME NEW d \in Calls
        PROVE  /\ refresh'[d] # None => d = c \/ refresh[d] # None
               /\ access'[d] # None => access'[d] = access[d]
    BY <1>8, <1>9
  <2>2. \A d \in Calls \ {c} : call'[d] = call[d]
    BY <1>3
  <2>3. call[c].offline /\ call'[c].offline
    BY <1>3, <1>11 DEF IInv, CallsOK
  <2>4. /\ UNCHANGED used
        /\ call'[c].at = "stored" /\ call'[c].kind = call[c].kind /\ call'[c].src = call[c].src
        /\ call'[c].offline = call[c].offline /\ call[c].at # "new"
    BY <1>3, <1>11
  <2>5. ASSUME NEW d \in Calls
        PROVE  /\ call'[d].at \in {"new", "read"} => access'[d] = None
               /\ call'[d].at \in {"new", "read", "access"} => refresh'[d] = None
               /\ call'[d].at = "access" => call'[d].offline
               /\ refresh'[d] # None => call'[d].offline
               /\ access'[d] # None => access'[d].linked = call'[d].offline
               /\ call'[d].at # "new" /\ call'[d].kind = "code" => call'[d].src \in used'
    <3>1. CASE d = c
      BY <2>1, <2>3, <2>4, <3>1 DEF IInv, CallsOK
    <3>2. CASE d # c
      <4>1. call'[d] = call[d]
        BY <2>2, <3>2
      <4> QED
        BY <2>1, <2>4, <3>2, <4>1 DEF IInv, CallsOK
    <3> QED
      BY <3>1, <3>2
  <2> QED
    BY <2>5 DEF CallsOK
<1>13. ~ Past(c) /\ \A d \in Calls : Past(d) => d # c /\ Past(d)' /\ call'[d] = call[d]
                               /\ (refresh[d] = None => refresh'[d] = None)
                               /\ (access[d] = None => access'[d] = None)
  <2>1. ~ Past(c)
    BY <1>11 DEF Past
  <2>2. ASSUME NEW d \in Calls, Past(d)
        PROVE  d # c /\ call'[d] = call[d] /\ Past(d)'
    BY <1>3, <2>1, <2>2 DEF Past
  <2> QED
    BY <1>8, <1>9, <2>1, <2>2
<1>14. HistoryOK'
  BY <1>0, <1>1, <1>4, <1>5, <1>13 DEF IInv, TypeOK, HistoryOK, HandedOut, Past
<1>15. OneSuccessor'
  <2>1. \A x \in rotations : /\ Past(x[1]) /\ x[1] \in Calls
                             /\ refresh[x[1]] = None /\ access[x[1]] = None
    BY <1>0 DEF IInv, TypeOK, HistoryOK, HandedOut, Past, Dead, OneSuccessor
  <2>2. \A x \in rotations : x[1] # t /\ refresh'[x[1]] = None /\ access'[x[1]] = None
    BY <1>1, <1>13, <2>1
  <2>3. \A x, y \in rotations : x[1] = y[1] => x = y
    BY DEF IInv, Dead, OneSuccessor
  <2>4. <<t, c>>[1] = t
    OBVIOUS
  <2>5. \A x \in rotations' : x \in rotations \/ x = <<t, c>>
    BY <1>1
  <2>6. \A x \in rotations' : refresh'[x[1]] = None /\ access'[x[1]] = None
    BY <1>8, <1>9, <2>2, <2>4, <2>5
  <2>7. ASSUME NEW x \in rotations', NEW y \in rotations', x[1] = y[1]
        PROVE  x = y
    BY <2>2, <2>3, <2>4, <2>5, <2>7
  <2> QED
    BY <2>6, <2>7 DEF OneSuccessor
<1>18. RequestsOK'
  BY <1>1 DEF IInv, RequestsOK
<1>19. RevocationComplete'
  <2>1. refresh[t].user \in present /\ refresh[t].chain = epoch[refresh[t].user]
    BY <1>1, <1>4 DEF IInv, RevocationComplete
  <2>2. \A d \in Calls : refresh'[d] # None =>
          /\ refresh'[d].user \in present /\ refresh'[d].born = epoch[refresh'[d].user]
          /\ refresh'[d].chain = epoch[refresh'[d].user]
    <3>1. \A d \in Calls : refresh[d] # None =>
            /\ refresh[d].user \in present /\ refresh[d].born = epoch[refresh[d].user]
            /\ refresh[d].chain = epoch[refresh[d].user]
      BY DEF IInv, RevocationComplete
    <3> QED
      BY <1>7, <1>8, <2>1, <3>1
  <2>3. \A d \in Calls : access'[d] # None =>
          access'[d].user \in present /\ access'[d].born = epoch[access'[d].user]
    BY <1>9 DEF IInv, RevocationComplete
  <2> QED
    BY <1>11, <2>2, <2>3 DEF RevocationComplete
<1>20. CodeGoneAfterUse'
  BY <1>1, <1>3 DEF IInv, Dead, CodeGoneAfterUse
<1> QED
  BY <1>10, <1>12, <1>14, <1>15, <1>18, <1>19, <1>20 DEF IInv, Dead

\* A call that ends, in success or failure, keeps the invariant.
LEMMA EndKeeps ==
  ASSUME IInv, NEW c \in Calls, Finish(c) \/ Fail(c)
  PROVE  IInv'
<1>0. TypeOK
  BY DEF IInv
\* What both have in common.
<1>1. ASSUME NEW at \in {"done", "failed"}, MovesTo(c, at),
             call[c].at \in {"read", "access", "stored"},
             UNCHANGED <<accountVars, used, marks, tokenVars, revokeVars>>,
             RequestsOK', CodeGoneAfterUse', TypeOK'
      PROVE  IInv'
  <2>1. /\ call'[c].at = at /\ call'[c].kind = call[c].kind /\ call'[c].src = call[c].src
        /\ call'[c].offline = call[c].offline
        /\ \A d \in Calls \ {c} : call'[d] = call[d]
    BY <1>0, <1>1, MoveType
  <2>2. CallsOK'
    BY <1>1, <2>1 DEF IInv, CallsOK
  <2>3. \A d \in Calls : (Past(d) => Past(d)') /\ (HandedOut(d) => HandedOut(d)')
    BY <1>1, <2>1 DEF Past, HandedOut
  <2>4. HistoryOK'
    BY <1>0, <1>1, <2>3 DEF IInv, TypeOK, HistoryOK
  <2>5. RevocationComplete' /\ OneSuccessor'
    BY <1>1 DEF IInv, RevocationComplete, Dead, OneSuccessor
  <2> QED
    BY <1>1, <2>2, <2>4, <2>5 DEF IInv, Dead
<1>2. ASSUME Fail(c)
      PROVE  IInv'
  <2>1. /\ MovesTo(c, "failed") /\ call[c].at \in {"read", "access", "stored"}
        /\ UNCHANGED <<accountVars, signInVars, tokenVars, revokeVars>>
    BY <1>2 DEF Fail, MovesTo, Set, Begun
  <2>2. /\ call' \in [Calls -> {NewCall} \cup CodeCall \cup RefreshCall]
        /\ call'[c].at = "failed"
        /\ \A d \in Calls \ {c} : call'[d] = call[d]
    BY <1>0, <2>1, MoveType
  <2>3. TypeOK' /\ RequestsOK'
    BY <1>0, <2>1, <2>2 DEF TypeOK, IInv, RequestsOK
  <2>4. CodeGoneAfterUse'
    BY <2>1, <2>2 DEF IInv, Dead, CodeGoneAfterUse
  <2> QED
    BY <1>1, <2>1, <2>3, <2>4
<1>3. ASSUME Finish(c)
      PROVE  IInv'
  <2>1. /\ MovesTo(c, "done") /\ call[c].at = "stored"
        /\ UNCHANGED <<accountVars, used, marks, tokenVars, revokeVars>>
    BY <1>3 DEF Finish, MovesTo, Set, Begun
  <2>2. /\ call' \in [Calls -> {NewCall} \cup CodeCall \cup RefreshCall]
        /\ call'[c].at = "done" /\ call'[c].kind = call[c].kind /\ call'[c].src = call[c].src
        /\ \A d \in Calls \ {c} : call'[d] = call[d]
    BY <1>0, <2>1, MoveType
  <2>3. /\ req' \in [Requests -> ReqRow \cup {None}]
        /\ code' \in [Requests -> {"none", "valid", "expired"}]
        /\ \A r \in Requests : \/ req'[r] = req[r] /\ code'[r] = code[r]
                               \/ req'[r] = None /\ code'[r] = "none"
    BY <1>0, <1>3 DEF TypeOK, Finish
  <2>4. TypeOK' /\ RequestsOK'
    BY <1>0, <2>1, <2>2, <2>3 DEF TypeOK, IInv, RequestsOK
  <2>5. call[c].kind = "code" => call[c].src \in Requests
    <3>1. call[c].at # "new"
      BY <2>1
    <3> QED
      BY <1>0, <3>1, CallCases DEF CodeCall, RefreshCall
  <2>6. call[c].kind = "code" => req'[call[c].src] = None /\ code'[call[c].src] = "none"
    BY <1>0, <1>3, <2>5 DEF TypeOK, Finish
  <2>7. ASSUME NEW d \in Calls, call'[d].at = "done", call'[d].kind = "code"
        PROVE  req'[call'[d].src] = None /\ code'[call'[d].src] = "none"
    <3>1. CASE d = c
      BY <2>2, <2>6, <2>7, <3>1
    <3>2. CASE d # c
      <4>1. call'[d] = call[d]
        BY <2>2, <3>2
      <4>2. req[call[d].src] = None /\ code[call[d].src] = "none"
        BY <2>7, <4>1 DEF IInv, Dead, CodeGoneAfterUse
      <4>3. call[d].src \in Requests
        <5>1. call[d].at # "new"
          BY <2>7, <4>1
        <5> QED
          BY <1>0, <2>7, <4>1, <5>1, CallCases DEF CodeCall, RefreshCall
      <4> QED
        BY <2>3, <4>1, <4>2, <4>3
    <3> QED
      BY <3>1, <3>2
  <2> QED
    BY <1>1, <2>1, <2>4, <2>7 DEF CodeGoneAfterUse
<1> QED
  BY <1>2, <1>3

-----------------------------------------------------------------------------
\* Every step of the specification keeps the invariant.
LEMMA NextKeeps ==
  ASSUME IInv, [Next]_vars
  PROVE  IInv'
<1>1. ASSUME UNCHANGED vars
      PROVE  IInv'
  <2>1. TypeOK' /\ RequestsOK' /\ CallsOK' /\ HistoryOK'
    BY <1>1 DEF vars, IInv, TypeOK, RequestsOK, CallsOK, HistoryOK, Past, HandedOut
  <2>2. RevocationComplete' /\ Dead'
    BY <1>1 DEF vars, IInv, RevocationComplete, Dead, OneSuccessor, CodeGoneAfterUse
  <2> QED
    BY <2>1, <2>2 DEF IInv
<1>2. ASSUME NEW c \in Calls, CallStep(c)
      PROVE  IInv'
  BY <1>2, BeginKeeps, InsertAccessKeeps, InsertRefreshKeeps, RotateKeeps, EndKeeps
     DEF CallStep
<1> QED
  BY <1>1, <1>2, AccountKeeps, SignInKeeps, RevokeKeeps DEF Next

\* A database without requests and tokens satisfies the invariant.
LEMMA InitHolds == Init => IInv
<1> SUFFICES ASSUME Init PROVE IInv
  OBVIOUS
<1>1. TypeOK
  BY DEF Init, TypeOK
<1>2. RequestsOK /\ CallsOK /\ HistoryOK
  BY DEF Init, RequestsOK, CallsOK, HistoryOK, Past, NewCall
<1>3. RevocationComplete /\ Dead
  BY DEF Init, RevocationComplete, Dead, OneSuccessor, CodeGoneAfterUse, NewCall
<1> QED
  BY <1>1, <1>2, <1>3 DEF IInv

\* IInv is an invariant of the specification.
THEOREM TokensInvariance == Spec => []IInv
<1>1. IInv /\ [Next]_vars => IInv'
  BY NextKeeps
<1> QED
  BY <1>1, InitHolds, PTL DEF Spec

\* Type correctness of the OIDC tables and of what the calls hold.
THEOREM TokensTypeCorrect == Spec => []TypeOK
<1>1. IInv => TypeOK
  BY DEF IInv
<1> QED
  BY <1>1, TokensInvariance, PTL

\* A refresh token is rotated at most once, however many calls present it
\* together, and the rotation takes it and its access token away for good
\* (tokens.go rotateRefreshToken).
THEOREM RotatedOnce == Spec => []OneSuccessor
<1>1. IInv => OneSuccessor
  BY DEF IInv, Dead
<1> QED
  BY <1>1, TokensInvariance, PTL

\* Resets, demotions and deletions leave none of the user's tokens that existed,
\* and no rotation carries a chain of them over (users.go revokeSessions,
\* tokens.go rotateRefreshToken, 0001_init.sql).
THEOREM TokensRevoked == Spec => []RevocationComplete
<1>1. IInv => RevocationComplete
  BY DEF IInv
<1> QED
  BY <1>1, TokensInvariance, PTL

\* Once tokens were handed out for a code nothing brings the code or its request
\* back (storage.go DeleteAuthRequest, authrequest.go markAuthRequestComplete).
THEOREM CodesDie == Spec => []CodeGoneAfterUse
<1>1. IInv => CodeGoneAfterUse
  BY DEF IInv, Dead
<1> QED
  BY <1>1, TokensInvariance, PTL

-----------------------------------------------------------------------------
(* Clients that go away.                                                   *)

\* A refresh call presents a token of a call that is over with its inserts; as
\* long as the token is there, so is its client.
RefreshCallsOK ==
  \A c \in Calls : call[c].at # "new" /\ call[c].kind = "refresh" =>
    /\ call[c].src \in Calls /\ Past(call[c].src)
    /\ refresh[call[c].src] # None => client[refresh[call[c].src].client] = "live"

\* A step that keeps the calls' kind and source, lets no call go back, and
\* neither writes the tokens of calls that are past nor takes the client from
\* one that stays, keeps RefreshCallsOK.
LEMMA SourcesKept ==
  ASSUME RefreshCallsOK,
         \A c \in Calls : call'[c].at # "new" /\ call'[c].kind = "refresh" =>
            /\ call[c].at # "new" /\ call[c].kind = "refresh" /\ call'[c].src = call[c].src,
         \A c \in Calls : Past(c) =>
            /\ Past(c)'
            /\ refresh'[c] # None =>
                 refresh'[c] = refresh[c]
                 /\ (client[refresh[c].client] = "live" => client'[refresh[c].client] = "live")
  PROVE  RefreshCallsOK'
<1> SUFFICES ASSUME NEW c \in Calls, call'[c].at # "new", call'[c].kind = "refresh"
             PROVE  /\ call'[c].src \in Calls /\ Past(call[c].src)'
                    /\ refresh'[call'[c].src] # None =>
                         client'[refresh'[call'[c].src].client] = "live"
  BY DEF RefreshCallsOK, Past
<1>1. /\ call'[c].src = call[c].src /\ call[c].src \in Calls /\ Past(call[c].src)
      /\ refresh[call[c].src] # None => client[refresh[call[c].src].client] = "live"
  BY DEF RefreshCallsOK
<1>2. Past(call[c].src)'
  BY <1>1 DEF Past
<1> QED
  BY <1>1, <1>2

\* A call's own step keeps it.
LEMMA CallStepSources ==
  ASSUME IInv, RefreshCallsOK, NEW c \in Calls, CallStep(c)
  PROVE  RefreshCallsOK'
<1>0. TypeOK
  BY DEF IInv
<1>1. ASSUME NEW at, MovesTo(c, at), UNCHANGED client,
             ~ Past(c) => \A d \in Calls \ {c} : refresh'[d] = refresh[d] \/ refresh'[d] = None,
             Past(c) => at \in {"stored", "done", "failed"} /\ UNCHANGED refresh
      PROVE  RefreshCallsOK'
  <2>1. /\ call'[c].at = at /\ call'[c].kind = call[c].kind /\ call'[c].src = call[c].src
        /\ \A d \in Calls \ {c} : call'[d] = call[d]
    BY <1>0, <1>1, MoveType
  <2>2. \A d \in Calls : Past(d) => Past(d)'
    BY <1>1, <2>1 DEF Past
  <2> QED
    BY <1>1, <2>1, <2>2, SourcesKept DEF MovesTo
<1>2. ASSUME NEW r \in Requests, CodeBegin(c, r)
      PROVE  RefreshCallsOK'
  <2>1. call'[c].kind = "code" /\ \A d \in Calls \ {c} : call'[d] = call[d]
    BY <1>0, <1>2 DEF TypeOK, CodeBegin, Set
  <2>2. ~ Past(c) /\ UNCHANGED <<refresh, client>>
    BY <1>2 DEF CodeBegin, Past, tokenVars, accountVars
  <2>3. \A d \in Calls : Past(d) => Past(d)'
    BY <2>1, <2>2 DEF Past
  <2> QED
    BY <2>1, <2>2, <2>3, SourcesKept
<1>3. ASSUME NEW t \in Calls, RefreshBegin(c, t)
      PROVE  RefreshCallsOK'
  <2>1. call'[c].src = t /\ \A d \in Calls \ {c} : call'[d] = call[d]
    BY <1>0, <1>3 DEF TypeOK, RefreshBegin, Set
  <2>2. ~ Past(c) /\ UNCHANGED <<refresh, client>>
    BY <1>3 DEF RefreshBegin, Past, tokenVars, accountVars
  <2>3. refresh[t] # None /\ client[refresh[t].client] = "live"
    BY <1>3 DEF RefreshBegin
  <2>4. Past(t)
    BY <1>0, <2>3, CallCases DEF IInv, CallsOK, Past, Begun
  <2>5. \A d \in Calls : Past(d) => Past(d)'
    BY <2>1, <2>2 DEF Past
  <2> SUFFICES ASSUME NEW d \in Calls, call'[d].at # "new", call'[d].kind = "refresh"
               PROVE  /\ call'[d].src \in Calls /\ Past(call[d].src)'
                      /\ refresh'[call'[d].src] # None =>
                           client'[refresh'[call'[d].src].client] = "live"
    BY DEF RefreshCallsOK, Past
  <2>6. CASE d = c
    <3>1. call'[d].src = t
      BY <2>1, <2>6
    <3>2. Past(call[d].src)'
      BY <2>4, <2>5, <3>1 DEF Past
    <3> QED
      BY <2>2, <2>3, <3>1, <3>2
  <2>7. CASE d # c
    <3>1. call'[d] = call[d]
      BY <2>1, <2>7
    <3>2. /\ call[d].src \in Calls /\ Past(call[d].src)
          /\ refresh[call[d].src] # None => client[refresh[call[d].src].client] = "live"
      BY <3>1 DEF RefreshCallsOK
    <3>3. Past(call[d].src)'
      BY <2>5, <3>1, <3>2 DEF Past
    <3> QED
      BY <2>2, <3>1, <3>2, <3>3
  <2> QED
    BY <2>6, <2>7
<1>4. ASSUME insertAccessToken(c)
      PROVE  RefreshCallsOK'
  <2>1. MovesTo(c, IF call[c].offline THEN "access" ELSE "stored")
    BY <1>0, <1>4 DEF TypeOK, insertAccessToken, MovesTo, Set, Begun
  <2>2. ~ Past(c) /\ UNCHANGED <<refresh, client>>
    BY <1>4 DEF insertAccessToken, Past, accountVars
  <2> QED
    BY <1>1, <2>1, <2>2
<1>5. ASSUME insertRefreshToken(c)
      PROVE  RefreshCallsOK'
  <2>1. MovesTo(c, "stored")
    BY <1>5 DEF insertRefreshToken, MovesTo, Set, Begun
  <2>2. ~ Past(c) /\ UNCHANGED client
        /\ \A d \in Calls \ {c} : refresh'[d] = refresh[d]
    BY <1>0, <1>5 DEF TypeOK, insertRefreshToken, Past, accountVars
  <2> QED
    BY <1>1, <2>1, <2>2
<1>6. ASSUME rotateRefreshToken(c)
      PROVE  RefreshCallsOK'
  <2>1. MovesTo(c, "stored")
    BY <1>6 DEF rotateRefreshToken, RotateTo, MovesTo, Set, Begun
  <2>2. ~ Past(c) /\ UNCHANGED client
        /\ \A d \in Calls \ {c} : refresh'[d] = refresh[d] \/ refresh'[d] = None
    BY <1>0, <1>6 DEF TypeOK, rotateRefreshToken, RotateTo, Past, accountVars
  <2> QED
    BY <1>1, <2>1, <2>2
<1>7. ASSUME Finish(c) \/ Fail(c)
      PROVE  RefreshCallsOK'
  <2>1. \E at \in {"done", "failed"} : MovesTo(c, at)
    BY <1>7 DEF Finish, Fail, MovesTo, Set, Begun
  <2>2. UNCHANGED <<refresh, client>>
    BY <1>7 DEF Finish, Fail, tokenVars, accountVars
  <2> QED
    BY <1>1, <2>1, <2>2
<1> QED
  BY <1>2, <1>3, <1>4, <1>5, <1>6, <1>7 DEF CallStep

\* Every step keeps it: deleteClient removes the client's refresh tokens too.
LEMMA SourcesKeep ==
  ASSUME IInv, RefreshCallsOK, [Next]_vars
  PROVE  RefreshCallsOK'
<1>0. TypeOK
  BY DEF IInv
\* What all other steps have in common.
<1>1. ASSUME UNCHANGED call,
             \A c \in Calls : refresh'[c] # None =>
                refresh'[c] = refresh[c]
                /\ (client[refresh[c].client] = "live" => client'[refresh[c].client] = "live")
      PROVE  RefreshCallsOK'
  BY <1>1, SourcesKept DEF Past
<1>2. CASE UNCHANGED vars
  BY <1>1, <1>2 DEF vars
<1>3. ASSUME NEW u \in Users, ResetUser(u) \/ DeleteUser(u)
      PROVE  RefreshCallsOK'
  BY <1>1, <1>3 DEF ResetUser, DeleteUser, revokeSessions, Without
<1>4. ASSUME NEW k \in Clients, Provision(k)
      PROVE  RefreshCallsOK'
  BY <1>0, <1>1, <1>4 DEF TypeOK, Provision
<1>5. ASSUME NEW k \in Clients, deleteClient(k)
      PROVE  RefreshCallsOK'
  <2>1. /\ client' = [client EXCEPT ![k] = "gone"] /\ UNCHANGED call
        /\ refresh' = Without(refresh, LAMBDA row : row.client = k)
    BY <1>5 DEF deleteClient
  <2>2. \A c \in Calls : refresh'[c] # None =>
          refresh'[c] = refresh[c] /\ refresh[c].client # k
    BY <2>1 DEF Without
  <2>3. \A c \in Calls : refresh'[c] # None => refresh[c].client \in Clients
    BY <1>0, <2>2 DEF TypeOK, RefreshRow
  <2> QED
    BY <1>0, <1>1, <2>1, <2>2, <2>3 DEF TypeOK
<1>6. CASE SignInStep
  BY <1>1, <1>6 DEF SignInStep, CreateAuthRequest, Identify, SaveAuthCode, ExpireCode,
                    ExpireRequest, markAuthRequestComplete
<1>7. CASE RevokeStep
  <2>1. /\ UNCHANGED <<call, client>>
        /\ \A c \in Calls : refresh'[c] = refresh[c] \/ refresh'[c] = None
    BY <1>0, <1>7 DEF TypeOK, RevokeStep, DropAccess, ExpireRefresh, RevokeRefresh, RevokeUnknown,
                      RevokeLinked, RevokeStops, EndAccess, EndRefresh, Without
  <2> QED
    BY <1>1, <2>1
<1> QED
  BY <1>2, <1>3, <1>4, <1>5, <1>6, <1>7, CallStepSources DEF Next, AccountStep

\* A rotation writes a row whose client is live.
LEMMA RotationNeedsClient ==
  ASSUME IInv, RefreshCallsOK, [Next]_vars, NEW x \in rotations' \ rotations
  PROVE  client[refresh'[x[2]].client] = "live"
<1>0. TypeOK
  BY DEF IInv
<1>1. PICK c \in Calls : rotateRefreshToken(c)
  BY DEF Next, vars, AccountStep, ResetUser, DeleteUser, Provision, deleteClient, SignInStep,
         CreateAuthRequest, Identify, SaveAuthCode, ExpireCode, ExpireRequest,
         markAuthRequestComplete, CallStep, CodeBegin, RefreshBegin, insertAccessToken,
         insertRefreshToken, Finish, Fail, RevokeStep, DropAccess, ExpireRefresh,
         RevokeRefresh, RevokeUnknown, RevokeLinked, RevokeStops, EndAccess, EndRefresh
<1> DEFINE t == call[c].src
<1>2. /\ call[c].at = "access" /\ call[c].kind = "refresh" /\ refresh[t] # None
      /\ rotations' = rotations \cup {<<t, c>>}
      /\ refresh' = [refresh EXCEPT ![t] = None,
                                    ![c] = [refresh[t] EXCEPT !.born = epoch[refresh[t].user]]]
  BY <1>1 DEF rotateRefreshToken, RotateTo
<1>3. x[2] = c
  BY <1>2
<1>4. t \in Calls /\ client[refresh[t].client] = "live"
  BY <1>2 DEF RefreshCallsOK
<1>5. refresh[t] \in RefreshRow
  BY <1>0, <1>2, <1>4 DEF TypeOK
<1>6. refresh'[c].client = refresh[t].client
  BY <1>0, <1>2, <1>5 DEF TypeOK, RefreshRow
<1> QED
  BY <1>3, <1>4, <1>6

\* No refresh token is rotated for a client that was deleted, however long ago
\* the call checked its secret (clients.go deleteClient, tokens.go
\* rotateRefreshToken).
THEOREM RotationsEndWithClient == Spec => RotatedForLiveClient
<1>1. Init => RefreshCallsOK
  BY DEF Init, RefreshCallsOK, NewCall
<1>2. IInv /\ RefreshCallsOK /\ [Next]_vars => RefreshCallsOK'
  BY SourcesKeep
<1>3. IInv /\ RefreshCallsOK /\ [Next]_vars
      => [\A x \in rotations' \ rotations : client[refresh'[x[2]].client] = "live"]_vars
  BY RotationNeedsClient
<1> QED
  BY <1>1, <1>2, <1>3, TokensInvariance, PTL DEF Spec, RotatedForLiveClient

-----------------------------------------------------------------------------
(* What a revocation leaves.                                               *)

SameHolder(x, y) == x.user = y.user /\ x.client = y.client

\* What a call inserts, and the token it presents, belong to the user and the
\* client that it has read.
HoldersOK ==
  \A c \in Calls :
    /\ call[c].at # "new" /\ call[c].kind = "refresh" =>
         /\ call[c].src \in Calls /\ Past(call[c].src)
         /\ SameHolder(call[c], call[call[c].src])
    /\ access[c] # None => SameHolder(access[c], call[c])
    /\ refresh[c] # None => SameHolder(refresh[c], call[c])

\* An access token without its refresh token is being revoked, or was cut off.
SeveredOK ==
  \A t \in Calls :
    call[t].at \in {"stored", "done"} /\ call[t].offline /\ refresh[t] = None /\ access[t] # None
      => t \in revoking \/ t \in severed

\* A call that moves on keeps HoldersOK if the rows it writes are its own.
LEMMA MoveKeepsHolders ==
  ASSUME IInv, HoldersOK, NEW c \in Calls, NEW at, MovesTo(c, at),
         Past(c) => at \in {"stored", "done", "failed"},
         \A d \in Calls : access'[d] # None =>
            access'[d] = access[d] \/ (d = c /\ SameHolder(access'[c], call[c])),
         \A d \in Calls : refresh'[d] # None =>
            refresh'[d] = refresh[d] \/ (d = c /\ SameHolder(refresh'[c], call[c]))
  PROVE  HoldersOK'
<1>1. /\ call'[c].at = at /\ call'[c].kind = call[c].kind /\ call'[c].src = call[c].src
      /\ call'[c].user = call[c].user /\ call'[c].client = call[c].client
      /\ call[c].at # "new"
      /\ \A d \in Calls \ {c} : call'[d] = call[d]
  BY MoveType DEF MovesTo, IInv
<1>2. \A d \in Calls : (Past(d) => Past(d)') /\ SameHolder(call'[d], call[d])
  BY <1>1 DEF Past, SameHolder
<1>3. ASSUME NEW d \in Calls, call'[d].at # "new", call'[d].kind = "refresh"
      PROVE  /\ call'[d].src \in Calls /\ Past(call[d].src)'
             /\ SameHolder(call'[d], call'[call'[d].src])
  <2>1. call[d].at # "new" /\ call[d].kind = "refresh" /\ call'[d].src = call[d].src
    BY <1>1, <1>3
  <2>2. call[d].src \in Calls /\ Past(call[d].src) /\ SameHolder(call[d], call[call[d].src])
    BY <2>1 DEF HoldersOK
  <2>3. Past(call[d].src)' /\ SameHolder(call'[call[d].src], call[call[d].src])
    BY <1>2, <2>2, <2>1, <1>1 DEF Past
  <2> QED
    BY <1>2, <2>1, <2>2, <2>3 DEF SameHolder, Past
<1>4. ASSUME NEW d \in Calls
      PROVE  /\ access'[d] # None => SameHolder(access'[d], call'[d])
             /\ refresh'[d] # None => SameHolder(refresh'[d], call'[d])
  BY <1>2 DEF HoldersOK, SameHolder
<1> QED
  BY <1>3, <1>4 DEF HoldersOK

\* Every step of a call keeps HoldersOK.
LEMMA CallKeepsHolders ==
  ASSUME IInv, HoldersOK, NEW c \in Calls, CallStep(c)
  PROVE  HoldersOK'
<1>0. TypeOK
  BY DEF IInv
\* A call that begins reads from a row that is the holder's.
<1>1. ASSUME NEW st, call[c].at = "new", Set(c, st), UNCHANGED <<access, refresh>>,
             st.kind = "refresh" =>
               /\ st.src \in Calls /\ Past(st.src) /\ SameHolder(st, call[st.src])
      PROVE  HoldersOK'
  <2>1. call'[c] = st /\ \A d \in Calls \ {c} : call'[d] = call[d]
    BY <1>0, <1>1 DEF TypeOK, Set
  <2>2. ~ Past(c) /\ access[c] = None /\ refresh[c] = None
    BY <1>1 DEF IInv, CallsOK, Past
  <2>3. \A d \in Calls : Past(d) => d # c /\ call'[d] = call[d] /\ Past(d)'
    BY <2>1, <2>2 DEF Past
  <2>4. ASSUME NEW d \in Calls, call'[d].at # "new", call'[d].kind = "refresh"
        PROVE  /\ call'[d].src \in Calls /\ Past(call[d].src)'
               /\ SameHolder(call'[d], call'[call'[d].src])
    <3>1. call'[d].src \in Calls /\ Past(call'[d].src)
          /\ SameHolder(call'[d], call[call'[d].src])
      <4>1. CASE d = c
        BY <1>1, <2>1, <2>4, <4>1 DEF Past
      <4>2. CASE d # c
        <5>1. call'[d] = call[d]
          BY <2>1, <4>2
        <5> QED
          BY <2>4, <5>1 DEF HoldersOK, Past
      <4> QED
        BY <4>1, <4>2
    <3>2. \A e \in Calls : Past(e) => call'[e] = call[e] /\ Past(e)'
      BY <2>3
    <3> QED
      BY <3>1, <3>2 DEF Past
  <2>5. ASSUME NEW d \in Calls
        PROVE  /\ access'[d] # None => SameHolder(access'[d], call'[d])
               /\ refresh'[d] # None => SameHolder(refresh'[d], call'[d])
    BY <1>1, <2>1, <2>2 DEF HoldersOK
  <2> QED
    BY <2>4, <2>5 DEF HoldersOK
<1>2. ASSUME NEW r \in Requests, CodeBegin(c, r)
      PROVE  HoldersOK'
  <2>1. PICK st : /\ Set(c, st) /\ st.kind = "code"
                  /\ call[c].at = "new" /\ UNCHANGED <<access, refresh>>
    BY <1>2 DEF CodeBegin
  <2> QED
    BY <1>1, <2>1
<1>3. ASSUME NEW t \in Calls, RefreshBegin(c, t)
      PROVE  HoldersOK'
  <2>1. PICK st : /\ Set(c, st) /\ st.src = t /\ SameHolder(st, refresh[t])
                  /\ call[c].at = "new" /\ UNCHANGED <<access, refresh>>
    BY <1>3 DEF RefreshBegin, SameHolder
  <2>2. Past(t) /\ SameHolder(refresh[t], call[t])
    BY <1>3 DEF RefreshBegin, HandedOut, Past, HoldersOK
  <2> QED
    BY <1>1, <2>1, <2>2 DEF SameHolder
<1>4. ASSUME insertAccessToken(c)
      PROVE  HoldersOK'
  <2>1. /\ MovesTo(c, IF call[c].offline THEN "access" ELSE "stored") /\ ~ Past(c)
        /\ UNCHANGED refresh
    BY <1>0, <1>4 DEF TypeOK, insertAccessToken, MovesTo, Set, Begun, Past
  <2>2. /\ SameHolder(access'[c], call[c])
        /\ \A d \in Calls \ {c} : access'[d] = access[d]
    BY <1>0, <1>4 DEF TypeOK, insertAccessToken, SameHolder
  <2> QED
    BY <2>1, <2>2, MoveKeepsHolders
<1>5. ASSUME insertRefreshToken(c)
      PROVE  HoldersOK'
  <2>1. MovesTo(c, "stored") /\ ~ Past(c) /\ UNCHANGED access
    BY <1>5 DEF insertRefreshToken, MovesTo, Set, Begun, Past
  <2>2. /\ SameHolder(refresh'[c], call[c])
        /\ \A d \in Calls \ {c} : refresh'[d] = refresh[d]
    BY <1>0, <1>5 DEF TypeOK, insertRefreshToken, SameHolder
  <2> QED
    BY <2>1, <2>2, MoveKeepsHolders
<1>6. ASSUME rotateRefreshToken(c)
      PROVE  HoldersOK'
  <2>1. MovesTo(c, "stored") /\ ~ Past(c) /\ call[c].at = "access" /\ call[c].kind = "refresh"
    BY <1>6 DEF rotateRefreshToken, RotateTo, MovesTo, Set, Begun, Past
  <2>2. PICK t \in Calls : t = call[c].src /\ refresh[t] # None /\ SameHolder(call[c], call[t])
    BY <1>6, <2>1 DEF rotateRefreshToken, HoldersOK
  <2>3. refresh[t] \in RefreshRow /\ SameHolder(refresh[t], call[t])
    BY <1>0, <2>2 DEF TypeOK, HoldersOK
  <2>4. PICK row : row = [refresh[t] EXCEPT !.born = epoch[refresh[t].user]]
    OBVIOUS
  <2>5. SameHolder(row, call[c])
    BY <2>2, <2>3, <2>4 DEF SameHolder, RefreshRow
  <2>6. refresh' = [refresh EXCEPT ![t] = None, ![c] = row]
    BY <1>6, <2>2, <2>4 DEF rotateRefreshToken, RotateTo
  <2>7. /\ SameHolder(refresh'[c], call[c])
        /\ \A d \in Calls \ {c} : refresh'[d] = refresh[d] \/ refresh'[d] = None
    BY <1>0, <2>5, <2>6 DEF TypeOK
  <2>8. \A d \in Calls : access'[d] = access[d] \/ access'[d] = None
    BY <1>0, <1>6, <2>2 DEF TypeOK, rotateRefreshToken, RotateTo
  <2> QED
    BY <2>1, <2>7, <2>8, MoveKeepsHolders
<1>7. ASSUME Finish(c) \/ Fail(c)
      PROVE  HoldersOK'
  <2>1. \E at \in {"done", "failed"} : MovesTo(c, at)
    BY <1>7 DEF Finish, Fail, MovesTo, Set, Begun
  <2>2. UNCHANGED <<access, refresh>>
    BY <1>7 DEF Finish, Fail
  <2> QED
    BY <2>1, <2>2, MoveKeepsHolders
<1> QED
  BY <1>2, <1>3, <1>4, <1>5, <1>6, <1>7 DEF CallStep

\* The other steps read and insert nothing.
LEMMA QuietSteps ==
  ASSUME IInv, AccountStep \/ SignInStep \/ RevokeStep \/ UNCHANGED vars
  PROVE  /\ UNCHANGED call
         /\ \A c \in Calls : /\ access'[c] = access[c] \/ access'[c] = None
                             /\ refresh'[c] = refresh[c] \/ refresh'[c] = None
<1>0. TypeOK
  BY DEF IInv
<1>1. CASE AccountStep
  BY <1>1 DEF AccountStep, ResetUser, DeleteUser, Provision, deleteClient, revokeSessions, Without
<1>2. CASE SignInStep
  BY <1>2 DEF SignInStep, CreateAuthRequest, Identify, SaveAuthCode, ExpireCode,
              ExpireRequest, markAuthRequestComplete
<1>3. CASE RevokeStep
  BY <1>0, <1>3 DEF TypeOK, RevokeStep, DropAccess, ExpireRefresh, RevokeRefresh, RevokeUnknown,
                    RevokeLinked, RevokeStops, EndAccess, EndRefresh, Without
<1>4. CASE UNCHANGED vars
  BY <1>4 DEF vars
<1> QED
  BY <1>1, <1>2, <1>3, <1>4

LEMMA HoldersKeep ==
  ASSUME IInv, HoldersOK, [Next]_vars
  PROVE  HoldersOK'
<1>1. CASE AccountStep \/ SignInStep \/ RevokeStep \/ UNCHANGED vars
  BY <1>1, QuietSteps DEF HoldersOK, Past
<1> QED
  BY <1>1, CallKeepsHolders DEF Next

\* Revocations, logouts and expiry keep SeveredOK: whoever takes a refresh token
\* and leaves its access token is on record.
LEMMA RevokeKeepsSevered ==
  ASSUME IInv, SeveredOK, RevokeStep
  PROVE  SeveredOK'
<1>0. TypeOK /\ CallsOK /\ HistoryOK
  BY DEF IInv
<1>1. ASSUME NEW t \in Calls, DropAccess(t) \/ RevokeUnknown(t)
      PROVE  SeveredOK'
  BY <1>0, <1>1 DEF TypeOK, SeveredOK, DropAccess, RevokeUnknown
<1>2. ASSUME NEW t \in Calls, ExpireRefresh(t)
      PROVE  SeveredOK'
  BY <1>0, <1>2 DEF TypeOK, SeveredOK, ExpireRefresh
<1>3. ASSUME NEW t \in Calls, RevokeRefresh(t)
      PROVE  SeveredOK'
  BY <1>0, <1>3 DEF TypeOK, SeveredOK, RevokeRefresh
<1>4. ASSUME NEW t \in Calls, RevokeLinked(t)
      PROVE  SeveredOK'
  <2>1. access[t] # None => access[t].linked
    BY <1>0, <1>4 DEF RevokeLinked, HistoryOK, HandedOut, CallsOK
  <2>2. /\ access'[t] = None /\ \A d \in Calls \ {t} : access'[d] = access[d]
        /\ UNCHANGED <<call, refresh, severed>> /\ revoking' = revoking \ {t}
    BY <1>0, <1>4, <2>1 DEF TypeOK, RevokeLinked
  <2> QED
    BY <2>2 DEF SeveredOK
<1>5. ASSUME NEW t \in Calls, RevokeStops(t)
      PROVE  SeveredOK'
  BY <1>0, <1>5 DEF SeveredOK, RevokeStops
<1>6. ASSUME NEW u \in Users, NEW k \in Clients, EndAccess(u, k)
      PROVE  SeveredOK'
  BY <1>6 DEF SeveredOK, EndAccess, Without
<1>7. ASSUME NEW u \in Users, NEW k \in Clients, EndRefresh(u, k)
      PROVE  SeveredOK'
  <2>1. /\ UNCHANGED <<call, access, revoking>>
        /\ severed' = severed \cup {t \in Calls : refresh[t] # refresh'[t] /\ access[t] # None}
    BY <1>7 DEF EndRefresh
  <2> QED
    BY <2>1 DEF SeveredOK
<1> QED
  BY <1>1, <1>2, <1>3, <1>4, <1>5, <1>6, <1>7 DEF RevokeStep

\* Resets, deletions and the removal of a client take both tokens of a call,
\* because both have the same user and client.
LEMMA AccountKeepsSevered ==
  ASSUME IInv, HoldersOK, SeveredOK, AccountStep
  PROVE  SeveredOK'
<1>0. UNCHANGED <<call, revoking, severed>>
  BY DEF AccountStep, ResetUser, DeleteUser, Provision, deleteClient
<1>1. \A c \in Calls : refresh[c] # None /\ access[c] # None => SameHolder(access[c], refresh[c])
  BY DEF HoldersOK, SameHolder
<1>2. \A c \in Calls : refresh'[c] = None /\ access'[c] # None
                         => refresh[c] = None /\ access'[c] = access[c]
  <2>1. ASSUME NEW u \in Users, ResetUser(u) \/ DeleteUser(u)
        PROVE  <1>2!:
    BY <1>1, <2>1 DEF ResetUser, DeleteUser, revokeSessions, Without, SameHolder
  <2>2. ASSUME NEW k \in Clients, Provision(k) \/ deleteClient(k)
        PROVE  <1>2!:
    BY <1>1, <2>2 DEF Provision, deleteClient, Without, SameHolder
  <2> QED
    BY <2>1, <2>2 DEF AccountStep
<1> QED
  BY <1>0, <1>2 DEF SeveredOK

\* A call keeps SeveredOK: it gets past its inserts with both tokens or with an
\* access token alone, and a rotation takes both old ones.
LEMMA CallKeepsSevered ==
  ASSUME IInv, SeveredOK, NEW c \in Calls, CallStep(c)
  PROVE  SeveredOK'
<1>0. TypeOK /\ CallsOK
  BY DEF IInv
<1>1. UNCHANGED <<revoking, severed>>
  BY DEF CallStep, CodeBegin, RefreshBegin, insertAccessToken, insertRefreshToken,
         rotateRefreshToken, RotateTo, Finish, Fail
<1>2. ASSUME (\E r \in Requests : CodeBegin(c, r)) \/ (\E t \in Calls : RefreshBegin(c, t))
      PROVE  SeveredOK'
  <2>1. /\ call'[c].at = "read" /\ \A d \in Calls \ {c} : call'[d] = call[d]
        /\ UNCHANGED <<access, refresh>>
    BY <1>0, <1>2 DEF TypeOK, CodeBegin, RefreshBegin, Set
  <2> QED
    BY <1>1, <2>1 DEF SeveredOK
<1>3. ASSUME insertAccessToken(c)
      PROVE  SeveredOK'
  <2>1. MovesTo(c, IF call[c].offline THEN "access" ELSE "stored")
    BY <1>0, <1>3 DEF TypeOK, insertAccessToken, MovesTo, Set, Begun
  <2>2. /\ call'[c].at = IF call[c].offline THEN "access" ELSE "stored"
        /\ call'[c].offline = call[c].offline
        /\ \A d \in Calls \ {c} : call'[d] = call[d]
    BY <1>0, <2>1, MoveType
  <2>3. UNCHANGED refresh /\ \A d \in Calls \ {c} : access'[d] = access[d]
    BY <1>0, <1>3 DEF TypeOK, insertAccessToken
  <2> QED
    BY <1>1, <2>2, <2>3 DEF SeveredOK
<1>4. ASSUME insertRefreshToken(c)
      PROVE  SeveredOK'
  <2>1. MovesTo(c, "stored")
    BY <1>4 DEF insertRefreshToken, MovesTo, Set, Begun
  <2>2. \A d \in Calls \ {c} : call'[d] = call[d]
    BY <1>0, <2>1, MoveType
  <2>3. UNCHANGED access /\ \A d \in Calls \ {c} : refresh'[d] = refresh[d]
    BY <1>0, <1>4 DEF TypeOK, insertRefreshToken
  <2>4. call[c] \in CodeCall \cup RefreshCall
    BY <1>0, <1>4, CallCases DEF insertRefreshToken
  <2>5. call[c].client \in Clients /\ call[c].user \in Users /\ call[c].auth \in Nat
    BY <2>4 DEF CodeCall, RefreshCall
  <2>6. PICK row : row = [client |-> call[c].client, user |-> call[c].user,
                          auth |-> call[c].auth, born |-> epoch[call[c].user],
                          chain |-> epoch[call[c].user]]
    OBVIOUS
  <2>7. row \in RefreshRow
    BY <1>0, <2>5, <2>6 DEF TypeOK, RefreshRow
  <2>8. refresh'[c] = row
    BY <1>0, <1>4, <2>6 DEF TypeOK, insertRefreshToken
  <2>9. refresh'[c] # None
    BY <2>7, <2>8, TokensAssumption
  <2> QED
    BY <1>1, <2>2, <2>3, <2>9 DEF SeveredOK
<1>5. ASSUME rotateRefreshToken(c)
      PROVE  SeveredOK'
  <2>1. MovesTo(c, "stored") /\ call[c].at = "access" /\ call[c].kind = "refresh"
    BY <1>5 DEF rotateRefreshToken, RotateTo, MovesTo, Set, Begun
  <2>2. \A d \in Calls \ {c} : call'[d] = call[d]
    BY <1>0, <2>1, MoveType
  <2>3. PICK t : t = call[c].src
    OBVIOUS
  <2>4. t \in Calls
    BY <1>0, <2>1, <2>3, CallCases DEF CodeCall, RefreshCall
  <2>5. /\ refresh[t] # None /\ refresh[t] \in RefreshRow
        /\ access[t] # None => access[t].linked
        /\ t # c
    BY <1>0, <1>5, <2>1, <2>3, <2>4 DEF TypeOK, CallsOK, rotateRefreshToken
  <2>6. /\ access'[t] = None /\ \A d \in Calls \ {t} : access'[d] = access[d]
        /\ \A d \in Calls \ {t, c} : refresh'[d] = refresh[d]
    BY <1>0, <1>5, <2>3, <2>4, <2>5 DEF TypeOK, rotateRefreshToken, RotateTo
  <2>7. PICK row : row = [refresh[t] EXCEPT !.born = epoch[refresh[t].user]]
    OBVIOUS
  <2>8. row \in RefreshRow
    BY <1>0, <2>5, <2>7 DEF TypeOK, RefreshRow
  <2>9. refresh'[c] = row
    BY <1>0, <1>5, <2>3, <2>7 DEF TypeOK, rotateRefreshToken, RotateTo
  <2>10. refresh'[c] # None
    BY <2>8, <2>9, TokensAssumption
  <2> QED
    BY <1>1, <2>2, <2>6, <2>10 DEF SeveredOK
<1>6. ASSUME Finish(c) \/ Fail(c)
      PROVE  SeveredOK'
  <2>1. PICK at \in {"done", "failed"} :
          MovesTo(c, at) /\ (at = "done" => call[c].at = "stored")
    BY <1>6 DEF Finish, Fail, MovesTo, Set, Begun
  <2>2. /\ call'[c].at = at /\ call'[c].offline = call[c].offline
        /\ \A d \in Calls \ {c} : call'[d] = call[d]
    BY <1>0, <2>1, MoveType
  <2>3. UNCHANGED <<access, refresh>>
    BY <1>6 DEF Finish, Fail
  <2> QED
    BY <1>1, <2>1, <2>2, <2>3 DEF SeveredOK
<1> QED
  BY <1>2, <1>3, <1>4, <1>5, <1>6 DEF CallStep

LEMMA SeveredKeep ==
  ASSUME IInv, HoldersOK, SeveredOK, [Next]_vars
  PROVE  SeveredOK'
<1>1. CASE UNCHANGED vars
  BY <1>1 DEF vars, SeveredOK
<1>2. CASE SignInStep
  <2>1. UNCHANGED <<call, access, refresh, revoking, severed>>
    BY <1>2 DEF SignInStep, CreateAuthRequest, Identify, SaveAuthCode, ExpireCode,
                ExpireRequest, markAuthRequestComplete
  <2> QED
    BY <2>1 DEF SeveredOK
<1> QED
  BY <1>1, <1>2, AccountKeepsSevered, CallKeepsSevered, RevokeKeepsSevered DEF Next

\* When RevokeToken reports success, on the row or because there is none, the
\* refresh token and its access token are gone, except where another deletion of
\* the refresh token is half done, was cut off, or came from a logout that had
\* missed the access token (storage.go RevokeToken, TerminateSession).
THEOREM RevocationFinal == Spec => []RevokedStayDead
<1>1. Init => HoldersOK /\ SeveredOK
  BY DEF Init, HoldersOK, SeveredOK, NewCall
<1>2. IInv /\ HoldersOK /\ SeveredOK /\ [Next]_vars => HoldersOK' /\ SeveredOK'
  BY HoldersKeep, SeveredKeep
<1>3. IInv /\ SeveredOK => RevokedStayDead
  BY DEF IInv, TypeOK, HistoryOK, HandedOut, SeveredOK, RevokedStayDead
<1> QED
  BY <1>1, <1>2, <1>3, TokensInvariance, PTL DEF Spec

-----------------------------------------------------------------------------
(* Tokens as credentials: the refinement of module Credentials.            *)

\* A refresh token that changes at most from alive to gone, in a step in which
\* no call goes back to where it could insert one, at most ends as a credential.
LEMMA RefreshOnlyEnds ==
  ASSUME CallsOK, UNCHANGED <<present, epoch>>,
         \A c \in Calls : refresh'[c] = refresh[c] \/ refresh'[c] = None,
         \A c \in Calls : call'[c].at \in {"new", "read", "access"}
                            => call[c].at \in {"new", "read", "access"}
  PROVE  RefreshTokens!Next
<1> DEFINE S == {c \in Calls : RefreshCred'[c] # RefreshCred[c]}
<1>1. ASSUME NEW c \in Calls
      PROVE  RefreshCred'[c] \in {RefreshCred[c], RefreshTokens!Over}
  <2>1. CASE refresh'[c] = refresh[c] /\ refresh[c] # None
    BY <2>1 DEF RefreshCred
  <2>2. CASE refresh'[c] = None /\ call'[c].at \notin {"new", "read", "access"}
    BY <2>2 DEF RefreshCred, Unissued, RefreshTokens!Over
  <2>3. CASE refresh'[c] = None /\ call'[c].at \in {"new", "read", "access"}
    <3>1. refresh[c] = None /\ call[c].at \in {"new", "read", "access"}
      BY <2>3 DEF CallsOK
    <3> QED
      BY <2>3, <3>1 DEF RefreshCred, Unissued
  <2> QED
    BY <2>1, <2>2, <2>3
<1>2. RefreshCred' = [c \in Calls |-> RefreshCred'[c]]
  BY DEF RefreshCred
<1>3. RefreshCred' = RefreshTokens!Ended(S)
  BY <1>1, <1>2 DEF RefreshTokens!Ended
<1>4. S \in SUBSET Calls
  OBVIOUS
<1>5. RefreshTokens!End(S)
  BY <1>3 DEF RefreshTokens!End
<1> QED
  BY <1>4, <1>5 DEF RefreshTokens!Next

\* The same of access tokens.
LEMMA AccessOnlyEnds ==
  ASSUME CallsOK, UNCHANGED <<present, epoch>>,
         \A c \in Calls : access'[c] = access[c] \/ access'[c] = None,
         \A c \in Calls : call'[c].at \in {"new", "read"} => call[c].at \in {"new", "read"}
  PROVE  AccessTokens!Next
<1> DEFINE S == {c \in Calls : AccessCred'[c] # AccessCred[c]}
<1>1. ASSUME NEW c \in Calls
      PROVE  AccessCred'[c] \in {AccessCred[c], AccessTokens!Over}
  <2>1. CASE access'[c] = access[c] /\ access[c] # None
    BY <2>1 DEF AccessCred
  <2>2. CASE access'[c] = None /\ call'[c].at \notin {"new", "read"}
    BY <2>2 DEF AccessCred, Unissued, AccessTokens!Over
  <2>3. CASE access'[c] = None /\ call'[c].at \in {"new", "read"}
    <3>1. access[c] = None /\ call[c].at \in {"new", "read"}
      BY <2>3 DEF CallsOK
    <3> QED
      BY <2>3, <3>1 DEF AccessCred, Unissued
  <2> QED
    BY <2>1, <2>2, <2>3
<1>2. AccessCred' = [c \in Calls |-> AccessCred'[c]]
  BY DEF AccessCred
<1>3. AccessCred' = AccessTokens!Ended(S)
  BY <1>1, <1>2 DEF AccessTokens!Ended
<1>4. S \in SUBSET Calls
  OBVIOUS
<1>5. AccessTokens!End(S)
  BY <1>3 DEF AccessTokens!End
<1> QED
  BY <1>4, <1>5 DEF AccessTokens!Next

\* The step that ends exactly the tokens of one user: what resets and deletions
\* have in common.
LEMMA AllOfUserEnd ==
  ASSUME CallsOK, NEW u \in Users, UNCHANGED call,
         access' = Without(access, LAMBDA row : row.user = u),
         refresh' = Without(refresh, LAMBDA row : row.user = u)
  PROVE  /\ AccessCred' = AccessTokens!Ended(AccessTokens!Of(u))
         /\ RefreshCred' = RefreshTokens!Ended(RefreshTokens!Of(u))
<1>1. ASSUME NEW c \in Calls
      PROVE  /\ access'[c] = IF access[c] # None /\ access[c].user = u THEN None ELSE access[c]
             /\ refresh'[c] = IF refresh[c] # None /\ refresh[c].user = u THEN None ELSE refresh[c]
  BY DEF Without
<1>2. ASSUME NEW c \in Calls
      PROVE  /\ c \in AccessTokens!Of(u) <=> access[c] # None /\ access[c].user = u
             /\ c \in RefreshTokens!Of(u) <=> refresh[c] # None /\ refresh[c].user = u
  BY DEF AccessTokens!Of, AccessTokens!Live, RefreshTokens!Of, RefreshTokens!Live,
         AccessCred, RefreshCred, Issued, Unissued
<1>3. ASSUME NEW c \in Calls
      PROVE  AccessCred'[c] = IF c \in AccessTokens!Of(u) THEN AccessTokens!Over ELSE AccessCred[c]
  <2>1. CASE access[c] # None /\ access[c].user = u
    <3>1. access'[c] = None /\ call'[c].at \notin {"new", "read"}
      BY <1>1, <2>1 DEF CallsOK
    <3> QED
      BY <1>2, <2>1, <3>1 DEF AccessCred, Unissued, AccessTokens!Over
  <2>2. CASE ~ (access[c] # None /\ access[c].user = u)
    <3>1. access'[c] = access[c]
      BY <1>1, <2>2
    <3> QED
      BY <1>2, <2>2, <3>1 DEF AccessCred, Unissued
  <2> QED
    BY <2>1, <2>2
<1>4. ASSUME NEW c \in Calls
      PROVE  RefreshCred'[c] = IF c \in RefreshTokens!Of(u) THEN RefreshTokens!Over
                                                            ELSE RefreshCred[c]
  <2>1. CASE refresh[c] # None /\ refresh[c].user = u
    <3>1. refresh'[c] = None /\ call'[c].at \notin {"new", "read", "access"}
      BY <1>1, <2>1 DEF CallsOK
    <3> QED
      BY <1>2, <2>1, <3>1 DEF RefreshCred, Unissued, RefreshTokens!Over
  <2>2. CASE ~ (refresh[c] # None /\ refresh[c].user = u)
    <3>1. refresh'[c] = refresh[c]
      BY <1>1, <2>2
    <3> QED
      BY <1>2, <2>2, <3>1 DEF RefreshCred, Unissued
  <2> QED
    BY <2>1, <2>2
<1>5. AccessCred' = [c \in Calls |-> AccessCred'[c]]
      /\ RefreshCred' = [c \in Calls |-> RefreshCred'[c]]
  BY DEF AccessCred, RefreshCred
<1> QED
  BY <1>3, <1>4, <1>5 DEF AccessTokens!Ended, RefreshTokens!Ended

\* A reset signs the user out, a deletion takes his account, and everything else
\* about accounts and clients at most ends tokens.
LEMMA AccountRefines ==
  ASSUME IInv, AccountStep
  PROVE  AccessTokens!Next /\ RefreshTokens!Next
<1>0. TypeOK /\ CallsOK
  BY DEF IInv
<1>1. ASSUME NEW u \in Users, ResetUser(u)
      PROVE  AccessTokens!Next /\ RefreshTokens!Next
  <2>1. /\ u \in present /\ UNCHANGED <<present, call>>
        /\ epoch' = [epoch EXCEPT ![u] = @ + 1]
        /\ access' = Without(access, LAMBDA row : row.user = u)
        /\ refresh' = Without(refresh, LAMBDA row : row.user = u)
    BY <1>1 DEF ResetUser, revokeSessions
  <2>2. /\ AccessCred' = AccessTokens!Ended(AccessTokens!Of(u))
        /\ RefreshCred' = RefreshTokens!Ended(RefreshTokens!Of(u))
    BY <1>0, <2>1, AllOfUserEnd
  <2>3. AccessTokens!SignOut(u) /\ RefreshTokens!SignOut(u)
    BY <2>1, <2>2 DEF AccessTokens!SignOut, RefreshTokens!SignOut
  <2> QED
    BY <2>3 DEF AccessTokens!Next, RefreshTokens!Next
<1>2. ASSUME NEW u \in Users, DeleteUser(u)
      PROVE  AccessTokens!Next /\ RefreshTokens!Next
  <2>1. /\ u \in present /\ present' = present \ {u} /\ UNCHANGED <<epoch, call>>
        /\ access' = Without(access, LAMBDA row : row.user = u)
        /\ refresh' = Without(refresh, LAMBDA row : row.user = u)
    BY <1>2 DEF DeleteUser
  <2>2. /\ AccessCred' = AccessTokens!Ended(AccessTokens!Of(u))
        /\ RefreshCred' = RefreshTokens!Ended(RefreshTokens!Of(u))
    BY <1>0, <2>1, AllOfUserEnd
  <2>3. AccessTokens!Leave(u) /\ RefreshTokens!Leave(u)
    BY <2>1, <2>2 DEF AccessTokens!Leave, RefreshTokens!Leave
  <2> QED
    BY <2>3 DEF AccessTokens!Next, RefreshTokens!Next
<1>3. ASSUME NEW k \in Clients, Provision(k) \/ deleteClient(k)
      PROVE  AccessTokens!Next /\ RefreshTokens!Next
  <2>1. UNCHANGED <<present, epoch, call>>
    BY <1>3 DEF Provision, deleteClient
  <2>2. \A c \in Calls : /\ access'[c] = access[c] \/ access'[c] = None
                         /\ refresh'[c] = refresh[c] \/ refresh'[c] = None
    BY <1>3 DEF Provision, deleteClient, Without
  <2> QED
    BY <1>0, <2>1, <2>2, AccessOnlyEnds, RefreshOnlyEnds
<1> QED
  BY <1>1, <1>2, <1>3 DEF AccountStep

\* Signing in leaves the tokens alone; revocation, logout and expiry end some.
LEMMA QuietRefines ==
  ASSUME IInv, SignInStep \/ RevokeStep \/ UNCHANGED vars
  PROVE  AccessTokens!Next /\ RefreshTokens!Next
<1>0. TypeOK /\ CallsOK
  BY DEF IInv
<1>1. UNCHANGED <<present, epoch, call>>
  <2>1. CASE SignInStep
    BY <2>1 DEF SignInStep, CreateAuthRequest, Identify, SaveAuthCode, ExpireCode,
                ExpireRequest, markAuthRequestComplete
  <2>2. CASE RevokeStep
    BY <2>2 DEF RevokeStep, DropAccess, ExpireRefresh, RevokeRefresh, RevokeUnknown,
                RevokeLinked, RevokeStops, EndAccess, EndRefresh
  <2>3. CASE UNCHANGED vars
    BY <2>3 DEF vars
  <2> QED
    BY <2>1, <2>2, <2>3
<1>2. \A c \in Calls : /\ access'[c] = access[c] \/ access'[c] = None
                       /\ refresh'[c] = refresh[c] \/ refresh'[c] = None
  <2>1. CASE SignInStep
    BY <2>1 DEF SignInStep, CreateAuthRequest, Identify, SaveAuthCode, ExpireCode,
                ExpireRequest, markAuthRequestComplete
  <2>2. ASSUME NEW t \in Calls, DropAccess(t) \/ ExpireRefresh(t) \/ RevokeRefresh(t)
                                \/ RevokeUnknown(t) \/ RevokeLinked(t) \/ RevokeStops(t)
        PROVE  \A c \in Calls : /\ access'[c] = access[c] \/ access'[c] = None
                                /\ refresh'[c] = refresh[c] \/ refresh'[c] = None
    BY <1>0, <2>2 DEF TypeOK, DropAccess, ExpireRefresh, RevokeRefresh, RevokeUnknown,
                      RevokeLinked, RevokeStops
  <2>3. ASSUME NEW u \in Users, NEW k \in Clients, EndAccess(u, k) \/ EndRefresh(u, k)
        PROVE  \A c \in Calls : /\ access'[c] = access[c] \/ access'[c] = None
                                /\ refresh'[c] = refresh[c] \/ refresh'[c] = None
    BY <2>3 DEF EndAccess, EndRefresh, Without
  <2>4. CASE UNCHANGED vars
    BY <2>4 DEF vars
  <2> QED
    BY <2>1, <2>2, <2>3, <2>4 DEF RevokeStep
<1> QED
  BY <1>0, <1>1, <1>2, AccessOnlyEnds, RefreshOnlyEnds

\* A step of a call that inserts nothing at most ends its unborn tokens.
LEMMA IdleCallRefines ==
  ASSUME IInv, NEW c \in Calls,
         \/ \E r \in Requests : CodeBegin(c, r)
         \/ \E t \in Calls : RefreshBegin(c, t)
         \/ Finish(c)
         \/ Fail(c)
  PROVE  AccessTokens!Next /\ RefreshTokens!Next
<1>0. TypeOK /\ CallsOK
  BY DEF IInv
<1>1. UNCHANGED <<present, epoch, access, refresh>>
  BY DEF CodeBegin, RefreshBegin, Finish, Fail
<1>2. /\ call[c].at = "new" \/ (call[c].at # "new" /\ call'[c].at \in {"done", "failed"})
      /\ \A d \in Calls \ {c} : call'[d] = call[d]
  <2>1. CASE \/ \E r \in Requests : CodeBegin(c, r)
             \/ \E t \in Calls : RefreshBegin(c, t)
    BY <1>0, <2>1 DEF TypeOK, CodeBegin, RefreshBegin, Set
  <2>2. CASE Finish(c) \/ Fail(c)
    <3>1. PICK at \in {"done", "failed"} : MovesTo(c, at)
      BY <2>2 DEF Finish, Fail, MovesTo, Set, Begun
    <3> QED
      BY <1>0, <3>1, MoveType DEF MovesTo
  <2> QED
    BY <2>1, <2>2
<1>3. \A d \in Calls :
        /\ call'[d].at \in {"new", "read"} => call[d].at \in {"new", "read"}
        /\ call'[d].at \in {"new", "read", "access"} => call[d].at \in {"new", "read", "access"}
  BY <1>2
<1> QED
  BY <1>0, <1>1, <1>3, AccessOnlyEnds, RefreshOnlyEnds

\* insertAccessToken gives out an access token; without offline access it also
\* settles that no refresh token comes.
LEMMA InsertAccessRefines ==
  ASSUME IInv, NEW c \in Calls, insertAccessToken(c)
  PROVE  AccessTokens!Next /\ RefreshTokens!Next
<1> DEFINE at == IF call[c].offline THEN "access" ELSE "stored"
           row == [client |-> call[c].client, user |-> call[c].user,
                   born |-> epoch[call[c].user], linked |-> call[c].offline]
<1>0. TypeOK /\ CallsOK
  BY DEF IInv
<1>1. /\ call[c].at = "read" /\ call[c].user \in present
      /\ access' = [access EXCEPT ![c] = row] /\ MovesTo(c, at)
      /\ UNCHANGED <<present, epoch, refresh>>
  BY DEF insertAccessToken, Set, MovesTo, Begun
<1>2. call'[c].at = at /\ \A d \in Calls \ {c} : call'[d] = call[d]
  BY <1>0, <1>1, MoveType
<1>3. RefreshTokens!Next
  <2>1. \A d \in Calls : call'[d].at \in {"new", "read", "access"}
                           => call[d].at \in {"new", "read", "access"}
    BY <1>1, <1>2
  <2> QED
    BY <1>0, <1>1, <2>1, RefreshOnlyEnds
<1>4. call[c].client \in Clients /\ call[c].user \in Users
  BY <1>0, <1>1, CallCases DEF CodeCall, RefreshCall
<1>5. row \in AccessRow
  <2>1. call[c].offline \in BOOLEAN
    BY <1>0, <1>1, CallCases DEF CodeCall, RefreshCall
  <2> QED
    BY <1>0, <1>4, <2>1 DEF TypeOK, AccessRow
<1>6. access'[c] = row /\ row # None /\ \A d \in Calls \ {c} : access'[d] = access[d]
  BY <1>0, <1>1, <1>5, TokensAssumption DEF TypeOK
<1>7. AccessCred[c] = AccessTokens!Unborn
  BY <1>0, <1>1 DEF CallsOK, AccessCred, Unissued, AccessTokens!Unborn
<1>8. AccessCred'[c] = AccessTokens!Granted(call[c].user, call[c].client, epoch[call[c].user])
  BY <1>6 DEF AccessCred, Issued, AccessTokens!Granted
<1>9. ASSUME NEW d \in Calls \ {c}
      PROVE  AccessCred'[d] = AccessCred[d]
  BY <1>2, <1>6 DEF AccessCred, Unissued
<1>10. AccessCred' = [AccessCred EXCEPT
         ![c] = AccessTokens!Granted(call[c].user, call[c].client, epoch[call[c].user])]
  BY <1>8, <1>9 DEF AccessCred
<1>11. AccessTokens!Give(c, call[c].user, call[c].client)
  BY <1>1, <1>7, <1>10 DEF AccessTokens!Give
<1> QED
  BY <1>3, <1>4, <1>11 DEF AccessTokens!Next

\* insertRefreshToken gives out the first token of a chain.
LEMMA InsertRefreshRefines ==
  ASSUME IInv, NEW c \in Calls, insertRefreshToken(c)
  PROVE  AccessTokens!Next /\ RefreshTokens!Next
<1> DEFINE row == [client |-> call[c].client, user |-> call[c].user,
                   auth |-> call[c].auth, born |-> epoch[call[c].user],
                   chain |-> epoch[call[c].user]]
<1>0. TypeOK /\ CallsOK
  BY DEF IInv
<1>1. /\ call[c].at = "access" /\ call[c].user \in present
      /\ refresh' = [refresh EXCEPT ![c] = row] /\ MovesTo(c, "stored")
      /\ UNCHANGED <<present, epoch, access>>
  BY DEF insertRefreshToken, Set, MovesTo, Begun
<1>2. call'[c].at = "stored" /\ \A d \in Calls \ {c} : call'[d] = call[d]
  BY <1>0, <1>1, MoveType
<1>3. AccessTokens!Next
  <2>1. \A d \in Calls : call'[d].at \in {"new", "read"} => call[d].at \in {"new", "read"}
    BY <1>1, <1>2
  <2> QED
    BY <1>0, <1>1, <2>1, AccessOnlyEnds
<1>4. call[c].client \in Clients /\ call[c].user \in Users /\ call[c].auth \in Nat
  BY <1>0, <1>1, CallCases DEF CodeCall, RefreshCall
<1>5. row \in RefreshRow
  BY <1>0, <1>4 DEF TypeOK, RefreshRow
<1>6. refresh'[c] = row /\ row # None /\ \A d \in Calls \ {c} : refresh'[d] = refresh[d]
  BY <1>0, <1>1, <1>5, TokensAssumption DEF TypeOK
<1>7. RefreshCred[c] = RefreshTokens!Unborn
  BY <1>0, <1>1 DEF CallsOK, RefreshCred, Unissued, RefreshTokens!Unborn
<1>8. RefreshCred'[c] = RefreshTokens!Granted(call[c].user, call[c].client, epoch[call[c].user])
  BY <1>6 DEF RefreshCred, Issued, RefreshTokens!Granted
<1>9. ASSUME NEW d \in Calls \ {c}
      PROVE  RefreshCred'[d] = RefreshCred[d]
  BY <1>2, <1>6 DEF RefreshCred, Unissued
<1>10. RefreshCred' = [RefreshCred EXCEPT
         ![c] = RefreshTokens!Granted(call[c].user, call[c].client, epoch[call[c].user])]
  BY <1>8, <1>9 DEF RefreshCred
<1>11. RefreshTokens!Give(c, call[c].user, call[c].client)
  BY <1>1, <1>7, <1>10 DEF RefreshTokens!Give
<1> QED
  BY <1>3, <1>4, <1>11 DEF RefreshTokens!Next

\* A rotation renews the refresh token that is there when it commits, and ends
\* the access token that came with it.
LEMMA RotateRefines ==
  ASSUME IInv, NEW c \in Calls, rotateRefreshToken(c)
  PROVE  AccessTokens!Next /\ RefreshTokens!Next
<1> DEFINE t == call[c].src
           row == [refresh[t] EXCEPT !.born = epoch[refresh[t].user]]
<1>0. TypeOK /\ CallsOK
  BY DEF IInv
<1>1. /\ call[c].at = "access" /\ call[c].kind = "refresh" /\ refresh[t] # None
      /\ refresh' = [refresh EXCEPT ![t] = None, ![c] = row]
      /\ access' = IF access[t] # None /\ access[t].linked
                     THEN [access EXCEPT ![t] = None] ELSE access
      /\ MovesTo(c, "stored")
      /\ UNCHANGED <<present, epoch>>
  BY DEF rotateRefreshToken, RotateTo, Set, MovesTo, Begun
<1>2. call'[c].at = "stored" /\ \A d \in Calls \ {c} : call'[d] = call[d]
  BY <1>0, <1>1, MoveType
<1>3. t \in Calls
  <2>1. call[c] \in RefreshCall
    BY <1>0, <1>1, CallCases DEF CodeCall
  <2> QED
    BY <2>1 DEF RefreshCall
<1>4. t # c /\ refresh[c] = None /\ call[t].at \notin {"new", "read", "access"}
  BY <1>0, <1>1, <1>3 DEF CallsOK
<1>5. refresh[t] \in RefreshRow
  BY <1>0, <1>1, <1>3 DEF TypeOK
<1>6. /\ row \in RefreshRow /\ row.user = refresh[t].user /\ row.client = refresh[t].client
      /\ row.chain = refresh[t].chain
  BY <1>0, <1>5 DEF TypeOK, RefreshRow
<1> HIDE DEF row, t
<1>7. AccessTokens!Next
  <2>1. \A d \in Calls : access'[d] = access[d] \/ access'[d] = None
    BY <1>0, <1>1, <1>3 DEF TypeOK
  <2>2. \A d \in Calls : call'[d].at \in {"new", "read"} => call[d].at \in {"new", "read"}
    BY <1>1, <1>2
  <2> QED
    BY <1>0, <1>1, <2>1, <2>2, AccessOnlyEnds
<1>8. /\ refresh'[c] = row /\ row # None /\ refresh'[t] = None
      /\ \A d \in Calls \ {c, t} : refresh'[d] = refresh[d]
  BY <1>0, <1>1, <1>3, <1>4, <1>6, TokensAssumption DEF TypeOK
<1>9. RefreshCred[c] = RefreshTokens!Unborn
  BY <1>1, <1>4 DEF RefreshCred, Unissued, RefreshTokens!Unborn
<1>10. RefreshTokens!Live(t)
  BY <1>1, <1>3 DEF RefreshTokens!Live, RefreshCred, Issued
<1>11. RefreshCred'[c] = RefreshCred[t]
  BY <1>1, <1>3, <1>6, <1>8 DEF RefreshCred, Issued
<1>12. RefreshCred'[t] = RefreshTokens!Over
  <2>1. call'[t].at \notin {"new", "read", "access"}
    BY <1>2, <1>3, <1>4
  <2> QED
    BY <1>3, <1>8, <2>1 DEF RefreshCred, Unissued, RefreshTokens!Over
<1>13. ASSUME NEW d \in Calls \ {c, t}
       PROVE  RefreshCred'[d] = RefreshCred[d]
  BY <1>2, <1>8 DEF RefreshCred, Unissued
<1>14. RefreshCred' = [RefreshCred EXCEPT ![t] = RefreshTokens!Over, ![c] = RefreshCred[t]]
  BY <1>3, <1>4, <1>11, <1>12, <1>13 DEF RefreshCred
<1>15. RefreshTokens!Renew(t, c)
  BY <1>1, <1>9, <1>10, <1>14 DEF RefreshTokens!Renew
<1> QED
  BY <1>3, <1>7, <1>15 DEF RefreshTokens!Next

\* The token tables, with the calls that fill and empty them, implement
\* Credentials: what is given out once, renewed and ended for good
\* (tokens.go insertAccessToken, insertRefreshToken and rotateRefreshToken,
\* users.go revokeSessions, clients.go deleteClient, storage.go).
THEOREM TokensImplementCredentials == Spec => TokensAreCredentials
<1>1. Init => AccessTokens!Init /\ RefreshTokens!Init
  BY DEF Init, NewCall, AccessCred, RefreshCred, Unissued, AccessTokens!Init,
         RefreshTokens!Init, AccessTokens!Unborn, RefreshTokens!Unborn
<1>2. IInv /\ [Next]_vars => [AccessTokens!Next]_(AccessTokens!vars)
                             /\ [RefreshTokens!Next]_(RefreshTokens!vars)
  <2> SUFFICES ASSUME IInv, [Next]_vars
               PROVE  AccessTokens!Next /\ RefreshTokens!Next
    OBVIOUS
  <2> QED
    BY AccountRefines, QuietRefines, IdleCallRefines, InsertAccessRefines,
       InsertRefreshRefines, RotateRefines DEF Next, CallStep
<1> QED
  BY <1>1, <1>2, TokensInvariance, PTL
     DEF Spec, TokensAreCredentials, AccessTokens!Spec, RefreshTokens!Spec

-----------------------------------------------------------------------------
(* What the broken promise lacks: GrantsFollowReset fails only through a    *)
(* sign-in that a reset does not revoke.                                    *)

\* A sign-in of the user that has not come to a refresh token yet: the login
\* page knows him, his request is completed, or a call has read his code.
SignInPending(u) ==
  \/ \E m \in marks : m.user = u
  \/ \E r \in Requests : req[r] # None /\ req[r].user = u
  \/ \E c \in Calls : /\ call[c].at \in {"read", "access"} /\ call[c].kind = "code"
                      /\ call[c].user = u

\* Nobody is signed out everywhere while a sign-in of his is pending.
ResetsWait == \A u \in Users : epoch'[u] # epoch[u] => ~ SignInPending(u)

\* Whatever is pending is from the user's present epoch.
SignInsCurrent ==
  /\ \A m \in marks : m.auth = epoch[m.user]
  /\ \A r \in Requests :
       req[r] # None => req[r].user = None \/ req[r].auth = epoch[req[r].user]
  /\ \A c \in Calls :
       call[c].at \in {"read", "access"} /\ call[c].kind = "code"
         => call[c].auth = epoch[call[c].user]

\* A reset that waits leaves nothing of the user behind.
LEMMA ResetKeepsGrants ==
  ASSUME IInv, SignInsCurrent, GrantsFollowReset, NEW u \in Users, ResetUser(u), ResetsWait
  PROVE  SignInsCurrent' /\ GrantsFollowReset'
<1>0. TypeOK
  BY DEF IInv
<1>1. /\ epoch' = [epoch EXCEPT ![u] = @ + 1]
      /\ refresh' = Without(refresh, LAMBDA row : row.user = u)
      /\ UNCHANGED <<marks, req, call>>
  BY DEF ResetUser, revokeSessions
<1>2. epoch'[u] # epoch[u] /\ \A v \in Users \ {u} : epoch'[v] = epoch[v]
  BY <1>0, <1>1 DEF TypeOK
<1>3. ~ SignInPending(u)
  BY <1>2 DEF ResetsWait
<1>4. \A m \in marks : m.user \in Users \ {u}
  BY <1>0, <1>3 DEF TypeOK, Mark, SignInPending
<1>5. \A r \in Requests : req[r] # None => req[r].user \in (Users \cup {None}) \ {u}
  BY <1>0, <1>3 DEF TypeOK, ReqRow, SignInPending
<1>6. ASSUME NEW c \in Calls, call[c].at \in {"read", "access"}, call[c].kind = "code"
      PROVE  call[c].user \in Users \ {u}
  BY <1>0, <1>3, <1>6, CallCases DEF SignInPending, CodeCall, RefreshCall
<1>7. SignInsCurrent'
  BY <1>1, <1>2, <1>4, <1>5, <1>6 DEF SignInsCurrent
<1>8. ASSUME NEW c \in Calls, refresh'[c] # None
      PROVE  refresh'[c] = refresh[c] /\ refresh[c] # None /\ refresh[c].user \in Users \ {u}
  BY <1>0, <1>1, <1>8 DEF Without, TypeOK, RefreshRow
<1>9. GrantsFollowReset'
  BY <1>2, <1>8 DEF GrantsFollowReset
<1> QED
  BY <1>7, <1>9

\* The steps of a sign-in hand the epoch on.
LEMMA SignInKeepsGrants ==
  ASSUME IInv, SignInsCurrent, SignInStep
  PROVE  SignInsCurrent'
<1>0. TypeOK
  BY DEF IInv
<1>1. UNCHANGED <<epoch, call>>
  BY DEF SignInStep, CreateAuthRequest, Identify, SaveAuthCode, ExpireCode, ExpireRequest,
         markAuthRequestComplete
\* What all of them have in common.
<1>2. ASSUME \A m \in marks' : m \in marks \/ m.auth = epoch[m.user],
             \A r \in Requests : \/ req'[r] = req[r] \/ req'[r] = None
                                 \/ req'[r].user = None
                                 \/ req'[r].auth = epoch[req'[r].user]
      PROVE  SignInsCurrent'
  BY <1>1, <1>2 DEF SignInsCurrent
<1>3. ASSUME NEW r \in Requests, NEW k \in Clients, NEW off \in BOOLEAN,
             CreateAuthRequest(r, k, off)
      PROVE  SignInsCurrent'
  BY <1>0, <1>2, <1>3 DEF CreateAuthRequest, TypeOK
<1>4. ASSUME NEW r \in Requests, NEW u \in Users, Identify(r, u)
      PROVE  SignInsCurrent'
  BY <1>2, <1>4 DEF Identify
<1>5. ASSUME NEW r \in Requests, SaveAuthCode(r) \/ ExpireCode(r) \/ ExpireRequest(r)
      PROVE  SignInsCurrent'
  BY <1>0, <1>2, <1>5 DEF SaveAuthCode, ExpireCode, ExpireRequest, TypeOK
<1>6. ASSUME NEW m \in marks, markAuthRequestComplete(m)
      PROVE  SignInsCurrent'
  <2>1. m.req \in Requests /\ m.auth = epoch[m.user]
    BY <1>0 DEF TypeOK, Mark, SignInsCurrent
  <2>2. marks' \subseteq marks
    BY <1>6 DEF markAuthRequestComplete
  <2>3. CASE req[m.req] = None
    BY <1>2, <1>6, <2>2, <2>3 DEF markAuthRequestComplete
  <2>4. CASE req[m.req] # None
    <3> DEFINE row == [req[m.req] EXCEPT !.user = m.user, !.auth = m.auth]
    <3>1. req[m.req] \in ReqRow
      BY <1>0, <2>1, <2>4 DEF TypeOK
    <3>2. row.user = m.user /\ row.auth = m.auth
      BY <3>1 DEF ReqRow
    <3>3. req' = [req EXCEPT ![m.req] = row]
      BY <1>0, <1>6, <2>1, <2>4 DEF TypeOK, markAuthRequestComplete
    <3> HIDE DEF row
    <3>4. req'[m.req] = row /\ \A r \in Requests \ {m.req} : req'[r] = req[r]
      BY <1>0, <2>1, <3>3 DEF TypeOK
    <3> QED
      BY <1>2, <2>1, <2>2, <3>2, <3>4
  <2> QED
    BY <2>3, <2>4
<1> QED
  BY <1>3, <1>4, <1>5, <1>6 DEF SignInStep

\* A call hands on what it has read, and a rotation the row that is there.
LEMMA CallKeepsGrants ==
  ASSUME IInv, SignInsCurrent, GrantsFollowReset, NEW c \in Calls, CallStep(c)
  PROVE  SignInsCurrent' /\ GrantsFollowReset'
<1>0. TypeOK
  BY DEF IInv
<1>1. UNCHANGED <<epoch, marks>> /\ \A r \in Requests : req'[r] = req[r] \/ req'[r] = None
  BY <1>0 DEF CallStep, CodeBegin, RefreshBegin, insertAccessToken, insertRefreshToken,
              rotateRefreshToken, RotateTo, Finish, Fail, TypeOK
\* A call that was under way moves.
<1>2. ASSUME NEW at, MovesTo(c, at), at \in {"read", "access"} => call[c].at = "read"
      PROVE  SignInsCurrent'
  <2>1. /\ call'[c].at = at /\ call'[c].kind = call[c].kind
        /\ \A d \in Calls \ {c} : call'[d] = call[d]
    BY <1>0, <1>2, MoveType
  <2>2. call'[c].auth = call[c].auth /\ call'[c].user = call[c].user
    <3>1. call[c] \in CodeCall \cup RefreshCall /\ call' = [call EXCEPT ![c].at = at]
      BY <1>0, <1>2, CallCases DEF MovesTo
    <3>2. /\ [call[c] EXCEPT !.at = at].auth = call[c].auth
          /\ [call[c] EXCEPT !.at = at].user = call[c].user
      BY <3>1 DEF CodeCall, RefreshCall
    <3> QED
      BY <1>0, <3>1, <3>2 DEF TypeOK
  <2> QED
    BY <1>1, <1>2, <2>1, <2>2 DEF SignInsCurrent
\* No refresh token is written.
<1>3. ASSUME UNCHANGED refresh
      PROVE  GrantsFollowReset'
  BY <1>1, <1>3 DEF GrantsFollowReset
<1>4. ASSUME NEW r \in Requests, CodeBegin(c, r)
      PROVE  SignInsCurrent' /\ GrantsFollowReset'
  <2>1. req[r] # None /\ req[r].user # None
    BY <1>4 DEF IInv, RequestsOK, CodeBegin
  <2>2. /\ call'[c].user = req[r].user /\ call'[c].auth = req[r].auth
        /\ \A d \in Calls \ {c} : call'[d] = call[d]
        /\ UNCHANGED <<refresh, req>>
    BY <1>0, <1>4 DEF TypeOK, CodeBegin, Set
  <2>3. SignInsCurrent'
    BY <1>1, <2>1, <2>2 DEF SignInsCurrent
  <2> QED
    BY <1>3, <2>2, <2>3
<1>5. ASSUME NEW t \in Calls, RefreshBegin(c, t)
      PROVE  SignInsCurrent' /\ GrantsFollowReset'
  <2>1. /\ call'[c].kind = "refresh" /\ \A d \in Calls \ {c} : call'[d] = call[d]
        /\ UNCHANGED <<refresh, req>>
    BY <1>0, <1>5 DEF TypeOK, RefreshBegin, Set
  <2>2. SignInsCurrent'
    BY <1>1, <2>1 DEF SignInsCurrent
  <2> QED
    BY <1>3, <2>1, <2>2
<1>6. CASE insertAccessToken(c)
  <2>1. /\ MovesTo(c, IF call[c].offline THEN "access" ELSE "stored")
        /\ call[c].at = "read" /\ UNCHANGED refresh
    BY <1>6 DEF insertAccessToken, MovesTo, Set, Begun
  <2> QED
    BY <1>2, <1>3, <2>1
<1>7. CASE insertRefreshToken(c)
  <2>1. /\ call[c].at = "access" /\ call[c].kind = "code" /\ MovesTo(c, "stored")
        /\ refresh'[c].auth = call[c].auth /\ refresh'[c].user = call[c].user
        /\ \A d \in Calls \ {c} : refresh'[d] = refresh[d]
    BY <1>0, <1>7 DEF TypeOK, insertRefreshToken, MovesTo, Set, Begun
  <2>2. call[c].auth = epoch[call[c].user]
    BY <2>1 DEF SignInsCurrent
  <2>3. GrantsFollowReset'
    BY <1>1, <2>1, <2>2 DEF GrantsFollowReset
  <2> QED
    BY <1>2, <2>1, <2>3
<1>8. CASE rotateRefreshToken(c)
  <2> DEFINE t == call[c].src
             row == [refresh[t] EXCEPT !.born = epoch[refresh[t].user]]
  <2>1. /\ call[c].at = "access" /\ call[c].kind = "refresh" /\ refresh[t] # None
        /\ refresh' = [refresh EXCEPT ![t] = None, ![c] = row] /\ MovesTo(c, "stored")
    BY <1>8 DEF rotateRefreshToken, RotateTo, MovesTo, Set, Begun
  <2>2. t \in Calls
    <3>1. call[c] \in RefreshCall
      BY <1>0, <2>1, CallCases DEF CodeCall
    <3> QED
      BY <3>1 DEF RefreshCall
  <2>3. row.auth = refresh[t].auth /\ row.user = refresh[t].user
    BY <1>0, <2>1, <2>2 DEF TypeOK, RefreshRow
  <2> HIDE DEF t, row
  <2>4. refresh'[c] = row /\ \A d \in Calls \ {c} : refresh'[d] = refresh[d] \/ refresh'[d] = None
    BY <1>0, <2>1, <2>2 DEF TypeOK
  <2>5. refresh[t].auth = epoch[refresh[t].user]
    BY <2>1, <2>2 DEF GrantsFollowReset
  <2>6. refresh'[c].auth = epoch'[refresh'[c].user]
    BY <1>1, <2>3, <2>4, <2>5
  <2>7. GrantsFollowReset'
    BY <1>1, <2>4, <2>6 DEF GrantsFollowReset
  <2> QED
    BY <1>2, <2>1, <2>7
<1>9. CASE Finish(c) \/ Fail(c)
  <2>1. (\E at \in {"done", "failed"} : MovesTo(c, at)) /\ UNCHANGED refresh
    BY <1>9 DEF Finish, Fail, MovesTo, Set, Begun
  <2> QED
    BY <1>2, <1>3, <2>1
<1> QED
  BY <1>4, <1>5, <1>6, <1>7, <1>8, <1>9 DEF CallStep

\* Every refresh token rests on a sign-in since the user was last signed out
\* everywhere, as long as nobody is while a sign-in of his is pending: what
\* users.go:137-138 promises fails only because revokeSessions leaves completed
\* requests, codes and calls that have read one (users.go:164-179,
\* tokens.go insertRefreshToken).
THEOREM GrantsFollowWaitingResets == Spec /\ [][ResetsWait]_vars => []GrantsFollowReset
<1>1. Init => SignInsCurrent /\ GrantsFollowReset
  BY DEF Init, SignInsCurrent, GrantsFollowReset, NewCall
<1>2. ASSUME IInv, SignInsCurrent, GrantsFollowReset, [Next]_vars, [ResetsWait]_vars
      PROVE  SignInsCurrent' /\ GrantsFollowReset'
  <2>1. ResetsWait
    BY <1>2 DEF ResetsWait, vars
  <2>2. ASSUME UNCHANGED <<epoch, marks, req, call>>,
               \A c \in Calls : refresh'[c] = refresh[c] \/ refresh'[c] = None
        PROVE  SignInsCurrent' /\ GrantsFollowReset'
    BY <1>2, <2>2 DEF SignInsCurrent, GrantsFollowReset
  <2>3. ASSUME NEW u \in Users, DeleteUser(u)
        PROVE  SignInsCurrent' /\ GrantsFollowReset'
    BY <2>2, <2>3 DEF DeleteUser, Without
  <2>4. ASSUME NEW k \in Clients, Provision(k) \/ deleteClient(k)
        PROVE  SignInsCurrent' /\ GrantsFollowReset'
    BY <2>2, <2>4 DEF Provision, deleteClient, Without
  <2>5. CASE SignInStep
    <3>1. UNCHANGED <<epoch, refresh>>
      BY <2>5 DEF SignInStep, CreateAuthRequest, Identify, SaveAuthCode, ExpireCode,
                  ExpireRequest, markAuthRequestComplete
    <3>2. GrantsFollowReset'
      BY <1>2, <3>1 DEF GrantsFollowReset
    <3> QED
      BY <1>2, <2>5, <3>2, SignInKeepsGrants
  <2>6. CASE RevokeStep
    <3>1. TypeOK
      BY <1>2 DEF IInv
    <3>2. /\ UNCHANGED <<epoch, marks, req, call>>
          /\ \A c \in Calls : refresh'[c] = refresh[c] \/ refresh'[c] = None
      BY <2>6, <3>1 DEF TypeOK, RevokeStep, DropAccess, ExpireRefresh, RevokeRefresh, RevokeUnknown,
                        RevokeLinked, RevokeStops, EndAccess, EndRefresh, Without
    <3> QED
      BY <2>2, <3>2
  <2>7. CASE UNCHANGED vars
    BY <2>2, <2>7 DEF vars
  <2> QED
    BY <1>2, <2>1, <2>3, <2>4, <2>5, <2>6, <2>7, ResetKeepsGrants, CallKeepsGrants
       DEF Next, AccountStep
<1> QED
  BY <1>1, <1>2, TokensInvariance, PTL DEF Spec
=============================================================================
