--------------------------- MODULE AccountsProofs ---------------------------
(***************************************************************************)
(* Proofs about Accounts, for every set of names, session tokens and       *)
(* handlers, any number of accounts and any number of resets.              *)
(***************************************************************************)
EXTENDS Accounts, FiniteSetTheorems, TLAPS

\* Ids are handed out in order.
IdsFresh == \A id \in UserIds : Present(id) => id < nextId

\* What a handler under way holds: the account it acts for is known, and the
\* name it was looked up by is the account's, as long as the account exists.
ProcOK ==
  \A p \in Procs :
    /\ proc[p].at = "hashed" => proc[p].name \in Names /\ proc[p].who \in UserIds
    /\ proc[p].at \notin {"idle", "hashed"} =>
         /\ proc[p].user \in UserIds
         /\ proc[p].user < nextId
         /\ proc[p].name \in Names
         /\ Present(proc[p].user) => users[proc[p].user].name = proc[p].name
    /\ proc[p].at \in {"emailing", "emailed", "delete"} => proc[p].target \in UserIds
    /\ proc[p].at \in {"verified", "reissue"} => proc[p].who \in UserIds

\* A session's account has the name that was typed.
SessionKeepsName ==
  \A s \in Sids : Live(s) => users[sessions[s].user].name = sessions[s].name

IInv == TypeOK /\ IdsFresh /\ ProcOK /\ RevocationComplete /\ SessionKeepsName

-----------------------------------------------------------------------------
\* The steps that leave the database alone and move one handler.
Moves(p) ==
  \/ \E n \in Names : VerifyHash(p, n)
  \/ VerifyUser(p)
  \/ \E s \in Sids : LookupSession(p, s)
  \/ requireAdmin(p)
  \/ \E id \in UserIds : (\E adm \in BOOLEAN : UpdateCheck(p, id, adm)) \/ DeleteCheck(p, id)
  \/ UpdateEmail(p)

\* An idle handler satisfies everything asked of handlers.
LEMMA IdleOK == Idle \in ProcState /\ Idle.at = "idle"
BY DEF Idle, ProcState

\* A handler's new state is acceptable: what ProcOK asks of one handler.
GoodState(st) ==
  /\ st \in ProcState
  /\ st.at = "hashed" => st.name \in Names /\ st.who \in UserIds
  /\ st.at \notin {"idle", "hashed"} =>
       /\ st.user \in UserIds
       /\ st.user < nextId
       /\ st.name \in Names
       /\ Present(st.user) => users[st.user].name = st.name
  /\ st.at \in {"emailing", "emailed", "delete"} => st.target \in UserIds
  /\ st.at \in {"verified", "reissue"} => st.who \in UserIds

\* When only one handler moves, to an acceptable state, the invariant is kept.
LEMMA MoveKeeps ==
  ASSUME IInv, UNCHANGED dbVars, NEW p \in Procs, NEW st, Goto(p, st), GoodState(st)
  PROVE  IInv'
<1>1. TypeOK'
  BY DEF IInv, TypeOK, dbVars, Goto, GoodState
<1>2. ProcOK'
  BY DEF IInv, ProcOK, TypeOK, dbVars, Goto, GoodState, Present
<1>3. IdsFresh' /\ RevocationComplete' /\ SessionKeepsName'
  BY DEF IInv, IdsFresh, RevocationComplete, SessionKeepsName, Live, Present, dbVars
<1> QED
  BY <1>1, <1>2, <1>3 DEF IInv

\* Each step of a handler that only reads keeps the invariant.
LEMMA MovesKeep ==
  ASSUME IInv, NEW p \in Procs, Moves(p)
  PROVE  IInv'
<1>0. proc[p] \in ProcState /\ GoodState(Idle)
  BY IdleOK DEF IInv, TypeOK, GoodState
<1>1. ASSUME NEW n \in Names, VerifyHash(p, n)
      PROVE  IInv'
  <2>1. PICK id \in UserIds :
          Goto(p, [Idle EXCEPT !.at = "hashed", !.name = n, !.who = id, !.gen = pwGen[id]])
    BY <1>1 DEF VerifyHash
  <2>2. pwGen[id] \in Nat
    BY DEF IInv, TypeOK
  <2>3. GoodState([Idle EXCEPT !.at = "hashed", !.name = n, !.who = id, !.gen = pwGen[id]])
    BY <2>2 DEF GoodState, Idle, ProcState
  <2> QED
    BY <1>1, <2>1, <2>3, MoveKeeps DEF VerifyHash
<1>2. ASSUME VerifyUser(p)
      PROVE  IInv'
  <2>1. CASE Return(p)
    BY <1>0, <1>2, <2>1, MoveKeeps DEF VerifyUser, Return
  <2>2. CASE \E id \in UserIds :
               /\ Present(id) /\ users[id].name = proc[p].name
               /\ Goto(p, [proc[p] EXCEPT !.at = "verified", !.user = id])
    <3>1. PICK id \in UserIds :
               /\ Present(id) /\ users[id].name = proc[p].name
               /\ Goto(p, [proc[p] EXCEPT !.at = "verified", !.user = id])
      BY <2>2
    <3>2. GoodState([proc[p] EXCEPT !.at = "verified", !.user = id])
      BY <1>0, <1>2, <3>1 DEF GoodState, ProcState, IInv, ProcOK, IdsFresh, VerifyUser
    <3> QED
      BY <1>2, <3>1, <3>2, MoveKeeps DEF VerifyUser
  <2> QED
    BY <1>2, <2>1, <2>2 DEF VerifyUser
<1>3. ASSUME NEW s \in Sids, LookupSession(p, s)
      PROVE  IInv'
  <2> DEFINE st == [Idle EXCEPT !.at = "seen", !.user = sessions[s].user, !.name = sessions[s].name]
  <2>1. sessions[s] \in SessionRow /\ Present(sessions[s].user)
        /\ users[sessions[s].user].name = sessions[s].name
    BY <1>3 DEF LookupSession, IInv, TypeOK, RevocationComplete, SessionKeepsName, Live
  <2>2. GoodState(st)
    BY <2>1 DEF GoodState, Idle, ProcState, SessionRow, IInv, IdsFresh
  <2> QED
    BY <1>3, <2>2, MoveKeeps DEF LookupSession
<1>4. ASSUME requireAdmin(p)
      PROVE  IInv'
  <2>1. GoodState([proc[p] EXCEPT !.at = "admin"])
    BY <1>0, <1>4 DEF GoodState, ProcState, IInv, ProcOK, requireAdmin
  <2> QED
    BY <1>0, <1>4, <2>1, MoveKeeps DEF requireAdmin, Return
<1>5. ASSUME NEW id \in UserIds, NEW adm \in BOOLEAN, UpdateCheck(p, id, adm)
      PROVE  IInv'
  <2>1. GoodState([proc[p] EXCEPT !.at = "emailing", !.target = id, !.flag = adm])
    BY <1>0, <1>5 DEF GoodState, ProcState, IInv, ProcOK, UpdateCheck, Authorized
  <2> QED
    BY <1>0, <1>5, <2>1, MoveKeeps DEF UpdateCheck, Return
<1>6. ASSUME NEW id \in UserIds, DeleteCheck(p, id)
      PROVE  IInv'
  <2>1. GoodState([proc[p] EXCEPT !.at = "delete", !.target = id])
    BY <1>0, <1>6 DEF GoodState, ProcState, IInv, ProcOK, DeleteCheck, Authorized
  <2> QED
    BY <1>0, <1>6, <2>1, MoveKeeps DEF DeleteCheck, Return
<1>7. ASSUME UpdateEmail(p)
      PROVE  IInv'
  <2>1. GoodState([proc[p] EXCEPT !.at = "emailed"])
    BY <1>0, <1>7 DEF GoodState, ProcState, IInv, ProcOK, UpdateEmail
  <2> QED
    BY <1>0, <1>7, <2>1, MoveKeeps DEF UpdateEmail, Return
<1> QED
  BY <1>1, <1>2, <1>3, <1>4, <1>5, <1>6, <1>7 DEF Moves

-----------------------------------------------------------------------------
(* The steps that change the tables.                                       *)

\* Beside a change of the tables at most one handler moves, to a state that
\* was acceptable before the change.
Aside ==
  \/ UNCHANGED proc
  \/ \E p \in Procs : \E st : Goto(p, st) /\ GoodState(st)

\* What the handlers hold stays right when accounts keep their names and new
\* accounts get fresh ids.
LEMMA HandlersKeep ==
  ASSUME IInv, Aside, nextId' \in Nat, nextId' >= nextId,
         \A id \in UserIds : id < nextId /\ Present(id)'
            => Present(id) /\ users'[id].name = users[id].name
  PROVE  ProcOK' /\ proc' \in [Procs -> ProcState]
<1>1. proc \in [Procs -> ProcState] /\ nextId \in Nat
  BY DEF IInv, TypeOK
<1>2. \A q \in Procs : GoodState(proc[q])
  BY <1>1 DEF IInv, ProcOK, GoodState
<1>3. proc' \in [Procs -> ProcState] /\ \A q \in Procs : GoodState(proc'[q])
  BY <1>1, <1>2 DEF Aside, Goto, GoodState
<1>4. ASSUME NEW q \in Procs
      PROVE  proc'[q].at \notin {"idle", "hashed"} =>
                /\ proc'[q].user \in UserIds
                /\ proc'[q].user < nextId'
                /\ proc'[q].name \in Names
                /\ Present(proc[q].user)' => users'[proc'[q].user].name = proc'[q].name
  <2>1. GoodState(proc'[q])
    BY <1>3
  <2> SUFFICES ASSUME proc'[q].at \notin {"idle", "hashed"}
               PROVE  /\ proc'[q].user \in UserIds
                      /\ proc'[q].user < nextId'
                      /\ proc'[q].name \in Names
                      /\ Present(proc[q].user)' => users'[proc'[q].user].name = proc'[q].name
    OBVIOUS
  <2>2. /\ proc'[q].user \in UserIds
        /\ proc'[q].user < nextId
        /\ proc'[q].name \in Names
        /\ Present(proc'[q].user) => users[proc'[q].user].name = proc'[q].name
    BY <2>1 DEF GoodState
  <2>3. proc'[q].user < nextId'
    BY <1>1, <2>2 DEF UserIds
  <2> QED
    BY <2>2, <2>3 DEF Present
<1>5. \A q \in Procs :
        /\ proc'[q].at = "hashed" => proc'[q].name \in Names /\ proc'[q].who \in UserIds
        /\ proc'[q].at \in {"verified", "reissue"} => proc'[q].who \in UserIds
        /\ proc'[q].at \in {"emailing", "emailed", "delete"} => proc'[q].target \in UserIds
  BY <1>3 DEF GoodState
<1> QED
  BY <1>3, <1>4, <1>5 DEF ProcOK

\* Store.Create keeps the invariant: the new id was never anyone's.
LEMMA CreateKeeps ==
  ASSUME IInv, NEW n \in Names, NEW adm \in BOOLEAN, Create(n, adm), Aside
  PROVE  IInv'
<1>1. /\ users \in [UserIds -> UserRow \cup {Absent}]
      /\ nextId \in Nat /\ nextId \in UserIds
      /\ [name |-> n, admin |-> adm] \in UserRow
      /\ [name |-> n, admin |-> adm] # Absent
  BY AccountsAssumption DEF IInv, TypeOK, Create, UserRow
<1>2. \A id \in UserIds : id < nextId => users'[id] = users[id]
  BY <1>1 DEF Create, UserIds
<1>3. nextId' = nextId + 1
  BY DEF Create
<1>4. ProcOK' /\ proc' \in [Procs -> ProcState]
  BY <1>1, <1>2, <1>3, HandlersKeep DEF Present
<1>5. TypeOK'
  BY <1>1, <1>3, <1>4 DEF IInv, TypeOK, Create
<1>6. IdsFresh'
  BY <1>1, <1>3 DEF IInv, IdsFresh, Present, Create, UserIds
<1>7. RevocationComplete' /\ SessionKeepsName'
  <2>1. \A s \in Sids : Live(s) => /\ sessions[s].user \in UserIds
                                   /\ Present(sessions[s].user)
                                   /\ sessions[s].user < nextId
    BY DEF IInv, TypeOK, SessionRow, Live, RevocationComplete, IdsFresh
  <2> QED
    BY <1>2, <2>1 DEF IInv, RevocationComplete, SessionKeepsName, Live, Present, Create
<1> QED
  BY <1>4, <1>5, <1>6, <1>7 DEF IInv

\* A change of one row that keeps its name, or deletes it, together with its
\* user's sessions if his epoch changes, keeps the invariant.
LEMMA RowChangeKeeps ==
  ASSUME IInv, NEW id \in UserIds, Aside, UNCHANGED <<nextId, usedSids>>,
         users' \in [UserIds -> UserRow \cup {Absent}],
         pwGen' \in [UserIds -> Nat], epoch' \in [UserIds -> Nat],
         \A k \in UserIds : Present(k)' => Present(k) /\ users'[k].name = users[k].name,
         \A k \in UserIds \ {id} : users'[k] = users[k] /\ epoch'[k] = epoch[k],
         \/ sessions' = SessionsWithout(id)
         \/ sessions' = sessions /\ Present(id)' /\ epoch'[id] = epoch[id]
  PROVE  IInv'
<1>1. nextId \in Nat /\ sessions \in [Sids -> SessionRow \cup {Absent}]
  BY DEF IInv, TypeOK
<1>2. ProcOK' /\ proc' \in [Procs -> ProcState]
  BY <1>1, HandlersKeep
<1>3. sessions' \in [Sids -> SessionRow \cup {Absent}]
  BY <1>1 DEF SessionsWithout
<1>4. TypeOK'
  BY <1>2, <1>3 DEF IInv, TypeOK
<1>5. IdsFresh'
  BY DEF IInv, IdsFresh
<1>6. ASSUME NEW s \in Sids, Live(s)'
      PROVE  /\ sessions'[s] = sessions[s] /\ Live(s)
             /\ sessions[s].user \in UserIds
             /\ sessions[s].user # id \/ (Present(id)' /\ epoch'[id] = epoch[id])
  BY <1>1, <1>6 DEF SessionsWithout, Live, SessionRow
<1>7. ASSUME NEW s \in Sids, Live(s)'
      PROVE  /\ Present(sessions[s].user)'
             /\ sessions'[s].born = epoch'[sessions'[s].user]
             /\ users'[sessions'[s].user].name = sessions'[s].name
  <2>1. /\ Present(sessions[s].user) /\ sessions[s].born = epoch[sessions[s].user]
        /\ users[sessions[s].user].name = sessions[s].name
    BY <1>6, <1>7 DEF IInv, RevocationComplete, SessionKeepsName
  <2> QED
    BY <1>6, <1>7, <2>1 DEF Present
<1> QED
  BY <1>2, <1>4, <1>5, <1>7 DEF IInv, RevocationComplete, SessionKeepsName

\* Store.SetPassword keeps the invariant: it takes the user's sessions along.
LEMMA SetPasswordKeeps ==
  ASSUME IInv, NEW id \in UserIds, SetPassword(id), Aside
  PROVE  IInv'
<1>1. users \in [UserIds -> UserRow \cup {Absent}] /\ pwGen \in [UserIds -> Nat]
      /\ epoch \in [UserIds -> Nat]
  BY DEF IInv, TypeOK
<1>2. pwGen' \in [UserIds -> Nat] /\ epoch' \in [UserIds -> Nat]
      /\ \A k \in UserIds \ {id} : epoch'[k] = epoch[k]
  BY <1>1 DEF SetPassword
<1>3. UNCHANGED <<nextId, usedSids, users>> /\ sessions' = SessionsWithout(id)
  BY DEF SetPassword, revokeSessions
<1> QED
  BY <1>1, <1>2, <1>3, RowChangeKeeps DEF Present

\* Store.SetAdmin keeps the invariant: a demotion takes the sessions along, a
\* promotion changes no epoch.
LEMMA SetAdminKeeps ==
  ASSUME IInv, NEW id \in UserIds, NEW adm \in BOOLEAN, SetAdmin(id, adm), Aside
  PROVE  IInv'
<1>1. users \in [UserIds -> UserRow \cup {Absent}] /\ pwGen \in [UserIds -> Nat]
      /\ epoch \in [UserIds -> Nat] /\ users[id] \in UserRow
  BY DEF IInv, TypeOK, SetAdmin, Present
<1>2. /\ users' \in [UserIds -> UserRow \cup {Absent}]
      /\ users'[id] \in UserRow /\ users'[id].name = users[id].name
      /\ \A k \in UserIds \ {id} : users'[k] = users[k]
  BY <1>1 DEF SetAdmin, UserRow
<1>3. epoch' \in [UserIds -> Nat] /\ \A k \in UserIds \ {id} : epoch'[k] = epoch[k]
  BY <1>1 DEF SetAdmin
<1>4. \/ sessions' = SessionsWithout(id)
      \/ sessions' = sessions /\ epoch'[id] = epoch[id]
  BY DEF SetAdmin, revokeSessions
<1>5. UNCHANGED <<nextId, usedSids, pwGen>>
  BY DEF SetAdmin
<1>6. users'[id] # Absent /\ users[id] # Absent
  BY <1>1, <1>2, AccountsAssumption
<1> QED
  BY <1>1, <1>2, <1>3, <1>4, <1>5, <1>6, RowChangeKeeps DEF Present

\* Store.Delete keeps the invariant: the foreign key takes the sessions along.
LEMMA DeleteKeeps ==
  ASSUME IInv, NEW id \in UserIds, Delete(id), Aside
  PROVE  IInv'
<1>1. users \in [UserIds -> UserRow \cup {Absent}] /\ pwGen \in [UserIds -> Nat]
      /\ epoch \in [UserIds -> Nat]
  BY DEF IInv, TypeOK
<1>2. /\ users' \in [UserIds -> UserRow \cup {Absent}] /\ users'[id] = Absent
      /\ \A k \in UserIds \ {id} : users'[k] = users[k]
  BY <1>1 DEF Delete
<1>3. UNCHANGED <<nextId, usedSids, pwGen, epoch>> /\ sessions' = SessionsWithout(id)
  BY DEF Delete
<1> QED
  BY <1>1, <1>2, <1>3, RowChangeKeeps DEF Present

\* SessionStore.Issue keeps the invariant: the foreign key refuses a row for
\* an account that is gone, and the name is the account's.
LEMMA IssueKeeps ==
  ASSUME IInv, NEW p \in Procs, Issue(p), proc[p].at \in {"verified", "reissue"}
  PROVE  IInv'
<1>1. /\ proc \in [Procs -> ProcState] /\ proc[p] \in ProcState
      /\ sessions \in [Sids -> SessionRow \cup {Absent}]
      /\ epoch \in [UserIds -> Nat] /\ nextId \in Nat
      /\ proc[p].user \in UserIds /\ proc[p].name \in Names /\ proc[p].who \in UserIds
      /\ Present(proc[p].user) => users[proc[p].user].name = proc[p].name
  BY DEF IInv, TypeOK, ProcOK
<1>2. GoodState(Idle) /\ Goto(p, Idle) /\ UNCHANGED <<users, nextId, pwGen, epoch>>
  BY IdleOK DEF GoodState, Issue, Return
<1>3. Aside
  BY <1>2 DEF Aside
<1>4. ProcOK' /\ proc' \in [Procs -> ProcState]
  BY <1>1, <1>2, <1>3, HandlersKeep DEF Present
<1>5. CASE UNCHANGED <<usedSids, sessions>>
  <2>1. UNCHANGED dbVars
    BY <1>2, <1>5 DEF dbVars
  <2> QED
    BY <2>1, <1>2, MoveKeeps
<1>6. CASE /\ Present(proc[p].user)
           /\ \E s \in Sids \ usedSids :
                /\ usedSids' = usedSids \cup {s}
                /\ sessions' = [sessions EXCEPT
                     ![s] = [user |-> proc[p].user, name |-> proc[p].name, who |-> proc[p].who,
                             gen |-> proc[p].gen, born |-> epoch[proc[p].user]]]
  <2> DEFINE row == [user |-> proc[p].user, name |-> proc[p].name, who |-> proc[p].who,
                     gen |-> proc[p].gen, born |-> epoch[proc[p].user]]
  <2>1. PICK s \in Sids \ usedSids : /\ usedSids' = usedSids \cup {s}
                                     /\ sessions' = [sessions EXCEPT ![s] = row]
    BY <1>6
  <2>2. row \in SessionRow
    BY <1>1 DEF SessionRow, ProcState
  <2>3. TypeOK'
    BY <1>1, <1>2, <1>4, <2>1, <2>2 DEF IInv, TypeOK
  <2>4. ASSUME NEW t \in Sids, Live(t)'
        PROVE  /\ Present(sessions[t].user)' /\ sessions'[t].born = epoch'[sessions'[t].user]
               /\ users'[sessions'[t].user].name = sessions'[t].name
    <3>1. CASE t = s
      BY <1>1, <1>2, <1>6, <2>1, <3>1 DEF Present
    <3>2. CASE t # s
      <4>1. sessions'[t] = sessions[t] /\ Live(t)
        BY <1>1, <2>1, <2>4, <3>2 DEF Live
      <4> QED
        BY <1>2, <4>1 DEF IInv, RevocationComplete, SessionKeepsName, Present
    <3> QED
      BY <3>1, <3>2
  <2>5. IdsFresh'
    BY <1>2 DEF IInv, IdsFresh, Present
  <2> QED
    BY <1>4, <2>3, <2>4, <2>5 DEF IInv, RevocationComplete, SessionKeepsName
<1> QED
  BY <1>5, <1>6 DEF Issue

\* Deleting one session row keeps the invariant.
LEMMA DropKeeps ==
  ASSUME IInv, NEW s \in Sids, DropSession(s)
  PROVE  IInv'
<1>1. TypeOK'
  BY DEF IInv, TypeOK, DropSession
<1>2. IdsFresh' /\ ProcOK'
  BY DEF IInv, IdsFresh, ProcOK, Present, DropSession
<1>3. sessions \in [Sids -> SessionRow \cup {Absent}]
  BY DEF IInv, TypeOK
<1>4. RevocationComplete' /\ SessionKeepsName'
  BY <1>3 DEF IInv, RevocationComplete, SessionKeepsName, Live, Present, DropSession
<1> QED
  BY <1>1, <1>2, <1>4 DEF IInv

-----------------------------------------------------------------------------
\* Every step of the specification keeps the invariant.
LEMMA NextKeeps ==
  ASSUME IInv, [Next]_vars
  PROVE  IInv'
<1>0. GoodState(Idle) /\ \A p \in Procs : GoodState(proc[p])
  BY IdleOK DEF GoodState, IInv, TypeOK, ProcOK
<1>1. ASSUME UNCHANGED vars
      PROVE  IInv'
  BY <1>1 DEF vars, IInv, TypeOK, IdsFresh, ProcOK, RevocationComplete,
              SessionKeepsName, Live, Present
<1>2. ASSUME NEW p \in Procs, Return(p)
      PROVE  Aside
  BY <1>0, <1>2 DEF Aside, Return
<1>3. ASSUME NEW p \in Procs, Return(p), UNCHANGED dbVars
      PROVE  IInv'
  BY <1>0, <1>3, MoveKeeps DEF Return
<1>4. ASSUME NEW p \in Procs, LoginStep(p)
      PROVE  IInv'
  <2>1. ASSUME NEW n \in Names, VerifyUnknown(p, n)
        PROVE  IInv'
    BY <1>1, <2>1 DEF VerifyUnknown
  <2>2. ASSUME LoginIssue(p)
        PROVE  IInv'
    BY <2>2, IssueKeeps DEF LoginIssue
  <2> QED
    BY <1>4, <2>1, <2>2, MovesKeep DEF LoginStep, Moves
<1>5. ASSUME NEW p \in Procs, AdminStep(p)
      PROVE  IInv'
  <2>1. ASSUME UpdateRole(p)
        PROVE  IInv'
    <3>1. proc[p].target \in UserIds /\ proc[p].flag \in BOOLEAN
      BY <2>1 DEF IInv, TypeOK, ProcOK, ProcState, UpdateRole
    <3> QED
      BY <1>2, <1>3, <2>1, <3>1, SetAdminKeeps DEF UpdateRole
  <2>2. ASSUME NEW id \in UserIds, PasswordSet(p, id)
        PROVE  IInv'
    <3> DEFINE st == [proc[p] EXCEPT !.at = "reissue", !.who = id, !.gen = pwGen[id] + 1]
    <3>1. proc[p] \in ProcState /\ pwGen[id] + 1 \in Nat
      BY DEF IInv, TypeOK
    <3>2. GoodState(st)
      BY <1>0, <2>2, <3>1 DEF GoodState, ProcState, PasswordSet, Authorized
    <3>3. CASE SetPassword(id) /\ Goto(p, st)
      <4>1. Aside
        BY <3>2, <3>3 DEF Aside
      <4> QED
        BY <3>3, <4>1, SetPasswordKeeps
    <3>4. CASE SetPassword(id) /\ Return(p)
      BY <1>2, <3>4, SetPasswordKeeps
    <3> QED
      BY <1>3, <2>2, <3>3, <3>4 DEF PasswordSet
  <2>3. ASSUME PasswordReissue(p)
        PROVE  IInv'
    BY <2>3, IssueKeeps DEF PasswordReissue
  <2>4. ASSUME DeleteUser(p)
        PROVE  IInv'
    <3>1. proc[p].target \in UserIds
      BY <2>4 DEF IInv, ProcOK, DeleteUser
    <3> QED
      BY <1>2, <1>3, <2>4, <3>1, DeleteKeeps DEF DeleteUser
  <2>5. ASSUME NEW n \in Names, NEW adm \in BOOLEAN, CreateUser(p, n, adm)
        PROVE  IInv'
    BY <1>2, <1>3, <2>5, CreateKeeps DEF CreateUser
  <2>6. ASSUME Moves(p)
        PROVE  IInv'
    BY <2>6, MovesKeep
  <2> QED
    BY <1>5, <2>1, <2>2, <2>3, <2>4, <2>5, <2>6 DEF AdminStep, Moves
<1>6. ASSUME NEW id \in UserIds, Cli(id)
      PROVE  IInv'
  <2>1. Aside
    BY <1>6 DEF Cli, Aside
  <2> QED
    BY <1>6, <2>1, SetPasswordKeeps, DeleteKeeps DEF Cli
<1>7. ASSUME NEW n \in Names, NEW adm \in BOOLEAN, CliAdd(n, adm)
      PROVE  IInv'
  <2>1. Aside
    BY <1>7 DEF CliAdd, Aside
  <2> QED
    BY <1>7, <2>1, CreateKeeps DEF CliAdd
<1> QED
  BY <1>1, <1>4, <1>5, <1>6, <1>7, DropKeeps DEF Next

\* The database that `nass init` leaves satisfies the invariant.
LEMMA InitHolds == Init => IInv
<1> SUFFICES ASSUME Init PROVE IInv
  OBVIOUS
<1>1. PICK n \in Names :
        users = [id \in UserIds |-> IF id = 1 THEN [name |-> n, admin |-> TRUE] ELSE Absent]
  BY DEF Init
<1>2. [name |-> n, admin |-> TRUE] \in UserRow
  BY DEF UserRow
<1>3. TypeOK
  <2>1. users \in [UserIds -> UserRow \cup {Absent}]
    BY <1>1, <1>2
  <2>2. proc \in [Procs -> ProcState]
    BY IdleOK DEF Init
  <2>3. nextId \in Nat \ {0} /\ usedSids \subseteq Sids
    BY DEF Init
  <2>4. /\ pwGen \in [UserIds -> Nat] /\ epoch \in [UserIds -> Nat]
        /\ sessions \in [Sids -> SessionRow \cup {Absent}]
    BY DEF Init
  <2> QED
    BY <2>1, <2>2, <2>3, <2>4 DEF TypeOK
<1>4. IdsFresh
  BY <1>1 DEF Init, IdsFresh, Present, UserIds
<1>5. ProcOK
  BY IdleOK DEF Init, ProcOK
<1>6. RevocationComplete /\ SessionKeepsName
  BY DEF Init, RevocationComplete, SessionKeepsName, Live
<1> QED
  BY <1>3, <1>4, <1>5, <1>6 DEF IInv

\* IInv is an invariant of the specification.
THEOREM AccountsInvariance == Spec => []IInv
<1>1. IInv /\ [Next]_vars => IInv'
  BY NextKeeps
<1> QED
  BY <1>1, InitHolds, PTL DEF Spec

\* Type correctness of the tables and of what the handlers hold.
THEOREM AccountsTypeCorrect == Spec => []TypeOK
<1>1. IInv => TypeOK
  BY DEF IInv
<1> QED
  BY <1>1, AccountsInvariance, PTL

\* A reset, a demotion or a deletion leaves none of the sessions that existed
\* (users.go SetPassword, SetAdmin and Delete), whatever else is under way.
THEOREM RevocationIsComplete == Spec => []RevocationComplete
<1>1. IInv => RevocationComplete
  BY DEF IInv
<1> QED
  BY <1>1, AccountsInvariance, PTL

-----------------------------------------------------------------------------
(* Sessions as credentials: the refinement of module Credentials.          *)

\* A session token that has a row has been drawn.
SidsDrawn == \A s \in Sids : Live(s) => s \in usedSids

\* What a step may do to the tables, whichever handler or command takes it.
TableStep ==
  \/ UNCHANGED dbVars
  \/ \E s \in Sids : DropSession(s)
  \/ \E id \in UserIds :
       SetPassword(id) \/ Delete(id) \/ (\E adm \in BOOLEAN : SetAdmin(id, adm))
  \/ \E n \in Names, adm \in BOOLEAN : Create(n, adm)
  \/ \E p \in Procs : Issue(p) /\ proc[p].at \in {"verified", "reissue"}

\* A handler that only reads leaves the tables alone.
LEMMA MovesChangeNoTable ==
  ASSUME NEW p \in Procs, Moves(p)
  PROVE  UNCHANGED dbVars
<1>1. ASSUME NEW n \in Names, VerifyHash(p, n)
      PROVE  UNCHANGED dbVars
  BY <1>1 DEF VerifyHash
<1>2. ASSUME NEW s \in Sids, LookupSession(p, s)
      PROVE  UNCHANGED dbVars
  BY <1>2 DEF LookupSession
<1>3. ASSUME NEW id \in UserIds, NEW adm \in BOOLEAN, UpdateCheck(p, id, adm)
      PROVE  UNCHANGED dbVars
  BY <1>3 DEF UpdateCheck
<1>4. CASE VerifyUser(p)
  BY <1>4 DEF VerifyUser
<1>5. CASE requireAdmin(p)
  BY <1>5 DEF requireAdmin
<1>6. CASE UpdateEmail(p)
  BY <1>6 DEF UpdateEmail
<1>7. ASSUME NEW id \in UserIds, DeleteCheck(p, id)
      PROVE  UNCHANGED dbVars
  BY <1>7 DEF DeleteCheck
<1> QED
  BY <1>1, <1>2, <1>3, <1>4, <1>5, <1>6, <1>7 DEF Moves

\* Every step is one of these.
LEMMA StepsOfTables ==
  ASSUME IInv, [Next]_vars
  PROVE  TableStep
<1>1. CASE UNCHANGED vars
  BY <1>1 DEF vars, dbVars, TableStep
<1>2. ASSUME NEW p \in Procs, LoginStep(p)
      PROVE  TableStep
  <2>1. CASE LoginIssue(p)
    BY <2>1 DEF LoginIssue, TableStep
  <2>2. CASE UNCHANGED dbVars
    BY <2>2 DEF TableStep
  <2>3. ASSUME NEW n \in Names, VerifyUnknown(p, n)
        PROVE  UNCHANGED dbVars
    BY <2>3 DEF VerifyUnknown, vars, dbVars
  <2> QED
    BY <1>2, <2>1, <2>2, <2>3, MovesChangeNoTable DEF LoginStep, Moves
<1>3. ASSUME NEW p \in Procs, AdminStep(p)
      PROVE  TableStep
  <2>1. CASE UpdateRole(p)
    <3>1. proc[p].target \in UserIds /\ proc[p].flag \in BOOLEAN
      BY <2>1 DEF IInv, TypeOK, ProcOK, ProcState, UpdateRole
    <3> QED
      BY <2>1, <3>1 DEF UpdateRole, TableStep
  <2>2. ASSUME NEW id \in UserIds, PasswordSet(p, id)
        PROVE  TableStep
    BY <2>2 DEF PasswordSet, TableStep
  <2>3. CASE PasswordReissue(p)
    BY <2>3 DEF PasswordReissue, TableStep
  <2>4. CASE DeleteUser(p)
    <3>1. proc[p].target \in UserIds
      BY <2>4 DEF IInv, ProcOK, DeleteUser
    <3> QED
      BY <2>4, <3>1 DEF DeleteUser, TableStep
  <2>5. ASSUME NEW n \in Names, NEW adm \in BOOLEAN, CreateUser(p, n, adm)
        PROVE  TableStep
    BY <2>5 DEF CreateUser, TableStep
  <2>6. CASE Moves(p)
    BY <2>6, MovesChangeNoTable DEF TableStep
  <2> QED
    BY <1>3, <2>1, <2>2, <2>3, <2>4, <2>5, <2>6 DEF AdminStep, Moves
<1>4. ASSUME NEW id \in UserIds, Cli(id)
      PROVE  TableStep
  BY <1>4 DEF Cli, TableStep
<1>5. ASSUME NEW n \in Names, NEW adm \in BOOLEAN, CliAdd(n, adm)
      PROVE  TableStep
  BY <1>5 DEF CliAdd, TableStep
<1>6. ASSUME NEW s \in Sids, DropSession(s)
      PROVE  TableStep
  BY <1>6 DEF TableStep
<1> QED
  BY <1>1, <1>2, <1>3, <1>4, <1>5, <1>6 DEF Next

\* Only Issue writes a session row, and it draws the token at the same time.
LEMMA SidsDrawnKept ==
  ASSUME IInv, SidsDrawn, TableStep
  PROVE  SidsDrawn'
<1>0. sessions \in [Sids -> SessionRow \cup {Absent}]
  BY DEF IInv, TypeOK
<1>1. ASSUME NEW p \in Procs, Issue(p)
      PROVE  SidsDrawn'
  BY <1>0, <1>1 DEF Issue, SidsDrawn, Live
<1>2. ASSUME usedSids' = usedSids, \A s \in Sids : Live(s)' => Live(s)
      PROVE  SidsDrawn'
  BY <1>2 DEF SidsDrawn
<1>3. ASSUME NEW s \in Sids, DropSession(s)
      PROVE  SidsDrawn'
  BY <1>0, <1>2, <1>3 DEF DropSession, Live
<1>4. ASSUME NEW id \in UserIds,
             SetPassword(id) \/ Delete(id) \/ (\E adm \in BOOLEAN : SetAdmin(id, adm))
      PROVE  SidsDrawn'
  BY <1>0, <1>2, <1>4 DEF SetPassword, Delete, SetAdmin, revokeSessions, SessionsWithout, Live
<1>5. ASSUME NEW n \in Names, NEW adm \in BOOLEAN, Create(n, adm)
      PROVE  SidsDrawn'
  BY <1>2, <1>5 DEF Create, Live
<1>6. CASE UNCHANGED dbVars
  BY <1>2, <1>6 DEF dbVars, Live
<1> QED
  BY <1>1, <1>3, <1>4, <1>5, <1>6 DEF TableStep

\* The accounts there are.
Members == {id \in UserIds : Present(id)}

\* Sessions that are dropped while the accounts and epochs stay end.
LEMMA SessionsOnlyEnd ==
  ASSUME SidsDrawn, Members' = Members, UNCHANGED <<epoch, usedSids>>,
         \A s \in Sids : sessions'[s] = sessions[s] \/ sessions'[s] = Absent
  PROVE  Sessions!Next
<1> DEFINE S == {s \in Sids : SessionCred'[s] # SessionCred[s]}
<1>1. ASSUME NEW s \in Sids
      PROVE  SessionCred'[s] \in {SessionCred[s], Sessions!Over}
  BY DEF SidsDrawn, SessionCred, Live, Sessions!Over
<1>2. SessionCred' = [s \in Sids |-> SessionCred'[s]]
  BY DEF SessionCred
<1>3. SessionCred' = Sessions!Ended(S)
  BY <1>1, <1>2 DEF Sessions!Ended
<1>4. Sessions!End(S)
  BY <1>3 DEF Sessions!End, Members
<1>5. S \in SUBSET Sids
  OBVIOUS
<1> QED
  BY <1>4, <1>5 DEF Sessions!Next

\* SessionsWithout ends the sessions of the one user.
LEMMA WithoutEnds ==
  ASSUME SidsDrawn, NEW id \in UserIds, sessions' = SessionsWithout(id), UNCHANGED usedSids
  PROVE  SessionCred' = Sessions!Ended(Sessions!Of(id))
<1>1. ASSUME NEW s \in Sids
      PROVE  /\ sessions'[s] = IF Live(s) /\ sessions[s].user = id THEN Absent ELSE sessions[s]
             /\ s \in Sessions!Of(id) <=> Live(s) /\ sessions[s].user = id
  BY DEF SessionsWithout, Live, Sessions!Of, Sessions!Live, SessionCred
<1>2. ASSUME NEW s \in Sids
      PROVE  SessionCred'[s] = IF s \in Sessions!Of(id) THEN Sessions!Over ELSE SessionCred[s]
  BY <1>1 DEF SidsDrawn, SessionCred, Live, Sessions!Over
<1>3. SessionCred' = [s \in Sids |-> SessionCred'[s]]
  BY DEF SessionCred
<1> QED
  BY <1>2, <1>3 DEF Sessions!Ended

\* Each step on the tables is one on credentials.
LEMMA TableStepRefines ==
  ASSUME IInv, SidsDrawn, TableStep
  PROVE  Sessions!Next
<1>0. /\ users \in [UserIds -> UserRow \cup {Absent}] /\ epoch \in [UserIds -> Nat]
      /\ sessions \in [Sids -> SessionRow \cup {Absent}] /\ nextId \in Nat
  BY DEF IInv, TypeOK
<1>1. CASE UNCHANGED dbVars
  BY <1>1, SessionsOnlyEnd DEF dbVars, Members, Present
<1>2. ASSUME NEW s \in Sids, DropSession(s)
      PROVE  Sessions!Next
  BY <1>0, <1>2, SessionsOnlyEnd DEF DropSession, Members, Present
<1>3. ASSUME NEW id \in UserIds, Present(id), Members' = Members, sessions' = SessionsWithout(id),
             epoch' = [epoch EXCEPT ![id] = @ + 1], UNCHANGED usedSids
      PROVE  Sessions!Next
  <2>1. SessionCred' = Sessions!Ended(Sessions!Of(id))
    BY <1>3, WithoutEnds
  <2>2. Sessions!SignOut(id)
    BY <1>3, <2>1 DEF Sessions!SignOut, Members
  <2> QED
    BY <2>2 DEF Sessions!Next
<1>4. ASSUME NEW id \in UserIds, SetPassword(id)
      PROVE  Sessions!Next
  BY <1>3, <1>4 DEF SetPassword, revokeSessions, Members, Present
<1>5. ASSUME NEW id \in UserIds, NEW adm \in BOOLEAN, SetAdmin(id, adm)
      PROVE  Sessions!Next
  <2>1. users[id] \in UserRow /\ Present(id)
    BY <1>0, <1>5 DEF SetAdmin, Present
  <2>2. [users[id] EXCEPT !.admin = adm] \in UserRow
    BY <2>1 DEF UserRow
  <2>3. \A k \in UserIds : Present(k)' <=> Present(k)
    BY <1>0, <1>5, <2>1, <2>2, AccountsAssumption DEF SetAdmin, Present
  <2>4. Members' = Members
    BY <2>3 DEF Members
  <2>5. CASE users[id].admin /\ ~ adm
    BY <1>3, <1>5, <2>1, <2>4, <2>5 DEF SetAdmin, revokeSessions
  <2>6. CASE ~ (users[id].admin /\ ~ adm)
    BY <1>5, <2>4, <2>6, SessionsOnlyEnd DEF SetAdmin
  <2> QED
    BY <2>5, <2>6
<1>6. ASSUME NEW id \in UserIds, Delete(id)
      PROVE  Sessions!Next
  <2>1. SessionCred' = Sessions!Ended(Sessions!Of(id))
    BY <1>6, WithoutEnds DEF Delete
  <2>2. \A k \in UserIds : Present(k)' <=> Present(k) /\ k # id
    BY <1>0, <1>6 DEF Delete, Present
  <2>3. Members' = Members \ {id}
    BY <2>2 DEF Members
  <2>4. Sessions!Leave(id)
    BY <1>6, <2>1, <2>3 DEF Sessions!Leave, Members, Delete
  <2> QED
    BY <2>4 DEF Sessions!Next
<1>7. ASSUME NEW n \in Names, NEW adm \in BOOLEAN, Create(n, adm)
      PROVE  Sessions!Next
  <2>1. nextId \in UserIds /\ ~ Present(nextId)
    BY <1>0, <1>7 DEF Create, IInv, IdsFresh
  <2>2. [name |-> n, admin |-> adm] \in UserRow
    BY DEF UserRow
  <2>3. \A k \in UserIds : Present(k)' <=> Present(k) \/ k = nextId
    BY <1>0, <1>7, <2>1, <2>2, AccountsAssumption DEF Create, Present
  <2>4. Members' = Members \cup {nextId}
    BY <2>1, <2>3 DEF Members
  <2>5. SessionCred' = SessionCred
    BY <1>7 DEF Create, SessionCred, Live
  <2>6. Sessions!Join(nextId)
    BY <1>7, <2>1, <2>4, <2>5 DEF Sessions!Join, Members, Create
  <2> QED
    BY <2>1, <2>6 DEF Sessions!Next
<1>8. ASSUME NEW p \in Procs, Issue(p), proc[p].at \in {"verified", "reissue"}
      PROVE  Sessions!Next
  <2>0. proc[p] \in ProcState /\ proc[p].user \in UserIds /\ proc[p].name \in Names
        /\ proc[p].who \in UserIds
    BY <1>8 DEF IInv, TypeOK, ProcOK
  <2>1. Members' = Members /\ UNCHANGED epoch
    BY <1>8 DEF Issue, Members, Present
  <2>2. CASE UNCHANGED <<usedSids, sessions>>
    BY <2>1, <2>2, SessionsOnlyEnd
  <2>3. CASE ~ UNCHANGED <<usedSids, sessions>>
    <3> DEFINE row == [user |-> proc[p].user, name |-> proc[p].name, who |-> proc[p].who,
                       gen |-> proc[p].gen, born |-> epoch[proc[p].user]]
               new == Sessions!Granted(proc[p].user, "portal", epoch[proc[p].user])
    <3>1. PICK s \in Sids \ usedSids :
            /\ Present(proc[p].user)
            /\ usedSids' = usedSids \cup {s} /\ sessions' = [sessions EXCEPT ![s] = row]
      BY <1>8, <2>3 DEF Issue
    <3>2. row \in SessionRow
      BY <1>0, <2>0 DEF SessionRow, ProcState
    <3>3. /\ sessions'[s] = row /\ row # Absent
          /\ \A r \in Sids \ {s} : sessions'[r] = sessions[r] /\ (r \in usedSids' <=> r \in usedSids)
      BY <1>0, <3>1, <3>2, AccountsAssumption
    <3>4. SessionCred[s] = Sessions!Unborn
      BY <3>1 DEF SidsDrawn, SessionCred, Sessions!Unborn
    <3>5. SessionCred'[s] = new
      BY <3>3 DEF SessionCred, Live, Sessions!Granted
    <3>6. \A r \in Sids \ {s} : SessionCred'[r] = SessionCred[r]
      BY <3>3 DEF SessionCred, Live
    <3>7. SessionCred' = [SessionCred EXCEPT ![s] = new]
      BY <3>5, <3>6 DEF SessionCred
    <3>8. Sessions!Give(s, proc[p].user, "portal")
      <4>1. proc[p].user \in Members
        BY <2>0, <3>1 DEF Members
      <4> HIDE DEF new
      <4> QED
        BY <2>1, <3>4, <3>7, <4>1 DEF Sessions!Give, Members, new
    <3> QED
      BY <2>0, <3>8 DEF Sessions!Next
  <2> QED
    BY <2>2, <2>3
<1> QED
  BY <1>1, <1>2, <1>4, <1>5, <1>6, <1>7, <1>8 DEF TableStep

\* The session table, with the handlers and commands that fill and empty it,
\* implements Credentials (session.go Issue and Revoke, users.go SetPassword,
\* SetAdmin and Delete).
THEOREM SessionsImplementCredentials == Spec => SessionsAreCredentials
<1>1. Init => SidsDrawn /\ Sessions!Init
  <2> SUFFICES ASSUME Init PROVE SidsDrawn /\ Sessions!Init
    OBVIOUS
  <2> QED
    BY DEF Init, SidsDrawn, Live, SessionCred, Sessions!Init, Sessions!Unborn
<1>2. IInv /\ SidsDrawn /\ [Next]_vars => SidsDrawn'
  BY StepsOfTables, SidsDrawnKept
<1>3. IInv /\ SidsDrawn /\ [Next]_vars => [Sessions!Next]_(Sessions!vars)
  BY StepsOfTables, TableStepRefines
<1> QED
  BY <1>1, <1>2, <1>3, AccountsInvariance, PTL
     DEF Spec, SessionsAreCredentials, Sessions!Spec

-----------------------------------------------------------------------------
(* What the two broken promises lack: AdminRemains and ResetLocksOut fail   *)
(* only through the windows that these theorems close.                      *)

\* A handler has checked that it may take the account or the admin role of its
\* target, and has not done so yet.
Removing(p) ==
  proc[p].at = "delete" \/ (proc[p].at \in {"emailing", "emailed"} /\ ~ proc[p].flag)

OneAtATime == \A p, q \in Procs : Removing(p) /\ Removing(q) => p = q

\* What canRemoveAdmin established still holds when the handler acts.
AdminBeside == \A p \in Procs : Removing(p) => Admins \ {proc[p].target} # {}

\* canRemoveAdmin answers whether there is an admin beside the account.
LEMMA CanRemoveMeans ==
  ASSUME NEW id \in UserIds, AdminRemains, canRemoveAdmin(id)
  PROVE  Admins \ {id} # {}
<1>1. CASE id \notin Admins
  BY <1>1 DEF AdminRemains
<1>2. CASE id \in Admins /\ Admins \ {id} = {}
  <2>1. Admins = {id}
    BY <1>2
  <2>2. Cardinality(Admins) = 1
    BY <2>1, FS_Singleton
  <2> QED
    BY <1>2, <2>2 DEF canRemoveAdmin
<1> QED
  BY <1>1, <1>2

\* A step that takes no admin away and lets handlers at most finish a removal
\* keeps it that one is left.
LEMMA AdminsGrow ==
  ASSUME AdminRemains, AdminBeside, Admins \subseteq Admins',
         \A p \in Procs : Removing(p)' => Removing(p) /\ proc'[p].target = proc[p].target
  PROVE  AdminRemains' /\ AdminBeside'
<1>1. ASSUME NEW p \in Procs, Removing(p)'
      PROVE  Admins' \ {proc'[p].target} # {}
  BY <1>1 DEF AdminBeside
<1> QED
  BY <1>1 DEF AdminRemains, AdminBeside

\* Without the CLI, and with one removal under way at a time, every step of the
\* portal leaves an admin.
LEMMA AdminKept ==
  ASSUME ~ UseCli, IInv, AdminRemains, AdminBeside, OneAtATime, OneAtATime', [Next]_vars
  PROVE  AdminRemains' /\ AdminBeside'
<1>0. /\ proc \in [Procs -> ProcState]
      /\ users \in [UserIds -> UserRow \cup {Absent}] /\ nextId \in Nat
  BY DEF IInv, TypeOK
\* A handler goes on without changing the tables, to removing nothing new.
<1>1. ASSUME UNCHANGED users, NEW p \in Procs, NEW st, Goto(p, st),
             \/ st.at \notin {"emailing", "emailed", "delete"}
             \/ st.at \in {"emailing", "emailed"} /\ st.flag
             \/ Removing(p) /\ st.target = proc[p].target
      PROVE  AdminRemains' /\ AdminBeside'
  <2>1. Admins' = Admins
    BY <1>1 DEF Admins, Present
  <2>2. proc'[p] = st /\ \A q \in Procs \ {p} : proc'[q] = proc[q]
    BY <1>0, <1>1 DEF Goto
  <2>3. \A q \in Procs : Removing(q)' => Removing(q) /\ proc'[q].target = proc[q].target
    BY <1>1, <2>2 DEF Removing
  <2> QED
    BY <2>1, <2>3, AdminsGrow
\* A handler begins a removal that it has checked.
<1>2. ASSUME UNCHANGED users, NEW p \in Procs, NEW id \in UserIds, NEW st, Goto(p, st),
             canRemoveAdmin(id), st.target = id
      PROVE  AdminRemains' /\ AdminBeside'
  <2>1. Admins' = Admins
    BY <1>2 DEF Admins, Present
  <2>2. proc'[p] = st /\ \A q \in Procs \ {p} : proc'[q] = proc[q]
    BY <1>0, <1>2 DEF Goto
  <2>3. Admins \ {id} # {}
    BY <1>2, CanRemoveMeans
  <2>4. ASSUME NEW q \in Procs, Removing(q)'
        PROVE  Admins' \ {proc'[q].target} # {}
    <3>1. CASE q = p
      BY <1>2, <2>1, <2>2, <2>3, <3>1
    <3>2. CASE q # p
      BY <2>1, <2>2, <2>4, <3>2 DEF Removing, AdminBeside
    <3> QED
      BY <3>1, <3>2
  <2> QED
    BY <2>1, <2>4 DEF AdminRemains, AdminBeside
\* A handler carries out the removal it has checked: no other is under way.
<1>3. ASSUME NEW p \in Procs, Removing(p), Return(p), Admins \ {proc[p].target} \subseteq Admins'
      PROVE  AdminRemains' /\ AdminBeside'
  <2>1. AdminRemains'
    BY <1>3 DEF AdminRemains, AdminBeside
  <2>2. proc'[p] = Idle /\ \A q \in Procs \ {p} : proc'[q] = proc[q]
    BY <1>0, <1>3 DEF Return, Goto
  <2>3. \A q \in Procs : ~ Removing(q)'
    BY <1>3, <2>2, IdleOK DEF OneAtATime, Removing
  <2> QED
    BY <2>1, <2>3 DEF AdminBeside
\* A handler that removes nothing returns, and the admins are at most more.
<1>4. ASSUME NEW p \in Procs, Return(p), Admins \subseteq Admins'
      PROVE  AdminRemains' /\ AdminBeside'
  <2>1. proc'[p] = Idle /\ \A q \in Procs \ {p} : proc'[q] = proc[q]
    BY <1>0, <1>4 DEF Return, Goto
  <2>2. \A q \in Procs : Removing(q)' => Removing(q) /\ proc'[q].target = proc[q].target
    BY <2>1, IdleOK DEF Removing
  <2> QED
    BY <1>4, <2>2, AdminsGrow
<1>5. ASSUME UNCHANGED <<users, proc>>
      PROVE  AdminRemains' /\ AdminBeside'
  <2>1. Admins' = Admins
    BY <1>5 DEF Admins, Present
  <2>2. \A p \in Procs : Removing(p)' => Removing(p) /\ proc'[p].target = proc[p].target
    BY <1>5 DEF Removing
  <2> QED
    BY <2>1, <2>2, AdminsGrow
<1>6. ASSUME NEW p \in Procs, LoginStep(p)
      PROVE  AdminRemains' /\ AdminBeside'
  <2>1. ASSUME NEW n \in Names, VerifyHash(p, n)
        PROVE  AdminRemains' /\ AdminBeside'
    <3>1. PICK id \in UserIds :
            Goto(p, [Idle EXCEPT !.at = "hashed", !.name = n, !.who = id, !.gen = pwGen[id]])
      BY <2>1 DEF VerifyHash
    <3> DEFINE st == [Idle EXCEPT !.at = "hashed", !.name = n, !.who = id, !.gen = pwGen[id]]
    <3>2. st.at = "hashed" /\ UNCHANGED users
      BY <2>1 DEF Idle, VerifyHash, dbVars
    <3> HIDE DEF st
    <3> QED
      BY <1>1, <3>1, <3>2 DEF st
  <2>2. CASE VerifyUser(p)
    <3>1. UNCHANGED users
      BY <2>2 DEF VerifyUser, dbVars
    <3>2. CASE Return(p)
      BY <1>4, <3>1, <3>2 DEF Admins, Present
    <3>3. ASSUME NEW id \in UserIds, Goto(p, [proc[p] EXCEPT !.at = "verified", !.user = id])
          PROVE  AdminRemains' /\ AdminBeside'
      <4> DEFINE st == [proc[p] EXCEPT !.at = "verified", !.user = id]
      <4>1. st.at = "verified" /\ Goto(p, st)
        BY <1>0, <3>3 DEF ProcState
      <4> HIDE DEF st
      <4> QED
        BY <1>1, <3>1, <4>1
    <3> QED
      BY <2>2, <3>2, <3>3 DEF VerifyUser
  <2>3. CASE LoginIssue(p)
    BY <1>4, <2>3 DEF LoginIssue, Issue, Admins, Present
  <2>4. ASSUME NEW n \in Names, VerifyUnknown(p, n)
        PROVE  AdminRemains' /\ AdminBeside'
    BY <1>5, <2>4 DEF VerifyUnknown, vars
  <2> QED
    BY <1>6, <2>1, <2>2, <2>3, <2>4 DEF LoginStep
<1>7. ASSUME NEW p \in Procs, NEW s \in Sids, LookupSession(p, s)
      PROVE  AdminRemains' /\ AdminBeside'
  <2> DEFINE st == [Idle EXCEPT !.at = "seen", !.user = sessions[s].user,
                                !.name = sessions[s].name]
  <2>1. st.at = "seen" /\ Goto(p, st) /\ UNCHANGED users
    BY <1>7 DEF LookupSession, Idle, dbVars
  <2> HIDE DEF st
  <2> QED
    BY <1>1, <2>1
<1>8. ASSUME NEW p \in Procs, requireAdmin(p)
      PROVE  AdminRemains' /\ AdminBeside'
  <2> DEFINE st == [proc[p] EXCEPT !.at = "admin"]
  <2>1. st.at = "admin" /\ (Goto(p, st) \/ Return(p)) /\ UNCHANGED users
    BY <1>0, <1>8 DEF requireAdmin, ProcState, dbVars
  <2> HIDE DEF st
  <2> QED
    BY <1>1, <1>4, <2>1 DEF Admins, Present
<1>9. ASSUME NEW p \in Procs, NEW id \in UserIds, NEW adm \in BOOLEAN, UpdateCheck(p, id, adm)
      PROVE  AdminRemains' /\ AdminBeside'
  <2> DEFINE st == [proc[p] EXCEPT !.at = "emailing", !.target = id, !.flag = adm]
  <2>1. st.at = "emailing" /\ st.target = id /\ st.flag = adm /\ UNCHANGED users
    BY <1>0, <1>9 DEF UpdateCheck, ProcState, dbVars
  <2>2. \/ Return(p)
        \/ Goto(p, st) /\ (adm \/ canRemoveAdmin(id))
    BY <1>9 DEF UpdateCheck
  <2> HIDE DEF st
  <2>3. CASE Return(p)
    BY <1>4, <2>1, <2>3 DEF Admins, Present
  <2>4. CASE Goto(p, st) /\ adm
    BY <1>1, <2>1, <2>4
  <2>5. CASE Goto(p, st) /\ canRemoveAdmin(id)
    BY <1>2, <2>1, <2>5
  <2> QED
    BY <2>2, <2>3, <2>4, <2>5
<1>10. ASSUME NEW p \in Procs, NEW id \in UserIds, DeleteCheck(p, id)
       PROVE  AdminRemains' /\ AdminBeside'
  <2> DEFINE st == [proc[p] EXCEPT !.at = "delete", !.target = id]
  <2>1. st.target = id /\ UNCHANGED users
    BY <1>0, <1>10 DEF DeleteCheck, ProcState, dbVars
  <2>2. \/ Return(p)
        \/ Goto(p, st) /\ canRemoveAdmin(id)
    BY <1>10 DEF DeleteCheck
  <2> HIDE DEF st
  <2> QED
    BY <1>2, <1>4, <2>1, <2>2 DEF Admins, Present
<1>11. ASSUME NEW p \in Procs, UpdateEmail(p)
       PROVE  AdminRemains' /\ AdminBeside'
  <2> DEFINE st == [proc[p] EXCEPT !.at = "emailed"]
  <2>1. /\ st.at = "emailed" /\ st.target = proc[p].target /\ st.flag = proc[p].flag
        /\ UNCHANGED users /\ proc[p].at = "emailing" /\ st.flag \in BOOLEAN
        /\ Goto(p, st) \/ Return(p)
    BY <1>0, <1>11 DEF UpdateEmail, ProcState, dbVars
  <2>2. st.flag \/ Removing(p)
    BY <2>1 DEF Removing
  <2> HIDE DEF st
  <2> QED
    BY <1>1, <1>4, <2>1, <2>2 DEF Admins, Present
<1>12. ASSUME NEW p \in Procs, UpdateRole(p)
       PROVE  AdminRemains' /\ AdminBeside'
  <2>1. /\ proc[p].at = "emailed" /\ proc[p].target \in UserIds /\ proc[p].flag \in BOOLEAN
        /\ Return(p)
    BY <1>12 DEF IInv, TypeOK, ProcOK, ProcState, UpdateRole
  <2>2. CASE UNCHANGED dbVars
    BY <1>4, <2>1, <2>2 DEF Admins, Present, dbVars
  <2>3. CASE SetAdmin(proc[p].target, proc[p].flag)
    <3> DEFINE t == proc[p].target
               adm == proc[p].flag
    <3>1. users[t] \in UserRow /\ users' = [users EXCEPT ![t] = [users[t] EXCEPT !.admin = adm]]
      BY <1>0, <2>1, <2>3 DEF SetAdmin, Present
    <3>2. [users[t] EXCEPT !.admin = adm] \in UserRow /\ [users[t] EXCEPT !.admin = adm].admin = adm
      BY <2>1, <3>1 DEF UserRow
    <3>3. /\ users'[t] # Absent /\ users'[t].admin = adm
          /\ \A k \in UserIds \ {t} : users'[k] = users[k]
      BY <1>0, <2>1, <3>1, <3>2, AccountsAssumption
    <3>4. Admins \ {t} \subseteq Admins'
          /\ (adm => Admins \subseteq Admins')
      BY <2>1, <3>3 DEF Admins, Present
    <3>5. CASE adm
      BY <1>4, <2>1, <3>4, <3>5
    <3>6. CASE ~ adm
      BY <1>3, <2>1, <3>4, <3>6 DEF Removing
    <3> QED
      BY <3>5, <3>6
  <2> QED
    BY <1>12, <2>2, <2>3 DEF UpdateRole
<1>13. ASSUME NEW p \in Procs, NEW id \in UserIds, PasswordSet(p, id)
       PROVE  AdminRemains' /\ AdminBeside'
  <2> DEFINE st == [proc[p] EXCEPT !.at = "reissue", !.who = id, !.gen = pwGen[id] + 1]
  <2>1. st.at = "reissue" /\ UNCHANGED users /\ (Goto(p, st) \/ Return(p))
    BY <1>0, <1>13 DEF PasswordSet, SetPassword, ProcState, dbVars
  <2> HIDE DEF st
  <2> QED
    BY <1>1, <1>4, <2>1 DEF Admins, Present
<1>14. ASSUME NEW p \in Procs, PasswordReissue(p)
       PROVE  AdminRemains' /\ AdminBeside'
  BY <1>4, <1>14 DEF PasswordReissue, Issue, Admins, Present
<1>15. ASSUME NEW p \in Procs, DeleteUser(p)
       PROVE  AdminRemains' /\ AdminBeside'
  <2>1. Removing(p) /\ Return(p)
    BY <1>15 DEF DeleteUser, Removing
  <2>2. \A k \in UserIds \ {proc[p].target} : users'[k] = users[k]
    BY <1>0, <1>15 DEF DeleteUser, Delete, dbVars
  <2>3. Admins \ {proc[p].target} \subseteq Admins'
    BY <2>2 DEF Admins, Present
  <2> QED
    BY <1>3, <2>1, <2>3
<1>16. ASSUME NEW p \in Procs, NEW n \in Names, NEW adm \in BOOLEAN, CreateUser(p, n, adm)
       PROVE  AdminRemains' /\ AdminBeside'
  <2>1. Return(p) /\ \A k \in UserIds : Present(k) => users'[k] = users[k]
    BY <1>0, <1>16 DEF CreateUser, Create, dbVars, IInv, IdsFresh
  <2>2. Admins \subseteq Admins'
    BY <2>1 DEF Admins, Present
  <2> QED
    BY <1>4, <2>1, <2>2
<1>17. ASSUME NEW s \in Sids, DropSession(s)
       PROVE  AdminRemains' /\ AdminBeside'
  BY <1>5, <1>17 DEF DropSession
<1>18. CASE UNCHANGED vars
  BY <1>5, <1>18 DEF vars
<1>19. ASSUME NEW p \in Procs, AdminStep(p)
       PROVE  AdminRemains' /\ AdminBeside'
  BY <1>7, <1>8, <1>9, <1>10, <1>11, <1>12, <1>13, <1>14, <1>15, <1>16, <1>19 DEF AdminStep
<1> QED
  BY <1>6, <1>17, <1>18, <1>19 DEF Next, Cli, CliAdd

\* The portal never removes its last admin, if no CLI command runs beside it and
\* no two removals overlap: what admin.go:188-199 and 257-266 lack is only that
\* the check and the change exclude other handlers.
THEOREM AdminRemainsOneAtATime ==
  ASSUME ~ UseCli
  PROVE  Spec /\ []OneAtATime => []AdminRemains
<1>1. Init => AdminRemains /\ AdminBeside
  <2> SUFFICES ASSUME Init PROVE AdminRemains /\ AdminBeside
    OBVIOUS
  <2>1. 1 \in Admins
    <3>1. PICK n \in Names :
            users = [id \in UserIds |-> IF id = 1 THEN [name |-> n, admin |-> TRUE] ELSE Absent]
      BY DEF Init
    <3>2. [name |-> n, admin |-> TRUE] \in UserRow
      BY DEF UserRow
    <3>3. 1 \in UserIds
      BY AccountsAssumption DEF UserIds
    <3>4. users[1] = [name |-> n, admin |-> TRUE] /\ users[1] # Absent
      BY <3>1, <3>2, <3>3, AccountsAssumption
    <3> QED
      BY <3>3, <3>4 DEF Admins, Present
  <2>2. AdminBeside
    BY IdleOK DEF Init, AdminBeside, Removing
  <2> QED
    BY <2>1, <2>2 DEF AdminRemains
<1>2. /\ IInv /\ AdminRemains /\ AdminBeside /\ [Next]_vars
      /\ OneAtATime /\ OneAtATime'
      => AdminRemains' /\ AdminBeside'
  BY AdminKept
<1> QED
  BY <1>1, <1>2, AccountsInvariance, PTL DEF Spec

\* A login has checked the account's password and is to read the account.
HashRead(id) ==
  \E p \in Procs : proc[p].at = "hashed" /\ Present(id) /\ users[id].name = proc[p].name

\* A login of the account, or a reset of one's own, has its password and is to
\* issue a session.
LoginUnderWay(id) ==
  HashRead(id) \/ \E p \in Procs : proc[p].at \in {"verified", "reissue"} /\ proc[p].user = id

\* The account's password is not set while a login of the account is under way,
\* and the account is not deleted between that login's two reads.
Undisturbed ==
  \A id \in UserIds :
    /\ LoginUnderWay(id) => pwGen'[id] = pwGen[id]
    /\ HashRead(id) => Present(id)'

NamesUnique ==
  \A i, j \in UserIds : Present(i) /\ Present(j) /\ users[i].name = users[j].name => i = j

\* The password verified is the one the account has.
Fresh(st) ==
  /\ st.at = "hashed" =>
       \E id \in UserIds : Present(id) /\ users[id].name = st.name /\ st.gen = pwGen[id]
  /\ st.at \in {"verified", "reissue"} =>
       st.user \in UserIds /\ st.gen = pwGen[st.user]

LoginsFresh == \A p \in Procs : Fresh(proc[p])

\* Accounts never change their name, and no two have the same.
LEMMA NamesStay ==
  ASSUME IInv, NamesUnique, TableStep
  PROVE  /\ NamesUnique'
         /\ \A id \in UserIds : Present(id) /\ Present(id)' => users'[id].name = users[id].name
<1>0. users \in [UserIds -> UserRow \cup {Absent}] /\ nextId \in Nat
  BY DEF IInv, TypeOK
\* What all steps but Create have in common.
<1>1. ASSUME \A id \in UserIds : Present(id)' => Present(id) /\ users'[id].name = users[id].name
      PROVE  /\ NamesUnique'
             /\ \A id \in UserIds : Present(id) /\ Present(id)' => users'[id].name = users[id].name
  BY <1>1 DEF NamesUnique
<1>2. CASE UNCHANGED users
  BY <1>1, <1>2 DEF Present
<1>3. ASSUME NEW id \in UserIds, NEW adm \in BOOLEAN, SetAdmin(id, adm)
      PROVE  \A k \in UserIds : Present(k)' => Present(k) /\ users'[k].name = users[k].name
  <2>1. users[id] \in UserRow /\ Present(id)
    BY <1>0, <1>3 DEF SetAdmin, Present
  <2>2. [users[id] EXCEPT !.admin = adm].name = users[id].name
    BY <2>1 DEF UserRow
  <2> QED
    BY <1>0, <1>3, <2>1, <2>2 DEF SetAdmin, Present
<1>4. ASSUME NEW id \in UserIds, Delete(id)
      PROVE  \A k \in UserIds : Present(k)' => Present(k) /\ users'[k].name = users[k].name
  BY <1>0, <1>4 DEF Delete, Present
<1>5. ASSUME NEW n \in Names, NEW adm \in BOOLEAN, Create(n, adm)
      PROVE  /\ NamesUnique'
             /\ \A id \in UserIds : Present(id) /\ Present(id)' => users'[id].name = users[id].name
  <2>1. nextId \in UserIds /\ ~ Present(nextId)
    BY <1>0, <1>5 DEF Create, IInv, IdsFresh
  <2>2. /\ users'[nextId].name = n /\ \A k \in UserIds \ {nextId} : users'[k] = users[k]
        /\ \A k \in UserIds : Present(k) => users[k].name # n
    BY <1>0, <1>5, <2>1 DEF Create
  <2> QED
    BY <2>1, <2>2 DEF NamesUnique, Present
<1>6. CASE TableStep /\ ~ UNCHANGED users
  BY <1>1, <1>3, <1>4, <1>5, <1>6 DEF TableStep, dbVars, DropSession, SetPassword, Issue
<1> QED
  BY <1>2, <1>6

\* An undisturbed login keeps the password it has verified up to date.
LEMMA FreshKept ==
  ASSUME IInv, NamesUnique, LoginsFresh, TableStep, Undisturbed, NEW p \in Procs,
         proc'[p] = proc[p]
  PROVE  Fresh(proc[p])'
<1>1. Fresh(proc[p])
  BY DEF LoginsFresh
<1>2. CASE proc[p].at \notin {"hashed", "verified", "reissue"}
  BY <1>2 DEF Fresh
<1>3. CASE proc[p].at = "hashed"
  <2>1. PICK id \in UserIds : /\ Present(id) /\ users[id].name = proc[p].name
                             /\ proc[p].gen = pwGen[id]
    BY <1>1, <1>3 DEF Fresh
  <2>2. HashRead(id)
    BY <1>3, <2>1 DEF HashRead
  <2>3. pwGen'[id] = pwGen[id] /\ Present(id)'
    BY <2>2 DEF Undisturbed, LoginUnderWay
  <2>4. users'[id].name = users[id].name
    BY <2>1, <2>3, NamesStay
  <2> QED
    BY <1>3, <2>1, <2>3, <2>4 DEF Fresh, Present
<1>4. CASE proc[p].at \in {"verified", "reissue"}
  <2>1. proc[p].user \in UserIds /\ proc[p].gen = pwGen[proc[p].user]
    BY <1>1, <1>4 DEF Fresh
  <2>2. pwGen'[proc[p].user] = pwGen[proc[p].user]
    BY <1>4, <2>1 DEF Undisturbed, LoginUnderWay
  <2> QED
    BY <1>4, <2>1, <2>2 DEF Fresh
<1> QED
  BY <1>2, <1>3, <1>4

\* A handler that moves has verified the current password, or none.
LEMMA LoginsStayFresh ==
  ASSUME IInv, NamesUnique, LoginsFresh, [Next]_vars, Undisturbed
  PROVE  LoginsFresh'
<1>0. /\ proc \in [Procs -> ProcState] /\ TableStep
      /\ pwGen \in [UserIds -> Nat] /\ users \in [UserIds -> UserRow \cup {Absent}]
  BY StepsOfTables DEF IInv, TypeOK
<1>1. ASSUME NEW p \in Procs, NEW st, Goto(p, st), Fresh(st)'
      PROVE  LoginsFresh'
  <2>1. proc'[p] = st /\ \A q \in Procs \ {p} : proc'[q] = proc[q]
    BY <1>0, <1>1 DEF Goto
  <2>2. ASSUME NEW q \in Procs
        PROVE  Fresh(proc[q])'
    <3>1. CASE q = p
      BY <1>1, <2>1, <3>1 DEF Fresh, Present
    <3>2. CASE q # p
      BY <1>0, <2>1, <3>2, FreshKept
    <3> QED
      BY <3>1, <3>2
  <2> QED
    BY <2>2 DEF LoginsFresh
<1>2. ASSUME NEW p \in Procs, NEW st, Goto(p, st), st.at \notin {"hashed", "verified", "reissue"}
      PROVE  LoginsFresh'
  BY <1>1, <1>2 DEF Fresh
<1>3. ASSUME NEW p \in Procs, Return(p)
      PROVE  LoginsFresh'
  BY <1>2, <1>3, IdleOK DEF Return
<1>4. ASSUME UNCHANGED proc
      PROVE  LoginsFresh'
  <2>1. \A p \in Procs : Fresh(proc[p])'
    BY <1>0, <1>4, FreshKept
  <2> QED
    BY <2>1 DEF LoginsFresh
<1>5. ASSUME NEW p \in Procs, NEW n \in Names, VerifyHash(p, n)
      PROVE  LoginsFresh'
  <2>1. PICK id \in UserIds :
          /\ Present(id) /\ users[id].name = n
          /\ Goto(p, [Idle EXCEPT !.at = "hashed", !.name = n, !.who = id, !.gen = pwGen[id]])
    BY <1>5 DEF VerifyHash
  <2> DEFINE st == [Idle EXCEPT !.at = "hashed", !.name = n, !.who = id, !.gen = pwGen[id]]
  <2>2. st.at = "hashed" /\ st.name = n /\ st.gen = pwGen[id]
    BY DEF Idle
  <2>3. UNCHANGED <<users, pwGen>>
    BY <1>5 DEF VerifyHash, dbVars
  <2>4. PICK new : new = st
    OBVIOUS
  <2>5. Fresh(new)'
    BY <2>1, <2>2, <2>3, <2>4 DEF Fresh, Present
  <2> QED
    BY <1>1, <2>1, <2>4, <2>5
<1>6. ASSUME NEW p \in Procs, VerifyUser(p)
      PROVE  LoginsFresh'
  <2>1. proc[p].at = "hashed" /\ UNCHANGED <<users, pwGen>> /\ proc[p] \in ProcState
    BY <1>0, <1>6 DEF VerifyUser, dbVars
  <2>2. ASSUME NEW id \in UserIds, Present(id), users[id].name = proc[p].name,
               Goto(p, [proc[p] EXCEPT !.at = "verified", !.user = id])
        PROVE  LoginsFresh'
    <3>1. PICK new : new = [proc[p] EXCEPT !.at = "verified", !.user = id]
      OBVIOUS
    <3>2. new.at = "verified" /\ new.user = id /\ new.gen = proc[p].gen
      BY <2>1, <3>1 DEF ProcState
    <3>3. PICK k \in UserIds : Present(k) /\ users[k].name = proc[p].name /\ proc[p].gen = pwGen[k]
      BY <2>1 DEF LoginsFresh, Fresh
    <3>4. k = id
      BY <2>2, <3>3 DEF NamesUnique
    <3>5. Fresh(new)'
      BY <2>1, <2>2, <3>2, <3>3, <3>4 DEF Fresh, Present
    <3> QED
      BY <1>1, <2>2, <3>1, <3>5
  <2> QED
    BY <1>3, <1>6, <2>2 DEF VerifyUser
<1>7. ASSUME NEW p \in Procs, NEW id \in UserIds, PasswordSet(p, id)
      PROVE  LoginsFresh'
  <2>1. CASE Return(p)
    BY <1>3, <2>1
  <2>2. CASE /\ SetPassword(id) /\ id = proc[p].user
             /\ Goto(p, [proc[p] EXCEPT !.at = "reissue", !.who = id, !.gen = pwGen[id] + 1])
    <3>1. PICK new : new = [proc[p] EXCEPT !.at = "reissue", !.who = id, !.gen = pwGen[id] + 1]
      OBVIOUS
    <3>2. new.at = "reissue" /\ new.user = id /\ new.gen = pwGen[id] + 1
      BY <1>0, <2>2, <3>1 DEF ProcState
    <3>3. Present(id) /\ UNCHANGED users /\ pwGen'[id] = pwGen[id] + 1
      BY <1>0, <2>2 DEF SetPassword
    <3>4. Fresh(new)'
      BY <3>2, <3>3 DEF Fresh, Present
    <3> QED
      BY <1>1, <2>2, <3>1, <3>4
  <2> QED
    BY <1>7, <2>1, <2>2 DEF PasswordSet
<1>8. ASSUME NEW p \in Procs, NEW s \in Sids, LookupSession(p, s)
      PROVE  LoginsFresh'
  <2>1. PICK new : new = [Idle EXCEPT !.at = "seen", !.user = sessions[s].user,
                                      !.name = sessions[s].name]
    OBVIOUS
  <2>2. new.at = "seen" /\ Goto(p, new)
    BY <1>8, <2>1 DEF LookupSession, Idle
  <2> QED
    BY <1>2, <2>2
<1>9. ASSUME NEW p \in Procs, requireAdmin(p) \/ UpdateEmail(p)
      PROVE  LoginsFresh'
  <2>1. PICK at \in {"admin", "emailed"} : Goto(p, [proc[p] EXCEPT !.at = at]) \/ Return(p)
    BY <1>9 DEF requireAdmin, UpdateEmail
  <2>2. PICK new : new = [proc[p] EXCEPT !.at = at]
    OBVIOUS
  <2>3. new.at = at
    BY <1>0, <2>2 DEF ProcState
  <2> QED
    BY <1>2, <1>3, <2>1, <2>2, <2>3
<1>10. ASSUME NEW p \in Procs, NEW id \in UserIds, NEW adm \in BOOLEAN, UpdateCheck(p, id, adm)
       PROVE  LoginsFresh'
  <2>1. PICK new : new = [proc[p] EXCEPT !.at = "emailing", !.target = id, !.flag = adm]
    OBVIOUS
  <2>2. new.at = "emailing" /\ (Goto(p, new) \/ Return(p))
    BY <1>0, <1>10, <2>1 DEF UpdateCheck, ProcState
  <2> QED
    BY <1>2, <1>3, <2>2
<1>11. ASSUME NEW p \in Procs, NEW id \in UserIds, DeleteCheck(p, id)
       PROVE  LoginsFresh'
  <2>1. PICK new : new = [proc[p] EXCEPT !.at = "delete", !.target = id]
    OBVIOUS
  <2>2. new.at = "delete" /\ (Goto(p, new) \/ Return(p))
    BY <1>0, <1>11, <2>1 DEF DeleteCheck, ProcState
  <2> QED
    BY <1>2, <1>3, <2>2
<1>12. ASSUME NEW p \in Procs, LoginStep(p)
       PROVE  LoginsFresh'
  <2>1. CASE LoginIssue(p)
    BY <1>3, <2>1 DEF LoginIssue, Issue
  <2>2. ASSUME NEW n \in Names, VerifyUnknown(p, n)
        PROVE  LoginsFresh'
    BY <1>4, <2>2 DEF VerifyUnknown, vars
  <2> QED
    BY <1>5, <1>6, <1>12, <2>1, <2>2 DEF LoginStep
<1>13. ASSUME NEW p \in Procs,
              \/ UpdateRole(p) \/ PasswordReissue(p) \/ DeleteUser(p)
              \/ \E n \in Names, adm \in BOOLEAN : CreateUser(p, n, adm)
       PROVE  LoginsFresh'
  <2>1. Return(p)
    BY <1>13 DEF UpdateRole, PasswordReissue, Issue, DeleteUser, CreateUser
  <2> QED
    BY <1>3, <2>1
<1>14. ASSUME NEW p \in Procs, AdminStep(p)
       PROVE  LoginsFresh'
  BY <1>7, <1>8, <1>9, <1>10, <1>11, <1>13, <1>14 DEF AdminStep
<1>15. CASE \/ UNCHANGED vars
            \/ \E s \in Sids : DropSession(s)
            \/ \E id \in UserIds : Cli(id)
            \/ \E n \in Names, adm \in BOOLEAN : CliAdd(n, adm)
  BY <1>4, <1>15 DEF vars, DropSession, Cli, CliAdd
<1> QED
  BY <1>12, <1>14, <1>15 DEF Next

\* A session row written now rests on the current password, and a reset takes
\* the others along.
LEMMA SessionsStayFresh ==
  ASSUME IInv, LoginsFresh, ResetLocksOut, TableStep
  PROVE  ResetLocksOut'
<1>0. /\ sessions \in [Sids -> SessionRow \cup {Absent}] /\ pwGen \in [UserIds -> Nat]
  BY DEF IInv, TypeOK
<1>1. ASSUME pwGen' = pwGen,
             \A s \in Sids : sessions'[s] = sessions[s] \/ sessions'[s] = Absent
      PROVE  ResetLocksOut'
  BY <1>1 DEF ResetLocksOut, Live
<1>2. ASSUME NEW id \in UserIds, SetPassword(id)
      PROVE  ResetLocksOut'
  <2>1. sessions' = SessionsWithout(id) /\ \A k \in UserIds \ {id} : pwGen'[k] = pwGen[k]
    BY <1>0, <1>2 DEF SetPassword, revokeSessions
  <2>2. ASSUME NEW s \in Sids, Live(s)'
        PROVE  /\ Live(s) /\ sessions'[s] = sessions[s]
               /\ sessions[s].user \in UserIds \ {id}
    BY <1>0, <2>1, <2>2 DEF SessionsWithout, Live, SessionRow
  <2> QED
    BY <2>1, <2>2 DEF ResetLocksOut
<1>3. ASSUME NEW p \in Procs, Issue(p), proc[p].at \in {"verified", "reissue"}
      PROVE  ResetLocksOut'
  <2>1. proc[p].gen = pwGen[proc[p].user] /\ pwGen' = pwGen
    BY <1>3 DEF LoginsFresh, Fresh, Issue
  <2>2. ASSUME NEW s \in Sids, Live(s)'
        PROVE  \/ Live(s) /\ sessions'[s] = sessions[s]
               \/ sessions'[s].gen = proc[p].gen /\ sessions'[s].user = proc[p].user
    BY <1>0, <1>3, <2>2 DEF Issue, Live
  <2> QED
    BY <2>1, <2>2 DEF ResetLocksOut
<1>4. ASSUME NEW id \in UserIds, Delete(id) \/ (\E adm \in BOOLEAN : SetAdmin(id, adm))
      PROVE  ResetLocksOut'
  BY <1>1, <1>4 DEF Delete, SetAdmin, revokeSessions, SessionsWithout
<1>5. ASSUME NEW n \in Names, NEW adm \in BOOLEAN, Create(n, adm)
      PROVE  ResetLocksOut'
  BY <1>1, <1>5 DEF Create
<1>6. ASSUME NEW s \in Sids, DropSession(s)
      PROVE  ResetLocksOut'
  BY <1>0, <1>1, <1>6 DEF DropSession
<1>7. CASE UNCHANGED dbVars
  BY <1>1, <1>7 DEF dbVars
<1> QED
  BY <1>2, <1>3, <1>4, <1>5, <1>6, <1>7 DEF TableStep

\* No session rests on an old password, as long as no account's password is set
\* while a login of the account is under way, nor the account deleted between the
\* login's two reads: what users.go:137-138 promises fails in the window between
\* reading the hash and inserting the session (users.go Verify, session.go Issue),
\* and nowhere else.
THEOREM ResetLocksOutUndisturbed == Spec /\ [][Undisturbed]_vars => []ResetLocksOut
<1>1. Init => NamesUnique /\ LoginsFresh /\ ResetLocksOut
  <2> SUFFICES ASSUME Init PROVE NamesUnique /\ LoginsFresh /\ ResetLocksOut
    OBVIOUS
  <2>1. NamesUnique
    BY DEF Init, NamesUnique, Present
  <2>2. LoginsFresh
    BY IdleOK DEF Init, LoginsFresh, Fresh
  <2>3. ResetLocksOut
    BY DEF Init, ResetLocksOut, Live
  <2> QED
    BY <2>1, <2>2, <2>3
<1>2. Undisturbed \/ UNCHANGED vars => Undisturbed
  BY DEF Undisturbed, LoginUnderWay, HashRead, vars, Present
<1>3. /\ IInv /\ NamesUnique /\ LoginsFresh /\ ResetLocksOut
      /\ [Next]_vars /\ [Undisturbed]_vars
      => (NamesUnique /\ LoginsFresh /\ ResetLocksOut)'
  BY <1>2, StepsOfTables, NamesStay, LoginsStayFresh, SessionsStayFresh
<1> QED
  BY <1>1, <1>3, AccountsInvariance, PTL DEF Spec

-----------------------------------------------------------------------------
(* Whose password a session rests on.                                      *)

\* The account acted for is the verified one, or has taken its name over.
Follows(id, who) == id = who \/ Heir(id, who)

\* Whoever has the name that was typed is the account whose hash was read, or has
\* taken the name over from it.
Checked(st) ==
  /\ st.at = "hashed" =>
       /\ st.who < nextId
       /\ Present(st.who) => users[st.who].name = st.name
       /\ \A id \in UserIds : Present(id) /\ users[id].name = st.name => Follows(id, st.who)
  /\ st.at \in {"verified", "reissue"} => Follows(st.user, st.who)

PersonsOK ==
  /\ \A p \in Procs : Checked(proc[p])
  /\ \A s \in Sids : Live(s) => Follows(sessions[s].user, sessions[s].who)

\* A new account gets the next id and a name that nobody has.
LEMMA AccountsAppear ==
  ASSUME IInv, TableStep
  PROVE  /\ nextId \in Nat /\ nextId' \in Nat /\ nextId' >= nextId
         /\ \A id \in UserIds : Present(id)' /\ ~ Present(id) =>
              /\ id = nextId
              /\ \A k \in UserIds : Present(k) => users[k].name # users'[id].name
<1>0. users \in [UserIds -> UserRow \cup {Absent}] /\ nextId \in Nat
  BY DEF IInv, TypeOK
<1>1. ASSUME NEW n \in Names, NEW adm \in BOOLEAN, Create(n, adm)
      PROVE  /\ nextId' = nextId + 1
             /\ \A id \in UserIds : Present(id)' /\ ~ Present(id) =>
                  id = nextId /\ users'[id].name = n
             /\ \A k \in UserIds : Present(k) => users[k].name # n
  BY <1>0, <1>1 DEF Create, Present
<1>2. ASSUME NEW id \in UserIds,
             SetPassword(id) \/ Delete(id) \/ (\E adm \in BOOLEAN : SetAdmin(id, adm))
      PROVE  UNCHANGED nextId /\ \A k \in UserIds : Present(k)' => Present(k)
  BY <1>0, <1>2 DEF SetPassword, Delete, SetAdmin, Present
<1>3. CASE UNCHANGED <<users, nextId>>
  BY <1>0, <1>3 DEF Present
<1> QED
  BY <1>0, <1>1, <1>2, <1>3 DEF TableStep, dbVars, DropSession, Issue

\* A deleted account does not come back, so whoever took its name over keeps it.
LEMMA FollowsStays ==
  ASSUME IInv, TableStep, NEW id \in UserIds, NEW who \in UserIds, Follows(id, who), id < nextId
  PROVE  Follows(id, who)'
<1>1. nextId \in Nat /\ id \in Nat /\ who \in Nat
  BY AccountsAppear DEF UserIds
<1>2. CASE id = who
  BY <1>2 DEF Follows
<1>3. CASE Heir(id, who)
  <2>1. ~ Present(who) /\ who < id /\ who # nextId
    BY <1>1, <1>3 DEF Heir
  <2>2. ~ Present(who)'
    BY <2>1, AccountsAppear
  <2> QED
    BY <2>1, <2>2 DEF Follows, Heir, Present
<1> QED
  BY <1>2, <1>3 DEF Follows

\* What a waiting handler has checked stays checked.
LEMMA CheckedStays ==
  ASSUME IInv, NamesUnique, TableStep, NEW st, GoodState(st), Checked(st)
  PROVE  Checked(st)'
<1>1. CASE st.at = "hashed"
  <2>1. /\ st.who \in UserIds /\ st.who < nextId
        /\ Present(st.who) => users[st.who].name = st.name
        /\ \A id \in UserIds : Present(id) /\ users[id].name = st.name => Follows(id, st.who)
    BY <1>1 DEF Checked, GoodState
  <2>2. nextId \in Nat /\ nextId' \in Nat /\ nextId' >= nextId /\ st.who \in Nat
    BY <2>1, AccountsAppear DEF UserIds
  <2>3. Present(st.who)' => Present(st.who)
    BY <2>1, <2>2, AccountsAppear
  <2>4. Present(st.who)' => users'[st.who].name = st.name
    BY <2>1, <2>3, NamesStay
  <2>5. ASSUME NEW id \in UserIds, Present(id)', users'[id].name = st.name
        PROVE  Follows(id, st.who)'
    <3>1. CASE Present(id)
      <4>1. users[id].name = st.name /\ id < nextId
        BY <2>5, <3>1, NamesStay DEF IInv, IdsFresh
      <4> QED
        BY <2>1, <3>1, <4>1, FollowsStays
    <3>2. CASE ~ Present(id)
      <4>1. id = nextId /\ ~ Present(st.who)
        BY <2>1, <2>5, <3>2, AccountsAppear
      <4> QED
        BY <2>1, <2>3, <4>1 DEF Follows, Heir, Present
    <3> QED
      BY <3>1, <3>2
  <2> QED
    BY <1>1, <2>1, <2>2, <2>4, <2>5 DEF Checked, Follows, Heir, Present
<1>2. CASE st.at \in {"verified", "reissue"}
  <2>1. st.user \in UserIds /\ st.who \in UserIds /\ st.user < nextId /\ Follows(st.user, st.who)
    BY <1>2 DEF Checked, GoodState
  <2> QED
    BY <1>2, <2>1, FollowsStays DEF Checked, Follows, Heir, Present
<1>3. CASE st.at \notin {"hashed", "verified", "reissue"}
  BY <1>3 DEF Checked
<1> QED
  BY <1>1, <1>2, <1>3

\* A handler that moves has checked the account it is going to sign in.
LEMMA HandlersCheck ==
  ASSUME IInv, NamesUnique, PersonsOK, [Next]_vars
  PROVE  \A p \in Procs : Checked(proc[p])'
<1>0. /\ proc \in [Procs -> ProcState] /\ TableStep
      /\ nextId \in Nat /\ users \in [UserIds -> UserRow \cup {Absent}]
  BY StepsOfTables DEF IInv, TypeOK
<1> DEFINE Goal == \A p \in Procs : Checked(proc[p])'
<1>1. ASSUME NEW q \in Procs, proc'[q] = proc[q]
      PROVE  Checked(proc[q])'
  <2>1. PICK st : st = proc[q]
    OBVIOUS
  <2>2. GoodState(st) /\ Checked(st)
    BY <1>0, <2>1 DEF GoodState, IInv, ProcOK, PersonsOK
  <2>3. Checked(st)'
    BY <1>0, <2>2, CheckedStays
  <2> QED
    BY <1>1, <2>1, <2>3 DEF Checked, Follows, Heir, Present
<1>2. ASSUME NEW p \in Procs, NEW st, Goto(p, st), Checked(st)'
      PROVE  Goal
  <2>1. proc'[p] = st /\ \A q \in Procs \ {p} : proc'[q] = proc[q]
    BY <1>0, <1>2 DEF Goto
  <2>2. Checked(proc[p])'
    BY <1>2, <2>1 DEF Checked, Follows, Heir, Present
  <2> QED
    BY <1>1, <2>1, <2>2
<1>3. ASSUME NEW p \in Procs, NEW st, Goto(p, st), st.at \notin {"hashed", "verified", "reissue"}
      PROVE  Goal
  <2>1. Checked(st)'
    BY <1>3 DEF Checked
  <2> QED
    BY <1>2, <1>3, <2>1
<1>4. ASSUME NEW p \in Procs, Return(p)
      PROVE  Goal
  BY <1>3, <1>4, IdleOK DEF Return
<1>5. ASSUME NEW p \in Procs, NEW n \in Names, VerifyHash(p, n)
      PROVE  Goal
  <2>1. PICK id \in UserIds :
          /\ Present(id) /\ users[id].name = n
          /\ Goto(p, [Idle EXCEPT !.at = "hashed", !.name = n, !.who = id, !.gen = pwGen[id]])
    BY <1>5 DEF VerifyHash
  <2>2. PICK new : new = [Idle EXCEPT !.at = "hashed", !.name = n, !.who = id, !.gen = pwGen[id]]
    OBVIOUS
  <2>3. new.at = "hashed" /\ new.name = n /\ new.who = id
    BY <2>2 DEF Idle
  <2>4. UNCHANGED <<users, nextId>>
    BY <1>5 DEF VerifyHash, dbVars
  <2>5. id < nextId /\ \A k \in UserIds : Present(k) /\ users[k].name = n => k = id
    BY <2>1 DEF IInv, IdsFresh, NamesUnique
  <2>6. Checked(new)'
    BY <2>1, <2>3, <2>4, <2>5 DEF Checked, Follows, Present
  <2> QED
    BY <1>2, <2>1, <2>2, <2>6
<1>6. ASSUME NEW p \in Procs, VerifyUser(p)
      PROVE  Goal
  <2>1. proc[p].at = "hashed" /\ UNCHANGED <<users, nextId>> /\ proc[p] \in ProcState
    BY <1>0, <1>6 DEF VerifyUser, dbVars
  <2>2. ASSUME NEW id \in UserIds, Present(id), users[id].name = proc[p].name,
               Goto(p, [proc[p] EXCEPT !.at = "verified", !.user = id])
        PROVE  Goal
    <3>1. PICK new : new = [proc[p] EXCEPT !.at = "verified", !.user = id]
      OBVIOUS
    <3>2. new.at = "verified" /\ new.user = id /\ new.who = proc[p].who
      BY <2>1, <3>1 DEF ProcState
    <3>3. Follows(id, proc[p].who)
      BY <2>1, <2>2 DEF PersonsOK, Checked
    <3>4. Checked(new)'
      BY <2>1, <3>2, <3>3 DEF Checked, Follows, Heir, Present
    <3> QED
      BY <1>2, <2>2, <3>1, <3>4
  <2> QED
    BY <1>4, <1>6, <2>2 DEF VerifyUser
<1>7. ASSUME NEW p \in Procs, NEW id \in UserIds, PasswordSet(p, id)
      PROVE  Goal
  <2>1. CASE Return(p)
    BY <1>4, <2>1
  <2>2. CASE /\ id = proc[p].user
             /\ Goto(p, [proc[p] EXCEPT !.at = "reissue", !.who = id, !.gen = pwGen[id] + 1])
    <3>1. PICK new : new = [proc[p] EXCEPT !.at = "reissue", !.who = id, !.gen = pwGen[id] + 1]
      OBVIOUS
    <3>2. new.at = "reissue" /\ new.user = id /\ new.who = id
      BY <1>0, <2>2, <3>1 DEF ProcState
    <3>3. Checked(new)'
      BY <3>2 DEF Checked, Follows
    <3> QED
      BY <1>2, <2>2, <3>1, <3>3
  <2> QED
    BY <1>7, <2>1, <2>2 DEF PasswordSet
<1>8. ASSUME NEW p \in Procs, NEW s \in Sids, LookupSession(p, s)
      PROVE  Goal
  <2>1. PICK new : new = [Idle EXCEPT !.at = "seen", !.user = sessions[s].user,
                                      !.name = sessions[s].name]
    OBVIOUS
  <2>2. new.at = "seen" /\ Goto(p, new)
    BY <1>8, <2>1 DEF LookupSession, Idle
  <2> QED
    BY <1>3, <2>2
<1>9. ASSUME NEW p \in Procs, requireAdmin(p) \/ UpdateEmail(p)
      PROVE  Goal
  <2>1. PICK at \in {"admin", "emailed"} : Goto(p, [proc[p] EXCEPT !.at = at]) \/ Return(p)
    BY <1>9 DEF requireAdmin, UpdateEmail
  <2>2. PICK new : new = [proc[p] EXCEPT !.at = at]
    OBVIOUS
  <2>3. new.at = at
    BY <1>0, <2>2 DEF ProcState
  <2> QED
    BY <1>3, <1>4, <2>1, <2>2, <2>3
<1>10. ASSUME NEW p \in Procs, NEW id \in UserIds,
              (\E adm \in BOOLEAN : UpdateCheck(p, id, adm)) \/ DeleteCheck(p, id)
       PROVE  Goal
  <2>1. ASSUME NEW adm \in BOOLEAN, UpdateCheck(p, id, adm)
        PROVE  Goal
    <3>1. PICK new : new = [proc[p] EXCEPT !.at = "emailing", !.target = id, !.flag = adm]
      OBVIOUS
    <3>2. new.at = "emailing" /\ (Goto(p, new) \/ Return(p))
      BY <1>0, <2>1, <3>1 DEF UpdateCheck, ProcState
    <3> QED
      BY <1>3, <1>4, <3>2
  <2>2. ASSUME DeleteCheck(p, id)
        PROVE  Goal
    <3>1. PICK new : new = [proc[p] EXCEPT !.at = "delete", !.target = id]
      OBVIOUS
    <3>2. new.at = "delete" /\ (Goto(p, new) \/ Return(p))
      BY <1>0, <2>2, <3>1 DEF DeleteCheck, ProcState
    <3> QED
      BY <1>3, <1>4, <3>2
  <2> QED
    BY <1>10, <2>1, <2>2
<1>11. ASSUME NEW p \in Procs,
              \/ LoginIssue(p) \/ UpdateRole(p) \/ PasswordReissue(p) \/ DeleteUser(p)
              \/ \E n \in Names, adm \in BOOLEAN : CreateUser(p, n, adm)
       PROVE  Goal
  <2>1. Return(p)
    BY <1>11 DEF LoginIssue, UpdateRole, PasswordReissue, Issue, DeleteUser, CreateUser
  <2> QED
    BY <1>4, <2>1
<1>12. ASSUME UNCHANGED proc
       PROVE  Goal
  BY <1>1, <1>12
<1>13. ASSUME \/ UNCHANGED vars
              \/ \E p \in Procs, n \in Names : VerifyUnknown(p, n)
              \/ \E s \in Sids : DropSession(s)
              \/ \E id \in UserIds : Cli(id)
              \/ \E n \in Names, adm \in BOOLEAN : CliAdd(n, adm)
       PROVE  Goal
  BY <1>12, <1>13 DEF vars, VerifyUnknown, DropSession, Cli, CliAdd
<1> HIDE DEF Goal
<1>14. ASSUME NEW p \in Procs, LoginStep(p)
       PROVE  Goal
  BY <1>5, <1>6, <1>11, <1>13, <1>14 DEF LoginStep
<1>15. ASSUME NEW p \in Procs, AdminStep(p)
       PROVE  Goal
  BY <1>7, <1>8, <1>9, <1>10, <1>11, <1>15 DEF AdminStep
<1>16. Goal
  BY <1>13, <1>14, <1>15 DEF Next
<1> QED
  BY <1>16 DEF Goal

\* A session row is written for the account that was checked, and its account
\* stays that one's, or its heir.
LEMMA SessionsFollow ==
  ASSUME IInv, PersonsOK, TableStep
  PROVE  \A s \in Sids : Live(s)' => Follows(sessions[s].user, sessions[s].who)'
<1>0. sessions \in [Sids -> SessionRow \cup {Absent}]
  BY DEF IInv, TypeOK
<1>1. ASSUME NEW s \in Sids, Live(s)', sessions'[s] = sessions[s]
      PROVE  Follows(sessions[s].user, sessions[s].who)'
  <2>1. PICK row : row = sessions[s]
    OBVIOUS
  <2>2. Live(s) /\ row \in SessionRow
    BY <1>0, <1>1, <2>1 DEF Live
  <2>3. row.user \in UserIds /\ row.who \in UserIds /\ row.user < nextId
        /\ Follows(row.user, row.who)
    BY <2>1, <2>2 DEF SessionRow, IInv, IdsFresh, RevocationComplete, PersonsOK
  <2>4. Follows(row.user, row.who)'
    BY <2>3, FollowsStays
  <2> QED
    BY <1>1, <2>1, <2>4 DEF Follows, Heir, Present
<1>2. ASSUME NEW p \in Procs, Issue(p), proc[p].at \in {"verified", "reissue"},
             NEW s \in Sids, Live(s)', sessions'[s] # sessions[s]
      PROVE  Follows(sessions[s].user, sessions[s].who)'
  <2>1. /\ sessions'[s].user = proc[p].user /\ sessions'[s].who = proc[p].who
        /\ UNCHANGED users
    BY <1>0, <1>2 DEF Issue
  <2>2. Follows(proc[p].user, proc[p].who)
    BY <1>2 DEF PersonsOK, Checked
  <2> QED
    BY <2>1, <2>2 DEF Follows, Heir, Present
<1>3. ASSUME ~ \E p \in Procs : Issue(p) /\ proc[p].at \in {"verified", "reissue"},
             NEW s \in Sids, Live(s)'
      PROVE  sessions'[s] = sessions[s]
  BY <1>0, <1>3 DEF TableStep, dbVars, DropSession, SetPassword, SetAdmin, Delete, Create,
                    revokeSessions, SessionsWithout, Live
<1> QED
  BY <1>1, <1>2, <1>3

\* A session is for the account whose password was checked; only where that
\* account was deleted while the login was under way, or later, may it be for one
\* that was created afterwards and has the name that was typed (users.go Verify,
\* session.go Issue).
THEOREM SessionsFollowPasswords == Spec => []SessionOfVerified
<1>1. Init => NamesUnique /\ PersonsOK
  <2> SUFFICES ASSUME Init PROVE NamesUnique /\ PersonsOK
    OBVIOUS
  <2>1. NamesUnique
    BY DEF Init, NamesUnique, Present
  <2>2. PersonsOK
    BY IdleOK DEF Init, PersonsOK, Checked, Live
  <2> QED
    BY <2>1, <2>2
<1>2. IInv /\ NamesUnique /\ PersonsOK /\ [Next]_vars => NamesUnique' /\ PersonsOK'
  BY StepsOfTables, NamesStay, HandlersCheck, SessionsFollow DEF PersonsOK
<1>3. IInv /\ PersonsOK => SessionOfVerified
  BY DEF IInv, SessionKeepsName, PersonsOK, Follows, SessionOfVerified
<1> QED
  BY <1>1, <1>2, <1>3, AccountsInvariance, PTL DEF Spec
=============================================================================
