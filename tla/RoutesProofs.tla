---------------------------- MODULE RoutesProofs ----------------------------
(***************************************************************************)
(* Proofs about Routes, for every set of apps, hosts, backends and callers *)
(* of Sync, and any number of changes to the table.                        *)
(***************************************************************************)
EXTENDS Routes, TLAPS

\* The host of a loaded route is a real host.
SnapOK == \A s \in Syncers, n \in Apps :
            snap[s][n] # NoRow => snap[s][n].host \in Hosts

\* What a caller read is the table, as long as no change came since.
SnapFresh == \A s \in Syncers :
  /\ ver[s] <= changes
  /\ pc[s] \in {"loaded", "applying"} /\ ver[s] = changes
       => snap[s] = loadEnabled(apps)

LockOK == \A s \in Syncers : pc[s] = "applying" <=> lock = s

\* The registry names no fixed host and no host twice.
RegistryOK ==
  /\ \A n \in Apps : appHosts[n] \notin FixedHosts
  /\ \A n, m \in Apps : appHosts[n] = appHosts[m] /\ appHosts[n] # NoHost => n = m

\* A Sync that holds the lock: what it has yet to remove is unclaimed; every
\* routed host is claimed or about to be removed; what it has added is there;
\* and the hosts it takes over never lost their route.
ApplyOK(s) ==
  /\ toAdd \subseteq Desired(snap[s])
  /\ toRemove \cap FixedHosts = {}
  /\ toRemove \cap Claimed(snap[s]) = {}
  /\ toRemove # {} => toAdd = Desired(snap[s])
  /\ \A h \in Hosts \ FixedHosts :
       routes[h] # NotFound => h \in toRemove \/ h \in Claimed(snap[s])
  /\ \A n \in Desired(snap[s]) \ toAdd :
       routes[snap[s][n].host] = HandlerFor(n, snap[s][n])
  /\ \A n \in Apps :
       appHosts[n] \in Claimed(snap[s]) => routes[appHosts[n]] # NotFound

IInv ==
  /\ TypeOK
  /\ SnapOK
  /\ SnapFresh
  /\ LockOK
  /\ RegistryOK
  /\ FixedRoutesKept
  /\ RegistryExact
  /\ \A s \in Syncers : lock = s => ApplyOK(s)

-----------------------------------------------------------------------------
(* Facts about what Sync computes.                                         *)

\* What loadEnabled gives for any table is a table of settings (proxy/apps.go:68-108).
LEMMA LoadType ==
  ASSUME NEW db \in [Apps -> Row \cup {NoRow}]
  PROVE  /\ loadEnabled(db) \in [Apps -> Settings \cup {NoRow}]
         /\ \A n \in Apps : loadEnabled(db)[n] # NoRow => loadEnabled(db)[n].host \in Hosts
BY RoutesAssumption DEF loadEnabled, Routable, Row, Settings

\* No two routes Sync decides on have the same host, and none has nass's own
\* (proxy/manager.go:67-89).
LEMMA DesiredFacts ==
  ASSUME NEW sn \in [Apps -> Settings \cup {NoRow}],
         \A n \in Apps : sn[n] # NoRow => sn[n].host \in Hosts
  PROVE  /\ Desired(sn) \subseteq Apps
         /\ \A n \in Desired(sn) :
              /\ sn[n] \in Settings
              /\ sn[n].host \in Hosts \ FixedHosts
              /\ HandlerFor(n, sn[n]) \in AppHandler
         /\ \A n, m \in Desired(sn) : sn[n].host = sn[m].host => n = m
         /\ Claimed(sn) \subseteq Hosts \ FixedHosts
<1>1. Desired(sn) \subseteq Apps
  BY DEF Desired, Eligible
<1>2. \A n \in Desired(sn) : sn[n] \in Settings /\ sn[n].host \in Hosts \ FixedHosts
                             /\ sn[n].backend \in Addrs /\ sn[n].gate \in BOOLEAN
  BY DEF Desired, Eligible, HandlerOK, Settings
<1>3. \A n \in Desired(sn) : HandlerFor(n, sn[n]) \in AppHandler
  BY <1>1, <1>2 DEF HandlerFor, AppHandler
<1>4. ASSUME NEW n \in Desired(sn), NEW m \in Desired(sn), sn[n].host = sn[m].host
      PROVE  n = m
  <2>1. n \in Nat /\ m \in Nat
    BY <1>1, RoutesAssumption
  <2>2. n <= m /\ m <= n
    BY <1>4 DEF Desired
  <2>3. QED
    BY <2>1, <2>2
<1>5. Claimed(sn) \subseteq Hosts \ FixedHosts
  BY <1>2 DEF Claimed
<1>6. QED
  BY <1>1, <1>2, <1>3, <1>4, <1>5

\* nass serve starts with nothing but its own two routes (cli/serve.go:95-117).
LEMMA InitIInv == Init => IInv
<1> SUFFICES ASSUME Init PROVE IInv
  OBVIOUS
<1>1. EmptySettings \in Settings
  BY DEF EmptySettings, Settings
<1>2. apps \in [Apps -> Row \cup {NoRow}]
  BY <1>1, RoutesAssumption DEF Init, Row
<1>3. TypeOK
  BY <1>2, RoutesAssumption DEF Init, TypeOK, NoSnap
<1>4. SnapOK /\ SnapFresh /\ LockOK
  BY RoutesAssumption DEF Init, SnapOK, NoSnap, SnapFresh, LockOK
<1>5. RegistryOK /\ FixedRoutesKept /\ RegistryExact
  BY RoutesAssumption DEF Init, RegistryOK, FixedRoutesKept, RegistryExact, Dispatch, FixedHosts
<1>6. QED
  BY <1>3, <1>4, <1>5, RoutesAssumption DEF Init, IInv

\* No command and no step of Sync breaks the types.
LEMMA TypePreserved == IInv /\ [Next]_vars => TypeOK'
<1> SUFFICES ASSUME IInv, [Next]_vars PROVE TypeOK'
  OBVIOUS
<1> USE DEF IInv
<1>1. ASSUME NEW n \in Apps, NEW row \in Row \cup {NoRow}, Change(n, row)
      PROVE  TypeOK'
  BY <1>1 DEF TypeOK, Change
<1>2. ASSUME NEW n \in Apps, NEW s \in Inputs, EnableCmd(n, s) \/ InstallSave(n, s)
      PROVE  TypeOK'
  BY <1>1, <1>2, RoutesAssumption DEF EnableCmd, InstallSave, Row
<1>3. ASSUME NEW n \in Apps, Provision(n) PROVE TypeOK'
  <2>1. EmptySettings \in Settings
    BY DEF EmptySettings, Settings
  <2>2. apps[n] # NoRow => apps[n].settings \in Settings
    BY DEF TypeOK, Row
  <2>3. QED
    BY <1>1, <1>3, <2>1, <2>2 DEF Provision, Row
<1>4. ASSUME NEW n \in Apps, DisableCmd(n) PROVE TypeOK'
  <2>1. [apps[n] EXCEPT !.enabled = FALSE] \in Row
    BY <1>4 DEF DisableCmd, TypeOK, Row
  <2>2. QED
    BY <1>1, <1>4, <2>1 DEF DisableCmd
<1>5. ASSUME NEW n \in Apps, DeleteRow(n) PROVE TypeOK'
  BY <1>1, <1>5 DEF DeleteRow
<1>6. ASSUME NEW s \in Syncers, Call(s) \/ LoadFails(s) PROVE TypeOK'
  BY <1>6 DEF TypeOK, Call, LoadFails, dbVars
<1>7. ASSUME NEW s \in Syncers, Load(s) PROVE TypeOK'
  <2>1. loadEnabled(apps) \in [Apps -> Settings \cup {NoRow}]
    BY LoadType DEF TypeOK
  <2>2. QED
    BY <1>7, <2>1 DEF TypeOK, Load, dbVars
<1>8. ASSUME NEW s \in Syncers, Plan(s) PROVE TypeOK'
  <2>1. StaleHosts(snap[s]) \subseteq Hosts
    BY DEF StaleHosts, TypeOK
  <2>2. Desired(snap[s]) \subseteq Apps
    BY DEF Desired, Eligible
  <2>3. QED
    BY <1>8, <2>1, <2>2 DEF TypeOK, Plan, dbVars
<1>9. ASSUME NEW s \in Syncers, NEW h \in Hosts, RemoveRoute(s, h) PROVE TypeOK'
  BY <1>9 DEF TypeOK, RemoveRoute, dbVars
<1>10. ASSUME NEW s \in Syncers, NEW n \in Apps, AddRoute(s, n) PROVE TypeOK'
  <2>1. n \in Desired(snap[s])
    BY <1>10 DEF AddRoute, ApplyOK
  <2>2. HandlerFor(n, snap[s][n]) \in AppHandler
    BY <2>1, DesiredFacts DEF TypeOK, SnapOK
  <2>3. QED
    BY <1>10, <2>2 DEF TypeOK, AddRoute, dbVars
<1>11. ASSUME NEW s \in Syncers, Finish(s) PROVE TypeOK'
  <2>1. \A n \in Desired(snap[s]) : snap[s][n].host \in Hosts
    BY DesiredFacts DEF TypeOK, SnapOK
  <2>2. NoSnap \in [Apps -> Settings \cup {NoRow}]
    BY DEF NoSnap
  <2>3. QED
    BY <1>11, <2>1, <2>2 DEF TypeOK, Finish, dbVars
<1>12. CASE UNCHANGED vars
  BY <1>12 DEF TypeOK, vars
<1>13. QED
  BY <1>2, <1>3, <1>4, <1>5, <1>6, <1>7, <1>8, <1>9, <1>10, <1>11, <1>12
  DEF Next, DbChange, SyncStep

-----------------------------------------------------------------------------
(* A change to the table touches nothing else.                             *)

\* The commands and jobs that change the apps table know nothing of the router.
LEMMA DbChangeSteps ==
  DbChange => /\ changes' = changes + 1
              /\ UNCHANGED <<routes, appHosts, lock, pc, snap, ver, toRemove, toAdd>>
BY DEF DbChange, EnableCmd, InstallSave, Provision, DisableCmd, DeleteRow, Change

\* A Sync under way works on a table as it was when, or after, it was called
\* (proxy/manager.go:58-62).
LEMMA SnapPreserved == IInv /\ [Next]_vars => SnapOK' /\ SnapFresh' /\ LockOK'
<1> SUFFICES ASSUME IInv, [Next]_vars PROVE SnapOK' /\ SnapFresh' /\ LockOK'
  OBVIOUS
<1> USE DEF IInv
<1>1. CASE DbChange
  <2>1. SnapOK' /\ LockOK'
    BY <1>1, DbChangeSteps DEF SnapOK, LockOK
  <2>2. SnapFresh'
    BY <1>1, DbChangeSteps DEF SnapFresh, TypeOK
  <2>3. QED
    BY <2>1, <2>2
<1>2. ASSUME NEW s \in Syncers, Call(s) \/ LoadFails(s)
      PROVE  SnapOK' /\ SnapFresh' /\ LockOK'
  BY <1>2 DEF Call, LoadFails, SnapOK, SnapFresh, LockOK, TypeOK, dbVars
<1>3. ASSUME NEW s \in Syncers, Load(s) PROVE SnapOK' /\ SnapFresh' /\ LockOK'
  <2>1. \A n \in Apps : loadEnabled(apps)[n] # NoRow => loadEnabled(apps)[n].host \in Hosts
    BY LoadType DEF TypeOK
  <2>2. SnapOK'
    BY <1>3, <2>1 DEF Load, SnapOK, TypeOK
  <2>3. SnapFresh'
    <3> SUFFICES ASSUME NEW t \in Syncers
                 PROVE  /\ ver'[t] <= changes'
                        /\ pc'[t] \in {"loaded", "applying"} /\ ver'[t] = changes'
                             => snap'[t] = loadEnabled(apps)'
      BY DEF SnapFresh
    <3>1. changes' = changes /\ loadEnabled(apps)' = loadEnabled(apps)
      BY <1>3 DEF Load, dbVars, loadEnabled
    <3>2. CASE t = s
      BY <1>3, <3>1, <3>2 DEF Load, TypeOK
    <3>3. CASE t # s
      BY <1>3, <3>1, <3>3 DEF Load, TypeOK, SnapFresh
    <3>4. QED
      BY <3>2, <3>3
  <2>4. LockOK'
    BY <1>3 DEF Load, LockOK, TypeOK
  <2>5. QED
    BY <2>2, <2>3, <2>4
<1>4. ASSUME NEW s \in Syncers, Plan(s) PROVE SnapOK' /\ SnapFresh' /\ LockOK'
  <2>1. SnapOK' /\ SnapFresh'
    BY <1>4 DEF Plan, SnapOK, SnapFresh, TypeOK, dbVars
  <2>2. LockOK'
    BY <1>4, RoutesAssumption DEF Plan, LockOK, TypeOK
  <2>3. QED
    BY <2>1, <2>2
<1>5. ASSUME NEW s \in Syncers, NEW h \in Hosts, RemoveRoute(s, h)
      PROVE  SnapOK' /\ SnapFresh' /\ LockOK'
  BY <1>5 DEF RemoveRoute, SnapOK, SnapFresh, LockOK, dbVars
<1>6. ASSUME NEW s \in Syncers, NEW n \in Apps, AddRoute(s, n)
      PROVE  SnapOK' /\ SnapFresh' /\ LockOK'
  BY <1>6 DEF AddRoute, SnapOK, SnapFresh, LockOK, dbVars
<1>7. ASSUME NEW s \in Syncers, Finish(s) PROVE SnapOK' /\ SnapFresh' /\ LockOK'
  <2>1. SnapOK'
    BY <1>7 DEF Finish, SnapOK, NoSnap, TypeOK
  <2>2. SnapFresh'
    BY <1>7 DEF Finish, SnapFresh, TypeOK, dbVars
  <2>3. LockOK'
    BY <1>7, RoutesAssumption DEF Finish, LockOK, TypeOK
  <2>4. QED
    BY <2>1, <2>2, <2>3
<1>8. CASE UNCHANGED vars
  BY <1>8 DEF SnapOK, SnapFresh, LockOK, vars
<1>9. QED
  BY <1>1, <1>2, <1>3, <1>4, <1>5, <1>6, <1>7, <1>8 DEF Next, SyncStep

\* The part of the invariant about the router and the registry.
RouterOK ==
  /\ RegistryOK
  /\ FixedRoutesKept
  /\ RegistryExact
  /\ \A s \in Syncers : lock = s => ApplyOK(s)

\* A step that leaves the router, the registry, the lock and the lock holder's
\* plan alone preserves RouterOK.
LEMMA RouterUntouched ==
  ASSUME IInv, UNCHANGED <<routes, appHosts, lock, toRemove, toAdd>>,
         \A s \in Syncers : lock = s => snap'[s] = snap[s]
  PROVE  RouterOK'
<1>1. RegistryOK' /\ FixedRoutesKept' /\ RegistryExact'
  BY DEF IInv, RegistryOK, FixedRoutesKept, RegistryExact, Dispatch
<1>2. ASSUME NEW s \in Syncers, lock' = s PROVE ApplyOK(s)'
  <2>1. snap'[s] = snap[s] /\ ApplyOK(s)
    BY <1>2 DEF IInv
  <2>2. Desired(snap[s])' = Desired(snap[s]) /\ Claimed(snap[s])' = Claimed(snap[s])
    BY <2>1 DEF Desired, Eligible, Claimed, HandlerOK
  <2>3. QED
    BY <2>1, <2>2 DEF ApplyOK, HandlerFor
<1>3. QED
  BY <1>1, <1>2 DEF RouterOK

\* What Sync finds stale and desired fits the routes and appHosts it finds
\* (proxy/manager.go:64-98).
LEMMA PlanRouter ==
  ASSUME IInv, NEW s \in Syncers, Plan(s)
  PROVE  RouterOK'
<1> DEFINE sn == snap[s]
<1>1. /\ lock = Free /\ lock' = s
      /\ toRemove' = StaleHosts(sn) /\ toAdd' = Desired(sn)
      /\ routes' = routes /\ appHosts' = appHosts /\ snap' = snap
  BY DEF Plan
<1>2. RegistryOK' /\ FixedRoutesKept'
  BY <1>1 DEF IInv, RegistryOK, FixedRoutesKept, Dispatch
<1>3. RegistryExact'
  BY <1>1, RoutesAssumption DEF RegistryExact
<1>4. /\ sn \in [Apps -> Settings \cup {NoRow}]
      /\ \A n \in Apps : sn[n] # NoRow => sn[n].host \in Hosts
  BY DEF IInv, TypeOK, SnapOK
<1>5. /\ Desired(sn) \subseteq Apps
      /\ Claimed(sn) \subseteq Hosts \ FixedHosts
  BY <1>4, DesiredFacts
<1>6. Desired(snap[s])' = Desired(sn) /\ Claimed(snap[s])' = Claimed(sn)
  BY <1>1 DEF Desired, Eligible, Claimed, HandlerOK
<1>7. ApplyOK(s)'
  <2>1. toRemove' \cap FixedHosts = {} /\ toRemove' \cap Claimed(sn) = {}
    BY <1>1 DEF IInv, RegistryOK, StaleHosts
  <2>2. ASSUME NEW h \in Hosts \ FixedHosts, routes[h] # NotFound
        PROVE  h \in toRemove' \/ h \in Claimed(sn)
    <3>1. routes[h] \in AppHandler /\ appHosts[routes[h].app] = h /\ h # NoHost
      BY <1>1, <2>2, RoutesAssumption DEF IInv, RegistryExact, Dispatch
    <3>2. routes[h].app \in Apps
      BY <3>1 DEF AppHandler
    <3>3. QED
      BY <1>1, <3>1, <3>2 DEF StaleHosts
  <2>3. ASSUME NEW n \in Apps, appHosts[n] \in Claimed(sn)
        PROVE  routes[appHosts[n]] # NotFound
    BY <1>1, <1>5, <2>3, RoutesAssumption DEF IInv, RegistryExact, Dispatch
  <2>4. QED
    BY <1>1, <1>6, <2>1, <2>2, <2>3 DEF ApplyOK
<1>8. ASSUME NEW t \in Syncers, lock' = t PROVE ApplyOK(t)'
  BY <1>1, <1>7, <1>8
<1>9. QED
  BY <1>2, <1>3, <1>8 DEF RouterOK

\* Removing a stale route leaves the rest as it was (proxy/proxy.go:42-49).
LEMMA RemoveRouter ==
  ASSUME IInv, NEW s \in Syncers, NEW h \in Hosts, RemoveRoute(s, h)
  PROVE  RouterOK'
<1>1. /\ lock = s /\ lock' = s /\ h \in toRemove
      /\ routes' = [routes EXCEPT ![h] = NotFound] /\ toRemove' = toRemove \ {h}
      /\ toAdd' = toAdd /\ appHosts' = appHosts /\ snap' = snap
  BY DEF RemoveRoute
<1>2. ApplyOK(s) /\ h \notin FixedHosts /\ h \notin Claimed(snap[s])
  BY <1>1 DEF IInv, ApplyOK
<1>3. \A k \in Hosts : k # h => routes'[k] = routes[k]
  BY <1>1 DEF IInv, TypeOK
<1>4. RegistryOK' /\ FixedRoutesKept' /\ RegistryExact'
  BY <1>1, <1>2, <1>3, RoutesAssumption
  DEF IInv, RegistryOK, FixedRoutesKept, RegistryExact, Dispatch
<1>5. /\ Desired(snap[s]) \subseteq Apps
      /\ \A n \in Desired(snap[s]) : snap[s][n].host \in Hosts
      /\ Claimed(snap[s]) \subseteq Hosts \ FixedHosts
  BY DesiredFacts DEF IInv, TypeOK, SnapOK
<1>6. Desired(snap[s])' = Desired(snap[s]) /\ Claimed(snap[s])' = Claimed(snap[s])
  BY <1>1 DEF Desired, Eligible, Claimed, HandlerOK
<1>7. ApplyOK(s)'
  <2>1. \A k \in Hosts \ FixedHosts :
          routes'[k] # NotFound => k \in toRemove' \/ k \in Claimed(snap[s])
    BY <1>1, <1>2, <1>3 DEF ApplyOK, IInv, TypeOK
  <2>2. \A n \in Apps : appHosts[n] \in Claimed(snap[s]) => routes'[appHosts[n]] # NotFound
    BY <1>2, <1>3, <1>5 DEF ApplyOK
  <2>3. toAdd = Desired(snap[s])
    BY <1>1, <1>2 DEF ApplyOK
  <2>4. QED
    BY <1>1, <1>2, <1>6, <2>1, <2>2, <2>3 DEF ApplyOK
<1>8. QED
  BY <1>1, <1>4, <1>7 DEF RouterOK

\* Adding a route replaces at most that app's own (proxy/proxy.go:35-40).
LEMMA AddRouter ==
  ASSUME IInv, NEW s \in Syncers, NEW n \in Apps, AddRoute(s, n)
  PROVE  RouterOK'
<1> DEFINE host == snap[s][n].host
<1>1. /\ lock = s /\ lock' = s /\ toRemove = {} /\ toRemove' = {} /\ n \in toAdd
      /\ routes' = [routes EXCEPT ![host] = HandlerFor(n, snap[s][n])]
      /\ toAdd' = toAdd \ {n} /\ appHosts' = appHosts /\ snap' = snap
  BY DEF AddRoute
<1>2. ApplyOK(s) /\ n \in Desired(snap[s])
  BY <1>1 DEF IInv, ApplyOK
<1>3. /\ Desired(snap[s]) \subseteq Apps
      /\ host \in Hosts \ FixedHosts
      /\ HandlerFor(n, snap[s][n]) \in AppHandler
      /\ \A k, m \in Desired(snap[s]) : snap[s][k].host = snap[s][m].host => k = m
      /\ \A m \in Desired(snap[s]) : snap[s][m].host \in Hosts
      /\ Claimed(snap[s]) \subseteq Hosts \ FixedHosts
  BY <1>2, DesiredFacts DEF IInv, TypeOK, SnapOK
<1>4. /\ \A k \in Hosts : k # host => routes'[k] = routes[k]
      /\ routes'[host] = HandlerFor(n, snap[s][n])
      /\ routes'[host] # NotFound
      /\ host \in Claimed(snap[s])
  BY <1>1, <1>2, <1>3, RoutesAssumption DEF IInv, TypeOK, Claimed
<1>5. RegistryOK' /\ FixedRoutesKept' /\ RegistryExact'
  BY <1>1, <1>3, <1>4, RoutesAssumption
  DEF IInv, RegistryOK, FixedRoutesKept, RegistryExact, Dispatch
<1>6. Desired(snap[s])' = Desired(snap[s]) /\ Claimed(snap[s])' = Claimed(snap[s])
  BY <1>1 DEF Desired, Eligible, Claimed, HandlerOK
<1>7. ApplyOK(s)'
  <2>1. \A k \in Hosts \ FixedHosts : routes'[k] # NotFound => k \in Claimed(snap[s])
    BY <1>1, <1>2, <1>4 DEF ApplyOK
  <2>2. \A m \in Apps : appHosts[m] \in Claimed(snap[s]) => routes'[appHosts[m]] # NotFound
    BY <1>2, <1>3, <1>4 DEF ApplyOK
  <2>3. ASSUME NEW m \in Desired(snap[s]) \ toAdd'
        PROVE  routes'[snap[s][m].host] = HandlerFor(m, snap[s][m])
    <3>1. CASE m = n
      BY <1>4, <3>1
    <3>2. CASE m # n
      BY <1>1, <1>2, <1>3, <1>4, <3>2 DEF ApplyOK
    <3>3. QED
      BY <3>1, <3>2
  <2>4. toAdd' \subseteq Desired(snap[s])
    BY <1>1, <1>2 DEF ApplyOK
  <2>5. \A m : HandlerFor(m, snap[s][m])' = HandlerFor(m, snap[s][m])
    BY <1>1 DEF HandlerFor
  <2>6. QED
    BY <1>1, <1>6, <2>1, <2>2, <2>3, <2>4, <2>5 DEF ApplyOK
<1>8. QED
  BY <1>1, <1>5, <1>7 DEF RouterOK

\* When the mutex is given back, appHosts says what the routes are
\* (proxy/manager.go:99-106).
LEMMA FinishRouter ==
  ASSUME IInv, NEW s \in Syncers, Finish(s)
  PROVE  RouterOK'
<1> DEFINE sn == snap[s]
<1>1. /\ lock = s /\ lock' = Free /\ toRemove = {} /\ toAdd = {} /\ routes' = routes
      /\ appHosts' = [n \in Apps |-> IF n \in Desired(sn) THEN sn[n].host ELSE NoHost]
  BY DEF Finish
<1>2. ApplyOK(s)
  BY <1>1 DEF IInv
<1>3. /\ Desired(sn) \subseteq Apps
      /\ \A n \in Desired(sn) : sn[n].host \in Hosts \ FixedHosts
      /\ \A n \in Desired(sn) : HandlerFor(n, sn[n]) \in AppHandler
      /\ \A n, m \in Desired(sn) : sn[n].host = sn[m].host => n = m
  BY DesiredFacts DEF IInv, TypeOK, SnapOK
<1>4. RegistryOK'
  BY <1>1, <1>3, RoutesAssumption DEF RegistryOK
<1>5. FixedRoutesKept'
  BY <1>1 DEF IInv, FixedRoutesKept, Dispatch
<1>6. RegistryExact'
  <2> SUFFICES ASSUME NEW h \in Hosts \ FixedHosts
               PROVE  \/ /\ routes[h] = NotFound
                         /\ \A n \in Apps : appHosts'[n] # h
                      \/ /\ routes[h] \in AppHandler
                         /\ appHosts'[routes[h].app] = h
                         /\ \A n \in Apps : appHosts'[n] = h => n = routes[h].app
    BY <1>1 DEF RegistryExact, Dispatch
  <2>1. CASE h \in Claimed(sn)
    <3>1. PICK n \in Desired(sn) : sn[n].host = h
      BY <2>1 DEF Claimed
    <3>2. routes[h] = HandlerFor(n, sn[n]) /\ routes[h] \in AppHandler
      BY <1>1, <1>2, <1>3, <3>1 DEF ApplyOK
    <3>3. routes[h].app = n /\ routes[h] \in AppHandler
      BY <3>2, RoutesAssumption DEF HandlerFor
    <3>4. appHosts'[n] = h
      BY <1>1, <1>3, <3>1
    <3>5. ASSUME NEW m \in Apps, appHosts'[m] = h PROVE m = n
      BY <1>1, <1>3, <3>1, <3>5, RoutesAssumption
    <3>6. QED
      BY <3>3, <3>4, <3>5
  <2>2. CASE h \notin Claimed(sn)
    <3>1. routes[h] = NotFound
      BY <1>1, <1>2, <2>2 DEF ApplyOK
    <3>2. \A n \in Apps : appHosts'[n] # h
      BY <1>1, <2>2, RoutesAssumption DEF Claimed
    <3>3. QED
      BY <3>1, <3>2
  <2>3. QED
    BY <2>1, <2>2
<1>7. QED
  BY <1>1, <1>4, <1>5, <1>6, RoutesAssumption DEF RouterOK

\* No step of any Sync, or of anything else, breaks the router's invariant.
LEMMA RouterPreserved == IInv /\ [Next]_vars => RouterOK'
<1> SUFFICES ASSUME IInv, [Next]_vars PROVE RouterOK'
  OBVIOUS
<1>1. CASE DbChange
  BY <1>1, DbChangeSteps, RouterUntouched
<1>2. ASSUME NEW s \in Syncers, Call(s) \/ LoadFails(s) PROVE RouterOK'
  BY <1>2, RouterUntouched DEF Call, LoadFails
<1>3. ASSUME NEW s \in Syncers, Load(s) PROVE RouterOK'
  <2>1. ASSUME NEW t \in Syncers, lock = t PROVE snap'[t] = snap[t]
    BY <1>3, <2>1 DEF Load, IInv, LockOK, TypeOK
  <2>2. QED
    BY <1>3, <2>1, RouterUntouched DEF Load
<1>4. CASE UNCHANGED vars
  BY <1>4, RouterUntouched DEF vars
<1>5. QED
  BY <1>1, <1>2, <1>3, <1>4, PlanRouter, RemoveRouter, AddRouter, FinishRouter
  DEF Next, SyncStep

\* The inductive invariant holds always: no order of commands, syncs and failed
\* reads breaks it.
THEOREM Invariance == Spec => []IInv
<1>1. IInv /\ [Next]_vars => IInv'
  BY TypePreserved, SnapPreserved, RouterPreserved DEF IInv, RouterOK
<1>2. QED
  BY <1>1, InitIInv, PTL DEF Spec

-----------------------------------------------------------------------------
\* Every reachable state of the router, the registry and the callers of Sync
\* is well typed.
THEOREM TypeCorrect == Spec => []TypeOK
BY Invariance, PTL DEF IInv

\* No table content and no interleaving of Syncs ever takes the OIDC server's
\* or the portal's host away from it (RouteManager.Reserve).
THEOREM FixedRoutesSafe == Spec => []FixedRoutesKept
BY Invariance, PTL DEF IInv

\* Between Syncs the registry and the router agree about every managed host.
THEOREM RegistryAgrees == Spec => []RegistryExact
BY Invariance, PTL DEF IInv

\* A host that stays claimed keeps a route throughout the Sync that moves it.
THEOREM NoOutage == Spec => []NoOutageDuringSync
<1>1. IInv => NoOutageDuringSync
  BY DEF IInv, TypeOK, ApplyOK, NoOutageDuringSync, Dispatch
<1>2. QED
  BY <1>1, Invariance, PTL

\* A Sync with an up-to-date snapshot removes only hosts the table no longer
\* claims, and nothing else removes a route.
THEOREM RemovalJustified == Spec => RemovedOnlyIfUnclaimed
<1> DEFINE Justified ==
      \A h \in Hosts :
        Dispatch(h) # NotFound /\ Dispatch(h)' = NotFound
          => \E s \in Syncers :
               /\ lock = s
               /\ ver[s] = changes => h \notin Claimed(loadEnabled(apps))
<1>1. ASSUME IInv, Next PROVE Justified
  <2> SUFFICES ASSUME NEW h \in Hosts, routes[h] # NotFound, routes'[h] = NotFound
               PROVE  \E s \in Syncers :
                        /\ lock = s
                        /\ ver[s] = changes => h \notin Claimed(loadEnabled(apps))
    BY DEF Dispatch
  <2>1. ~ DbChange
    BY DbChangeSteps
  <2>2. PICK s \in Syncers : Call(s) \/ SyncStep(s)
    BY <1>1, <2>1 DEF Next
  <2>3. ~(Call(s) \/ Load(s) \/ LoadFails(s) \/ Plan(s) \/ Finish(s))
    BY DEF Call, Load, LoadFails, Plan, Finish
  <2>4. ASSUME NEW n \in Apps, AddRoute(s, n) PROVE FALSE
    <3>1. n \in Desired(snap[s])
      BY <1>1, <2>4 DEF IInv, ApplyOK, AddRoute
    <3>2. HandlerFor(n, snap[s][n]) \in AppHandler
      BY <1>1, <3>1, DesiredFacts DEF IInv, TypeOK, SnapOK
    <3>3. QED
      BY <1>1, <2>4, <3>2, RoutesAssumption DEF AddRoute, IInv, TypeOK
  <2>5. PICK k \in Hosts : RemoveRoute(s, k)
    BY <2>2, <2>3, <2>4 DEF SyncStep
  <2>6. k = h /\ lock = s /\ h \in toRemove
    BY <1>1, <2>5 DEF RemoveRoute, IInv, TypeOK
  <2>7. h \notin Claimed(snap[s]) /\ pc[s] = "applying"
    BY <1>1, <2>6 DEF IInv, ApplyOK, LockOK
  <2>8. QED
    BY <1>1, <2>6, <2>7 DEF IInv, SnapFresh
<1>2. ASSUME IInv, [Next]_vars PROVE [Justified]_vars
  BY <1>1, <1>2
<1>3. QED
  BY <1>2, Invariance, PTL DEF Spec, RemovedOnlyIfUnclaimed

-----------------------------------------------------------------------------
(* Sync as one step.                                                       *)

\* Nothing is left to be done when nobody holds the lock.
NothingPending == lock = Free => toRemove = {} /\ toAdd = {}

\* A Sync returns when all its calls to the router are made (proxy/manager.go:94-107).
LEMMA NothingLeftOver == Spec => []NothingPending
<1>1. Init => NothingPending
  BY DEF Init, NothingPending
<1>2. NothingPending /\ [Next]_vars => NothingPending'
  <2> SUFFICES ASSUME NothingPending, [Next]_vars PROVE NothingPending'
    OBVIOUS
  <2>1. CASE DbChange
    BY <2>1, DbChangeSteps DEF NothingPending
  <2>2. ASSUME NEW s \in Syncers, Call(s) \/ Load(s) \/ LoadFails(s) PROVE NothingPending'
    BY <2>2 DEF Call, Load, LoadFails, NothingPending
  <2>3. ASSUME NEW s \in Syncers, Plan(s) PROVE NothingPending'
    BY <2>3, RoutesAssumption DEF Plan, NothingPending
  <2>4. ASSUME NEW s \in Syncers, NEW h \in Hosts, RemoveRoute(s, h) PROVE NothingPending'
    BY <2>4, RoutesAssumption DEF RemoveRoute, NothingPending
  <2>5. ASSUME NEW s \in Syncers, NEW n \in Apps, AddRoute(s, n) PROVE NothingPending'
    BY <2>5, RoutesAssumption DEF AddRoute, NothingPending
  <2>6. ASSUME NEW s \in Syncers, Finish(s) PROVE NothingPending'
    BY <2>6 DEF Finish, NothingPending
  <2>7. CASE UNCHANGED vars
    BY <2>7 DEF vars, NothingPending
  <2>8. QED
    BY <2>1, <2>2, <2>3, <2>4, <2>5, <2>6, <2>7 DEF Next, SyncStep
<1>3. QED
  BY <1>1, <1>2, PTL DEF Spec

\* A step that leaves the router and the lock holder's plan alone shows nothing
\* (proxy/proxy.go:22-33).
LEMMA SettledUntouched ==
  ASSUME IInv, NothingPending, UNCHANGED <<routes, lock, toRemove, toAdd>>,
         \A s \in Syncers : lock = s => snap'[s] = snap[s]
  PROVE  Settled' = Settled
<1>1. CASE lock = Free
  BY <1>1 DEF Settled, NothingPending
<1>2. CASE lock # Free
  <2>1. snap'[lock] = snap[lock]
    BY <1>2 DEF IInv, TypeOK
  <2>2. QED
    BY <2>1 DEF Settled, HandlerFor
<1>3. QED
  BY <1>1, <1>2

\* When the plan is made, what it will lead to is what the table read asks for:
\* nothing but claimed, fixed and stale hosts has a route (proxy/manager.go:64-98).
LEMMA PlanSwitches ==
  ASSUME IInv, NEW s \in Syncers, Plan(s)
  PROVE  Settled' = Wanted(snap[s])
<1> DEFINE sn == snap[s]
<1>1. /\ lock = Free /\ lock' = s /\ snap' = snap /\ routes' = routes
      /\ toRemove' = StaleHosts(sn) /\ toAdd' = Desired(sn)
  BY DEF Plan
<1>2. /\ Desired(sn) \subseteq Apps
      /\ \A n \in Desired(sn) : sn[n].host \in Hosts \ FixedHosts
  BY DesiredFacts DEF IInv, TypeOK, SnapOK
<1> DEFINE Owner(h) == CHOOSE n \in Desired(sn) : sn[n].host = h
           After(h) == IF \E n \in Desired(sn) : sn[n].host = h
                         THEN HandlerFor(Owner(h), sn[Owner(h)])
                         ELSE IF h \in StaleHosts(sn) THEN NotFound ELSE routes[h]
           Asked(h) == IF h \in FixedHosts THEN Nass
                       ELSE IF \E n \in Desired(sn) : sn[n].host = h
                         THEN HandlerFor(Owner(h), sn[Owner(h)])
                         ELSE NotFound
<1>3. Settled' = [h \in Hosts |-> After(h)]
  BY <1>1 DEF Settled, HandlerFor
<1>4. Wanted(sn) = [h \in Hosts |-> Asked(h)]
  BY DEF Wanted
<1>5. ASSUME NEW h \in Hosts PROVE After(h) = Asked(h)
  <2>1. CASE h \in FixedHosts
    <3>1. routes[h] = Nass
      BY <2>1 DEF IInv, FixedRoutesKept, Dispatch
    <3>2. h \notin StaleHosts(sn)
      BY <2>1 DEF IInv, RegistryOK, StaleHosts
    <3>3. ~ \E n \in Desired(sn) : sn[n].host = h
      BY <1>2, <2>1
    <3>4. QED
      BY <2>1, <3>1, <3>2, <3>3
  <2>2. CASE h \notin FixedHosts /\ \E n \in Desired(sn) : sn[n].host = h
    BY <2>2
  <2>3. CASE h \notin FixedHosts /\ ~ \E n \in Desired(sn) : sn[n].host = h
    <3>1. h \notin Claimed(sn)
      BY <2>3 DEF Claimed
    <3>2. routes[h] = NotFound \/ h \in StaleHosts(sn)
      <4>1. SUFFICES ASSUME routes[h] # NotFound PROVE h \in StaleHosts(sn)
        OBVIOUS
      <4>2. routes[h] \in AppHandler /\ appHosts[routes[h].app] = h
        BY <1>1, <2>3, <4>1 DEF IInv, RegistryExact, Dispatch
      <4>3. routes[h].app \in Apps /\ h # NoHost
        BY <4>2, RoutesAssumption DEF AppHandler
      <4>4. QED
        BY <3>1, <4>2, <4>3 DEF StaleHosts
    <3>3. QED
      BY <2>3, <3>2
  <2>4. QED
    BY <2>1, <2>2, <2>3
<1>6. QED
  BY <1>3, <1>4, <1>5

\* Removing a route brings nothing forward that was not settled (proxy/proxy.go:42-49).
LEMMA RemoveSettled ==
  ASSUME IInv, NEW s \in Syncers, NEW h \in Hosts, RemoveRoute(s, h)
  PROVE  Settled' = Settled
<1>1. /\ lock = s /\ lock' = s /\ h \in toRemove /\ snap' = snap /\ toAdd' = toAdd
      /\ routes' = [routes EXCEPT ![h] = NotFound] /\ toRemove' = toRemove \ {h}
  BY DEF RemoveRoute
<1>2. \A k \in Hosts : routes'[k] = IF k = h THEN NotFound ELSE routes[k]
  BY <1>1 DEF IInv, TypeOK
<1> DEFINE Owner(k) == CHOOSE n \in toAdd : snap[s][n].host = k
           Before(k) == IF \E n \in toAdd : snap[s][n].host = k
                          THEN HandlerFor(Owner(k), snap[s][Owner(k)])
                          ELSE IF k \in toRemove THEN NotFound ELSE routes[k]
           After(k) == IF \E n \in toAdd : snap[s][n].host = k
                         THEN HandlerFor(Owner(k), snap[s][Owner(k)])
                         ELSE IF k \in toRemove \ {h} THEN NotFound ELSE routes'[k]
<1>3. Settled = [k \in Hosts |-> Before(k)] /\ Settled' = [k \in Hosts |-> After(k)]
  BY <1>1 DEF Settled, HandlerFor
<1>4. \A k \in Hosts : After(k) = Before(k)
  BY <1>1, <1>2
<1>5. QED
  BY <1>3, <1>4

\* Adding a route makes one settled route real, the one of the only app of the
\* plan with that host (proxy/proxy.go:35-40).
LEMMA AddSettled ==
  ASSUME IInv, NEW s \in Syncers, NEW n \in Apps, AddRoute(s, n)
  PROVE  Settled' = Settled
<1> DEFINE sn == snap[s]
<1>1. /\ lock = s /\ lock' = s /\ n \in toAdd /\ snap' = snap /\ toAdd' = toAdd \ {n}
      /\ routes' = [routes EXCEPT ![sn[n].host] = HandlerFor(n, sn[n])]
      /\ toRemove = {} /\ toRemove' = {}
  BY DEF AddRoute
<1>2. toAdd \subseteq Desired(sn)
  BY <1>1 DEF IInv, ApplyOK
<1>3. /\ \A m \in toAdd : sn[m].host \in Hosts
      /\ \A m, k \in toAdd : sn[m].host = sn[k].host => m = k
  BY <1>2, DesiredFacts DEF IInv, TypeOK, SnapOK
<1>4. \A h \in Hosts : routes'[h] = IF h = sn[n].host THEN HandlerFor(n, sn[n]) ELSE routes[h]
  BY <1>1 DEF IInv, TypeOK
<1> DEFINE Of(set, h) == CHOOSE m \in set : sn[m].host = h
           Before(h) == IF \E m \in toAdd : sn[m].host = h
                          THEN HandlerFor(Of(toAdd, h), sn[Of(toAdd, h)])
                          ELSE routes[h]
           After(h) == IF \E m \in toAdd \ {n} : sn[m].host = h
                         THEN HandlerFor(Of(toAdd \ {n}, h), sn[Of(toAdd \ {n}, h)])
                         ELSE routes'[h]
<1>5. Settled = [h \in Hosts |-> Before(h)] /\ Settled' = [h \in Hosts |-> After(h)]
  BY <1>1 DEF Settled, HandlerFor
<1>6. ASSUME NEW h \in Hosts PROVE After(h) = Before(h)
  <2>1. CASE h = sn[n].host
    <3>1. ~ \E m \in toAdd \ {n} : sn[m].host = h
      BY <1>1, <1>3, <2>1
    <3>2. Of(toAdd, h) = n
      BY <1>1, <1>3, <2>1
    <3>3. QED
      BY <1>1, <1>4, <2>1, <3>1, <3>2
  <2>2. CASE h # sn[n].host /\ \E m \in toAdd : sn[m].host = h
    <3>1. PICK m \in toAdd \ {n} : sn[m].host = h
      BY <2>2
    <3>2. Of(toAdd, h) = m /\ Of(toAdd \ {n}, h) = m
      BY <1>3, <3>1
    <3>3. QED
      BY <3>1, <3>2
  <2>3. CASE h # sn[n].host /\ ~ \E m \in toAdd : sn[m].host = h
    BY <1>4, <2>3
  <2>4. QED
    BY <2>1, <2>2, <2>3
<1>7. QED
  BY <1>5, <1>6

\* What the abstract specification sees of the callers.
Taken == [s \in Syncers |-> IF pc[s] = "loaded" THEN {snap[s]} ELSE {}]

\* Every step of the router and the manager is a step of the abstract
\* specification or none: the switch happens when the plan is made.
LEMMA StepSimulation ==
  IInv /\ NothingPending /\ [Next]_vars => [Abstract!Next]_(Abstract!vars)
<1> SUFFICES ASSUME IInv, NothingPending, [Next]_vars
             PROVE  [Abstract!Next]_(Abstract!vars)
  OBVIOUS
<1> DEFINE Table == loadEnabled(apps)
           Unseen == Table' = Table /\ Taken' = Taken /\ Settled' = Settled
<1>1. Unseen => UNCHANGED Abstract!vars
  BY DEF Abstract!vars, Taken
<1>2. CASE DbChange
  <2>1. apps' \in [Apps -> Row \cup {NoRow}]
    BY TypePreserved DEF TypeOK
  <2>2. Table' \in [Apps -> Settings \cup {NoRow}]
    BY <2>1, LoadType DEF loadEnabled
  <2>3. Taken' = Taken /\ Settled' = Settled
    BY <1>2, DbChangeSteps, SettledUntouched DEF Taken
  <2>4. QED
    BY <2>2, <2>3 DEF Abstract!Next, Abstract!Edit, Taken
<1>3. ASSUME NEW s \in Syncers, Call(s) \/ LoadFails(s) PROVE Unseen
  <2>1. Table' = Table
    BY <1>3 DEF Call, LoadFails, dbVars, loadEnabled
  <2>2. Settled' = Settled
    BY <1>3, SettledUntouched DEF Call, LoadFails
  <2>3. Taken' = Taken
    BY <1>3 DEF Call, LoadFails, Taken, IInv, TypeOK
  <2>4. QED
    BY <2>1, <2>2, <2>3
<1>4. ASSUME NEW s \in Syncers, Load(s) PROVE Abstract!Take(s)
  <2>1. Table' = Table
    BY <1>4 DEF Load, dbVars, loadEnabled
  <2>2. Settled' = Settled
    <3>1. \A t \in Syncers : lock = t => snap'[t] = snap[t]
      BY <1>4 DEF Load, IInv, LockOK, TypeOK
    <3>2. QED
      BY <1>4, <3>1, SettledUntouched DEF Load
  <2>3. Taken[s] = {} /\ Taken' = [Taken EXCEPT ![s] = {Table}]
    BY <1>4 DEF Load, Taken, IInv, TypeOK
  <2>4. QED
    BY <2>1, <2>2, <2>3 DEF Abstract!Take, Taken
<1>5. ASSUME NEW s \in Syncers, Plan(s) PROVE Abstract!Switch(s)
  <2>1. Table' = Table
    BY <1>5 DEF Plan, dbVars, loadEnabled
  <2>2. Settled' = Wanted(snap[s])
    BY <1>5, PlanSwitches
  <2>3. Taken[s] = {snap[s]} /\ Taken' = [Taken EXCEPT ![s] = {}]
    BY <1>5 DEF Plan, Taken, IInv, TypeOK
  <2>4. QED
    BY <2>1, <2>2, <2>3 DEF Abstract!Switch, Taken
<1>6. ASSUME NEW s \in Syncers, NEW h \in Hosts, RemoveRoute(s, h) PROVE Unseen
  <2>1. Table' = Table /\ Taken' = Taken
    BY <1>6 DEF RemoveRoute, dbVars, loadEnabled, Taken
  <2>2. QED
    BY <1>6, <2>1, RemoveSettled
<1>7. ASSUME NEW s \in Syncers, NEW n \in Apps, AddRoute(s, n) PROVE Unseen
  <2>1. Table' = Table /\ Taken' = Taken
    BY <1>7 DEF AddRoute, dbVars, loadEnabled, Taken
  <2>2. QED
    BY <1>7, <2>1, AddSettled
<1>8. ASSUME NEW s \in Syncers, Finish(s) PROVE Unseen
  <2>1. Table' = Table
    BY <1>8 DEF Finish, dbVars, loadEnabled
  <2>2. pc[s] = "applying"
    BY <1>8 DEF Finish, IInv, LockOK
  <2>3. Taken' = Taken
    BY <1>8, <2>2 DEF Finish, Taken, IInv, TypeOK
  <2>4. Settled' = Settled
    BY <1>8 DEF Finish, Settled
  <2>5. QED
    BY <2>1, <2>3, <2>4
<1>9. CASE UNCHANGED vars
  <2>1. Unseen
    BY <1>9 DEF vars, Taken, Settled, HandlerFor, loadEnabled
  <2>2. QED
    BY <1>1, <2>1
<1>10. QED
  BY <1>1, <1>2, <1>3, <1>4, <1>5, <1>6, <1>7, <1>8, <1>9
  DEF Next, SyncStep, Abstract!Next

\* Any number of overlapping calls of Sync, made of reads and single calls to
\* the router, implement a Sync that replaces the router at once.
THEOREM SyncImplementsReconcile == Spec => SyncIsOneStep
<1>1. Init => Abstract!Init
  <2> SUFFICES ASSUME Init PROVE Abstract!Init
    OBVIOUS
  <2>1. loadEnabled(apps) \in [Apps -> Settings \cup {NoRow}]
    BY InitIInv, LoadType DEF IInv, TypeOK
  <2>2. Taken = [s \in Syncers |-> {}]
    BY DEF Init, Taken
  <2>3. Settled = [h \in Hosts |-> IF h \in FixedHosts THEN Nass ELSE NotFound]
    BY DEF Init, Settled
  <2>4. QED
    BY <2>1, <2>2, <2>3 DEF Abstract!Init, Taken
<1>2. QED
  BY <1>1, StepSimulation, Invariance, NothingLeftOver, PTL
  DEF Spec, SyncIsOneStep, Abstract!Spec

-----------------------------------------------------------------------------
(* What a Sync leaves behind.                                              *)

\* The router, once the calls of the Sync under way are made, is the one that
\* its read of the table asks for.
PlanInForce == lock # Free => Settled = Wanted(snap[lock])

\* From the moment a Sync has the lock it is bound for what it read
\* (proxy/manager.go:64-105).
LEMMA PlansHold == Spec => []PlanInForce
<1>1. Init => PlanInForce
  BY DEF Init, PlanInForce
<1>2. IInv /\ NothingPending /\ PlanInForce /\ [Next]_vars => PlanInForce'
  <2> SUFFICES ASSUME IInv, NothingPending, PlanInForce, [Next]_vars, lock' # Free
               PROVE  Settled' = Wanted(snap'[lock'])
    BY DEF PlanInForce, Wanted, Desired, Eligible, HandlerOK, HandlerFor
  <2> DEFINE Kept == /\ lock' = lock /\ snap'[lock] = snap[lock] /\ Settled' = Settled
  <2>1. Kept => Settled' = Wanted(snap'[lock'])
    BY DEF PlanInForce
  <2>2. CASE DbChange
    BY <2>1, <2>2, DbChangeSteps, SettledUntouched
  <2>3. ASSUME NEW s \in Syncers, Call(s) \/ LoadFails(s) PROVE Kept
    BY <2>3, SettledUntouched DEF Call, LoadFails
  <2>4. ASSUME NEW s \in Syncers, Load(s) PROVE Kept
    <3>1. \A t \in Syncers : lock = t => snap'[t] = snap[t]
      BY <2>4 DEF Load, IInv, LockOK, TypeOK
    <3>2. lock' = lock /\ lock \in Syncers
      BY <2>4 DEF Load, IInv, TypeOK
    <3> QED
      BY <2>4, <3>1, <3>2, SettledUntouched DEF Load
  <2>5. ASSUME NEW s \in Syncers, Plan(s) PROVE Settled' = Wanted(snap'[lock'])
    BY <2>5, PlanSwitches DEF Plan
  <2>6. ASSUME NEW s \in Syncers, NEW h \in Hosts, RemoveRoute(s, h) PROVE Kept
    BY <2>6, RemoveSettled DEF RemoveRoute
  <2>7. ASSUME NEW s \in Syncers, NEW m \in Apps, AddRoute(s, m) PROVE Kept
    BY <2>7, AddSettled DEF AddRoute
  <2>8. ASSUME NEW s \in Syncers PROVE ~Finish(s)
    BY DEF Finish
  <2>9. CASE UNCHANGED vars
    BY <2>1, <2>9, SettledUntouched DEF vars
  <2> QED
    BY <2>1, <2>2, <2>3, <2>4, <2>5, <2>6, <2>7, <2>8, <2>9 DEF Next, SyncStep
<1> QED
  BY <1>1, <1>2, Invariance, NothingLeftOver, PTL DEF Spec

\* A Sync that read the table as it still is leaves the router in step with it,
\* whatever other calls did to the router meanwhile: the safe half of
\* EventuallyInStep (proxy/manager.go:64-107).
THEOREM CurrentSyncLeavesInStep ==
  Spec => [][\A s \in Syncers : Finish(s) /\ ver[s] = changes => MatchesTable']_vars
<1> DEFINE InStep == \A s \in Syncers : Finish(s) /\ ver[s] = changes => MatchesTable'
<1>1. ASSUME IInv, PlanInForce, Next PROVE InStep
  <2> SUFFICES ASSUME NEW s \in Syncers, Finish(s), ver[s] = changes
               PROVE  MatchesTable'
    OBVIOUS
  <2>1. /\ lock = s /\ lock # Free /\ toRemove = {} /\ toAdd = {}
        /\ routes' = routes /\ apps' = apps
    BY RoutesAssumption DEF Finish, dbVars
  <2>2. snap[s] = loadEnabled(apps)
    BY <1>1, <2>1 DEF IInv, LockOK, SnapFresh
  <2>3. Settled = routes
    BY <1>1, <2>1 DEF Settled, IInv, TypeOK
  <2>4. routes = Wanted(loadEnabled(apps))
    BY <1>1, <2>1, <2>2, <2>3 DEF PlanInForce
  <2>5. Wanted(loadEnabled(apps))' = Wanted(loadEnabled(apps))
    BY <2>1 DEF Wanted, loadEnabled, Desired, Eligible, HandlerOK, HandlerFor
  <2> QED
    BY <2>1, <2>4, <2>5 DEF MatchesTable
<1>2. ASSUME IInv, PlanInForce, [Next]_vars PROVE [InStep]_vars
  BY <1>1, <1>2
<1> QED
  BY <1>2, Invariance, PlansHold, PTL DEF Spec
=============================================================================
