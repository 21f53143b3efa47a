------------------------------- MODULE Routes -------------------------------
(***************************************************************************)
(* The live host router and the manager that keeps it in step with the     *)
(* apps table (internal/proxy).                                            *)
(*                                                                         *)
(* The apps table is changed by the portal's jobs and by CLI processes.    *)
(* RouteManager.Sync reads it and then rewrites the router's map, one      *)
(* AddRoute or RemoveRoute at a time.  Sync is called by the ticker of     *)
(* `nass serve` and by the reload that ends every portal job, so several   *)
(* calls may be under way: the read of the table comes before the          *)
(* manager's lock is taken, the rewriting happens under it, and requests   *)
(* are dispatched in between because the router has a lock of its own.     *)
(***************************************************************************)
EXTENDS Naturals

CONSTANTS
  Apps,         \* app names; a name is a number, ORDER BY name is <=
  Hosts,        \* lower-cased full host names
  AuthHost,     \* host of the OIDC server
  PortalHost,   \* host of the portal
  Addrs,        \* well-formed backend URLs
  NoHost,       \* settings with an empty (or undecodable) subdomain
  NoAddr,       \* settings with an empty backend
  BadAddr,      \* a backend URL that parseBackend refuses
  NoRow,        \* no row in the apps table / not in the loaded snapshot
  Nass,         \* the handler of a fixed route: OIDC server or portal
  NotFound,     \* the router's fallback handler
  GateWired,    \* whether the manager was given a Gate
  Inputs,       \* bound: the settings that get saved
  Syncers,      \* goroutines that call Sync: the ticker and the portal jobs
  Ticker,       \* the one that calls it every 30 seconds
  Free,         \* the manager's lock is not held
  MaxChanges    \* bound: changes made to the apps table

FixedHosts == {AuthHost, PortalHost}
Settings == [host: Hosts \cup {NoHost}, backend: Addrs \cup {NoAddr, BadAddr},
             gate: BOOLEAN]
Row == [enabled: BOOLEAN, settings: Settings]
EmptySettings == [host |-> NoHost, backend |-> NoAddr, gate |-> FALSE]
AppHandler == [app: Apps, backend: Addrs, gated: BOOLEAN]

\* Apps are numbers, in the order of their names; nass's own hosts are hosts, and
\* the values for nothing are told from the others.
ASSUME RoutesAssumption ==
  /\ Apps \subseteq Nat
  /\ FixedHosts \subseteq Hosts
  /\ NoHost \notin Hosts
  /\ NoAddr \notin Addrs /\ BadAddr \notin Addrs
  /\ NoRow \notin Row /\ NoRow \notin Settings
  /\ Nass \notin AppHandler /\ NotFound \notin AppHandler /\ Nass # NotFound
  /\ GateWired \in BOOLEAN
  /\ Inputs \subseteq Settings
  /\ Free \notin Syncers /\ Ticker \in Syncers
  /\ MaxChanges \in Nat

VARIABLES
  apps,       \* the apps table: name -> row
  changes,    \* number of changes made to the table so far
  routes,     \* Server.routes: host -> handler (NotFound: no entry)
  appHosts,   \* RouteManager.appHosts: name -> host (NoHost: no entry)
  lock,       \* holder of RouteManager.mu
  pc,         \* where each caller of Sync is
  snap,       \* the routes each caller's loadEnabled returned
  ver,        \* history: the value of changes when snap was read
  toRemove,   \* RemoveRoute calls the lock holder still has to make
  toAdd       \* AddRoute calls the lock holder still has to make

dbVars == <<apps, changes>>
vars == <<apps, changes, routes, appHosts, lock, pc, snap, ver, toRemove, toAdd>>

NoSnap == [n \in Apps |-> NoRow]

TypeOK ==
  /\ apps \in [Apps -> Row \cup {NoRow}]
  /\ changes \in Nat
  /\ routes \in [Hosts -> AppHandler \cup {Nass, NotFound}]
  /\ appHosts \in [Apps -> Hosts \cup {NoHost}]
  /\ lock \in Syncers \cup {Free}
  /\ pc \in [Syncers -> {"idle", "loading", "loaded", "applying"}]
  /\ snap \in [Syncers -> [Apps -> Settings \cup {NoRow}]]
  /\ ver \in [Syncers -> Nat]
  /\ toRemove \subseteq Hosts
  /\ toAdd \subseteq Apps

-----------------------------------------------------------------------------
(* What Sync computes from the table.                                      *)

\* A row that loadEnabled turns into a route: the others are reported as
\* problems and skipped.
Routable(row) ==
  /\ row # NoRow
  /\ row.enabled
  /\ row.settings.host # NoHost
  /\ row.settings.backend # NoAddr

loadEnabled(db) ==
  [n \in Apps |-> IF Routable(db[n]) THEN db[n].settings ELSE NoRow]

\* A plausible bug: parseBackend's error is dropped.
HandlerAlwaysOK(s) == TRUE

\* HandlerFor returns no error.
HandlerOK(s) == s.backend \in Addrs /\ (s.gate => GateWired)

HandlerFor(n, s) == [app |-> n, backend |-> s.backend, gated |-> s.gate]

\* A plausible bug: the reserved-host check is missing.
EligibleUnreserved(sn) == {n \in Apps : sn[n] # NoRow /\ HandlerOK(sn[n])}

\* The apps that pass the reserved-host check and get a handler.
Eligible(sn) ==
  {n \in Apps : sn[n] # NoRow /\ sn[n].host \notin FixedHosts /\ HandlerOK(sn[n])}

\* A plausible bug: the `claimed` check is missing.
DesiredNoDuplicateCheck(sn) == Eligible(sn)

\* The keys of `desired`: rows come ordered by name and the first eligible one
\* claims its host.
Desired(sn) ==
  {n \in Eligible(sn) : \A m \in Eligible(sn) : sn[m].host = sn[n].host => n <= m}

\* The keys of `claimed`.
Claimed(sn) == {sn[n].host : n \in Desired(sn)}

\* Plausible bugs: every managed route is dropped and added again; nothing is
\* ever dropped.
AllManagedHosts(sn) == {appHosts[n] : n \in Apps} \ {NoHost}
NoHostsDropped(sn) == {}

\* The managed hosts that no app claims any more.
StaleHosts(sn) == {appHosts[n] : n \in Apps} \ ({NoHost} \cup Claimed(sn))

-----------------------------------------------------------------------------
\* A process that starts finds any table an earlier one, or an earlier
\* configuration with other fixed hosts, left behind.  `nass serve` registers
\* the fixed routes before the first Sync.
Init ==
  /\ apps \in [Apps -> [enabled: BOOLEAN, settings: Inputs \cup {EmptySettings}]
                        \cup {NoRow}]
  /\ changes = 0
  /\ routes = [h \in Hosts |-> IF h \in FixedHosts THEN Nass ELSE NotFound]
  /\ appHosts = [n \in Apps |-> NoHost]
  /\ lock = Free
  /\ pc = [s \in Syncers |-> "idle"]
  /\ snap = [s \in Syncers |-> NoSnap]
  /\ ver = [s \in Syncers |-> 0]
  /\ toRemove = {}
  /\ toAdd = {}

(* Changes to the apps table: one SQL statement or transaction each.       *)

Change(n, row) ==
  /\ changes < MaxChanges
  /\ changes' = changes + 1
  /\ apps' = [apps EXCEPT ![n] = row]
  /\ UNCHANGED <<routes, appHosts, lock, pc, snap, ver, toRemove, toAdd>>

\* `nass app enable`: both flags are required and the fixed hosts are refused.
\* The backend is not parsed here.
EnableCmd(n, s) ==
  /\ s.host \in Hosts \ FixedHosts
  /\ s.backend # NoAddr
  /\ Change(n, [enabled |-> TRUE, settings |-> s])

\* Install saves its settings; validate refuses the sign-in host only, so the
\* portal's host can get into the table this way.
InstallSave(n, s) ==
  /\ s.host \in Hosts \ {AuthHost}
  /\ s.backend \in Addrs
  /\ Change(n, [enabled |-> TRUE, settings |-> s])

\* oidc.Provision makes sure the app has an enabled row; a new row has empty
\* settings, an old one keeps its own.
Provision(n) ==
  Change(n, [enabled |-> TRUE,
             settings |-> IF apps[n] = NoRow
                            THEN EmptySettings
                            ELSE apps[n].settings])

\* `nass app disable`.
DisableCmd(n) ==
  /\ apps[n] # NoRow
  /\ Change(n, [apps[n] EXCEPT !.enabled = FALSE])

\* Uninstall deletes the row.
DeleteRow(n) ==
  /\ apps[n] # NoRow
  /\ Change(n, NoRow)

-----------------------------------------------------------------------------
(* RouteManager.Sync.                                                      *)

\* The ticker fires, or a job's reload calls Sync.
Call(s) ==
  /\ pc[s] = "idle"
  /\ pc' = [pc EXCEPT ![s] = "loading"]
  /\ UNCHANGED <<dbVars, routes, appHosts, lock, snap, ver, toRemove, toAdd>>

\* The query is one read of the table, made before the lock is taken.
Load(s) ==
  /\ pc[s] = "loading"
  /\ pc' = [pc EXCEPT ![s] = "loaded"]
  /\ snap' = [snap EXCEPT ![s] = loadEnabled(apps)]
  /\ ver' = [ver EXCEPT ![s] = changes]
  /\ UNCHANGED <<dbVars, routes, appHosts, lock, toRemove, toAdd>>

\* A plausible bug: a failed query is taken for an empty table.
LoadFailsAsEmpty(s) ==
  /\ pc[s] = "loading"
  /\ pc' = [pc EXCEPT ![s] = "loaded"]
  /\ UNCHANGED <<dbVars, routes, appHosts, lock, snap, ver, toRemove, toAdd>>

\* A failed query returns before anything is touched.
LoadFails(s) ==
  /\ pc[s] = "loading"
  /\ pc' = [pc EXCEPT ![s] = "idle"]
  /\ UNCHANGED <<dbVars, routes, appHosts, lock, snap, ver, toRemove, toAdd>>

\* m.mu.Lock() and the computation of desired, claimed and the stale hosts.
Plan(s) ==
  /\ pc[s] = "loaded"
  /\ lock = Free
  /\ lock' = s
  /\ pc' = [pc EXCEPT ![s] = "applying"]
  /\ toRemove' = StaleHosts(snap[s])
  /\ toAdd' = Desired(snap[s])
  /\ UNCHANGED <<dbVars, routes, appHosts, snap, ver>>

\* Server.RemoveRoute of one host that no app claims any more.
RemoveRoute(s, h) ==
  /\ lock = s
  /\ h \in toRemove
  /\ routes' = [routes EXCEPT ![h] = NotFound]
  /\ toRemove' = toRemove \ {h}
  /\ UNCHANGED <<dbVars, appHosts, lock, pc, snap, ver, toAdd>>

\* Server.AddRoute of one app, in the arbitrary order of a Go map, once every
\* stale host is gone.
AddRoute(s, n) ==
  /\ lock = s
  /\ toRemove = {}
  /\ n \in toAdd
  /\ routes' = [routes EXCEPT ![snap[s][n].host] = HandlerFor(n, snap[s][n])]
  /\ toAdd' = toAdd \ {n}
  /\ UNCHANGED <<dbVars, appHosts, lock, pc, snap, ver, toRemove>>

\* m.appHosts = hosts, and the deferred unlock.
Finish(s) ==
  /\ lock = s
  /\ toRemove = {} /\ toAdd = {}
  /\ appHosts' = [n \in Apps |-> IF n \in Desired(snap[s]) THEN snap[s][n].host
                                                           ELSE NoHost]
  /\ lock' = Free
  /\ pc' = [pc EXCEPT ![s] = "idle"]
  /\ snap' = [snap EXCEPT ![s] = NoSnap]
  /\ ver' = [ver EXCEPT ![s] = 0]
  /\ UNCHANGED <<dbVars, routes, toRemove, toAdd>>

-----------------------------------------------------------------------------
DbChange ==
  \E n \in Apps :
    \/ \E s \in Inputs : EnableCmd(n, s) \/ InstallSave(n, s)
    \/ Provision(n)
    \/ DisableCmd(n)
    \/ DeleteRow(n)

SyncStep(s) ==
  \/ Load(s)
  \/ LoadFails(s)
  \/ Plan(s)
  \/ \E h \in Hosts : RemoveRoute(s, h)
  \/ \E n \in Apps : AddRoute(s, n)
  \/ Finish(s)

Next == DbChange \/ \E s \in Syncers : Call(s) \/ SyncStep(s)

Spec == Init /\ [][Next]_vars

\* The ticker keeps calling Sync; a call that is under way is scheduled to its
\* end (Go's mutex does not starve a waiter); and the ticker's query does not
\* fail for ever.  Nothing makes a portal job call Sync.
Fairness ==
  /\ WF_vars(Call(Ticker))
  /\ SF_vars(Load(Ticker))
  /\ \A s \in Syncers : WF_vars(SyncStep(s)) /\ SF_vars(Plan(s))

FairSpec == Spec /\ Fairness

-----------------------------------------------------------------------------
(* Properties.                                                             *)

\* Which handler ServeHTTP picks for a host: the map read under the router's
\* own lock, or the fallback.
Dispatch(h) == routes[h]

\* The router's content when every app of a snapshot is routed as desired.
Wanted(sn) ==
  [h \in Hosts |->
     IF h \in FixedHosts THEN Nass
     ELSE IF \E n \in Desired(sn) : sn[n].host = h
       THEN LET n == CHOOSE n \in Desired(sn) : sn[n].host = h
            IN  HandlerFor(n, sn[n])
       ELSE NotFound]

MatchesTable == routes = Wanted(loadEnabled(apps))

\* The OIDC server and the portal keep their routes whatever the apps table
\* holds and however the Syncs interleave (manager.go:40-42).
FixedRoutesKept == \A h \in FixedHosts : Dispatch(h) = Nass

\* Whenever no Sync is rewriting the router, the manager's registry says
\* exactly which app every managed host leads to, and no host has two owners:
\* a later Sync can therefore find and remove each route it no longer wants.
RegistryExact ==
  lock = Free =>
    \A h \in Hosts \ FixedHosts :
      \/ /\ Dispatch(h) = NotFound
         /\ \A n \in Apps : appHosts[n] # h
      \/ /\ Dispatch(h) \in AppHandler
         /\ appHosts[Dispatch(h).app] = h
         /\ \A n \in Apps : appHosts[n] = h => n = Dispatch(h).app

\* A host that was routed before a Sync and is claimed by it, possibly by
\* another app, is never without a route while the Sync is applied
\* (manager.go:91-93).
NoOutageDuringSync ==
  lock # Free =>
    \A n \in Apps :
      appHosts[n] \in Claimed(snap[lock]) => Dispatch(appHosts[n]) # NotFound

\* A Sync that read the table as it still is takes no route away whose host
\* that table claims; in particular a failed query takes nothing away
\* (manager.go:55-57).
RemovedOnlyIfUnclaimed ==
  [][\A h \in Hosts :
       Dispatch(h) # NotFound /\ Dispatch(h)' = NotFound
         => \E s \in Syncers :
              /\ lock = s
              /\ ver[s] = changes => h \notin Claimed(loadEnabled(apps))]_vars

\* Once the table stops changing (MaxChanges changes at most) the ticker
\* brings the router in step with it and it stays so.
EventuallyInStep == <>[]MatchesTable

-----------------------------------------------------------------------------
(* Sync as one step.                                                       *)

\* The router as it will be when the Sync under way, if any, has made the rest
\* of its calls.
Settled ==
  [h \in Hosts |->
     IF \E n \in toAdd : snap[lock][n].host = h
       THEN LET n == CHOOSE n \in toAdd : snap[lock][n].host = h
            IN  HandlerFor(n, snap[lock][n])
       ELSE IF h \in toRemove THEN NotFound ELSE routes[h]]

Abstract == INSTANCE Reconcile WITH
  Callers <- Syncers,
  Tables <- [Apps -> Settings \cup {NoRow}],
  Routing <- Wanted,
  Blank <- [h \in Hosts |-> IF h \in FixedHosts THEN Nass ELSE NotFound],
  table <- loadEnabled(apps),
  taken <- [s \in Syncers |-> IF pc[s] = "loaded" THEN {snap[s]} ELSE {}],
  shown <- Settled

\* However calls overlap, Sync works as if each took the lock, replaced the
\* whole router by what its read of the table asks for, and let go: no call
\* leaves a mixture of two tables or a route that nobody asked for
\* (manager.go:44-107).
SyncIsOneStep == Abstract!Spec
=============================================================================
