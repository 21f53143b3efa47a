# A verification development for nass

nass turns a Linux box into a home server: one Go binary that terminates TLS,
routes `<app>.<host>` to docker compose stacks, keeps users and portal sessions,
and is an OpenID Connect provider for the apps. This directory holds TLA+ models
of its stateful parts, the TLC configurations that check them, and proofs that
TLAPS checks. Paths below are relative to `src/`.

    tlc -config MCRoutes.cfg MCRoutes      # model-check one configuration
    tlapm RoutesProofs.tla                 # check the proofs of one module

`PROJECT.json` lists the runs, the line ranges every definition stands for, the
mutations each property is known to catch, the hazards and the findings.

## 1. Inventory

| Component | State | Operations | Interacts with |
| --- | --- | --- | --- |
| Host router (`proxy/proxy.go`) | map host -> handler, behind its own RWMutex | AddRoute, RemoveRoute, ServeHTTP | written by the route manager, read by every request |
| Route manager (`proxy/manager.go`, `proxy/apps.go`) | `appHosts`: app -> host, behind a mutex | Sync | reads the `apps` table; called by the 30 s ticker and by the end of every portal job |
| User store (`auth/users.go`) | `users` table | Create, Verify, SetPassword, SetAdmin, SetEmail, Delete | a reset, demotion or deletion also deletes rows of the session and token tables |
| Portal sessions (`portal/session.go`, `login.go`, `portal.go`, `gate.go`) | `portal_sessions` | Issue, Lookup, Revoke, PurgeExpired, login, requireAdmin | user store, login throttle |
| User administration (`portal/admin.go`, `cli/user.go`) | none of its own | create, update, set password, delete | several statements on the user store per request |
| OIDC storage (`auth/oidc/*.go`) | sign-in requests, codes, access and refresh tokens, clients | called by the zitadel/oidc library in a fixed order | user store, clients, hourly purge |
| Login throttle (`auth/throttle.go`) | in-memory table of failures, behind a mutex | Allow, RetryAfter, Failed, Success | both login forms |
| App pipeline (`apps/install.go`, `uninstall.go`, `ports.go`) | `apps` row, OIDC client, compose file, data folder, containers | Install, Uninstall, port selection | portal jobs, CLI processes, docker compose |
| Portal jobs (`portal/admin.go`) | list of the last 20 jobs | start, finish | goroutines that run Install or Uninstall and then Sync |
| App specs (`apps/<app>/<app>.go`) | files and rows in each app's own data folder | PreUp, PostUp: wizards, settings files, rows of the app's database, restarts | called by Install; talk to an app that is still booting |
| Orchestrator (`orchestrator/orchestrator.go`) | none | docker compose up, down, restart, kill, exec | child processes |
| `nass init` (`cli/init.go`, `config/config.go`, `auth/oidc/keys.go`) | `nass.toml`, `oidc.key`, `oidc-crypto.key` | Write, Load, generateSigningKey, generateCryptoKey, LoadSigningKey, LoadCryptoKey | makes what `serve` and every command load |
| Database (`db/db.go`, `db/migrations`) | `schema_migrations` and the tables | Open, migrate | every process opens it, and migrates it on the way |
| `nass serve` (`cli/serve.go`) | none | loads the files, listeners, ticker, purge | wires everything; restarted by systemd |
| CLI (`cli/*.go`) | none | user, app and client commands | separate processes on the same database |
| Reverse proxy, TLS, headers, templates | none that changes | | |

What makes this code hard to test:

- **Several processes on one SQLite file.** HTTP handlers, portal jobs and CLI
  commands run at the same time; only single statements and short transactions
  are atomic. Almost every handler is "read, decide, write".
- **Slow steps between a check and its consequence**: bcrypt between looking a
  user up and using him, docker compose between choosing a port and binding it,
  the library's code between loading a refresh token and rotating it.
- **Side effects that cannot be rolled back**: files and containers. A job that
  fails or is killed leaves what it has done.
- **Apps that are set up from outside while they boot**, in steps that can be cut
  off one by one over a data folder that may outlive the install.
- **Two locks and a read outside of both** in the route manager.
- **A set-up in many steps**: three files and two migrations, made by processes
  that may be killed, run twice or run beside the service.

What makes each component correct:

- router: nass's own two hosts are never taken over, every host has one owner
  the manager knows of, no host goes dark while it changes hands, and the router
  agrees with the table in the end;
- accounts: what a reset, demotion or deletion must end is ended, a session is for
  the account whose password was checked, an admin remains;
- tokens: a code and a refresh token work once, rotation replaces both tokens, a
  revocation that reports success is final, however calls overlap or stop;
- throttle: exactly the failures in the window count, and the wait it announces
  is the right one to the nearest second;
- apps: reported success is complete, and no failure half-way strands
  containers, files, or somebody else's folder, as far as nass can tell what
  docker has done;
- first boot: an install that succeeds leaves an app that runs with its settings,
  and kept data stays usable;
- set-up: the schema is what `schema_migrations` says, an init that reports
  success is complete, and a service whose files are whole comes up.

## 2. Modules

| Module | Models | Instances, proofs |
| --- | --- | --- |
| `Reconcile` | abstract: a router that is switched as a whole to what a reload decided on | implemented by `Routes` |
| `Credentials` | abstract: sessions and tokens as things that are given out once, renewed, and ended for good | implemented by `Accounts` and `Tokens`; `CredentialsProofs` |
| `Routes` | router, route manager, all writers of the `apps` table | `MCRoutes`, `RoutesProofs` |
| `Accounts` | users, sessions, login, user administration, CLI | `MCAccounts`, `AccountsProofs` |
| `Tokens` | sign-in requests, codes, tokens, clients, and what revokes them | `MCTokens`, `TokensProofs` |
| `LoginThrottle` | the throttle and the logins between its calls | `MCLoginThrottle`, `LoginThrottleProofs` |
| `AppLifecycle` | install, uninstall, start and stop as jobs | `MCAppLifecycle`, `AppLifecycleProofs` |
| `FirstBoot` | the hooks of nine apps, and the apps as far as the hooks use them | `MCFirstBoot`, `FirstBootProofs` |
| `Setup` | `nass init`, configuration, keys, migrations, `nass serve` under systemd | `MCSetup`, `SetupProofs` |

**Routes.** `apps` is the table (name -> row), `routes` the router's map,
`appHosts` the manager's registry, `lock` its mutex. A Sync is a process: `Call`
(ticker or job), `Load` (the query, before the lock) or `LoadFails`, `Plan`
(takes the lock, decides `toRemove` and `toAdd`), `RemoveRoute`, `AddRoute`, one
map write at a time, and `Finish`. The five writers of the table are
`EnableCmd`, `InstallSave`, `Provision`, `DisableCmd` and `DeleteRow`, with the
guards each has or lacks (`Install` refuses the sign-in host but not the
portal's).

**Accounts.** One action per statement or transaction. `proc[p]` is a handler
with the values it has read: `VerifyHash` / `VerifyUnknown` (bcrypt on the row
read), `VerifyUser` (the second read, by name), `LoginIssue`; `LookupSession`,
`requireAdmin`; then `UpdateCheck`, `UpdateEmail`, `UpdateRole`, `PasswordSet`,
`DeleteCheck` and so on. `epoch[u]` counts how often a user was signed out
everywhere and `pwGen[u]` how often his password was set; both are history, and so
are the `who` and `gen` of a session, the account and generation of the password it
rests on. Reading the user again goes by the name typed, so `sessions[s].user` need
not be `who`.

**Tokens.** One action per statement or transaction of the storage, in the order
in which the library calls it; a `call` is a token-endpoint request that may
stop after any step. Rows are named by the call that drew their ids, and a client
presents a token only once the call that made it has answered (`HandedOut`).
`RevokeToken` of a refresh token is two statements (`RevokeRefresh`, `RevokeLinked`)
that may be cut off in between (`RevokeStops`), or, with no row left, a success at
once (`RevokeUnknown`). `rotations`, `revoked` (reported success) and `severed` (the
refresh token went and its access token stayed) are history, as are the `auth`,
`born` and `chain` fields, which record the user's epoch at sign-in, insertion and
start of the chain.

**LoginThrottle.** `entries` maps the two kinds of keys to sets of failure
numbers with times `at[f]`. `Allow`, `RetryAfter`, `Failed` and `Success` are one
step each because each holds the mutex. `Answer` announces the wait as the handlers
do, rounded to whole seconds (`Round`). `who` and `forgiven` are history that
says what should count.

**AppLifecycle.** `job[j]` is a goroutine or CLI process that goes through the
steps of `Install` (`Provision`, `renderCompose`, `MkdirData`, `SaveSettings`,
`Up`, `PostUp`) or `Uninstall` (`DownWithVolumes`, `CleanupClient`, `DeleteRow`,
`RemoveData`, `RemoveCompose`); `Leave` is a failure, a kill or a restart at any
point. Docker compose is external: commands work, fail, or fail having started
or stopped some containers. For the apps in `Misread` a failure of compose down may
mention a missing file, and `isMissingComposeFile` then takes it for an app that is
down. `clean` is history: nobody else has touched the app
since the job began; so is `mistaken`: containers that run although compose down was
taken for done.

**FirstBoot.** A behaviour is about one app and its installs, numbered by `n`,
which stands for the OIDC client and the admin password each of them draws. `pc`
is the step the hook is at, one action per HTTP call, docker command, file or
row. `data` is what the app's folder holds and `loaded` the part of it that the
running app goes by: an app reads its data when it starts (`Start`), so a file
counts from the next restart only. `up` is the container; it boots (`Boot`), may
migrate first, and may restart at any time (`Restarted`). A write may be cut off
(`Torn`, `"part"`), an answer lost after the app has acted (`Tell`), and any step
may be the last (`Leave`). `Uninstall` empties the folder or, with `--keep-data`,
leaves it to the next install. Only compose downs that work are looked at here.

**Setup.** `disk` says of each of the three files whether it is there and whole;
`recorded` is `schema_migrations`, `tables` the migrations whose SQL has taken
effect; `writer` holds SQLite's write lock. `at[p]` is the step of a process: an
init, another command, or the service. A file is made in two steps, `OpenFile`
(`O_CREATE|O_EXCL`) and `WriteFile`, and torn in between; a configuration that is
cut off may still parse; `cfg` is the one the service has loaded, which it goes by
to the end. `migrate` is three: `Check` (outside the transaction),
`apply` (takes the lock, changes nothing another process can see) and `record`
(commits both). `Fail` kills a process or fails a step of it, anywhere; `Restart`
is systemd's. The operator starts over as `docs/usage.md:348-352` says
(`MoveAll`), or moves away only the file that init complained of (`MoveConfig`).
A restart by systemd is never refused, since one every five seconds
(`docs/usage.md:76-77`) stays below its limit of starts. A loss of power is not
modelled, and init does not fsync.

**Reconcile and the refinement.** `Reconcile` has a table, a router, the table's
contents that reloads have in hand, and three kinds of step: the table is
edited, a reload takes the contents, and a reload switches the router, in one
step, to what those contents call for, or gives up. `Routes` implements it
(`SyncIsOneStep`, by `INSTANCE Reconcile WITH` the refinement mapping `Settled`):
a Sync's many calls of `RemoveRoute` and `AddRoute` take effect as one, which the
mapping places where the Sync takes the manager's lock: while the lock is held the
router is mapped to what the plan will have made of it, and the calls that make it
so are stutters, because nobody else writes app routes in between. What a request meets meanwhile is the subject of `NoOutageDuringSync`.

**Credentials and its refinements.** `Credentials` knows who has an account
(`members`), how often each user was signed out everywhere (`round`), and of each
credential whether it is unborn, over, or live, and then whose it is, for what, and
since which round. It is given out (`Give`), renewed into one of the same user,
scope and round (`Renew`), or ended (`End`); `SignOut` and `Leave` end everything a
user has in one step. `Accounts` implements it with its sessions
(`SessionsAreCredentials`), `Tokens` twice, with its access tokens, which are never
renewed but only ended and given out, and with its refresh tokens, where a rotation
is a renewal (`TokensAreCredentials`). In the mappings a row that is there is live
and one that is gone is over; so is the id of a call that stopped before it inserted.
The `Credentials` step of a sign-out is the commit of `SetPassword` or `SetAdmin`.
One statement or transaction deletes the sessions and tokens together, so it is one step in
each of the three mappings.

The modules are not composed. Where they meet, each keeps the part of the
other that matters to it: `Routes` has the row changes of Install and Uninstall,
`Tokens` has resets and client deletions, `AppLifecycle` has clients as numbers.

## 3. Runs

Passing runs:

| Run | Question | Bounds |
| --- | --- | --- |
| `routes` | Do overlapping Syncs keep the fixed routes, the registry exact and claimed hosts lit, and remove nothing without cause; is each Sync one switch of the router, and does the router agree with the table in the end? | 2 apps that compete for one host and can move to another or ask for the portal's, 2 Syncs, any initial table, 2 changes |
| `accounts` | Does revocation reach every session, is a session for the account whose password was checked (or an heir to its name), and are sessions `Credentials`? | 2 names, 3 ids, 2 handlers beside the CLI, 2 tokens |
| `tokens` | Single use, rotation, revocation and its repetition, with calls that stop anywhere; are both kinds of tokens `Credentials`? | 1 user, 1 client, 1 request, 3 calls |
| `throttle` | Is the count exact, an overrun bounded, the announced wait right to half a second, the table swept? | 1 IP, 2 names, limits 1 and 2, a window of one second of 3 ticks, 9 ticks, 4 failures, 2 requests |
| `apps` | Is reported success complete, and is nothing stranded? | 2 apps (one with OIDC) that prefer the same of 2 ports, 2 jobs, kept apart per app except for second installs with OIDC, 1 client; failures of compose down may be misread for the app without OIDC |
| `firstboot` | Does an install that succeeds leave the app with its settings, whatever earlier installs left and whenever the app restarts? | each of the nine apps, 3 installs |
| `setup` | Do inits, commands and the service, killed anywhere, keep schema and files as they are said to be, and does the service come up? | 2 inits, 1 command, the service, the 2 migrations there are, 2 faults, 1 move of files |

Why the bounds are enough to be interesting: two Syncs and two changes are what
it takes for one snapshot to overtake another; two handlers and a third user id
for a name to pass to a new account while a login is under way; three calls for
two competing rotations of one token and a use of the successor; two logins and
four failures for an overrun of both budgets and a wait decided by a failure
that is not the oldest; two jobs and one contended port for an install to lose
its port after publishing its route; three installs for the last to meet the
work of a completed one and of one that was cut off; two inits and a command
beside the service for all of them to migrate at once, with two faults for an
init cut off in a key and a second one cut off in the other. For every property the project names a
mutation of the model (a dropped guard, a missing reset, a swapped order) under
which the same run fails.

Runs that must find a violation, each of a statement in the repository's own
comments or docs (quoted under `findings`):

| Run | What it shows |
| --- | --- |
| `accounts_reset` | a login that checked the old password before a reset issues its session after it |
| `accounts_last_admin` | two admins who remove each other at the same time both pass the check |
| `tokens_reset` | a reset leaves completed sign-in requests and codes, which then become tokens |
| `apps_running` | compose up of an install falls between an uninstall's compose down and its deletion of the data |
| `firstboot_kept` | Gitea installed again over kept data goes on with the OIDC client that the uninstall deleted |

Each of these comes with a property that does hold: sessions and tokens that
existed at the reset are gone (`RevocationComplete`); when jobs on one app are
kept apart data is never deleted under containers, unless a compose down failed and
was misread (`DeletionAfterDown` in `apps`); every other app, and Gitea over data
without a provider, runs with the client of the last install (`SettingsCurrent`).

Divergences met on the way that have no run of their own:

- Sync (`proxy/manager.go:59`) reads the table before it locks, so of two
  overlapping calls the one with the older snapshot can be applied last; the
  router is then behind until the next tick (`EventuallyInStep` holds).
- A token call that authenticated its client before the client was deleted
  (`auth/oidc/clients.go:140`) inserts tokens for it afterwards.
- `Verify` (`auth/users.go:68-90`) checks the hash of one row and then reads the user
  by name again. When the account is deleted in between and its name given to another
  person, the session of whoever knew the old password is for the new person's
  account. `SessionOfVerified` says that this is the only way to a session for an
  account other than the one whose password was checked.
- `RevokeToken` deletes the refresh token before its access token
  (`auth/oidc/storage.go:162-168`) and reports success when there is no refresh token
  (`:153`). After a crash or an error between the two, the retry is told that the token
  is revoked while the access token lives on, for up to an hour. The same is
  true of a logout (`:119-131`) that deletes the user's access tokens, is overtaken by
  a token call that inserts a pair, and then deletes the refresh tokens: it reports
  success, and so does revoking the refresh token afterwards, with the access token of
  that pair alive. `RevokedStayDead` says that there is no third way.
- `Uninstall` takes any failure of compose down for a missing compose file
  if its text has "no such file or directory" in it (`apps/uninstall.go:56`,
  `:132-142`), and the text holds all that docker printed
  (`orchestrator/orchestrator.go:190`). A missing docker.sock or env_file will do: the
  uninstall then goes on, deletes data and compose file under containers that may
  be running, and reports success, with one job per app. This is against its own comment
  (`apps/uninstall.go:77-78`). `DeletionAfterDown`, `ContainersStoppable` and
  `UninstallComplete` except the containers this has happened to (`mistaken`) and
  nothing else; `FilesGoLast` is proved for an empty `Misread`.
- `Retry-After` is the wait rounded to whole seconds (`portal/login.go:41`,
  `auth/oidc/login.go:122`), so it may be up to half a second too short, and zero: a
  client that waits exactly as told can be refused again. `RetryKept` is therefore
  about a login that waits half a second longer.
- Requests that are allowed before any of them has failed exceed the budget of
  `auth/throttle.go:30-31`; `OverrunBounded` says by how much at most.
- An app without OIDC (qbittorrent, firefly, jitsi) can be installed over itself:
  only `Provision` refuses, and they do not call it; `docs/usage.md:195-196`
  says re-running install fails.
- An install without OIDC that fails before it saves its row, and an uninstall
  that stops after deleting it, leave files that `nass app uninstall` refuses to
  touch ("is not installed"); `docs/design.md:12-13` promises no such states.
- `nass app enable` on an installed app replaces its settings with ones that name
  no files (`cli/app.go:73-79`). The portal's uninstall goes by them alone, so it
  deletes the row and reports success with the containers running;
  `docs/usage.md:162-167` gives `enable` for re-enabling a route and `uninstall`
  for stopping the containers.
- A plugin folder that was left half-unpacked is taken for Jellyfin's plugin when
  the app is installed again over kept data (`apps/jellyfin/jellyfin.go:97`), and
  a `firefly.env` that was cut off is kept (`apps/firefly/firefly.go:52`).
- Firefly's compose file draws the database password anew with every install
  (`apps/firefly/docker-compose.yaml:17`, `:35`), but PostgreSQL goes by the one its
  kept data was made with (`:38`), so an install over kept data cannot reach its
  database. `KeptAccountsAndKeys` is about keys and admins and does not cover it.
- Over kept data Jellyfin, Gitea and Immich keep their admin's password, but the
  install reports the one it drew (`apps/install.go:134`).
- Immich's configuration, with the client's secret, is beside the compose file
  and stays there after an uninstall (`apps/immich/immich.go:59`).
- One code presented twice at the same time is exchanged twice
  (`auth/oidc/storage.go:53`: the request is deleted only after the tokens are
  made); afterwards it is gone (`CodeGoneAfterUse`).
- A key file that an init left torn is kept by the next one, which reports it as
  written (`cli/init.go:75`, `:92`, `:112`); `nass serve` then refuses to start
  until the operator moves it away. `InitComplete` therefore speaks of the keys an
  init wrote itself.
- A configuration that was cut off after the base host parses; the service stops
  over the missing certificate (`cli/serve.go:243`).
- A stopped app's port counts as free: the next install may take it, and the
  stopped app's route then leads to the other app's containers.

**Bounds by name.** `Routes!MaxChanges`, `Inputs`; `Accounts!MaxUsers`,
`MaxEpoch`; `Tokens!MaxEpoch`, `MaxMarks`; `LoginThrottle!MaxTime`,
`MaxFailures`; `AppLifecycle!MaxClients`;
`FirstBoot!MaxInstalls`; `Setup!MaxFaults`, `MaxMoves`. `AppLifecycle!Exclusive` is
not a bound but an assumption about the people who start jobs; `apps_running`
drops it. `AppLifecycle!Misread` says for which apps docker's failures may mention
a missing file, and `LoginThrottle!Second` is the number of clock ticks to a
second. `Accounts!UseCli` adds the CLI. Deadlock checking is off only where the ids of the
model run out.

**Fairness.** Two runs need it. In `routes` (`FairSpec`) the ticker of `cli/serve.go` calls
Sync for ever (weak fairness of `Call(Ticker)`); a Sync under way is scheduled
to its end (weak fairness of its steps); a waiter gets Go's mutex in the end,
which does not starve (strong fairness of `Plan`); and the ticker's query does
not fail for ever (strong fairness of `Load(Ticker)`). Nothing is assumed of
portal jobs, whose reload may fail or never come. There is no deadlock hazard
to check in the manager beyond this: it takes the router's lock inside its own
and never the other way round. In `setup` processes that can take a step take
one (weak fairness of `InitStep`, `OpenStep` and `ServeStep`, the last with
systemd's restart); a process that waits for SQLite's write lock gets it, since
its holder commits, rolls back or dies, and waiters are few. Nothing is assumed of
the operator, and faults are bounded.

**Symmetry** is used for interchangeable names, session tokens, handlers, calls,
workers and jobs, and only in runs without liveness.

## 4. Proofs

The runs check small instances; the theorems hold for every value of the
constants that satisfies the `ASSUME` of the module (types of the constants and
distinctness of the values that stand for "nothing").

**RoutesProofs.** Inductive invariant: `TypeOK`; what a Sync loaded is a
possible snapshot (`SnapOK`) and, if the table has not changed since, the
current one (`SnapFresh`); the lock holder is the one applying (`LockOK`); the
registry is one-to-one and never names a fixed host (`RegistryOK`); and, for the
holder, what has been removed and added so far (`ApplyOK`). The last part is why
the strengthening is needed: `RegistryExact` says nothing while the lock is
held, so it cannot be carried over a Sync on its own. From it: `TypeOK`,
`FixedRoutesKept`, `RegistryExact`, `NoOutageDuringSync`, the action property
`RemovedOnlyIfUnclaimed`, and the refinement `SyncImplementsReconcile`: with the
invariant every step of `Routes` is a step of `Reconcile` or leaves it alone. The
steps that matter are `Plan`, which becomes the switch, and `Finish`, where
`ApplyOK` says that the router has become exactly what the plan called for.
`CurrentSyncLeavesInStep` is the safe half of `EventuallyInStep`: a Sync that read
the table as it still is leaves the router exactly as the table asks, because from
the moment it has the lock the router is bound for its plan (`PlanInForce`).

**AccountsProofs.** Beside the properties, ids in use are below `nextId`
(`IdsFresh`) and what a handler remembers of a user is true as long as that user
exists (`ProcOK`). Uniqueness of ids carries the lemma that a session has the name
that was typed (`SessionKeepsName`): a name may pass to another account, an id never
does. `SessionOfVerified` adds whose password was checked: while that account exists
nobody else has its name, so the second read of `Verify` finds it; when it is gone
the name can only be that of an account created later, with a greater id. From it:
`TypeOK`, `RevocationComplete`, `SessionOfVerified` (`SessionsFollowPasswords`). The refinement `SessionsImplementCredentials` also needs that
every session there is was drawn from the tokens that are counted as drawn
(`SidsDrawn`).

**The promises that fail, and how far.** Where a run refutes a statement of the
docs or comments, a theorem says what is missing for it to hold, so that the
window the run shows is the only one:

| Refuted in | Holds if | Theorem |
| --- | --- | --- |
| `accounts_reset` | an account's password is not set while a login of the account is between reading the hash and issuing the session, and the account is not deleted between that login's two reads | `ResetLocksOutUndisturbed` |
| `accounts_last_admin` | no two handlers are between `canRemoveAdmin` and the removal at once, and the CLI is not used, which does not ask | `AdminRemainsOneAtATime` |
| `tokens_reset` | nobody is signed out everywhere while a sign-in of his is pending: the login page knows him, his request is completed, or a call has read his code | `GrantsFollowWaitingResets` |
| `firstboot_kept` | the app is not Gitea (`ClientRebuiltButGitea`); with Gitea it fails at every install over data that has a client (`GiteaNeverRebuilds`) | |
| `apps_running` | jobs on one app are kept apart (`Exclusive`) and no failure of compose down mentions a missing file (`Misread = {}`) | `FilesGoLast` |

The hypotheses on steps (`[][Undisturbed]_vars`, `[][ResetsWait]_vars`) and states
(`[]OneAtATime`) are about the order in which things happen to be done; nothing in nass
enforces them. They name what a fix would have to exclude.

**TokensProofs.** Beside the properties, what each call has read is consistent
with what it has inserted (`CallsOK`), sign-in requests with their ids
(`RequestsOK`) and the histories with the tables (`HistoryOK`). The argument for
single use is that a rotation deletes the old row in the transaction that
inserts the new one, and rows are named by calls that insert once. From it:
`TypeOK`, `OneSuccessor`, `RevocationComplete`,
`CodeGoneAfterUse`, `RevokedStayDead` (an access token belongs to the user and client
of the refresh token it was issued with, `HoldersOK`, so whatever deletes one deletes
the other or is recorded in `severed`, `SeveredOK`), and `RotatedForLiveClient` (a
refresh call presents the token of a call that is done with its inserts, and as
long as the token is there so is its client, `RefreshCallsOK`; so a rotation finds
the row of a deleted client's token gone). The refinement
`TokensImplementCredentials` goes action by action: each is a `Give`, a `Renew`, a
`SignOut`, a `Join`, a `Leave` or an `End` of some tokens, or leaves the mapping alone.
`RevocationComplete` makes a reset end exactly the user's live tokens; that a row
once gone is over, and not unborn, follows from the call that drew its id being past
its insert (`CallsOK`).

**CredentialsProofs.** What the refinements buy: in `Credentials` no live credential
outlasts its account or a sign-out of its user (`CredentialsCurrent`), however often
it was renewed, and what is over stays over (`CredentialsEndForGood`). The first is
inductive. Every implementation inherits both.

**AppLifecycleProofs.** Four invariants. `TypeInv`
strengthens `TypeOK`: a job that is past the choice of its port knows a port.
`AdoptInv` says that a compose file, a row that names files, and a job that
writes or has found them, belong to an app that an install took over; it gives
`OperatorDataSafe` without any assumption on who starts jobs. `SafeInv` assumes `Exclusive`: jobs that change an
app's files are on different apps (`Apart`), and each step of an install or
uninstall knows which files and containers are left (`JobsSafe`), or that the
containers are among the `mistaken`; these carry
`RowHasFiles`, `ContainersStoppable` and `DeletionAfterDown`. Without `Misread`
nothing is ever mistaken, which makes the last `NoDeletionUnderRunning`
(`FilesGoLast`). Without `Exclusive` that fails, as `apps_running` shows. `DoneInv` says what an
undisturbed job has behind it at each step; two installs never hold the same client
(`ClientsApart`), and an install that has its client keeps every other install of
that app at `provision`. It gives `InstallComplete` whoever starts jobs and when,
and `UninstallComplete`, which needs `Exclusive` because an uninstall that finds no
compose file takes the containers to be gone (`ContainersStoppable`, which but for
the `mistaken` is right).

**SetupProofs.** Beside the properties: at most one init is past the creation of the
configuration, and what it has made and found is still there (`FilesOK`); what a
process has seen in `schema_migrations` stays there, and the holder of the write
lock is at a migration that is neither recorded nor there (`DbOK`); an init about
to report has its admin (`AdminOK`); the keys the service loaded are whole
(`ServeOK`). Exclusion of inits rests on `O_EXCL` alone, exclusion of migrations on
the SQL being the first statement of its transaction. From it: `TypeOK`,
`SchemaExact`, `RunningKeepsFooting` and the action property `InitComplete`.

**LoginThrottleProofs.** Failures are numbered in the order of time (`TimeInv`);
with that `WindowExact` is inductive by itself. `OverrunBounded` is not: its
invariant counts the requests that have been let through against a key (`Through`)
together with the failures that count, and a failure moves one request from the
former to the latter (`OverrunInv`). For `RetryKept` the invariant looks ahead: at
the time a login was told, fewer failures than the limit will be left in the window
(`RetryInv`). It holds when the login is told because `FromNewest` picks the failure
that has as many newer ones as the limit allows (`WaitEnough`), and `Round` takes
off at most half a second; the lemma
`NthNewest` (in a finite set of numbers every rank is taken) says that there is
one. For `NoStaleKeys`, a kept key has a failure that the last sweep left or that
came later (`SweepInv`). From it: `TypeOK`, `WindowExact`, `OverrunBounded`,
`RetryKept`, `NoStaleKeys`, for every number of addresses, names and requests and
every limit and window.

**FirstBootProofs.** The invariant has one part for each kind of hook. It says, per
step, which parts of `data`, and of what the running app has `loaded` from it, are of
this install. What all apps have in common can only leave both alone (`Stands`),
read the data again (`Rereads`), begin an install, start the app, or end (lemma
`CommonSteps`), so each hook's part is carried over the hook's own steps one by one.
For qBittorrent, memory and file agree while it runs, and its file is written only
while it is down (`QbittorrentInv`): that is why no stop can undo the
preferences. From it: `TypeOK`, `SettingsCurrent`, `PasswordReported`, `PrefsStay`
and the action property `KeptAccountsAndKeys`, for any number of installs. For
`GiteaNeverRebuilds` the client in Gitea's database is never newer than the install
counted last, and stays what it was when an install found one (`OldClient`).

Only model-checked: liveness (`EventuallyInStep`, `ServeComesUp`), which is beyond
this prover, and that the violations do occur.

## 5. Not modelled

- Request forwarding, TLS, headers, cookies, redirects, templates, flag parsing,
  listeners and ports: no state that changes.
- The OP library, bcrypt, SQLite, docker: external. Only the order of the calls
  into nass's storage, the outcome of a check, the atomicity of statements and
  transactions, and the success or failure of a command are used.
- The hooks of paperless, vaultwarden, linkwarden, miniflux and jitsi, which wait,
  or write the same files whatever is there; folders and Jellyfin's branding
  file in the others. In `AppLifecycle` hooks succeed or fail.
- A second install of the same app beside the first in `FirstBoot`: one install at
  a time there, so what its compose up does between the kill of qBittorrent and the
  writing of its preferences is not looked at (`PrefsStay`).
- The list of the portal's last twenty jobs, which is display only.
- Custom `--data-root` and `--compose-file` paths, the enabled flag in
  `AppLifecycle` (it is in `Routes`), truncated files.
- In `FirstBoot`, Calibre-Web's provider row is written in one step: of the UPDATE and
  the INSERT one writes it and the other does nothing.
- A restart of `nass serve` in `LoginThrottle`, where it forgets all failures by
  design, and in `Routes`, where it starts from `Init` again.
- In `Setup`, the contents of keys and configuration, custom paths, and newer schemas
  under an older binary. The certificate files are left out: `buildHTTPSServer` asks
  only whether the configuration names them.

Differences between the docs and the code that need no model:
`docs/design.md:117` has access tokens of five minutes, `auth/oidc/storage.go:23`
one hour; `docs/design.md:119` and `docs/usage.md:21` an ECDSA P-256 signing key,
`cli/init.go:108` an RSA key of 2048 bits.

## 6. Plan

Done: the modules above with their runs, the refinements of `Reconcile`
and `Credentials`, proofs of every safety property that holds, and of what the broken
promises lack. Open:

1. `AppSystem`: `AppLifecycle` composed with `Routes`, for claims about routes
   and containers together: where a stopped app's port leads, when a route is
   published relative to compose up, what a reload at the end of a job shows.
2. `SignIn`: `Accounts` composed with the sign-in page of `auth/oidc/login.go`
   (a portal session completes a sign-in request), for resets that end the
   session between the two.
3. Helpers as operators against reference definitions: `HostFromRequest`,
   `parsePortRange`, redirect targets, cookie stripping, `inferState`.
