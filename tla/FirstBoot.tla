------------------------------- MODULE FirstBoot -------------------------------
(***************************************************************************)
(* The first-boot hooks of the app specs (internal/apps/*/): what PreUp    *)
(* and PostUp do to an app between compose up and the end of Install.      *)
(*                                                                         *)
(* A hook talks to an app that is still booting, in several steps that can *)
(* fail or be cut off one by one, and what they have done stays in the     *)
(* app's data folder.  "nass app uninstall --keep-data" hands that folder  *)
(* to the next install, which must cope with it.                           *)
(*                                                                         *)
(* A behaviour is about one app; hooks of different apps do not meet.  The *)
(* n-th install provisions client n and draws admin password n.  The apps  *)
(* are external: they boot, read their data when they start, and may be    *)
(* restarted by docker at any time (restart: unless-stopped).              *)
(***************************************************************************)
EXTENDS Integers

CONSTANTS
  Apps,        \* the apps looked at, by name
  MaxInstalls  \* bound: installs in a behaviour

\* The apps that have a hook of their own, and a bound.
ASSUME BootAssumption ==
  /\ Apps \subseteq {"jellyfin", "gitea", "calibreweb", "blinko", "nextcloud",
                     "immich", "vikunja", "firefly", "qbittorrent"}
  /\ MaxInstalls \in Nat

VARIABLES
  app,       \* the app
  n,         \* number of installs begun
  pc,        \* where the last of them is
  up,        \* external: the app's container
  data,      \* what the app's folders hold
  loaded,    \* external: the part of it the running app goes by
  atStart    \* history: data when the last install began

vars == <<app, n, pc, up, data, loaded, atStart>>

Torn == -1   \* a file whose writing was cut off

\* admin, client, key, network: the install that set it, 0 if none has.
\* done: the app's own setup is complete.  prefs: whose preferences the file
\* holds, "none" when it is not there or torn.
Folders ==
  [admin: 0..MaxInstalls, client: -1..MaxInstalls, key: -1..MaxInstalls,
   network: -1..MaxInstalls, done: BOOLEAN, plugin: {"none", "part", "whole"},
   trusted: BOOLEAN, prefs: {"none", "own", "nass"}]

Empty == [admin |-> 0, client |-> 0, key |-> 0, network |-> 0, done |-> FALSE,
          plugin |-> "none", trusted |-> FALSE, prefs |-> "none"]

Steps == {"absent", "preup", "up", "wait", "finished", "failed", "restart", "rewait",
          "get", "user", "complete", "plugin", "unzip", "network", "sso",
          "adduser", "addoauth", "seed", "row", "trust", "reboot", "provider",
          "signup", "inspect", "kill", "write", "upagain"}

TypeOK ==
  /\ app \in Apps
  /\ n \in 0..MaxInstalls
  /\ pc \in Steps
  /\ up \in {"down", "starting", "migrating", "ready"}
  /\ {data, loaded, atStart} \subseteq Folders

Init ==
  /\ app \in Apps
  /\ n = 0
  /\ pc = "absent"
  /\ up = "down"
  /\ data = Empty /\ loaded = Empty /\ atStart = Empty

-----------------------------------------------------------------------------
(* The container.                                                          *)

\* What an app goes by when it starts on d: qBittorrent has preferences of its
\* own when it finds none.
Read(d) == IF d.prefs = "none" THEN [d EXCEPT !.prefs = "own"] ELSE d

Start(d) == up' = "starting" /\ data' = d /\ loaded' = Read(d)

\* On SIGTERM qBittorrent writes the preferences it has in memory.
Flushed ==
  IF app = "qbittorrent" /\ up = "ready" THEN [data EXCEPT !.prefs = loaded.prefs]
                                         ELSE data

Restart == Start(Flushed)

\* Compose up leaves a running container alone, unless its compose file has
\* changed: then it is stopped and made anew.
ComposeUp ==
  IF up = "down" THEN Start(data) ELSE Restart \/ UNCHANGED <<up, data, loaded>>

\* SIGKILL: nothing is written.
Kill == up' = "down" /\ UNCHANGED <<data, loaded>>

\* An app answers HTTP while it is still migrating its data; qBittorrent writes
\* its file once it has fully started.
Boot ==
  /\ \/ up = "starting" /\ up' \in {"migrating", "ready"}
     \/ up = "migrating" /\ up' = "ready"
  /\ data' = IF app = "qbittorrent" /\ up' = "ready" /\ data.prefs = "none"
               THEN [data EXCEPT !.prefs = loaded.prefs] ELSE data
  /\ UNCHANGED <<app, n, pc, loaded, atStart>>

\* The app dies and docker starts it again, or the operator restarts it.
Restarted ==
  /\ up # "down"
  /\ Start(data) \/ Start(Flushed)
  /\ UNCHANGED <<app, n, pc, atStart>>

\* The step of an install that changes nothing but data.
Put(step, d, next) ==
  /\ pc = step
  /\ data' = d
  /\ pc' = next
  /\ UNCHANGED <<app, n, up, loaded, atStart>>

\* The step writes a file; a write that is cut off leaves it torn.
PutFile(step, d, torn, next) == Put(step, d, next) \/ Put(step, torn, "failed")

\* The app takes the change at once.  An answer that is lost fails the install.
Tell(step, d, l, next) ==
  /\ pc = step
  /\ up \in {"migrating", "ready"}
  /\ data' = d /\ loaded' = l
  /\ pc' \in {next, "failed"}
  /\ UNCHANGED <<app, n, up, atStart>>

\* An error, a timeout, or the end of the process.
Leave ==
  /\ pc \notin {"absent", "finished", "failed"}
  /\ pc' = "failed"
  /\ UNCHANGED <<app, n, up, data, loaded, atStart>>

-----------------------------------------------------------------------------
(* What all apps have in common.                                           *)

\* Firefly III and qBittorrent have no OIDC client, and only a client is in the
\* way of a second install.
Install ==
  /\ \/ pc = "absent"
     \/ pc \in {"finished", "failed"} /\ app \in {"firefly", "qbittorrent"}
  /\ n < MaxInstalls
  /\ n' = n + 1
  /\ atStart' = data
  /\ pc' = IF app \in {"immich", "vikunja", "firefly"} THEN "preup" ELSE "up"
  /\ UNCHANGED <<app, up, data, loaded>>

Up ==
  /\ pc = "up"
  /\ ComposeUp
  /\ pc' = "wait"
  /\ UNCHANGED <<app, n, atStart>>

\* Any answer will do.
WaitFor(step, next) ==
  /\ pc = step
  /\ up \in {"migrating", "ready"}
  /\ pc' = next
  /\ UNCHANGED <<app, n, up, data, loaded, atStart>>

RestartApp(step) ==
  /\ pc = step
  /\ Restart
  /\ pc' = "rewait"
  /\ UNCHANGED <<app, n, atStart>>

\* Immich's configuration is beside the compose file and not in the data folder.
Wiped == [Empty EXCEPT !.client = IF app = "immich" THEN data.client ELSE 0]

\* An app can be uninstalled whatever has become of its install; the portal
\* never keeps the data, the CLI may.
Uninstall ==
  /\ pc \in {"finished", "failed"}
  /\ data' \in {Flushed, Wiped}
  /\ up' = "down"
  /\ pc' = "absent"
  /\ UNCHANGED <<app, n, loaded, atStart>>

-----------------------------------------------------------------------------
(* Jellyfin: the wizard, the SSO plugin, its settings, and a restart.      *)

\* The wizard's endpoints are waited for if the wizard is to run.
waitForJellyfin(step, next) ==
  /\ data.done \/ up = "ready"
  /\ WaitFor(step, next)

\* Plausible bug: the wizard does not run again once it has made the user.
WizardOnce ==
  waitForJellyfin("wait", IF data.done \/ data.admin # 0 THEN "plugin" ELSE "get")

AwaitJellyfin == waitForJellyfin("wait", IF data.done THEN "plugin" ELSE "get")

GetUser == up = "ready" /\ Put("get", data, "user")

\* The two calls between this one and the last have no effect told apart here.
PostUser ==
  /\ up = "ready"
  /\ Tell("user", [data EXCEPT !.admin = n], loaded, "complete")

PostComplete ==
  /\ up = "ready"
  /\ Tell("complete", [data EXCEPT !.done = TRUE], loaded, "plugin")

SkipPlugin == data.plugin # "none" /\ Put("plugin", data, "network")

installSSOPlugin ==
  \/ data.plugin = "none" /\ Put("plugin", [data EXCEPT !.plugin = "part"], "unzip")
  \/ Put("unzip", [data EXCEPT !.plugin = "whole"], "network")

\* The gateways are those of the running container.
writeNetwork ==
  /\ up # "down"
  /\ PutFile("network", [data EXCEPT !.network = n], [data EXCEPT !.network = Torn], "sso")

\* Plausible bug: the restart comes before the settings.
writeSSOLate ==
  PutFile("sso", [data EXCEPT !.client = n], [data EXCEPT !.client = Torn], "rewait")

writeSSO ==
  PutFile("sso", [data EXCEPT !.client = n], [data EXCEPT !.client = Torn], "restart")

Jellyfin ==
  /\ app = "jellyfin"
  /\ \/ AwaitJellyfin \/ GetUser \/ PostUser \/ PostComplete
     \/ SkipPlugin \/ installSSOPlugin \/ writeNetwork \/ writeSSO
     \/ RestartApp("restart")
     \/ waitForJellyfin("rewait", "finished")

-----------------------------------------------------------------------------
(* Gitea: what already exists is left as it is.                            *)

createAdminUser ==
  \/ data.admin = 0 /\ Tell("adduser", [data EXCEPT !.admin = n], loaded, "addoauth")
  \/ data.admin # 0 /\ Tell("adduser", data, loaded, "addoauth")

addOIDCProvider ==
  \/ /\ data.client = 0
     /\ Tell("addoauth", [data EXCEPT !.client = n], [loaded EXCEPT !.client = n], "finished")
  \/ data.client # 0 /\ Tell("addoauth", data, loaded, "finished")

Gitea ==
  /\ app = "gitea"
  /\ WaitFor("wait", "adduser") \/ createAdminUser \/ addOIDCProvider

-----------------------------------------------------------------------------
(* Calibre-Web and Blinko: rows of the app's own database, and a restart.  *)

\* Statements of their own: the settings, then the provider's row, which one of
\* an UPDATE and an INSERT writes and the other leaves alone.
seedOIDCConfig ==
  /\ up # "down"
  /\ \/ Put("seed", data, "row")
     \/ Put("row", [data EXCEPT !.client = n], "restart")

Calibreweb ==
  /\ app = "calibreweb"
  /\ \/ WaitFor("wait", "seed") \/ seedOIDCConfig
     \/ RestartApp("restart") \/ WaitFor("rewait", "finished")

seedOAuthProvider ==
  /\ up # "down"
  /\ Put("seed", [data EXCEPT !.client = n], "restart")

Blinko ==
  /\ app = "blinko"
  /\ \/ WaitFor("wait", "seed") \/ seedOAuthProvider
     \/ RestartApp("restart") \/ WaitFor("rewait", "finished")

-----------------------------------------------------------------------------
(* Nextcloud: it must be allowed to call the issuer before it is told of it. *)

ensureLocalRemoteServers ==
  /\ up # "down"
  /\ \/ data.trusted /\ Put("trust", data, "provider")
     \/ ~data.trusted /\ Put("trust", [data EXCEPT !.trusted = TRUE], "reboot")

registerProvider ==
  Tell("provider", [data EXCEPT !.client = n], [loaded EXCEPT !.client = n], "finished")

Nextcloud ==
  /\ app = "nextcloud"
  /\ \/ WaitFor("wait", "trust") \/ ensureLocalRemoteServers
     \/ RestartApp("reboot") \/ WaitFor("rewait", "provider")
     \/ registerProvider

-----------------------------------------------------------------------------
(* Immich, Vikunja and Firefly III: a file before compose up.              *)

writeConfig ==
  PutFile("preup", [data EXCEPT !.client = n], [data EXCEPT !.client = Torn], "up")

awaitImmich ==
  /\ up = "ready"
  /\ WaitFor("wait", IF data.done THEN "finished" ELSE "signup")

\* Plausible bug: the install is counted twice.
signUpNext ==
  Tell("signup", [data EXCEPT !.admin = n + 1, !.done = TRUE], loaded, "finished")

signUp == Tell("signup", [data EXCEPT !.admin = n, !.done = TRUE], loaded, "finished")

Immich == app = "immich" /\ (writeConfig \/ awaitImmich \/ signUp)

Vikunja == app = "vikunja" /\ (writeConfig \/ WaitFor("wait", "finished"))

\* Plausible bug: new keys for every install.
newKeys ==
  PutFile("preup", [data EXCEPT !.key = n], [data EXCEPT !.key = Torn], "up")

\* The keys of an earlier install are kept.
writeFireflyKeys ==
  \/ data.key # 0 /\ Put("preup", data, "up")
  \/ /\ data.key = 0
     /\ PutFile("preup", [data EXCEPT !.key = n], [data EXCEPT !.key = Torn], "up")

Firefly == app = "firefly" /\ (writeFireflyKeys \/ WaitFor("wait", "finished"))

-----------------------------------------------------------------------------
(* qBittorrent: preferences that the app would write back.                 *)

inspectConf ==
  /\ data.prefs # "none"
  /\ Put("inspect", data, IF data.prefs = "nass" THEN "finished" ELSE "kill")

\* Plausible bug: the app is left running.
killForgotten ==
  /\ pc = "kill"
  /\ pc' = "write"
  /\ UNCHANGED <<app, n, up, data, loaded, atStart>>

killApp ==
  /\ pc = "kill"
  /\ Kill
  /\ pc' = "write"
  /\ UNCHANGED <<app, n, atStart>>

writeConf ==
  PutFile("write", [data EXCEPT !.prefs = "nass"], [data EXCEPT !.prefs = "none"], "upagain")

UpAgain ==
  /\ pc = "upagain"
  /\ ComposeUp
  /\ pc' = "rewait"
  /\ UNCHANGED <<app, n, atStart>>

Qbittorrent ==
  /\ app = "qbittorrent"
  /\ \/ WaitFor("wait", "inspect") \/ inspectConf \/ killApp
     \/ writeConf \/ UpAgain \/ WaitFor("rewait", "finished")

-----------------------------------------------------------------------------
Next ==
  \/ Boot \/ Restarted \/ Install \/ Up \/ Leave \/ Uninstall
  \/ Jellyfin \/ Gitea \/ Calibreweb \/ Blinko \/ Nextcloud
  \/ Immich \/ Vikunja \/ Firefly \/ Qbittorrent

Spec == Init /\ [][Next]_vars

-----------------------------------------------------------------------------
(* Properties.                                                             *)

\* The folder belongs to an app that has been set up, or whose data has keys.
SetUp(d) == d.done \/ (app = "gitea" /\ d.admin # 0)

\* A successful install leaves an app that runs with the OIDC client of this
\* install, also over kept data and after steps that were cut off or restarts in
\* between.  Gitea keeps the client it has (gitea.go:77-95), so there only an
\* install over data without one does.  Jellyfin is set up, knows its proxy and has
\* the plugin, unless an earlier install left the plugin half-unpacked
\* (jellyfin.go:80-119); Nextcloud may call the issuer (nextcloud.go:55-60).
SettingsCurrent ==
  pc = "finished" /\ app \notin {"qbittorrent", "firefly"}
    /\ (app = "gitea" => atStart.client = 0) =>
      /\ loaded.client = n
      /\ app = "jellyfin" =>
           /\ loaded.network = n /\ data.done
           /\ atStart.plugin # "part" => loaded.plugin = "whole"
      /\ app = "nextcloud" => loaded.trusted

\* What docs/usage.md:203-204 says: data is kept, the OIDC client is rebuilt.
ClientRebuilt ==
  pc = "finished" /\ app \notin {"qbittorrent", "firefly"} => loaded.client = n

\* The password an install reports is the admin's, unless the app had been set
\* up before: also when an earlier wizard was cut off half-way
\* (jellyfin.go:90-94, gitea.go:60-75, immich.go:77-95).
PasswordReported ==
  pc = "finished" /\ app \in {"jellyfin", "gitea", "immich"} /\ ~SetUp(atStart) =>
    data.admin = n

\* nass's preferences survive every later stop of qBittorrent
\* (qbittorrent.go:80-90).
PrefsStay == pc = "finished" /\ app = "qbittorrent" => loaded.prefs = "nass"

\* An install over kept data replaces neither the admin account of an app that
\* has been set up nor the keys its data is encrypted with
\* (jellyfin.go:294-297, firefly.go:46-54).
KeptAccountsAndKeys ==
  [][/\ SetUp(data) /\ data'.admin # data.admin => data' = Wiped
     /\ data.key # 0 /\ data'.key # data.key => data' = Wiped]_vars
=============================================================================
