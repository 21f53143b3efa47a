--------------------------- MODULE FirstBootProofs ---------------------------
(***************************************************************************)
(* Proofs about FirstBoot, for any number of installs: what each hook has  *)
(* done by each of its steps, whatever earlier installs have left and      *)
(* whenever the app restarts.                                              *)
(***************************************************************************)
EXTENDS FirstBoot, TLAPS

-----------------------------------------------------------------------------
(* The invariant, one part for each kind of hook.                          *)

\* An app with a client is down from the start of an install to compose up.
DownInv ==
  /\ pc = "absent" => up = "down"
  /\ pc \in {"preup", "up"} /\ app \notin {"firefly", "qbittorrent"} => up = "down"

JellyfinInv ==
  /\ pc \in {"up", "wait"} => data.done = atStart.done
  /\ pc \in {"get", "user", "complete"} => ~data.done /\ ~atStart.done
  /\ pc = "complete" => data.admin = n
  /\ pc \in {"plugin", "unzip", "network", "sso", "restart", "rewait", "finished"} =>
       data.done /\ (~atStart.done => data.admin = n)
  /\ pc \in {"up", "wait", "get", "user", "complete", "plugin"} =>
       data.plugin = atStart.plugin
  /\ pc \in {"network", "sso", "restart", "rewait", "finished"} =>
       (atStart.plugin # "part" => data.plugin = "whole")
  /\ pc \in {"sso", "restart", "rewait", "finished"} => data.network = n
  /\ pc \in {"restart", "rewait", "finished"} => data.client = n
  /\ pc \in {"rewait", "finished"} =>
       loaded.client = n /\ loaded.network = n /\ loaded.plugin = data.plugin

GiteaInv ==
  /\ ~data.done /\ ~atStart.done
  /\ pc \in {"up", "wait", "adduser"} => data.admin = atStart.admin
  /\ pc \in {"addoauth", "finished"} => (atStart.admin = 0 => data.admin = n)
  /\ pc \in {"up", "wait", "adduser", "addoauth"} => data.client = atStart.client
  /\ pc = "finished" => (atStart.client = 0 => data.client = n /\ loaded.client = n)

\* Calibre-Web and Blinko.
SeedInv ==
  /\ pc \in {"restart", "rewait", "finished"} => data.client = n
  /\ pc \in {"rewait", "finished"} => loaded.client = n

NextcloudInv ==
  /\ pc \in {"wait", "trust"} => (data.trusted => loaded.trusted)
  /\ pc \in {"reboot", "rewait", "provider", "finished"} => data.trusted
  /\ pc \in {"rewait", "provider", "finished"} => loaded.trusted
  /\ pc = "finished" => data.client = n /\ loaded.client = n

\* Immich and Vikunja.
ConfigInv ==
  /\ pc \in {"up", "wait", "signup", "finished"} => data.client = n
  /\ pc \in {"wait", "signup", "finished"} => loaded.client = n

ImmichInv ==
  /\ ConfigInv
  /\ pc \in {"preup", "up", "wait"} => data.done = atStart.done
  /\ pc = "signup" => ~data.done
  /\ pc = "finished" => (~atStart.done => data.admin = n)

\* While qBittorrent runs, the preferences it holds are those of its file, and
\* the file is not written while it runs.
QbittorrentInv ==
  /\ up # "down" =>
       loaded.prefs # "none" /\ (data.prefs # "none" => loaded.prefs = data.prefs)
  /\ pc \in {"wait", "inspect", "kill", "rewait", "finished"} => up # "down"
  /\ pc \in {"write", "upagain"} => up = "down"
  /\ pc \in {"upagain", "rewait", "finished"} => data.prefs = "nass"

BootInv ==
  /\ TypeOK /\ DownInv
  /\ app = "jellyfin" => JellyfinInv
  /\ app = "gitea" => GiteaInv
  /\ app \in {"calibreweb", "blinko"} => SeedInv
  /\ app = "nextcloud" => NextcloudInv
  /\ app = "immich" => ImmichInv
  /\ app = "vikunja" => ConfigInv
  /\ app = "qbittorrent" => QbittorrentInv

-----------------------------------------------------------------------------
(* Types.                                                                  *)

\* Only the preferences differ between a folder and what an app reads of it.
LEMMA ReadFacts ==
  ASSUME NEW d \in Folders
  PROVE  /\ Read(d) \in Folders /\ Read(d).prefs # "none"
         /\ d.prefs # "none" => Read(d).prefs = d.prefs
         /\ Read(d).client = d.client /\ Read(d).network = d.network
         /\ Read(d).plugin = d.plugin /\ Read(d).trusted = d.trusted
BY DEF Read, Folders

LEMMA TypeFacts ==
  ASSUME TypeOK
  PROVE  /\ data \in Folders /\ loaded \in Folders /\ atStart \in Folders
         /\ n \in 0..MaxInstalls /\ n \in -1..MaxInstalls /\ 0 \in 0..MaxInstalls
         /\ Torn \in -1..MaxInstalls /\ MaxInstalls \in Nat
BY BootAssumption DEF TypeOK, Torn

\* What is left of a folder when the app stops.
LEMMA LeftFacts ==
  ASSUME TypeOK
  PROVE  /\ Flushed \in Folders
         /\ app # "qbittorrent" => Flushed = data
         /\ Flushed.admin = data.admin /\ Flushed.key = data.key
         /\ Flushed.done = data.done
         /\ Wiped \in Folders /\ ~Wiped.done
<1>1. Flushed \in Folders /\ (app # "qbittorrent" => Flushed = data)
      /\ Flushed.admin = data.admin /\ Flushed.key = data.key /\ Flushed.done = data.done
  BY TypeFacts DEF Flushed, Folders
<1>2. Empty \in Folders
  BY TypeFacts DEF Empty, Folders
<1>3. Wiped \in Folders /\ ~Wiped.done
  <2>1. data.client \in -1..MaxInstalls /\ 0 \in -1..MaxInstalls
    BY TypeFacts DEF Folders
  <2> QED
    BY <1>2, <2>1 DEF Wiped, Empty, Folders
<1> QED
  BY <1>1, <1>3

LEMMA StartFacts ==
  ASSUME TypeOK
  PROVE  /\ Restart => Start(Flushed)
         /\ \A d \in Folders : Start(d) => data' \in Folders /\ loaded' \in Folders
         /\ ComposeUp => data' \in Folders /\ loaded' \in Folders
                         /\ up' \in {"starting", up} /\ up' # "down"
<1>1. \A d \in Folders : Start(d) => data' \in Folders /\ loaded' \in Folders
  BY ReadFacts DEF Start
<1>2. Restart => Start(Flushed)
  BY DEF Restart
<1>3. data \in Folders /\ loaded \in Folders /\ Flushed \in Folders
  BY TypeFacts, LeftFacts
<1>4. ASSUME ComposeUp
      PROVE  data' \in Folders /\ loaded' \in Folders /\ up' \in {"starting", up} /\ up' # "down"
  <2>1. CASE Start(data)
    BY <1>1, <1>3, <2>1 DEF Start
  <2>2. CASE Start(Flushed)
    BY <1>1, <1>3, <2>2 DEF Start
  <2>3. CASE up # "down" /\ UNCHANGED <<up, data, loaded>>
    BY <1>3, <2>3
  <2> QED
    BY <1>2, <1>4, <2>1, <2>2, <2>3 DEF ComposeUp
<1> QED
  BY <1>1, <1>2, <1>4

\* What any step of a hook can do.
HookTypes ==
  /\ app' = app /\ n' = n /\ atStart' = atStart /\ pc' \in Steps
  /\ up' \in {"down", "starting", up}
  /\ data' \in Folders /\ loaded' \in Folders

LEMMA PutTypes ==
  ASSUME TypeOK, NEW d \in Folders, NEW next \in Steps, NEW step
  PROVE  /\ Put(step, d, next) => HookTypes
         /\ \A e \in Folders : PutFile(step, d, e, next) => HookTypes
         /\ \A l \in Folders : Tell(step, d, l, next) => HookTypes
         /\ WaitFor(step, next) => HookTypes
         /\ RestartApp(step) => HookTypes
<1>1. Put(step, d, next) => HookTypes
  BY TypeFacts DEF Put, HookTypes
<1>2. \A e \in Folders : PutFile(step, d, e, next) => HookTypes
  BY TypeFacts DEF PutFile, Put, HookTypes, Steps
<1>3. \A l \in Folders : Tell(step, d, l, next) => HookTypes
  BY TypeFacts DEF Tell, HookTypes, Steps
<1>4. WaitFor(step, next) => HookTypes
  BY TypeFacts DEF WaitFor, HookTypes
<1>5. ASSUME RestartApp(step) PROVE HookTypes
  <2>1. Start(Flushed)
    BY <1>5, StartFacts DEF RestartApp
  <2>2. data' \in Folders /\ loaded' \in Folders
    BY <2>1, StartFacts, LeftFacts
  <2> QED
    BY <1>5, <2>1, <2>2 DEF RestartApp, Start, HookTypes, Steps
<1> QED
  BY <1>1, <1>2, <1>3, <1>4, <1>5

\* The folders a hook leaves.
LEMMA HookFolders ==
  ASSUME TypeOK, NEW d \in Folders
  PROVE  /\ [d EXCEPT !.admin = n] \in Folders
         /\ [d EXCEPT !.admin = n, !.done = TRUE] \in Folders
         /\ [d EXCEPT !.done = TRUE] \in Folders
         /\ [d EXCEPT !.trusted = TRUE] \in Folders
         /\ \A p \in {"none", "part", "whole"} : [d EXCEPT !.plugin = p] \in Folders
         /\ \A p \in {"none", "own", "nass"} : [d EXCEPT !.prefs = p] \in Folders
         /\ \A v \in -1..MaxInstalls :
              /\ [d EXCEPT !.client = v] \in Folders
              /\ [d EXCEPT !.network = v] \in Folders
              /\ [d EXCEPT !.key = v] \in Folders
BY TypeFacts DEF Folders

LEMMA HookKeepsTypes ==
  ASSUME TypeOK, \/ Jellyfin \/ Gitea \/ Calibreweb \/ Blinko \/ Nextcloud
                 \/ Immich \/ Vikunja \/ Firefly \/ Qbittorrent
  PROVE  HookTypes
<1>1. data \in Folders /\ loaded \in Folders
  BY TypeFacts
<1> USE DEF Steps
<1>2. CASE Jellyfin
  <2>1. \/ AwaitJellyfin \/ GetUser \/ PostUser \/ PostComplete \/ SkipPlugin
        \/ installSSOPlugin \/ RestartApp("restart") \/ waitForJellyfin("rewait", "finished")
        => HookTypes
    BY <1>1, PutTypes, HookFolders DEF AwaitJellyfin, waitForJellyfin, GetUser, PostUser,
      PostComplete, SkipPlugin, installSSOPlugin
  <2>2. writeNetwork \/ writeSSO => HookTypes
    BY <1>1, PutTypes, HookFolders, TypeFacts DEF writeNetwork, writeSSO
  <2> QED
    BY <1>2, <2>1, <2>2 DEF Jellyfin
<1>3. CASE Gitea
  BY <1>1, <1>3, PutTypes, HookFolders, TypeFacts DEF Gitea, createAdminUser, addOIDCProvider
<1>4. CASE Calibreweb \/ Blinko
  BY <1>1, <1>4, PutTypes, HookFolders, TypeFacts DEF Calibreweb, Blinko, seedOIDCConfig,
    seedOAuthProvider
<1>5. CASE Nextcloud
  BY <1>1, <1>5, PutTypes, HookFolders, TypeFacts DEF Nextcloud, ensureLocalRemoteServers,
    registerProvider
<1>6. CASE Immich \/ Vikunja
  BY <1>1, <1>6, PutTypes, HookFolders, TypeFacts DEF Immich, Vikunja, writeConfig,
    awaitImmich, signUp
<1>7. CASE Firefly
  BY <1>1, <1>7, PutTypes, HookFolders, TypeFacts DEF Firefly, writeFireflyKeys
<1>8. CASE Qbittorrent
  <2>1. killApp => HookTypes
    BY <1>1 DEF killApp, Kill, HookTypes
  <2>2. ASSUME UpAgain PROVE HookTypes
    BY <2>2, StartFacts DEF UpAgain, HookTypes
  <2>3. \/ WaitFor("wait", "inspect") \/ inspectConf \/ writeConf
        \/ WaitFor("rewait", "finished")
        => HookTypes
    BY <1>1, PutTypes, HookFolders DEF inspectConf, writeConf
  <2> QED
    BY <1>8, <2>1, <2>2, <2>3 DEF Qbittorrent
<1> QED
  BY <1>2, <1>3, <1>4, <1>5, <1>6, <1>7, <1>8

LEMMA TypeKeeps ==
  ASSUME TypeOK, [Next]_vars
  PROVE  TypeOK'
<1>1. /\ data \in Folders /\ loaded \in Folders /\ atStart \in Folders
      /\ Flushed \in Folders /\ Wiped \in Folders
  BY TypeFacts, LeftFacts
<1>2. CASE UNCHANGED vars
  BY <1>2 DEF vars, TypeOK
<1>3. CASE Boot
  <2>1. data' \in Folders
    BY <1>1, <1>3 DEF Boot, Folders
  <2> QED
    BY <1>1, <1>3, <2>1 DEF Boot, TypeOK
<1>4. CASE Restarted
  BY <1>1, <1>4, StartFacts DEF Restarted, Start, TypeOK
<1>5. CASE Install
  BY <1>1, <1>5, TypeFacts DEF Install, TypeOK, Steps
<1>6. CASE Up
  BY <1>1, <1>6, StartFacts DEF Up, TypeOK, Steps
<1>7. CASE Leave
  BY <1>7 DEF Leave, TypeOK, Steps
<1>8. CASE Uninstall
  BY <1>1, <1>8 DEF Uninstall, TypeOK, Steps
<1>9. CASE \/ Jellyfin \/ Gitea \/ Calibreweb \/ Blinko \/ Nextcloud
           \/ Immich \/ Vikunja \/ Firefly \/ Qbittorrent
  <2>1. HookTypes
    BY <1>9, HookKeepsTypes
  <2> QED
    BY <1>1, <2>1 DEF HookTypes, TypeOK
<1> QED
  BY <1>2, <1>3, <1>4, <1>5, <1>6, <1>7, <1>8, <1>9 DEF Next

-----------------------------------------------------------------------------
(* The steps that all apps have in common, seen from a hook.               *)

Stands == UNCHANGED <<app, n, pc, atStart, data, loaded>>
Rereads == UNCHANGED <<app, n, pc, atStart, data>> /\ loaded' = Read(data)
Begins == /\ app' = app /\ n' = n + 1 /\ pc' \in {"preup", "up"}
          /\ app \in {"immich", "vikunja"} => pc' = "preup"
          /\ atStart' = data /\ UNCHANGED <<data, loaded>>
Starts == /\ pc = "up" /\ pc' = "wait"
          /\ UNCHANGED <<app, n, atStart, data>> /\ loaded' = Read(data)
Ends == /\ app' = app /\ atStart' = atStart /\ pc' \in {"failed", "absent"}
        /\ data'.done => data.done

Hook == \/ Jellyfin \/ Gitea \/ Calibreweb \/ Blinko \/ Nextcloud
        \/ Immich \/ Vikunja \/ Firefly \/ Qbittorrent

LEMMA CommonSteps ==
  ASSUME TypeOK, DownInv, [Next]_vars, app \notin {"qbittorrent", "firefly"}
  PROVE  Stands \/ Rereads \/ Begins \/ Starts \/ Ends \/ Hook
<1>1. Flushed = data /\ (Wiped.done => data.done)
  BY LeftFacts
<1>2. CASE UNCHANGED vars
  BY <1>2 DEF vars, Stands
<1>3. CASE Boot
  BY <1>3 DEF Boot, Stands
<1>4. CASE Restarted
  BY <1>1, <1>4 DEF Restarted, Start, Rereads
<1>5. CASE Install
  BY <1>5 DEF Install, Begins
<1>6. CASE Up
  BY <1>6 DEF Up, ComposeUp, Start, Starts, DownInv
<1>7. CASE Leave
  BY <1>7 DEF Leave, Ends
<1>8. CASE Uninstall
  BY <1>1, <1>8 DEF Uninstall, Ends
<1> QED
  BY <1>2, <1>3, <1>4, <1>5, <1>6, <1>7, <1>8 DEF Next, Hook

\* A hook restarts its app, and nothing is lost.
LEMMA RestartReads ==
  ASSUME TypeOK, app # "qbittorrent", NEW step, RestartApp(step)
  PROVE  /\ pc = step /\ pc' = "rewait" /\ UNCHANGED <<app, n, atStart, data>>
         /\ loaded'.client = data.client /\ loaded'.network = data.network
         /\ loaded'.plugin = data.plugin /\ loaded'.trusted = data.trusted
<1>1. Flushed = data /\ data \in Folders
  BY LeftFacts, TypeFacts
<1> QED
  BY <1>1, ReadFacts DEF RestartApp, Restart, Start

LEMMA DownKeeps ==
  ASSUME TypeOK, DownInv, [Next]_vars
  PROVE  DownInv'
<1>1. CASE UNCHANGED vars
  BY <1>1 DEF vars, DownInv
<1>2. CASE Boot \/ Restarted \/ Install \/ Up \/ Leave \/ Uninstall
  BY <1>2 DEF DownInv, Boot, Restarted, Install, Up, Leave, Uninstall
<1>3. CASE Immich \/ Vikunja
  BY <1>3 DEF DownInv, Immich, Vikunja, writeConfig, PutFile, Put, awaitImmich, WaitFor,
    signUp, Tell
<1>4. CASE Firefly
  BY <1>4 DEF DownInv, Firefly, writeFireflyKeys, PutFile, Put, WaitFor
<1>5. CASE Jellyfin
  BY <1>5 DEF DownInv, Jellyfin, AwaitJellyfin, waitForJellyfin, WaitFor, GetUser, Put,
    PutFile, PostUser, PostComplete, Tell, SkipPlugin, installSSOPlugin, writeNetwork,
    writeSSO, RestartApp
<1>6. CASE Gitea \/ Nextcloud
  BY <1>6 DEF DownInv, Gitea, Nextcloud, createAdminUser, addOIDCProvider, Tell, WaitFor,
    ensureLocalRemoteServers, Put, RestartApp, registerProvider
<1>7. CASE Calibreweb \/ Blinko
  BY <1>7 DEF DownInv, Calibreweb, Blinko, WaitFor, seedOIDCConfig, seedOAuthProvider, Put,
    RestartApp
<1>8. CASE Qbittorrent
  BY <1>8 DEF DownInv, Qbittorrent, WaitFor, inspectConf, killApp, writeConf, PutFile, Put,
    UpAgain
<1> QED
  BY <1>1, <1>2, <1>3, <1>4, <1>5, <1>6, <1>7, <1>8 DEF Next

-----------------------------------------------------------------------------
(* Each hook keeps its part of the invariant.                              *)

LEMMA JellyfinKeeps ==
  ASSUME TypeOK, DownInv, app = "jellyfin", JellyfinInv, [Next]_vars
  PROVE  JellyfinInv'
<1>0. data \in Folders /\ loaded \in Folders /\ n \in 0..MaxInstalls
  BY TypeFacts
<1> USE DEF JellyfinInv
<1>1. CASE Stands
  BY <1>1 DEF Stands
<1>2. CASE Rereads
  BY <1>0, <1>2, ReadFacts DEF Rereads
<1>3. CASE Begins \/ Ends
  BY <1>3 DEF Begins, Ends
<1>4. CASE Starts
  BY <1>0, <1>4 DEF Starts
<1>5. CASE Jellyfin
  <2>1. CASE AwaitJellyfin \/ waitForJellyfin("rewait", "finished")
    BY <2>1 DEF AwaitJellyfin, waitForJellyfin, WaitFor
  <2>2. CASE GetUser
    BY <2>2 DEF GetUser, Put
  <2>3. CASE PostUser
    BY <1>0, <2>3 DEF PostUser, Tell, Folders
  <2>4. CASE PostComplete
    BY <1>0, <2>4 DEF PostComplete, Tell, Folders
  <2>5. CASE SkipPlugin
    BY <1>0, <2>5 DEF SkipPlugin, Put, Folders
  <2>6. CASE installSSOPlugin
    BY <1>0, <2>6 DEF installSSOPlugin, Put, Folders
  <2>7. CASE writeNetwork
    BY <1>0, <2>7 DEF writeNetwork, PutFile, Put, Folders
  <2>8. CASE writeSSO
    BY <1>0, <2>8 DEF writeSSO, PutFile, Put, Folders
  <2>9. CASE RestartApp("restart")
    BY <2>9, RestartReads
  <2> QED
    BY <1>5, <2>1, <2>2, <2>3, <2>4, <2>5, <2>6, <2>7, <2>8, <2>9 DEF Jellyfin
<1>6. ~(Gitea \/ Calibreweb \/ Blinko \/ Nextcloud \/ Immich \/ Vikunja \/ Firefly \/ Qbittorrent)
  BY DEF Gitea, Calibreweb, Blinko, Nextcloud, Immich, Vikunja, Firefly, Qbittorrent
<1> QED
  BY <1>1, <1>2, <1>3, <1>4, <1>5, <1>6, CommonSteps DEF Hook

LEMMA GiteaKeeps ==
  ASSUME TypeOK, DownInv, app = "gitea", GiteaInv, [Next]_vars
  PROVE  GiteaInv'
<1>0. data \in Folders /\ loaded \in Folders
  BY TypeFacts
<1>f. data'.done => data.done
  <2>1. CASE Gitea
    BY <1>0, <2>1 DEF Gitea, WaitFor, createAdminUser, addOIDCProvider, Tell, Folders
  <2>2. CASE Stands \/ Rereads \/ Begins \/ Starts \/ Ends
    BY <2>2 DEF Stands, Rereads, Begins, Starts, Ends
  <2> QED
    BY <2>1, <2>2, CommonSteps DEF Hook, Jellyfin, Calibreweb, Blinko, Nextcloud, Immich,
      Vikunja, Firefly, Qbittorrent
<1> USE DEF GiteaInv
<1>1. CASE Stands
  BY <1>1 DEF Stands
<1>2. CASE Rereads
  BY <1>0, <1>2, ReadFacts DEF Rereads
<1>3. CASE Begins \/ Ends
  BY <1>3, <1>f DEF Begins, Ends
<1>4. CASE Starts
  BY <1>4 DEF Starts
<1>5. CASE Gitea
  <2>1. CASE WaitFor("wait", "adduser")
    BY <2>1 DEF WaitFor
  <2>2. CASE createAdminUser
    BY <1>0, <1>f, <2>2 DEF createAdminUser, Tell, Folders
  <2>3. CASE addOIDCProvider
    BY <1>0, <1>f, <2>3 DEF addOIDCProvider, Tell, Folders
  <2> QED
    BY <1>5, <2>1, <2>2, <2>3 DEF Gitea
<1>6. ~(Jellyfin \/ Calibreweb \/ Blinko \/ Nextcloud \/ Immich \/ Vikunja \/ Firefly \/ Qbittorrent)
  BY DEF Jellyfin, Calibreweb, Blinko, Nextcloud, Immich, Vikunja, Firefly, Qbittorrent
<1> QED
  BY <1>1, <1>2, <1>3, <1>4, <1>5, <1>6, CommonSteps DEF Hook

LEMMA SeedKeeps ==
  ASSUME TypeOK, DownInv, app \in {"calibreweb", "blinko"}, SeedInv, [Next]_vars
  PROVE  SeedInv'
<1>0. data \in Folders
  BY TypeFacts
<1> USE DEF SeedInv
<1>1. CASE Stands
  BY <1>1 DEF Stands
<1>2. CASE Rereads
  BY <1>0, <1>2, ReadFacts DEF Rereads
<1>3. CASE Begins \/ Ends \/ Starts
  BY <1>3 DEF Begins, Ends, Starts
<1>4. CASE Calibreweb \/ Blinko
  <2>1. CASE seedOIDCConfig \/ seedOAuthProvider
    BY <1>0, <2>1 DEF seedOIDCConfig, seedOAuthProvider, Put, Folders
  <2>2. CASE WaitFor("wait", "seed") \/ WaitFor("rewait", "finished")
    BY <2>2 DEF WaitFor
  <2>3. CASE RestartApp("restart")
    BY <2>3, RestartReads
  <2> QED
    BY <1>4, <2>1, <2>2, <2>3 DEF Calibreweb, Blinko
<1>5. ~(Jellyfin \/ Gitea \/ Nextcloud \/ Immich \/ Vikunja \/ Firefly \/ Qbittorrent)
  BY DEF Jellyfin, Gitea, Nextcloud, Immich, Vikunja, Firefly, Qbittorrent
<1> QED
  BY <1>1, <1>2, <1>3, <1>4, <1>5, CommonSteps DEF Hook

LEMMA NextcloudKeeps ==
  ASSUME TypeOK, DownInv, app = "nextcloud", NextcloudInv, [Next]_vars
  PROVE  NextcloudInv'
<1>0. data \in Folders /\ loaded \in Folders
  BY TypeFacts
<1> USE DEF NextcloudInv
<1>1. CASE Stands
  BY <1>1 DEF Stands
<1>2. CASE Rereads
  BY <1>0, <1>2, ReadFacts DEF Rereads
<1>3. CASE Begins \/ Ends
  BY <1>3 DEF Begins, Ends
<1>4. CASE Starts
  BY <1>0, <1>4, ReadFacts DEF Starts
<1>5. CASE Nextcloud
  <2>1. CASE WaitFor("wait", "trust") \/ WaitFor("rewait", "provider")
    BY <2>1 DEF WaitFor
  <2>2. CASE ensureLocalRemoteServers
    BY <1>0, <2>2 DEF ensureLocalRemoteServers, Put, Folders
  <2>3. CASE RestartApp("reboot")
    BY <2>3, RestartReads
  <2>4. CASE registerProvider
    BY <1>0, <2>4 DEF registerProvider, Tell, Folders
  <2> QED
    BY <1>5, <2>1, <2>2, <2>3, <2>4 DEF Nextcloud
<1>6. ~(Jellyfin \/ Gitea \/ Calibreweb \/ Blinko \/ Immich \/ Vikunja \/ Firefly \/ Qbittorrent)
  BY DEF Jellyfin, Gitea, Calibreweb, Blinko, Immich, Vikunja, Firefly, Qbittorrent
<1> QED
  BY <1>1, <1>2, <1>3, <1>4, <1>5, <1>6, CommonSteps DEF Hook

LEMMA ConfigKeeps ==
  ASSUME TypeOK, DownInv, app \in {"immich", "vikunja"}, ConfigInv, [Next]_vars
  PROVE  ConfigInv'
<1>0. data \in Folders
  BY TypeFacts
<1> USE DEF ConfigInv
<1>1. CASE Stands
  BY <1>1 DEF Stands
<1>2. CASE Rereads
  BY <1>0, <1>2, ReadFacts DEF Rereads
<1>3. CASE Begins \/ Ends
  BY <1>3 DEF Begins, Ends
<1>4. CASE Starts
  BY <1>0, <1>4, ReadFacts DEF Starts
<1>5. CASE Immich \/ Vikunja
  <2>1. CASE writeConfig
    BY <1>0, <2>1 DEF writeConfig, PutFile, Put, Folders
  <2>2. CASE awaitImmich \/ WaitFor("wait", "finished")
    BY <2>2 DEF awaitImmich, WaitFor
  <2>3. CASE signUp
    BY <1>0, <2>3 DEF signUp, Tell, Folders
  <2> QED
    BY <1>5, <2>1, <2>2, <2>3 DEF Immich, Vikunja
<1>6. ~(Jellyfin \/ Gitea \/ Calibreweb \/ Blinko \/ Nextcloud \/ Firefly \/ Qbittorrent)
  BY DEF Jellyfin, Gitea, Calibreweb, Blinko, Nextcloud, Firefly, Qbittorrent
<1> QED
  BY <1>1, <1>2, <1>3, <1>4, <1>5, <1>6, CommonSteps DEF Hook

LEMMA ImmichKeeps ==
  ASSUME TypeOK, DownInv, app = "immich", ImmichInv, [Next]_vars
  PROVE  ImmichInv'
<1>0. data \in Folders
  BY TypeFacts
<1>c. ConfigInv'
  BY ConfigKeeps DEF ImmichInv
<1> USE DEF ImmichInv
<1>1. CASE Stands
  BY <1>c, <1>1 DEF Stands
<1>2. CASE Rereads
  BY <1>c, <1>2 DEF Rereads
<1>3. CASE Begins \/ Ends
  BY <1>c, <1>3 DEF Begins, Ends
<1>4. CASE Starts
  BY <1>c, <1>4 DEF Starts
<1>5. CASE Immich
  <2>1. CASE writeConfig
    BY <1>0, <1>c, <2>1 DEF writeConfig, PutFile, Put, Folders
  <2>2. CASE awaitImmich
    BY <1>c, <2>2 DEF awaitImmich, WaitFor
  <2>3. CASE signUp
    BY <1>0, <1>c, <2>3 DEF signUp, Tell, Folders
  <2> QED
    BY <1>5, <2>1, <2>2, <2>3 DEF Immich
<1>6. ~(Jellyfin \/ Gitea \/ Calibreweb \/ Blinko \/ Nextcloud \/ Vikunja \/ Firefly \/ Qbittorrent)
  BY DEF Jellyfin, Gitea, Calibreweb, Blinko, Nextcloud, Vikunja, Firefly, Qbittorrent
<1> QED
  BY <1>1, <1>2, <1>3, <1>4, <1>5, <1>6, CommonSteps DEF Hook

LEMMA QbittorrentKeeps ==
  ASSUME TypeOK, DownInv, app = "qbittorrent", QbittorrentInv, [Next]_vars
  PROVE  QbittorrentInv'
<1>0. data \in Folders /\ loaded \in Folders
  BY TypeFacts
<1>s. /\ Flushed \in Folders /\ (data.prefs = "nass" => Flushed.prefs = "nass")
      /\ ComposeUp =>
           /\ up' # "down" /\ loaded'.prefs # "none"
           /\ data'.prefs # "none" => loaded'.prefs = data'.prefs
           /\ data.prefs = "nass" => data'.prefs = "nass"
  <2>1. Flushed \in Folders /\ (data.prefs = "nass" => Flushed.prefs = "nass")
    BY <1>0, LeftFacts DEF Flushed, Folders, QbittorrentInv
  <2>2. ASSUME ComposeUp
        PROVE  /\ up' # "down" /\ loaded'.prefs # "none"
               /\ data'.prefs # "none" => loaded'.prefs = data'.prefs
               /\ data.prefs = "nass" => data'.prefs = "nass"
    <3>1. CASE Start(data) \/ Start(Flushed)
      BY <1>0, <2>1, <3>1, ReadFacts DEF Start
    <3>2. CASE up # "down" /\ UNCHANGED <<up, data, loaded>>
      BY <3>2 DEF QbittorrentInv
    <3> QED
      BY <2>2, <3>1, <3>2 DEF ComposeUp, Restart
  <2> QED
    BY <2>1, <2>2
<1> USE DEF QbittorrentInv
<1>1. CASE UNCHANGED vars
  BY <1>1 DEF vars
<1>2. CASE Boot
  BY <1>0, <1>2 DEF Boot, Folders
<1>3. CASE Restarted
  BY <1>0, <1>s, <1>3, ReadFacts DEF Restarted, Start
<1>4. CASE Install \/ Leave \/ Uninstall
  BY <1>4 DEF Install, Leave, Uninstall
<1>5. CASE Up
  BY <1>s, <1>5 DEF Up
<1>6. CASE Qbittorrent
  <2>1. CASE WaitFor("wait", "inspect") \/ WaitFor("rewait", "finished")
    BY <2>1 DEF WaitFor
  <2>2. CASE inspectConf
    BY <2>2 DEF inspectConf, Put
  <2>3. CASE killApp
    BY <2>3 DEF killApp, Kill
  <2>4. CASE writeConf
    BY <1>0, <2>4 DEF writeConf, PutFile, Put, Folders
  <2>5. CASE UpAgain
    BY <1>s, <2>5 DEF UpAgain
  <2> QED
    BY <1>6, <2>1, <2>2, <2>3, <2>4, <2>5 DEF Qbittorrent
<1>7. ~(Jellyfin \/ Gitea \/ Calibreweb \/ Blinko \/ Nextcloud \/ Immich \/ Vikunja \/ Firefly)
  BY DEF Jellyfin, Gitea, Calibreweb, Blinko, Nextcloud, Immich, Vikunja, Firefly
<1> QED
  BY <1>1, <1>2, <1>3, <1>4, <1>5, <1>6, <1>7 DEF Next

-----------------------------------------------------------------------------
(* Theorems.                                                               *)

\* Every step of a hook, of docker and of the operator keeps the invariant.
THEOREM BootInvariance == Spec => []BootInv
<1>1. Init => BootInv
  <2> SUFFICES ASSUME Init PROVE BootInv
    OBVIOUS
  <2>1. Empty \in Folders
    BY BootAssumption DEF Empty, Folders
  <2>2. TypeOK
    BY <2>1, BootAssumption DEF Init, TypeOK, Steps
  <2>3. ~data.done /\ ~atStart.done
    BY DEF Init, Empty
  <2> QED
    BY <2>2, <2>3 DEF Init, BootInv, DownInv, JellyfinInv, GiteaInv, SeedInv, NextcloudInv,
      ConfigInv, ImmichInv, QbittorrentInv
<1>2. BootInv /\ [Next]_vars => BootInv'
  <2> SUFFICES ASSUME BootInv, [Next]_vars PROVE BootInv'
    OBVIOUS
  <2>1. app' = app
    <3>1. CASE Hook
      BY <3>1, HookKeepsTypes DEF Hook, HookTypes, BootInv
    <3>2. CASE UNCHANGED vars
      BY <3>2 DEF vars
    <3>3. CASE Boot \/ Restarted \/ Install \/ Up \/ Leave \/ Uninstall
      BY <3>3 DEF Boot, Restarted, Install, Up, Leave, Uninstall
    <3> QED
      BY <3>1, <3>2, <3>3 DEF Next, Hook
  <2> QED
    BY <2>1, TypeKeeps, DownKeeps, JellyfinKeeps, GiteaKeeps, SeedKeeps, NextcloudKeeps,
      ConfigKeeps, ImmichKeeps, QbittorrentKeeps DEF BootInv
<1> QED
  BY <1>1, <1>2, PTL DEF Spec

\* Folders, steps and containers keep their types.
THEOREM BootTypeCorrect == Spec => []TypeOK
<1>1. BootInv => TypeOK
  BY DEF BootInv
<1> QED
  BY <1>1, BootInvariance, PTL

\* A successful install leaves an app that goes by the client and the settings
\* of this install, whatever was left before and whenever the app restarted
\* (jellyfin.go:80-119, nextcloud.go:55-60, gitea.go:77-95).
THEOREM HooksLeaveSettings == Spec => []SettingsCurrent
<1>1. BootInv => SettingsCurrent
  <2> SUFFICES ASSUME BootInv, pc = "finished", app \notin {"qbittorrent", "firefly"},
                      app = "gitea" => atStart.client = 0
               PROVE  /\ loaded.client = n
                      /\ app = "jellyfin" =>
                           /\ loaded.network = n /\ data.done
                           /\ atStart.plugin # "part" => loaded.plugin = "whole"
                      /\ app = "nextcloud" => loaded.trusted
    BY DEF SettingsCurrent
  <2>1. app \in {"jellyfin", "gitea", "calibreweb", "blinko", "nextcloud", "immich", "vikunja"}
    BY BootAssumption DEF BootInv, TypeOK
  <2> QED
    BY <2>1 DEF BootInv, JellyfinInv, GiteaInv, SeedInv, NextcloudInv, ImmichInv, ConfigInv
<1> QED
  BY <1>1, BootInvariance, PTL

\* The password that is reported is the admin's, unless the app had been set up
\* before (jellyfin.go:90-94, gitea.go:60-75, immich.go:77-95).
THEOREM HooksReportPassword == Spec => []PasswordReported
<1>1. BootInv => PasswordReported
  BY DEF BootInv, PasswordReported, SetUp, JellyfinInv, GiteaInv, ImmichInv, TypeOK, Folders
<1> QED
  BY <1>1, BootInvariance, PTL

\* nass's preferences survive every later stop of qBittorrent
\* (qbittorrent.go:80-90).
THEOREM PreferencesStay == Spec => []PrefsStay
<1>1. BootInv => PrefsStay
  BY DEF BootInv, PrefsStay, QbittorrentInv
<1> QED
  BY <1>1, BootInvariance, PTL

\* No step but an uninstall replaces the admin of an app that has been set up,
\* or the keys its data is encrypted with (jellyfin.go:294-297, firefly.go:46-54).
THEOREM AccountsAndKeysStay == Spec => KeptAccountsAndKeys
<1> DEFINE Stay ==
      /\ SetUp(data) /\ data'.admin # data.admin => data' = Wiped
      /\ data.key # 0 /\ data'.key # data.key => data' = Wiped
<1>1. ASSUME BootInv, [Next]_vars PROVE Stay
  <2>0. TypeOK /\ data \in Folders /\ Flushed.admin = data.admin /\ Flushed.key = data.key
    BY <1>1, TypeFacts, LeftFacts DEF BootInv
  <2>1. CASE UNCHANGED vars \/ Install \/ Leave
    BY <2>1 DEF vars, Install, Leave
  <2>2. CASE Boot
    BY <2>0, <2>2 DEF Boot, Folders
  <2>3. CASE Restarted
    BY <2>0, <2>3 DEF Restarted, Start
  <2>4. CASE Up
    BY <2>0, <2>4 DEF Up, ComposeUp, Restart, Start
  <2>5. CASE Uninstall
    BY <2>0, <2>5 DEF Uninstall
  <2>6. ASSUME NEW step, RestartApp(step) PROVE Stay
    BY <2>0, <2>6 DEF RestartApp, Restart, Start
  <2>7. CASE Jellyfin
    <3>0. app = "jellyfin" /\ JellyfinInv
      BY <1>1, <2>7 DEF Jellyfin, BootInv
    <3>1. CASE AwaitJellyfin \/ GetUser \/ SkipPlugin \/ waitForJellyfin("rewait", "finished")
      BY <3>1 DEF AwaitJellyfin, waitForJellyfin, WaitFor, GetUser, Put, SkipPlugin
    <3>2. CASE PostUser
      <4>1. pc = "user" /\ data' = [data EXCEPT !.admin = n]
        BY <3>2 DEF PostUser, Tell
      <4>2. ~SetUp(data)
        BY <3>0, <4>1 DEF JellyfinInv, SetUp
      <4> QED
        BY <2>0, <4>1, <4>2 DEF Folders
    <3>3. CASE PostComplete
      BY <2>0, <3>3 DEF PostComplete, Tell, Folders
    <3>4. CASE installSSOPlugin
      BY <2>0, <3>4 DEF installSSOPlugin, Put, Folders
    <3>5. CASE writeNetwork
      BY <2>0, <3>5 DEF writeNetwork, PutFile, Put, Folders
    <3>6. CASE writeSSO
      BY <2>0, <3>6 DEF writeSSO, PutFile, Put, Folders
    <3> QED
      BY <2>6, <2>7, <3>1, <3>2, <3>3, <3>4, <3>5, <3>6 DEF Jellyfin
  <2>8. CASE Gitea
    BY <1>1, <2>0, <2>8 DEF Gitea, WaitFor, createAdminUser, addOIDCProvider, Tell, Folders,
      SetUp, BootInv, GiteaInv
  <2>9. CASE Calibreweb \/ Blinko
    BY <2>0, <2>6, <2>9 DEF Calibreweb, Blinko, WaitFor, seedOIDCConfig, seedOAuthProvider,
      Put, Folders
  <2>10. CASE Nextcloud
    BY <2>0, <2>6, <2>10 DEF Nextcloud, WaitFor, ensureLocalRemoteServers, registerProvider,
      Put, Tell, Folders
  <2>11. CASE Immich \/ Vikunja
    <3>1. CASE writeConfig
      BY <2>0, <3>1 DEF writeConfig, PutFile, Put, Folders
    <3>2. CASE awaitImmich \/ WaitFor("wait", "finished")
      BY <3>2 DEF awaitImmich, WaitFor
    <3>3. CASE Immich /\ signUp
      <4>1. app = "immich" /\ pc = "signup" /\ data' = [data EXCEPT !.admin = n, !.done = TRUE]
        BY <3>3 DEF Immich, signUp, Tell
      <4>2. ~SetUp(data)
        BY <1>1, <4>1 DEF BootInv, ImmichInv, SetUp
      <4> QED
        BY <2>0, <4>1, <4>2 DEF Folders
    <3> QED
      BY <2>11, <3>1, <3>2, <3>3 DEF Immich, Vikunja
  <2>12. CASE Firefly
    BY <2>0, <2>12 DEF Firefly, writeFireflyKeys, PutFile, Put, WaitFor, Folders
  <2>13. CASE Qbittorrent
    BY <2>0, <2>13 DEF Qbittorrent, WaitFor, inspectConf, Put, killApp, Kill, writeConf,
      PutFile, UpAgain, ComposeUp, Restart, Start, Folders
  <2> QED
    BY <1>1, <2>1, <2>2, <2>3, <2>4, <2>5, <2>7, <2>8, <2>9, <2>10, <2>11, <2>12, <2>13
    DEF Next
<1>2. BootInv /\ [Next]_vars => [Stay]_vars
  BY <1>1
<1> QED
  BY <1>2, BootInvariance, PTL DEF Spec, KeptAccountsAndKeys

-----------------------------------------------------------------------------
(* What docs/usage.md:203-204 says, and for which apps it is so.           *)

\* With any apps but Gitea, every install that succeeds, over kept data too,
\* leaves an app with the client of this install (jellyfin.go:80-119,
\* calibreweb.go, blinko.go, nextcloud.go, immich.go, vikunja.go).
THEOREM ClientRebuiltButGitea ==
  ASSUME "gitea" \notin Apps
  PROVE  Spec => []ClientRebuilt
<1>1. TypeOK /\ SettingsCurrent => ClientRebuilt
  BY DEF TypeOK, SettingsCurrent, ClientRebuilt
<1> QED
  BY <1>1, BootTypeCorrect, HooksLeaveSettings, PTL

\* Gitea takes a client once; it goes by the one in its database, and that is not
\* the client of an install that found one there.
OldClient ==
  /\ data.client \in 0..n
  /\ pc \in {"up", "wait", "adduser", "addoauth", "finished"} => atStart.client < n
  /\ pc \in {"wait", "adduser", "addoauth", "finished"} => loaded.client = data.client
  /\ pc = "finished" /\ atStart.client # 0 => data.client = atStart.client

\* Every step of docker, of the operator and of Gitea's hook keeps OldClient
\* (gitea.go:77-95).
LEMMA OldClientKept ==
  ASSUME TypeOK, DownInv, GiteaInv, app = "gitea", OldClient, [Next]_vars
  PROVE  OldClient'
<1>1. /\ data \in Folders /\ loaded \in Folders /\ atStart \in Folders
      /\ n \in Int /\ Flushed = data
  BY TypeFacts, LeftFacts, BootAssumption
<1>2. Read(data).client = data.client
  BY <1>1, ReadFacts
<1> USE DEF OldClient
<1>3. CASE UNCHANGED vars
  BY <1>3 DEF vars
<1>4. CASE Boot
  BY <1>4 DEF Boot
<1>5. CASE Restarted
  BY <1>1, <1>2, <1>5 DEF Restarted, Start
<1>6. CASE Install
  BY <1>1, <1>6 DEF Install, Folders
<1>7. CASE Up
  BY <1>2, <1>7 DEF Up, ComposeUp, Start, DownInv
<1>8. CASE Leave
  BY <1>8 DEF Leave
<1>9. CASE Uninstall
  <2>1. Wiped.client = 0
    BY DEF Wiped, Empty
  <2> QED
    BY <1>1, <1>9, <2>1 DEF Uninstall
<1>10. CASE Gitea
  <2>1. CASE WaitFor("wait", "adduser")
    BY <2>1 DEF WaitFor
  <2>2. CASE createAdminUser
    BY <1>1, <2>2 DEF createAdminUser, Tell, Folders
  <2>3. CASE addOIDCProvider
    <3>1. pc = "addoauth" /\ data.client = atStart.client
      BY <2>3 DEF addOIDCProvider, Tell, GiteaInv
    <3> QED
      BY <1>1, <2>3, <3>1 DEF addOIDCProvider, Tell, Folders
  <2> QED
    BY <1>10, <2>1, <2>2, <2>3 DEF Gitea
<1>11. ~(Jellyfin \/ Calibreweb \/ Blinko \/ Nextcloud \/ Immich \/ Vikunja \/ Firefly \/ Qbittorrent)
  BY DEF Jellyfin, Calibreweb, Blinko, Nextcloud, Immich, Vikunja, Firefly, Qbittorrent
<1> QED
  BY <1>3, <1>4, <1>5, <1>6, <1>7, <1>8, <1>9, <1>10, <1>11 DEF Next

\* An install of Gitea over data that has a client never leaves Gitea with the
\* client of this install: the exception to the line of docs/usage.md is every
\* such install, not an unlucky one (gitea.go:77-95).
THEOREM GiteaNeverRebuilds ==
  Spec => [](app = "gitea" /\ pc = "finished" /\ atStart.client # 0 => ~ClientRebuilt)
<1> DEFINE Stays == app = "gitea" => OldClient
<1>1. Init => Stays
  BY BootAssumption DEF Init, Empty, OldClient
<1>2. BootInv /\ Stays /\ [Next]_vars => Stays'
  <2> SUFFICES ASSUME BootInv, Stays, [Next]_vars, app' = "gitea" PROVE OldClient'
    OBVIOUS
  <2>1. app' = app
    <3>1. CASE Hook
      BY <3>1, HookKeepsTypes DEF Hook, HookTypes, BootInv
    <3>2. CASE UNCHANGED vars
      BY <3>2 DEF vars
    <3>3. CASE Boot \/ Restarted \/ Install \/ Up \/ Leave \/ Uninstall
      BY <3>3 DEF Boot, Restarted, Install, Up, Leave, Uninstall
    <3> QED
      BY <3>1, <3>2, <3>3 DEF Next, Hook
  <2> QED
    BY <2>1, OldClientKept DEF BootInv
<1>3. BootInv /\ Stays =>
        (app = "gitea" /\ pc = "finished" /\ atStart.client # 0 => ~ClientRebuilt)
  <2> SUFFICES ASSUME BootInv, OldClient, app = "gitea", pc = "finished", atStart.client # 0
               PROVE  loaded.client # n
    BY DEF ClientRebuilt
  <2>1. n \in Int /\ atStart.client \in Int
    BY TypeFacts, BootAssumption DEF BootInv, Folders
  <2> QED
    BY <2>1 DEF OldClient
<1> QED
  BY <1>1, <1>2, <1>3, BootInvariance, PTL DEF Spec
=============================================================================
