----------------------------- MODULE AppLifecycle -----------------------------
(***************************************************************************)
(* Installing, starting, stopping and uninstalling apps                    *)
(* (internal/apps, internal/portal/admin.go, internal/cli/install.go).     *)
(*                                                                         *)
(* A job is a goroutine of the portal or a run of the CLI.  It goes        *)
(* through statements on the database, files and docker compose commands,  *)
(* and can fail or be killed between any two of them.  Nothing in nass     *)
(* keeps two jobs from working on the same app, except that an OIDC app    *)
(* can have one client only.  Exclusive says whether the people who start  *)
(* jobs leave it at that second installs.                                  *)
(*                                                                         *)
(* Docker compose is external: an app's containers are down, up on the     *)
(* port its compose file names, or partly up after a failed command.       *)
(* What a route is made of, and the enabled flag, are in Routes; what goes *)
(* with a client, in Tokens.                                               *)
(***************************************************************************)
EXTENDS Integers

CONSTANTS
  Apps,        \* apps of the registry
  NeedsOIDC,   \* those whose spec asks for an OIDC client
  Jobs,        \* what can run at the same time
  PortRange,   \* backend_port_range
  Preferred,   \* Spec.BackendPort
  Exclusive,   \* jobs on one app do not overlap, except installs with OIDC
  Misread,     \* apps whose failing compose down may print that some file is missing
  MaxClients,  \* bound: OIDC clients provisioned
  None,        \* no row, no client, no compose file, no app, containers down
  Unmanaged,   \* a row whose settings name no compose file or data root
  Partly       \* containers, some of them up

\* Every app prefers a port it may have; the values for nothing are told from ports,
\* clients and files.
ASSUME AppAssumption ==
  /\ NeedsOIDC \subseteq Apps
  /\ PortRange \subseteq Nat
  /\ Preferred \in [Apps -> PortRange]
  /\ Exclusive \in BOOLEAN
  /\ Misread \subseteq Apps
  /\ MaxClients \in Nat
  /\ None \notin Nat /\ None \notin Apps
  /\ None \notin [port: PortRange, client: Nat \cup {None}]
  /\ Unmanaged \notin Nat /\ Unmanaged # None
  /\ Partly \notin Nat /\ Partly # None

VARIABLES
  row,         \* apps table: none, unmanaged, or the port of the app's backend
  client,      \* oidc_clients: none, or the number of the app's client
  compose,     \* the compose file: none, or the port and client it names
  data,        \* whether the app's data folder exists
  containers,  \* external: none, partly up, or up on a port
  job,         \* what each job is doing
  minted,      \* number of clients provisioned so far
  adopted,     \* history: apps whose data folder an install has taken over
  mistaken     \* history: apps left running by a compose down that was taken for done

vars == <<row, client, compose, data, containers, job, minted, adopted, mistaken>>

ClientIds == 1..MaxClients
InstallSteps == {"provision", "render", "mkdata", "save", "up", "postup"}
UninstallSteps == {"down", "cleanup", "delete", "purge", "remove"}
Steps == InstallSteps \cup UninstallSteps
           \cup {"start", "stop", "installed", "uninstalled"}

Idle == [pc |-> "idle", app |-> None, caller |-> "cli", port |-> None,
         client |-> None, files |-> FALSE, keep |-> FALSE, downErr |-> FALSE, clean |-> FALSE]

\* caller: who uninstalls; files: the compose file and the data root are known;
\* clean: history, nobody else has touched the app since this job began.
Working ==
  [pc: Steps, app: Apps, caller: {"portal", "cli"}, port: PortRange \cup {None},
   client: ClientIds \cup {None}, files: BOOLEAN, keep: BOOLEAN,
   downErr: BOOLEAN, clean: BOOLEAN]

TypeOK ==
  /\ row \in [Apps -> PortRange \cup {None, Unmanaged}]
  /\ client \in [Apps -> ClientIds \cup {None}]
  /\ compose \in [Apps -> {None} \cup [port: PortRange, client: ClientIds \cup {None}]]
  /\ data \in [Apps -> BOOLEAN]
  /\ containers \in [Apps -> PortRange \cup {None, Partly}]
  /\ job \in [Jobs -> {Idle} \cup Working]
  /\ minted \in 0..MaxClients
  /\ adopted \in SUBSET Apps
  /\ mistaken \in SUBSET Apps

\* A fresh database.  A folder of an app's name may be there already.
Init ==
  /\ row = [a \in Apps |-> None]
  /\ client = [a \in Apps |-> None]
  /\ compose = [a \in Apps |-> None]
  /\ data \in [Apps -> BOOLEAN]
  /\ containers = [a \in Apps |-> None]
  /\ job = [j \in Jobs |-> Idle]
  /\ minted = 0
  /\ adopted = {}
  /\ mistaken = {}

-----------------------------------------------------------------------------
(* Jobs.                                                                   *)

Installing(b) == b.pc \in InstallSteps

\* A second install of an OIDC app is stopped by the first one's client row, so
\* as long as nobody else touches the app it does not count as interference.
Harmless(b, c) ==
  Installing(b) /\ Installing(c) /\ b.clean /\ b.app \in NeedsOIDC

Tolerated(a, b, c) == a \in NeedsOIDC /\ Installing(b) /\ Installing(c)

\* Job j goes on as b; the other jobs on its app are interfered with.
Goto(j, b) ==
  job' = [k \in Jobs |->
            IF k = j THEN b
            ELSE IF job[k].app = job[j].app /\ ~Harmless(job[j], job[k])
                 THEN [job[k] EXCEPT !.clean = FALSE]
                 ELSE job[k]]

Proceed(j, pc) == Goto(j, [job[j] EXCEPT !.pc = pc])
Fail(j) == job' = [job EXCEPT ![j] = Idle]

\* The operator changes an app's rows by hand.
Interfere(a) ==
  job' = [k \in Jobs |-> IF job[k].app = a THEN [job[k] EXCEPT !.clean = FALSE]
                                           ELSE job[k]]

Begin(j, a, b) ==
  /\ job[j] = Idle
  /\ Exclusive => \A k \in Jobs : job[k].app = a => Tolerated(a, b, job[k])
  /\ job' = [job EXCEPT ![j] = [b EXCEPT !.app = a, !.clean = TRUE]]
  /\ UNCHANGED <<row, client, compose, data, containers, mistaken, minted, adopted>>

\* An error, a killed process, a restart of nass serve, or the end of a job.
Leave(j) ==
  /\ job[j] # Idle
  /\ Fail(j)
  /\ UNCHANGED <<row, client, compose, data, containers, mistaken, minted, adopted>>

-----------------------------------------------------------------------------
(* Docker compose, as Install, Uninstall and the portal use it.            *)

PortFree(p, a) == \A b \in Apps \ {a} : containers[b] # p

UpWorks(a) ==
  /\ compose[a] # None
  /\ PortFree(compose[a].port, a)
  /\ containers' = [containers EXCEPT ![a] = compose[a].port]
  /\ mistaken' = mistaken \ {a}

UpFails(a) ==
  /\ \/ UNCHANGED containers
     \/ compose[a] # None /\ containers' = [containers EXCEPT ![a] = Partly]
  /\ UNCHANGED mistaken

DownWorks(a) ==
  /\ compose[a] # None
  /\ containers' = [containers EXCEPT ![a] = None]
  /\ mistaken' = mistaken \ {a}

DownFails(a) ==
  /\ compose[a] # None
  /\ \/ UNCHANGED containers
     \/ containers[a] # None /\ containers' = [containers EXCEPT ![a] = Partly]

-----------------------------------------------------------------------------
(* Install.                                                                *)

portAvailable(p) == \A a \in Apps : containers[a] # p

\* A plausible bug: the port after the first free one.
SelectNext(preferred, explicit) ==
  IF portAvailable(preferred) THEN {preferred}
  ELSE IF explicit THEN {}
  ELSE {p + 1 : p \in {q \in PortRange : portAvailable(q)}}

\* The ports Install may get: one, or none when it fails.
SelectBackendPort(preferred, explicit) ==
  LET others == {p \in PortRange \ {preferred} : portAvailable(p)} IN
  IF portAvailable(preferred) THEN {preferred}
  ELSE IF explicit THEN {}
  ELSE {p \in others : \A q \in others : p <= q}

\* Only the CLI has --backend-port.
StartInstall(j, a, caller) ==
  \E explicit \in (IF caller = "cli" THEN BOOLEAN ELSE {FALSE}) :
  \E preferred \in (IF explicit THEN PortRange ELSE {Preferred[a]}) :
  \E p \in SelectBackendPort(preferred, explicit) :
    Begin(j, a, [Idle EXCEPT
      !.pc = IF a \in NeedsOIDC THEN "provision" ELSE "render", !.port = p])

\* The transaction of oidc.Provision; an app has at most one client.
MakeClient(a) ==
  /\ client[a] = None
  /\ minted < MaxClients
  /\ minted' = minted + 1
  /\ client' = [client EXCEPT ![a] = minted + 1]
  /\ row' = [row EXCEPT ![a] = IF @ = None THEN Unmanaged ELSE @]

Provision(j) ==
  /\ job[j].pc = "provision"
  /\ MakeClient(job[j].app)
  /\ Goto(j, [job[j] EXCEPT !.pc = "render", !.client = minted + 1])
  /\ UNCHANGED <<compose, data, containers, mistaken, adopted>>

renderCompose(j) ==
  LET a == job[j].app IN
  /\ job[j].pc = "render"
  /\ compose' = [compose EXCEPT ![a] = [port |-> job[j].port, client |-> job[j].client]]
  /\ adopted' = adopted \cup {a}
  /\ Proceed(j, "mkdata")
  /\ UNCHANGED <<row, client, data, containers, mistaken, minted>>

MkdirData(j) ==
  /\ job[j].pc = "mkdata"
  /\ data' = [data EXCEPT ![job[j].app] = TRUE]
  /\ Proceed(j, "save")
  /\ UNCHANGED <<row, client, compose, containers, mistaken, minted, adopted>>

SaveSettings(j) ==
  /\ job[j].pc = "save"
  /\ row' = [row EXCEPT ![job[j].app] = job[j].port]
  /\ Proceed(j, "up")
  /\ UNCHANGED <<client, compose, data, containers, mistaken, minted, adopted>>

\* A plausible bug: the exit status of compose up is not looked at.
UpUnchecked(j) ==
  /\ job[j].pc = "up"
  /\ UpWorks(job[j].app) \/ UpFails(job[j].app)
  /\ Proceed(j, "postup")
  /\ UNCHANGED <<row, client, compose, data, minted, adopted>>

\* PreUp has no state of nass; when it fails the job leaves.
Up(j) ==
  /\ job[j].pc = "up"
  /\ \/ UpWorks(job[j].app) /\ Proceed(j, "postup")
     \/ UpFails(job[j].app) /\ Goto(j, Idle)
  /\ UNCHANGED <<row, client, compose, data, minted, adopted>>

PostUp(j) ==
  /\ job[j].pc = "postup"
  /\ Proceed(j, "installed")
  /\ UNCHANGED <<row, client, compose, data, containers, mistaken, minted, adopted>>

-----------------------------------------------------------------------------
(* Uninstall.                                                              *)

\* Plausible bugs: the CLI guesses the paths without looking for the compose
\* file; the CLI goes by the row alone.
GuessFiles(a, caller) == row[a] \in PortRange \/ caller = "cli"
RowFilesOnly(a, caller) == row[a] \in PortRange

\* The CLI falls back on its own conventions when the compose file is there.
resolveUninstallPaths(a, caller) ==
  row[a] \in PortRange \/ (caller = "cli" /\ compose[a] # None)

\* Only the CLI has --keep-data.
StartUninstall(j, a, caller) ==
  /\ row[a] # None
  /\ \E keep \in (IF caller = "cli" THEN BOOLEAN ELSE {FALSE}) :
       LET files == resolveUninstallPaths(a, caller) IN
       Begin(j, a, [Idle EXCEPT !.pc = IF files THEN "down" ELSE "cleanup",
         !.caller = caller, !.files = files, !.keep = keep])

\* Failures of compose down that are taken for a compose file that is gone.  The
\* error holds all that docker printed, so that any other missing file named in
\* it (the socket, an env_file) counts as the compose file.
isMissingComposeFile(a) ==
  \/ compose[a] = None /\ UNCHANGED <<containers, mistaken>>
  \/ /\ a \in Misread /\ DownFails(a)
     /\ mistaken' = IF containers[a] = None THEN mistaken ELSE mistaken \cup {a}

\* A plausible bug: no failure of compose down stops an uninstall.
DownUnchecked(j) ==
  LET a == job[j].app IN
  /\ job[j].pc = "down"
  /\ \/ DownWorks(a)
     \/ isMissingComposeFile(a)
     \/ DownFails(a) /\ UNCHANGED mistaken
  /\ Proceed(j, "cleanup")
  /\ UNCHANGED <<row, client, compose, data, minted, adopted>>

\* A compose file that is gone is not an error.  Other errors are, unless the
\* uninstall is forced, as the portal's always is.
DownWithVolumes(j) ==
  LET a == job[j].app IN
  /\ job[j].pc = "down"
  /\ \/ DownWorks(a) /\ Proceed(j, "cleanup")
     \/ isMissingComposeFile(a) /\ Proceed(j, "cleanup")
     \/ /\ DownFails(a) /\ UNCHANGED mistaken
        /\ \/ Goto(j, [job[j] EXCEPT !.pc = "cleanup", !.downErr = TRUE])
           \/ job[j].caller = "cli" /\ Goto(j, Idle)
  /\ UNCHANGED <<row, client, compose, data, minted, adopted>>

CleanupClient(j) ==
  /\ job[j].pc = "cleanup"
  /\ client' = [client EXCEPT ![job[j].app] = None]
  /\ Proceed(j, "delete")
  /\ UNCHANGED <<row, compose, data, containers, mistaken, minted, adopted>>

\* Plausible bugs: an error of compose down does not stop the clean-up; the row
\* is switched off instead of deleted.
DeleteRowDownForgotten(j) ==
  LET a == job[j].app IN
  /\ job[j].pc = "delete"
  /\ row' = [row EXCEPT ![a] = None]
  /\ client' = [client EXCEPT ![a] = None]
  /\ IF row[a] = None THEN Goto(j, Idle) ELSE Proceed(j, "purge")
  /\ UNCHANGED <<compose, data, containers, mistaken, minted, adopted>>
DisableRow(j) ==
  /\ job[j].pc = "delete"
  /\ Proceed(j, "purge")
  /\ UNCHANGED <<row, client, compose, data, containers, mistaken, minted, adopted>>

\* The client goes with the row (ON DELETE CASCADE).
DeleteRow(j) ==
  LET a == job[j].app IN
  /\ job[j].pc = "delete"
  /\ row' = [row EXCEPT ![a] = None]
  /\ client' = [client EXCEPT ![a] = IF row[a] = None THEN @ ELSE None]
  /\ IF row[a] = None \/ job[j].downErr THEN Goto(j, Idle) ELSE Proceed(j, "purge")
  /\ UNCHANGED <<compose, data, containers, mistaken, minted, adopted>>

RemoveData(j) ==
  /\ job[j].pc = "purge"
  /\ data' = IF job[j].files /\ ~job[j].keep
               THEN [data EXCEPT ![job[j].app] = FALSE] ELSE data
  /\ Proceed(j, "remove")
  /\ UNCHANGED <<row, client, compose, containers, mistaken, minted, adopted>>

RemoveCompose(j) ==
  /\ job[j].pc = "remove"
  /\ compose' = IF job[j].files
                  THEN [compose EXCEPT ![job[j].app] = None] ELSE compose
  /\ Proceed(j, "uninstalled")
  /\ UNCHANGED <<row, client, data, containers, mistaken, minted, adopted>>

-----------------------------------------------------------------------------
(* The portal's start and stop, and commands that change rows only.        *)

\* The path is read from the row, and used later.
LoadPath(j, a, pc) ==
  /\ row[a] \in PortRange
  /\ Begin(j, a, [Idle EXCEPT !.pc = pc])

StartApp(j) ==
  /\ job[j].pc = "start"
  /\ UpWorks(job[j].app) \/ UpFails(job[j].app)
  /\ Goto(j, Idle)
  /\ UNCHANGED <<row, client, compose, data, minted, adopted>>

StopApp(j) ==
  /\ job[j].pc = "stop"
  /\ \/ DownWorks(job[j].app)
     \/ DownFails(job[j].app) /\ UNCHANGED mistaken
  /\ Goto(j, Idle)
  /\ UNCHANGED <<row, client, compose, data, minted, adopted>>

\* nass app enable replaces the settings, whatever they were.
EnableCmd(a) ==
  /\ row' = [row EXCEPT ![a] = Unmanaged]
  /\ Interfere(a)
  /\ UNCHANGED <<client, compose, data, containers, mistaken, minted, adopted>>

ProvisionCmd(a) ==
  /\ MakeClient(a)
  /\ Interfere(a)
  /\ UNCHANGED <<compose, data, containers, mistaken, adopted>>

RevokeCmd(a) ==
  /\ client[a] # None
  /\ client' = [client EXCEPT ![a] = None]
  /\ Interfere(a)
  /\ UNCHANGED <<row, compose, data, containers, mistaken, minted, adopted>>

-----------------------------------------------------------------------------
InstallStep(j) ==
  \/ Provision(j) \/ renderCompose(j) \/ MkdirData(j)
  \/ SaveSettings(j) \/ Up(j) \/ PostUp(j)

UninstallStep(j) ==
  \/ DownWithVolumes(j) \/ CleanupClient(j) \/ DeleteRow(j)
  \/ RemoveData(j) \/ RemoveCompose(j)

Next ==
  \/ \E j \in Jobs :
       \/ \E a \in Apps, caller \in {"portal", "cli"} :
            StartInstall(j, a, caller) \/ StartUninstall(j, a, caller)
       \/ \E a \in Apps, pc \in {"start", "stop"} : LoadPath(j, a, pc)
       \/ InstallStep(j) \/ UninstallStep(j)
       \/ StartApp(j) \/ StopApp(j) \/ Leave(j)
  \/ \E a \in Apps : EnableCmd(a) \/ ProvisionCmd(a) \/ RevokeCmd(a)

Spec == Init /\ [][Next]_vars

-----------------------------------------------------------------------------
(* Properties.                                                             *)

\* An install that reports success, and was not interfered with, has left a
\* route to the app's own containers, up on the port it selected, and a compose
\* file with the client the database knows: also when other apps' jobs took
\* ports meanwhile, and when a second install of an OIDC app was begun
\* (install.go:38-139).
InstallComplete ==
  \A j \in Jobs :
    LET b == job[j] IN
    b.pc = "installed" /\ b.clean =>
      /\ row[b.app] = b.port /\ containers[b.app] = b.port /\ data[b.app]
      /\ compose[b.app] = [port |-> b.port, client |-> b.client]
      /\ b.app \in NeedsOIDC => client[b.app] = b.client

\* Nothing of the app is running, or nass believes so for want of a better error.
Settled(a) == containers[a] = None \/ a \in mistaken

\* An uninstall that knew the app's files, or could look for them, and was not
\* interfered with, leaves nothing behind when it reports success, whatever an
\* earlier job that failed half-way had left; but for the containers of a compose
\* down whose failure was taken for a missing compose file (uninstall.go:33-98).
UninstallComplete ==
  \A j \in Jobs :
    LET b == job[j] IN
    b.pc = "uninstalled" /\ b.clean /\ (b.files \/ b.caller = "cli") =>
      /\ row[b.app] = None /\ client[b.app] = None
      /\ compose[b.app] = None /\ Settled(b.app)
      /\ b.files /\ ~b.keep => ~data[b.app]

\* A row that names files names files that are there: an install that stops
\* anywhere has written them before the row, an uninstall that stops anywhere
\* has deleted the row before them (install.go:89-114, uninstall.go:68-96).
RowHasFiles ==
  \A a \in Apps : row[a] \in PortRange => compose[a] # None /\ data[a]

\* Containers can be stopped: the compose file outlives them, also when compose
\* down fails and the uninstall is forced.  Only a failure that was taken for a
\* missing compose file costs them theirs (uninstall.go:56-82).
ContainersStoppable ==
  \A a \in Apps : compose[a] # None \/ Settled(a)

\* Data is not deleted under containers, unless compose down failed and was
\* taken for done: no order of jobs, crashes and other failures gets there
\* (uninstall.go:54-88).
DeletionAfterDown ==
  [][\A a \in Apps : data[a] /\ ~data'[a] => Settled(a)]_vars

\* What uninstall.go:77-78 says: files are not deleted under containers that
\* may still be running.
NoDeletionUnderRunning ==
  [][\A a \in Apps : data[a] /\ ~data'[a] => containers[a] = None]_vars

\* A folder of an app's name that no install has taken over is never deleted
\* (cli/install.go:159-161).
OperatorDataSafe ==
  [][\A a \in Apps : data[a] /\ ~data'[a] => a \in adopted]_vars
=============================================================================
