------------------------- MODULE AppLifecycleProofs -------------------------
(***************************************************************************)
(* Proofs about AppLifecycle, for every set of apps and ports and any      *)
(* number of jobs.  What the code itself guarantees is proved as it is;    *)
(* what it leaves to the people who start jobs, from Exclusive.            *)
(***************************************************************************)
EXTENDS AppLifecycle, TLAPS

JobStates == {Idle} \cup Working

\* Two states of a job that differ at most in its history.
Same(b, c) ==
  /\ b.pc = c.pc /\ b.app = c.app /\ b.caller = c.caller /\ b.port = c.port
  /\ b.client = c.client /\ b.files = c.files /\ b.keep = c.keep
  /\ b.downErr = c.downErr

\* Job j moves; the others may be told that it does.
Moved(j) ==
  /\ job' \in [Jobs -> JobStates]
  /\ \A k \in Jobs \ {j} : Same(job'[k], job[k])

-----------------------------------------------------------------------------
(* Types.                                                                  *)

\* An install has selected its port before its first step.
PortKnown == \A j \in Jobs : job[j].pc \in InstallSteps => job[j].port \in PortRange

TypeInv == TypeOK /\ PortKnown

\* A job is idle or has a step to do, and its app tells which.
LEMMA JobCases ==
  ASSUME TypeOK, NEW j \in Jobs
  PROVE  /\ job[j] \in JobStates
         /\ job[j] # Idle => job[j] \in Working
         /\ job[j].pc # "idle" => job[j] \in Working /\ job[j].app \in Apps
         /\ job[j].pc = "idle" => job[j] = Idle /\ job[j].app = None
BY DEF TypeOK, JobStates, Idle, Working, Steps, InstallSteps, UninstallSteps

\* Clearing the history of a working job leaves a working job.
LEMMA Cleared ==
  ASSUME NEW b \in Working
  PROVE  /\ [b EXCEPT !.clean = FALSE] \in Working
         /\ Same([b EXCEPT !.clean = FALSE], b)
BY DEF Working, Same

\* Goto sets one job's state and keeps the types of all.
LEMMA GotoMoves ==
  ASSUME TypeOK, NEW j \in Jobs, job[j].pc # "idle", NEW b \in JobStates, Goto(j, b)
  PROVE  Moved(j) /\ job'[j] = b
<1>1. \A k \in Jobs : job[k] \in JobStates /\ Same(job[k], job[k])
  BY DEF TypeOK, JobStates, Same
<1>2. ASSUME NEW k \in Jobs, job[k].app = job[j].app
      PROVE  /\ [job[k] EXCEPT !.clean = FALSE] \in JobStates
             /\ Same([job[k] EXCEPT !.clean = FALSE], job[k])
  <2>1. job[k] \in Working
    BY <1>2, JobCases, AppAssumption
  <2> QED
    BY <2>1, Cleared DEF JobStates
<1> QED
  BY <1>1, <1>2 DEF Goto, Moved

\* So do a failing job and an operator's command.
LEMMA OthersMove ==
  ASSUME TypeOK
  PROVE  /\ \A j \in Jobs : Fail(j) => Moved(j) /\ job'[j] = Idle
         /\ \A a \in Apps : Interfere(a) =>
              /\ job' \in [Jobs -> JobStates]
              /\ \A k \in Jobs : Same(job'[k], job[k])
<1>1. \A k \in Jobs : job[k] \in JobStates /\ Same(job[k], job[k])
  BY DEF TypeOK, JobStates, Same
<1>2. \A j \in Jobs : Fail(j) => Moved(j) /\ job'[j] = Idle
  BY <1>1 DEF Fail, Moved, JobStates, TypeOK
<1>3. ASSUME NEW a \in Apps, NEW k \in Jobs, job[k].app = a
      PROVE  /\ [job[k] EXCEPT !.clean = FALSE] \in JobStates
             /\ Same([job[k] EXCEPT !.clean = FALSE], job[k])
  <2>1. job[k] \in Working
    BY <1>3, JobCases, AppAssumption
  <2> QED
    BY <2>1, Cleared DEF JobStates
<1>4. \A a \in Apps : Interfere(a) =>
         /\ job' \in [Jobs -> JobStates]
         /\ \A k \in Jobs : Same(job'[k], job[k])
  BY <1>1, <1>3 DEF Interfere
<1> QED
  BY <1>2, <1>4

\* Proceed is a Goto to another step.
LEMMA ProceedMoves ==
  ASSUME TypeOK, NEW j \in Jobs, job[j].pc # "idle", NEW pc \in Steps, Proceed(j, pc)
  PROVE  Moved(j) /\ job'[j] = [job[j] EXCEPT !.pc = pc]
<1>1. [job[j] EXCEPT !.pc = pc] \in JobStates
  BY JobCases DEF Working, JobStates
<1> QED
  BY <1>1, GotoMoves DEF Proceed

\* Setting one job's state leaves the others as they are.
LEMMA SetOne ==
  ASSUME TypeOK, NEW j \in Jobs, NEW b \in JobStates, job' = [job EXCEPT ![j] = b]
  PROVE  Moved(j) /\ job'[j] = b
<1>1. \A k \in Jobs : job[k] \in JobStates /\ Same(job[k], job[k])
  BY DEF TypeOK, JobStates, Same
<1>2. job \in [Jobs -> JobStates]
  BY DEF TypeOK, JobStates
<1> QED
  BY <1>1, <1>2 DEF Moved

\* A job that begins moves alone, and starts with what it was given.
LEMMA BeginMoves ==
  ASSUME TypeOK, NEW j \in Jobs, NEW a \in Apps, NEW b,
         [b EXCEPT !.app = a, !.clean = TRUE] \in Working, Begin(j, a, b)
  PROVE  Moved(j) /\ job'[j] = [b EXCEPT !.app = a, !.clean = TRUE]
<1> DEFINE c == [b EXCEPT !.app = a, !.clean = TRUE]
<1>1. c \in JobStates
  BY DEF JobStates
<1>2. job' = [job EXCEPT ![j] = c]
  BY DEF Begin
<1> HIDE DEF c
<1>3. Moved(j) /\ job'[j] = c
  BY <1>1, <1>2, SetOne
<1> QED
  BY <1>3 DEF c

\* What docker compose can do to an app's containers.
LEMMA DockerTypes ==
  ASSUME TypeOK, NEW a \in Apps,
         UpWorks(a) \/ UpFails(a) \/ DownWorks(a) \/ DownFails(a)
  PROVE  /\ containers' \in [Apps -> PortRange \cup {None, Partly}]
         /\ \A c \in Apps \ {a} : containers'[c] = containers[c]
         /\ containers'[a] # containers[a] => compose[a] # None
<1>1. compose[a] # None => compose[a].port \in PortRange
  BY DEF TypeOK
<1> QED
  BY <1>1 DEF TypeOK, UpWorks, UpFails, DownWorks, DownFails

\* The port an install starts with is one of the range or the preferred one.
LEMMA SelectedType ==
  ASSUME NEW p \in PortRange, NEW e \in BOOLEAN
  PROVE  SelectBackendPort(p, e) \subseteq PortRange
BY DEF SelectBackendPort

\* How a job looks when it has just begun.
LEMMA Beginnings ==
  ASSUME TypeOK, NEW j \in Jobs, NEW a \in Apps, NEW caller \in {"portal", "cli"},
         \/ StartInstall(j, a, caller)
         \/ StartUninstall(j, a, caller)
         \/ \E pc \in {"start", "stop"} : LoadPath(j, a, pc)
  PROVE  /\ Moved(j) /\ job'[j] \in Working /\ job'[j].app = a
         /\ job'[j].pc \in {"provision", "render", "down", "cleanup", "start", "stop"}
         /\ job'[j].files => resolveUninstallPaths(a, "cli")
         /\ job'[j].files => job'[j].pc = "down"
         /\ job'[j].pc \in InstallSteps => job'[j].port \in PortRange
         /\ ~job'[j].downErr
         /\ job[j] = Idle
         /\ Exclusive => \A k \in Jobs :
              job[k].app = a =>
                /\ job[k].pc \in InstallSteps
                /\ job'[j].pc \in InstallSteps
         /\ UNCHANGED <<row, client, compose, data, containers, mistaken, minted, adopted>>
<1>1. ASSUME StartInstall(j, a, caller)
      PROVE  \E p \in PortRange, pc \in {"provision", "render"} :
               Begin(j, a, [Idle EXCEPT !.pc = pc, !.port = p])
  BY <1>1, SelectedType, AppAssumption DEF StartInstall
<1>2. ASSUME NEW b, Begin(j, a, b), b.pc \in Steps,
             [b EXCEPT !.app = a, !.clean = TRUE] \in Working,
             [b EXCEPT !.app = a, !.clean = TRUE].pc = b.pc,
             [b EXCEPT !.app = a, !.clean = TRUE].files = b.files,
             [b EXCEPT !.app = a, !.clean = TRUE].port = b.port,
             [b EXCEPT !.app = a, !.clean = TRUE].downErr = FALSE
      PROVE  /\ Moved(j) /\ job'[j] \in Working /\ job'[j].app = a
             /\ job'[j].pc = b.pc
             /\ job'[j].files = b.files /\ job'[j].port = b.port
             /\ ~job'[j].downErr
             /\ job[j] = Idle
             /\ Exclusive => \A k \in Jobs :
                  job[k].app = a =>
                    /\ job[k].pc \in InstallSteps
                    /\ job'[j].pc \in InstallSteps
             /\ UNCHANGED <<row, client, compose, data, containers, mistaken, minted, adopted>>
  <2>1. Moved(j) /\ job'[j] = [b EXCEPT !.app = a, !.clean = TRUE]
    BY <1>2, BeginMoves
  <2>2. job'[j].app = a
    BY <1>2, <2>1 DEF Working
  <2> QED
    BY <1>2, <2>1, <2>2 DEF Begin, Tolerated, Installing
<1>3. CASE StartInstall(j, a, caller)
  <2>1. PICK p \in PortRange, pc \in {"provision", "render"} :
          Begin(j, a, [Idle EXCEPT !.pc = pc, !.port = p])
    BY <1>1, <1>3
  <2> DEFINE b == [Idle EXCEPT !.pc = pc, !.port = p]
  <2>2. /\ b.pc = pc /\ b.files = FALSE /\ b.port = p
        /\ [b EXCEPT !.app = a, !.clean = TRUE] \in Working
        /\ [b EXCEPT !.app = a, !.clean = TRUE].pc = b.pc
        /\ [b EXCEPT !.app = a, !.clean = TRUE].files = b.files
        /\ [b EXCEPT !.app = a, !.clean = TRUE].port = b.port
        /\ [b EXCEPT !.app = a, !.clean = TRUE].downErr = FALSE
    BY DEF Idle, Working, Steps, InstallSteps
  <2>3. b.pc \in Steps
    BY <2>2 DEF Steps, InstallSteps
  <2> HIDE DEF b
  <2> QED
    BY <1>2, <2>1, <2>2, <2>3 DEF b
<1>4. CASE StartUninstall(j, a, caller)
  <2>1. PICK keep \in BOOLEAN :
          LET files == resolveUninstallPaths(a, caller) IN
          Begin(j, a, [Idle EXCEPT !.pc = IF files THEN "down" ELSE "cleanup",
            !.caller = caller, !.files = files, !.keep = keep])
    BY <1>4 DEF StartUninstall
  <2> DEFINE files == resolveUninstallPaths(a, caller)
             b == [Idle EXCEPT !.pc = IF files THEN "down" ELSE "cleanup",
                     !.caller = caller, !.files = files, !.keep = keep]
  <2>2. files \in BOOLEAN
    BY DEF resolveUninstallPaths
  <2>3. files => resolveUninstallPaths(a, "cli")
    BY DEF resolveUninstallPaths
  <2> HIDE DEF files
  <2>4. /\ b.pc = (IF files THEN "down" ELSE "cleanup") /\ b.files = files
        /\ [b EXCEPT !.app = a, !.clean = TRUE] \in Working
        /\ [b EXCEPT !.app = a, !.clean = TRUE].pc = b.pc
        /\ [b EXCEPT !.app = a, !.clean = TRUE].files = b.files
        /\ [b EXCEPT !.app = a, !.clean = TRUE].port = b.port
        /\ [b EXCEPT !.app = a, !.clean = TRUE].downErr = FALSE
    BY <2>2 DEF Idle, Working, Steps, UninstallSteps
  <2>5. b.pc \in Steps
    BY <2>4 DEF Steps, UninstallSteps
  <2>6. Begin(j, a, b)
    BY <2>1 DEF files
  <2> HIDE DEF b
  <2> QED
    BY <1>2, <2>3, <2>4, <2>5, <2>6 DEF InstallSteps
<1>5. CASE \E pc \in {"start", "stop"} : LoadPath(j, a, pc)
  <2>1. PICK pc \in {"start", "stop"} : Begin(j, a, [Idle EXCEPT !.pc = pc])
    BY <1>5 DEF LoadPath
  <2> DEFINE b == [Idle EXCEPT !.pc = pc]
  <2>2. /\ b.pc = pc /\ b.files = FALSE
        /\ [b EXCEPT !.app = a, !.clean = TRUE] \in Working
        /\ [b EXCEPT !.app = a, !.clean = TRUE].pc = b.pc
        /\ [b EXCEPT !.app = a, !.clean = TRUE].files = b.files
        /\ [b EXCEPT !.app = a, !.clean = TRUE].port = b.port
        /\ [b EXCEPT !.app = a, !.clean = TRUE].downErr = FALSE
    BY DEF Idle, Working, Steps
  <2>3. b.pc \in Steps
    BY <2>2 DEF Steps
  <2> HIDE DEF b
  <2> QED
    BY <1>2, <2>1, <2>2, <2>3 DEF b, InstallSteps
<1> QED
  BY <1>3, <1>4, <1>5

-----------------------------------------------------------------------------
(* Steps of a job that has begun.                                          *)

\* Job j leaves step from: it ends, or goes to step to with the app it has.
Went(j, from, to) ==
  /\ Moved(j)
  /\ job[j].pc = from /\ job[j] \in Working
  /\ \/ job'[j] = Idle
     \/ /\ job'[j] \in Working
        /\ job'[j].pc = to /\ job'[j].app = job[j].app
        /\ job'[j].files = job[j].files /\ job'[j].port = job[j].port
        /\ job[j].downErr => job'[j].downErr

\* Proceeding to a step goes there.
LEMMA ProceedWent ==
  ASSUME TypeOK, NEW j \in Jobs, job[j].pc # "idle", NEW pc \in Steps, Proceed(j, pc)
  PROVE  /\ Went(j, job[j].pc, pc)
         /\ job'[j].pc = pc /\ job'[j].downErr = job[j].downErr
<1>1. Moved(j) /\ job'[j] = [job[j] EXCEPT !.pc = pc]
  BY ProceedMoves
<1>2. job[j] \in Working
  BY JobCases
<1> QED
  BY <1>1, <1>2 DEF Went, Working

\* A job that ends has been somewhere.
LEMMA EndWent ==
  ASSUME TypeOK, NEW j \in Jobs, job[j].pc # "idle", NEW pc \in Steps, Goto(j, Idle)
  PROVE  Went(j, job[j].pc, pc) /\ job'[j] = Idle
<1>1. Moved(j) /\ job'[j] = Idle
  BY GotoMoves DEF JobStates
<1> QED
  BY <1>1, JobCases DEF Went

\* Each step of an install goes to the next one or ends.
LEMMA InstallWent ==
  ASSUME TypeOK, NEW j \in Jobs
  PROVE  /\ Provision(j) => Went(j, "provision", "render")
         /\ renderCompose(j) => Went(j, "render", "mkdata")
         /\ MkdirData(j) => Went(j, "mkdata", "save")
         /\ SaveSettings(j) => Went(j, "save", "up")
         /\ Up(j) => Went(j, "up", "postup")
         /\ PostUp(j) => Went(j, "postup", "installed")
<1> USE DEF Steps, InstallSteps
<1>1. ASSUME Provision(j)
      PROVE  Went(j, "provision", "render")
  <2> DEFINE b == [job[j] EXCEPT !.pc = "render", !.client = minted + 1]
  <2>1. job[j] \in Working /\ job[j].pc = "provision"
    BY <1>1, JobCases DEF Provision
  <2>2. minted + 1 \in ClientIds
    BY <1>1, AppAssumption DEF Provision, MakeClient, TypeOK, ClientIds
  <2>3. /\ b \in Working /\ b.pc = "render" /\ b.app = job[j].app
        /\ b.files = job[j].files /\ b.downErr = job[j].downErr
        /\ b.port = job[j].port
    BY <2>1, <2>2 DEF Working
  <2>4. Goto(j, b)
    BY <1>1 DEF Provision
  <2> HIDE DEF b
  <2>5. Moved(j) /\ job'[j] = b
    BY <2>1, <2>3, <2>4, GotoMoves DEF JobStates
  <2> QED
    BY <2>1, <2>3, <2>5 DEF Went
<1>2. renderCompose(j) => Went(j, "render", "mkdata")
  BY ProceedWent DEF renderCompose
<1>3. MkdirData(j) => Went(j, "mkdata", "save")
  BY ProceedWent DEF MkdirData
<1>4. SaveSettings(j) => Went(j, "save", "up")
  BY ProceedWent DEF SaveSettings
<1>5. Up(j) => Went(j, "up", "postup")
  BY ProceedWent, EndWent DEF Up
<1>6. PostUp(j) => Went(j, "postup", "installed")
  BY ProceedWent DEF PostUp
<1> QED
  BY <1>1, <1>2, <1>3, <1>4, <1>5, <1>6

\* After compose down and whatever is made of its error, the history of what was
\* taken for done is that of the other apps, and types are kept.
LEMMA MistakenTypes ==
  ASSUME TypeOK, NEW a \in Apps,
         \/ UpWorks(a) \/ UpFails(a) \/ DownWorks(a) \/ isMissingComposeFile(a)
         \/ DownFails(a) /\ UNCHANGED mistaken
  PROVE  /\ mistaken' \in SUBSET Apps
         /\ \A c \in Apps \ {a} : c \in mistaken' <=> c \in mistaken
         /\ compose[a] = None /\ Settled(a) => Settled(a)'
BY DEF TypeOK, UpWorks, UpFails, DownWorks, DownFails, isMissingComposeFile, Settled

\* A compose down leaves the containers down, or is taken for done, or its error
\* is remembered.
LEMMA DownWent ==
  ASSUME TypeOK, NEW j \in Jobs, DownWithVolumes(j)
  PROVE  /\ Went(j, "down", "cleanup")
         /\ job'[j].pc = "cleanup" /\ ~job'[j].downErr =>
              \/ Settled(job[j].app)'
              \/ compose[job[j].app] = None /\ UNCHANGED <<containers, mistaken>>
<1>0. "cleanup" \in Steps
  BY DEF Steps, UninstallSteps
<1>1. /\ job[j] \in Working /\ job[j].pc = "down" /\ job[j].app \in Apps
  BY JobCases DEF DownWithVolumes
<1>2. CASE /\ DownWorks(job[j].app) \/ isMissingComposeFile(job[j].app)
           /\ Proceed(j, "cleanup")
  <2>1. Went(j, "down", "cleanup")
    BY <1>0, <1>1, <1>2, ProceedWent
  <2>2. CASE DownWorks(job[j].app)
    <3>1. containers'[job[j].app] = None /\ job'[j].app = job[j].app
      BY <1>1, <1>2, <2>2, ProceedMoves, <1>0 DEF DownWorks, TypeOK, Working
    <3> QED
      BY <2>1, <3>1 DEF Settled
  <2>3. CASE isMissingComposeFile(job[j].app)
    <3>1. PICK a \in Apps : a = job[j].app
      BY <1>1
    <3>2. job'[j].app = a
      BY <1>0, <1>1, <1>2, <3>1, ProceedMoves DEF Working
    <3>3. \/ compose[a] = None /\ UNCHANGED <<containers, mistaken>>
          \/ containers[a] = None /\ containers' = containers
          \/ a \in mistaken'
      BY <2>3, <3>1 DEF isMissingComposeFile, DownFails
    <3> QED
      BY <2>1, <3>1, <3>2, <3>3 DEF Settled
  <2> QED
    BY <1>2, <2>2, <2>3
<1>3. CASE /\ DownFails(job[j].app)
           /\ Goto(j, [job[j] EXCEPT !.pc = "cleanup", !.downErr = TRUE])
  <2> DEFINE b == [job[j] EXCEPT !.pc = "cleanup", !.downErr = TRUE]
  <2>1. /\ b \in Working /\ b.pc = "cleanup" /\ b.app = job[j].app
        /\ b.files = job[j].files /\ b.downErr = TRUE /\ b.port = job[j].port
    BY <1>1 DEF Working, Steps, UninstallSteps
  <2>2. Goto(j, b)
    BY <1>3
  <2> HIDE DEF b
  <2>3. Moved(j) /\ job'[j] = b
    BY <1>1, <2>1, <2>2, GotoMoves DEF JobStates
  <2> QED
    BY <1>1, <2>1, <2>3 DEF Went
<1>4. CASE Goto(j, Idle)
  <2>1. Went(j, "down", "cleanup") /\ job'[j] = Idle
    BY <1>0, <1>1, <1>4, EndWent
  <2> QED
    BY <2>1 DEF Idle
<1>5. \/ /\ DownWorks(job[j].app) \/ isMissingComposeFile(job[j].app)
         /\ Proceed(j, "cleanup")
      \/ /\ DownFails(job[j].app)
         /\ Goto(j, [job[j] EXCEPT !.pc = "cleanup", !.downErr = TRUE])
      \/ Goto(j, Idle)
  BY Zenon DEF DownWithVolumes
<1> QED
  BY <1>2, <1>3, <1>4, <1>5, Zenon

\* What the first step of an uninstall does to containers and their history.
LEMMA DownDoes ==
  ASSUME TypeOK, NEW j \in Jobs, DownWithVolumes(j), NEW a \in Apps, job[j].app = a
  PROVE  /\ containers' \in [Apps -> PortRange \cup {None, Partly}]
         /\ mistaken' \in SUBSET Apps
         /\ \A c \in Apps \ {a} :
              containers'[c] = containers[c] /\ (c \in mistaken' <=> c \in mistaken)
         /\ containers'[a] # containers[a] => compose[a] # None
         /\ compose[a] = None /\ Settled(a) => Settled(a)'
         /\ UNCHANGED <<row, client, compose, data, minted, adopted>>
<1>1. /\ \/ DownWorks(a) \/ isMissingComposeFile(a)
         \/ DownFails(a) /\ UNCHANGED mistaken
      /\ UNCHANGED <<row, client, compose, data, minted, adopted>>
  BY DEF DownWithVolumes
<1>2. DownWorks(a) \/ DownFails(a) \/ containers' = containers
  BY <1>1 DEF isMissingComposeFile
<1>3. containers' = containers => containers' \in [Apps -> PortRange \cup {None, Partly}]
  BY DEF TypeOK
<1> QED
  BY <1>1, <1>2, <1>3, DockerTypes, MistakenTypes

\* An uninstall that goes on without an error has nothing left to stop, or thinks so.
LEMMA DownSettles ==
  ASSUME TypeOK, NEW j \in Jobs, DownWithVolumes(j), NEW a \in Apps, job[j].app = a,
         compose[a] # None \/ Settled(a), job'[j].pc = "cleanup", ~job'[j].downErr
  PROVE  Settled(a)'
<1>1. job'[j].app = a
  BY DownWent DEF Went, Idle
<1>2. \/ Settled(job[j].app)'
      \/ compose[a] = None /\ UNCHANGED <<containers, mistaken>>
  BY DownWent
<1> QED
  BY <1>1, <1>2 DEF Settled

\* Each later step of an uninstall goes to the next one or ends; only an
\* uninstall whose compose down worked goes on from the row to the files.
LEMMA UninstallWent ==
  ASSUME TypeOK, NEW j \in Jobs
  PROVE  /\ CleanupClient(j) => Went(j, "cleanup", "delete")
         /\ DeleteRow(j) =>
              /\ Went(j, "delete", "purge")
              /\ job'[j].pc = "purge" => ~job[j].downErr
         /\ RemoveData(j) => Went(j, "purge", "remove")
         /\ RemoveCompose(j) => Went(j, "remove", "uninstalled")
<1>1. \A pc \in UninstallSteps \cup {"uninstalled"} : pc \in Steps
  BY DEF Steps
<1>2. CleanupClient(j) => Went(j, "cleanup", "delete")
  BY <1>1, ProceedWent DEF CleanupClient, UninstallSteps
<1>3. ASSUME DeleteRow(j)
      PROVE  /\ Went(j, "delete", "purge")
             /\ job'[j].pc = "purge" => ~job[j].downErr
  <2>1. job[j].pc = "delete" /\ "purge" \in Steps
    BY <1>1, <1>3 DEF DeleteRow, UninstallSteps
  <2>2. CASE ~job[j].downErr /\ Proceed(j, "purge")
    BY <2>1, <2>2, ProceedWent
  <2>3. CASE Goto(j, Idle)
    <3>1. Went(j, "delete", "purge") /\ job'[j] = Idle
      BY <2>1, <2>3, EndWent
    <3> QED
      BY <3>1 DEF Idle
  <2> QED
    BY <1>3, <2>2, <2>3 DEF DeleteRow
<1>4. RemoveData(j) => Went(j, "purge", "remove")
  BY <1>1, ProceedWent DEF RemoveData, UninstallSteps
<1>5. RemoveCompose(j) => Went(j, "remove", "uninstalled")
  BY <1>1, ProceedWent DEF RemoveCompose
<1> QED
  BY <1>2, <1>3, <1>4, <1>5

\* The rest of what a job does ends it.
LEMMA OthersWent ==
  ASSUME TypeOK, NEW j \in Jobs
  PROVE  /\ StartApp(j) => Went(j, "start", "installed") /\ job'[j] = Idle
         /\ StopApp(j) => Went(j, "stop", "installed") /\ job'[j] = Idle
         /\ Leave(j) => /\ Went(j, job[j].pc, "installed") /\ job'[j] = Idle
<1>1. "installed" \in Steps
  BY DEF Steps
<1>2. StartApp(j) => Went(j, "start", "installed") /\ job'[j] = Idle
  BY <1>1, EndWent DEF StartApp
<1>3. StopApp(j) => Went(j, "stop", "installed") /\ job'[j] = Idle
  BY <1>1, EndWent DEF StopApp
<1>4. Leave(j) => Went(j, job[j].pc, "installed") /\ job'[j] = Idle
  BY OthersMove, JobCases DEF Leave, Went
<1> QED
  BY <1>2, <1>3, <1>4

\* Every step keeps the types.
LEMMA TypePreserved ==
  ASSUME TypeInv, [Next]_vars
  PROVE  TypeInv'
<1> USE DEF TypeOK, TypeInv
<1>1. CASE UNCHANGED vars
  BY <1>1 DEF vars, PortKnown
<1>2. ASSUME NEW j \in Jobs, NEW a \in Apps, NEW caller \in {"portal", "cli"},
             \/ StartInstall(j, a, caller) \/ StartUninstall(j, a, caller)
             \/ \E pc \in {"start", "stop"} : LoadPath(j, a, pc)
      PROVE  TypeInv'
  BY <1>2, Beginnings DEF Moved, JobStates, PortKnown, Same
<1>3. ASSUME NEW j \in Jobs, NEW from, NEW to, Went(j, from, to),
             to \in InstallSteps => from \in InstallSteps
      PROVE  /\ job' \in [Jobs -> {Idle} \cup Working]
             /\ job[j] \in Working /\ job[j].app \in Apps
             /\ from \in InstallSteps => job[j].port \in PortRange
             /\ job[j].client \in ClientIds \cup {None}
             /\ PortKnown'
  <2>1. /\ job' \in [Jobs -> {Idle} \cup Working] /\ job[j].app \in Apps
        /\ job[j].client \in ClientIds \cup {None}
    BY <1>3 DEF Went, Moved, JobStates, Working
  <2>2. job'[j].pc \in InstallSteps => job'[j].port \in PortRange
    BY <1>3 DEF Went, PortKnown, Idle, InstallSteps
  <2>3. PortKnown'
    BY <1>3, <2>2 DEF Went, Moved, PortKnown, Same
  <2> QED
    BY <1>3, <2>1, <2>3 DEF Went, PortKnown
<1>4. ASSUME NEW a \in Apps, MakeClient(a)
      PROVE  /\ row' \in [Apps -> PortRange \cup {None, Unmanaged}]
             /\ client' \in [Apps -> ClientIds \cup {None}]
             /\ minted' \in 0..MaxClients
  BY <1>4, AppAssumption DEF MakeClient, ClientIds
<1>5. ASSUME NEW j \in Jobs, InstallStep(j)
      PROVE  TypeInv'
  <2>1. CASE Provision(j)
    BY <2>1, <1>3, <1>4, InstallWent DEF InstallSteps, Provision
  <2>2. CASE renderCompose(j)
    BY <2>2, <1>3, InstallWent DEF InstallSteps, renderCompose
  <2>3. CASE MkdirData(j)
    BY <2>3, <1>3, InstallWent DEF InstallSteps, MkdirData
  <2>4. CASE SaveSettings(j)
    BY <2>4, <1>3, InstallWent DEF InstallSteps, SaveSettings
  <2>5. CASE Up(j)
    BY <2>5, <1>3, InstallWent, DockerTypes, MistakenTypes DEF InstallSteps, Up
  <2>6. CASE PostUp(j)
    BY <2>6, <1>3, InstallWent DEF InstallSteps, PostUp
  <2> QED
    BY <1>5, <2>1, <2>2, <2>3, <2>4, <2>5, <2>6 DEF InstallStep
<1>6. ASSUME NEW j \in Jobs, UninstallStep(j)
      PROVE  TypeInv'
  <2>1. CASE DownWithVolumes(j)
    BY <2>1, <1>3, DownWent, DownDoes DEF InstallSteps
  <2>2. CASE CleanupClient(j)
    BY <2>2, <1>3, UninstallWent DEF InstallSteps, CleanupClient
  <2>3. CASE DeleteRow(j)
    BY <2>3, <1>3, UninstallWent DEF InstallSteps, DeleteRow
  <2>4. CASE RemoveData(j)
    BY <2>4, <1>3, UninstallWent DEF InstallSteps, RemoveData
  <2>5. CASE RemoveCompose(j)
    BY <2>5, <1>3, UninstallWent DEF InstallSteps, RemoveCompose
  <2> QED
    BY <1>6, <2>1, <2>2, <2>3, <2>4, <2>5 DEF UninstallStep
<1>7. ASSUME NEW j \in Jobs, StartApp(j) \/ StopApp(j) \/ Leave(j)
      PROVE  TypeInv'
  <2>1. CASE StartApp(j)
    BY <2>1, <1>3, OthersWent, DockerTypes, MistakenTypes DEF InstallSteps, StartApp
  <2>2. CASE StopApp(j)
    BY <2>2, <1>3, OthersWent, DockerTypes, MistakenTypes DEF InstallSteps, StopApp
  <2>3. CASE Leave(j)
    BY <2>3, <1>3, OthersWent DEF InstallSteps, Leave
  <2> QED
    BY <1>7, <2>1, <2>2, <2>3
<1>8. ASSUME NEW a \in Apps, EnableCmd(a) \/ ProvisionCmd(a) \/ RevokeCmd(a)
      PROVE  TypeInv'
  <2>1. job' \in [Jobs -> {Idle} \cup Working] /\ PortKnown'
    BY <1>8, OthersMove DEF EnableCmd, ProvisionCmd, RevokeCmd, JobStates,
      PortKnown, Same
  <2> QED
    BY <1>4, <1>8, <2>1 DEF EnableCmd, ProvisionCmd, RevokeCmd
<1> QED
  BY <1>1, <1>2, <1>5, <1>6, <1>7, <1>8 DEF Next

\* The initial state has the right types.
LEMMA TypeInit == Init => TypeInv
BY AppAssumption DEF Init, TypeOK, TypeInv, PortKnown, Idle, InstallSteps

\* Types are right in every reachable state (what apps.Service and the tables
\* apps and oidc_clients can hold).
THEOREM AppsTypeCorrect == Spec => []TypeOK
<1>1. Init => TypeInv
  BY TypeInit
<1>2. TypeInv => TypeOK
  BY DEF TypeInv
<1> QED
  BY <1>1, <1>2, TypePreserved, PTL DEF Spec

-----------------------------------------------------------------------------
(* Deleted data was an app's: holds however the jobs overlap.              *)

\* A compose file, a row that names files, and a job that is about to write
\* either of them or that has found them, stand for an app that was installed.
PathsAdopted == \A a \in Apps : compose[a] # None \/ row[a] \in PortRange => a \in adopted
JobAdopted(b) == b.pc \in {"mkdata", "save"} \/ b.files => b.app \in adopted
AdoptInv == PathsAdopted /\ \A j \in Jobs : JobAdopted(job[j])

\* A job's step keeps AdoptInv if its own state and the app's paths do.
LEMMA AdoptStep ==
  ASSUME AdoptInv, NEW j \in Jobs, NEW from, NEW to, Went(j, from, to),
         adopted \subseteq adopted', PathsAdopted',
         to \in {"mkdata", "save"} => job[j].app \in adopted'
  PROVE  AdoptInv'
<1>1. \A k \in Jobs \ {j} : JobAdopted(job[k])'
  BY DEF AdoptInv, JobAdopted, Went, Moved, Same
<1>2. JobAdopted(job[j])'
  BY DEF AdoptInv, JobAdopted, Went, Idle
<1> QED
  BY <1>1, <1>2 DEF AdoptInv

\* The commands save no row that names files (cli/app.go, cli/oidc_client.go).
LEMMA CommandsMakeNoRow ==
  ASSUME TypeOK, NEW a \in Apps, EnableCmd(a) \/ ProvisionCmd(a) \/ RevokeCmd(a)
  PROVE  \A c \in Apps : row'[c] \in PortRange => row[c] \in PortRange
<1>1. row \in [Apps -> PortRange \cup {None, Unmanaged}] /\ Unmanaged \notin PortRange
  BY AppAssumption DEF TypeOK
<1>2. CASE EnableCmd(a)
  BY <1>1, <1>2 DEF EnableCmd
<1>3. CASE ProvisionCmd(a)
  BY <1>1, <1>3 DEF ProvisionCmd, MakeClient
<1>4. CASE RevokeCmd(a)
  BY <1>4 DEF RevokeCmd
<1> QED
  BY <1>2, <1>3, <1>4

\* Every step keeps AdoptInv.
LEMMA AdoptPreserved ==
  ASSUME TypeInv, AdoptInv, [Next]_vars
  PROVE  AdoptInv'
<1> TypeOK
  BY DEF TypeInv
<1> USE DEF PathsAdopted
<1>1. CASE UNCHANGED vars
  BY <1>1 DEF vars, AdoptInv, JobAdopted
<1>2. ASSUME NEW j \in Jobs, NEW a \in Apps, NEW caller \in {"portal", "cli"},
             \/ StartInstall(j, a, caller) \/ StartUninstall(j, a, caller)
             \/ \E pc \in {"start", "stop"} : LoadPath(j, a, pc)
      PROVE  AdoptInv'
  <2>1. /\ Moved(j) /\ job'[j].app = a
        /\ job'[j].pc \in {"provision", "render", "down", "cleanup", "start", "stop"}
        /\ job'[j].files => row[a] \in PortRange \/ compose[a] # None
        /\ UNCHANGED <<row, compose, adopted>>
    BY <1>2, Beginnings DEF resolveUninstallPaths
  <2>2. \A k \in Jobs \ {j} : JobAdopted(job[k])'
    BY <2>1 DEF AdoptInv, JobAdopted, Moved, Same
  <2>3. JobAdopted(job[j])'
    BY <2>1 DEF AdoptInv, JobAdopted
  <2> QED
    BY <2>1, <2>2, <2>3 DEF AdoptInv
<1>3. ASSUME NEW j \in Jobs, InstallStep(j)
      PROVE  AdoptInv'
  <2>1. CASE Provision(j)
    BY <2>1, InstallWent, AdoptStep, AppAssumption DEF Provision, MakeClient, AdoptInv, TypeOK
  <2>2. CASE renderCompose(j)
    BY <2>2, InstallWent, AdoptStep DEF renderCompose, AdoptInv, TypeOK
  <2>3. CASE MkdirData(j)
    BY <2>3, InstallWent, AdoptStep DEF MkdirData, AdoptInv, JobAdopted
  <2>4. CASE SaveSettings(j)
    BY <2>4, InstallWent, AdoptStep DEF SaveSettings, AdoptInv, JobAdopted, TypeOK
  <2>5. CASE Up(j)
    BY <2>5, InstallWent, AdoptStep DEF Up, AdoptInv
  <2>6. CASE PostUp(j)
    BY <2>6, InstallWent, AdoptStep DEF PostUp, AdoptInv
  <2> QED
    BY <1>3, <2>1, <2>2, <2>3, <2>4, <2>5, <2>6 DEF InstallStep
<1>4. ASSUME NEW j \in Jobs, UninstallStep(j)
      PROVE  AdoptInv'
  <2>1. CASE DownWithVolumes(j)
    BY <2>1, DownWent, AdoptStep DEF DownWithVolumes, AdoptInv
  <2>2. CASE CleanupClient(j)
    BY <2>2, UninstallWent, AdoptStep DEF CleanupClient, AdoptInv
  <2>3. CASE DeleteRow(j)
    BY <2>3, UninstallWent, AdoptStep, AppAssumption DEF DeleteRow, AdoptInv, TypeOK
  <2>4. CASE RemoveData(j)
    BY <2>4, UninstallWent, AdoptStep DEF RemoveData, AdoptInv
  <2>5. CASE RemoveCompose(j)
    BY <2>5, UninstallWent, AdoptStep DEF RemoveCompose, AdoptInv, TypeOK
  <2> QED
    BY <1>4, <2>1, <2>2, <2>3, <2>4, <2>5 DEF UninstallStep
<1>5. ASSUME NEW j \in Jobs, StartApp(j) \/ StopApp(j) \/ Leave(j)
      PROVE  AdoptInv'
  <2>1. UNCHANGED <<row, compose, adopted>>
    BY <1>5 DEF StartApp, StopApp, Leave
  <2> QED
    BY <1>5, <2>1, OthersWent, AdoptStep DEF AdoptInv
<1>6. ASSUME NEW a \in Apps, EnableCmd(a) \/ ProvisionCmd(a) \/ RevokeCmd(a)
      PROVE  AdoptInv'
  <2>1. \A k \in Jobs : Same(job'[k], job[k])
    BY <1>6, OthersMove DEF EnableCmd, ProvisionCmd, RevokeCmd
  <2>2. UNCHANGED <<compose, adopted>>
    BY <1>6 DEF EnableCmd, ProvisionCmd, RevokeCmd
  <2>3. \A c \in Apps : row'[c] \in PortRange => row[c] \in PortRange
    BY <1>6, CommandsMakeNoRow
  <2> QED
    BY <2>1, <2>2, <2>3 DEF AdoptInv, JobAdopted, Same
<1> QED
  BY <1>1, <1>2, <1>3, <1>4, <1>5, <1>6 DEF Next

\* Only the purge of an uninstall that has found the app's files takes its
\* data away.
LEMMA DataDeleted ==
  ASSUME TypeInv, [Next]_vars, NEW a \in Apps, data[a], ~data'[a]
  PROVE  \E j \in Jobs : RemoveData(j) /\ job[j].app = a /\ job[j].files
<1> TypeOK
  BY DEF TypeInv
<1> SUFFICES ASSUME data' # data
             PROVE  \E j \in Jobs : RemoveData(j) /\ job[j].app = a /\ job[j].files
  OBVIOUS
<1>1. CASE \E j \in Jobs : RemoveData(j)
  BY <1>1 DEF RemoveData, TypeOK
<1>2. CASE \E j \in Jobs : MkdirData(j)
  BY <1>2 DEF MkdirData, TypeOK
<1>3. ASSUME NEW j \in Jobs, NEW c \in Apps, NEW caller \in {"portal", "cli"},
             \/ StartInstall(j, c, caller) \/ StartUninstall(j, c, caller)
             \/ \E pc \in {"start", "stop"} : LoadPath(j, c, pc)
      PROVE  FALSE
  BY <1>3 DEF StartInstall, StartUninstall, LoadPath, Begin
<1>4. ASSUME NEW j \in Jobs, InstallStep(j)
      PROVE  MkdirData(j)
  BY <1>4 DEF InstallStep, Provision, renderCompose, SaveSettings, Up, PostUp
<1>5. ASSUME NEW j \in Jobs, UninstallStep(j)
      PROVE  RemoveData(j)
  BY <1>5 DEF UninstallStep, DownWithVolumes, CleanupClient, DeleteRow, RemoveCompose
<1>6. ASSUME NEW j \in Jobs, StartApp(j) \/ StopApp(j) \/ Leave(j)
      PROVE  FALSE
  BY <1>6 DEF StartApp, StopApp, Leave
<1>7. ASSUME NEW c \in Apps, EnableCmd(c) \/ ProvisionCmd(c) \/ RevokeCmd(c)
      PROVE  FALSE
  BY <1>7 DEF EnableCmd, ProvisionCmd, RevokeCmd
<1>8. ~UNCHANGED vars
  BY DEF vars
<1> QED
  BY <1>1, <1>2, <1>3, <1>4, <1>5, <1>6, <1>7, <1>8 DEF Next

\* A folder of an app's name that no install has taken over is never deleted,
\* however many jobs work on the app at once (cli/install.go:159-161).
THEOREM FoldersOfOthersSafe == Spec => OperatorDataSafe
<1>1. Init => TypeInv /\ AdoptInv
  <2> SUFFICES ASSUME Init
               PROVE  AdoptInv
    BY TypeInit
  <2>1. PathsAdopted
    BY AppAssumption DEF Init, PathsAdopted
  <2>2. \A j \in Jobs : job[j] = Idle
    BY DEF Init
  <2> QED
    BY <2>1, <2>2 DEF AdoptInv, JobAdopted, Idle
<1>2. TypeInv /\ AdoptInv /\ [Next]_vars => TypeInv' /\ AdoptInv'
  BY TypePreserved, AdoptPreserved
<1>3. TypeInv /\ AdoptInv /\ [Next]_vars
        => [\A a \in Apps : data[a] /\ ~data'[a] => a \in adopted]_vars
  BY DataDeleted DEF AdoptInv, JobAdopted
<1> QED
  BY <1>1, <1>2, <1>3, PTL DEF Spec, OperatorDataSafe

-----------------------------------------------------------------------------
(* What holds when jobs on one app do not overlap, but for installs that   *)
(* wait for each other's OIDC client.                                      *)

\* Jobs that are in each other's way are all installs.
Apart ==
  \A j, k \in Jobs :
    j # k /\ job[j].pc # "idle" /\ job[j].app = job[k].app =>
      job[j].pc \in InstallSteps \cup {"installed"}

\* What a job b has behind it: an install its compose file and its data folder,
\* an uninstall the containers and the row.
JobSafe(b) ==
  /\ b.pc \in {"mkdata", "save"} => compose[b.app] # None
  /\ b.pc = "save" => data[b.app]
  /\ b.pc \in {"cleanup", "delete"} /\ b.files /\ ~b.downErr => Settled(b.app)
  /\ b.pc \in {"purge", "remove"} =>
       /\ row[b.app] \notin PortRange
       /\ b.files => Settled(b.app)

JobsSafe == \A j \in Jobs : JobSafe(job[j])

SafeInv == Apart /\ JobsSafe /\ RowHasFiles /\ ContainersStoppable

\* A step on app a leaves the others alone.
Frame(a) ==
  \A c \in Apps \ {a} :
    /\ row'[c] = row[c] /\ compose'[c] = compose[c] /\ data'[c] = data[c]
    /\ containers'[c] = containers[c] /\ (c \in mistaken' <=> c \in mistaken)

\* App a's rows and files agree.
Kept(a) ==
  /\ row[a] \in PortRange => compose[a] # None /\ data[a]
  /\ compose[a] # None \/ Settled(a)

\* A job's step keeps SafeInv if it leaves its own app in order: installs in
\* each other's way only add files.
LEMMA SafeStep ==
  ASSUME TypeOK, SafeInv, NEW j \in Jobs, NEW from, NEW to, Went(j, from, to),
         NEW a \in Apps, job[j].app = a,
         from \in InstallSteps \cup {"installed"} =>
           /\ to \in InstallSteps \cup {"installed"}
           /\ compose[a] # None => compose'[a] # None
           /\ data[a] => data'[a],
         Frame(a), Kept(a)',
         job'[j] # Idle => JobSafe(job[j])'
  PROVE  SafeInv'
<1>1. job[j].pc = from /\ from # "idle"
  BY DEF Went, Working, Steps, InstallSteps, UninstallSteps
<1>2. \A k \in Jobs \ {j} : Same(job'[k], job[k])
  BY DEF Went, Moved
<1>3. \/ job'[j] = Idle
      \/ job'[j] \in Working /\ job'[j].pc = to /\ job'[j].app = a
  BY DEF Went
<1>4. Apart'
  <2> SUFFICES ASSUME NEW k \in Jobs, NEW l \in Jobs, k # l,
                      job'[k].pc # "idle", job'[k].app = job'[l].app
               PROVE  job'[k].pc \in InstallSteps \cup {"installed"}
    BY DEF Apart
  <2>1. job'[k].app \in Apps
    BY <1>1, <1>2, <1>3, JobCases DEF Same, Idle
  <2>2. CASE k = j
    <3>1. job[l].app = a /\ job'[j].pc = to
      BY <1>2, <1>3, <2>2 DEF Same, Idle
    <3> QED
      BY <1>1, <2>2, <3>1 DEF SafeInv, Apart
  <2>3. CASE l = j
    <3>1. job[k].app = a /\ job[k].pc # "idle" /\ job'[k].pc = job[k].pc
      BY <1>2, <1>3, <2>1, <2>3, AppAssumption DEF Same, Idle
    <3> QED
      BY <1>1, <2>3, <3>1 DEF SafeInv, Apart
  <2>4. CASE k # j /\ l # j
    BY <1>2, <2>4 DEF SafeInv, Apart, Same
  <2> QED
    BY <2>2, <2>3, <2>4
<1>5. ASSUME NEW k \in Jobs
      PROVE  JobSafe(job[k])'
  <2>1. CASE k = j
    BY <2>1 DEF JobSafe, Idle
  <2>2. CASE k # j /\ job[k].app = a /\ job[k].pc # "idle"
    <3>1. job[k].pc \in InstallSteps \cup {"installed"}
      BY <2>2 DEF SafeInv, Apart
    <3>2. from \in InstallSteps \cup {"installed"}
      BY <1>1, <2>2 DEF SafeInv, Apart
    <3> QED
      BY <1>1, <1>2, <2>2, <3>1, <3>2 DEF SafeInv, JobsSafe, JobSafe, Same, InstallSteps, Settled
  <2>3. CASE k # j /\ job[k].app # a /\ job[k].pc # "idle"
    BY <1>2, <2>3, JobCases DEF SafeInv, JobsSafe, JobSafe, Same, Frame, Settled
  <2>4. CASE k # j /\ job[k].pc = "idle"
    BY <1>2, <2>4 DEF JobSafe, Same
  <2> QED
    BY <2>1, <2>2, <2>3, <2>4
<1>6. RowHasFiles' /\ ContainersStoppable'
  BY <1>1 DEF SafeInv, RowHasFiles, ContainersStoppable, Frame, Kept, Settled
<1> QED
  BY <1>4, <1>5, <1>6 DEF SafeInv, JobsSafe

\* A job that begins is in nobody's way, or an install among installs.
LEMMA SafeBegin ==
  ASSUME TypeOK, Exclusive, SafeInv,
         NEW j \in Jobs, NEW a \in Apps, NEW caller \in {"portal", "cli"},
         \/ StartInstall(j, a, caller) \/ StartUninstall(j, a, caller)
         \/ \E pc \in {"start", "stop"} : LoadPath(j, a, pc)
  PROVE  SafeInv'
<1>1. /\ Moved(j) /\ job'[j].app = a
      /\ job'[j].pc \in {"provision", "render", "down", "cleanup", "start", "stop"}
      /\ job'[j].files => job'[j].pc = "down"
      /\ job[j] = Idle
      /\ \A k \in Jobs : job[k].app = a =>
           job[k].pc \in InstallSteps /\ job'[j].pc \in InstallSteps
      /\ UNCHANGED <<row, client, compose, data, containers, mistaken, minted, adopted>>
  BY Beginnings
<1>2. \A k \in Jobs \ {j} : Same(job'[k], job[k])
  BY <1>1 DEF Moved
<1>3. Apart'
  BY <1>1, <1>2 DEF SafeInv, Apart, Same
<1>4. \A k \in Jobs \ {j} : JobSafe(job[k])'
  BY <1>1, <1>2 DEF SafeInv, JobsSafe, JobSafe, Same, Settled
<1>5. JobSafe(job[j])'
  BY <1>1 DEF JobSafe
<1>6. RowHasFiles' /\ ContainersStoppable'
  BY <1>1 DEF SafeInv, RowHasFiles, ContainersStoppable, Settled
<1> QED
  BY <1>3, <1>4, <1>5, <1>6 DEF SafeInv, JobsSafe

\* An install writes its files before its row.
LEMMA SafeInstall ==
  ASSUME TypeInv, SafeInv, NEW j \in Jobs, NEW a \in Apps, job[j].app = a, InstallStep(j)
  PROVE  SafeInv'
<1> TypeOK
  BY DEF TypeInv
<1>1. job[j].pc \in InstallSteps /\ JobSafe(job[j]) /\ Kept(a)
  BY JobCases DEF InstallStep, Provision, renderCompose, MkdirData, SaveSettings, Up,
    PostUp, InstallSteps, SafeInv, JobsSafe, Kept, RowHasFiles, ContainersStoppable
<1> USE DEF Frame, Kept, JobSafe, InstallSteps, Settled
<1>2. CASE Provision(j)
  <2>1. Frame(a) /\ Kept(a)'
    BY <1>1, <1>2, AppAssumption DEF Provision, MakeClient, TypeOK
  <2>2. job'[j] # Idle => JobSafe(job[j])'
    BY <1>2, InstallWent DEF Went
  <2> QED
    <3>1. UNCHANGED <<compose, data>>
      BY <1>2 DEF Provision
    <3> QED
      BY <1>1, <1>2, <2>1, <2>2, <3>1, InstallWent, SafeStep
<1>3. CASE renderCompose(j)
  <2>1. Frame(a) /\ compose'[a] # None /\ UNCHANGED <<row, data, containers, mistaken>>
    <3>1. [port |-> job[j].port, client |-> job[j].client] # None
      <4>1. job[j].port \in PortRange
        BY <1>1 DEF TypeInv, PortKnown
      <4>2. job[j].client \in Nat \cup {None}
        BY <1>1, JobCases, AppAssumption DEF Working, ClientIds
      <4> QED
        BY <4>1, <4>2, AppAssumption
    <3> QED
      BY <1>1, <1>3, <3>1 DEF renderCompose, TypeOK
  <2>2. job'[j] # Idle => JobSafe(job[j])'
    BY <1>3, <2>1, InstallWent DEF Went
  <2>3. Kept(a)'
    BY <1>1, <2>1
  <2> QED
    BY <1>1, <1>3, <2>1, <2>2, <2>3, InstallWent, SafeStep
<1>4. CASE MkdirData(j)
  <2>1. Frame(a) /\ data'[a] /\ UNCHANGED <<row, compose, containers, mistaken>>
    BY <1>1, <1>4 DEF MkdirData, TypeOK
  <2>2. compose[a] # None
    BY <1>1, <1>4 DEF MkdirData
  <2>3. job'[j] # Idle => JobSafe(job[j])'
    BY <1>4, <2>1, <2>2, InstallWent DEF Went
  <2>4. Kept(a)'
    BY <1>1, <2>1
  <2> QED
    BY <1>1, <1>4, <2>1, <2>3, <2>4, InstallWent, SafeStep
<1>5. CASE SaveSettings(j)
  <2>1. Frame(a) /\ UNCHANGED <<compose, data, containers, mistaken>>
    BY <1>1, <1>5 DEF SaveSettings, TypeOK
  <2>2. compose[a] # None /\ data[a]
    BY <1>1, <1>5 DEF SaveSettings
  <2>3. job'[j] # Idle => JobSafe(job[j])'
    BY <1>5, InstallWent DEF Went
  <2>4. Kept(a)'
    BY <1>1, <2>1, <2>2
  <2> QED
    BY <1>1, <1>5, <2>1, <2>3, <2>4, InstallWent, SafeStep
<1>6. CASE Up(j)
  <2>1. Frame(a) /\ Kept(a)' /\ UNCHANGED <<compose, data>>
    BY <1>1, <1>6, DockerTypes, MistakenTypes DEF Up
  <2>2. job'[j] # Idle => JobSafe(job[j])'
    BY <1>6, InstallWent DEF Went
  <2> QED
    BY <1>1, <1>6, <2>1, <2>2, InstallWent, SafeStep
<1>7. CASE PostUp(j)
  <2>1. Frame(a) /\ Kept(a)' /\ UNCHANGED <<compose, data>>
    BY <1>1, <1>7 DEF PostUp
  <2>2. job'[j] # Idle => JobSafe(job[j])'
    BY <1>7, InstallWent DEF Went
  <2> QED
    BY <1>1, <1>7, <2>1, <2>2, InstallWent, SafeStep
<1> QED
  BY <1>2, <1>3, <1>4, <1>5, <1>6, <1>7 DEF InstallStep

\* An uninstall deletes the row before the files, and the files only of
\* containers it has seen stop, or thinks it has.
LEMMA SafeUninstall ==
  ASSUME TypeOK, SafeInv, NEW j \in Jobs, NEW a \in Apps, job[j].app = a, UninstallStep(j)
  PROVE  SafeInv'
<1>1. /\ job[j].pc \in UninstallSteps /\ JobSafe(job[j]) /\ Kept(a)
  BY JobCases DEF UninstallStep, DownWithVolumes, CleanupClient, DeleteRow, RemoveData,
    RemoveCompose, UninstallSteps, SafeInv, JobsSafe, Kept, RowHasFiles,
    ContainersStoppable
<1> USE DEF Frame, Kept, JobSafe, InstallSteps, Settled
<1>2. CASE DownWithVolumes(j)
  <2>1. Frame(a) /\ Kept(a)' /\ UNCHANGED <<row, compose, data>>
    BY <1>1, <1>2, DownDoes
  <2>2. job'[j] # Idle => JobSafe(job[j])'
    <3>1. job'[j].pc = "cleanup" /\ ~job'[j].downErr => Settled(a)'
      BY <1>1, <1>2, DownSettles
    <3> QED
      BY <1>2, <3>1, DownWent DEF Went
  <2> QED
    BY <1>1, <1>2, <2>1, <2>2, DownWent, SafeStep
<1>3. CASE CleanupClient(j)
  <2>1. Frame(a) /\ Kept(a)' /\ UNCHANGED <<row, compose, data, containers, mistaken>>
    BY <1>1, <1>3 DEF CleanupClient
  <2>2. job'[j] # Idle => JobSafe(job[j])'
    BY <1>1, <1>3, <2>1, UninstallWent DEF Went, CleanupClient
  <2> QED
    BY <1>1, <1>3, <2>1, <2>2, UninstallWent, SafeStep
<1>4. CASE DeleteRow(j)
  <2>1. /\ Frame(a) /\ row'[a] = None /\ None \notin PortRange
        /\ UNCHANGED <<compose, data, containers, mistaken>>
    BY <1>1, <1>4, AppAssumption DEF DeleteRow, TypeOK
  <2>2. job'[j] # Idle => JobSafe(job[j])'
    <3>1. job[j].pc = "delete"
      BY <1>4 DEF DeleteRow
    <3>2. job[j].files /\ ~job[j].downErr => Settled(a)'
      BY <1>1, <2>1, <3>1
    <3>3. job'[j] # Idle => /\ job'[j].pc = "purge" /\ job'[j].app = a
                            /\ job'[j].files = job[j].files /\ ~job[j].downErr
      BY <1>4, UninstallWent DEF Went
    <3> QED
      BY <2>1, <3>2, <3>3
  <2>3. Kept(a)'
    BY <1>1, <2>1
  <2> QED
    BY <1>1, <1>4, <2>1, <2>2, <2>3, UninstallWent, SafeStep
<1>5. CASE RemoveData(j)
  <2>1. Frame(a) /\ UNCHANGED <<row, compose, containers, mistaken>>
    BY <1>1, <1>5 DEF RemoveData, TypeOK
  <2>2. row[a] \notin PortRange /\ (job[j].files => Settled(a))
    BY <1>1, <1>5 DEF RemoveData
  <2>3. job'[j] # Idle => JobSafe(job[j])'
    BY <1>5, <2>1, <2>2, UninstallWent DEF Went
  <2>4. Kept(a)'
    BY <1>1, <2>1, <2>2
  <2> QED
    BY <1>1, <1>5, <2>1, <2>3, <2>4, UninstallWent, SafeStep
<1>6. CASE RemoveCompose(j)
  <2>1. Frame(a) /\ UNCHANGED <<row, data, containers, mistaken>>
    BY <1>1, <1>6 DEF RemoveCompose, TypeOK
  <2>2. row[a] \notin PortRange /\ (job[j].files => Settled(a))
    BY <1>1, <1>6 DEF RemoveCompose
  <2>3. ~job[j].files => compose' = compose
    BY <1>6 DEF RemoveCompose
  <2>4. job'[j] # Idle => JobSafe(job[j])'
    BY <1>6, UninstallWent DEF Went
  <2>5. Kept(a)'
    BY <1>1, <2>1, <2>2, <2>3
  <2> QED
    BY <1>1, <1>6, <2>1, <2>4, <2>5, UninstallWent, SafeStep
<1> QED
  BY <1>2, <1>3, <1>4, <1>5, <1>6 DEF UninstallStep

\* Every step keeps SafeInv.
LEMMA SafePreserved ==
  ASSUME Exclusive, TypeInv, SafeInv, [Next]_vars
  PROVE  SafeInv'
<1> TypeOK
  BY DEF TypeInv
<1>1. CASE UNCHANGED vars
  BY <1>1 DEF vars, SafeInv, Apart, JobsSafe, JobSafe, RowHasFiles, ContainersStoppable,
    Settled
<1>2. ASSUME NEW j \in Jobs, StartApp(j) \/ StopApp(j) \/ Leave(j)
      PROVE  SafeInv'
  <2> job[j] \in Working
    BY <1>2, OthersWent DEF Went
  <2>0. PICK a \in Apps : job[j].app = a
    BY DEF Working
  <2>1. /\ job'[j] = Idle
        /\ \/ Went(j, "start", "installed")
           \/ Went(j, "stop", "installed")
           \/ Went(j, job[j].pc, "installed")
    BY <1>2, OthersWent, JobCases DEF Went
  <2>2. Kept(a)
    BY <2>1 DEF SafeInv, RowHasFiles, ContainersStoppable, Kept
  <2>3. Frame(a) /\ Kept(a)' /\ UNCHANGED <<row, compose, data>>
    <3>1. CASE Leave(j)
      BY <2>0, <2>1, <2>2, <3>1 DEF Leave, Frame, Kept, Settled
    <3>2. CASE StartApp(j)
      BY <2>0, <2>1, <2>2, <3>2, DockerTypes, MistakenTypes DEF StartApp, Frame, Kept, Settled
    <3>3. CASE StopApp(j)
      BY <2>0, <2>1, <2>2, <3>3, DockerTypes, MistakenTypes DEF StopApp, Frame, Kept, Settled
    <3> QED
      BY <1>2, <3>1, <3>2, <3>3
  <2> QED
    BY <2>0, <2>1, <2>3, SafeStep
<1>3. ASSUME NEW a \in Apps, EnableCmd(a) \/ ProvisionCmd(a) \/ RevokeCmd(a)
      PROVE  SafeInv'
  <2>1. \A k \in Jobs : Same(job'[k], job[k])
    BY <1>3, OthersMove DEF EnableCmd, ProvisionCmd, RevokeCmd
  <2>2. UNCHANGED <<compose, data, containers, mistaken>>
    BY <1>3 DEF EnableCmd, ProvisionCmd, RevokeCmd
  <2>3. \A c \in Apps : row'[c] \in PortRange => row[c] \in PortRange
    BY <1>3, CommandsMakeNoRow
  <2>4. Apart'
    BY <2>1 DEF SafeInv, Apart, Same
  <2>5. JobsSafe'
    <3> SUFFICES ASSUME NEW k \in Jobs
                 PROVE  JobSafe(job[k])'
      BY DEF JobsSafe
    <3>1. CASE job[k].pc = "idle"
      BY <2>1, <3>1 DEF JobSafe, Same
    <3>2. CASE job[k].pc # "idle"
      BY <2>1, <2>2, <2>3, <3>2, JobCases DEF SafeInv, JobsSafe, JobSafe, Same, Settled
    <3> QED
      BY <3>1, <3>2
  <2>6. RowHasFiles' /\ ContainersStoppable'
    BY <2>2, <2>3 DEF SafeInv, RowHasFiles, ContainersStoppable, Settled
  <2> QED
    BY <2>4, <2>5, <2>6 DEF SafeInv
<1>4. ASSUME NEW j \in Jobs, InstallStep(j) \/ UninstallStep(j)
      PROVE  SafeInv'
  <2>1. job[j].app \in Apps
    BY <1>4, JobCases DEF InstallStep, Provision, renderCompose, MkdirData, SaveSettings,
      Up, PostUp, UninstallStep, DownWithVolumes, CleanupClient, DeleteRow, RemoveData,
      RemoveCompose
  <2> QED
    BY <1>4, <2>1, SafeInstall, SafeUninstall
<1> QED
  BY <1>1, <1>2, <1>3, <1>4, SafeBegin DEF Next

\* So SafeInv holds in every reachable state.
LEMMA AlwaysSafe == ASSUME Exclusive PROVE Spec => [](TypeInv /\ SafeInv)
<1>1. Init => SafeInv
  <2> SUFFICES ASSUME Init
               PROVE  SafeInv
    OBVIOUS
  <2>1. \A j \in Jobs : job[j] = Idle
    BY DEF Init
  <2>2. RowHasFiles /\ ContainersStoppable
    BY AppAssumption DEF Init, RowHasFiles, ContainersStoppable, Settled
  <2> QED
    BY <2>1, <2>2 DEF SafeInv, Apart, JobsSafe, JobSafe, Idle
<1>2. TypeInv /\ SafeInv /\ [Next]_vars => TypeInv' /\ SafeInv'
  BY TypePreserved, SafePreserved
<1> QED
  BY <1>1, <1>2, TypeInit, PTL DEF Spec

\* A row that names files names files that are there, wherever an install or an
\* uninstall stops (install.go:89-114, uninstall.go:68-96).
THEOREM RowsHaveFiles == ASSUME Exclusive PROVE Spec => []RowHasFiles
<1>1. SafeInv => RowHasFiles
  BY DEF SafeInv
<1> QED
  BY <1>1, AlwaysSafe, PTL

\* Containers are never left without the compose file that stops them, also
\* when a forced uninstall goes on after an error; unless that error was taken
\* for a missing compose file (uninstall.go:56-82).
THEOREM ContainersStayStoppable == ASSUME Exclusive PROVE Spec => []ContainersStoppable
<1>1. SafeInv => ContainersStoppable
  BY DEF SafeInv
<1> QED
  BY <1>1, AlwaysSafe, PTL

\* Data goes only when the containers are down, or compose down failed and was
\* taken for done: no crash, failure or order of jobs that are kept apart leads to
\* it otherwise (uninstall.go:54-88).
THEOREM DeletionsAfterDown == ASSUME Exclusive PROVE Spec => DeletionAfterDown
<1>1. TypeInv /\ SafeInv /\ [Next]_vars
        => [\A a \in Apps : data[a] /\ ~data'[a] => Settled(a)]_vars
  BY DataDeleted DEF SafeInv, JobsSafe, JobSafe, RemoveData
<1> QED
  BY <1>1, AlwaysSafe, PTL DEF Spec, DeletionAfterDown

\* Only an app of which docker may print that a file is missing is mistaken for
\* one that is down.
LEMMA MistakenStays ==
  ASSUME TypeOK, mistaken \subseteq Misread, [Next]_vars
  PROVE  mistaken' \subseteq Misread
<1>1. CASE UNCHANGED vars
  BY <1>1 DEF vars
<1>2. ASSUME NEW j \in Jobs, DownWithVolumes(j)
      PROVE  mistaken' \subseteq Misread
  BY <1>2 DEF DownWithVolumes, isMissingComposeFile, DownWorks
<1>3. ASSUME NEW j \in Jobs, Up(j) \/ StartApp(j) \/ StopApp(j)
      PROVE  mistaken' \subseteq Misread
  BY <1>3 DEF Up, StartApp, StopApp, UpWorks, UpFails, DownWorks
<1>4. ASSUME NEW j \in Jobs, InstallStep(j) \/ UninstallStep(j)
      PROVE  mistaken' = mistaken \/ Up(j) \/ DownWithVolumes(j)
  BY <1>4 DEF InstallStep, UninstallStep, Provision, renderCompose, MkdirData,
    SaveSettings, PostUp, CleanupClient, DeleteRow, RemoveData, RemoveCompose
<1>5. ASSUME NEW j \in Jobs, NEW a \in Apps, NEW caller \in {"portal", "cli"},
             \/ StartInstall(j, a, caller) \/ StartUninstall(j, a, caller)
             \/ \E pc \in {"start", "stop"} : LoadPath(j, a, pc)
      PROVE  mistaken' = mistaken
  BY <1>5, Beginnings
<1>6. ASSUME NEW j \in Jobs, Leave(j)
      PROVE  mistaken' = mistaken
  BY <1>6 DEF Leave
<1>7. ASSUME NEW a \in Apps, EnableCmd(a) \/ ProvisionCmd(a) \/ RevokeCmd(a)
      PROVE  mistaken' = mistaken
  BY <1>7 DEF EnableCmd, ProvisionCmd, RevokeCmd
<1> QED
  BY <1>1, <1>2, <1>3, <1>4, <1>5, <1>6, <1>7 DEF Next

\* What uninstall.go:77-78 says holds of all apps if jobs on one app are kept
\* apart and docker's failures never tell of a missing file.
THEOREM FilesGoLast ==
  ASSUME Exclusive, Misread = {} PROVE Spec => NoDeletionUnderRunning
<1>1. Init => mistaken \subseteq Misread
  BY DEF Init
<1>2. TypeInv /\ mistaken \subseteq Misread /\ [Next]_vars => (mistaken \subseteq Misread)'
  BY MistakenStays DEF TypeInv
<1>3. TypeInv /\ SafeInv /\ mistaken \subseteq Misread /\ [Next]_vars
        => [\A a \in Apps : data[a] /\ ~data'[a] => containers[a] = None]_vars
  BY DataDeleted DEF SafeInv, JobsSafe, JobSafe, RemoveData, Settled
<1> QED
  BY <1>1, <1>2, <1>3, AlwaysSafe, PTL DEF Spec, NoDeletionUnderRunning

-----------------------------------------------------------------------------
(* What a job that nobody has disturbed has behind it, whoever starts jobs *)
(* and when.                                                               *)

Provisioned == {"render", "mkdata", "save", "up", "postup", "installed"}
Composed == {"mkdata", "save", "up", "postup", "installed"}

\* An install has left what it has written, and the only client.
InstallDone(b) ==
  /\ b.pc \in Provisioned /\ b.app \in NeedsOIDC =>
       b.client # None /\ client[b.app] = b.client
  /\ b.pc \in Composed => compose[b.app] = [port |-> b.port, client |-> b.client]
  /\ b.pc \in {"save", "up", "postup", "installed"} => data[b.app]
  /\ b.pc \in {"up", "postup", "installed"} => row[b.app] = b.port
  /\ b.pc \in {"postup", "installed"} => containers[b.app] = b.port

\* An uninstall has left nothing of what it has deleted.
UninstallDone(b) ==
  /\ b.pc = "down" => b.files
  /\ b.pc \in {"delete", "purge", "remove", "uninstalled"} => client[b.app] = None
  /\ b.pc \in {"purge", "remove", "uninstalled"} => row[b.app] = None
  /\ b.pc \in {"remove", "uninstalled"} /\ b.files /\ ~b.keep => ~data[b.app]
  /\ b.pc = "uninstalled" /\ b.files => compose[b.app] = None
  /\ b.pc \in {"cleanup", "delete", "purge", "remove", "uninstalled"} =>
       (~b.files /\ b.caller = "cli" => compose[b.app] = None)

Done(b) == b.clean => InstallDone(b) /\ UninstallDone(b)

\* No two installs have drawn the same client.
ClientsApart ==
  /\ \A j \in Jobs : job[j].client \in {None} \cup 1..minted
  /\ \A j, k \in Jobs : j # k /\ job[j].client = job[k].client => job[j].client = None

DoneInv == ClientsApart /\ \A j \in Jobs : Done(job[j])

\* A step on app a leaves the rows and files of the others alone.
Wide(a) == Frame(a) /\ \A c \in Apps \ {a} : client'[c] = client[c]

\* Whoever is on the app of job j is told that it moves.
Told(j) ==
  \A k \in Jobs \ {j} :
    job'[k].clean => /\ job'[k] = job[k]
                     /\ job[k].app # job[j].app \/ Harmless(job[j], job[k])

\* Job j goes to step pc with what it has, or ends.
Onward(j, pc) ==
  /\ Moved(j) /\ Told(j) /\ job[j] \in Working
  /\ job'[j].pc = pc /\ job'[j].app = job[j].app /\ job'[j].clean = job[j].clean
  /\ job'[j].port = job[j].port /\ job'[j].client = job[j].client
  /\ job'[j].files = job[j].files /\ job'[j].keep = job[j].keep
  /\ job'[j].caller = job[j].caller
Ended(j) == Moved(j) /\ Told(j) /\ job[j] \in Working /\ job'[j] = Idle

LEMMA GotoTold ==
  ASSUME TypeOK, NEW j \in Jobs, NEW b, Goto(j, b)
  PROVE  Told(j)
<1>1. ASSUME NEW k \in Jobs
      PROVE  ~[job[k] EXCEPT !.clean = FALSE].clean
  BY JobCases DEF Idle, Working
<1>2. ASSUME NEW k \in Jobs \ {j}, job'[k].clean
      PROVE  /\ job'[k] = job[k]
             /\ job[k].app # job[j].app \/ Harmless(job[j], job[k])
  <2>1. job'[k] = IF job[k].app = job[j].app /\ ~Harmless(job[j], job[k])
                    THEN [job[k] EXCEPT !.clean = FALSE] ELSE job[k]
    BY <1>2 DEF Goto
  <2> QED
    BY <1>1, <1>2, <2>1
<1> QED
  BY <1>2 DEF Told

LEMMA GoesOnward ==
  ASSUME TypeOK, NEW j \in Jobs, job[j].pc # "idle"
  PROVE  /\ \A pc \in Steps : Proceed(j, pc) => Onward(j, pc)
         /\ Goto(j, Idle) => Ended(j)
<1>1. job[j] \in Working
  BY JobCases
<1>2. ASSUME NEW pc \in Steps, Proceed(j, pc) PROVE Onward(j, pc)
  <2>1. Moved(j) /\ job'[j] = [job[j] EXCEPT !.pc = pc]
    BY <1>2, ProceedMoves
  <2>2. Told(j)
    BY <1>2, GotoTold DEF Proceed
  <2> QED
    BY <1>1, <2>1, <2>2 DEF Onward, Working
<1>3. ASSUME Goto(j, Idle) PROVE Ended(j)
  BY <1>1, <1>3, GotoTold, GotoMoves DEF Ended, JobStates
<1> QED
  BY <1>2, <1>3

\* An install that has its client keeps every other install of the app from
\* getting one, and those that have none yet have nothing behind them.
LEMMA OthersDone ==
  ASSUME TypeOK, DoneInv, NEW j \in Jobs, NEW a \in Apps, job[j].app = a, Told(j), Wide(a),
         job[j].pc = "provision" => client[a] = None,
         NEW k \in Jobs \ {j}
  PROVE  Done(job[k])'
<1> SUFFICES ASSUME job'[k].clean
             PROVE  InstallDone(job[k])' /\ UninstallDone(job[k])'
  BY DEF Done
<1>1. /\ job'[k] = job[k] /\ job[k].clean
      /\ job[k].app # a \/ Harmless(job[j], job[k])
  BY DEF Told
<1>2. job[k].app \in Apps /\ InstallDone(job[k]) /\ UninstallDone(job[k])
  <2>1. job[k] \in Working
    BY <1>1, JobCases DEF Idle
  <2> QED
    BY <1>1, <2>1 DEF Working, DoneInv, Done
<1>3. CASE job[k].app # a
  <2>1. /\ row'[job[k].app] = row[job[k].app] /\ client'[job[k].app] = client[job[k].app]
        /\ compose'[job[k].app] = compose[job[k].app] /\ data'[job[k].app] = data[job[k].app]
        /\ containers'[job[k].app] = containers[job[k].app]
    BY <1>2, <1>3 DEF Wide, Frame
  <2> QED
    BY <1>1, <1>2, <2>1 DEF InstallDone, UninstallDone
<1>4. CASE job[k].app = a
  <2>1. /\ job[j].pc \in InstallSteps /\ job[j].clean
        /\ job[k].pc \in InstallSteps /\ a \in NeedsOIDC
    BY <1>1, <1>4 DEF Harmless, Installing
  <2>2. job[k].pc = "provision"
    <3>1. ASSUME job[k].pc # "provision" PROVE FALSE
      <4>1. client[a] = job[k].client /\ job[k].client # None
        BY <1>2, <1>4, <2>1, <3>1 DEF InstallDone, Provisioned, InstallSteps
      <4>2. job[j].pc # "provision"
        BY <4>1
      <4>3. client[a] = job[j].client
        BY <2>1, <4>2 DEF DoneInv, Done, InstallDone, Provisioned, InstallSteps
      <4> QED
        BY <4>1, <4>3 DEF DoneInv, ClientsApart
    <3> QED
      BY <3>1
  <2> QED
    BY <1>1, <2>2 DEF InstallDone, UninstallDone, Provisioned, Composed
<1> QED
  BY <1>3, <1>4

LEMMA ClientsKept ==
  ASSUME DoneInv, minted' = minted,
         \A k \in Jobs : job'[k].client = job[k].client \/ job'[k].client = None
  PROVE  ClientsApart'
BY DEF DoneInv, ClientsApart

\* A job's step keeps DoneInv if it leaves the job with what it should have.
LEMMA DoneStep ==
  ASSUME TypeOK, DoneInv, NEW j \in Jobs, NEW a \in Apps, job[j].app = a, Wide(a),
         job[j].pc # "provision", minted' = minted,
         \/ Ended(j)
         \/ \E pc \in Steps : Onward(j, pc) /\ (job[j].clean => Done(job[j])')
  PROVE  DoneInv'
<1>1. Told(j) /\ Moved(j) /\ Done(job[j])'
  BY DEF Ended, Onward, Done, Idle
<1>2. ClientsApart'
  <2>1. \A k \in Jobs : job'[k].client = job[k].client \/ job'[k].client = None
    BY DEF Ended, Onward, Moved, Same, Idle
  <2> QED
    BY <2>1, ClientsKept
<1>3. \A k \in Jobs \ {j} : Done(job[k])'
  BY <1>1, OthersDone
<1> QED
  BY <1>1, <1>2, <1>3 DEF DoneInv

\* Jobs that end or begin are no news to the others.
LEMMA DoneStays ==
  ASSUME DoneInv, NEW j \in Jobs, \A k \in Jobs \ {j} : job'[k] = job[k],
         job'[j].client = None, Done(job[j])',
         UNCHANGED <<row, client, compose, data, containers, minted>>
  PROVE  DoneInv'
<1>1. ClientsApart'
  BY ClientsKept
<1>2. \A k \in Jobs \ {j} : Done(job[k])'
  BY DEF DoneInv, Done, InstallDone, UninstallDone
<1> QED
  BY <1>1, <1>2 DEF DoneInv

LEMMA DoneBegin ==
  ASSUME TypeOK, DoneInv,
         NEW j \in Jobs, NEW a \in Apps, NEW caller \in {"portal", "cli"},
         \/ StartInstall(j, a, caller) \/ StartUninstall(j, a, caller)
         \/ \E pc \in {"start", "stop"} : LoadPath(j, a, pc)
  PROVE  DoneInv'
<1>1. ASSUME NEW b, Begin(j, a, b), job'[j].client = None, Done(job[j])' PROVE DoneInv'
  <2>1. \A k \in Jobs \ {j} : job'[k] = job[k]
    BY <1>1 DEF Begin, TypeOK
  <2> QED
    BY <1>1, <2>1, DoneStays DEF Begin
<1>2. ASSUME StartInstall(j, a, caller) PROVE DoneInv'
  <2>0. PICK pc \in {"provision", "render"} :
          pc = IF a \in NeedsOIDC THEN "provision" ELSE "render"
    OBVIOUS
  <2>1. PICK p : Begin(j, a, [Idle EXCEPT !.pc = pc, !.port = p])
    BY <1>2, <2>0 DEF StartInstall
  <2>2. job'[j] = [[Idle EXCEPT !.pc = pc, !.port = p] EXCEPT !.app = a, !.clean = TRUE]
    BY <2>1 DEF Begin, TypeOK
  <2>3. job'[j].pc = pc /\ job'[j].app = a /\ job'[j].client = None
    BY <2>2 DEF Idle
  <2>4. Done(job[j])'
    BY <2>0, <2>3 DEF Done, InstallDone, UninstallDone, Provisioned, Composed
  <2> QED
    BY <1>1, <2>1, <2>3, <2>4
<1>3. ASSUME StartUninstall(j, a, caller) PROVE DoneInv'
  <2>1. PICK keep \in BOOLEAN :
          LET files == resolveUninstallPaths(a, caller) IN
          Begin(j, a, [Idle EXCEPT !.pc = IF files THEN "down" ELSE "cleanup",
            !.caller = caller, !.files = files, !.keep = keep])
    BY <1>3 DEF StartUninstall
  <2> DEFINE files == resolveUninstallPaths(a, caller)
             b == [Idle EXCEPT !.pc = IF files THEN "down" ELSE "cleanup",
                     !.caller = caller, !.files = files, !.keep = keep]
  <2>2. job'[j] = [b EXCEPT !.app = a, !.clean = TRUE] /\ UNCHANGED compose
    BY <2>1 DEF Begin, TypeOK
  <2>3. PICK f : f = files
    OBVIOUS
  <2>4. /\ job'[j].pc = (IF f THEN "down" ELSE "cleanup") /\ job'[j].app = a
        /\ job'[j].client = None /\ job'[j].files = f /\ job'[j].caller = caller
    BY <2>2, <2>3 DEF Idle
  <2>5. ~f /\ caller = "cli" => compose[a] = None
    BY <2>3 DEF resolveUninstallPaths
  <2>6. Done(job[j])'
    BY <2>2, <2>4, <2>5 DEF Done, InstallDone, UninstallDone, Provisioned, Composed
  <2> QED
    BY <1>1, <2>1, <2>4, <2>6
<1>4. ASSUME NEW pc \in {"start", "stop"}, LoadPath(j, a, pc) PROVE DoneInv'
  <2>1. job'[j] = [[Idle EXCEPT !.pc = pc] EXCEPT !.app = a, !.clean = TRUE]
    BY <1>4 DEF LoadPath, Begin, TypeOK
  <2>2. job'[j].pc = pc /\ job'[j].client = None
    BY <2>1 DEF Idle
  <2>3. Done(job[j])'
    BY <2>2 DEF Done, InstallDone, UninstallDone, Provisioned, Composed
  <2> QED
    BY <1>1, <1>4, <2>2, <2>3 DEF LoadPath
<1> QED
  BY <1>2, <1>3, <1>4

\* An install that is not disturbed adds to what it has behind it.
LEMMA DoneInstall ==
  ASSUME TypeInv, DoneInv, NEW j \in Jobs, NEW a \in Apps, job[j].app = a, InstallStep(j)
  PROVE  DoneInv'
<1> TypeOK
  BY DEF TypeInv
<1>0. /\ job[j].pc \in InstallSteps /\ job[j] \in Working
      /\ job[j].clean => InstallDone(job[j])
  BY JobCases DEF InstallStep, Provision, renderCompose, MkdirData, SaveSettings, Up,
    PostUp, InstallSteps, DoneInv, Done
<1> USE DEF Frame, Wide
<1>1. CASE Provision(j)
  <2> DEFINE c == minted + 1
  <2>1. /\ job[j].pc = "provision" /\ client[a] = None /\ minted' = minted + 1
        /\ client' = [client EXCEPT ![a] = minted + 1]
        /\ row' = [row EXCEPT ![a] = IF @ = None THEN Unmanaged ELSE @]
        /\ UNCHANGED <<compose, data, containers, mistaken>>
        /\ Goto(j, [job[j] EXCEPT !.pc = "render", !.client = minted + 1])
    BY <1>1 DEF Provision, MakeClient
  <2>2. Wide(a) /\ client'[a] = minted + 1
    BY <2>1 DEF TypeOK
  <2>3. /\ job'[j].pc = "render" /\ job'[j].client = minted + 1 /\ job'[j].app = a
        /\ Told(j)
    <3>1. job'[j] = [job[j] EXCEPT !.pc = "render", !.client = minted + 1]
      BY <2>1 DEF Goto
    <3> QED
      BY <1>0, <2>1, <3>1, GotoTold DEF Working
  <2>4. minted \in Nat /\ minted + 1 # None
    BY AppAssumption DEF TypeOK
  <2>5. Done(job[j])'
    BY <2>2, <2>3, <2>4 DEF Done, InstallDone, UninstallDone, Composed
  <2>6. \A k \in Jobs \ {j} : Done(job[k])'
    BY <2>1, <2>2, <2>3, OthersDone
  <2>7. ClientsApart'
    <3>1. \A k \in Jobs \ {j} : job'[k].client = job[k].client
      BY <1>1, InstallWent DEF Went, Moved, Same
    <3>2. \A k \in Jobs : job[k].client # None => job[k].client \in 1..minted
      BY DEF DoneInv, ClientsApart
    <3>3. \A k \in Jobs \ {j} : job'[k].client # None => job'[k].client # minted + 1
      BY <2>4, <3>1, <3>2
    <3>4. \A k \in Jobs : job'[k].client \in {None} \cup 1..minted'
      <4>1. \A k \in Jobs \ {j} : job'[k].client \in {None} \cup 1..minted'
        BY <2>1, <2>4, <3>1, <3>2
      <4>2. job'[j].client \in 1..minted'
        BY <2>1, <2>3, <2>4
      <4> QED
        BY <4>1, <4>2
    <3>5. ASSUME NEW k \in Jobs, NEW l \in Jobs, k # l, job'[k].client = job'[l].client
          PROVE  job'[k].client = None
      <4>1. CASE k # j /\ l # j
        BY <3>1, <3>5, <4>1 DEF DoneInv, ClientsApart
      <4>2. CASE k = j \/ l = j
        BY <2>3, <2>4, <3>3, <3>5, <4>2
      <4> QED
        BY <4>1, <4>2
    <3> QED
      BY <3>4, <3>5 DEF ClientsApart
  <2> QED
    BY <2>5, <2>6, <2>7 DEF DoneInv
<1>2. CASE renderCompose(j)
  <2>1. /\ job[j].pc = "render" /\ Onward(j, "mkdata")
        /\ compose' = [compose EXCEPT ![a] = [port |-> job[j].port, client |-> job[j].client]]
        /\ UNCHANGED <<row, client, data, containers, mistaken, minted>>
    BY <1>2, GoesOnward DEF renderCompose, Steps, InstallSteps
  <2>2. Wide(a) /\ compose'[a] = [port |-> job[j].port, client |-> job[j].client]
    BY <2>1 DEF TypeOK
  <2>3. job[j].clean => Done(job[j])'
    BY <1>0, <2>1, <2>2 DEF Onward, Done, InstallDone, UninstallDone, Provisioned
  <2> QED
    BY <2>1, <2>2, <2>3, DoneStep DEF Steps, InstallSteps
<1>3. CASE MkdirData(j)
  <2>1. /\ job[j].pc = "mkdata" /\ Onward(j, "save") /\ data' = [data EXCEPT ![a] = TRUE]
        /\ UNCHANGED <<row, client, compose, containers, mistaken, minted>>
    BY <1>3, GoesOnward DEF MkdirData, Steps, InstallSteps
  <2>2. Wide(a) /\ data'[a]
    BY <2>1 DEF TypeOK
  <2>3. job[j].clean => Done(job[j])'
    BY <1>0, <2>1, <2>2 DEF Onward, Done, InstallDone, UninstallDone, Provisioned, Composed
  <2> QED
    BY <2>1, <2>2, <2>3, DoneStep DEF Steps, InstallSteps
<1>4. CASE SaveSettings(j)
  <2>1. /\ job[j].pc = "save" /\ Onward(j, "up")
        /\ row' = [row EXCEPT ![a] = job[j].port]
        /\ UNCHANGED <<client, compose, data, containers, mistaken, minted>>
    BY <1>4, GoesOnward DEF SaveSettings, Steps, InstallSteps
  <2>2. Wide(a) /\ row'[a] = job[j].port
    BY <2>1 DEF TypeOK
  <2>3. job[j].clean => Done(job[j])'
    BY <1>0, <2>1, <2>2 DEF Onward, Done, InstallDone, UninstallDone, Provisioned, Composed
  <2> QED
    BY <2>1, <2>2, <2>3, DoneStep DEF Steps, InstallSteps
<1>5. CASE Up(j)
  <2>1. /\ job[j].pc = "up" /\ UNCHANGED <<row, client, compose, data, minted>>
        /\ \/ UpWorks(a) /\ Onward(j, "postup")
           \/ UpFails(a) /\ Ended(j)
    BY <1>5, GoesOnward DEF Up, Steps, InstallSteps
  <2>2. Wide(a)
    BY <2>1, DockerTypes, MistakenTypes
  <2>3. CASE Ended(j)
    BY <2>1, <2>2, <2>3, DoneStep
  <2>4. CASE UpWorks(a) /\ Onward(j, "postup")
    <3>1. containers'[a] = compose[a].port
      BY <2>4 DEF UpWorks, TypeOK
    <3>2. job[j].clean => Done(job[j])'
      BY <1>0, <2>1, <2>4, <3>1 DEF Onward, Done, InstallDone, UninstallDone, Provisioned, Composed
    <3> QED
      BY <2>1, <2>2, <2>4, <3>2, DoneStep DEF Steps, InstallSteps
  <2> QED
    BY <2>1, <2>3, <2>4
<1>6. CASE PostUp(j)
  <2>1. /\ job[j].pc = "postup" /\ Onward(j, "installed")
        /\ UNCHANGED <<row, client, compose, data, containers, mistaken, minted>>
    BY <1>6, GoesOnward DEF PostUp, Steps
  <2>2. job[j].clean => Done(job[j])'
    BY <1>0, <2>1 DEF Onward, Done, InstallDone, UninstallDone, Provisioned, Composed
  <2> QED
    BY <2>1, <2>2, DoneStep DEF Steps
<1> QED
  BY <1>1, <1>2, <1>3, <1>4, <1>5, <1>6 DEF InstallStep

\* An uninstall that is not disturbed finds deleted what it has deleted.
LEMMA DoneUninstall ==
  ASSUME TypeOK, DoneInv, NEW j \in Jobs, NEW a \in Apps, job[j].app = a, UninstallStep(j)
  PROVE  DoneInv'
<1>0. /\ job[j].pc \in UninstallSteps /\ job[j] \in Working
      /\ job[j].clean => UninstallDone(job[j])
  BY JobCases DEF UninstallStep, DownWithVolumes, CleanupClient, DeleteRow, RemoveData,
    RemoveCompose, UninstallSteps, DoneInv, Done
<1> USE DEF Frame, Wide
<1>1. CASE DownWithVolumes(j)
  <2>1. /\ job[j].pc = "down" /\ UNCHANGED <<row, client, compose, data, minted>>
        /\ \/ Proceed(j, "cleanup")
           \/ Goto(j, [job[j] EXCEPT !.pc = "cleanup", !.downErr = TRUE])
           \/ Goto(j, Idle)
    BY <1>1, Zenon DEF DownWithVolumes
  <2>2. Wide(a)
    BY <1>1, DownDoes
  <2>3. Onward(j, "cleanup") \/ Ended(j)
    <3>1. ASSUME Goto(j, [job[j] EXCEPT !.pc = "cleanup", !.downErr = TRUE])
          PROVE  Onward(j, "cleanup")
      <4> DEFINE b == [job[j] EXCEPT !.pc = "cleanup", !.downErr = TRUE]
      <4>1. /\ b \in Working /\ b.pc = "cleanup" /\ b.app = job[j].app
            /\ b.clean = job[j].clean /\ b.port = job[j].port /\ b.client = job[j].client
            /\ b.files = job[j].files /\ b.keep = job[j].keep /\ b.caller = job[j].caller
        BY <1>0 DEF Working, Steps, UninstallSteps
      <4>2. Goto(j, b)
        BY <3>1
      <4> HIDE DEF b
      <4>3. Moved(j) /\ job'[j] = b /\ Told(j)
        BY <2>1, <4>1, <4>2, GotoMoves, GotoTold DEF JobStates
      <4> QED
        BY <1>0, <4>1, <4>3 DEF Onward
    <3> QED
      BY <2>1, <3>1, GoesOnward DEF Steps, UninstallSteps
  <2>4. ASSUME Onward(j, "cleanup"), job[j].clean PROVE Done(job[j])'
    <3>1. job'[j].files
      BY <1>0, <2>1, <2>4 DEF Onward, UninstallDone
    <3> QED
      BY <1>0, <2>1, <2>4, <3>1 DEF Onward, Done, InstallDone, UninstallDone, Provisioned, Composed
  <2> QED
    BY <2>1, <2>2, <2>3, <2>4, DoneStep DEF Steps, UninstallSteps
<1>2. CASE CleanupClient(j)
  <2>1. /\ job[j].pc = "cleanup" /\ Onward(j, "delete")
        /\ client' = [client EXCEPT ![a] = None]
        /\ UNCHANGED <<row, compose, data, containers, mistaken, minted>>
    BY <1>2, GoesOnward DEF CleanupClient, Steps, UninstallSteps
  <2>2. Wide(a) /\ client'[a] = None
    BY <2>1 DEF TypeOK
  <2>3. job[j].clean => Done(job[j])'
    BY <1>0, <2>1, <2>2 DEF Onward, Done, InstallDone, UninstallDone, Provisioned, Composed
  <2> QED
    BY <2>1, <2>2, <2>3, DoneStep DEF Steps, UninstallSteps
<1>3. CASE DeleteRow(j)
  <2>1. /\ job[j].pc = "delete" /\ row' = [row EXCEPT ![a] = None]
        /\ client' = [client EXCEPT ![a] = IF row[a] = None THEN @ ELSE None]
        /\ UNCHANGED <<compose, data, containers, mistaken, minted>>
        /\ Ended(j) \/ Onward(j, "purge")
    BY <1>3, GoesOnward DEF DeleteRow, Steps, UninstallSteps
  <2>2. Wide(a) /\ row'[a] = None /\ (client[a] = None => client'[a] = None)
    BY <2>1 DEF TypeOK
  <2>3. ASSUME Onward(j, "purge"), job[j].clean PROVE Done(job[j])'
    BY <1>0, <2>1, <2>2, <2>3 DEF Onward, Done, InstallDone, UninstallDone, Provisioned, Composed
  <2> QED
    BY <2>1, <2>2, <2>3, DoneStep DEF Steps, UninstallSteps
<1>4. CASE RemoveData(j)
  <2>1. /\ job[j].pc = "purge" /\ Onward(j, "remove")
        /\ data' = IF job[j].files /\ ~job[j].keep THEN [data EXCEPT ![a] = FALSE] ELSE data
        /\ UNCHANGED <<row, client, compose, containers, mistaken, minted>>
    BY <1>4, GoesOnward DEF RemoveData, Steps, UninstallSteps
  <2>2. Wide(a) /\ (job[j].files /\ ~job[j].keep => ~data'[a])
    BY <2>1 DEF TypeOK
  <2>3. job[j].clean => Done(job[j])'
    BY <1>0, <2>1, <2>2 DEF Onward, Done, InstallDone, UninstallDone, Provisioned, Composed
  <2> QED
    BY <2>1, <2>2, <2>3, DoneStep DEF Steps, UninstallSteps
<1>5. CASE RemoveCompose(j)
  <2>1. /\ job[j].pc = "remove" /\ Onward(j, "uninstalled")
        /\ compose' = IF job[j].files THEN [compose EXCEPT ![a] = None] ELSE compose
        /\ UNCHANGED <<row, client, data, containers, mistaken, minted>>
    BY <1>5, GoesOnward DEF RemoveCompose, Steps
  <2>2. Wide(a) /\ (job[j].files => compose'[a] = None)
    BY <2>1 DEF TypeOK
  <2>3. job[j].clean => Done(job[j])'
    BY <1>0, <2>1, <2>2 DEF Onward, Done, InstallDone, UninstallDone, Provisioned, Composed
  <2> QED
    BY <2>1, <2>2, <2>3, DoneStep DEF Steps
<1> QED
  BY <1>1, <1>2, <1>3, <1>4, <1>5 DEF UninstallStep

\* Every step keeps DoneInv, whether jobs on one app overlap or not.
LEMMA DonePreserved ==
  ASSUME TypeInv, DoneInv, [Next]_vars
  PROVE  DoneInv'
<1> TypeOK
  BY DEF TypeInv
<1>1. CASE UNCHANGED vars
  BY <1>1 DEF vars, DoneInv, ClientsApart, Done, InstallDone, UninstallDone
<1>2. ASSUME NEW j \in Jobs, InstallStep(j) \/ UninstallStep(j) PROVE DoneInv'
  <2>1. job[j].app \in Apps
    BY <1>2, JobCases DEF InstallStep, Provision, renderCompose, MkdirData, SaveSettings,
      Up, PostUp, UninstallStep, DownWithVolumes, CleanupClient, DeleteRow, RemoveData,
      RemoveCompose
  <2> QED
    BY <1>2, <2>1, DoneInstall, DoneUninstall
<1>3. ASSUME NEW j \in Jobs, StartApp(j) \/ StopApp(j) PROVE DoneInv'
  <2>0. job[j].pc \in {"start", "stop"} /\ job[j].app \in Apps
    BY <1>3, JobCases DEF StartApp, StopApp
  <2>1. PICK a \in Apps : a = job[j].app
    BY <2>0
  <2>2. /\ UpWorks(a) \/ UpFails(a) \/ DownWorks(a) \/ (DownFails(a) /\ UNCHANGED mistaken)
        /\ Ended(j) /\ UNCHANGED <<row, client, compose, data, minted>>
    BY <1>3, <2>0, <2>1, GoesOnward DEF StartApp, StopApp
  <2>3. Wide(a)
    BY <2>2, DockerTypes, MistakenTypes DEF Wide, Frame
  <2> QED
    BY <2>0, <2>1, <2>2, <2>3, DoneStep
<1>4. ASSUME NEW j \in Jobs, Leave(j) PROVE DoneInv'
  <2>1. job'[j] = Idle /\ \A k \in Jobs \ {j} : job'[k] = job[k]
    BY <1>4 DEF Leave, Fail, TypeOK
  <2>2. job'[j].client = None /\ Done(job[j])'
    BY <2>1 DEF Done, Idle
  <2> QED
    BY <1>4, <2>1, <2>2, DoneStays DEF Leave
<1>5. ASSUME NEW a \in Apps, EnableCmd(a) \/ ProvisionCmd(a) \/ RevokeCmd(a) PROVE DoneInv'
  <2>1. Interfere(a) /\ Wide(a)
    BY <1>5 DEF EnableCmd, ProvisionCmd, RevokeCmd, MakeClient, Wide, Frame, TypeOK
  <2>2. \A k \in Jobs : job'[k].client = job[k].client
    BY <2>1, OthersMove DEF Same
  <2>3. ASSUME NEW k \in Jobs PROVE Done(job[k])'
    <3>1. job[k].app = a => ~job'[k].clean
      BY <2>1, JobCases DEF Interfere, Idle, Working
    <3>2. CASE job[k].app # a
      <4>1. job'[k] = job[k]
        BY <2>1, <3>2 DEF Interfere
      <4>2. CASE job[k].clean
        <5>1. job[k].app \in Apps
          BY <4>2, JobCases DEF Idle, Working
        <5>2. /\ row'[job[k].app] = row[job[k].app] /\ client'[job[k].app] = client[job[k].app]
              /\ compose'[job[k].app] = compose[job[k].app]
              /\ data'[job[k].app] = data[job[k].app]
              /\ containers'[job[k].app] = containers[job[k].app]
          BY <2>1, <3>2, <5>1 DEF Wide, Frame
        <5> QED
          BY <4>1, <5>2 DEF DoneInv, Done, InstallDone, UninstallDone
      <4> QED
        BY <4>1, <4>2 DEF Done
    <3> QED
      BY <3>1, <3>2 DEF Done
  <2>4. ClientsApart'
    <3>1. minted \in Nat /\ (minted' = minted \/ minted' = minted + 1)
      BY <1>5, AppAssumption DEF EnableCmd, ProvisionCmd, RevokeCmd, MakeClient, TypeOK
    <3> QED
      BY <2>2, <3>1 DEF DoneInv, ClientsApart
  <2> QED
    BY <2>3, <2>4 DEF DoneInv
<1> QED
  BY <1>1, <1>2, <1>3, <1>4, <1>5, DoneBegin DEF Next

\* So DoneInv holds in every reachable state.
LEMMA AlwaysDone == Spec => [](TypeInv /\ DoneInv)
<1>1. Init => DoneInv
  BY DEF Init, DoneInv, ClientsApart, Done, Idle
<1>2. TypeInv /\ DoneInv /\ [Next]_vars => TypeInv' /\ DoneInv'
  BY TypePreserved, DonePreserved
<1> QED
  BY <1>1, <1>2, TypeInit, PTL DEF Spec

\* An install that reports success without having been disturbed has left what
\* it was to leave, however many jobs there are on the app and on others
\* (install.go:38-139).
THEOREM InstallsComplete == Spec => []InstallComplete
<1>1. DoneInv => InstallComplete
  BY DEF DoneInv, Done, InstallDone, InstallComplete, Provisioned, Composed
<1> QED
  BY <1>1, AlwaysDone, PTL

\* An uninstall that reports success without having been disturbed has left
\* nothing, but for containers whose failed compose down was taken for done
\* (uninstall.go:33-98); that no others are left without a compose file is where
\* it needs jobs on one app to be kept apart.
THEOREM UninstallsComplete == ASSUME Exclusive PROVE Spec => []UninstallComplete
<1>1. TypeInv /\ DoneInv /\ SafeInv => UninstallComplete
  <2> SUFFICES ASSUME TypeInv, DoneInv, ContainersStoppable, NEW j \in Jobs,
                      job[j].pc = "uninstalled", job[j].clean,
                      job[j].files \/ job[j].caller = "cli"
               PROVE  LET a == job[j].app IN
                      /\ row[a] = None /\ client[a] = None
                      /\ compose[a] = None /\ Settled(a)
                      /\ job[j].files /\ ~job[j].keep => ~data[a]
    BY DEF SafeInv, UninstallComplete
  <2>1. UninstallDone(job[j]) /\ job[j].app \in Apps
    BY JobCases DEF DoneInv, Done, TypeInv
  <2>2. compose[job[j].app] = None
    BY <2>1 DEF UninstallDone
  <2> QED
    BY <2>1, <2>2 DEF UninstallDone, ContainersStoppable
<1> QED
  BY <1>1, AlwaysDone, AlwaysSafe, PTL
=============================================================================
