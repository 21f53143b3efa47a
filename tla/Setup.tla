------------------------------- MODULE Setup -------------------------------
(***************************************************************************)
(* From "nass init" to a running "nass serve": the configuration, the two  *)
(* key files and the database, as the processes of nass make and load      *)
(* them (internal/cli/init.go and serve.go, config, db, auth/oidc/keys.go).*)
(*                                                                         *)
(* Any number of inits and other commands and the service run side by side *)
(* on one machine.  A process may be killed or meet an I/O error at any    *)
(* step, and what it has written stays.  Systemd restarts a service that   *)
(* failed (docs/usage.md:62-77).  The operator starts over as the docs say *)
(* (docs/usage.md:348-352), or moves away only the file init complained of.*)
(***************************************************************************)
EXTENDS Integers

CONSTANTS
  Inits,      \* runs of "nass init"
  Cmds,       \* runs of the other commands, each opening the database
  Serve,      \* the service
  None,       \* no process
  Latest,     \* the newest migration
  MaxFaults,  \* bound: crashes and I/O errors
  MaxMoves    \* bound: files moved aside

Procs == Inits \cup Cmds \cup {Serve}

ASSUME SetupAssumption ==
  /\ Inits \cap Cmds = {} /\ Serve \notin Inits \cup Cmds /\ None \notin Procs
  /\ {Latest, MaxFaults, MaxMoves} \subseteq Nat

KeyFiles == {"sign", "crypt"}
Files == {"config"} \cup KeyFiles
Versions == 1..Latest

VARIABLES
  disk,      \* the files
  recorded,  \* the rows of schema_migrations
  tables,    \* the migrations whose tables and columns are there
  admin,     \* the admin's row in users
  writer,    \* who holds SQLite's write lock
  at,        \* where each process is
  file,      \* the file an init is about to make
  ver,       \* the migration a process is looking at
  made,      \* history: the files an init has written
  cfg,       \* the configuration the service has loaded last
  wanted,    \* systemd: the service is started
  faults, moves

dbVars == <<recorded, tables, admin, writer>>
procVars == <<at, file, ver, made>>
opVars == <<cfg, wanted, faults, moves>>
vars == <<disk, dbVars, procVars, opVars>>

\* Ended well, or not begun; and ended with an error.
Ended == {"idle", "failed"}
Steps == Ended \cup {"create", "write", "load", "stat", "check", "apply", "record",
                     "admin", "report", "keys", "crypto", "tls", "running"}
Working(p) == at[p] \notin Ended

\* A torn file does not load.  A cut configuration does: it ends after the base
\* host, and defaults stand for the rest, which names no certificate.
TypeOK ==
  /\ disk \in [Files -> {"none", "torn", "cut", "whole"}]
  /\ admin \in BOOLEAN /\ wanted \in BOOLEAN
  /\ recorded \subseteq Versions /\ tables \subseteq Versions
  /\ writer \in Procs \cup {None}
  /\ at \in [Procs -> Steps]
  /\ file \in [Inits -> Files]
  /\ ver \in [Procs -> 1..(Latest + 1)]
  /\ made \in [Inits -> SUBSET Files]
  /\ cfg \in {"cut", "whole"}
  /\ faults \in 0..MaxFaults /\ moves \in 0..MaxMoves

\* A fresh machine, or one set up by this or an earlier release.
Init ==
  /\ \/ /\ disk = [f \in Files |-> "none"]
        /\ recorded = {} /\ admin = FALSE
     \/ /\ disk = [f \in Files |-> "whole"]
        /\ \E k \in Versions : recorded = 1..k
        /\ admin = TRUE
  /\ tables = recorded
  /\ writer = None
  /\ at = [p \in Procs |-> "idle"]
  /\ file = [p \in Inits |-> "config"]
  /\ ver = [p \in Procs |-> 1]
  /\ made = [p \in Inits |-> {}]
  /\ cfg = "whole" /\ wanted = FALSE /\ faults = 0 /\ moves = 0

Go(p, step) == at' = [at EXCEPT ![p] = step]

-----------------------------------------------------------------------------
(* Files: nass init.                                                       *)

\* init begins, unless there is a configuration.
StartInit(p) ==
  /\ at[p] \in Ended
  /\ disk["config"] = "none"
  /\ Go(p, "create")
  /\ file' = [file EXCEPT ![p] = "config"]
  /\ made' = [made EXCEPT ![p] = {}]
  /\ UNCHANGED <<disk, dbVars, ver, opVars>>

\* What follows once a file is there.
Proceed(p) ==
  IF file[p] = "sign" THEN Go(p, "stat") /\ file' = [file EXCEPT ![p] = "crypt"]
                      ELSE Go(p, "check") /\ file' = [file EXCEPT ![p] = "config"]

\* A plausible bug: the key is drawn anew whatever there is.
generateAnew(p) ==
  /\ at[p] = "stat"
  /\ disk' = [disk EXCEPT ![file[p]] = "torn"]
  /\ Go(p, "write")
  /\ UNCHANGED <<dbVars, file, ver, made, opVars>>

\* generateSigningKey, generateCryptoKey: a file that is there is kept, whatever
\* it holds.
generateKey(p) ==
  /\ at[p] = "stat"
  /\ IF disk[file[p]] = "none" THEN Go(p, "create") /\ UNCHANGED file
                               ELSE Proceed(p)
  /\ UNCHANGED <<disk, dbVars, ver, made, opVars>>

\* The file is opened with O_CREATE|O_EXCL.
OpenFile(p) ==
  /\ at[p] = "create"
  /\ IF disk[file[p]] = "none"
       THEN disk' = [disk EXCEPT ![file[p]] = "torn"] /\ Go(p, "write")
       ELSE Go(p, "failed") /\ UNCHANGED disk
  /\ UNCHANGED <<dbVars, file, ver, made, opVars>>

\* A plausible bug: an error while the file is written goes unnoticed.
WriteUnchecked(p) ==
  /\ at[p] = "write"
  /\ \E c \in {"torn", "whole"} : disk' = [disk EXCEPT ![file[p]] = c]
  /\ made' = [made EXCEPT ![p] = @ \cup {file[p]}]
  /\ IF file[p] = "config" THEN Go(p, "load") /\ UNCHANGED file ELSE Proceed(p)
  /\ UNCHANGED <<dbVars, ver, opVars>>

\* The file is written; the configuration is then read back.
WriteFile(p) ==
  /\ at[p] = "write"
  /\ disk' = [disk EXCEPT ![file[p]] = "whole"]
  /\ made' = [made EXCEPT ![p] = @ \cup {file[p]}]
  /\ IF file[p] = "config" THEN Go(p, "load") /\ UNCHANGED file ELSE Proceed(p)
  /\ UNCHANGED <<dbVars, ver, opVars>>

\* config.Load: init goes on to the keys, the others to the database.
Load(p) ==
  /\ at[p] = "load"
  /\ \/ /\ disk["config"] \in {"none", "torn"}
        /\ Go(p, "failed") /\ UNCHANGED <<file, cfg>>
     \/ /\ disk["config"] \in {"cut", "whole"} /\ p \in Inits
        /\ Go(p, "stat") /\ file' = [file EXCEPT ![p] = "sign"]
        /\ UNCHANGED cfg
     \/ /\ disk["config"] \in {"cut", "whole"} /\ p \notin Inits
        /\ Go(p, "check") /\ cfg' = IF p = Serve THEN disk["config"] ELSE cfg
        /\ UNCHANGED file
  /\ UNCHANGED <<disk, dbVars, ver, made, wanted, faults, moves>>

-----------------------------------------------------------------------------
(* The database: db.Open.                                                  *)

\* A plausible bug: the loop runs one migration too far.
CheckTooFar(p) ==
  /\ at[p] = "check"
  /\ IF ver[p] \in recorded
       THEN ver' = [ver EXCEPT ![p] = @ + 1] /\ UNCHANGED at
       ELSE Go(p, "apply") /\ UNCHANGED ver
  /\ UNCHANGED <<disk, dbVars, file, made, opVars>>

\* The question, once schema_migrations is there, whether a migration was
\* applied, outside its transaction; what follows when none is left.
Check(p) ==
  /\ at[p] = "check"
  /\ \/ /\ ver[p] \in Versions /\ ver[p] \in recorded
        /\ ver' = [ver EXCEPT ![p] = @ + 1] /\ UNCHANGED at
     \/ /\ ver[p] \in Versions /\ ver[p] \notin recorded
        /\ Go(p, "apply") /\ UNCHANGED ver
     \/ /\ ver[p] \notin Versions
        /\ Go(p, IF p \in Inits THEN "admin" ELSE IF p = Serve THEN "keys" ELSE "idle")
        /\ ver' = [ver EXCEPT ![p] = 1]
  /\ UNCHANGED <<disk, dbVars, file, made, opVars>>

\* A migration's SQL creates what must not be there, on top of the earlier ones.
Applies(v) == v \notin tables /\ 1..(v - 1) \subseteq tables

\* The SQL fails, and Open with it.
Refuse(p) == Go(p, "failed") /\ ver' = [ver EXCEPT ![p] = 1] /\ UNCHANGED writer

\* A plausible bug: the SQL runs outside the transaction that records it.
applyAtOnce(p) ==
  /\ at[p] = "apply" /\ writer = None
  /\ IF Applies(ver[p]) THEN /\ Go(p, "record") /\ writer' = p /\ UNCHANGED ver
                             /\ tables' = tables \cup {ver[p]}
                        ELSE Refuse(p) /\ UNCHANGED tables
  /\ UNCHANGED <<disk, recorded, admin, file, made, opVars>>

\* The transaction's first statement is the SQL, which takes the write lock.
apply(p) ==
  /\ at[p] = "apply" /\ writer = None
  /\ IF Applies(ver[p]) THEN Go(p, "record") /\ writer' = p /\ UNCHANGED ver
                        ELSE Refuse(p)
  /\ UNCHANGED <<disk, recorded, tables, admin, file, made, opVars>>

\* INSERT INTO schema_migrations, and the commit of both.
record(p) ==
  /\ at[p] = "record"
  /\ writer' = None
  /\ tables' = tables \cup {ver[p]}
  /\ recorded' = recorded \cup {ver[p]}
  /\ ver' = [ver EXCEPT ![p] = @ + 1]
  /\ Go(p, "check")
  /\ UNCHANGED <<disk, admin, file, made, opVars>>

\* store.Create; the name is unique.
CreateAdmin(p) ==
  /\ at[p] = "admin" /\ writer = None
  /\ admin' = TRUE
  /\ Go(p, IF admin THEN "failed" ELSE "report")
  /\ UNCHANGED <<disk, recorded, tables, writer, file, ver, made, opVars>>

\* The new row is read back and all that was made is printed.
Report(p) ==
  /\ at[p] = "report"
  /\ Go(p, "idle")
  /\ UNCHANGED <<disk, dbVars, file, ver, made, opVars>>

-----------------------------------------------------------------------------
(* The service.                                                            *)

\* A step of serve that fails unless what it needs is there.
Needs(step, met, next) ==
  /\ at[Serve] = step
  /\ Go(Serve, IF met THEN next ELSE "failed")
  /\ UNCHANGED <<disk, dbVars, file, ver, made, opVars>>

LoadSigningKey == Needs("keys", disk["sign"] = "whole", "crypto")
LoadCryptoKey == Needs("crypto", disk["crypt"] = "whole", "tls")

\* Asks the configuration loaded at the start for its certificate, not the disk.
buildHTTPSServer == Needs("tls", cfg = "whole", "running")

\* Restart=on-failure.
Restart ==
  /\ wanted /\ at[Serve] = "failed"
  /\ Go(Serve, "load")
  /\ UNCHANGED <<disk, dbVars, file, ver, made, opVars>>

-----------------------------------------------------------------------------
(* Faults and the operator.                                                *)

Release(p) == writer' = IF writer = p THEN None ELSE writer

\* A process is killed, or a step of it meets an error: an open transaction is
\* rolled back, a file being written stays as it is.
Fail(p) ==
  /\ Working(p) /\ faults < MaxFaults
  /\ faults' = faults + 1
  /\ Go(p, "failed")
  /\ Release(p)
  /\ IF p \in Inits /\ at[p] = "write" /\ file[p] = "config"
       THEN \E c \in {"torn", "cut"} : disk' = [disk EXCEPT !["config"] = c]
       ELSE UNCHANGED disk
  /\ ver' = [ver EXCEPT ![p] = 1]
  /\ UNCHANGED <<recorded, tables, admin, file, made, cfg, wanted, moves>>

\* systemctl start, and stop: SIGTERM, gracefully once the server runs.
StartUnit ==
  /\ ~ wanted /\ at[Serve] \in Ended
  /\ wanted' = TRUE
  /\ Go(Serve, "load")
  /\ UNCHANGED <<disk, dbVars, file, ver, made, cfg, faults, moves>>

StopUnit ==
  /\ wanted
  /\ wanted' = FALSE
  /\ Go(Serve, "idle")
  /\ Release(Serve)
  /\ ver' = [ver EXCEPT ![Serve] = 1]
  /\ UNCHANGED <<disk, recorded, tables, admin, file, made, cfg, faults, moves>>

RunCmd(p) ==
  /\ at[p] \in Ended
  /\ Go(p, "load")
  /\ UNCHANGED <<disk, dbVars, file, ver, made, opVars>>

\* Starting over by the book: nass is stopped and all four files are moved.
MoveAll ==
  /\ moves < MaxMoves /\ ~ wanted /\ \A p \in Procs : ~ Working(p)
  /\ \E f \in Files : disk[f] # "none"
  /\ moves' = moves + 1
  /\ disk' = [f \in Files |-> "none"]
  /\ recorded' = {} /\ tables' = {} /\ admin' = FALSE
  /\ UNCHANGED <<writer, procVars, cfg, wanted, faults>>

\* Only the configuration is moved, whatever else is running.
MoveConfig ==
  /\ moves < MaxMoves /\ \A p \in Inits : ~ Working(p)
  /\ disk["config"] # "none"
  /\ moves' = moves + 1
  /\ disk' = [disk EXCEPT !["config"] = "none"]
  /\ UNCHANGED <<dbVars, procVars, cfg, wanted, faults>>

-----------------------------------------------------------------------------
\* A step of a process's own.
InitStep(p) ==
  generateKey(p) \/ OpenFile(p) \/ WriteFile(p) \/ CreateAdmin(p) \/ Report(p)

OpenStep(p) == Load(p) \/ Check(p) \/ apply(p) \/ record(p)

ServeStep == LoadSigningKey \/ LoadCryptoKey \/ buildHTTPSServer \/ Restart

Environment ==
  \/ \E p \in Procs : Fail(p)
  \/ \E p \in Inits : StartInit(p)
  \/ \E p \in Cmds : RunCmd(p)
  \/ StartUnit \/ StopUnit \/ MoveAll \/ MoveConfig

Next ==
  \/ \E p \in Inits : InitStep(p)
  \/ \E p \in Procs : OpenStep(p)
  \/ ServeStep
  \/ Environment

\* Processes run, and systemd restarts the service five seconds after it failed,
\* too seldom for its limit of starts.
Fairness ==
  /\ \A p \in Inits : WF_vars(InitStep(p))
  /\ \A p \in Procs : WF_vars(OpenStep(p))
  /\ WF_vars(ServeStep)

Spec == Init /\ [][Next]_vars /\ Fairness

-----------------------------------------------------------------------------
(* Properties.                                                             *)

\* What schema_migrations says is what there is, a prefix of the migrations,
\* although processes open the database together and die half-way through a
\* migration (db.go:71-97).
SchemaExact == tables = recorded /\ \E k \in 0..Latest : recorded = 1..k

\* A running server could be started again: nothing that init, a migration or an
\* operator who moves only the configuration does takes its keys or its schema
\* away (init.go:91-129, db.go:42-99).
RunningKeepsFooting ==
  at[Serve] = "running" =>
    disk["sign"] = "whole" /\ disk["crypt"] = "whole" /\ recorded = Versions

\* An init that reports success leaves a whole configuration, the current schema
\* with an admin, and both key files, whole if it wrote them (init.go:46-79);
\* one it found it has not looked at.
InitComplete ==
  [][\A p \in Inits : Working(p) /\ at'[p] = "idle" =>
       /\ disk'["config"] = "whole"
       /\ \A f \in KeyFiles : disk'[f] # "none" /\ (f \in made'[p] => disk'[f] = "whole")
       /\ recorded' = Versions /\ admin']_vars

Usable == \A f \in Files : disk[f] = "whole"

\* With its files whole, a service that systemd is to run gets to serving, after
\* any crash, and past any other process that migrates the same database
\* (serve.go:33-177).
ServeComesUp ==
  wanted /\ Usable ~> at[Serve] = "running" \/ ~ wanted \/ ~ Usable
=============================================================================
