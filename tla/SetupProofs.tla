----------------------------- MODULE SetupProofs -----------------------------
(***************************************************************************)
(* Proofs about Setup, for any number of inits and other commands, any     *)
(* number of migrations, and any number of faults and fresh starts.        *)
(***************************************************************************)
EXTENDS Setup, TLAPS

\* An init that has made the configuration file.
Inside(p) == Working(p) /\ ~ (at[p] = "create" /\ file[p] = "config")
PastKeys == {"check", "apply", "record", "admin", "report"}

\* One init at a time is past the configuration, and finds what it made and what
\* it found still there.
FilesOK ==
  /\ \A p, q \in Inits : Inside(p) /\ Inside(q) => p = q
  /\ \A p \in Inits : Inside(p) =>
       /\ at[p] = "write" => disk[file[p]] = "torn"
       /\ ~ (at[p] = "write" /\ file[p] = "config") => disk["config"] = "whole"
       /\ at[p] \in {"stat", "create"} => file[p] \in KeyFiles
       /\ at[p] \in {"stat", "create", "write"} /\ file[p] = "crypt" => disk["sign"] # "none"
       /\ at[p] \in PastKeys => disk["sign"] # "none" /\ disk["crypt"] # "none"
       /\ \A f \in made[p] \cap KeyFiles : disk[f] = "whole"
  /\ \A p \in Inits : at[p] = "create" /\ file[p] = "config" => made[p] = {}

\* Where a process is with the migrations.
DbStages == {"check", "apply", "record"}
Migrated == {"admin", "report", "keys", "crypto", "tls", "running"}
DbOK ==
  \A p \in Procs :
    /\ at[p] \notin DbStages => ver[p] = 1
    /\ at[p] \in DbStages => 1..(ver[p] - 1) \subseteq recorded
    /\ at[p] = "apply" => ver[p] \in Versions
    /\ at[p] = "record" => writer = p /\ ver[p] \in Versions /\ Applies(ver[p])
    /\ at[p] \in Migrated => recorded = Versions

AdminOK == \A p \in Procs : at[p] = "report" => admin

\* The keys the service has loaded are whole on disk.
ServeOK ==
  /\ at[Serve] \in {"crypto", "tls", "running"} => disk["sign"] = "whole"
  /\ at[Serve] \in {"tls", "running"} => disk["crypt"] = "whole"

IInv == TypeOK /\ SchemaExact /\ FilesOK /\ DbOK /\ AdminOK /\ ServeOK

USE DEF dbVars, procVars, opVars

-----------------------------------------------------------------------------
(* Type correctness.                                                       *)

LEMMA ProcFacts ==
  /\ Serve \in Procs /\ Serve \notin Inits /\ Inits \subseteq Procs /\ Cmds \subseteq Procs
  /\ None \notin Procs /\ Latest \in Nat /\ MaxFaults \in Nat /\ MaxMoves \in Nat
  /\ 1 \in 1..(Latest + 1)
BY SetupAssumption DEF Procs

\* The steps of an init keep the types.
LEMMA InitStepType ==
  ASSUME TypeOK, NEW p \in Inits, InitStep(p)
  PROVE  TypeOK'
<1>0. p \in Procs
  BY ProcFacts
<1>1. CASE generateKey(p)
  BY <1>0, <1>1 DEF TypeOK, generateKey, Proceed, Go, Files, KeyFiles, Steps
<1>2. CASE OpenFile(p)
  BY <1>0, <1>2 DEF TypeOK, OpenFile, Go, Files, KeyFiles, Steps, Ended
<1>3. CASE WriteFile(p)
  BY <1>0, <1>3 DEF TypeOK, WriteFile, Proceed, Go, Files, KeyFiles, Steps
<1>4. CASE CreateAdmin(p)
  BY <1>0, <1>4 DEF TypeOK, CreateAdmin, Go, Steps, Ended
<1>5. CASE Report(p)
  BY <1>0, <1>5 DEF TypeOK, Report, Go, Steps, Ended
<1> QED
  BY <1>1, <1>2, <1>3, <1>4, <1>5 DEF InitStep

\* Opening the database keeps the types.
LEMMA OpenStepType ==
  ASSUME TypeOK, DbOK, NEW p \in Procs, OpenStep(p)
  PROVE  TypeOK'
<1>1. CASE Load(p)
  BY <1>1 DEF TypeOK, Load, Go, Files, KeyFiles, Steps, Ended
<1>2. CASE Check(p)
  <2>1. ver[p] \in 1..(Latest + 1) /\ ver' \in [Procs -> 1..(Latest + 1)]
    BY <1>2, ProcFacts DEF TypeOK, Check, Versions
  <2> QED
    BY <1>2, <2>1 DEF TypeOK, Check, Go, Steps, Ended
<1>3. CASE apply(p)
  BY <1>3, ProcFacts DEF TypeOK, apply, Refuse, Go, Steps, Ended
<1>4. CASE record(p)
  <2>1. ver[p] \in Versions
    BY <1>4 DEF DbOK, record
  <2>2. ver' \in [Procs -> 1..(Latest + 1)]
    BY <1>4, <2>1, ProcFacts DEF TypeOK, record, Versions
  <2> QED
    BY <1>4, <2>1, <2>2 DEF TypeOK, record, Go, Steps
<1> QED
  BY <1>1, <1>2, <1>3, <1>4 DEF OpenStep

\* The service, faults and the operator keep the types.
LEMMA OtherType ==
  ASSUME TypeOK, ServeStep \/ Environment
  PROVE  TypeOK'
<1>1. CASE ServeStep
  BY <1>1, ProcFacts DEF TypeOK, ServeStep, LoadSigningKey, LoadCryptoKey, buildHTTPSServer,
                         Needs, Restart, Go, Steps, Ended
<1>2. ASSUME NEW p \in Procs, Fail(p)
      PROVE  TypeOK'
  <2>1. disk' \in [Files -> {"none", "torn", "cut", "whole"}]
    BY <1>2 DEF TypeOK, Fail
  <2>2. faults' \in 0..MaxFaults
    BY <1>2, ProcFacts DEF TypeOK, Fail
  <2> QED
    BY <1>2, <2>1, <2>2, ProcFacts DEF TypeOK, Fail, Release, Go, Steps, Ended
<1>3. ASSUME NEW p \in Inits, StartInit(p)
      PROVE  TypeOK'
  BY <1>3, ProcFacts DEF TypeOK, StartInit, Go, Steps, Files
<1>4. ASSUME NEW p \in Cmds, RunCmd(p)
      PROVE  TypeOK'
  BY <1>4, ProcFacts DEF TypeOK, RunCmd, Go, Steps
<1>5. CASE StartUnit
  BY <1>5, ProcFacts DEF TypeOK, StartUnit, Go, Steps
<1>6. CASE StopUnit
  BY <1>6, ProcFacts DEF TypeOK, StopUnit, Release, Go, Steps, Ended
<1>7. CASE MoveAll
  <2>1. moves' \in 0..MaxMoves
    BY <1>7, ProcFacts DEF TypeOK, MoveAll
  <2> QED
    BY <1>7, <2>1 DEF TypeOK, MoveAll
<1>8. CASE MoveConfig
  <2>1. moves' \in 0..MaxMoves
    BY <1>8, ProcFacts DEF TypeOK, MoveConfig
  <2> QED
    BY <1>8, <2>1 DEF TypeOK, MoveConfig
<1> QED
  BY <1>1, <1>2, <1>3, <1>4, <1>5, <1>6, <1>7, <1>8 DEF Environment

-----------------------------------------------------------------------------
(* The database.                                                           *)

\* What leaves recorded and tables alone keeps DbOK and AdminOK, if each process
\* stays, leaves the database, comes to it, or passes from one stage after the
\* migrations to another.
LEMMA DbKept ==
  ASSUME DbOK, AdminOK, UNCHANGED <<recorded, tables>>, admin => admin',
         \A p \in Procs :
           \/ UNCHANGED <<at[p], ver[p]>> /\ (writer = p => writer' = p)
           \/ ver'[p] = 1 /\ at'[p] \in Ended \cup {"create", "write", "load", "stat"}
           \/ ver'[p] = 1 /\ at'[p] = "check"
           \/ ver'[p] = 1 /\ at[p] \in Migrated /\ at'[p] \in Migrated
              /\ (at'[p] = "report" => admin')
  PROVE  DbOK' /\ AdminOK'
<1>1. \A p \in Procs : ver'[p] = 1 => 1..(ver'[p] - 1) \subseteq recorded'
  OBVIOUS
<1>2. ASSUME NEW p \in Procs
      PROVE  /\ at'[p] \notin DbStages => ver'[p] = 1
             /\ at'[p] \in DbStages => 1..(ver'[p] - 1) \subseteq recorded'
             /\ at'[p] = "apply" => ver'[p] \in Versions
             /\ at'[p] = "record" => writer' = p /\ ver'[p] \in Versions /\ Applies(ver[p])'
             /\ at'[p] \in Migrated => recorded' = Versions
             /\ at'[p] = "report" => admin'
  <2>1. CASE UNCHANGED <<at[p], ver[p]>> /\ (writer = p => writer' = p)
    BY <2>1 DEF DbOK, AdminOK, Applies
  <2>2. CASE ver'[p] = 1 /\ at'[p] \in Ended \cup {"create", "write", "load", "stat", "check"}
    BY <1>1, <2>2 DEF DbStages, Migrated, Ended
  <2>3. CASE ver'[p] = 1 /\ at[p] \in Migrated /\ at'[p] \in Migrated
             /\ (at'[p] = "report" => admin')
    BY <2>3 DEF DbOK, DbStages, Migrated
  <2> QED
    BY <2>1, <2>2, <2>3
<1> QED
  BY <1>2 DEF DbOK, AdminOK

\* A migration is recorded with what it makes, after all earlier ones.
LEMMA RecordKeeps ==
  ASSUME TypeOK, SchemaExact, DbOK, AdminOK, NEW p \in Procs, record(p)
  PROVE  SchemaExact' /\ DbOK' /\ AdminOK'
<1>1. /\ ver[p] \in Versions /\ Applies(ver[p]) /\ writer = p
      /\ 1..(ver[p] - 1) \subseteq recorded
  BY DEF DbOK, DbStages, record
<1>2. /\ recorded' = recorded \cup {ver[p]} /\ tables' = tables \cup {ver[p]}
      /\ ver'[p] = ver[p] + 1 /\ at'[p] = "check" /\ UNCHANGED admin
      /\ \A q \in Procs \ {p} : at'[q] = at[q] /\ ver'[q] = ver[q]
  BY DEF TypeOK, record, Go
<1>3. PICK k \in 0..Latest : recorded = 1..k
  BY DEF SchemaExact
<1>4. ver[p] = k + 1 /\ k + 1 \in 0..Latest
  <2>1. ver[p] \notin 1..k /\ 1..(ver[p] - 1) \subseteq 1..k
    BY <1>1, <1>3 DEF SchemaExact, Applies
  <2>2. ver[p] \in 1..Latest /\ ver[p] > k
    BY <1>1, <2>1, ProcFacts DEF Versions
  <2>3. ver[p] - 1 \in 1..(ver[p] - 1) \/ ver[p] = 1
    BY <2>2, ProcFacts
  <2> QED
    BY <2>1, <2>2, <2>3, ProcFacts
<1>5. SchemaExact'
  BY <1>2, <1>3, <1>4 DEF SchemaExact
<1>6. ASSUME NEW q \in Procs \ {p}
      PROVE  at[q] # "record" /\ at[q] \notin Migrated
  <2>1. at[q] # "record"
    BY <1>1 DEF DbOK
  <2>2. recorded # Versions
    BY <1>1 DEF SchemaExact, Applies
  <2> QED
    BY <2>1, <2>2 DEF DbOK
<1>7. 1..(ver'[p] - 1) \subseteq recorded'
  BY <1>2, <1>3, <1>4
<1>8. ASSUME NEW q \in Procs
      PROVE  /\ at'[q] \notin DbStages => ver'[q] = 1
             /\ at'[q] \in DbStages => 1..(ver'[q] - 1) \subseteq recorded'
             /\ at'[q] = "apply" => ver'[q] \in Versions
             /\ at'[q] # "record" /\ at'[q] \notin Migrated /\ at'[q] # "report"
  <2>1. CASE q = p
    BY <1>2, <1>7, <2>1 DEF DbStages, Migrated
  <2>2. CASE q # p
    BY <1>2, <1>6, <2>2 DEF DbOK, DbStages, Migrated
  <2> QED
    BY <2>1, <2>2
<1>9. DbOK'
  BY <1>8 DEF DbOK
<1>10. AdminOK'
  BY <1>8 DEF AdminOK
<1> QED
  BY <1>5, <1>9, <1>10

\* A process that looks at the migrations keeps the invariant.
LEMMA CheckKeeps ==
  ASSUME TypeOK, DbOK, AdminOK, NEW p \in Procs, Check(p)
  PROVE  DbOK' /\ AdminOK'
<1>1. /\ UNCHANGED <<recorded, tables, admin, writer>> /\ at[p] = "check"
      /\ \A q \in Procs \ {p} : at'[q] = at[q] /\ ver'[q] = ver[q]
  BY DEF TypeOK, Check, Go
<1>2. ver[p] \in 1..(Latest + 1) /\ 1..(ver[p] - 1) \subseteq recorded /\ recorded \subseteq Versions
  BY <1>1 DEF TypeOK, DbOK, DbStages
<1>3. /\ at'[p] \notin DbStages => ver'[p] = 1
      /\ at'[p] \in DbStages => 1..(ver'[p] - 1) \subseteq recorded
      /\ at'[p] = "apply" => ver'[p] \in Versions
      /\ at'[p] # "record" /\ at'[p] # "report"
      /\ at'[p] \in Migrated => recorded = Versions
  <2>1. CASE ver[p] \in Versions /\ ver[p] \in recorded
    <3>1. ver'[p] = ver[p] + 1 /\ at'[p] = "check"
      BY <1>1, <2>1 DEF TypeOK, Check
    <3>2. 1..(ver'[p] - 1) \subseteq recorded
      BY <1>2, <2>1, <3>1, ProcFacts
    <3> QED
      BY <3>1, <3>2 DEF DbStages, Migrated
  <2>2. CASE ver[p] \in Versions /\ ver[p] \notin recorded
    <3>1. ver'[p] = ver[p] /\ at'[p] = "apply"
      BY <1>1, <2>2 DEF TypeOK, Check, Go
    <3> QED
      BY <1>2, <2>2, <3>1 DEF DbStages, Migrated
  <2>3. CASE ver[p] \notin Versions
    <3>1. ver'[p] = 1 /\ at'[p] \in {"admin", "keys", "idle"}
      BY <1>1, <2>3 DEF TypeOK, Check, Go
    <3>2. recorded = Versions
      <4>1. ver[p] - 1 = Latest
        BY <1>2, <2>3, ProcFacts DEF Versions
      <4> QED
        BY <1>2, <4>1 DEF Versions
    <3> QED
      BY <3>1, <3>2 DEF DbStages
  <2> QED
    BY <2>1, <2>2, <2>3
<1>4. ASSUME NEW q \in Procs
      PROVE  /\ at'[q] \notin DbStages => ver'[q] = 1
             /\ at'[q] \in DbStages => 1..(ver'[q] - 1) \subseteq recorded'
             /\ at'[q] = "apply" => ver'[q] \in Versions
             /\ at'[q] = "record" => writer' = q /\ ver'[q] \in Versions /\ Applies(ver[q])'
             /\ at'[q] \in Migrated => recorded' = Versions
             /\ at'[q] = "report" => admin'
  <2>1. CASE q = p
    BY <1>1, <1>3, <2>1
  <2>2. CASE q # p
    BY <1>1, <2>2 DEF DbOK, AdminOK, Applies
  <2> QED
    BY <2>1, <2>2
<1> QED
  BY <1>4 DEF DbOK, AdminOK

\* So does one that begins a migration.
LEMMA ApplyKeeps ==
  ASSUME TypeOK, DbOK, AdminOK, NEW p \in Procs, apply(p)
  PROVE  DbOK' /\ AdminOK'
<1>1. /\ UNCHANGED <<recorded, tables, admin>> /\ at[p] = "apply" /\ writer = None
      /\ \A q \in Procs \ {p} : at'[q] = at[q] /\ ver'[q] = ver[q]
  BY DEF TypeOK, apply, Refuse, Go
<1>2. CASE ~ Applies(ver[p])
  <2>1. at'[p] = "failed" /\ ver'[p] = 1 /\ UNCHANGED writer
    BY <1>2 DEF TypeOK, apply, Refuse, Go
  <2> QED
    BY <1>1, <2>1, DbKept DEF Ended
<1>3. CASE Applies(ver[p])
  <2>1. at'[p] = "record" /\ ver'[p] = ver[p] /\ writer' = p
    BY <1>3 DEF TypeOK, apply, Go
  <2>2. \A q \in Procs : at[q] # "record"
    BY <1>1, ProcFacts DEF DbOK
  <2>3. ASSUME NEW q \in Procs
        PROVE  /\ at'[q] \notin DbStages => ver'[q] = 1
               /\ at'[q] \in DbStages => 1..(ver'[q] - 1) \subseteq recorded'
               /\ at'[q] = "apply" => ver'[q] \in Versions
               /\ at'[q] = "record" => writer' = q /\ ver'[q] \in Versions /\ Applies(ver[q])'
               /\ at'[q] \in Migrated => recorded' = Versions
               /\ at'[q] = "report" => admin'
    <3>1. CASE q = p
      BY <1>1, <1>3, <2>1, <3>1 DEF DbOK, DbStages, Migrated, Applies
    <3>2. CASE q # p
      BY <1>1, <2>2, <3>2 DEF DbOK, AdminOK
    <3> QED
      BY <3>1, <3>2
  <2> QED
    BY <2>3 DEF DbOK, AdminOK
<1> QED
  BY <1>2, <1>3

-----------------------------------------------------------------------------
(* The files.                                                              *)

\* What leaves the files and what inits hold alone keeps FilesOK and ServeOK, if
\* inits only end or go on past their keys.
LEMMA FilesKept ==
  ASSUME FilesOK, UNCHANGED <<disk, file, made>>,
         \A p \in Inits : \/ UNCHANGED at[p]
                          \/ at'[p] \in Ended
                          \/ at[p] \in PastKeys /\ at'[p] \in PastKeys
  PROVE  FilesOK'
<1>1. ASSUME NEW p \in Inits, Inside(p)'
      PROVE  Inside(p) /\ (UNCHANGED at[p] \/ (at[p] \in PastKeys /\ at'[p] \in PastKeys))
  BY <1>1 DEF Inside, Working, Ended, PastKeys
<1>2. \A p, q \in Inits : Inside(p)' /\ Inside(q)' => p = q
  BY <1>1 DEF FilesOK
<1>3. ASSUME NEW p \in Inits, Inside(p)'
      PROVE  /\ at'[p] = "write" => disk'[file'[p]] = "torn"
             /\ ~ (at'[p] = "write" /\ file'[p] = "config") => disk'["config"] = "whole"
             /\ at'[p] \in {"stat", "create"} => file'[p] \in KeyFiles
             /\ at'[p] \in {"stat", "create", "write"} /\ file'[p] = "crypt" => disk'["sign"] # "none"
             /\ at'[p] \in PastKeys => disk'["sign"] # "none" /\ disk'["crypt"] # "none"
             /\ \A f \in made'[p] \cap KeyFiles : disk'[f] = "whole"
  <2>1. Inside(p)
    BY <1>1, <1>3
  <2>2. CASE UNCHANGED at[p]
    BY <2>1, <2>2 DEF FilesOK
  <2>3. CASE at[p] \in PastKeys /\ at'[p] \in PastKeys
    BY <2>1, <2>3 DEF FilesOK, PastKeys
  <2> QED
    BY <1>1, <1>3, <2>2, <2>3
<1>4. \A p \in Inits : at'[p] = "create" /\ file'[p] = "config" => made'[p] = {}
  BY DEF FilesOK, Ended, PastKeys
<1> QED
  BY <1>2, <1>3, <1>4 DEF FilesOK

\* An init that moves, with everyone else where he was: it is the only one
\* inside, before and after.
LEMMA OneMoves ==
  ASSUME TypeOK, FilesOK, NEW p \in Inits,
         \A q \in Inits \ {p} : UNCHANGED <<at[q], file[q], made[q]>>,
         Inside(p) \/ disk["config"] = "none",
         at'[p] = "create" /\ file'[p] = "config" => made'[p] = {},
         Inside(p)' =>
           /\ at'[p] = "write" => disk'[file'[p]] = "torn"
           /\ ~ (at'[p] = "write" /\ file'[p] = "config") => disk'["config"] = "whole"
           /\ at'[p] \in {"stat", "create"} => file'[p] \in KeyFiles
           /\ at'[p] \in {"stat", "create", "write"} /\ file'[p] = "crypt" => disk'["sign"] # "none"
           /\ at'[p] \in PastKeys => disk'["sign"] # "none" /\ disk'["crypt"] # "none"
           /\ \A f \in made'[p] \cap KeyFiles : disk'[f] = "whole"
  PROVE  FilesOK'
<1>1. ASSUME NEW q \in Inits \ {p}
      PROVE  ~ Inside(q)
  <2>1. CASE Inside(p)
    BY <2>1 DEF FilesOK
  <2>2. CASE disk["config"] = "none"
    BY <2>2 DEF FilesOK
  <2> QED
    BY <2>1, <2>2
<1>2. \A q \in Inits \ {p} : ~ Inside(q)'
  BY <1>1 DEF Inside, Working
<1>3. \A q \in Inits : Inside(q)' => q = p
  BY <1>2
<1> QED
  BY <1>3 DEF FilesOK

\* A key or the configuration is begun only where no file is.
LEMMA OpenFileKeeps ==
  ASSUME TypeOK, FilesOK, NEW p \in Inits, OpenFile(p)
  PROVE  FilesOK'
<1>1. /\ at[p] = "create" /\ UNCHANGED <<file, made>> /\ p \in Procs
      /\ \A q \in Inits \ {p} : at'[q] = at[q]
  BY ProcFacts DEF TypeOK, OpenFile, Go
<1>2. CASE disk[file[p]] # "none"
  <2>1. at'[p] = "failed" /\ UNCHANGED disk
    BY <1>1, <1>2 DEF TypeOK, OpenFile, Go
  <2> QED
    BY <1>1, <2>1, FilesKept DEF Ended
<1>3. CASE disk[file[p]] = "none"
  <2>1. at'[p] = "write" /\ disk' = [disk EXCEPT ![file[p]] = "torn"] /\ file[p] \in Files
    BY <1>1, <1>3 DEF TypeOK, OpenFile, Go
  <2>2. CASE file[p] = "config"
    <3>1. ~ Inside(p) /\ disk["config"] = "none"
      BY <1>1, <1>3, <2>2 DEF Inside
    <3>2. disk'["config"] = "torn" /\ \A f \in KeyFiles : disk'[f] = disk[f]
      BY <2>1, <2>2 DEF TypeOK, Files, KeyFiles
    <3>3. made[p] = {}
      BY <1>1, <2>2 DEF FilesOK
    <3> QED
      BY <1>1, <2>1, <2>2, <3>1, <3>2, <3>3, OneMoves DEF PastKeys
  <2>3. CASE file[p] # "config"
    <3>1. Inside(p)
      BY <1>1, <2>3 DEF Inside, Working, Ended
    <3>2. /\ file[p] \in KeyFiles /\ disk["config"] = "whole"
          /\ file[p] = "crypt" => disk["sign"] # "none"
          /\ \A f \in made[p] \cap KeyFiles : disk[f] = "whole"
      BY <1>1, <2>3, <3>1 DEF FilesOK
    <3>3. /\ disk'[file[p]] = "torn" /\ disk'["config"] = "whole"
          /\ \A f \in Files : f # file[p] => disk'[f] = disk[f]
      BY <2>1, <3>2 DEF TypeOK, Files, KeyFiles
    <3>4. file[p] = "crypt" => disk'["sign"] # "none"
      BY <3>2, <3>3 DEF Files, KeyFiles
    <3>5. \A f \in made[p] \cap KeyFiles : disk'[f] = "whole"
      BY <1>3, <3>2, <3>3 DEF Files, KeyFiles
    <3> QED
      BY <1>1, <2>1, <2>3, <3>1, <3>3, <3>4, <3>5, OneMoves DEF PastKeys
  <2> QED
    BY <2>2, <2>3
<1> QED
  BY <1>2, <1>3

\* Going on from a file that is there.
LEMMA ProceedFacts ==
  ASSUME TypeOK, NEW p \in Inits, Proceed(p)
  PROVE  /\ \A q \in Inits \ {p} : at'[q] = at[q] /\ file'[q] = file[q]
         /\ file[p] = "sign" => at'[p] = "stat" /\ file'[p] = "crypt"
         /\ file[p] # "sign" => at'[p] = "check"
BY ProcFacts DEF TypeOK, Proceed, Go

\* Keeping a key that is there keeps the invariant.
LEMMA GenerateKeeps ==
  ASSUME TypeOK, FilesOK, NEW p \in Inits, generateKey(p)
  PROVE  FilesOK'
<1>1. at[p] = "stat" /\ UNCHANGED <<disk, made>> /\ Inside(p)
  BY DEF generateKey, Inside, Working, Ended
<1>2. /\ disk["config"] = "whole" /\ file[p] \in KeyFiles
      /\ file[p] = "crypt" => disk["sign"] # "none"
      /\ \A f \in made[p] \cap KeyFiles : disk[f] = "whole"
  BY <1>1 DEF FilesOK
<1>3. CASE disk[file[p]] = "none"
  <2>1. at'[p] = "create" /\ UNCHANGED file /\ \A q \in Inits \ {p} : at'[q] = at[q]
    BY <1>3, ProcFacts DEF TypeOK, generateKey, Go
  <2>2. file[p] # "config"
    BY <1>2 DEF KeyFiles
  <2> QED
    BY <1>1, <1>2, <2>1, <2>2, OneMoves DEF PastKeys
<1>4. CASE disk[file[p]] # "none"
  <2>1. Proceed(p)
    BY <1>4 DEF generateKey
  <2>2. CASE file[p] = "sign"
    BY <1>1, <1>2, <1>4, <2>1, <2>2, ProceedFacts, OneMoves DEF PastKeys, KeyFiles
  <2>3. CASE file[p] = "crypt"
    BY <1>1, <1>2, <1>4, <2>1, <2>3, ProceedFacts, OneMoves DEF PastKeys
  <2> QED
    BY <1>2, <2>2, <2>3 DEF KeyFiles
<1> QED
  BY <1>3, <1>4

\* Writing a file keeps the invariant.
LEMMA WriteKeeps ==
  ASSUME TypeOK, FilesOK, NEW p \in Inits, WriteFile(p)
  PROVE  FilesOK'
<1>1. at[p] = "write" /\ Inside(p) /\ file[p] \in Files
  BY DEF TypeOK, WriteFile, Inside, Working, Ended
<1>2. /\ file[p] # "config" => disk["config"] = "whole"
      /\ file[p] = "crypt" => disk["sign"] # "none"
      /\ \A f \in made[p] \cap KeyFiles : disk[f] = "whole"
  BY <1>1 DEF FilesOK
<1>3. /\ disk'[file[p]] = "whole" /\ \A f \in Files : f # file[p] => disk'[f] = disk[f]
      /\ made'[p] = made[p] \cup {file[p]}
      /\ \A q \in Inits \ {p} : made'[q] = made[q]
  BY <1>1 DEF TypeOK, WriteFile
<1>4. disk'["config"] = "whole" /\ \A f \in made'[p] \cap KeyFiles : disk'[f] = "whole"
  BY <1>1, <1>2, <1>3 DEF Files, KeyFiles
<1>5. CASE file[p] = "config"
  <2>1. at'[p] = "load" /\ UNCHANGED file /\ \A q \in Inits \ {p} : at'[q] = at[q]
    BY <1>5, ProcFacts DEF TypeOK, WriteFile, Go
  <2> QED
    BY <1>1, <1>3, <1>4, <2>1, OneMoves DEF PastKeys
<1>6. CASE file[p] = "sign"
  <2>1. Proceed(p)
    BY <1>6 DEF WriteFile
  <2>2. disk'["sign"] # "none"
    BY <1>3, <1>6
  <2> QED
    BY <1>1, <1>3, <1>4, <1>6, <2>1, <2>2, ProceedFacts, OneMoves DEF PastKeys, KeyFiles
<1>7. CASE file[p] = "crypt"
  <2>1. Proceed(p)
    BY <1>7 DEF WriteFile
  <2>2. disk'["sign"] # "none" /\ disk'["crypt"] # "none"
    BY <1>2, <1>3, <1>7 DEF Files, KeyFiles
  <2> QED
    BY <1>1, <1>3, <1>4, <1>7, <2>1, <2>2, ProceedFacts, OneMoves DEF PastKeys
<1> QED
  BY <1>1, <1>5, <1>6, <1>7 DEF Files, KeyFiles

\* Reading the configuration keeps the invariant.
LEMMA LoadKeeps ==
  ASSUME TypeOK, FilesOK, NEW p \in Procs, Load(p)
  PROVE  FilesOK'
<1>1. at[p] = "load" /\ UNCHANGED <<disk, made>> /\ \A q \in Procs \ {p} : at'[q] = at[q]
  BY DEF TypeOK, Load, Go
<1>2. CASE UNCHANGED file /\ (p \notin Inits \/ at'[p] = "failed")
  <2>1. \A q \in Inits : UNCHANGED at[q] \/ at'[q] \in Ended
    BY <1>1, <1>2, ProcFacts DEF Ended
  <2> QED
    BY <1>1, <1>2, <2>1, FilesKept
<1>3. CASE p \in Inits /\ Go(p, "stat") /\ file' = [file EXCEPT ![p] = "sign"]
  <2>1. /\ at'[p] = "stat" /\ file'[p] = "sign"
        /\ \A q \in Inits \ {p} : file'[q] = file[q] /\ at'[q] = at[q]
    BY <1>1, <1>3, ProcFacts DEF TypeOK, Go
  <2>2. Inside(p)
    BY <1>1 DEF Inside, Working, Ended
  <2>3. disk["config"] = "whole" /\ \A f \in made[p] \cap KeyFiles : disk[f] = "whole"
    BY <1>1, <1>3, <2>2 DEF FilesOK
  <2> QED
    BY <1>1, <1>3, <2>1, <2>2, <2>3, OneMoves DEF PastKeys, KeyFiles
<1> QED
  BY <1>2, <1>3 DEF TypeOK, Load, Go

\* Other steps of an init's life.
LEMMA StartKeeps ==
  ASSUME TypeOK, FilesOK, NEW p \in Inits, StartInit(p)
  PROVE  FilesOK'
<1>1. /\ disk["config"] = "none" /\ at'[p] = "create" /\ file'[p] = "config" /\ made'[p] = {}
      /\ \A q \in Inits \ {p} : UNCHANGED <<at[q], file[q], made[q]>>
  BY ProcFacts DEF TypeOK, StartInit, Go
<1>2. ~ Inside(p)'
  BY <1>1 DEF Inside
<1> QED
  BY <1>1, <1>2, OneMoves

\* A process that dies keeps the invariant: an init that was writing is no longer
\* inside.
LEMMA FailKeeps ==
  ASSUME TypeOK, FilesOK, NEW p \in Procs, Fail(p)
  PROVE  FilesOK'
<1>1. at'[p] = "failed" /\ UNCHANGED <<file, made>> /\ \A q \in Procs \ {p} : at'[q] = at[q]
  BY DEF TypeOK, Fail, Go
<1>2. CASE UNCHANGED disk
  <2>1. \A q \in Inits : UNCHANGED at[q] \/ at'[q] \in Ended
    BY <1>1, ProcFacts DEF Ended
  <2> QED
    BY <1>1, <1>2, <2>1, FilesKept
<1>3. CASE p \in Inits /\ at[p] = "write" /\ file[p] = "config"
  <2>1. Inside(p) /\ ~ Inside(p)'
    BY <1>1, <1>3 DEF Inside, Working, Ended
  <2>2. \A q \in Inits \ {p} : UNCHANGED <<at[q], file[q], made[q]>>
    BY <1>1, ProcFacts
  <2> QED
    BY <1>1, <1>3, <2>1, <2>2, OneMoves
<1> QED
  BY <1>2, <1>3 DEF Fail

-----------------------------------------------------------------------------
(* All steps.                                                              *)

\* The files a service has loaded stay whole until all files are moved, which
\* needs it stopped.
LEMMA ServeKept ==
  ASSUME ServeOK,
         \A f \in KeyFiles : disk[f] = "whole" => disk'[f] = "whole",
         UNCHANGED at[Serve] \/ at'[Serve] \notin {"crypto", "tls", "running"}
  PROVE  ServeOK'
BY DEF ServeOK, KeyFiles

\* An init's step keeps the invariant.
LEMMA InitStepKeeps ==
  ASSUME IInv, NEW p \in Inits, InitStep(p)
  PROVE  IInv'
<1>0. TypeOK /\ FilesOK /\ DbOK /\ AdminOK /\ ServeOK /\ SchemaExact /\ p \in Procs
  BY ProcFacts DEF IInv
<1>1. TypeOK'
  BY <1>0, InitStepType
<1>2. UNCHANGED <<recorded, tables, writer, ver>>
  BY DEF InitStep, generateKey, OpenFile, WriteFile, CreateAdmin, Report
<1>3. SchemaExact'
  BY <1>0, <1>2 DEF SchemaExact
<1>4. \A q \in Procs \ {p} : at'[q] = at[q]
  BY <1>0 DEF InitStep, generateKey, OpenFile, WriteFile, CreateAdmin, Report, Proceed, Go, TypeOK
<1>5. FilesOK'
  <2>1. ASSUME CreateAdmin(p) \/ Report(p)
        PROVE  FilesOK'
    <3>1. /\ at[p] \in PastKeys /\ at'[p] \in PastKeys \cup Ended
          /\ UNCHANGED <<disk, file, made>>
      BY <1>0, <2>1 DEF TypeOK, CreateAdmin, Report, Go, PastKeys, Ended
    <3>2. \A q \in Inits :
            \/ UNCHANGED at[q]
            \/ at'[q] \in Ended
            \/ at[q] \in PastKeys /\ at'[q] \in PastKeys
      <4>1. ASSUME NEW q \in Inits, q # p PROVE UNCHANGED at[q]
        BY <1>4, <4>1, ProcFacts
      <4>2. at'[p] \in Ended \/ (at[p] \in PastKeys /\ at'[p] \in PastKeys)
        BY <3>1
      <4>3. ASSUME NEW q \in Inits
            PROVE  \/ UNCHANGED at[q]
                   \/ at'[q] \in Ended
                   \/ at[q] \in PastKeys /\ at'[q] \in PastKeys
        <5>1. CASE q = p
          BY <4>2, <5>1
        <5>2. CASE q # p
          BY <4>1, <5>2
        <5> QED
          BY <5>1, <5>2
      <4> QED
        BY <4>3
    <3> QED
      BY <1>0, <3>1, <3>2, FilesKept
  <2> QED
    BY <1>0, <2>1, GenerateKeeps, OpenFileKeeps, WriteKeeps DEF InitStep
<1>6. DbOK' /\ AdminOK'
  <2>1. at[p] \notin DbStages
    BY DEF InitStep, generateKey, OpenFile, WriteFile, CreateAdmin, Report, DbStages
  <2>2. ver'[p] = 1
    BY <1>0, <1>2, <2>1 DEF DbOK
  <2>3. /\ admin => admin'
        /\ \/ at'[p] \in Ended \cup {"create", "write", "load", "stat", "check"}
           \/ at[p] \in Migrated /\ at'[p] \in Migrated /\ admin'
    BY <1>0 DEF InitStep, generateKey, OpenFile, WriteFile, CreateAdmin, Report, Proceed, Go,
                TypeOK, Migrated, Ended
  <2>4. \A q \in Procs :
           \/ UNCHANGED <<at[q], ver[q]>> /\ (writer = q => writer' = q)
           \/ ver'[q] = 1 /\ at'[q] \in Ended \cup {"create", "write", "load", "stat"}
           \/ ver'[q] = 1 /\ at'[q] = "check"
           \/ ver'[q] = 1 /\ at[q] \in Migrated /\ at'[q] \in Migrated
              /\ (at'[q] = "report" => admin')
    BY <1>2, <1>4, <2>2, <2>3
  <2> QED
    BY <1>0, <1>2, <2>3, <2>4, DbKept
<1>7. ServeOK'
  <2>1. \A f \in KeyFiles : disk[f] = "whole" => disk'[f] = "whole"
    BY <1>0 DEF InitStep, generateKey, OpenFile, WriteFile, CreateAdmin, Report, TypeOK,
                Files, KeyFiles
  <2> QED
    BY <1>0, <1>4, <2>1, ServeKept, ProcFacts
<1> QED
  BY <1>1, <1>3, <1>5, <1>6, <1>7 DEF IInv

\* Opening the database keeps the invariant.
LEMMA OpenStepKeeps ==
  ASSUME IInv, NEW p \in Procs, OpenStep(p)
  PROVE  IInv'
<1>0. TypeOK /\ FilesOK /\ DbOK /\ AdminOK /\ ServeOK /\ SchemaExact
  BY DEF IInv
<1>1. TypeOK'
  BY <1>0, OpenStepType
<1>2. UNCHANGED <<disk, made>> /\ \A q \in Procs \ {p} : at'[q] = at[q]
  BY <1>0 DEF OpenStep, Load, Check, apply, Refuse, record, Go, TypeOK
<1>3. ServeOK'
  <2>1. at'[p] \notin {"crypto", "tls", "running"}
    BY <1>0 DEF OpenStep, Load, Check, apply, Refuse, record, Go, TypeOK
  <2> QED
    BY <1>0, <1>2, <2>1, ServeKept, ProcFacts
<1>4. CASE Load(p)
  <2>1. ver'[p] = 1 /\ UNCHANGED <<recorded, tables, admin, writer, ver>>
        /\ at'[p] \in Ended \cup {"stat", "check"}
    BY <1>0, <1>4 DEF Load, Go, TypeOK, DbOK, DbStages, Ended
  <2>2. DbOK' /\ AdminOK'
    BY <1>0, <1>2, <2>1, DbKept
  <2> QED
    BY <1>0, <1>1, <1>3, <1>4, <2>1, <2>2, LoadKeeps DEF IInv, SchemaExact
<1>5. CASE Check(p) \/ apply(p) \/ record(p)
  <2>1. at[p] \in PastKeys /\ at'[p] \in PastKeys \cup Ended \cup {"keys"} /\ UNCHANGED file
        /\ (p \in Inits => at'[p] # "keys")
    BY <1>0, <1>5, ProcFacts DEF Check, apply, Refuse, record, Go, TypeOK, PastKeys, Ended
  <2>2. FilesOK'
    BY <1>0, <1>2, <2>1, FilesKept, ProcFacts
  <2>3. Check(p) \/ apply(p) => SchemaExact'
    BY <1>0 DEF Check, apply, SchemaExact
  <2> QED
    BY <1>0, <1>1, <1>3, <1>5, <2>2, <2>3, CheckKeeps, ApplyKeeps, RecordKeeps DEF IInv
<1> QED
  BY <1>4, <1>5 DEF OpenStep

\* The service's own steps keep the invariant.
LEMMA ServeStepKeeps ==
  ASSUME IInv, ServeStep
  PROVE  IInv'
<1>0. TypeOK /\ FilesOK /\ DbOK /\ AdminOK /\ ServeOK /\ SchemaExact
  BY DEF IInv
<1>1. TypeOK'
  BY <1>0, OtherType
<1>2. UNCHANGED <<disk, dbVars, file, ver, made>> /\ \A q \in Procs \ {Serve} : at'[q] = at[q]
  BY <1>0 DEF ServeStep, LoadSigningKey, LoadCryptoKey, buildHTTPSServer, Needs, Restart, Go,
              TypeOK
<1>3. SchemaExact' /\ FilesOK'
  <2>1. \A q \in Inits : UNCHANGED at[q]
    BY <1>2, ProcFacts
  <2> QED
    BY <1>0, <1>2, <2>1, FilesKept DEF SchemaExact
<1>4. /\ \/ at'[Serve] \in Ended \cup {"load"}
         \/ at[Serve] \in Migrated /\ at'[Serve] \in Migrated /\ at'[Serve] # "report"
      /\ at[Serve] \notin DbStages
      /\ ServeOK'
  BY <1>0, ProcFacts DEF ServeStep, LoadSigningKey, LoadCryptoKey, buildHTTPSServer, Needs,
       Restart, Go, TypeOK, Migrated, Ended, DbStages, ServeOK
<1>5. ver'[Serve] = 1
  BY <1>0, <1>2, <1>4, ProcFacts DEF DbOK
<1>6. \A q \in Procs :
         \/ UNCHANGED <<at[q], ver[q]>> /\ (writer = q => writer' = q)
         \/ ver'[q] = 1 /\ at'[q] \in Ended \cup {"create", "write", "load", "stat"}
         \/ ver'[q] = 1 /\ at'[q] = "check"
         \/ ver'[q] = 1 /\ at[q] \in Migrated /\ at'[q] \in Migrated
            /\ (at'[q] = "report" => admin')
  BY <1>2, <1>4, <1>5
<1>7. DbOK' /\ AdminOK'
  BY <1>0, <1>2, <1>6, DbKept
<1> QED
  BY <1>1, <1>3, <1>4, <1>7 DEF IInv

\* A process begins, or is stopped: it leaves the database alone.
LEMMA ProcKeeps ==
  ASSUME IInv, TypeOK', FilesOK', NEW p \in Procs,
         UNCHANGED <<recorded, tables, admin>>,
         \A q \in Procs \ {p} : UNCHANGED <<at[q], ver[q]>> /\ (writer = q => writer' = q),
         ver'[p] = 1, at'[p] \in Ended \cup {"create", "load"},
         \A f \in KeyFiles : disk'[f] = disk[f]
  PROVE  IInv'
<1>0. FilesOK /\ DbOK /\ AdminOK /\ ServeOK /\ SchemaExact
  BY DEF IInv
<1>1. DbOK' /\ AdminOK' /\ SchemaExact'
  BY <1>0, DbKept DEF SchemaExact
<1>2. UNCHANGED at[Serve] \/ at'[Serve] \notin {"crypto", "tls", "running"}
  BY ProcFacts DEF Ended
<1>3. ServeOK'
  BY <1>0, <1>2, ServeKept
<1> QED
  BY <1>1, <1>3 DEF IInv

\* Faults and the operator keep the invariant.
LEMMA EnvironmentKeeps ==
  ASSUME IInv, Environment
  PROVE  IInv'
<1>0. TypeOK /\ FilesOK /\ DbOK /\ AdminOK /\ ServeOK /\ SchemaExact
  BY DEF IInv
<1>1. TypeOK'
  BY <1>0, OtherType
<1>2. ASSUME NEW p \in Procs, Fail(p)
      PROVE  IInv'
  <2>1. \A f \in KeyFiles : disk'[f] = disk[f]
    BY <1>0, <1>2 DEF Fail, TypeOK, Files, KeyFiles
  <2>2. /\ UNCHANGED <<recorded, tables, admin>> /\ ver'[p] = 1 /\ at'[p] \in Ended
        /\ \A q \in Procs \ {p} : UNCHANGED <<at[q], ver[q]>> /\ (writer = q => writer' = q)
    BY <1>0, <1>2 DEF Fail, Release, Go, TypeOK, Ended
  <2> QED
    BY <1>0, <1>1, <1>2, <2>1, <2>2, FailKeeps, ProcKeeps
<1>3. ASSUME NEW p \in Inits, StartInit(p)
      PROVE  IInv'
  <2>1. /\ p \in Procs /\ at[p] \notin DbStages /\ at'[p] = "create"
        /\ UNCHANGED <<disk, recorded, tables, admin, writer, ver>>
        /\ \A q \in Procs \ {p} : at'[q] = at[q]
    BY <1>0, <1>3, ProcFacts DEF StartInit, Go, TypeOK, Ended, DbStages
  <2>2. ver'[p] = 1
    BY <1>0, <2>1 DEF DbOK
  <2> QED
    BY <1>0, <1>1, <1>3, <2>1, <2>2, StartKeeps, ProcKeeps
<1>4. ASSUME NEW p \in Procs, at'[p] \in Ended \cup {"load"}, ver'[p] = 1,
             UNCHANGED <<disk, file, made, recorded, tables, admin>>,
             \A q \in Procs \ {p} : UNCHANGED <<at[q], ver[q]>> /\ (writer = q => writer' = q),
             p \notin Inits
      PROVE  IInv'
  <2>1. FilesOK'
    BY <1>0, <1>4, FilesKept, ProcFacts
  <2> QED
    BY <1>1, <1>4, <2>1, ProcKeeps
<1>5. ASSUME NEW p \in Cmds, RunCmd(p)
      PROVE  IInv'
  <2>1. p \in Procs /\ p \notin Inits
    BY SetupAssumption DEF Procs
  <2>2. /\ at[p] \notin DbStages /\ at'[p] = "load" /\ UNCHANGED <<disk, dbVars, file, made, ver>>
        /\ \A q \in Procs \ {p} : at'[q] = at[q]
    BY <1>0, <1>5, <2>1 DEF RunCmd, Go, TypeOK, Ended, DbStages
  <2>3. ver'[p] = 1
    BY <1>0, <2>1, <2>2 DEF DbOK
  <2> QED
    BY <1>4, <2>1, <2>2, <2>3
<1>6. CASE StopUnit
  <2>1. /\ at'[Serve] = "idle" /\ ver'[Serve] = 1
        /\ UNCHANGED <<disk, file, made, recorded, tables, admin>>
        /\ \A q \in Procs \ {Serve} : UNCHANGED <<at[q], ver[q]>> /\ (writer = q => writer' = q)
    BY <1>0, <1>6, ProcFacts DEF StopUnit, Release, Go, TypeOK
  <2> QED
    BY <1>4, <2>1, ProcFacts DEF Ended
<1>7. CASE StartUnit
  <2>1. /\ at'[Serve] = "load" /\ UNCHANGED <<disk, dbVars, file, made, ver>>
        /\ \A q \in Procs \ {Serve} : at'[q] = at[q]
    BY <1>0, <1>7, ProcFacts DEF StartUnit, Go, TypeOK
  <2>2. ver[Serve] = 1
    BY <1>0, <1>7, ProcFacts DEF StartUnit, Ended, DbStages, DbOK
  <2> QED
    BY <1>4, <2>1, <2>2, ProcFacts
<1>8. CASE MoveAll
  <2>1. \A p \in Procs : at[p] \in Ended
    BY <1>8 DEF MoveAll, Working
  <2>2. FilesOK'
    BY <1>8, <2>1, ProcFacts DEF MoveAll, FilesOK, Inside, Working, Ended
  <2>3. DbOK' /\ AdminOK' /\ ServeOK'
    BY <1>0, <1>8, <2>1, ProcFacts DEF MoveAll, DbOK, AdminOK, ServeOK, Ended, DbStages, Migrated
  <2>4. SchemaExact'
    <3>1. 0 \in 0..Latest /\ 1..0 = {}
      BY ProcFacts
    <3> QED
      BY <1>8, <3>1 DEF MoveAll, SchemaExact
  <2> QED
    BY <1>1, <2>2, <2>3, <2>4 DEF IInv
<1>9. CASE MoveConfig
  <2>1. /\ UNCHANGED <<dbVars, procVars>> /\ \A f \in KeyFiles : disk'[f] = disk[f]
        /\ \A p \in Inits : at[p] \in Ended
    BY <1>0, <1>9 DEF MoveConfig, Working, TypeOK, Files, KeyFiles
  <2>2. FilesOK'
    BY <2>1 DEF FilesOK, Inside, Working, Ended
  <2>3. DbOK' /\ AdminOK' /\ ServeOK' /\ SchemaExact'
    BY <1>0, <2>1 DEF DbOK, AdminOK, ServeOK, SchemaExact, Applies, KeyFiles
  <2> QED
    BY <1>1, <2>2, <2>3 DEF IInv
<1> QED
  BY <1>2, <1>3, <1>5, <1>6, <1>7, <1>8, <1>9 DEF Environment

\* Every step keeps the invariant.
LEMMA NextKeeps ==
  ASSUME IInv, [Next]_vars
  PROVE  IInv'
<1>1. CASE UNCHANGED vars
  BY <1>1 DEF vars, IInv, TypeOK, SchemaExact, FilesOK, Inside, Working, DbOK, Applies, AdminOK,
              ServeOK
<1> QED
  BY <1>1, InitStepKeeps, OpenStepKeeps, ServeStepKeeps, EnvironmentKeeps DEF Next

\* A fresh machine and one that an earlier release set up satisfy it.
LEMMA InitHolds == Init => IInv
<1> SUFFICES ASSUME Init PROVE IInv
  OBVIOUS
<1>1. \A p \in Procs : at[p] = "idle" /\ ver[p] = 1
  BY DEF Init
<1>2. /\ recorded = {} \/ \E k \in Versions : recorded = 1..k
      /\ tables = recorded
  BY DEF Init
<1>3. \E k \in 0..Latest : recorded = 1..k
  <2>1. CASE recorded = {}
    <3>1. 0 \in 0..Latest /\ 1..0 = {}
      BY ProcFacts
    <3> QED
      BY <2>1, <3>1
  <2>2. CASE \E k \in Versions : recorded = 1..k
    BY <2>2, ProcFacts DEF Versions
  <2> QED
    BY <1>2, <2>1, <2>2
<1>4. recorded \subseteq Versions
  BY <1>3, ProcFacts DEF Versions
<1>5. TypeOK
  <2>1. /\ 0 \in 0..MaxFaults /\ 0 \in 0..MaxMoves
        /\ disk \in [Files -> {"none", "torn", "cut", "whole"}] /\ admin \in BOOLEAN
    <3>1. 0 \in 0..MaxFaults /\ 0 \in 0..MaxMoves
      BY ProcFacts
    <3>2. CASE disk = [f \in Files |-> "none"] /\ admin = FALSE
      BY <3>1, <3>2
    <3>3. CASE disk = [f \in Files |-> "whole"] /\ admin = TRUE
      BY <3>1, <3>3
    <3> QED
      BY <3>2, <3>3 DEF Init
  <2> QED
    BY <1>2, <1>4, <2>1, ProcFacts DEF Init, TypeOK, Steps, Ended, Files
<1>6. FilesOK /\ ServeOK /\ AdminOK /\ DbOK
  <2>1. \A p \in Inits : ~ Inside(p) /\ at[p] = "idle"
    BY <1>1, ProcFacts DEF Inside, Working, Ended
  <2> QED
    BY <1>1, <2>1, ProcFacts DEF FilesOK, ServeOK, AdminOK, DbOK, DbStages, Migrated
<1> QED
  BY <1>2, <1>3, <1>5, <1>6 DEF IInv, SchemaExact

\* IInv is an invariant of the specification.
THEOREM SetupInvariance == Spec => []IInv
<1>1. IInv /\ [Next]_vars => IInv'
  BY NextKeeps
<1> QED
  BY <1>1, InitHolds, PTL DEF Spec

\* Type correctness of files, schema and processes.
THEOREM SetupTypeCorrect == Spec => []TypeOK
<1>1. IInv => TypeOK
  BY DEF IInv
<1> QED
  BY <1>1, SetupInvariance, PTL

\* schema_migrations tells what there is, whoever migrates at the same time and
\* wherever a process dies (db.go migrate).
THEOREM MigrationsExact == Spec => []SchemaExact
<1>1. IInv => SchemaExact
  BY DEF IInv
<1> QED
  BY <1>1, SetupInvariance, PTL

\* Under a running service nothing replaces its keys or its schema (init.go
\* generateSigningKey and generateCryptoKey, db.go migrate).
THEOREM FootingKept == Spec => []RunningKeepsFooting
<1>1. IInv => RunningKeepsFooting
  BY ProcFacts DEF IInv, ServeOK, DbOK, Migrated, RunningKeepsFooting
<1> QED
  BY <1>1, SetupInvariance, PTL

\* What an init has when it reports success.
LEMMA ReportFacts ==
  ASSUME IInv, [Next]_vars, NEW p \in Inits, Working(p), at'[p] = "idle"
  PROVE  /\ disk'["config"] = "whole"
         /\ \A f \in KeyFiles : disk'[f] # "none" /\ (f \in made'[p] => disk'[f] = "whole")
         /\ recorded' = Versions /\ admin'
<1>0. TypeOK /\ FilesOK /\ DbOK /\ AdminOK /\ p \in Procs /\ p # Serve
  BY ProcFacts DEF IInv
<1>1. Report(p)
  <2>1. at'[p] # at[p]
    BY DEF Working, Ended
  <2>2. ASSUME NEW q \in Procs, q # p PROVE ~ InitStep(q) /\ ~ OpenStep(q) /\ ~ Fail(q)
    BY <1>0, <2>1, <2>2 DEF InitStep, generateKey, OpenFile, WriteFile, CreateAdmin, Report, Proceed,
         OpenStep, Load, Check, apply, Refuse, record, Fail, Go, TypeOK
  <2>3. ~ ServeStep
    BY <1>0, <2>1, ProcFacts DEF ServeStep, LoadSigningKey, LoadCryptoKey, buildHTTPSServer, Needs,
                      Restart, Go, TypeOK
  <2>4. ~ OpenStep(p) /\ ~ Fail(p) /\ ~ generateKey(p) /\ ~ OpenFile(p) /\ ~ WriteFile(p)
        /\ ~ CreateAdmin(p)
    BY <1>0, <2>1 DEF generateKey, OpenFile, WriteFile, CreateAdmin, Proceed,
         OpenStep, Load, Check, apply, Refuse, record, Fail, Go, TypeOK
  <2>5. ASSUME NEW q \in Procs PROVE ~ StartInit(q) /\ ~ RunCmd(q)
    BY <1>0, <2>1 DEF StartInit, RunCmd, Go, TypeOK
  <2>6. ~ StartUnit /\ ~ StopUnit /\ ~ MoveAll /\ ~ MoveConfig /\ ~ UNCHANGED vars
    BY <1>0, <2>1, ProcFacts DEF StartUnit, StopUnit, MoveAll, MoveConfig, Go, TypeOK, vars
  <2> QED
    BY <1>0, <2>2, <2>3, <2>4, <2>5, <2>6, ProcFacts DEF Next, Environment, InitStep
<1>2. at[p] = "report" /\ Inside(p) /\ UNCHANGED <<disk, made, recorded, admin>>
  BY <1>1 DEF Report, Inside, Working, Ended
<1>3. /\ disk["config"] = "whole" /\ disk["sign"] # "none" /\ disk["crypt"] # "none"
      /\ \A f \in made[p] \cap KeyFiles : disk[f] = "whole"
  BY <1>0, <1>2 DEF FilesOK, PastKeys
<1>4. recorded = Versions /\ admin
  BY <1>0, <1>2 DEF DbOK, AdminOK, Migrated
<1> QED
  BY <1>2, <1>3, <1>4 DEF KeyFiles

\* An init that reports success has left what serve needs, but for keys it found
\* torn (init.go).
THEOREM ReportedInitComplete == Spec => InitComplete
<1> DEFINE Complete(p) ==
      /\ disk'["config"] = "whole"
      /\ \A f \in KeyFiles : disk'[f] # "none" /\ (f \in made'[p] => disk'[f] = "whole")
      /\ recorded' = Versions /\ admin'
<1>1. IInv /\ [Next]_vars => [\A p \in Inits : Working(p) /\ at'[p] = "idle" => Complete(p)]_vars
  BY ReportFacts
<1> QED
  BY <1>1, SetupInvariance, PTL DEF Spec, InitComplete
=============================================================================
