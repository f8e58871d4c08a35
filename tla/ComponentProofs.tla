-------------------------- MODULE ComponentProofs ---------------------------
(***************************************************************************)
(* What holds of the machinery around the library for every value of the   *)
(* constants: the JSON store loses no update, a mount switch that says it  *)
(* is complete is, a setup need not be run twice, the firewall lets no day *)
(* of the future through, and compliance and correlation decide what they  *)
(* are defined to decide.  They share no state; each has its invariant and *)
(* its theorem.                                                            *)
(***************************************************************************)
EXTENDS JsonStore, MountSwitch, SetupLayout, Verdicts, FiniteSetTheorems, TLAPS

(***************************************************************************)
(* The JSON store.  Whoever is between the read and the replacement has    *)
(* the lock file, so what it has read is what the file still holds, unless *)
(* a constructor emptied the file meanwhile; and its temporary file is     *)
(* there, since only the holder of the lock removes temporaries.           *)
(***************************************************************************)
StoreRecord == [status : StateOf \cup {"no file", "no record"}, checks : SUBSET Nat]
Inside == {"modify", "replace"}
ClientState == [pc : {"out", "create", "ready"} \cup Inside, op : Operation \cup {"none"},
                raw : StoreRecord]

JTypeOK ==
    /\ file \in StoreRecord /\ committed \in StoreRecord
    /\ temps \subseteq [by : Client, old : BOOLEAN]
    /\ client \in [Client -> ClientState]
    /\ flock \in Client \cup {NoClient}
    /\ begun \in Nat /\ deaths \in Nat /\ recreated \in BOOLEAN

\* The lock file is held by the client that is inside, and by nobody else.
Exclusive == \A c \in Client : client[c].pc \in Inside <=> flock = c
\* A client whose constructor is over has seen the file, which never goes away.
FileMade == \A c \in Client : client[c].pc \in Inside \cup {"ready"} => file # NoStore
\* A client about to replace the file has decided to write, and has its temporary file.
Prepared == \A c \in Client : client[c].pc = "replace" =>
                /\ Writes(client[c].op, client[c].raw)
                /\ \E t \in temps : t.by = c
\* What a client has read is what the operations so far have made.
ReadIsCommitted ==
    recreated \/ /\ file = committed
                 /\ \A c \in Client : client[c].pc \in Inside => client[c].raw = file

JInv == JTypeOK /\ Exclusive /\ FileMade /\ Prepared /\ ReadIsCommitted

\* The records that occur, and the clients outside an operation.
LEMMA RecordTypes ==
    /\ NoStore \in StoreRecord /\ NoRecord \in StoreRecord
    /\ Record("submitted", {}) \in StoreRecord
    /\ NoRecord # NoStore /\ Record("submitted", {}) # NoStore
<1>1. \A st \in StateOf \cup {"no file", "no record"} : Record(st, {}) \in StoreRecord
    BY DEF Record, StoreRecord
<1>2. \A st, cks : Record(st, cks).status = st
    BY DEF Record
<1>3. NoStore.status = "no file" /\ NoRecord.status = "no record"
      /\ Record("submitted", {}).status = "submitted"
    BY <1>2 DEF NoStore, NoRecord
<1>4. "submitted" \in StateOf
    BY DEF StateOf
<1>5. NoStore \in StoreRecord /\ NoRecord \in StoreRecord
    BY <1>1 DEF NoStore, NoRecord
<1> QED BY <1>1, <1>3, <1>4, <1>5

LEMMA RestingType ==
    /\ Out \in ClientState /\ Out.pc = "out"
    /\ Ready \in ClientState /\ Ready.pc = "ready"
BY RecordTypes, Zenon DEF Out, Ready, ClientState

\* An operation that writes never takes the file away.
LEMMA AfterRecord ==
    ASSUME NEW op, NEW r \in StoreRecord, Writes(op, r), NEW id \in Nat
    PROVE  After(op, r, id) \in StoreRecord /\ After(op, r, id) # NoStore
<1>1. r.checks \in SUBSET Nat /\ r.checks \cup {id} \in SUBSET Nat
    BY DEF StoreRecord
<1>2. \A st \in StateOf \cup {"no record"}, cks \in SUBSET Nat :
        Record(st, cks) \in StoreRecord /\ Record(st, cks) # NoStore
    <2> TAKE st \in StateOf \cup {"no record"}, cks \in SUBSET Nat
    <2>1. Record(st, cks) \in StoreRecord
        BY DEF Record, StoreRecord
    <2>2. Record(st, cks).status = st /\ NoStore.status = "no file"
        BY DEF Record, NoStore
    <2> QED BY <2>1, <2>2 DEF StateOf
<1>3. op = "append" => r.status \in StateOf
    BY DEF Writes
<1> QED BY <1>1, <1>2, <1>3, RecordTypes DEF After, StateOf

\* What a step does to its client and leaves to the others.
LEMMA ClientSet ==
    ASSUME JTypeOK, NEW c \in Client, NEW r \in ClientState, client' = [client EXCEPT ![c] = r]
    PROVE  /\ client' \in [Client -> ClientState] /\ client'[c] = r
           /\ \A o \in Client \ {c} : client'[o] = client[o]
BY DEF JTypeOK

LEMMA ClientGoes ==
    ASSUME JTypeOK, NEW c \in Client, NEW pc \in {"out", "create", "ready"} \cup Inside, Goes(c, pc)
    PROVE  /\ client' \in [Client -> ClientState] /\ client'[c].pc = pc
           /\ client'[c].op = client[c].op /\ client'[c].raw = client[c].raw
           /\ \A o \in Client \ {c} : client'[o] = client[o]
<1>1. client' = [client EXCEPT ![c] = [client[c] EXCEPT !.pc = pc]]
    BY Zenon DEF Goes
<1>2. client[c] \in ClientState
    BY DEF JTypeOK
<1> DEFINE r == [client[c] EXCEPT !.pc = pc]
<1>3. r \in ClientState /\ r.pc = pc /\ r.op = client[c].op /\ r.raw = client[c].raw
    BY <1>2, Zenon DEF ClientState
<1> HIDE DEF r
<1>4. client' = [client EXCEPT ![c] = r]
    BY <1>1 DEF r
<1> QED BY <1>3, <1>4, ClientSet

LEMMA ClientLeaves ==
    ASSUME JTypeOK, NEW c \in Client, Leaves(c)
    PROVE  /\ client' \in [Client -> ClientState] /\ client'[c].pc = "ready"
           /\ \A o \in Client \ {c} : client'[o] = client[o]
           /\ flock' = IF flock = c THEN NoClient ELSE flock
BY ClientSet, RestingType DEF Leaves, Unlocked

LEMMA StoreStart == JInit => JInv
<1> SUFFICES ASSUME JInit PROVE JInv
    OBVIOUS
<1>1. JTypeOK
    BY RecordTypes, RestingType DEF JInit, JTypeOK
<1>2. \A c \in Client : client[c].pc = "out"
    BY RestingType DEF JInit
<1> QED BY <1>1, <1>2, StoreAssumption DEF JInit, JInv, Exclusive, FileMade, Prepared,
           ReadIsCommitted, Inside

LEMMA StoreStep == JInv /\ [JNext]_jvars => JInv'
<1> SUFFICES ASSUME JInv, [JNext]_jvars PROVE JInv'
    OBVIOUS
<1> USE StoreAssumption DEF JInv
<1>1. ASSUME NEW c \in Client, Construct(c) PROVE JInv'
    <2>1. CASE file = NoStore
        BY <1>1, <2>1, ClientGoes, SMT DEF Construct, history, JTypeOK, Exclusive, FileMade,
           Prepared, ReadIsCommitted, Inside
    <2>2. CASE file # NoStore
        BY <1>1, <2>2, ClientSet, RestingType, SMT DEF Construct, history, JTypeOK,
           Exclusive, FileMade, Prepared, ReadIsCommitted, Inside
    <2> QED BY <2>1, <2>2
<1>2. ASSUME NEW c \in Client, CreateFile(c) PROVE JInv'
    <2>1. /\ client' \in [Client -> ClientState] /\ client'[c] = Ready
          /\ \A o \in Client \ {c} : client'[o] = client[o]
        BY <1>2, ClientSet, RestingType DEF CreateFile
    <2>2. /\ client[c].pc = "create" /\ file' = NoRecord /\ committed' = NoRecord
          /\ recreated' = (recreated \/ file # NoStore)
          /\ UNCHANGED <<flock, temps, begun, deaths>>
        BY <1>2 DEF CreateFile
    <2>3. JTypeOK'
        BY <2>1, <2>2, RecordTypes DEF JTypeOK
    <2>4. Exclusive' /\ FileMade' /\ Prepared'
        BY <2>1, <2>2, RestingType, RecordTypes DEF Exclusive, FileMade, Prepared, Inside
    <2>5. ReadIsCommitted'
        <3>1. CASE file # NoStore
            BY <2>2, <3>1 DEF ReadIsCommitted
        <3>2. CASE file = NoStore
            BY <2>1, <2>2, <3>2, RestingType DEF ReadIsCommitted, FileMade, Inside
        <3> QED BY <3>1, <3>2
    <2> QED BY <2>3, <2>4, <2>5
<1>3. ASSUME NEW c \in Client, Reads(c) PROVE JInv'
    <2>1. Leaves(c) /\ UNCHANGED <<file, temps, begun, deaths, history>> /\ client[c].pc = "modify"
        BY <1>3 DEF Reads
    <2> QED BY <2>1, ClientLeaves, SMT DEF history, JTypeOK, Exclusive, FileMade, Prepared,
               ReadIsCommitted, Inside
<1>4. ASSUME NEW c \in Client, WriteTemp(c) PROVE JInv'
    <2>1. Goes(c, "replace") /\ UNCHANGED <<file, flock, begun, deaths, history>>
          /\ client[c].pc = "modify" /\ Writes(client[c].op, client[c].raw)
          /\ temps' = temps \cup {[by |-> c, old |-> FALSE]}
        BY <1>4 DEF WriteTemp
    <2>2. /\ client' \in [Client -> ClientState] /\ client'[c].pc = "replace"
          /\ client'[c].op = client[c].op /\ client'[c].raw = client[c].raw
          /\ \A o \in Client \ {c} : client'[o] = client[o]
        BY <2>1, ClientGoes DEF Inside
    <2>3. JTypeOK'
        <3>1. [by |-> c, old |-> FALSE] \in [by : Client, old : BOOLEAN]
            OBVIOUS
        <3> QED BY <2>1, <2>2, <3>1 DEF JTypeOK, history
    <2>4. Prepared'
        <3>1. [by |-> c, old |-> FALSE] \in temps' /\ temps \subseteq temps'
            BY <2>1
        <3> QED BY <2>1, <2>2, <3>1 DEF Prepared
    <2>5. Exclusive' /\ FileMade' /\ ReadIsCommitted'
        BY <2>1, <2>2 DEF Exclusive, FileMade, ReadIsCommitted, Inside, history
    <2> QED BY <2>3, <2>4, <2>5
<1>5. ASSUME NEW c \in Client, Replace(c) PROVE JInv'
    <2>1. /\ client[c].pc = "replace" /\ file' = After(client[c].op, client[c].raw, begun)
          /\ committed' = IF Writes(client[c].op, committed)
                          THEN After(client[c].op, committed, begun) ELSE committed
          /\ Leaves(c) /\ UNCHANGED <<begun, deaths, recreated>>
        BY <1>5 DEF Replace
    <2>2. PICK t \in temps : t.by = c /\ temps' = temps \ {t}
        BY <1>5 DEF Replace
    <2>3. /\ client' \in [Client -> ClientState] /\ client'[c].pc = "ready"
          /\ \A o \in Client \ {c} : client'[o] = client[o]
          /\ flock' = IF flock = c THEN NoClient ELSE flock
        BY <2>1, ClientLeaves
    <2>4. flock = c /\ \A o \in Client \ {c} : client[o].pc \notin Inside
        BY <2>1 DEF Exclusive, Inside
    <2>5. Writes(client[c].op, client[c].raw) /\ client[c].raw \in StoreRecord
        BY <2>1 DEF Prepared, JTypeOK, ClientState
    <2>6. file' \in StoreRecord /\ file' # NoStore
        BY <2>1, <2>5, AfterRecord DEF JTypeOK
    <2>7. committed' \in StoreRecord
        BY <2>1, AfterRecord DEF JTypeOK
    <2>8. JTypeOK'
        BY <2>1, <2>2, <2>3, <2>6, <2>7 DEF JTypeOK
    <2>9. Exclusive' /\ FileMade' /\ Prepared'
        BY <2>3, <2>4, <2>6 DEF Exclusive, FileMade, Prepared, Inside
    <2>10. ReadIsCommitted'
        <3>1. ~recreated => client[c].raw = committed
            BY <2>1 DEF ReadIsCommitted, Inside
        <3> QED BY <2>1, <2>3, <2>4, <2>5, <3>1 DEF ReadIsCommitted, Inside
    <2> QED BY <2>8, <2>9, <2>10
<1>6. ASSUME NEW c \in Client, WriteFails(c) PROVE JInv'
    <2>1. Leaves(c) /\ UNCHANGED <<file, begun, deaths, history>> /\ client[c].pc = "replace"
          /\ temps' = {t \in temps : t.by # c}
        BY <1>6 DEF WriteFails
    <2> QED BY <2>1, ClientLeaves, SMT DEF history, JTypeOK, Exclusive, FileMade, Prepared,
               ReadIsCommitted, Inside
<1>7. ASSUME NEW c \in Client, ClientDies(c) PROVE JInv'
    BY <1>7, ClientSet, RestingType, SMT DEF ClientDies, Unlocked, history, JTypeOK,
       Exclusive, FileMade, Prepared, ReadIsCommitted, Inside
<1>8. ASSUME NEW c \in Client, NEW op \in Operation, BeginOp(c, op) PROVE JInv'
    BY <1>8, SMT DEF BeginOp, history, ClientState, JTypeOK, Exclusive, FileMade, Prepared,
       ReadIsCommitted, Inside
<1>9. CASE Ages
    <2>1. UNCHANGED <<file, flock, client, begun, deaths, history>>
        BY <1>9 DEF Ages
    <2>2. PICK t \in temps : temps' = (temps \ {t}) \cup {[t EXCEPT !.old = TRUE]}
        BY <1>9 DEF Ages
    <2>3. /\ [t EXCEPT !.old = TRUE] \in [by : Client, old : BOOLEAN]
          /\ [t EXCEPT !.old = TRUE].by = t.by
        BY <2>2 DEF JTypeOK
    <2>4. JTypeOK'
        BY <2>1, <2>2, <2>3 DEF JTypeOK, history
    <2>5. Prepared'
        BY <2>1, <2>2, <2>3 DEF Prepared
    <2> QED BY <2>1, <2>4, <2>5 DEF Exclusive, FileMade, ReadIsCommitted, history
<1>10. CASE UNCHANGED jvars
    BY <1>10 DEF jvars, history, JTypeOK, Exclusive, FileMade, Prepared, ReadIsCommitted, Inside
<1> QED BY <1>1, <1>2, <1>3, <1>4, <1>5, <1>6, <1>7, <1>8, <1>9, <1>10 DEF JNext

\* No update of the JSON store is lost, whatever clients are killed, and a writer
\* never lacks its temporary file.
THEOREM StoreSerial == JSpec => []StoreIsSerial
<1>1. JInv => StoreIsSerial
    BY DEF JInv, Prepared, ReadIsCommitted, StoreIsSerial
<1> QED BY <1>1, StoreStart, StoreStep, PTL DEF JSpec

(***************************************************************************)
(* The mount switch.  What each step of a migration may rely on.           *)
(***************************************************************************)
Stage == {"idle", "backup", "stop", "env", "unit", "reload", "sidecar", "start", "wait", "link",
          "restore", "restart"}

\* Where the volume is mounted while a migration goes on; at A only under A's unit file.
MountPhase ==
    /\ mounted \in {"A", "B", "none"}
    /\ mounted = "A" => unit = "A"
    /\ mig.pc \in {"env", "unit", "reload", "sidecar", "start"} =>
        mounted = "none" /\ service = "inactive"
    /\ mig.pc \in {"wait", "restore"} => mounted # "A"
    /\ mig.pc = "link" => mounted = "B"
\* The configuration that has been written so far.
ConfigPhase ==
    /\ mig.pc \in {"backup", "stop", "env", "unit", "restart"} => unit = "A"
    /\ mig.pc \in {"unit", "reload", "sidecar", "start", "wait", "link"} => env = "B"
    /\ mig.pc \in {"reload", "sidecar", "start", "wait", "link"} => unit = "B"
    /\ mig.pc \in {"sidecar", "start", "wait", "link"} => read = "B"
\* The saved unit file is A's, and there is one as soon as it may be needed.
BackupPhase ==
    /\ backup.unit \in {"none", "A"}
    /\ mig.pc \notin {"idle", "backup"} => backup.unit = "A" /\ backup.env \in {"A", "B"}

Migrated ==
    mig.result = "migrated" /\ At("idle") =>
        env = "B" /\ unit = "B" /\ read = "B" /\ mounted = "B" /\ link # "A"

Migration == [pc : Stage, result : Result, from : {"A", "B"}]

SwitchInv ==
    /\ mig \in Migration /\ env \in {"A", "B"} /\ unit \in {"A", "B"}
    /\ service \in {"active", "inactive"}
    /\ backup \in [env : {"A", "B", "none"}, unit : {"A", "B", "none"}]
    /\ MountPhase /\ ConfigPhase /\ BackupPhase /\ Migrated

LEMMA MigGoto ==
    ASSUME mig \in Migration, NEW pc \in Stage, Goto(pc)
    PROVE  mig' \in Migration /\ mig'.pc = pc /\ mig'.result = mig.result
BY Zenon DEF Migration, Goto

LEMMA MigEnd ==
    ASSUME mig \in Migration, NEW result \in Result, End(result)
    PROVE  mig' \in Migration /\ mig'.pc = "idle" /\ mig'.result = result
<1>1. "idle" \in Stage
    BY DEF Stage
<1> QED BY <1>1, Zenon DEF Migration, End

\* An exception leaves everything but the migration as it was.
LEMMA Raised ==
    ASSUME SwitchInv, Raise, mig.pc # "idle" PROVE SwitchInv'
<1>1. mig' \in Migration /\ mig'.pc = "idle" /\ mig'.result = "raised"
    BY MigEnd DEF Raise, SwitchInv, Result
<1> QED BY <1>1 DEF Raise, SwitchInv, MountPhase, ConfigPhase, BackupPhase, Migrated, At

LEMMA SwitchStart == SInit => SwitchInv
BY DEF SInit, SwitchInv, Migration, MountPhase, ConfigPhase, BackupPhase, Migrated, Stage,
   Result, At

LEMMA SwitchStep == SwitchInv /\ [SNext]_svars => SwitchInv'
<1> SUFFICES ASSUME SwitchInv, [SNext]_svars PROVE SwitchInv'
    OBVIOUS
<1> USE DEF Stage, Result
<1>1. CASE Operator
    BY <1>1 DEF Operator, SwitchInv, MountPhase, ConfigPhase, BackupPhase, Migrated, At,
       config, system
<1>2. CASE SwitchBegin
    <2>1. CASE mounted = "A" /\ mig' = [mig EXCEPT !.pc = "backup", !.from = env]
        <3>1. mig' \in Migration /\ mig'.pc = "backup"
            BY <2>1, Zenon DEF SwitchInv, Migration
        <3> QED BY <1>2, <2>1, <3>1 DEF SwitchBegin, SwitchInv, MountPhase, ConfigPhase,
                   BackupPhase, Migrated, At, config, system
    <2>2. ASSUME NEW result \in {"refused", "nothing to do"}, End(result) PROVE SwitchInv'
        <3>1. mig' \in Migration /\ mig'.pc = "idle" /\ mig'.result = result
            BY <2>2, MigEnd DEF SwitchInv
        <3> QED BY <1>2, <3>1 DEF SwitchBegin, SwitchInv, MountPhase, ConfigPhase,
                   BackupPhase, Migrated, At, config, system
    <2> QED BY <1>2, <2>1, <2>2 DEF SwitchBegin
<1>3. CASE Backup
    <2>1. CASE Raise
        BY <1>3, <2>1, Raised DEF Backup, At
    <2>2. ASSUME backup' = [env |-> env, unit |-> unit],
                 UNCHANGED <<env, unit, read, service, mounted, sidecar, link, attempts>>,
                 Goto("stop")
          PROVE  SwitchInv'
        <3>1. mig' \in Migration /\ mig'.pc = "stop" /\ mig.pc \in Stage
            BY <2>2, MigGoto DEF SwitchInv, Migration
        <3> QED BY <1>3, <2>2, <3>1 DEF Backup, SwitchInv, MountPhase, ConfigPhase,
                   BackupPhase, Migrated, At, config, system
    <2> QED BY <1>3, <2>1, <2>2 DEF Backup, config, system
<1>4. CASE Stop
    <2>1. CASE Raise
        BY <1>4, <2>1, Raised DEF Stop, At
    <2>2. ASSUME service' = "inactive", mounted' = "none",
                 UNCHANGED <<env, unit, read, sidecar, link, backup, attempts>>, Goto("env")
          PROVE  SwitchInv'
        <3>1. mig' \in Migration /\ mig'.pc = "env" /\ mig.pc \in Stage
            BY <2>2, MigGoto DEF SwitchInv, Migration
        <3> QED BY <1>4, <2>2, <3>1 DEF Stop, SwitchInv, MountPhase, ConfigPhase,
                   BackupPhase, Migrated, At, config, system
    <2> QED BY <1>4, <2>1, <2>2 DEF Stop, config, system
<1>5. CASE WriteEnv
    <2>1. CASE Raise
        BY <1>5, <2>1, Raised DEF WriteEnv, At
    <2>2. ASSUME env' = "B",
                 UNCHANGED <<unit, read, service, mounted, sidecar, link, backup, attempts>>,
                 Goto("unit")
          PROVE  SwitchInv'
        <3>1. mig' \in Migration /\ mig'.pc = "unit" /\ mig.pc \in Stage
            BY <2>2, MigGoto DEF SwitchInv, Migration
        <3> QED BY <1>5, <2>2, <3>1 DEF WriteEnv, SwitchInv, MountPhase, ConfigPhase,
                   BackupPhase, Migrated, At, config, system
    <2> QED BY <1>5, <2>1, <2>2 DEF WriteEnv, config, system
<1>6. CASE WriteUnit
    <2>1. CASE Raise
        BY <1>6, <2>1, Raised DEF WriteUnit, At
    <2>2. ASSUME unit' = "B",
                 UNCHANGED <<env, read, service, mounted, sidecar, link, backup, attempts>>,
                 Goto("reload")
          PROVE  SwitchInv'
        <3>1. mig' \in Migration /\ mig'.pc = "reload" /\ mig.pc \in Stage
            BY <2>2, MigGoto DEF SwitchInv, Migration
        <3> QED BY <1>6, <2>2, <3>1 DEF WriteUnit, SwitchInv, MountPhase, ConfigPhase,
                   BackupPhase, Migrated, At, config, system
    <2> QED BY <1>6, <2>1, <2>2 DEF WriteUnit, config, system
<1>7. CASE DaemonReload
    <2>1. CASE Raise
        BY <1>7, <2>1, Raised DEF DaemonReload, At
    <2>2. ASSUME read' = unit,
                 UNCHANGED <<env, unit, service, mounted, sidecar, link, backup, attempts>>,
                 Goto("sidecar")
          PROVE  SwitchInv'
        <3>1. mig' \in Migration /\ mig'.pc = "sidecar" /\ mig.pc \in Stage
            BY <2>2, MigGoto DEF SwitchInv, Migration
        <3> QED BY <1>7, <2>2, <3>1 DEF DaemonReload, Reload, SwitchInv, MountPhase,
                   ConfigPhase, BackupPhase, Migrated, At, config, system
    <2> QED BY <1>7, <2>1, <2>2 DEF DaemonReload, config, system, Reload
<1>8. CASE SidecarDone
    <2>1. mig' \in Migration /\ mig'.pc = "start"
        BY <1>8, MigGoto DEF SidecarDone, SwitchInv
    <2> QED BY <1>8, <2>1 DEF SidecarDone, SwitchInv, MountPhase, ConfigPhase, BackupPhase,
               Migrated, At, config, system
<1>9. CASE Start
    <2>1. CASE Goto("wait")
        <3>1. mig' \in Migration /\ mig'.pc = "wait"
            BY <2>1, MigGoto DEF SwitchInv
        <3> QED BY <1>9, <3>1 DEF Start, StartOk, SwitchInv, MountPhase, ConfigPhase,
                   BackupPhase, Migrated, At, config, system
    <2>2. CASE Goto("restore")
        <3>1. mig' \in Migration /\ mig'.pc = "restore"
            BY <2>2, MigGoto DEF SwitchInv
        <3> QED BY <1>9, <3>1 DEF Start, StartOk, SwitchInv, MountPhase, ConfigPhase,
                   BackupPhase, Migrated, At, config, system
    <2> QED BY <1>9, <2>1, <2>2 DEF Start
<1>10. CASE Verify
    <2>1. CASE mounted = "B" /\ Goto("link")
        <3>1. mig' \in Migration /\ mig'.pc = "link"
            BY <2>1, MigGoto DEF SwitchInv
        <3> QED BY <1>10, <2>1, <3>1 DEF Verify, SwitchInv, MountPhase, ConfigPhase,
                   BackupPhase, Migrated, At, config, system
    <2>2. CASE Goto("restore")
        <3>1. mig' \in Migration /\ mig'.pc = "restore"
            BY <2>2, MigGoto DEF SwitchInv
        <3> QED BY <1>10, <3>1 DEF Verify, SwitchInv, MountPhase, ConfigPhase, BackupPhase,
                   Migrated, At, config, system
    <2> QED BY <1>10, <2>1, <2>2 DEF Verify
<1>11. CASE Relink
    <2>1. CASE Raise
        BY <1>11, <2>1, Raised DEF Relink, At
    <2>2. ASSUME link' = (IF link = "file" THEN "file" ELSE "B"), End("migrated"),
                 UNCHANGED <<env, unit, read, service, mounted, sidecar, backup, attempts>>
          PROVE  SwitchInv'
        <3>1. mig' \in Migration /\ mig'.pc = "idle" /\ mig'.result = "migrated"
            BY <2>2, MigEnd DEF SwitchInv
        <3> QED BY <1>11, <2>2, <3>1 DEF Relink, SwitchInv, MountPhase, ConfigPhase,
                   BackupPhase, Migrated, At, config, system
    <2> QED BY <1>11, <2>1, <2>2 DEF Relink, config, system
<1>12. CASE RollbackFiles
    <2>1. CASE Raise
        BY <1>12, <2>1, Raised DEF RollbackFiles, At
    <2>2. ASSUME env' = backup.env, unit' = backup.unit, Goto("restart"),
                 UNCHANGED <<read, service, mounted, sidecar, link, backup, attempts>>
          PROVE  SwitchInv'
        <3>1. mig' \in Migration /\ mig'.pc = "restart"
            BY <2>2, MigGoto DEF SwitchInv
        <3> QED BY <1>12, <2>2, <3>1 DEF RollbackFiles, SwitchInv, MountPhase, ConfigPhase,
                   BackupPhase, Migrated, At, config, system
    <2>3. ASSUME env' = backup.env, End("raised"),
                 UNCHANGED <<unit, read, service, mounted, sidecar, link, backup, attempts>>
          PROVE  SwitchInv'
        <3>1. mig' \in Migration /\ mig'.pc = "idle" /\ mig'.result = "raised"
            BY <2>3, MigEnd DEF SwitchInv
        <3> QED BY <1>12, <2>3, <3>1 DEF RollbackFiles, SwitchInv, MountPhase, ConfigPhase,
                   BackupPhase, Migrated, At, config, system
    <2> QED BY <1>12, <2>1, <2>2, <2>3 DEF RollbackFiles, system
<1>13. CASE RollbackStart
    <2>1. PICK result \in {"rolled back", "by hand"} : End(result)
        BY <1>13 DEF RollbackStart
    <2>2. mig' \in Migration /\ mig'.pc = "idle" /\ mig'.result = result
        BY <2>1, MigEnd DEF SwitchInv
    <2> QED BY <1>13, <2>2 DEF RollbackStart, Reload, SwitchInv, MountPhase, ConfigPhase,
               BackupPhase, Migrated, At, config, system
<1>14. ASSUME NEW e \in Entry, MoveEntry(e) PROVE SwitchInv'
    BY <1>14 DEF MoveEntry, SwitchInv, MountPhase, ConfigPhase, BackupPhase, Migrated, At,
       config, system
<1>15. ASSUME NEW e \in Entry, MoveBreaks(e) PROVE SwitchInv'
    <2>1. mig' \in Migration /\ mig'.pc = "idle" /\ mig'.result = "raised"
        BY <1>15, MigEnd DEF MoveBreaks, SwitchInv
    <2> QED BY <1>15, <2>1 DEF MoveBreaks, SwitchInv, MountPhase, ConfigPhase, BackupPhase,
               Migrated, At, config, system
<1>16. CASE UNCHANGED svars
    BY <1>16 DEF svars, SwitchInv, MountPhase, ConfigPhase, BackupPhase, Migrated, At,
       config, system
<1> QED BY <1>1, <1>2, <1>3, <1>4, <1>5, <1>6, <1>7, <1>8, <1>9, <1>10, <1>11, <1>12, <1>13,
           <1>14, <1>15, <1>16 DEF SNext

\* However often migrations fail and are rolled back, one that says it is complete
\* leaves one configuration, and the saved unit file is always the original.
THEOREM SwitchWhole == SSpec => []SwitchIsWhole
<1>1. SwitchInv => SwitchIsWhole
    BY DEF SwitchInv, BackupPhase, Migrated, SwitchIsWhole
<1> QED BY <1>1, SwitchStart, SwitchStep, PTL DEF SSpec

(***************************************************************************)
(* The firewall.  The array is cut before it is indexed, so whatever the   *)
(* key, numpy can only pick from the days that are left.                   *)
(***************************************************************************)
FireRecord ==
    [at : {"read", "done"}, delay : 0..1, ndim : 2..3, valid : BOOLEAN, di : DataDay,
     key : Index \cup Slice, ti : TickKey, viaData : BOOLEAN, days : SUBSET Int, blocked : BOOLEAN]

FireInv ==
    \/ fire = Off
    \/ fire \in FireRecord /\ NoFutureDay

LEMMA MaxDiType == ASSUME fire \in FireRecord PROVE MaxDi \in Int
BY BoundsAssumption, SMT DEF FireRecord, MaxDi, DataDay

LEMMA PickedDays ==
    ASSUME fire \in FireRecord, NEW key PROVE Picked(Truncated, key) \subseteq 0..MaxDi - 1
<1>1. Truncated \in Int /\ Truncated <= MaxDi
    BY MaxDiType, BoundsAssumption, SMT DEF Truncated
<1>2. Picked(Truncated, key) \subseteq 0..Truncated - 1
    BY DEF Picked
<1> QED BY <1>1, <1>2, MaxDiType, SMT

LEMMA FireStep == FireInv /\ [VNext]_vvars => FireInv'
<1> SUFFICES ASSUME FireInv, FireRead PROVE FireInv'
    BY DEF VNext, vvars, FireInv, NoFutureDay, MaxDi, CompScan, CompConclude, CorrPool,
       CorrJudge, CorrBeat
<1>1. fire \in FireRecord
    BY DEF FireInv, FireRead, Off
<1>2. PICK refused \in BOOLEAN : fire' = [fire EXCEPT !.at = "done", !.blocked = refused,
                              !.days = IF refused THEN {} ELSE Picked(Truncated, fire.key)]
    <2>1. (~fire.viaData /\ (LooksForward(fire.key) \/ LateTick)) \in BOOLEAN
        OBVIOUS
    <2> QED BY <2>1, Zenon DEF FireRead
<1> DEFINE days == IF refused THEN {} ELSE Picked(Truncated, fire.key)
<1>3. days \subseteq 0..MaxDi - 1
    BY <1>1, PickedDays
<1>4. days \in SUBSET Int
    BY <1>1, <1>3, MaxDiType, SMT
<1> HIDE DEF days
<1>5. fire' = [fire EXCEPT !.at = "done", !.blocked = refused, !.days = days]
    BY <1>2 DEF days
<1>6. /\ fire' \in FireRecord /\ fire'.days = days
      /\ fire'.valid = fire.valid /\ fire'.delay = fire.delay /\ fire'.ndim = fire.ndim
      /\ fire'.di = fire.di
    BY <1>1, <1>4, <1>5, Zenon DEF FireRecord
<1>7. MaxDi' = MaxDi
    BY <1>6 DEF MaxDi
<1>8. \A d \in days : d < MaxDi
    BY <1>1, <1>3, MaxDiType, SMT
<1> QED BY <1>6, <1>7, <1>8 DEF FireInv, NoFutureDay

\* No read through the firewall returns a day the factor may not see yet, for data
\* of any size and any key.
THEOREM FirewallHolds == VSpec => []NoFutureDay
<1>1. VInit => FireInv
    <2> SUFFICES ASSUME FireStart PROVE FireInv
        BY DEF VInit, FireInv
    <2>1. fire \in FireRecord /\ fire.at = "read"
        BY DEF FireStart, FireRecord
    <2> QED BY <2>1 DEF FireInv, NoFutureDay
<1>2. FireInv => NoFutureDay
    BY DEF FireInv, NoFutureDay, Off
<1> QED BY <1>1, <1>2, FireStep, PTL DEF VSpec

(***************************************************************************)
(* The setup.  A fix settles its row: after it, the row has nothing left   *)
(* that a fix could make.  And no later fix of the table changes what an   *)
(* earlier row sees, which is what the order of the table is for.          *)
(***************************************************************************)
Item == Directory \cup {"dump", "legacy"}
Site == [form : [Item -> Form], group : [Group -> {"missing", "right", "wrong", "taken"}],
         owned : SUBSET Directory]
FormRow == {"shared", "pools", "staging", "legacy"}
Row11 == {"host", "mount", "services", "tools"} \cup FormRow \cup {"dump", "groups", "perms"}
ReportRow == [row : Row11, ok : BOOLEAN, fixed : BOOLEAN]

\* The directories that the fix of the permissions does not reach stand behind one
\* whose group is not known.
Reached(s) ==
    LET stop == {i \in DOMAIN PermTable :
                    PermTable[i] \in Present(s) /\ ~Known(s, GroupOf(PermTable[i]))}
    IN  {PermTable[i] : i \in {j \in DOMAIN PermTable : \A k \in stop : j < k}}

\* A row with nothing left to make.
Quiet(s, row) ==
    CASE row \in Outside -> TRUE
      [] row = "dump" -> \/ s.form["sidecar"] = "wrong"
                         \/ s.form["sidecar"] # "missing" /\ s.form["dump"] # "missing"
      [] row = "groups" -> \A g \in Group : s.group[g] # "missing"
      [] row = "perms" -> Reached(s) \cap Present(s) \subseteq s.owned
      [] OTHER -> s.form[row] # "missing"

LEMMA MadeFields ==
    ASSUME NEW s \in Site, NEW item \in Item
    PROVE  /\ Made(s, item) \in Site
           /\ Made(s, item).form = [s.form EXCEPT ![item] = "right"]
           /\ Made(s, item).group = s.group
<1>1. [s.form EXCEPT ![item] = "right"] \in [Item -> Form]
    BY DEF Site, Form
<1>2. s.owned \ {item} \in SUBSET Directory
    BY DEF Site
<1>3. Made(s, item) =
        [s EXCEPT !.form = [s.form EXCEPT ![item] = "right"], !.owned = s.owned \ {item}]
    BY Zenon DEF Made
<1> DEFINE form == [s.form EXCEPT ![item] = "right"]
           owned == s.owned \ {item}
<1> HIDE DEF form, owned
<1>4. [s EXCEPT !.form = form, !.owned = owned] \in Site
      /\ [s EXCEPT !.form = form, !.owned = owned].form = form
      /\ [s EXCEPT !.form = form, !.owned = owned].group = s.group
    <2>1. form \in [Item -> Form] /\ owned \in SUBSET Directory
        BY <1>1, <1>2 DEF form, owned
    <2> QED BY <2>1, Zenon DEF Site
<1> QED BY <1>3, <1>4 DEF form, owned

LEMMA EnsuredFields ==
    ASSUME NEW s \in Site, NEW item \in Item
    PROVE  /\ Ensured(s, item) \in Site /\ Ensured(s, item).group = s.group
           /\ Ensured(s, item).form[item] = IF s.form[item] = "missing" THEN "right" ELSE s.form[item]
           /\ \A x \in Item \ {item} : Ensured(s, item).form[x] = s.form[x]
<1>1. CASE s.form[item] = "missing"
    <2>1. Ensured(s, item) = Made(s, item)
        BY <1>1 DEF Ensured
    <2>2. s.form \in [Item -> Form]
        BY DEF Site
    <2>3. /\ Made(s, item) \in Site /\ Made(s, item).group = s.group
          /\ Made(s, item).form = [s.form EXCEPT ![item] = "right"]
        BY MadeFields
    <2> QED BY <1>1, <2>1, <2>2, <2>3
<1>2. CASE s.form[item] # "missing"
    <2>1. Ensured(s, item) = s
        BY <1>2 DEF Ensured
    <2> QED BY <1>2, <2>1
<1> QED BY <1>1, <1>2

LEMMA DumpFields ==
    ASSUME NEW s \in Site
    PROVE  /\ DumpFixed(s) \in Site /\ DumpFixed(s).group = s.group
           /\ Quiet(DumpFixed(s), "dump")
           /\ \A x \in Item \ {"sidecar", "dump"} : DumpFixed(s).form[x] = s.form[x]
<1>1. "sidecar" \in Item /\ "dump" \in Item
    BY DEF Item, Directory
<1>2. CASE s.form["sidecar"] = "wrong"
    BY <1>2 DEF DumpFixed, Quiet, Outside
<1>3. CASE s.form["sidecar"] # "wrong"
    <2> DEFINE t == Ensured(s, "sidecar")
    <2>1. /\ t \in Site /\ t.group = s.group /\ t.form["sidecar"] # "missing"
          /\ \A x \in Item \ {"sidecar"} : t.form[x] = s.form[x]
        BY <1>1, EnsuredFields
    <2> HIDE DEF t
    <2> DEFINE u == Ensured(t, "dump")
    <2>2. /\ u \in Site /\ u.group = t.group
          /\ u.form["dump"] = IF t.form["dump"] = "missing" THEN "right" ELSE t.form["dump"]
          /\ \A x \in Item \ {"dump"} : u.form[x] = t.form[x]
        BY <1>1, <2>1, EnsuredFields
    <2> HIDE DEF u
    <2>3. DumpFixed(s) = u
        BY <1>3 DEF DumpFixed, t, u
    <2> QED BY <1>1, <2>1, <2>2, <2>3 DEF Quiet, Outside
<1> QED BY <1>2, <1>3

LEMMA GroupsFields ==
    ASSUME NEW s \in Site
    PROVE  /\ GroupsFixed(s) \in Site /\ GroupsFixed(s).form = s.form
           /\ Quiet(GroupsFixed(s), "groups")
<1> DEFINE group == [g \in Group |-> IF s.group[g] = "missing" THEN "right" ELSE s.group[g]]
<1>1. /\ group \in [Group -> {"missing", "right", "wrong", "taken"}]
      /\ \A g \in Group : group[g] # "missing"
    BY DEF Site
<1>2. GroupsFixed(s) = [s EXCEPT !.group = group]
    BY DEF GroupsFixed
<1> HIDE DEF group
<1>3. /\ [s EXCEPT !.group = group] \in Site /\ [s EXCEPT !.group = group].form = s.form
      /\ [s EXCEPT !.group = group].group = group
    BY <1>1, Zenon DEF Site
<1> QED BY <1>1, <1>2, <1>3 DEF Quiet, Outside

LEMMA PermsFields ==
    ASSUME NEW s \in Site
    PROVE  /\ PermsFixed(s) \in Site /\ PermsFixed(s).form = s.form /\ PermsFixed(s).group = s.group
           /\ Quiet(PermsFixed(s), "perms")
<1> DEFINE owned == s.owned \cup (Reached(s) \cap Present(s))
           t == [s EXCEPT !.owned = owned]
<1>1. PermsFixed(s) = t
    BY DEF PermsFixed, Reached
<1>2. owned \in SUBSET Directory
    BY DEF Site, Present
<1>3. t \in Site /\ t.form = s.form /\ t.group = s.group /\ t.owned = owned
    <2> HIDE DEF owned
    <2> QED BY <1>2, Zenon DEF Site
<1> HIDE DEF t
<1>4. Present(t) = Present(s) /\ Reached(t) = Reached(s)
    BY <1>3 DEF Present, Reached, Known
<1> QED BY <1>1, <1>3, <1>4 DEF Quiet, Outside

\* The table.
LEMMA TheRows ==
    /\ DOMAIN Rows = 1..11 /\ Len(Rows) = 11
    /\ Rows[1] = "host" /\ Rows[2] = "mount" /\ Rows[3] = "shared" /\ Rows[4] = "pools"
    /\ Rows[5] = "staging" /\ Rows[6] = "dump" /\ Rows[7] = "legacy" /\ Rows[8] = "groups"
    /\ Rows[9] = "perms" /\ Rows[10] = "services" /\ Rows[11] = "tools"
BY SMT DEF Rows

\* A fix settles its row, and a row that passes is settled.
LEMMA FixSettles ==
    ASSUME NEW s \in Site, NEW row \in Row11
    PROVE  Fixed(s, row) \in Site /\ Quiet(Fixed(s, row), row)
<1>1. CASE row \in Outside
    BY <1>1 DEF Fixed, Quiet, Outside
<1>2. CASE row \in FormRow
    <2>1. row \in Item /\ row \notin Outside /\ row \notin {"dump", "groups", "perms"}
        BY <1>2 DEF FormRow, Item, Directory, Outside
    <2>2. Fixed(s, row) = Ensured(s, row)
        BY <2>1 DEF Fixed
    <2>3. /\ Ensured(s, row) \in Site
          /\ Ensured(s, row).form[row] = IF s.form[row] = "missing" THEN "right" ELSE s.form[row]
        BY <2>1, EnsuredFields
    <2>4. Ensured(s, row).form[row] # "missing"
        BY <2>3
    <2> QED BY <2>1, <2>2, <2>3, <2>4 DEF Quiet
<1>3. CASE row = "dump"
    BY <1>3, DumpFields DEF Fixed, Outside
<1>4. CASE row = "groups"
    BY <1>4, GroupsFields DEF Fixed, Outside
<1>5. CASE row = "perms"
    BY <1>5, PermsFields DEF Fixed, Outside
<1> QED BY <1>1, <1>2, <1>3, <1>4, <1>5 DEF Row11, Outside

LEMMA PassesQuiet ==
    ASSUME NEW s \in Site, NEW row \in Row11, Passes(s, row)
    PROVE  Quiet(s, row)
BY DEF Passes, Quiet, Outside, Row11, FormRow

\* A settled row is one that its fix would leave as it is.
LEMMA QuietFixed ==
    ASSUME NEW s \in Site, NEW row \in Row11, Quiet(s, row)
    PROVE  Fixed(s, row) = s
<1>1. CASE row \in Outside
    BY <1>1 DEF Fixed, Outside
<1>2. CASE row \in FormRow
    BY <1>2 DEF Fixed, Quiet, Ensured, FormRow, Outside
<1>3. CASE row = "dump"
    BY <1>3 DEF Fixed, Quiet, Ensured, DumpFixed, Outside
<1>4. CASE row = "groups"
    <2>1. [g \in Group |-> IF s.group[g] = "missing" THEN "right" ELSE s.group[g]] = s.group
        BY <1>4 DEF Quiet, Site, Outside
    <2>2. GroupsFixed(s) = [s EXCEPT !.group = s.group]
        BY <2>1 DEF GroupsFixed
    <2> QED BY <1>4, <2>2 DEF Fixed, Outside, Site
<1>5. CASE row = "perms"
    <2>1. s.owned \cup (Reached(s) \cap Present(s)) = s.owned
        BY <1>5 DEF Quiet, Outside
    <2>2. PermsFixed(s) = [s EXCEPT !.owned = s.owned]
        BY <2>1 DEF PermsFixed, Reached
    <2> QED BY <1>5, <2>2 DEF Fixed, Outside, Site
<1> QED BY <1>1, <1>2, <1>3, <1>4, <1>5 DEF Row11, Outside

\* What a row before the permissions sees.
LEMMA SameSight ==
    ASSUME NEW s, NEW t, NEW row \in Row11 \ {"perms"},
           row \in FormRow => t.form[row] = s.form[row],
           row = "dump" => t.form["dump"] = s.form["dump"] /\ t.form["sidecar"] = s.form["sidecar"],
           row = "groups" => t.group = s.group
    PROVE  (Passes(t, row) <=> Passes(s, row)) /\ (Quiet(t, row) <=> Quiet(s, row))
BY DEF Passes, Quiet, Row11, FormRow, Outside

\* No fix changes what an earlier row sees.
LEMMA LaterKeeps ==
    ASSUME NEW s \in Site, NEW j \in 1..11, NEW i \in 1..11, i < j
    PROVE  /\ Passes(Fixed(s, Rows[j]), Rows[i]) <=> Passes(s, Rows[i])
           /\ Quiet(Fixed(s, Rows[j]), Rows[i]) <=> Quiet(s, Rows[i])
<1>1. CASE Rows[j] \in Outside
    BY <1>1 DEF Fixed, Outside
<1>2. CASE Rows[j] \in FormRow \cup {"dump"}
    <2>1. j \in {3, 4, 5, 6, 7}
        BY <1>2, TheRows DEF FormRow
    <2>2. Rows[i] \in Row11 \ {"perms", "groups"} /\ Rows[i] # Rows[j]
        BY <2>1, TheRows, SMT DEF Row11, FormRow
    <2>3. Rows[j] = "dump" => Rows[i] \in Outside \cup {"shared", "pools", "staging"}
        BY <2>1, TheRows, SMT DEF Outside
    <2>4. \A x \in Item : x # Rows[j] /\ ~(x = "sidecar" /\ Rows[j] = "dump") =>
            Fixed(s, Rows[j]).form[x] = s.form[x]
        <3>1. CASE Rows[j] = "dump"
            BY <3>1, DumpFields DEF Fixed, Outside
        <3>2. CASE Rows[j] \in FormRow
            <4>1. Rows[j] \in Item /\ Fixed(s, Rows[j]) = Ensured(s, Rows[j])
                BY <3>2 DEF FormRow, Item, Directory, Outside, Fixed
            <4> QED BY <4>1, EnsuredFields
        <3> QED BY <1>2, <3>1, <3>2
    <2>5. FormRow \subseteq Item \ {"sidecar"} /\ {"dump", "sidecar"} \subseteq Item
        BY DEF FormRow, Item, Directory
    <2>6. "sidecar" # Rows[j]
        BY <1>2 DEF FormRow
    <2>7. Rows[i] = "dump" => Rows[j] # "dump"
        BY <2>2
    <2> QED BY <2>2, <2>4, <2>5, <2>6, <2>7, SameSight
<1>3. CASE Rows[j] = "groups"
    <2>1. Fixed(s, Rows[j]).form = s.form
        BY <1>3, GroupsFields DEF Fixed, Outside
    <2>2. Rows[i] \in Row11 \ {"perms", "groups"}
        BY <1>3, TheRows, SMT DEF Row11, FormRow
    <2> QED BY <2>1, <2>2, SameSight
<1>4. CASE Rows[j] = "perms"
    <2>1. Fixed(s, Rows[j]).form = s.form /\ Fixed(s, Rows[j]).group = s.group
        BY <1>4, PermsFields DEF Fixed, Outside
    <2>2. Rows[i] \in Row11 \ {"perms"}
        BY <1>4, TheRows, SMT DEF Row11, FormRow
    <2> QED BY <2>1, <2>2, SameSight
<1> QED BY <1>1, <1>2, <1>3, <1>4, TheRows DEF Outside, FormRow

\* What the report says of the first n rows is true of the machine as it is.
Reported(n) ==
    /\ Len(report) = n
    /\ \A i \in 1..n : /\ report[i].row = Rows[i]
                       /\ report[i].ok <=> Passes(site, Rows[i])
                       /\ apply => Quiet(site, Rows[i])

LInv ==
    /\ site \in Site /\ step \in 0..11 /\ apply \in BOOLEAN /\ report \in Seq(ReportRow)
    /\ step # 0 => Reported(step - 1)
    /\ step = 0 => report = <<>> \/ Reported(11)

LEMMA SetupStart == LInit => LInv
<1> SUFFICES ASSUME LInit PROVE LInv
    OBVIOUS
<1>1. site \in Site
    BY Zenon DEF LInit, Site, Item
<1>2. step = 0 /\ apply = FALSE /\ report = <<>> /\ <<>> \in Seq(ReportRow)
    BY DEF LInit
<1>3. step \in 0..11
    BY <1>2, SMT
<1>4. apply \in BOOLEAN /\ report \in Seq(ReportRow)
    BY <1>2, Zenon
<1> QED BY <1>1, <1>2, <1>3, <1>4, Zenon DEF LInv

LEMMA PassesBoolean == ASSUME NEW s, NEW row \in Row11 PROVE Passes(s, row) \in BOOLEAN
<1>1. CASE row \in Outside
    <2>1. Passes(s, row) <=> row \in outside
        BY <1>1 DEF Passes, Outside
    <2>2. Passes(s, row) = (row \in outside)
        BY <1>1 DEF Passes, Outside
    <2> QED BY <2>2
<1>2. CASE row \in FormRow
    BY <1>2 DEF Passes, Outside, FormRow
<1>3. CASE row = "dump"
    BY <1>3 DEF Passes, Outside
<1>4. CASE row = "groups"
    BY <1>4 DEF Passes, Outside
<1>5. CASE row = "perms"
    BY <1>5 DEF Passes, Outside
<1> QED BY <1>1, <1>2, <1>3, <1>4, <1>5 DEF Row11, Outside

LEMMA RowStep == ASSUME LInv, SetupRow PROVE LInv'
<1> DEFINE row == Rows[step]
           after == IF apply /\ ~Passes(site, row) THEN Fixed(site, row) ELSE site
           judged == RowJudged(site, after, row)
<1>1. step \in 1..11 /\ row \in Row11
    BY TheRows, SMT DEF SetupRow, LInv, Row11, FormRow
<1>2. /\ site' = after /\ report' = Append(report, judged)
      /\ step' = (step + 1) % 12 /\ UNCHANGED <<outside, apply, setups>>
    BY TheRows DEF SetupRow
<1>3. site \in Site /\ report \in Seq(ReportRow) /\ Reported(step - 1)
    BY <1>1, SMT DEF LInv
<1>4. after \in Site /\ (apply => Quiet(after, row))
    BY <1>1, <1>3, FixSettles, PassesQuiet
<1>5. ASSUME NEW i \in 1..11, i < step
      PROVE  /\ Passes(after, Rows[i]) <=> Passes(site, Rows[i])
             /\ Quiet(after, Rows[i]) <=> Quiet(site, Rows[i])
    BY <1>1, <1>3, <1>5, LaterKeeps
<1>6. judged.row = row /\ judged.ok = Passes(after, row) /\ judged \in ReportRow
    <2>1. Passes(after, row) \in BOOLEAN /\ Passes(site, row) \in BOOLEAN
        BY <1>1, PassesBoolean
    <2> HIDE DEF after, row
    <2> QED BY <1>1, <2>1 DEF RowJudged, ReportRow
<1> HIDE DEF judged, after, row
<1>7. \A r : Passes(site', r) <=> Passes(site, r)'
    BY <1>2 DEF Passes
<1>8. ASSUME NEW n \in 1..11, n = step PROVE Reported(n)'
    <2>1. Len(report') = step /\ report'[step] = judged /\ \A i \in 1..step - 1 : report'[i] = report[i]
        BY <1>1, <1>2, <1>3, <1>6, SMT DEF Reported
    <2>2. ASSUME NEW i \in 1..n
          PROVE  /\ report'[i].row = Rows[i]
                 /\ report'[i].ok <=> Passes(site, Rows[i])'
                 /\ apply' => Quiet(site', Rows[i])
        <3>1. CASE i = step
            BY <1>2, <1>4, <1>6, <1>7, <1>8, <2>1, <3>1 DEF row
        <3>2. CASE i # step
            <4>1. i \in 1..step - 1 /\ i \in 1..11 /\ i < step
                BY <1>1, <1>8, <3>2, SMT
            <4>2. /\ report[i].row = Rows[i]
                  /\ report[i].ok <=> Passes(site, Rows[i])
                  /\ apply => Quiet(site, Rows[i])
                BY <1>3, <4>1 DEF Reported
            <4> QED BY <1>2, <1>5, <1>7, <2>1, <4>1, <4>2
        <3> QED BY <3>1, <3>2
    <2> QED BY <1>8, <2>1, <2>2 DEF Reported
<1>9. step' = IF step = 11 THEN 0 ELSE step + 1
    BY <1>1, <1>2, SMT
<1>10. report' \in Seq(ReportRow)
    BY <1>2, <1>3, <1>6
<1>11. CASE step = 11
    <2>1. Reported(11)' /\ step' = 0
        BY <1>1, <1>8, <1>9, <1>11
    <2> QED BY <1>2, <1>4, <1>10, <2>1, SMT DEF LInv
<1>12. CASE step # 11
    <2>1. PICK n \in 1..10 : n = step
        BY <1>1, <1>12, SMT
    <2>2. Reported(n)' /\ step' = n + 1 /\ step' # 0 /\ step' - 1 = n /\ step' \in 0..11
        BY <1>8, <1>9, <2>1, SMT
    <2>3. Reported(step - 1)'
        BY <2>2 DEF Reported
    <2> QED BY <1>2, <1>3, <1>4, <1>10, <2>2, <2>3 DEF LInv
<1> QED BY <1>11, <1>12

LEMMA SetupStep == LInv /\ [LNext]_lvars => LInv'
<1> SUFFICES ASSUME LInv, [LNext]_lvars PROVE LInv'
    OBVIOUS
<1>1. CASE SetupStarts
    BY <1>1, SMT DEF SetupStarts, LInv, Reported
<1>2. CASE SetupRow
    BY <1>2, RowStep
<1>3. CASE SetupDies
    BY <1>3, SMT DEF SetupDies, LInv
<1>4. CASE UNCHANGED lvars
    BY <1>4 DEF lvars, LInv, Reported, Passes
<1> QED BY <1>1, <1>2, <1>3, <1>4 DEF LNext

LEMMA ReportIsTrue == LInv => OneSetupSuffices
<1> SUFFICES ASSUME LInv, step = 0, report # <<>> PROVE OneSetupSuffices
    BY DEF OneSetupSuffices
<1>1. Reported(11) /\ site \in Site /\ DOMAIN report = 1..11
    BY DEF LInv, Reported
<1>2. \A i \in 1..11 : Rows[i] \in Row11
    BY TheRows, SMT DEF Row11, FormRow
<1>3. \A i \in DOMAIN report : report[i].ok <=> Passes(site, report[i].row)
    BY <1>1 DEF Reported
<1>4. \A row \in Required : \E i \in 1..11 : Rows[i] = row
    BY TheRows DEF Required
<1>5. ExitCode = 0 <=> \A row \in Required : Passes(site, row)
    <2>1. (\E i \in DOMAIN report : report[i].row \in Required /\ ~report[i].ok)
            <=> \E row \in Required : ~Passes(site, row)
        BY <1>1, <1>4 DEF Reported
    <2> QED BY <2>1 DEF ExitCode
<1>6. apply => \A row \in {Rows[i] : i \in DOMAIN Rows} :
                 Passes(site, row) \/ Fixed(site, row) = site
    BY <1>1, <1>2, QuietFixed, TheRows DEF Reported
<1> QED BY <1>3, <1>5, <1>6 DEF OneSetupSuffices

\* What a complete `ops setup` reports, and its exit code, is true of the machine
\* when it ends; and a second run after one that may fix would fix nothing.
THEOREM SetupSuffices == LSpec => []OneSetupSuffices
BY SetupStart, SetupStep, ReportIsTrue, PTL DEF LSpec

(***************************************************************************)
(* Compliance.  After k days the counters say of the first k files what    *)
(* the verdict asks of all of them: the run of violations that is going on *)
(* (Streak) and the longest so far (Best) are the number of days with data *)
(* in some unbroken interval, and in none are there more.                  *)
(***************************************************************************)
Streak(files, k, s) ==
    /\ \E a \in 1..k + 1 : Unbroken(files, a, k) /\ s = DaysOfData(files, a, k)
    /\ \A a \in 1..k + 1 : Unbroken(files, a, k) => DaysOfData(files, a, k) <= s
Best(files, k, m) ==
    /\ \E a \in 1..k + 1, b \in 0..k : Unbroken(files, a, b) /\ m = DaysOfData(files, a, b)
    /\ \A a \in 1..k + 1, b \in 0..k : Unbroken(files, a, b) => DaysOfData(files, a, b) <= m
Breaches(files, k) == {j \in 1..k : files[j] \in Valid /\ Violates(files[j])}

Scanned ==
    LET k == comp.i - 1 IN
    /\ comp.days = 0 <=> \A j \in 1..k : comp.files[j] \notin Valid
    /\ comp.severe > 0 <=> \E j \in 1..k : FarOver(comp.files[j])
    /\ comp.viol = Cardinality(Breaches(comp.files, k))
    /\ Streak(comp.files, k, comp.streak)
    /\ Best(comp.files, k, comp.maxStreak)

CompState ==
    [at : {"scan", "done"}, files : UNION {[1..n -> DayFile] : n \in Nat}, i : Nat \ {0},
     days : Nat, bad : Nat, severe : Nat, viol : Nat, streak : Nat, maxStreak : Nat, last : Nat,
     verdict : {"none", "skip", "pass", "fail"}]

CompInv ==
    comp # Off =>
        /\ comp \in CompState
        /\ comp.i <= Len(comp.files) + 1
        /\ Scanned
        /\ comp.at = "done" =>
            /\ comp.i = Len(comp.files) + 1
            /\ comp.verdict = IF comp.days = 0 THEN "skip"
                              ELSE IF comp.severe > 0 \/ comp.viol > Tolerance THEN "fail"
                              ELSE "pass"

\* The days with data of an interval: one more when it grows by a day with data.
LEMMA DaysGrow ==
    ASSUME NEW files, NEW a \in Nat, NEW i \in Nat \ {0}, a <= i
    PROVE  /\ files[i] \in Valid => DaysOfData(files, a, i) = DaysOfData(files, a, i - 1) + 1
           /\ files[i] \notin Valid => DaysOfData(files, a, i) = DaysOfData(files, a, i - 1)
<1> DEFINE S(b) == {j \in a..b : files[j] \in Valid}
<1>1. IsFiniteSet(S(i - 1))
    <2>1. IsFiniteSet(a..i - 1)
        BY FS_Interval
    <2> QED BY <2>1, FS_Subset
<1>2. i \notin S(i - 1)
    BY SMT
<1>3. a..i = (a..i - 1) \cup {i}
    BY SMT
<1>4. CASE files[i] \in Valid
    <2>1. S(i) = S(i - 1) \cup {i}
        BY <1>3, <1>4
    <2>2. Cardinality(S(i - 1) \cup {i}) = Cardinality(S(i - 1)) + 1
        BY <1>1, <1>2, FS_AddElement
    <2> QED BY <1>4, <2>1, <2>2 DEF DaysOfData
<1>5. CASE files[i] \notin Valid
    <2>1. S(i) = S(i - 1)
        BY <1>3, <1>5
    <2> QED BY <1>5, <2>1 DEF DaysOfData
<1> QED BY <1>4, <1>5

LEMMA DaysCount ==
    ASSUME NEW files, NEW a \in Int, NEW b \in Int
    PROVE  /\ DaysOfData(files, a, b) \in Nat
           /\ a > b => DaysOfData(files, a, b) = 0
<1>1. IsFiniteSet(a..b)
    BY FS_Interval
<1>2. IsFiniteSet({j \in a..b : files[j] \in Valid})
    BY <1>1, FS_Subset
<1>3. DaysOfData(files, a, b) \in Nat
    BY <1>2, FS_CardinalityType DEF DaysOfData
<1>4. ASSUME a > b PROVE DaysOfData(files, a, b) = 0
    <2>1. {j \in a..b : files[j] \in Valid} = {}
        BY <1>4, SMT
    <2> QED BY <2>1, FS_EmptySet DEF DaysOfData
<1> QED BY <1>3, <1>4

\* An interval that grows by a day stays unbroken unless that day is in order.
LEMMA UnbrokenGrow ==
    ASSUME NEW files, NEW a \in Nat, NEW i \in Nat \ {0}, a <= i
    PROVE  Unbroken(files, a, i) <=>
             Unbroken(files, a, i - 1) /\ (files[i] \in Valid => Violates(files[i]))
<1>1. a..i = (a..i - 1) \cup {i}
    BY SMT
<1> QED BY <1>1 DEF Unbroken

LEMMA StreakGrows ==
    ASSUME NEW files, NEW i \in Nat \ {0}, NEW s \in Nat, Streak(files, i - 1, s)
    PROVE  /\ files[i] \notin Valid => Streak(files, i, s)
           /\ files[i] \in Valid /\ Violates(files[i]) => Streak(files, i, s + 1)
           /\ files[i] \in Valid /\ ~Violates(files[i]) => Streak(files, i, 0)
<1>1. PICK a0 \in 1..i : Unbroken(files, a0, i - 1) /\ s = DaysOfData(files, a0, i - 1)
    BY SMT DEF Streak
<1>2. ASSUME NEW a \in 1..i, Unbroken(files, a, i - 1) PROVE DaysOfData(files, a, i - 1) <= s
    BY <1>2, SMT DEF Streak
<1>3. DaysOfData(files, i + 1, i) = 0 /\ Unbroken(files, i + 1, i)
    BY DaysCount, SMT DEF Unbroken
<1>4. \A a \in 1..i + 1 : a \in 1..i \/ a = i + 1
    BY SMT
<1>5. \A a \in 1..i : a \in Nat /\ a <= i /\ a \in 1..i + 1
    BY SMT
<1>6. \A a \in 1..i : DaysOfData(files, a, i - 1) \in Nat
    BY DaysCount, <1>5
<1>7. ASSUME files[i] \notin Valid PROVE Streak(files, i, s)
    <2>1. \A a \in 1..i : /\ DaysOfData(files, a, i) = DaysOfData(files, a, i - 1)
                          /\ Unbroken(files, a, i) <=> Unbroken(files, a, i - 1)
        BY <1>5, <1>7, DaysGrow, UnbrokenGrow
    <2>2. 0 <= s
        OBVIOUS
    <2> QED BY <1>1, <1>2, <1>3, <1>4, <1>5, <2>1, <2>2 DEF Streak
<1>8. ASSUME files[i] \in Valid, Violates(files[i]) PROVE Streak(files, i, s + 1)
    <2>1. \A a \in 1..i : /\ DaysOfData(files, a, i) = DaysOfData(files, a, i - 1) + 1
                          /\ Unbroken(files, a, i) <=> Unbroken(files, a, i - 1)
        BY <1>5, <1>8, DaysGrow, UnbrokenGrow
    <2>2. 0 <= s + 1 /\ \A x \in Nat : x <= s => x + 1 <= s + 1
        OBVIOUS
    <2>3. \E a \in 1..i + 1 : Unbroken(files, a, i) /\ s + 1 = DaysOfData(files, a, i)
        BY <1>1, <1>5, <2>1
    <2>4. ASSUME NEW a \in 1..i + 1, Unbroken(files, a, i) PROVE DaysOfData(files, a, i) <= s + 1
        BY <1>2, <1>3, <1>4, <1>6, <2>1, <2>2, <2>4
    <2> QED BY <2>3, <2>4 DEF Streak
<1>9. ASSUME files[i] \in Valid, ~Violates(files[i]) PROVE Streak(files, i, 0)
    <2>1. \A a \in 1..i : ~Unbroken(files, a, i)
        BY <1>5, <1>9, UnbrokenGrow
    <2>2. i + 1 \in 1..i + 1 /\ 0 <= 0
        BY SMT
    <2> QED BY <1>3, <1>4, <2>1, <2>2 DEF Streak
<1> QED BY <1>7, <1>8, <1>9

LEMMA BestGrows ==
    ASSUME NEW files, NEW i \in Nat \ {0}, NEW m \in Nat, Best(files, i - 1, m)
    PROVE  /\ files[i] \notin Valid => Best(files, i, m)
           /\ \A s \in Nat : Streak(files, i, s) => Best(files, i, Bigger(m, s))
<1>1. PICK a0 \in 1..i, b0 \in 0..i - 1 :
        Unbroken(files, a0, b0) /\ m = DaysOfData(files, a0, b0)
    BY SMT DEF Best
<1>2. ASSUME NEW a \in 1..i, NEW b \in 0..i - 1, Unbroken(files, a, b)
      PROVE  DaysOfData(files, a, b) <= m
    BY <1>2, SMT DEF Best
<1>3. a0 \in 1..i + 1 /\ b0 \in 0..i
    BY SMT
<1>4. \A a \in 1..i + 1, b \in 0..i :
        \/ a \in 1..i /\ b \in 0..i - 1
        \/ a \in 1..i /\ b = i
        \/ a > b
    BY SMT
<1>5. \A a \in 1..i + 1, b \in 0..i : a \in Int /\ b \in Int /\ DaysOfData(files, a, b) \in Nat
                                      /\ (a > b => DaysOfData(files, a, b) = 0)
    <2>1. \A a \in 1..i + 1, b \in 0..i : a \in Int /\ b \in Int
        BY SMT
    <2> QED BY <2>1, DaysCount
<1>6. \A a \in 1..i : a \in Nat /\ a <= i /\ a \in 1..i + 1 /\ i \in 0..i /\ i - 1 \in 0..i - 1
    BY SMT
<1>7. ASSUME files[i] \notin Valid PROVE Best(files, i, m)
    <2>1. \A a \in 1..i : /\ DaysOfData(files, a, i) = DaysOfData(files, a, i - 1)
                          /\ Unbroken(files, a, i) <=> Unbroken(files, a, i - 1)
        BY <1>6, <1>7, DaysGrow, UnbrokenGrow
    <2>2. ASSUME NEW a \in 1..i + 1, NEW b \in 0..i, Unbroken(files, a, b)
          PROVE  DaysOfData(files, a, b) <= m
        <3>1. CASE a \in 1..i /\ b \in 0..i - 1
            BY <1>2, <2>2, <3>1
        <3>2. CASE a \in 1..i /\ b = i
            BY <1>2, <1>6, <2>1, <2>2, <3>2
        <3>3. CASE a > b
            BY <1>5, <3>3
        <3> QED BY <1>4, <3>1, <3>2, <3>3
    <2> QED BY <1>1, <1>3, <2>2 DEF Best
<1>8. ASSUME NEW s \in Nat, Streak(files, i, s) PROVE Best(files, i, Bigger(m, s))
    <2>1. m <= Bigger(m, s) /\ s <= Bigger(m, s) /\ Bigger(m, s) \in Nat
          /\ (Bigger(m, s) = m \/ Bigger(m, s) = s)
        BY DEF Bigger
    <2>2. ASSUME NEW a \in 1..i + 1, NEW b \in 0..i, Unbroken(files, a, b)
          PROVE  DaysOfData(files, a, b) <= Bigger(m, s)
        <3>1. CASE a \in 1..i /\ b \in 0..i - 1
            <4>1. DaysOfData(files, a, b) <= m /\ DaysOfData(files, a, b) \in Nat
                BY <1>2, <1>5, <2>2, <3>1
            <4> HIDE DEF Bigger
            <4> QED BY <2>1, <4>1
        <3>2. CASE a \in 1..i /\ b = i
            <4>1. DaysOfData(files, a, b) <= s /\ DaysOfData(files, a, b) \in Nat
                BY <1>5, <1>8, <2>2, <3>2 DEF Streak
            <4> QED BY <2>1, <4>1
        <3>3. CASE a > b
            BY <1>5, <2>1, <3>3
        <3> QED BY <1>4, <3>1, <3>2, <3>3
    <2>3. \E a \in 1..i + 1, b \in 0..i :
            Unbroken(files, a, b) /\ Bigger(m, s) = DaysOfData(files, a, b)
        <3>1. \E a \in 1..i + 1 : Unbroken(files, a, i) /\ s = DaysOfData(files, a, i)
            BY <1>8 DEF Streak
        <3>2. i \in 0..i
            BY SMT
        <3> QED BY <1>1, <1>3, <2>1, <3>1, <3>2
    <2> QED BY <2>2, <2>3 DEF Best
<1> QED BY <1>7, <1>8

\* The days in breach are counted one by one.
LEMMA BreachesGrow ==
    ASSUME NEW files, NEW i \in Nat \ {0}
    PROVE  /\ files[i] \in Valid /\ Violates(files[i]) =>
                Cardinality(Breaches(files, i)) = Cardinality(Breaches(files, i - 1)) + 1
           /\ ~(files[i] \in Valid /\ Violates(files[i])) =>
                Cardinality(Breaches(files, i)) = Cardinality(Breaches(files, i - 1))
<1>1. IsFiniteSet(Breaches(files, i - 1))
    <2>1. IsFiniteSet(1..i - 1)
        BY FS_Interval
    <2> QED BY <2>1, FS_Subset DEF Breaches
<1>2. i \notin Breaches(files, i - 1) /\ 1..i = (1..i - 1) \cup {i}
    BY SMT DEF Breaches
<1>3. CASE files[i] \in Valid /\ Violates(files[i])
    <2>1. Breaches(files, i) = Breaches(files, i - 1) \cup {i}
        BY <1>2, <1>3 DEF Breaches
    <2> QED BY <1>1, <1>2, <1>3, <2>1, FS_AddElement DEF Breaches
<1>4. CASE ~(files[i] \in Valid /\ Violates(files[i]))
    <2>1. Breaches(files, i) = Breaches(files, i - 1)
        BY <1>2, <1>4 DEF Breaches
    <2> QED BY <1>4, <2>1 DEF Breaches
<1> QED BY <1>3, <1>4

LEMMA ComplianceStarts == VInit => CompInv
<1> SUFFICES ASSUME VInit, comp # Off PROVE CompInv
    BY DEF CompInv
<1>1. PICK n \in 0..MaxDays : \E files \in [1..n -> DayFile] :
        comp = [at |-> "scan", files |-> files, i |-> 1, days |-> 0, bad |-> 0, severe |-> 0,
                viol |-> 0, streak |-> 0, maxStreak |-> 0, last |-> 0, verdict |-> "none"]
    BY DEF VInit, CompStart
<1>2. n \in Nat
    BY BoundsAssumption, SMT
<1>3. PICK files \in [1..n -> DayFile] :
        comp = [at |-> "scan", files |-> files, i |-> 1, days |-> 0, bad |-> 0, severe |-> 0,
                viol |-> 0, streak |-> 0, maxStreak |-> 0, last |-> 0, verdict |-> "none"]
    BY <1>1
<1>4. comp \in CompState
    <2>1. files \in UNION {[1..k -> DayFile] : k \in Nat}
        BY <1>2, Zenon
    <2> QED BY <1>3, <2>1, SMT DEF CompState
<1>5. comp.i <= Len(comp.files) + 1
    BY <1>2, <1>3
<1>6. Streak(files, 0, 0) /\ Best(files, 0, 0)
    <2>1. DaysOfData(files, 1, 0) = 0 /\ Unbroken(files, 1, 0)
        BY DaysCount, SMT DEF Unbroken
    <2>2. 1..0 + 1 = {1} /\ 0..0 = {0} /\ 0 <= 0
        BY SMT
    <2> QED BY <2>1, <2>2 DEF Streak, Best
<1>7. Cardinality(Breaches(files, 0)) = 0
    <2>1. Breaches(files, 0) = {}
        BY SMT DEF Breaches
    <2> QED BY <2>1, FS_EmptySet
<1>8. 1 - 1 = 0 /\ 1..0 = {} /\ ~(0 > 0)
    BY SMT
<1>9. Scanned
    BY <1>3, <1>6, <1>7, <1>8 DEF Scanned
<1> QED BY <1>3, <1>4, <1>5, <1>9 DEF CompInv

\* One day more, judged or not.
LEMMA DayScanned ==
    ASSUME CompInv, CompScan PROVE CompInv'
<1> DEFINE i == comp.i
           files == comp.files
           d == files[i]
<1>1. comp # Off /\ comp.at = "scan" /\ i \in DOMAIN files
    BY DEF CompScan, Off
<1>2. comp \in CompState /\ Scanned
    BY <1>1 DEF CompInv
<1>3. i \in Nat \ {0} /\ (i - 1) + 1 = i /\ (i + 1) - 1 = i
    BY <1>2, SMT DEF CompState
<1>4. PICK n \in Nat : files \in [1..n -> DayFile]
    BY <1>2 DEF CompState
<1>5. Len(files) = n /\ i <= n
    BY <1>1, <1>4, SMT
<1>6. /\ comp.days \in Nat /\ comp.bad \in Nat /\ comp.severe \in Nat /\ comp.viol \in Nat
      /\ comp.streak \in Nat /\ comp.maxStreak \in Nat /\ comp.last \in Nat
    BY <1>2 DEF CompState
<1>7. /\ comp.days = 0 <=> \A j \in 1..i - 1 : files[j] \notin Valid
      /\ comp.severe > 0 <=> \E j \in 1..i - 1 : FarOver(files[j])
      /\ comp.viol = Cardinality(Breaches(files, i - 1))
      /\ Streak(files, i - 1, comp.streak)
      /\ Best(files, i - 1, comp.maxStreak)
    BY <1>2 DEF Scanned
<1>8. 1..i = (1..i - 1) \cup {i}
    BY <1>3, SMT
<1>9. \A x : FarOver(x) \/ Violates(x) => x \in Valid
    BY DEF FarOver, Violates, Valid
<1>10. CASE d \notin Valid
    <2>1. CompUnjudged(d)
        BY <1>10 DEF CompScan
    <2> DEFINE bad == IF d = "unreadable" THEN comp.bad + 1 ELSE comp.bad
    <2>2. comp' = [comp EXCEPT !.i = i + 1, !.bad = bad]
        BY <2>1, Zenon DEF CompUnjudged
    <2>3. bad \in Nat /\ i + 1 \in Nat \ {0}
        BY <1>3, <1>6
    <2> HIDE DEF bad, d
    <2>4. /\ comp' \in CompState /\ comp'.at = "scan" /\ comp'.i = i + 1 /\ comp'.files = files
          /\ comp'.days = comp.days /\ comp'.severe = comp.severe /\ comp'.viol = comp.viol
          /\ comp'.streak = comp.streak /\ comp'.maxStreak = comp.maxStreak
        BY <1>1, <1>2, <2>2, <2>3, Zenon DEF CompState
    <2>5. Streak(files, i, comp.streak) /\ Best(files, i, comp.maxStreak)
          /\ comp.viol = Cardinality(Breaches(files, i))
        BY <1>3, <1>6, <1>7, <1>10, StreakGrows, BestGrows, BreachesGrow DEF d
    <2>6. /\ comp.days = 0 <=> \A j \in 1..i : files[j] \notin Valid
          /\ comp.severe > 0 <=> \E j \in 1..i : FarOver(files[j])
        BY <1>7, <1>8, <1>9, <1>10 DEF d
    <2>7. Scanned'
        BY <1>3, <2>4, <2>5, <2>6 DEF Scanned
    <2>8. comp'.i <= Len(comp'.files) + 1
        BY <1>3, <1>5, <2>4
    <2> QED BY <2>4, <2>7, <2>8 DEF CompInv
<1>11. CASE d \in Valid
    <2>1. CompJudged(d)
        BY <1>11 DEF CompScan
    <2> DEFINE run == IF Violates(d) THEN comp.streak + 1 ELSE 0
               severe == IF FarOver(d) THEN comp.severe + 1 ELSE comp.severe
               viol == IF Violates(d) THEN comp.viol + 1 ELSE comp.viol
               most == Bigger(comp.maxStreak, run)
               last == IF Violates(d) THEN comp.i ELSE comp.last
    <2>2. comp' = [comp EXCEPT !.i = i + 1, !.days = comp.days + 1, !.severe = severe,
                               !.viol = viol, !.streak = run, !.maxStreak = most, !.last = last]
        BY <2>1, Zenon DEF CompJudged
    <2>3. /\ run \in Nat /\ severe \in Nat /\ viol \in Nat /\ last \in Nat
          /\ comp.days + 1 \in Nat /\ i + 1 \in Nat \ {0}
        BY <1>3, <1>6
    <2>4. most \in Nat
        BY <1>6, <2>3 DEF Bigger
    <2>5. Streak(files, i, run)
        BY <1>3, <1>6, <1>7, <1>11, StreakGrows
    <2>6. Best(files, i, most)
        BY <1>3, <1>6, <1>7, <2>3, <2>5, BestGrows
    <2>7. viol = Cardinality(Breaches(files, i))
        BY <1>3, <1>7, <1>11, BreachesGrow
    <2>8. comp.days + 1 # 0 /\ ~\A j \in 1..i : files[j] \notin Valid
        BY <1>6, <1>8, <1>11
    <2>9. severe > 0 <=> \E j \in 1..i : FarOver(files[j])
        <3>1. CASE FarOver(d)
            BY <1>6, <1>8, <3>1
        <3>2. CASE ~FarOver(d)
            BY <1>7, <1>8, <3>2
        <3> QED BY <3>1, <3>2
    <2> HIDE DEF run, severe, viol, most, last
    <2>10. /\ comp' \in CompState /\ comp'.at = "scan" /\ comp'.i = i + 1 /\ comp'.files = files
           /\ comp'.days = comp.days + 1 /\ comp'.severe = severe /\ comp'.viol = viol
           /\ comp'.streak = run /\ comp'.maxStreak = most
        BY <1>1, <1>2, <2>2, <2>3, <2>4, Zenon DEF CompState
    <2>11. Scanned'
        BY <1>3, <2>5, <2>6, <2>7, <2>8, <2>9, <2>10 DEF Scanned
    <2>12. comp'.i <= Len(comp'.files) + 1
        BY <1>3, <1>5, <2>10
    <2> QED BY <2>10, <2>11, <2>12 DEF CompInv
<1> QED BY <1>10, <1>11

LEMMA ComplianceStep == CompInv /\ [VNext]_vvars => CompInv'
<1> SUFFICES ASSUME CompInv, [VNext]_vvars PROVE CompInv'
    OBVIOUS
<1>1. CASE CompScan
    BY <1>1, DayScanned
<1>2. CASE CompConclude
    <2> DEFINE verdict == IF comp.days = 0 THEN "skip"
                          ELSE IF comp.severe > 0 \/ comp.viol > Tolerance THEN "fail" ELSE "pass"
    <2>1. comp # Off /\ comp.i \notin DOMAIN comp.files
          /\ comp' = [comp EXCEPT !.at = "done", !.verdict = verdict]
        BY <1>2 DEF CompConclude, Off
    <2>2. comp \in CompState /\ Scanned /\ comp.i <= Len(comp.files) + 1
        BY <2>1 DEF CompInv
    <2>3. comp.i = Len(comp.files) + 1
        <3>1. PICK n \in Nat : comp.files \in [1..n -> DayFile]
            BY <2>2 DEF CompState
        <3>2. comp.i \in Nat \ {0}
            BY <2>2 DEF CompState
        <3> QED BY <2>1, <2>2, <3>1, <3>2, SMT
    <2>4. verdict \in {"none", "skip", "pass", "fail"}
        OBVIOUS
    <2> HIDE DEF verdict
    <2>5. /\ comp' \in CompState /\ comp'.at = "done" /\ comp'.verdict = verdict
          /\ comp'.i = comp.i /\ comp'.files = comp.files /\ comp'.days = comp.days
          /\ comp'.severe = comp.severe /\ comp'.viol = comp.viol
          /\ comp'.streak = comp.streak /\ comp'.maxStreak = comp.maxStreak
        BY <2>1, <2>2, <2>4, Zenon DEF CompState
    <2> QED BY <2>2, <2>3, <2>5 DEF CompInv, Scanned, verdict
<1>3. CASE UNCHANGED comp
    BY <1>3 DEF CompInv, Scanned
<1> QED BY <1>1, <1>2, <1>3 DEF VNext, CorrPool, CorrJudge, CorrBeat, FireRead, vvars

\* What the counters say at the end of the history.
LEMMA Concluded ==
    ASSUME CompInv, comp.at = "done"
    PROVE  /\ comp.files \in UNION {[1..n -> DayFile] : n \in Nat}
           /\ comp.verdict = Conclusion(comp.files)
           /\ Best(comp.files, Len(comp.files), comp.maxStreak)
<1> DEFINE f == comp.files
           n == Len(f)
<1>1. comp # Off
    BY DEF Off
<1>2. /\ comp \in CompState /\ Scanned /\ comp.i = n + 1
      /\ comp.verdict = IF comp.days = 0 THEN "skip"
                        ELSE IF comp.severe > 0 \/ comp.viol > Tolerance THEN "fail" ELSE "pass"
    BY <1>1 DEF CompInv
<1>3. f \in UNION {[1..k -> DayFile] : k \in Nat}
    BY <1>2 DEF CompState
<1>4. n \in Nat /\ DOMAIN f = 1..n /\ (n + 1) - 1 = n
    BY <1>3
<1>5. /\ comp.days = 0 <=> \A j \in 1..n : f[j] \notin Valid
      /\ comp.severe > 0 <=> \E j \in 1..n : FarOver(f[j])
      /\ comp.viol = Cardinality(Breaches(f, n))
      /\ Best(f, n, comp.maxStreak)
    BY <1>2, <1>4 DEF Scanned
<1>6. WithData(f) = {} <=> comp.days = 0
    BY <1>4, <1>5 DEF WithData
<1>7. (\E i \in WithData(f) : FarOver(f[i])) <=> comp.severe > 0
    BY <1>4, <1>5 DEF WithData, FarOver, Valid
<1>8. {i \in WithData(f) : Violates(f[i])} = Breaches(f, n)
    BY <1>4 DEF WithData, Breaches
<1>9. comp.verdict = Conclusion(f)
    BY <1>2, <1>5, <1>6, <1>7, <1>8 DEF Conclusion
<1> QED BY <1>3, <1>5, <1>9

\* The verdict of compliance is that of the days with data, and the run of
\* violations it cites is the longest there is.
THEOREM ComplianceIsRight == VSpec => []ComplianceIsByValidDays
<1>1. CompInv => ComplianceIsByValidDays
    BY Concluded DEF ComplianceIsByValidDays, Best
<1> QED BY <1>1, ComplianceStarts, ComplianceStep, PTL DEF VSpec

\* A rejection of compliance would stand whatever the unreadable days hold.
THEOREM RejectionStands == VSpec => []RejectionStandsOnRead
<1>1. ASSUME CompInv, comp.at = "done", comp.verdict = "fail",
             NEW found \in [{i \in DOMAIN comp.files : comp.files[i] = "unreadable"}
                                -> {"clean", "severe", "invalid"}]
      PROVE  Conclusion([i \in DOMAIN comp.files |->
                IF i \in {j \in DOMAIN comp.files : comp.files[j] = "unreadable"}
                THEN found[i] ELSE comp.files[i]]) = "fail"
    <2> DEFINE f == comp.files
               lost == {j \in DOMAIN f : f[j] = "unreadable"}
               g == [i \in DOMAIN f |-> IF i \in lost THEN found[i] ELSE f[i]]
               V(h) == {i \in WithData(h) : Violates(h[i])}
    <2>1. Conclusion(f) = "fail" /\ f \in UNION {[1..n -> DayFile] : n \in Nat}
        BY <1>1, Concluded
    <2>2. DOMAIN g = DOMAIN f /\ \A i \in WithData(f) : i \in DOMAIN f /\ g[i] = f[i]
        BY DEF WithData, Valid
    <2>3. WithData(f) \subseteq WithData(g) /\ V(f) \subseteq V(g)
        BY <2>2 DEF WithData
    <2>4. Cardinality(V(f)) <= Cardinality(V(g)) /\ Cardinality(V(f)) \in Nat
          /\ Cardinality(V(g)) \in Nat
        <3>1. PICK n \in Nat : DOMAIN f = 1..n
            BY <2>1
        <3>2. IsFiniteSet(DOMAIN f)
            BY <3>1, FS_Interval
        <3>3. V(g) \subseteq DOMAIN f
            BY <2>2 DEF WithData
        <3>4. IsFiniteSet(V(g))
            BY <3>2, <3>3, FS_Subset
        <3> QED BY <2>3, <3>4, FS_Subset, FS_CardinalityType
    <2>5. /\ WithData(f) # {}
          /\ (\E i \in WithData(f) : FarOver(f[i])) \/ Cardinality(V(f)) > Tolerance
        BY <2>1 DEF Conclusion
    <2>6. WithData(g) # {}
        BY <2>3, <2>5
    <2>7. (\E i \in WithData(g) : FarOver(g[i])) \/ Cardinality(V(g)) > Tolerance
        <3>1. CASE \E i \in WithData(f) : FarOver(f[i])
            BY <2>2, <2>3, <3>1
        <3>2. CASE Cardinality(V(f)) > Tolerance
            <4>1. Tolerance \in Int
                BY BoundsAssumption
            <4> QED BY <2>4, <3>2, <4>1
        <3> QED BY <2>5, <3>1, <3>2
    <2>8. Conclusion(g) = "fail"
        <3> HIDE DEF g
        <3> QED BY <2>6, <2>7 DEF Conclusion
    <2> QED BY <2>8
<1>2. CompInv => RejectionStandsOnRead
    BY <1>1 DEF RejectionStandsOnRead
<1> QED BY <1>2, ComplianceStarts, ComplianceStep, PTL DEF VSpec

(***************************************************************************)
(* Correlation against one pool.  A rival that is no longer in `high` has  *)
(* been beaten, or has no metrics; and rivals are looked at exactly when   *)
(* the highest row, by sign, is not low.                                   *)
(***************************************************************************)
Beaten(w) == w = None \/ w >= 2
BeatsAll(pool, wins) ==
    \A i \in DOMAIN pool :
        pool[i].name # Self /\ Magnitude(pool[i].c) >= Threshold => Beaten(wins[pool[i].name])

Accepted(pool, own, wins) == own = "good" /\ (BeatsAll(pool, wins) \/ TopIsLow(pool))

\* What a state of the check against the one pool has established.
Against(pool) ==
    /\ corr.at = "bcorr" =>
        (corr.next = 1 /\ corr.rows = <<>>) \/ (corr.next = 2 /\ corr.rows = pool)
    /\ corr.at = "beat" =>
        /\ corr.rows = pool /\ corr.own = "good" /\ ~TopIsLow(pool)
        /\ corr.high \subseteq High(pool)
        /\ \A i \in High(pool) \ corr.high : Beaten(corr.wins[pool[i].name])
    /\ corr.at = "done" =>
        \/ corr.verdict = "skip"
        \/ corr.verdict = "pass" /\ Accepted(pool, corr.own, corr.wins)
        \/ corr.verdict = "fail" /\ ~Accepted(pool, corr.own, corr.wins)

CorrState ==
    [at : {"bcorr", "beat", "done"}, pools : Seq(Output), own : OwnMetrics, next : Nat,
     wins : [Rival \cup {Self} -> Wins], rows : Seq([name : Rival \cup {Self}, c : Corr]),
     high : SUBSET Nat, verdict : {"none", "skip", "pass", "fail"}]

CorrInv ==
    corr # Off =>
        /\ corr \in CorrState
        /\ \A pool \in Output : corr.pools = <<pool>> => Against(pool)

LEMMA OutputRows ==
    ASSUME NEW pool \in Output
    PROVE  /\ pool \in Seq([name : Rival \cup {Self}, c : Corr]) /\ Sorted(pool)
           /\ OneEach(pool)
           /\ \A i \in DOMAIN pool : /\ i \in Nat /\ pool[i].c \in Int
                                     /\ Magnitude(pool[i].c) \in Int
                                     /\ pool[i].name \in Rival \cup {Self}
<1>1. PICK n \in 0..MaxRows : pool \in [1..n -> [name : Rival \cup {Self}, c : Corr]]
    BY DEF Output
<1>2. Sorted(pool) /\ OneEach(pool)
    BY DEF Output
<1>3. n \in Nat
    BY BoundsAssumption, SMT
<1>4. pool \in Seq([name : Rival \cup {Self}, c : Corr])
    <2> DEFINE R == [name : Rival \cup {Self}, c : Corr]
    <2>1. pool \in [1..n -> R]
        BY <1>1
    <2> HIDE DEF R
    <2>2. pool \in Seq(R)
        BY <1>3, <2>1
    <2> QED BY <2>2 DEF R
<1>5. ASSUME NEW i \in DOMAIN pool
      PROVE  /\ i \in Nat /\ pool[i].c \in Int /\ Magnitude(pool[i].c) \in Int
             /\ pool[i].name \in Rival \cup {Self}
    <2>1. pool[i] \in [name : Rival \cup {Self}, c : Corr] /\ i \in Nat
        BY <1>1, <1>3, <1>5
    <2>2. pool[i].c \in Int /\ pool[i].name \in Rival \cup {Self}
        BY <2>1, CorrAssumption
    <2> QED BY <2>1, <2>2 DEF Magnitude
<1> QED BY <1>2, <1>4, <1>5

\* A row has a magnitude, and its value lies between that and its negative.
LEMMA RowValue ==
    ASSUME NEW pool \in Output, NEW i \in DOMAIN pool
    PROVE  /\ pool[i].c \in Int /\ Threshold \in Int
           /\ pool[i].c <= Magnitude(pool[i].c) /\ Magnitude(pool[i].c) \in {pool[i].c, -pool[i].c}
<1>1. pool[i].c \in Int
    BY OutputRows, CorrAssumption
<1> QED BY <1>1, CorrAssumption DEF Magnitude

\* The factor's own row is struck out and there is at most one, so the last of the
\* others is the last row or the one before it.
LEMMA LastOther ==
    ASSUME NEW pool \in Output, Others(pool) # {}
    PROVE  \E m \in Others(pool) : \A i \in Others(pool) : i <= m
<1> DEFINE n == Len(pool)
<1>1. n \in Nat /\ DOMAIN pool = 1..n
    BY OutputRows
<1>2. \A i \in Others(pool) : i \in 1..n
    BY <1>1 DEF Others
<1> HIDE DEF n
<1>3. CASE n \in Others(pool)
    BY <1>1, <1>2, <1>3
<1>4. CASE n \notin Others(pool)
    <2>1. \A i \in Others(pool) : i \in 1..(n - 1)
        BY <1>1, <1>2, <1>4
    <2>2. n \in DOMAIN pool /\ n - 1 \in DOMAIN pool /\ n - 1 # n
        BY <1>1, <2>1
    <2>3. pool[n].name = Self
        BY <1>4, <2>2 DEF Others
    <2>4. n - 1 \in Others(pool)
        BY <2>2, <2>3, OutputRows DEF OneEach, Others
    <2> QED BY <1>1, <2>1, <2>4
<1> QED BY <1>3, <1>4

\* The rows about others, as a set and by position.
LEMMA RivalRows ==
    ASSUME NEW pool
    PROVE  /\ \A i \in Others(pool) : pool[i] \in Rivals(pool)
           /\ \A r \in Rivals(pool) : \E i \in Others(pool) : r = pool[i]
BY DEF Rivals, Others

\* Since the output is sorted by sign, the last row that is left is the highest.
LEMMA LastIsTop ==
    ASSUME NEW pool \in Output, Others(pool) # {}
    PROVE  LastIsLow(pool) <=> TopIsLow(pool)
<1>1. PICK m \in Others(pool) : \A i \in Others(pool) : i <= m
    BY LastOther
<1>2. ASSUME NEW i \in Others(pool)
      PROVE  /\ pool[i].c \in Int /\ Threshold \in Int /\ pool[i].c <= pool[m].c
             /\ pool[i].c <= Magnitude(pool[i].c)
             /\ Magnitude(pool[i].c) \in {pool[i].c, -pool[i].c}
    <2>1. i \in DOMAIN pool /\ m \in DOMAIN pool /\ i \in Nat /\ m \in Nat /\ i <= m
        BY <1>1, OutputRows DEF Others
    <2>2. pool[i].c \in Int
        BY <2>1, RowValue
    <2>3. pool[i].c <= pool[m].c
        BY <2>1, <2>2, OutputRows DEF Sorted
    <2> QED BY <2>1, <2>3, RowValue
<1>3. LastIsLow(pool) <=> Magnitude(pool[m].c) < Threshold
    <2>1. ASSUME NEW k \in Others(pool), \A i \in Others(pool) : i <= k PROVE k = m
        <3>1. k \in Nat /\ m \in Nat
            BY OutputRows DEF Others
        <3> QED BY <1>1, <2>1, <3>1
    <2> QED BY <1>1, <2>1 DEF LastIsLow
<1>4. ASSUME Magnitude(pool[m].c) < Threshold PROVE TopIsLow(pool)
    <2>1. \A i \in Others(pool) : pool[i].c < Threshold
        BY <1>2, <1>4
    <2> QED BY <1>4, <2>1, RivalRows DEF TopIsLow
<1>5. ASSUME TopIsLow(pool) PROVE Magnitude(pool[m].c) < Threshold
    <2>1. PICK i \in Others(pool) : Magnitude(pool[i].c) < Threshold
        BY <1>5, RivalRows DEF TopIsLow
    <2>2. pool[m].c < Threshold
        BY <1>5, RivalRows DEF TopIsLow
    <2>3. /\ pool[i].c \in Int /\ Threshold \in Int /\ pool[i].c <= pool[m].c
          /\ Magnitude(pool[i].c) \in {pool[i].c, -pool[i].c}
          /\ pool[i].c <= Magnitude(pool[i].c)
        BY <1>2
    <2>4. pool[m].c \in Int /\ Magnitude(pool[m].c) \in {pool[m].c, -pool[m].c}
        BY <1>2
    <2>5. -Threshold < pool[i].c
        BY <2>1, <2>3, SMT DEF Magnitude
    <2> QED BY <2>2, <2>3, <2>4, <2>5
<1> QED BY <1>3, <1>4, <1>5

\* BeatsAll by the rows in High.
LEMMA HighBeaten ==
    ASSUME NEW pool, NEW wins
    PROVE  BeatsAll(pool, wins) <=> \A i \in High(pool) : Beaten(wins[pool[i].name])
BY DEF BeatsAll, High, Others

LEMMA CorrelationStarts == VInit => CorrInv
<1> SUFFICES ASSUME CorrStart PROVE CorrInv
    BY DEF VInit, CorrInv
<1> DEFINE Pools == {<<a>> : a \in Output} \cup (Output \X Output)
           Counted(w) == [n \in Rival \cup {Self} |-> IF n = Self THEN 0 ELSE w[n]]
           First(pools, own, wins) ==
              [at |-> "bcorr", pools |-> pools, own |-> own, next |-> 1, wins |-> wins,
               rows |-> <<>>, high |-> {}, verdict |-> "none"]
<1>1. \E pools \in Pools, own \in OwnMetrics, w \in [Rival -> Wins] :
        corr = First(pools, own, Counted(w))
    BY DEF CorrStart
<1>2. ASSUME NEW pools \in Pools PROVE pools \in Seq(Output)
    <2>1. CASE \E a \in Output : pools = <<a>>
        BY <2>1
    <2>2. CASE \E a, b \in Output : pools = <<a, b>>
        BY <2>2
    <2> QED BY <2>1, <2>2
<1>3. \A w \in [Rival -> Wins] : Counted(w) \in [Rival \cup {Self} -> Wins]
    BY SMT DEF Wins
<1> HIDE DEF Pools, Counted
<1>4. PICK pools \in Pools, own \in OwnMetrics, wins \in [Rival \cup {Self} -> Wins] :
        corr = First(pools, own, wins)
    <2> HIDE DEF First
    <2> QED BY <1>1, <1>3, Zenon
<1>5. pools \in Seq(Output)
    BY <1>2
<1>6. /\ <<>> \in Seq([name : Rival \cup {Self}, c : Corr]) /\ 1 \in Nat
      /\ {} \in SUBSET Nat
    OBVIOUS
<1>7. corr \in CorrState
    BY <1>4, <1>5, <1>6, Zenon DEF CorrState
<1>8. corr.at = "bcorr" /\ corr.next = 1 /\ corr.rows = <<>>
    BY <1>4
<1>9. \A pool : Against(pool)
    BY <1>8 DEF Against
<1> QED BY <1>7, <1>9 DEF CorrInv

LEMMA VerdictReached ==
    ASSUME corr \in CorrState, NEW verdict \in {"skip", "pass", "fail"}, CorrDone(verdict)
    PROVE  /\ corr' \in CorrState /\ corr'.at = "done" /\ corr'.verdict = verdict
           /\ corr'.pools = corr.pools /\ corr'.own = corr.own /\ corr'.wins = corr.wins
<1>1. {} \in SUBSET Nat /\ verdict \in {"none", "skip", "pass", "fail"}
    OBVIOUS
<1> QED BY <1>1, Zenon DEF CorrDone, CorrState

LEMMA CorrelationStep == CorrInv /\ [VNext]_vvars => CorrInv'
<1> SUFFICES ASSUME CorrInv, [VNext]_vvars PROVE CorrInv'
    OBVIOUS
<1> USE DEF Off
<1>1. ASSUME corr # Off, CorrDone("skip") PROVE CorrInv'
    BY <1>1, VerdictReached DEF CorrInv, Against
<1>2. CASE CorrPool
    <2>1. corr # Off /\ corr.at = "bcorr" /\ corr.next \in DOMAIN corr.pools
        BY <1>2 DEF CorrPool
    <2>2. CASE CorrDone("skip")
        BY <1>1, <2>1, <2>2
    <2>3. CASE corr' = [corr EXCEPT !.next = @ + 1, !.rows = @ \o corr.pools[corr.next]]
        <3> DEFINE next == corr.next + 1
                   rows == corr.rows \o corr.pools[corr.next]
        <3>1. corr \in CorrState
            BY <2>1 DEF CorrInv
        <3>2. /\ corr.next \in Nat /\ corr.rows \in Seq([name : Rival \cup {Self}, c : Corr])
              /\ corr.pools \in Seq(Output)
            BY <3>1 DEF CorrState
        <3>3. corr.pools[corr.next] \in Output
            BY <2>1, <3>2
        <3>4. corr.pools[corr.next] \in Seq([name : Rival \cup {Self}, c : Corr])
            BY <3>3, OutputRows
        <3>5. next \in Nat /\ rows \in Seq([name : Rival \cup {Self}, c : Corr])
            BY <3>2, <3>4
        <3>6. corr' = [corr EXCEPT !.next = next, !.rows = rows]
            BY <2>3, Zenon
        <3>7. ASSUME NEW pool \in Output, corr.pools = <<pool>> PROVE next = 2 /\ rows = pool
            <4>1. corr.next = 1
                BY <2>1, <3>2, <3>7
            <4>2. corr.rows = <<>> /\ corr.pools[corr.next] = pool
                BY <2>1, <3>7, <4>1 DEF CorrInv, Against
            <4> QED BY <3>4, <4>1, <4>2
        <3> HIDE DEF next, rows
        <3>8. /\ corr' \in CorrState /\ corr'.at = "bcorr" /\ corr'.pools = corr.pools
              /\ corr'.next = next /\ corr'.rows = rows
            BY <2>1, <3>1, <3>5, <3>6, Zenon DEF CorrState
        <3> QED BY <3>7, <3>8 DEF CorrInv, Against
    <2> QED BY <1>2, <2>2, <2>3 DEF CorrPool
<1>3. CASE CorrJudge
    <2>1. corr # Off /\ corr.at = "bcorr" /\ corr.next \notin DOMAIN corr.pools
        BY <1>3 DEF CorrJudge
    <2>2. corr \in CorrState
        BY <2>1 DEF CorrInv
    <2>3. ASSUME NEW pool \in Output, corr.pools = <<pool>> PROVE corr.rows = pool
        BY <2>1, <2>3 DEF CorrInv, Against
    <2>4. CASE Others(corr.rows) = {} \/ corr.own = "missing"
        BY <1>1, <1>3, <2>1, <2>4 DEF CorrJudge
    <2>5. CASE ~(Others(corr.rows) = {} \/ corr.own = "missing") /\ corr.own = "gated"
        <3>1. CorrDone("fail")
            BY <1>3, <2>5 DEF CorrJudge
        <3> QED BY <2>2, <2>5, <3>1, VerdictReached DEF CorrInv, Against, Accepted
    <2>6. CASE /\ ~(Others(corr.rows) = {} \/ corr.own = "missing") /\ corr.own # "gated"
               /\ LastIsLow(corr.rows)
        <3>1. CorrDone("pass") /\ corr.own = "good"
            BY <1>3, <2>2, <2>6 DEF CorrJudge, CorrState, OwnMetrics
        <3>2. ASSUME NEW pool \in Output, corr.pools = <<pool>>
              PROVE  Accepted(pool, corr.own, corr.wins)
            BY <2>3, <2>6, <3>1, <3>2, LastIsTop DEF Accepted
        <3> QED BY <2>2, <3>1, <3>2, VerdictReached DEF CorrInv, Against
    <2>7. CASE /\ ~(Others(corr.rows) = {} \/ corr.own = "missing") /\ corr.own # "gated"
               /\ ~LastIsLow(corr.rows)
        <3>1. corr' = [corr EXCEPT !.at = "beat", !.high = High(corr.rows)] /\ corr.own = "good"
            BY <1>3, <2>2, <2>7 DEF CorrJudge, CorrState, OwnMetrics
        <3>2. High(corr.rows) \in SUBSET Nat
            BY <2>2 DEF High, Others, CorrState
        <3>3. /\ corr' \in CorrState /\ corr'.at = "beat" /\ corr'.high = High(corr.rows)
              /\ corr'.pools = corr.pools /\ corr'.own = "good" /\ corr'.rows = corr.rows
            BY <2>2, <3>1, <3>2, Zenon DEF CorrState
        <3>4. ASSUME NEW pool \in Output, corr.pools = <<pool>> PROVE ~TopIsLow(pool)
            BY <2>3, <2>7, <3>4, LastIsTop
        <3> QED BY <2>3, <3>3, <3>4 DEF CorrInv, Against
    <2> QED BY <2>4, <2>5, <2>6, <2>7
<1>4. CASE CorrBeat
    <2>1. corr # Off /\ corr.at = "beat"
        BY <1>4 DEF CorrBeat
    <2>2. corr \in CorrState
        BY <2>1 DEF CorrInv
    <2>3. ASSUME NEW pool \in Output, corr.pools = <<pool>>
          PROVE  /\ corr.rows = pool /\ corr.own = "good" /\ ~TopIsLow(pool)
                 /\ corr.high \subseteq High(pool)
                 /\ \A i \in High(pool) \ corr.high : Beaten(corr.wins[pool[i].name])
        BY <2>1, <2>3 DEF CorrInv, Against
    <2>4. CASE corr.high = {} /\ CorrDone("pass")
        <3>1. ASSUME NEW pool \in Output, corr.pools = <<pool>>
              PROVE  Accepted(pool, corr.own, corr.wins)
            BY <2>3, <2>4, <3>1, HighBeaten DEF Accepted
        <3> QED BY <2>2, <2>3, <2>4, <3>1, VerdictReached DEF CorrInv, Against
    <2>5. ASSUME NEW i \in corr.high, corr.wins[corr.rows[i].name] \in {None, 2, 3},
                 corr' = [corr EXCEPT !.high = corr.high \ {i}]
          PROVE  CorrInv'
        <3>1. corr.high \ {i} \in SUBSET Nat
            BY <2>2 DEF CorrState
        <3>2. /\ corr' \in CorrState /\ corr'.at = "beat" /\ corr'.high = corr.high \ {i}
              /\ corr'.pools = corr.pools /\ corr'.own = corr.own /\ corr'.rows = corr.rows
              /\ corr'.wins = corr.wins
            BY <2>1, <2>2, <2>5, <3>1, Zenon DEF CorrState
        <3>3. Beaten(corr.wins[corr.rows[i].name])
            BY <2>5, SMT DEF Beaten
        <3>4. ASSUME NEW pool \in Output, corr.pools = <<pool>>
              PROVE  \A j \in High(pool) \ corr'.high : Beaten(corr.wins[pool[j].name])
            BY <2>3, <3>2, <3>3, <3>4
        <3> QED BY <2>3, <3>2, <3>4 DEF CorrInv, Against
    <2>6. ASSUME NEW i \in corr.high, corr.wins[corr.rows[i].name] \notin {None, 2, 3},
                 CorrDone("fail")
          PROVE  CorrInv'
        <3>1. ASSUME NEW pool \in Output, corr.pools = <<pool>>
              PROVE  ~Accepted(pool, corr.own, corr.wins)
            <4>1. i \in High(pool) /\ corr.rows = pool
                BY <2>3, <2>6, <3>1
            <4>2. pool[i].name \in Rival \cup {Self}
                BY <4>1, OutputRows DEF High, Others
            <4>3. corr.wins[pool[i].name] \in Wins
                BY <2>2, <4>2 DEF CorrState
            <4>4. ~Beaten(corr.wins[pool[i].name])
                BY <2>6, <4>1, <4>3, SMT DEF Beaten, Wins, None
            <4> QED BY <2>3, <3>1, <4>1, <4>4, HighBeaten DEF Accepted
        <3> QED BY <2>2, <2>6, <3>1, VerdictReached DEF CorrInv, Against
    <2> QED BY <1>4, <2>4, <2>5, <2>6 DEF CorrBeat
<1>5. CASE UNCHANGED corr
    BY <1>5 DEF CorrInv, Against
<1> QED BY <1>2, <1>3, <1>4, <1>5 DEF VNext, CompScan, CompConclude, FireRead, vvars

LEMMA CorrelationDecides == CorrInv => CorrelationBeatsAlike
<1> SUFFICES ASSUME CorrInv, corr.at = "done", Len(corr.pools) = 1, corr.verdict # "skip"
             PROVE  corr.verdict = "pass" <=>
                      /\ corr.own = "good"
                      /\ \/ Unbeaten(corr.pools[1], corr.wins) = {}
                         \/ TopIsLow(corr.pools[1])
    BY DEF CorrelationBeatsAlike
<1> DEFINE pool == corr.pools[1]
<1>1. corr # Off
    BY DEF Off
<1>2. corr.pools \in Seq(Output) /\ corr.wins \in [Rival \cup {Self} -> Wins]
    BY <1>1 DEF CorrInv, CorrState
<1>3. pool \in Output /\ corr.pools = <<pool>>
    BY <1>2
<1> HIDE DEF pool
<1>4. Against(pool)
    BY <1>1, <1>3 DEF CorrInv
<1>5. corr.verdict = "pass" <=> Accepted(pool, corr.own, corr.wins)
    BY <1>4 DEF Against
<1>6. ASSUME NEW i \in Others(pool)
      PROVE  corr.wins[pool[i].name] \in {0, 1} <=> ~Beaten(corr.wins[pool[i].name])
    <2>1. pool[i].name \in Rival \cup {Self}
        BY <1>3, OutputRows DEF Others
    <2>2. corr.wins[pool[i].name] \in Wins
        BY <1>2, <2>1
    <2> QED BY <2>2, SMT DEF Beaten, Wins, None
<1>7. BeatsAll(pool, corr.wins) <=> Unbeaten(pool, corr.wins) = {}
    <2>1. BeatsAll(pool, corr.wins) <=>
            \A i \in Others(pool) : Magnitude(pool[i].c) >= Threshold =>
                Beaten(corr.wins[pool[i].name])
        BY DEF BeatsAll, Others
    <2>2. Unbeaten(pool, corr.wins) = {} <=>
            \A i \in Others(pool) : Magnitude(pool[i].c) >= Threshold =>
                ~(corr.wins[pool[i].name] \in {0, 1})
        BY RivalRows DEF Unbeaten
    <2> QED BY <1>6, <2>1, <2>2
<1>8. corr.verdict = "pass" <=>
        corr.own = "good" /\ (Unbeaten(pool, corr.wins) = {} \/ TopIsLow(pool))
    BY <1>5, <1>7 DEF Accepted
<1> QED BY <1>8 DEF pool

\* Against one pool a factor passes the correlation check exactly when it passes the
\* gates and beats every other factor that correlates with it highly, or the
\* highest correlation by sign is low and nobody is looked at.
THEOREM CorrelationIsRight == VSpec => []CorrelationBeatsAlike
BY CorrelationStarts, CorrelationStep, CorrelationDecides, PTL DEF VSpec
=============================================================================
