---------------------------- MODULE MountSwitch -----------------------------
(***************************************************************************)
(* `ops setup --migrate-mount`: the JuiceFS volume of a machine moves from *)
(* the mount point A it is at to the declared one, B.  The two files that  *)
(* configure it are rewritten, the service is stopped and started, and the *)
(* directories beside the mount point (the sidecar) are moved; some failed *)
(* steps restore the two files.  systemd is external: as the code uses it, *)
(* stop unmounts, daemon-reload reads the unit file, and start mounts what *)
(* systemd has read, or does nothing when the service is active.           *)
(***************************************************************************)
EXTENDS Naturals, FiniteSets

CONSTANTS
    Entry,        \* what the sidecar of A holds
    MaxAttempts   \* bound: migrations started

ASSUME SwitchAssumption == IsFiniteSet(Entry) /\ MaxAttempts \in Nat

VARIABLES
    env,       \* which mount point the env file names
    unit,      \* which one the unit file names
    read,      \* which one systemd has read
    service,   \* "active" or "inactive"
    mounted,   \* "A", "B" or "none", from /proc/mounts
    sidecar,   \* sidecar[e]: "A", "B", or "both" (B holds a part of a copy)
    link,      \* what the compatibility link points at, "none", or "file"
    backup,    \* the copies of env and unit
    mig,       \* [pc, result, from: where its env file put the sidecar]
    attempts

svars == <<env, unit, read, service, mounted, sidecar, link, backup, mig, attempts>>
config == <<env, unit>>
system == <<read, service, mounted>>

Result == {"none", "nothing to do", "refused", "raised", "rolled back", "by hand", "migrated"}

SInit ==
    /\ env = "A" /\ unit = "A" /\ read = "A"
    /\ service = "active" /\ mounted = "A"
    /\ sidecar = [e \in Entry |-> "A"]
    /\ link \in {"A", "none", "file"}
    /\ backup = [env |-> "none", unit |-> "none"]
    /\ mig = [pc |-> "idle", result |-> "none", from |-> "A"]
    /\ attempts = 0

At(pc) == mig.pc = pc
Goto(pc) == mig' = [mig EXCEPT !.pc = pc]
End(result) == mig' = [mig EXCEPT !.pc = "idle", !.result = result]
\* A step that failed outside the rollback: the exception ends the command.
Raise == End("raised") /\ UNCHANGED <<env, unit, read, service, mounted, sidecar, link, backup, attempts>>

(***************************************************************************)
(* systemd.                                                                *)
(***************************************************************************)
Reload == read' = unit
\* `start` returned 0.  The mount appears before it returns, or not at all.
StartOk == IF service = "active" THEN UNCHANGED <<service, mounted>>
           ELSE service' = "active" /\ mounted' \in {read, "none"}
\* An operator, or the next boot, starts the service between two attempts.
Operator ==
    /\ At("idle") /\ service = "inactive"
    /\ read' = unit /\ service' = "active" /\ mounted' = unit
    /\ UNCHANGED <<config, sidecar, link, backup, mig, attempts>>

(***************************************************************************)
(* The guards, which only read, and the backup.                            *)
(***************************************************************************)
\* The volume this machine has, from /proc/mounts.
Found == mounted # "none"

SwitchBegin ==
    /\ At("idle") /\ attempts < MaxAttempts
    /\ attempts' = attempts + 1
    /\ \/ ~Found /\ End("refused")
       \/ mounted = "B" /\ End("nothing to do")
       \/ mounted = "A" /\ mig' = [mig EXCEPT !.pc = "backup", !.from = env]
       \/ mounted = "A" /\ End("refused")    \* target disk, files, writeback
    /\ UNCHANGED <<config, system, sidecar, link, backup>>

Backup ==
    /\ At("backup")
    /\ \/ backup' = [env |-> env, unit |-> unit] /\ Goto("stop")
          /\ UNCHANGED <<config, system, sidecar, link, attempts>>
       \/ Raise

Stop ==
    /\ At("stop")
    /\ \/ service' = "inactive" /\ mounted' = "none" /\ Goto("env")
          /\ UNCHANGED <<config, read, sidecar, link, backup, attempts>>
       \/ Raise

WriteEnv ==
    /\ At("env")
    /\ \/ env' = "B" /\ Goto("unit")
          /\ UNCHANGED <<unit, system, sidecar, link, backup, attempts>>
       \/ Raise

WriteUnit ==
    /\ At("unit")
    /\ \/ unit' = "B" /\ Goto("reload")
          /\ UNCHANGED <<env, system, sidecar, link, backup, attempts>>
       \/ Raise

DaemonReload ==
    /\ At("reload")
    /\ \/ Reload /\ Goto("sidecar")
          /\ UNCHANGED <<config, service, mounted, sidecar, link, backup, attempts>>
       \/ Raise

(***************************************************************************)
(* The sidecar that the env file named at the beginning, entry by entry.   *)
(* Across disks a move is a copy and then a removal; an entry whose name   *)
(* exists at B stays where it is.                                          *)
(***************************************************************************)
ToMove == {e \in Entry : mig.from = "A" /\ sidecar[e] = "A"}

MoveEntry(e) ==
    /\ At("sidecar") /\ e \in ToMove
    /\ sidecar' = [sidecar EXCEPT ![e] = "B"]
    /\ UNCHANGED <<config, system, link, backup, mig, attempts>>

\* The copy fails or the process is killed half way.
MoveBreaks(e) ==
    /\ At("sidecar") /\ e \in ToMove
    /\ sidecar' = [sidecar EXCEPT ![e] = "both"]
    /\ End("raised")
    /\ UNCHANGED <<config, system, link, backup, attempts>>

SidecarDone ==
    /\ At("sidecar") /\ ToMove = {}
    /\ Goto("start")
    /\ UNCHANGED <<config, system, sidecar, link, backup, attempts>>

(***************************************************************************)
(* The start under the new configuration, and the checks that may roll     *)
(* back.                                                                   *)
(***************************************************************************)
Start ==
    /\ At("start")
    /\ \/ StartOk /\ Goto("wait")
       \/ Goto("restore") /\ UNCHANGED <<service, mounted>>
    /\ UNCHANGED <<config, read, sidecar, link, backup, attempts>>

\* Deviation: a start that systemd calls successful is believed.
VerifyNot ==
    /\ At("wait") /\ Goto("link")
    /\ UNCHANGED <<config, system, sidecar, link, backup, attempts>>
\* The mount shows within 30 seconds, with a non-empty alpha_src, or else.
Verify ==
    /\ At("wait")
    /\ \/ mounted = "B" /\ Goto("link")
       \/ Goto("restore")
    /\ UNCHANGED <<config, system, sidecar, link, backup, attempts>>

\* An existing link is replaced at once; what is no link is left alone.
Relink ==
    /\ At("link")
    /\ \/ link' = (IF link = "file" THEN "file" ELSE "B") /\ End("migrated")
          /\ UNCHANGED <<config, system, sidecar, backup, attempts>>
       \/ Raise

RollbackFiles ==
    /\ At("restore")
    /\ \/ env' = backup.env /\ unit' = backup.unit /\ Goto("restart")
          /\ UNCHANGED <<system, sidecar, link, backup, attempts>>
       \/ env' = backup.env /\ End("raised")
          /\ UNCHANGED <<unit, system, sidecar, link, backup, attempts>>
       \/ Raise

\* rollback: daemon-reload and start; when either fails the operator is told so.
RollbackStart ==
    /\ At("restart")
    /\ \/ Reload /\ End("rolled back")
          /\ IF service = "active" THEN UNCHANGED <<service, mounted>>
             ELSE service' = "active" /\ mounted' = unit
       \/ End("by hand") /\ UNCHANGED system
       \/ Reload /\ End("by hand") /\ UNCHANGED <<service, mounted>>
    /\ UNCHANGED <<config, sidecar, link, backup, attempts>>

SNext ==
    \/ Operator \/ SwitchBegin \/ Backup \/ Stop \/ WriteEnv \/ WriteUnit \/ DaemonReload
    \/ SidecarDone \/ Start \/ Verify \/ Relink \/ RollbackFiles \/ RollbackStart
    \/ \E e \in Entry : MoveEntry(e) \/ MoveBreaks(e)
SSpec == SInit /\ [][SNext]_svars

(***************************************************************************)
(* Properties.                                                             *)
(***************************************************************************)
\* Over any number of attempts, failed steps and rollbacks: a migration that says
\* it is complete leaves one configuration (files, what systemd has read, the
\* mount, a link that no longer leads to A), and the unit file it has saved is
\* that of A: no attempt saves as the original what an earlier one has written.
SwitchIsWhole ==
    /\ mig.result = "migrated" /\ At("idle") =>
        env = "B" /\ unit = "B" /\ read = "B" /\ mounted = "B" /\ link # "A"
    /\ backup.unit \in {"none", "A"}
=============================================================================
