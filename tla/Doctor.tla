------------------------------- MODULE Doctor -------------------------------
(***************************************************************************)
(* `ops doctor --fix` and `ops pack` beside the commands of FactorOps, for *)
(* one name.  The doctor reads PG, then lists the areas of the shared disk *)
(* after it, without a lock; judges the drift between them from that       *)
(* inventory; and minutes later, after the operator agreed, repairs each   *)
(* finding under the name's lock.  pack writes the feature files           *)
(* (alpha_feature/<name>.v1.npy, .v2.npy) the other commands only remove.  *)
(*                                                                         *)
(* A behaviour starts either with an empty library whose commands run      *)
(* ("live"), or with the drift older versions and accidents left behind    *)
(* ("legacy"), which nobody touches but the doctor.                        *)
(***************************************************************************)
EXTENDS FactorOps, TLC

CONSTANTS
    DoctorId, PackId   \* the two other holders the lock may have

ASSUME HolderAssumption == {DoctorId, PackId} \cap (Proc \cup {NoProc}) = {} /\ DoctorId # PackId

VARIABLES
    feature,  \* the versions of the name's feature file that exist
    tmp,      \* .<name>.vN.npy.tmp: none, fresh, or more than 24 hours old
    pack,     \* where the pack worker is
    doc,      \* the doctor process
    world,    \* [live: BOOLEAN, blind: areas that cannot be listed]
    identity  \* a factor_info row without a factor_state row (legacy only)

side == <<feature, tmp, pack>>
dvars == <<vars, side, doc, world, identity>>

Version == {"v1", "v2"}
Area == {"alpha_src", "staging", "alpha_pnl", "alpha_feature", "pool", "dump_local"}
\* The inventory lists them one by one; here the three that hold sources and
\* their pnl are one step, and the three that hold products another.
AreaOrder == <<{"alpha_src", "staging", "alpha_pnl"}, {"alpha_feature", "pool", "dump_local"}>>

\* The kinds of drift by family, in the order of FAMILIES.
Family == [pool_ghost |-> {"ghost", "ghost-info-orphan", "missing"},
           snapshot_stale |-> {"mismatch"},
           info_orphan |-> {"info-orphan"},
           src_drift |-> {"lib-missing", "lib-missing-staged", "src-orphan"},
           staging_drift |-> {"orphan-dir", "missing-dir"},
           artifact_orphan |-> {"pnl-orphan", "pack-tmp", "v1", "v2"},
           dump_orphan |-> {"dump-orphan"}]
Kind == UNION {Family[f] : f \in DOMAIN Family}
Needs == [pool_ghost |-> {"pool"}, snapshot_stale |-> {}, info_orphan |-> {},
          src_drift |-> {"alpha_src"},
          staging_drift |-> {"staging"}, artifact_orphan |-> {"alpha_pnl", "alpha_feature"},
          dump_orphan |-> {"dump_local"}]
Fixer == {"pool_ghost", "artifact_orphan", "dump_orphan"}
Fixable == {"ghost", "pack-tmp", "v1", "v2", "dump-orphan"}
FixOrder == [ghost |-> 1] @@ [k \in {"pack-tmp"} |-> 2] @@ [v1 |-> 3, v2 |-> 4]
            @@ [k \in {"dump-orphan"} |-> 5]
FailKinds == {"ghost", "info-orphan", "lib-missing"}   \* severity fail
Referral == {"none", "ops rm", "manual"}

\* What repo.find says of the name: no row, an identity alone, or a status.
Record == IF identity THEN "identity" ELSE row.status
InLib == {"active", "rejected"}

Idle == [phase |-> "idle", next |-> 1, status |-> "none", snap |-> "none", listed |-> {},
         found |-> {}, refer |-> "none", fix |-> {}, todo |-> {}, hand |-> "none", gone |-> {},
         locked |-> FALSE, quiet |-> TRUE]

(***************************************************************************)
(* ops pack.  Candidates are the dump directories; a name whose two        *)
(* versions exist is skipped without --force (--factor is not modelled).   *)
(* The worker asks nobody whether the factor still exists.                 *)
(***************************************************************************)
PackStart(force) ==
    /\ pack = "idle" /\ world.live
    /\ disk.dump # NoCode
    /\ force \/ feature # Version
    /\ pack' = "lock"
    /\ UNCHANGED <<lock, feature, tmp, crashes>>

PackLock ==
    /\ pack = "lock"
    /\ IF lock = NoProc THEN pack' = "v1" /\ lock' = PackId /\ tmp' = "fresh"
                        ELSE pack' = "idle" /\ UNCHANGED <<lock, tmp>>
    /\ UNCHANGED <<feature, crashes>>

\* _atomic_write_memmap of one version, then of the other: the matrix goes into
\* the tmp file, os.replace makes it the feature.
PackWrite ==
    /\ pack \in Version
    /\ feature' = feature \cup {pack}
    /\ IF pack = "v1" THEN pack' = "v2" /\ tmp' = "fresh" /\ lock' = lock
                      ELSE pack' = "idle" /\ tmp' = "none" /\ lock' = NoProc
    /\ crashes' = crashes

\* An exception on the way to os.replace takes the tmp file along.
PackFails ==
    /\ pack \in Version
    /\ pack' = "idle" /\ tmp' = "none" /\ lock' = NoProc
    /\ UNCHANGED <<feature, crashes>>

PackCrash ==           \* the tmp file stays, the lock goes
    /\ pack \in Version
    /\ crashes < MaxCrashes /\ crashes' = crashes + 1
    /\ pack' = "idle" /\ lock' = NoProc
    /\ UNCHANGED <<feature, tmp>>

\* A worker does not run for 24 hours; what it left does get old.
TmpAges ==
    /\ tmp = "fresh" /\ pack \in {"idle", "lock"}
    /\ tmp' = "old"
    /\ UNCHANGED <<lock, feature, pack, crashes>>

\* Somebody else acts while the doctor works.  What it found is kept for the
\* properties of an undisturbed pass only; what it will repair stays.
Disturbed ==
    doc' = IF doc.phase = "idle" THEN doc
           ELSE [doc EXCEPT !.quiet = FALSE, !.found = {}, !.gone = {}, !.fix = {},
                            !.refer = "none", !.locked = FALSE]

PackStep ==
    /\ \/ \E force \in BOOLEAN : PackStart(force)
       \/ PackLock \/ PackWrite \/ PackFails \/ PackCrash \/ TmpAges
    /\ Disturbed
    /\ UNCHANGED <<row, disk, pc, loc, gen, screened, faults, world, identity>>

(***************************************************************************)
(* The commands of FactorOps.  Where they clear the serving side, the      *)
(* feature files go with the dump (purge_artifacts, on_reject).            *)
(***************************************************************************)
ClearsServing(p) ==
    \/ At(p, "r_serving") /\ (loc[p].why = "rejected" \/ loc[p].opt)
    \/ pc[p] \in {"j_clear", "m_dump"}

CommandStep(p) ==
    /\ world.live
    /\ \/ (Begin(p) \/ Continue(p)) /\ feature' = IF ClearsServing(p) THEN {} ELSE feature
       \/ Crash(p) /\ feature' = feature
    /\ Disturbed
    /\ UNCHANGED <<tmp, pack, world, identity>>

(***************************************************************************)
(* The inventory: PG first (its rows and the times of the latest checks    *)
(* are one read here), then each area, each read on its own.               *)
(***************************************************************************)
DoctorStart ==
    /\ doc.phase = "idle"
    /\ doc' = [Idle EXCEPT !.phase = "list", !.status = Record, !.snap = row.snap]

\* What listing an area shows of the name.
Entries(a) ==
    CASE a = "alpha_src" -> IF Exists(disk.lib) THEN {a} ELSE {}
      [] a = "staging" -> IF Exists(disk.stg) THEN {a} ELSE {}
      [] a = "alpha_pnl" -> IF disk.pnl # NoCode THEN {a} ELSE {}
      [] a = "alpha_feature" -> feature \cup (IF tmp = "old" THEN {"pack-tmp"} ELSE {})
      [] a = "pool" -> IF disk.pool # NoCode THEN {a} ELSE {}
      [] a = "dump_local" -> IF disk.dump # NoCode THEN {a} ELSE {}

\* An area that cannot be listed yields no entries and an error.
ListArea ==
    /\ doc.phase = "list" /\ doc.next \in DOMAIN AreaOrder
    /\ doc' = [doc EXCEPT !.next = @ + 1,
                          !.listed = @ \cup UNION {Entries(a) : a \in AreaOrder[doc.next] \ world.blind}]

(***************************************************************************)
(* The families' scans, on the inventory alone.                            *)
(***************************************************************************)
Sees(x) == x \in doc.listed

When(cond, kind) == IF cond THEN {kind} ELSE {}

ClassifyPool ==
    IF doc.status = "active" THEN {}
    ELSE IF doc.status = "identity" THEN {"ghost-info-orphan"} ELSE {"ghost"}
ScanPoolGhost ==
    IF Sees("pool") THEN ClassifyPool ELSE When(doc.status = "active", "missing")

\* Without a factor_state row no snapshot is judged.
ScanSnapshotStale ==
    When(doc.status # "identity" /\ doc.snap \in {"ahead", "stale"}, "mismatch")

ScanInfoOrphan == When(doc.status = "identity", "info-orphan")

\* A factor on its way back through restage is in staging only.
ScanSrcDrift ==
    IF Sees("alpha_src") THEN When(doc.status = "none", "src-orphan")
    ELSE When(doc.status \in InLib, IF Sees("staging") THEN "lib-missing-staged" ELSE "lib-missing")

ScanStagingDrift ==
    IF Sees("staging") THEN When(doc.status \in {"none", "identity"}, "orphan-dir")
    ELSE When(doc.status \in {"submitted", "checking"}, "missing-dir")

ScanArtifactOrphan ==
    When(Sees("alpha_pnl") /\ doc.status = "none", "pnl-orphan")
    \cup When(Sees("pack-tmp"), "pack-tmp")
    \cup {v \in Version : Sees(v) /\ doc.status = "none"}

ScanDumpOrphan == When(Sees("dump_local") /\ doc.status = "none", "dump-orphan")

Scan == [pool_ghost |-> ScanPoolGhost, snapshot_stale |-> ScanSnapshotStale,
         info_orphan |-> ScanInfoOrphan,
         src_drift |-> ScanSrcDrift, staging_drift |-> ScanStagingDrift,
         artifact_orphan |-> ScanArtifactOrphan, dump_orphan |-> ScanDumpOrphan]

\* A family that needs an unavailable area is skipped whole.
Scanned == {f \in DOMAIN Family : Needs[f] \cap world.blind = {}}
Found == UNION {Scan[f] : f \in Scanned}

\* Deviation: an area that cannot be read counts as empty.
ReferredSeeing ==
    IF doc.status # "identity" THEN "none"
    ELSE IF doc.listed \cap {"alpha_src", "staging", "alpha_pnl"} = {} THEN "ops rm" ELSE "manual"

\* What info-orphan advises: `ops rm` only when every area was seen to be empty.
Referred ==
    IF doc.status # "identity" THEN "none"
    ELSE IF (doc.listed \cup world.blind) \cap {"alpha_src", "staging", "alpha_pnl"} = {}
         THEN "ops rm" ELSE "manual"

Judged(fix, todo) ==
    doc' = [doc EXCEPT !.phase = "fix", !.next = 1, !.listed = {}, !.status = "none", !.snap = "none",
                       !.found = Found, !.refer = Referred, !.fix = fix, !.todo = todo]
Agreed(fix) == Found \cap UNION {Family[f] : f \in fix}

\* Judgement, and the operator's yes or no to each family he asked to fix.
Judge ==
    /\ doc.phase = "list" /\ doc.next \notin DOMAIN AreaOrder
    /\ \E fix \in SUBSET Fixer : Judged(fix, Agreed(fix) \cap Fixable)

(***************************************************************************)
(* guards.execute: lock, fresh read and recheck, insulation of ACTIVE,     *)
(* then the disk.                                                          *)
(***************************************************************************)
Resolved(k, outcome) ==
    [doc EXCEPT !.phase = "fix", !.hand = "none", !.todo = @ \ {k},
                !.gone = IF outcome \in {"fixed", "vanished"} THEN @ \cup {k} ELSE @,
                !.locked = @ \/ outcome = "locked"]

FixLock ==
    /\ doc.phase = "fix"
    /\ \E k \in doc.todo :
        /\ \A other \in doc.todo : FixOrder[k] <= FixOrder[other]
        /\ IF lock = NoProc
           THEN lock' = DoctorId /\ doc' = [doc EXCEPT !.phase = "recheck", !.hand = k]
           ELSE lock' = lock /\ doc' = Resolved(k, "locked")

\* The finding still stands by what PG says now.
RecheckPool == Record \notin {"active", "identity"}
RecheckArtifact(k) == k = "pack-tmp" \/ Record = "none"
RecheckDump == Record = "none"
Recheck(k) == CASE k = "ghost" -> RecheckPool
                [] k = "dump-orphan" -> RecheckDump
                [] OTHER -> RecheckArtifact(k)

\* An ACTIVE factor's products are never touched; a tmp file is none.
Insulated(k) == Record = "active" /\ k # "pack-tmp"

\* Deviation: the finding of the scan is acted on as it is.
FixRecheckTrusting ==
    /\ doc.phase = "recheck"
    /\ doc' = [doc EXCEPT !.phase = "act"] /\ lock' = lock

FixRecheck ==
    /\ doc.phase = "recheck"
    /\ IF Recheck(doc.hand) /\ ~Insulated(doc.hand)
       THEN doc' = [doc EXCEPT !.phase = "act"] /\ lock' = lock
       ELSE doc' = Resolved(doc.hand, IF Recheck(doc.hand) THEN "blocked" ELSE "vanished")
            /\ lock' = NoProc

\* Deviation: only the pool copies are repaired.
FixActShort ==
    /\ doc.phase = "act"
    /\ disk' = IF doc.hand = "ghost" THEN [disk EXCEPT !.pool = NoCode] ELSE disk
    /\ UNCHANGED <<feature, tmp>>
    /\ doc' = Resolved(doc.hand, "fixed") /\ lock' = NoProc

\* The disk is looked at once more: a tmp file may be a new one by now.
PathOk(k) == k = "pack-tmp" => tmp = "old"

\* unlink or rmtree; a target that is not there is as good; the lock goes.
FixAct ==
    /\ doc.phase = "act"
    /\ LET k == doc.hand IN
        /\ disk' = CASE k = "ghost" -> [disk EXCEPT !.pool = NoCode]
                     [] k = "dump-orphan" -> [disk EXCEPT !.dump = NoCode]
                     [] OTHER -> disk
        /\ feature' = feature \ {k}
        /\ tmp' = IF k = "pack-tmp" /\ PathOk(k) THEN "none" ELSE tmp
        /\ doc' = Resolved(k, IF PathOk(k) THEN "fixed" ELSE "vanished")
    /\ lock' = NoProc

DoctorReturn == doc.phase = "fix" /\ doc.todo = {} /\ doc' = Idle

DoctorKilled ==
    /\ doc.phase # "idle" /\ doc' = Idle
    /\ lock' = IF lock = DoctorId THEN NoProc ELSE lock

DoctorStep ==
    /\ \/ (DoctorStart \/ ListArea \/ Judge \/ DoctorReturn) /\ UNCHANGED <<disk, lock, feature, tmp>>
       \/ (FixLock \/ FixRecheck \/ DoctorKilled) /\ UNCHANGED <<disk, feature, tmp>>
       \/ FixAct
    /\ UNCHANGED <<row, pc, loc, ghost, pack, world, identity>>

(***************************************************************************)
(* Init and Next.                                                          *)
(***************************************************************************)
Fresh ==
    /\ Init
    /\ feature = {} /\ tmp = "none" /\ identity = FALSE
    /\ world = [live |-> TRUE, blind |-> {}]

\* Any drift of one name, and at most one area the doctor's user cannot list.
\* Bound: a snapshot out of date only with all areas listed.
OldCode == Submission(1)
OldDir == [code |-> OldCode, whole |-> TRUE, meta |-> TRUE]
Legacy ==
    /\ \E blind \in {{}} \cup {{a} : a \in Area} : world = [live |-> FALSE, blind |-> blind]
    /\ \E s \in Status \cup {"identity"}, snap \in {"none", "stale"}, stg, lib \in {NoDir, OldDir},
          dump, pnl, pool \in {NoCode, OldCode} :
        /\ identity = (s = "identity")
        /\ row = [status |-> IF identity THEN "none" ELSE s, entered |-> s = "active",
                  snap |-> snap, lastFail |-> "none"]
        /\ snap = "stale" => row.status # "none" /\ world.blind = {}
        /\ disk = [stg |-> stg, lib |-> lib, dump |-> dump, pnl |-> pnl, pool |-> pool]
    /\ feature \in SUBSET Version /\ tmp \in {"none", "old"}
    /\ lock = NoProc
    /\ pc = [p \in Proc |-> "idle"] /\ loc = [p \in Proc |-> NoLoc]
    /\ gen = 0 /\ screened = {} /\ crashes = 0 /\ faults = 0

DInit == (Fresh \/ Legacy) /\ pack = "idle" /\ doc = Idle
DNext == (\E p \in Proc : CommandStep(p)) \/ PackStep \/ DoctorStep
DSpec == DInit /\ [][DNext]_dvars

DTypeOK ==
    /\ feature \subseteq Version /\ tmp \in {"none", "fresh", "old"}
    /\ pack \in {"idle", "lock"} \cup Version
    /\ world \in [live: BOOLEAN, blind: SUBSET Area] /\ identity \in BOOLEAN
    /\ doc \in [phase: {"idle", "list", "fix", "recheck", "act"}, next: 1..3,
                status: Status \cup {"identity"}, snap: Snapshot,
                listed: SUBSET (Area \cup Version \cup {"pack-tmp"}),
                found: SUBSET Kind, refer: Referral, fix: SUBSET Fixer, todo: SUBSET Fixable,
                hand: Fixable \cup {"none"}, gone: SUBSET Fixable, locked: BOOLEAN,
                quiet: BOOLEAN]
    /\ lock \in Proc \cup {NoProc, DoctorId, PackId}

(***************************************************************************)
(* Properties.                                                             *)
(***************************************************************************)
\* However old the inventory, the doctor removes a pool copy of an ACTIVE factor
\* never, a dump or a feature only of a name PG does not know at that moment,
\* and a tmp file only when no pack is writing it (checks.py:6-9, guards.py:10-14).
DoctorSparesLive ==
    [][doc.phase = "act" /\ doc'.phase = "fix" =>
        /\ disk'.pool # disk.pool => row.status # "active"
        /\ disk'.dump # disk.dump \/ feature' # feature => row.status = "none" /\ ~identity
        /\ tmp' # tmp => tmp = "old"
        /\ disk'.lib = disk.lib /\ disk'.stg = disk.stg /\ disk'.pnl = disk.pnl]_dvars

\* A pass nobody disturbed, with every fixer agreed to, leaves no drift it can
\* repair (guards.py:22: an interrupted doctor converges by scanning again); if
\* it also reports no failure, every library factor has its source somewhere;
\* and if it reports nothing, the snapshot is that of the latest check.
SweepRepairs ==
    doc.phase = "fix" /\ doc.todo = {} /\ doc.quiet /\ ~doc.locked /\ world.blind = {} =>
        /\ doc.fix = Fixer =>
            /\ disk.pool # NoCode => Record \in {"active", "identity"}
            /\ disk.dump # NoCode \/ feature # {} => Record # "none"
            /\ tmp # "old"
        /\ FailKinds \cap (doc.found \ doc.gone) = {} =>
            /\ Record # "identity"
            /\ Record \in InLib => Exists(disk.lib) \/ Exists(disk.stg)
            /\ disk.pool # NoCode => Record = "active"
        /\ doc.found = {} => row.snap \in {"none", "current"}

\* The doctor advises `ops rm`, which deletes the source too, only for a name
\* that really has none, even where an area could not be listed (checks.py:203-216).
RmReferralIsSafe ==
    doc.refer = "ops rm" => ~Exists(disk.lib) /\ ~Exists(disk.stg) /\ disk.pnl = NoCode
=============================================================================
