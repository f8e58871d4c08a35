----------------------------- MODULE FactorOps -----------------------------
(***************************************************************************)
(* The life of one factor under concurrent `ops` commands.                 *)
(*                                                                         *)
(* Every PG row, every directory and the advisory lock are keyed by the    *)
(* factor's name, so commands on different factors touch disjoint state:   *)
(* the module follows one name.  A process of Proc is one ops process (a   *)
(* worker of the check pool, or an operator's command) working on that     *)
(* name.  One action is one durable effect: a PG transaction, or one       *)
(* operation on a directory or file of the shared disk.  A process may die *)
(* between any two of them (Crash), and an exception may cut a command     *)
(* short (CheckFault, SubmitFault, Swallowed).                             *)
(*                                                                         *)
(* Code is identified by the submission it came from: the .py and the .xml *)
(* of a directory each carry the number of the submission that wrote them. *)
(***************************************************************************)
EXTENDS Naturals, FiniteSets

CONSTANTS
    Proc,        \* ops processes
    NoProc,      \* the holder of a free lock
    May,         \* May[p]: the commands process p is used for
    MaxGen,      \* bound: submissions copied out of the dropbox
    MaxCrashes,  \* bound: processes killed, or commands left by an exception
    MaxFaults    \* bound: I/O or PG errors a command handles itself

Command == {"submit", "check", "restage", "approve", "cancel", "clear", "rm"}

ASSUME ProcAssumption == NoProc \notin Proc
ASSUME MayAssumption == May \in [Proc -> SUBSET Command]
ASSUME BoundAssumption == MaxGen \in Nat /\ MaxCrashes \in Nat /\ MaxFaults \in Nat

VARIABLES
    row,      \* PG: factor_info/factor_state/factor_snapshot, and what the
              \* readers of factor_history derive (last_fail)
    disk,     \* the five places of the shared disk that hold the factor
    lock,     \* the advisory lock of the name
    pc,       \* where each process is
    loc,      \* the local variables of each process
    gen,      \* submissions so far
    screened, \* codes that passed every stage, or every one but correlation
    crashes, faults

vars == <<row, disk, lock, pc, loc, gen, screened, crashes, faults>>
ghost == <<gen, screened, crashes, faults>>

(***************************************************************************)
(* Data.                                                                   *)
(***************************************************************************)
Status == {"none", "submitted", "checking", "active", "rejected"}
Snapshot == {"none",      \* no factor_snapshot row
             "ahead",     \* measured_at is the time of a check not yet recorded
             "current",   \* snapshot_at = at of the latest check event
             "stale"}     \* snapshot_at is another time
LastFail == {"none", "other", "correlation"}
Row == [status: Status, entered: BOOLEAN, snap: Snapshot, lastFail: LastFail]

Gens == 0..MaxGen
Code == [py: Gens, xml: Gens]
NoCode == [py |-> 0, xml |-> 0]
Dir == [code: Code, whole: BOOLEAN, meta: BOOLEAN]
NoDir == [code |-> NoCode, whole |-> FALSE, meta |-> FALSE]
Submission(g) == [py |-> g, xml |-> g]

Disk == [stg: Dir,     \* staging/<name>
         lib: Dir,     \* alpha_src/<name>
         dump: Code,   \* alpha_dump/<name>, the code that produced it
         pnl: Code,    \* alpha_pnl/<name>
         pool: Code]   \* pnl_automated/<name> or pnl_manual/<name>

Outcome == {"pass", "skip", "retry", "unexpected",
            "early", "compliance", "correlation"}
Keep == {"compliance", "correlation"}   \* KEEP_ARTIFACTS_STAGES
Why == Outcome \cup Status

Loc == [cmd: Command \cup {"none"},
        opt: BOOLEAN,       \* --overwrite / --purge / --force
        seen: Gens,         \* the submission at hand; the XML held in memory
        why: Why,           \* outcome of the stages; status before restage
        ran: Code]          \* the code the stages ran
NoLoc == [cmd |-> "none", opt |-> FALSE, seen |-> 0, why |-> "none", ran |-> NoCode]

\* First step of each command inside the lock.
Entry == [submit |-> "s_wipe", check |-> "c_ensure", restage |-> "r_recall",
          approve |-> "a_state", cancel |-> "x_unstage", clear |-> "l_unstage",
          rm |-> "m_dump"]

PassBody == {"p_event", "p_active", "p_rmsrc", "p_mvsrc", "p_dump", "p_pnl", "p_pool"}
Locked == {"s_wipe", "s_copy", "s_copied", "s_parse", "s_undo", "s_meta",
           "s_commit", "s_discard", "s_purge",
           "c_ensure", "c_mark", "c_prep", "c_run",
           "snap_del", "snap_ins",
           "j_rmsrc", "j_cpsrc", "j_keep_pnl", "j_keep_dump", "j_clear",
           "j_unstage", "j_event", "j_state", "v_event", "v_state",
           "r_recall", "r_serving", "r_check", "r_state", "r_discard",
           "a_state", "x_unstage", "x_delete", "l_unstage",
           "m_dump", "m_src", "m_stg", "m_check", "m_delete"} \cup PassBody
Unlocked == {"idle", "lock", "c_init", "s_late"}

(***************************************************************************)
(* Building blocks.                                                        *)
(***************************************************************************)
At(p, l) == pc[p] = l
Goto(p, l) == pc' = [pc EXCEPT ![p] = l] /\ UNCHANGED <<lock, loc>>
Leave(p) ==      \* back to the shell; the lock context manager has exited
    /\ pc' = [pc EXCEPT ![p] = "idle"]
    /\ loc' = [loc EXCEPT ![p] = NoLoc]
    /\ lock' = IF lock = p THEN NoProc ELSE lock
Start(p, c, opt) ==   \* a command that passed its checks outside the lock
    /\ c \in May[p]
    /\ At(p, "idle")
    /\ pc' = [pc EXCEPT ![p] = "lock"]
    /\ loc' = [loc EXCEPT ![p] = [NoLoc EXCEPT !.cmd = c, !.opt = opt]]
    /\ UNCHANGED <<row, disk, lock, ghost>>

Exists(d) == d # NoDir
NoRow == [status |-> "none", entered |-> FALSE, snap |-> "none", lastFail |-> row.lastFail]

\* Deviation: the lock is granted whoever holds it.
TryLockBlindly(p) ==
    /\ At(p, "lock")
    /\ lock' = p
    /\ pc' = [pc EXCEPT ![p] = Entry[loc[p].cmd]]
    /\ UNCHANGED <<row, disk, loc, ghost>>

\* pg_try_advisory_lock: taken at once or given up (FactorLocked).
TryLock(p) ==
    /\ At(p, "lock")
    /\ IF lock = NoProc
       THEN /\ lock' = p
            /\ pc' = [pc EXCEPT ![p] = Entry[loc[p].cmd]]
            /\ loc' = loc
       ELSE Leave(p)
    /\ UNCHANGED <<row, disk, ghost>>

Init ==
    /\ row = [status |-> "none", entered |-> FALSE, snap |-> "none", lastFail |-> "none"]
    /\ disk = [stg |-> NoDir, lib |-> NoDir, dump |-> NoCode, pnl |-> NoCode, pool |-> NoCode]
    /\ lock = NoProc
    /\ pc = [p \in Proc |-> "idle"]
    /\ loc = [p \in Proc |-> NoLoc]
    /\ gen = 0 /\ screened = {} /\ crashes = 0 /\ faults = 0

\* What a died command leaves behind: its lock is free, the snapshot it may
\* have written carries the time of a check that will never be recorded.
Abandon(p) ==
    /\ Leave(p)
    /\ row' = [row EXCEPT !.snap = IF @ = "ahead" /\ lock = p THEN "stale" ELSE @]

(***************************************************************************)
(* ops submit [--overwrite].                                               *)
(***************************************************************************)
SubmitStart(p) ==
    \E overwrite \in BOOLEAN :
        /\ "submit" \in May[p]
        /\ At(p, "idle")
        /\ gen < MaxGen
        /\ row.status = "none" \/ overwrite          \* coarse filter, no lock
        /\ gen' = gen + 1
        /\ pc' = [pc EXCEPT ![p] = "lock"]
        /\ loc' = [loc EXCEPT ![p] =
               [NoLoc EXCEPT !.cmd = "submit", !.opt = overwrite, !.seen = gen + 1]]
        /\ UNCHANGED <<row, disk, lock, screened, crashes, faults>>

\* _copy_one_to_staging: rmtree what is there, then copytree.
SubmitWipe(p) ==
    /\ At(p, "s_wipe") /\ Goto(p, "s_copy")
    /\ disk' = [disk EXCEPT !.stg = NoDir]
    /\ UNCHANGED <<row, ghost>>

\* Deviation: meta.json appears with the first files.
SubmitCopyMetaFirst(p) ==
    \/ /\ At(p, "s_copy") /\ Goto(p, "s_copied")
       /\ disk' = [disk EXCEPT !.stg = [code |-> Submission(loc[p].seen),
                                        whole |-> FALSE, meta |-> TRUE]]
       /\ UNCHANGED <<row, ghost>>
    \/ /\ At(p, "s_copied") /\ Exists(disk.stg) /\ Goto(p, "s_parse")
       /\ disk' = [disk EXCEPT !.stg.whole = TRUE]
       /\ UNCHANGED <<row, ghost>>

SubmitCopy(p) ==
    \/ /\ At(p, "s_copy") /\ Goto(p, "s_copied")
       /\ disk' = [disk EXCEPT !.stg = [code |-> Submission(loc[p].seen),
                                        whole |-> FALSE, meta |-> FALSE]]
       /\ UNCHANGED <<row, ghost>>
    \/ /\ At(p, "s_copied") /\ Exists(disk.stg) /\ Goto(p, "s_parse")
       /\ disk' = [disk EXCEPT !.stg = [code |-> Submission(loc[p].seen),
                                        whole |-> TRUE, meta |-> FALSE]]
       /\ UNCHANGED <<row, ghost>>

\* submit_one up to the authoritative existence check.
SubmitParse(p) ==
    /\ At(p, "s_parse")
    /\ \/ Goto(p, "s_undo")                                  \* rejected by parse
       \/ /\ Exists(disk.stg)
          /\ Goto(p, IF row.status # "none" /\ ~loc[p].opt THEN "s_undo" ELSE "s_meta")
    /\ UNCHANGED <<row, disk, ghost>>

SubmitUndo(p) ==       \* result # "pass": roll staging back inside the lock
    /\ At(p, "s_undo") /\ Leave(p)
    /\ disk' = [disk EXCEPT !.stg = NoDir]
    /\ UNCHANGED <<row, ghost>>

SubmitMeta(p) ==
    /\ At(p, "s_meta") /\ Exists(disk.stg) /\ Goto(p, "s_commit")
    /\ disk' = [disk EXCEPT !.stg.meta = TRUE]
    /\ UNCHANGED <<row, ghost>>

\* Deviation: an overwrite starts a fresh row.
SubmitCommitAfresh(p) ==
    /\ At(p, "s_commit")
    /\ row' = [NoRow EXCEPT !.status = "submitted"]
    /\ IF row.status = "none" THEN Leave(p) ELSE Goto(p, "s_discard")
    /\ UNCHANGED <<disk, ghost>>

\* repo.register for a new name; transition(SUBMITTED, op=overwrite) otherwise,
\* which keeps entered_at and expects no particular status.
SubmitCommit(p) ==
    /\ At(p, "s_commit")
    /\ IF row.status = "none"
       THEN Leave(p) /\ row' = [NoRow EXCEPT !.status = "submitted"]
       ELSE Goto(p, "s_discard") /\ row' = [row EXCEPT !.status = "submitted"]
    /\ UNCHANGED <<disk, ghost>>

SubmitDiscard(p) ==
    /\ At(p, "s_discard") /\ Goto(p, "s_purge")
    /\ row' = [row EXCEPT !.snap = "none"]
    /\ UNCHANGED <<disk, ghost>>

\* Deviation: an overwrite keeps the pnl of the code it replaces.
SubmitPurgeKeepsPnl(p) ==
    /\ At(p, "s_purge") /\ Leave(p)
    /\ disk' = [disk EXCEPT !.pool = NoCode]
    /\ UNCHANGED <<row, ghost>>

SubmitPurge(p) ==
    /\ At(p, "s_purge") /\ Leave(p)
    /\ disk' = [disk EXCEPT !.pnl = NoCode, !.pool = NoCode]
    /\ UNCHANGED <<row, ghost>>

\* An exception in submit_one unwinds the lock first; run_submit's handler
\* removes the staged copy afterwards.  copytree's own exception leaves the
\* half copy behind: `staged` was not assigned yet.
SubmitFault(p) ==
    /\ pc[p] \in {"s_copied", "s_parse", "s_meta", "s_commit", "s_purge"}
    /\ IF pc[p] \in {"s_copied", "s_meta"} /\ ~Exists(disk.stg)
       THEN faults' = faults                             \* the directory is gone
       ELSE faults < MaxFaults /\ faults' = faults + 1
    /\ pc' = [pc EXCEPT ![p] = IF @ = "s_copied" THEN "idle" ELSE "s_late"]
    /\ loc' = [loc EXCEPT ![p] = IF pc[p] = "s_copied" THEN NoLoc ELSE @]
    /\ lock' = NoProc
    /\ UNCHANGED <<row, disk, gen, screened, crashes>>

SubmitLateUndo(p) ==
    /\ At(p, "s_late") /\ Leave(p)
    /\ disk' = [disk EXCEPT !.stg = NoDir]
    /\ UNCHANGED <<row, ghost>>

(***************************************************************************)
(* ops check.  The scan and prepare_for_initial run before any lock is     *)
(* taken; a queued worker may reach its lock much later.                   *)
(***************************************************************************)
CheckScan(p) ==
    /\ "check" \in May[p]
    /\ At(p, "idle")
    /\ Exists(disk.stg) /\ disk.stg.meta
    /\ pc' = [pc EXCEPT ![p] = "c_init"]
    /\ loc' = [loc EXCEPT ![p] = [NoLoc EXCEPT !.cmd = "check", !.seen = disk.stg.code.xml]]
    /\ UNCHANGED <<row, disk, lock, ghost>>

\* save_xml of the XML in memory over whatever the directory holds by now.
WriteXml(p) == disk' = [disk EXCEPT !.stg.code.xml = loc[p].seen]

CheckInit(p) ==
    /\ At(p, "c_init")
    /\ IF Exists(disk.stg) THEN Goto(p, "lock") /\ WriteXml(p)
                           ELSE Leave(p) /\ disk' = disk
    /\ UNCHANGED <<row, ghost>>

\* Deviation: the check relies on the record that was there at the scan.
CheckEnsureTrusting(p) ==
    /\ At(p, "c_ensure") /\ Goto(p, "c_mark")
    /\ UNCHANGED <<row, disk, ghost>>

CheckEnsure(p) ==      \* _ensure_record
    /\ At(p, "c_ensure") /\ Goto(p, "c_mark")
    /\ row' = IF row.status = "none" THEN [NoRow EXCEPT !.status = "submitted"] ELSE row
    /\ UNCHANGED <<disk, ghost>>

CheckMark(p) ==        \* transition(CHECKING), whatever the status is
    /\ At(p, "c_mark") /\ Goto(p, "c_prep")
    /\ row' = [row EXCEPT !.status = "checking"]
    /\ UNCHANGED <<disk, ghost>>

Branch(p, l, why) ==
    /\ pc' = [pc EXCEPT ![p] = l]
    /\ loc' = [loc EXCEPT ![p] = [@ EXCEPT !.why = why, !.ran = disk.stg.code]]
    /\ lock' = lock

CheckPrepare(p) ==
    /\ At(p, "c_prep")
    /\ IF Exists(disk.stg) THEN Goto(p, "c_run") /\ WriteXml(p)
                           ELSE Branch(p, "v_event", "unexpected") /\ disk' = disk
    /\ UNCHANGED <<row, ghost>>

AfterRun(outcome) ==
    CASE outcome = "pass" -> "p_event"
      [] outcome \in Keep -> "snap_del"
      [] outcome = "early" -> "j_rmsrc"
      [] OTHER -> "v_event"

\* The six stages.  A directory that vanished or is incomplete cannot reach
\* the stages after long_backtest.
CheckRun(p) ==
    /\ At(p, "c_run")
    /\ \E outcome \in Outcome :
        /\ disk.stg.whole \/ outcome \in {"skip", "retry", "early", "unexpected"}
        /\ Branch(p, AfterRun(outcome), outcome)
        /\ screened' = IF outcome \in {"pass", "correlation"}
                       THEN screened \cup {disk.stg.code} ELSE screened
    /\ UNCHANGED <<row, disk, gen, crashes, faults>>

\* append_check: the event becomes the latest check event of the name.
Appended(snap) == CASE snap = "ahead" -> "current"
                    [] snap = "current" -> "stale"
                    [] OTHER -> snap

PassEvent(p) ==
    /\ At(p, "p_event") /\ Goto(p, "p_active")
    /\ row' = [row EXCEPT !.snap = Appended(@)]
    /\ UNCHANGED <<disk, ghost>>

PassActive(p) ==
    /\ At(p, "p_active") /\ Goto(p, "snap_del")
    /\ row' = [row EXCEPT !.status = "active", !.entered = TRUE]
    /\ UNCHANGED <<disk, ghost>>

\* attach_snapshot: delete and insert are two transactions; _persist_derived
\* swallows an exception of either.
AfterSnap(p) == IF loc[p].why = "pass" THEN "p_rmsrc" ELSE "j_rmsrc"

SnapDelete(p) ==
    /\ At(p, "snap_del") /\ Goto(p, "snap_ins")
    /\ row' = [row EXCEPT !.snap = "none"]
    /\ UNCHANGED <<disk, ghost>>

SnapInsert(p) ==
    /\ At(p, "snap_ins") /\ Goto(p, AfterSnap(p))
    /\ row' = [row EXCEPT !.snap = IF loc[p].why = "pass" THEN "current" ELSE "ahead"]
    /\ UNCHANGED <<disk, ghost>>

Swallowed(p) ==
    /\ \/ pc[p] \in {"snap_del", "snap_ins"} /\ Goto(p, AfterSnap(p))
       \/ At(p, "s_discard") /\ Goto(p, "s_purge")
       \/ At(p, "r_discard") /\ Leave(p)
    /\ faults < MaxFaults /\ faults' = faults + 1
    /\ UNCHANGED <<row, disk, gen, screened, crashes>>

\* repo.archive
ArchiveRmSrc(p) ==
    /\ At(p, "p_rmsrc") /\ Goto(p, "p_mvsrc")
    /\ disk' = [disk EXCEPT !.lib = NoDir]
    /\ UNCHANGED <<row, ghost>>

\* Deviation: archive copies the source and leaves staging in place.
ArchiveCpSrc(p) ==
    /\ At(p, "p_mvsrc")
    /\ IF Exists(disk.stg)
       THEN Goto(p, "p_dump") /\ disk' = [disk EXCEPT !.lib = disk.stg]
       ELSE Goto(p, "v_event") /\ disk' = disk
    /\ UNCHANGED <<row, ghost>>

ArchiveMvSrc(p) ==
    /\ At(p, "p_mvsrc")
    /\ IF Exists(disk.stg)
       THEN Goto(p, "p_dump") /\ disk' = [disk EXCEPT !.lib = disk.stg, !.stg = NoDir]
       ELSE Goto(p, "v_event") /\ disk' = disk
    /\ UNCHANGED <<row, ghost>>

ArchiveProduct(p) ==
    /\ \/ At(p, "p_dump") /\ Goto(p, "p_pnl") /\ disk' = [disk EXCEPT !.dump = loc[p].ran]
       \/ At(p, "p_pnl") /\ Goto(p, "p_pool") /\ disk' = [disk EXCEPT !.pnl = loc[p].ran]
       \/ At(p, "p_pool") /\ Leave(p) /\ disk' = [disk EXCEPT !.pool = disk.pnl]
    /\ UNCHANGED <<row, ghost>>

\* Any exception of the try body: append_check(passed=None), back to SUBMITTED.
CheckFault(p) ==
    /\ pc[p] \in PassBody
    /\ faults < MaxFaults /\ faults' = faults + 1
    /\ pc' = [pc EXCEPT ![p] = "v_event"]
    /\ loc' = [loc EXCEPT ![p].why = "unexpected"]
    /\ UNCHANGED <<row, disk, lock, gen, screened, crashes>>

RevertEvent(p) ==
    /\ At(p, "v_event") /\ Goto(p, "v_state")
    /\ row' = [row EXCEPT !.snap = Appended(@),
                          !.lastFail = IF loc[p].why = "retry" THEN "other" ELSE @]
    /\ UNCHANGED <<disk, ghost>>

\* Deviation: a skipped or retryable check leaves the status alone.
RevertStateForgotten(p) ==
    /\ At(p, "v_state") /\ Leave(p)
    /\ UNCHANGED <<row, disk, ghost>>

RevertState(p) ==
    /\ At(p, "v_state") /\ Leave(p)
    /\ row' = [row EXCEPT !.status = "submitted"]
    /\ UNCHANGED <<disk, ghost>>

\* Deviations: on_reject clears staging before it copies; it does not copy.
RejectRmBoth(p) ==
    /\ At(p, "j_rmsrc") /\ Goto(p, "j_cpsrc")
    /\ disk' = [disk EXCEPT !.lib = NoDir, !.stg = NoDir]
    /\ UNCHANGED <<row, ghost>>

RejectNoCopy(p) ==
    /\ At(p, "j_cpsrc")
    /\ Goto(p, IF loc[p].why \in Keep THEN "j_keep_pnl" ELSE "j_clear")
    /\ UNCHANGED <<row, disk, ghost>>

\* on_reject.  It runs inside an except clause: what it raises leaves the
\* command without touching the status.
RejectRmSrc(p) ==
    /\ At(p, "j_rmsrc") /\ Goto(p, "j_cpsrc")
    /\ disk' = [disk EXCEPT !.lib = NoDir]
    /\ UNCHANGED <<row, ghost>>

RejectCpSrc(p) ==
    /\ At(p, "j_cpsrc")
    /\ \/ /\ Exists(disk.stg)
          /\ Goto(p, IF loc[p].why \in Keep THEN "j_keep_pnl" ELSE "j_clear")
          /\ disk' = [disk EXCEPT !.lib = disk.stg]
          /\ row' = row
       \/ ~Exists(disk.stg) /\ Abandon(p) /\ disk' = disk
    /\ UNCHANGED ghost

RejectProducts(p) ==
    /\ \/ /\ At(p, "j_keep_pnl") /\ Goto(p, "j_keep_dump")
          /\ disk' = [disk EXCEPT !.pnl = loc[p].ran]
       \/ /\ At(p, "j_keep_dump") /\ Goto(p, "j_unstage")
          /\ disk' = [disk EXCEPT !.dump = IF @ = NoCode THEN loc[p].ran ELSE @]
       \/ /\ At(p, "j_clear") /\ Goto(p, "j_unstage")
          /\ disk' = [disk EXCEPT !.dump = NoCode]
    /\ UNCHANGED <<row, ghost>>

RejectUnstage(p) ==
    /\ At(p, "j_unstage") /\ Goto(p, "j_event")
    /\ disk' = [disk EXCEPT !.stg = NoDir]
    /\ UNCHANGED <<row, ghost>>

RejectEvent(p) ==
    /\ At(p, "j_event") /\ Goto(p, "j_state")
    /\ row' = [row EXCEPT !.snap = Appended(@),
                          !.lastFail = IF loc[p].why = "correlation" THEN "correlation"
                                                                     ELSE "other"]
    /\ UNCHANGED <<disk, ghost>>

RejectState(p) ==
    /\ At(p, "j_state") /\ Leave(p)
    /\ row' = [row EXCEPT !.status = "rejected"]
    /\ UNCHANGED <<disk, ghost>>

(***************************************************************************)
(* ops restage [--purge].                                                  *)
(***************************************************************************)
Restageable == row.status \in {"active", "rejected"} /\ Exists(disk.lib)

RestageStart(p) == Restageable /\ \E purge \in BOOLEAN : Start(p, "restage", purge)

RestageRecall(p) ==    \* re-check under the lock, then repo.recall
    /\ At(p, "r_recall")
    /\ IF Restageable /\ ~Exists(disk.stg)
       THEN /\ pc' = [pc EXCEPT ![p] = "r_serving"]
            /\ loc' = [loc EXCEPT ![p].why = row.status]
            /\ lock' = lock
            /\ disk' = [disk EXCEPT !.stg = disk.lib, !.lib = NoDir]
       ELSE Leave(p) /\ disk' = disk
    /\ UNCHANGED <<row, ghost>>

\* Deviations: the pool copy survives a restage; so does the snapshot.
RestagePurgeKeepsPool(p) ==
    /\ \/ /\ At(p, "r_serving") /\ Goto(p, "r_check")
          /\ disk' = [disk EXCEPT !.dump =
                 IF loc[p].why = "rejected" \/ loc[p].opt THEN NoCode ELSE @]
       \/ /\ At(p, "r_check") /\ Goto(p, "r_state")
          /\ disk' = [disk EXCEPT !.pnl = NoCode]
    /\ UNCHANGED <<row, ghost>>

RestageKeepsSnapshot(p) == At(p, "r_discard") /\ Leave(p) /\ UNCHANGED <<row, disk, ghost>>

RestagePurge(p) ==
    /\ \/ /\ At(p, "r_serving") /\ Goto(p, "r_check")
          /\ disk' = [disk EXCEPT !.dump =
                 IF loc[p].why = "rejected" \/ loc[p].opt THEN NoCode ELSE @]
       \/ /\ At(p, "r_check") /\ Goto(p, "r_state")
          /\ disk' = [disk EXCEPT !.pnl = NoCode, !.pool = NoCode]
    /\ UNCHANGED <<row, ghost>>

RestageState(p) ==     \* CAS: StateConflict when the status is another one
    /\ At(p, "r_state")
    /\ IF row.status = loc[p].why
       THEN Goto(p, "r_discard") /\ row' = [row EXCEPT !.status = "submitted"]
       ELSE Leave(p) /\ row' = row
    /\ UNCHANGED <<disk, ghost>>

RestageDiscard(p) ==
    /\ At(p, "r_discard") /\ Leave(p)
    /\ row' = [row EXCEPT !.snap = "none"]
    /\ UNCHANGED <<disk, ghost>>

(***************************************************************************)
(* ops approve, cancel [--force], clear, rm.  Each re-reads its            *)
(* precondition inside the lock.                                           *)
(***************************************************************************)
\* Deviation: any rejection may be waived.
AnyRejected == row.status = "rejected"

CorrelationRejected == row.status = "rejected" /\ row.lastFail = "correlation"

ApproveStart(p) == CorrelationRejected /\ Start(p, "approve", FALSE)

ApproveState(p) ==
    /\ At(p, "a_state") /\ Leave(p)
    /\ row' = IF CorrelationRejected
              THEN [row EXCEPT !.status = "active", !.entered = TRUE] ELSE row
    /\ UNCHANGED <<disk, ghost>>

Cancellable(force) ==
    /\ row.status = "submitted" \/ (force /\ row.status = "checking")
    /\ ~row.entered
    /\ ~Exists(disk.lib)

CancelStart(p) == \E force \in BOOLEAN : Cancellable(force) /\ Start(p, "cancel", force)

\* Deviation: cancel trusts what it saw before it had the lock.
CancelUnstageTrusting(p) ==
    /\ At(p, "x_unstage") /\ Goto(p, "x_delete")
    /\ disk' = [disk EXCEPT !.stg = NoDir]
    /\ UNCHANGED <<row, ghost>>

CancelUnstage(p) ==
    /\ At(p, "x_unstage")
    /\ IF Cancellable(loc[p].opt)
       THEN Goto(p, "x_delete") /\ disk' = [disk EXCEPT !.stg = NoDir]
       ELSE Leave(p) /\ disk' = disk
    /\ UNCHANGED <<row, ghost>>

CancelDelete(p) ==
    /\ At(p, "x_delete") /\ Leave(p)
    /\ row' = NoRow
    /\ UNCHANGED <<disk, ghost>>

Orphan == row.status = "none" /\ Exists(disk.stg)

ClearStart(p) == Orphan /\ Start(p, "clear", FALSE)

ClearUnstage(p) ==
    /\ At(p, "l_unstage") /\ Leave(p)
    /\ disk' = IF Orphan THEN [disk EXCEPT !.stg = NoDir] ELSE disk
    /\ UNCHANGED <<row, ghost>>

RmStart(p) == row.status # "none" /\ Start(p, "rm", FALSE)

RmDisk(p) ==
    /\ \/ At(p, "m_dump") /\ Goto(p, "m_src") /\ disk' = [disk EXCEPT !.dump = NoCode]
       \/ At(p, "m_src") /\ Goto(p, "m_stg") /\ disk' = [disk EXCEPT !.lib = NoDir]
       \/ At(p, "m_stg") /\ Goto(p, "m_check") /\ disk' = [disk EXCEPT !.stg = NoDir]
       \/ At(p, "m_check") /\ Goto(p, "m_delete")
          /\ disk' = [disk EXCEPT !.pnl = NoCode, !.pool = NoCode]
    /\ UNCHANGED <<row, ghost>>

RmDelete(p) ==
    /\ At(p, "m_delete") /\ Leave(p)
    /\ row' = NoRow
    /\ UNCHANGED <<disk, ghost>>

(***************************************************************************)
(* rmtree of a complete staging directory is not atomic: files disappear   *)
(* one by one, meta.json at any moment among them.                         *)
(***************************************************************************)
Removing(p) ==
    \/ pc[p] \in {"s_wipe", "s_undo", "s_late", "j_unstage", "m_stg"}
    \/ At(p, "x_unstage") /\ Cancellable(loc[p].opt)
    \/ At(p, "l_unstage") /\ Orphan

RmtreePart(p) ==
    /\ Removing(p) /\ disk.stg.whole
    /\ \E meta \in {FALSE, disk.stg.meta} :
           disk' = [disk EXCEPT !.stg.whole = FALSE, !.stg.meta = meta]
    /\ UNCHANGED <<row, lock, pc, loc, ghost>>

(***************************************************************************)
(* A process dies, or an exception nobody handles ends its command.        *)
(***************************************************************************)
Crash(p) ==
    /\ ~At(p, "idle")
    /\ crashes < MaxCrashes /\ crashes' = crashes + 1
    /\ Abandon(p)
    /\ UNCHANGED <<disk, gen, screened, faults>>

SubmitStep(p) == SubmitWipe(p) \/ SubmitCopy(p) \/ SubmitParse(p) \/ SubmitUndo(p)
              \/ SubmitMeta(p) \/ SubmitCommit(p) \/ SubmitDiscard(p) \/ SubmitPurge(p)
              \/ SubmitFault(p) \/ SubmitLateUndo(p)
CheckStep(p) == CheckInit(p) \/ CheckEnsure(p) \/ CheckMark(p) \/ CheckPrepare(p)
             \/ CheckRun(p) \/ CheckFault(p) \/ SnapDelete(p) \/ SnapInsert(p) \/ Swallowed(p)
PassStep(p) == PassEvent(p) \/ PassActive(p) \/ ArchiveRmSrc(p) \/ ArchiveMvSrc(p)
            \/ ArchiveProduct(p)
FailStep(p) == RevertEvent(p) \/ RevertState(p) \/ RejectRmSrc(p) \/ RejectCpSrc(p)
            \/ RejectProducts(p) \/ RejectUnstage(p) \/ RejectEvent(p) \/ RejectState(p)
RestageStep(p) == RestageRecall(p) \/ RestagePurge(p) \/ RestageState(p) \/ RestageDiscard(p)
OperatorStep(p) == ApproveState(p) \/ CancelUnstage(p) \/ CancelDelete(p)
                \/ ClearUnstage(p) \/ RmDisk(p) \/ RmDelete(p)

Begin(p) == SubmitStart(p) \/ CheckScan(p) \/ RestageStart(p) \/ ApproveStart(p)
         \/ CancelStart(p) \/ ClearStart(p) \/ RmStart(p)
Continue(p) == TryLock(p) \/ RmtreePart(p) \/ SubmitStep(p) \/ CheckStep(p) \/ PassStep(p) \/ FailStep(p)
            \/ RestageStep(p) \/ OperatorStep(p)

Next == \E p \in Proc : Begin(p) \/ Continue(p) \/ Crash(p)

Spec == Init /\ [][Next]_vars
\* A command that was started runs on; nobody is obliged to start one.
FairSpec == Spec /\ \A p \in Proc : WF_vars(Continue(p))

TypeOK ==
    /\ row \in Row
    /\ disk \in Disk
    /\ lock \in Proc \cup {NoProc}
    /\ pc \in [Proc -> Locked \cup Unlocked]
    /\ loc \in [Proc -> Loc]
    /\ gen \in Gens
    /\ screened \subseteq Code
    /\ crashes \in 0..MaxCrashes
    /\ faults \in 0..MaxFaults


(***************************************************************************)
(* Properties.                                                             *)
(***************************************************************************)
Free == lock = NoProc      \* no command is in the middle of its work

\* check.py:296 / lock.py:111-134: while a process is inside factor_lock nobody
\* else is, and whoever left (by return, exception or death) holds nothing.
LockHeld == \A p \in Proc : pc[p] \in Locked <=> lock = p

\* shared-staging-queue.md:24-28: staging never shows meta.json beside an
\* incomplete copy, except while some process is removing the directory.
MetaMarksWhole == disk.stg.meta /\ ~disk.stg.whole => \E p \in Proc : Removing(p)

\* The correlation pool is what new factors are compared with
\* (repository.py:583-586): a copy is there for ACTIVE factors only.
PoolHoldsOnlyActive == Free /\ disk.pool # NoCode => row.status = "active"

\* A pnl in alpha_pnl belongs to the archived code, never to the code it
\* replaced (submit.py:152-156, restage.py:119-122).
PnlMatchesSource ==
    Free /\ row.status \in {"active", "rejected"} /\ disk.pnl # NoCode
        => disk.pnl = disk.lib.code

\* An ACTIVE factor's archived code is one that a check carried through every
\* stage, or that failed correlation alone and was approved (approve.py:25-28).
ActiveWasScreened ==
    Free /\ row.status = "active" => Exists(disk.lib) /\ disk.lib.code \in screened

\* A snapshot is the measurement of the latest check event (factor.py:12-15).
SnapshotIsLatestCheck == Free => row.snap \in {"none", "current"}

\* A REJECTED factor's source is in alpha_src, for analysis and approve
\* (check.py:188-196).
RejectedIsArchived == Free /\ row.status = "rejected" => Exists(disk.lib)

\* CHECKING is "being consumed": it is seen only while a command holds the lock.
CheckingOnlyUnderLock == Free => row.status # "checking"

\* A REJECTED factor has a failing check event to show (list, approve and
\* restage read last_fail).
RejectionExplained == Free /\ row.status = "rejected" => row.lastFail # "none"

\* cancel removes a factor that never entered the library and has no archived
\* source, so it never deletes the last copy of a library factor (cancel.py:34-46).
CancelNeverDropsSource ==
    \A p \in Proc : At(p, "x_delete") =>
        ~row.entered /\ ~Exists(disk.lib) /\ row.status \in {"submitted", "checking"}

\* The expectation restage passes to transition still holds when it gets there:
\* StateConflict after the source has already moved cannot happen (restage.py:125).
RestageNeverConflicts == \A p \in Proc : At(p, "r_state") => row.status = loc[p].why

\* The record a command found or made under the lock is there until the command is
\* done with it, though a cancel or an rm may have deleted it since the scan that
\* found the factor (transition and append_check raise FactorNotFound,
\* pg_store.py:188, 229, and the error arm that would report it does so again).
NeedsRecord == {"c_mark", "c_prep", "c_run", "snap_del", "snap_ins", "s_discard", "s_purge",
                "j_rmsrc", "j_cpsrc", "j_keep_pnl", "j_keep_dump", "j_clear", "j_unstage",
                "j_event", "j_state", "v_event", "v_state", "r_serving", "r_check",
                "r_state", "r_discard", "x_delete"} \cup PassBody
RecordHeld == \A p \in Proc : pc[p] \in NeedsRecord => row.status # "none"

\* entered_at is never lost but with the record itself, by rm (state.py:65-100).
EnteredOnce ==
    [][row.entered => row'.entered \/ \E p \in Proc : At(p, "m_delete")]_vars

\* The last copy of a known factor's source disappears only where a submission
\* is replaced or rolled back, or in cancel and rm: archive, reject and restage
\* always leave one copy, even when killed half way.
SourceLostOnlyBy ==
    [][row.status # "none" /\ (Exists(disk.lib) \/ Exists(disk.stg))
       /\ ~Exists(disk'.lib) /\ ~Exists(disk'.stg)
       => \E p \in Proc : pc[p] \in {"s_wipe", "s_undo", "s_late", "m_src", "m_stg",
                                      "x_unstage"}]_vars

\* ACTIVE is left by restage, submit --overwrite and rm, each an operator's
\* decision (architecture.md:70-81), never because a check ran again.
OnlyOperatorsLeaveActive ==
    [][row.status = "active" /\ row'.status # "active"
       => \E p \in Proc : pc[p] \in {"r_state", "s_commit", "m_delete"}]_vars

\* A check that marked the factor CHECKING always moves it on.
CheckingIsTransient == row.status = "checking" ~> row.status # "checking"

\* FactorOps implements FactorLifecycle: the row is what the readers see.
Abstract == INSTANCE FactorLifecycle WITH status <- row.status, entered <- row.entered

\* Every step of every command is a step of the life cycle or leaves the status
\* and entered_at alone (architecture.md:70-81 for the transitions).
Implements == Abstract!Lifecycle

\* alpha_src holds the .py and the .xml of one submission.
ArchivedFromOneSubmission == disk.lib.code.py = disk.lib.code.xml

\* approve finds the products complete: dump and pnl are those of the archived code.
ApprovedAreComplete ==
    [][row.status = "rejected" /\ row'.status = "active"
       => disk.dump = disk.lib.code /\ disk.pnl = disk.lib.code]_vars

=============================================================================
