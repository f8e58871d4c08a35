------------------------ MODULE FactorOpsSectionProofs ------------------------
(***************************************************************************)
(* More about FactorOps, for any processes and any assignment of commands: *)
(* what holds of the factor's files and row at each step of the section    *)
(* under factor_lock.                                                      *)
(*                                                                         *)
(* Only one process is inside (MutualExclusion), so the state of a section *)
(* is that of its holder: `section` is the step the holder is at, `work`   *)
(* its local variables.  An invariant then says what row and disk are at   *)
(* each step, and the steps taken without the lock hardly matter to it.    *)
(***************************************************************************)
EXTENDS FactorOpsProofs

section == IF lock = NoProc THEN "free" ELSE pc[lock]
work == IF lock = NoProc THEN NoLoc ELSE loc[lock]

-----------------------------------------------------------------------------
\* How the steps of a process move the section.
LEMMA Inside ==
    ASSUME IInv, NEW p \in Proc, pc[p] \in Locked
    PROVE  lock = p /\ lock # NoProc /\ section = pc[p] /\ work = loc[p]
BY ProcAssumption DEF IInv, Core, Control, LockHeld, section, work

LEMMA GoesOn ==
    ASSUME IInv, NEW p \in Proc, pc[p] \in Locked, NEW l, Goto(p, l)
    PROVE  section' = l /\ work' = work
BY Inside DEF Goto, IInv, Core, Control, section, work

LEMMA Exits ==
    ASSUME IInv, NEW p \in Proc, pc[p] \in Locked, Leave(p)
    PROVE  section' = "free" /\ work' = NoLoc
BY Inside DEF Leave, section, work

\* A step outside the lock: the section and its holder stay as they are.
LEMMA Elsewhere ==
    ASSUME IInv, NEW p \in Proc, pc[p] \notin Locked, lock' = lock,
           \A q \in Proc \ {p} : pc'[q] = pc[q] /\ loc'[q] = loc[q]
    PROVE  section' = section /\ work' = work
<1>1. lock # p
  BY DEF IInv, Core, Control, LockHeld
<1> QED
  BY <1>1 DEF IInv, Core, Control, section, work

-----------------------------------------------------------------------------
\* The steps that also rewrite the local variables of the holder.
LEMMA Branches ==
    ASSUME IInv, NEW p \in Proc, pc[p] \in Locked, NEW l, NEW w, Branch(p, l, w)
    PROVE  section' = l /\ work'.why = w /\ work'.ran = disk.stg.code
BY Inside DEF Branch, IInv, Core, Control, Loc, section, work

LEMMA Faults ==
    ASSUME IInv, NEW p \in Proc, CheckFault(p)
    PROVE  section \in PassBody /\ section' = "v_event"
BY Inside DEF CheckFault, Locked, IInv, Core, Control, section

LEMMA Recalls ==
    ASSUME IInv, NEW p \in Proc, RestageRecall(p)
    PROVE  /\ section = "r_recall"
           /\ section' \in {"free", "r_serving"}
           /\ section' = "free" => disk' = disk
           /\ section' = "r_serving" =>
                 /\ Restageable /\ ~Exists(disk.stg)
                 /\ disk' = [disk EXCEPT !.stg = disk.lib, !.lib = NoDir]
                 /\ work'.why = row.status
<1>1. pc[p] \in Locked /\ section = "r_recall"
  BY Inside DEF RestageRecall, At, Locked
<1>2. CASE Restageable /\ ~Exists(disk.stg)
  BY <1>1, <1>2, Inside DEF RestageRecall, IInv, Core, Control, Loc, section, work
<1>3. CASE ~(Restageable /\ ~Exists(disk.stg))
  BY <1>1, <1>3, Exits DEF RestageRecall
<1> QED
  BY <1>1, <1>2, <1>3

LEMMA SubmitFaults ==
    ASSUME IInv, NEW p \in Proc, SubmitFault(p)
    PROVE  section = pc[p] /\ section' = "free"
BY Inside DEF SubmitFault, Locked, section

\* Taking the lock, dying, and the steps without the lock.
LEMMA Enters ==
    ASSUME IInv, NEW p \in Proc, TryLock(p)
    PROVE  \/ /\ section = "free" /\ section' = Entry[loc[p].cmd] /\ work' = loc[p]
              /\ loc[p].cmd \in Command /\ pc[p] = "lock" /\ loc' = loc
           \/ section' = section /\ work' = work
<1>0. pc[p] = "lock" /\ pc[p] \notin Locked /\ loc[p].cmd \in Command
  BY DEF TryLock, At, Locked, PassBody, IInv, Core, Control, Loc
<1>1. CASE Leave(p)
  <2>1. lock' = lock
    BY <1>0, <1>1 DEF Leave, IInv, Core, Control, LockHeld
  <2> QED
    BY <1>0, <1>1, <2>1, Elsewhere DEF Leave, IInv, Core, Control
<1>2. CASE ~Leave(p)
  BY <1>0, <1>2, ProcAssumption DEF TryLock, IInv, Core, Control, section, work
<1> QED
  BY <1>1, <1>2

LEMMA Dies ==
    ASSUME IInv, NEW p \in Proc, Crash(p)
    PROVE  \/ section' = "free" /\ work' = NoLoc
           \/ section' = section /\ work' = work /\ row' = row
<1>1. CASE pc[p] \in Locked
  BY <1>1, Exits DEF Crash, Abandon
<1>2. CASE pc[p] \notin Locked
  <2>1. lock # p
    BY <1>2 DEF IInv, Core, Control, LockHeld
  <2>2. lock' = lock /\ row' = row
    BY <2>1 DEF Crash, Abandon, Leave, IInv, Core, Data, Row
  <2> QED
    BY <1>2, <2>2, Elsewhere DEF Crash, Abandon, Leave, IInv, Core, Control
<1> QED
  BY <1>1, <1>2

LEMMA Outside ==
    ASSUME IInv, NEW p \in Proc,
           Begin(p) \/ CheckInit(p) \/ SubmitLateUndo(p) \/ RmtreePart(p)
    PROVE  section' = section /\ work' = work /\ row' = row
<1>1. CASE RmtreePart(p)
  BY <1>1 DEF RmtreePart, section, work
<1>2. CASE ~RmtreePart(p)
  <2>1. pc[p] \in Unlocked /\ pc[p] \notin Locked /\ lock # p
    BY <1>2 DEF Begin, SubmitStart, CheckScan, RestageStart, ApproveStart, CancelStart,
        ClearStart, RmStart, Start, CheckInit, SubmitLateUndo, At, Locked, Unlocked,
        PassBody, IInv, Core, Control, LockHeld
  <2>2. lock' = lock /\ row' = row
    BY <1>2, <2>1 DEF Begin, SubmitStart, CheckScan, RestageStart, ApproveStart, CancelStart,
        ClearStart, RmStart, Start, CheckInit, SubmitLateUndo, Goto, Leave
  <2>3. \A q \in Proc \ {p} : pc'[q] = pc[q] /\ loc'[q] = loc[q]
    BY <1>2 DEF Begin, SubmitStart, CheckScan, RestageStart, ApproveStart, CancelStart,
        ClearStart, RmStart, Start, CheckInit, SubmitLateUndo, Goto, Leave, IInv, Core, Control
  <2> QED
    BY <2>1, <2>2, <2>3, Elsewhere
<1> QED
  BY <1>1, <1>2

-----------------------------------------------------------------------------
\* The steps of a section are taken by its holder.
LEMMA Holder ==
    ASSUME IInv, NEW p \in Proc,
           \/ SubmitStep(p) /\ ~SubmitLateUndo(p)
           \/ CheckStep(p) /\ ~CheckInit(p)
           \/ PassStep(p) \/ FailStep(p) \/ RestageStep(p) \/ OperatorStep(p)
    PROVE  /\ pc[p] \in Locked /\ section = pc[p] /\ work = loc[p] /\ lock = p
           /\ \A l : Goto(p, l) => section' = l /\ work' = work
           /\ Leave(p) => section' = "free" /\ work' = NoLoc
<1>1. CASE SubmitStep(p) /\ ~SubmitLateUndo(p)
  BY <1>1, Inside, GoesOn, Exits DEF SubmitStep, SubmitWipe, SubmitCopy, SubmitParse,
     SubmitUndo,
      SubmitMeta, SubmitCommit, SubmitDiscard, SubmitPurge, SubmitFault, At, Locked
<1>2. CASE CheckStep(p) /\ ~CheckInit(p)
  BY <1>2, Inside, GoesOn, Exits DEF CheckStep, CheckEnsure, CheckMark, CheckPrepare, CheckRun,
      SnapDelete, SnapInsert, Swallowed, CheckFault, At, Locked
<1>3. CASE PassStep(p)
  BY <1>3, Inside, GoesOn, Exits DEF PassStep, PassEvent, PassActive, ArchiveRmSrc,
     ArchiveMvSrc,
      ArchiveProduct, At, Locked, PassBody
<1>4. CASE FailStep(p)
  BY <1>4, Inside, GoesOn, Exits DEF FailStep, RevertEvent, RevertState, RejectRmSrc,
     RejectCpSrc,
      RejectProducts, RejectUnstage, RejectEvent, RejectState, At, Locked
<1>5. CASE RestageStep(p)
  BY <1>5, Inside, GoesOn, Exits DEF RestageStep, RestageRecall, RestagePurge, RestageState,
      RestageDiscard, At, Locked
<1>6. CASE OperatorStep(p)
  BY <1>6, Inside, GoesOn, Exits DEF OperatorStep, ApproveState, CancelUnstage, CancelDelete,
      ClearUnstage, RmDisk, RmDelete, At, Locked
<1> QED
  BY <1>1, <1>2, <1>3, <1>4, <1>5, <1>6

\* Which submission is at hand: its number is set before the lock is asked for.
Numbered ==
    \A p \in Proc :
        /\ pc[p] \in {"s_wipe", "s_copy", "s_copied"} \/ (pc[p] = "lock" /\ loc[p].cmd = "submit")
              => loc[p].seen # 0
        /\ pc[p] = "c_init" => loc[p].cmd = "check"

LEMMA Others ==
    ASSUME IInv, NEW p \in Proc, Begin(p) \/ Continue(p) \/ Crash(p)
    PROVE  \A q \in Proc \ {p} : pc'[q] = pc[q] /\ loc'[q] = loc[q]
<1> USE DEF IInv, Core, Control, Goto, Leave, Branch
<1>1. CASE Begin(p) \/ Crash(p) \/ TryLock(p) \/ RmtreePart(p)
  BY <1>1 DEF Begin, SubmitStart, CheckScan, RestageStart, ApproveStart, CancelStart,
      ClearStart, RmStart, Start, Crash, Abandon, TryLock, RmtreePart
<1>2. CASE SubmitStep(p)
  BY <1>2 DEF SubmitStep, SubmitWipe, SubmitCopy, SubmitParse, SubmitUndo, SubmitMeta,
      SubmitCommit, SubmitDiscard, SubmitPurge, SubmitFault, SubmitLateUndo
<1>3. CASE CheckStep(p)
  BY <1>3 DEF CheckStep, CheckInit, CheckEnsure, CheckMark, CheckPrepare, CheckRun,
      SnapDelete, SnapInsert, Swallowed, CheckFault
<1>4. CASE PassStep(p)
  BY <1>4 DEF PassStep, PassEvent, PassActive, ArchiveRmSrc, ArchiveMvSrc, ArchiveProduct
<1>5. CASE FailStep(p)
  BY <1>5 DEF FailStep, RevertEvent, RevertState, RejectRmSrc, RejectCpSrc, RejectProducts,
      RejectUnstage, RejectEvent, RejectState, Abandon
<1>6. CASE RestageStep(p)
  BY <1>6 DEF RestageStep, RestageRecall, RestagePurge, RestageState, RestageDiscard
<1>7. CASE OperatorStep(p)
  BY <1>7 DEF OperatorStep, ApproveState, CancelUnstage, CancelDelete, ClearUnstage, RmDisk,
      RmDelete
<1> QED
  BY <1>1, <1>2, <1>3, <1>4, <1>5, <1>6, <1>7 DEF Continue

LEMMA NumberedStep ==
    ASSUME IInv, Numbered, NEW p \in Proc, Begin(p) \/ Continue(p) \/ Crash(p)
    PROVE  Numbered' /\ (pc'[p] = "s_late" => pc[p] = "s_late" \/ SubmitFault(p))
<1> DEFINE Has(q) == pc[q] \in {"s_wipe", "s_copy", "s_copied"}
                     \/ (pc[q] = "lock" /\ loc[q].cmd = "submit")
<1>1. SUFFICES /\ Has(p)' => loc'[p].seen # 0
               /\ pc'[p] = "c_init" => loc'[p].cmd = "check"
               /\ pc'[p] = "s_late" => pc[p] = "s_late" \/ SubmitFault(p)
  BY Others DEF Numbered
<1>2. (Has(p) => loc[p].seen # 0) /\ (pc[p] = "c_init" => loc[p].cmd = "check")
  BY DEF Numbered
<1> USE <1>2 DEF At, Goto, Leave, IInv, Core, Control
<1>3. CASE Begin(p)
  <2>1. CASE SubmitStart(p)
    BY <2>1 DEF SubmitStart, Data, Gens, NoLoc
  <2>2. CASE CheckScan(p)
    BY <2>2 DEF CheckScan, NoLoc
  <2>3. CASE \E c \in Command \ {"submit"}, o \in BOOLEAN : Start(p, c, o)
    BY <2>3 DEF Start, NoLoc
  <2> QED
    BY <1>3, <2>1, <2>2, <2>3
    DEF Begin, RestageStart, ApproveStart, CancelStart, ClearStart, RmStart, Command
<1>4. CASE TryLock(p)
  BY <1>4 DEF TryLock, Entry, Loc, Command
<1>5. CASE RmtreePart(p) \/ Crash(p)
  BY <1>5 DEF RmtreePart, Crash, Abandon
<1>6. CASE SubmitStep(p)
  BY <1>6 DEF SubmitStep, SubmitWipe, SubmitCopy, SubmitParse, SubmitUndo, SubmitMeta,
      SubmitCommit, SubmitDiscard, SubmitPurge, SubmitFault, SubmitLateUndo
<1>7. CASE CheckStep(p)
  BY <1>7 DEF CheckStep, CheckInit, CheckEnsure, CheckMark, CheckPrepare, CheckRun, Branch,
      AfterRun, SnapDelete, SnapInsert, AfterSnap, Swallowed, CheckFault
<1>8. CASE PassStep(p)
  BY <1>8 DEF PassStep, PassEvent, PassActive, ArchiveRmSrc, ArchiveMvSrc, ArchiveProduct
<1>9. CASE FailStep(p)
  BY <1>9 DEF FailStep, RevertEvent, RevertState, RejectRmSrc, RejectCpSrc, RejectProducts,
      RejectUnstage, RejectEvent, RejectState, Abandon
<1>10. CASE RestageStep(p)
  BY <1>10 DEF RestageStep, RestageRecall, RestagePurge, RestageState, RestageDiscard
<1>11. CASE OperatorStep(p)
  BY <1>11 DEF OperatorStep, ApproveState, CancelUnstage, CancelDelete, ClearUnstage, RmDisk,
      RmDelete
<1> QED
  BY <1>3, <1>4, <1>5, <1>6, <1>7, <1>8, <1>9, <1>10, <1>11 DEF Continue

-----------------------------------------------------------------------------
\* What the steps without the lock do to the disk.
LEMMA XmlWritten ==
    ASSUME IInv, NEW p \in Proc, WriteXml(p)
    PROVE  /\ disk'.lib = disk.lib /\ disk'.dump = disk.dump
           /\ disk'.pnl = disk.pnl /\ disk'.pool = disk.pool
           /\ disk'.stg = [disk.stg EXCEPT !.code.xml = loc[p].seen]
           /\ disk'.stg.code.py = disk.stg.code.py
           /\ disk'.stg.whole = disk.stg.whole /\ disk'.stg.meta = disk.stg.meta
BY DEF WriteXml, IInv, Core, Data, Disk, Dir, Code

LEMMA Remains ==
    ASSUME IInv, NEW p \in Proc, RmtreePart(p)
    PROVE  /\ disk'.lib = disk.lib /\ disk'.dump = disk.dump
           /\ disk'.pnl = disk.pnl /\ disk'.pool = disk.pool
           /\ Removing(p) /\ disk.stg.whole
           /\ disk'.stg.code = disk.stg.code
           /\ ~disk'.stg.whole /\ (disk'.stg.meta => disk.stg.meta)
<1>1. PICK meta \in {FALSE, disk.stg.meta} :
         disk' = [disk EXCEPT !.stg = [disk.stg EXCEPT !.whole = FALSE, !.meta = meta]]
  BY DEF RmtreePart
<1>2. disk'.stg = [disk.stg EXCEPT !.whole = FALSE, !.meta = meta]
  BY <1>1 DEF IInv, Core, Data, Disk
<1>3. disk.stg \in Dir
  BY Places DEF IInv, Core, Data
<1>4. disk'.stg.code = disk.stg.code /\ ~disk'.stg.whole /\ disk'.stg.meta = meta
  BY <1>2, <1>3 DEF Dir
<1> QED
  BY <1>1, <1>4 DEF RmtreePart, IInv, Core, Data, Disk

LEMMA Untouched ==
    ASSUME IInv, NEW p \in Proc,
           Begin(p) \/ CheckInit(p) \/ SubmitLateUndo(p) \/ RmtreePart(p)
    PROVE  /\ disk'.lib = disk.lib /\ disk'.pnl = disk.pnl /\ disk'.pool = disk.pool
           /\ screened' = screened /\ crashes' = crashes /\ faults' = faults
           /\ \/ disk'.stg = disk.stg
              \/ SubmitLateUndo(p) /\ disk'.stg = NoDir
              \/ CheckInit(p) /\ Exists(disk.stg) /\ WriteXml(p)
              \/ RmtreePart(p)
<1>1. CASE Begin(p)
  BY <1>1 DEF Begin, SubmitStart, CheckScan, RestageStart, ApproveStart, CancelStart,
      ClearStart, RmStart, Start, ghost
<1>2. CASE CheckInit(p)
  BY <1>2, XmlWritten DEF CheckInit, ghost
<1>3. CASE SubmitLateUndo(p)
  BY <1>3 DEF SubmitLateUndo, ghost, IInv, Core, Data, Disk
<1>4. CASE RmtreePart(p)
  BY <1>4, Remains DEF RmtreePart, ghost
<1> QED
  BY <1>1, <1>2, <1>3, <1>4

\* The counters of crashes and faults only grow.
LEMMA Failing ==
    ASSUME IInv, NEW p \in Proc, Begin(p) \/ Continue(p) \/ Crash(p)
    PROVE  /\ crashes' = 0 => crashes = 0 /\ ~Crash(p)
           /\ faults' = 0 => /\ faults = 0 /\ ~CheckFault(p) /\ ~Swallowed(p)
                             /\ SubmitFault(p) => /\ pc[p] \in {"s_copied", "s_meta"}
                                                  /\ ~Exists(disk.stg)
<1>1. /\ crashes' = crashes \/ Crash(p)
      /\ faults' = faults \/ faults' = faults + 1
  <2> USE DEF ghost
  <2>1. CASE Begin(p) \/ CheckInit(p) \/ SubmitLateUndo(p) \/ RmtreePart(p)
    BY <2>1, Untouched
  <2>2. CASE TryLock(p) \/ Crash(p)
    BY <2>2 DEF TryLock, Crash
  <2>3. CASE SubmitStep(p)
    BY <2>3 DEF SubmitStep, SubmitWipe, SubmitCopy, SubmitParse, SubmitUndo, SubmitMeta,
        SubmitCommit, SubmitDiscard, SubmitPurge, SubmitFault, SubmitLateUndo
  <2>4. CASE CheckStep(p)
    BY <2>4 DEF CheckStep, CheckInit, CheckEnsure, CheckMark, CheckPrepare, CheckRun,
        CheckFault, SnapDelete, SnapInsert, Swallowed
  <2>5. CASE PassStep(p) \/ FailStep(p)
    BY <2>5 DEF PassStep, PassEvent, PassActive, ArchiveRmSrc, ArchiveMvSrc, ArchiveProduct,
        FailStep, RevertEvent, RevertState, RejectRmSrc, RejectCpSrc, RejectProducts,
        RejectUnstage, RejectEvent, RejectState
  <2>6. CASE RestageStep(p) \/ OperatorStep(p)
    BY <2>6 DEF RestageStep, RestageRecall, RestagePurge, RestageState, RestageDiscard,
        OperatorStep, ApproveState, CancelUnstage, CancelDelete, ClearUnstage, RmDisk, RmDelete
  <2> QED
    BY <2>1, <2>2, <2>3, <2>4, <2>5, <2>6 DEF Continue
<1>2. crashes \in Nat /\ faults \in Nat
  BY BoundAssumption DEF IInv, Core, Data
<1>3. ~(Crash(p) /\ crashes' = 0)
  BY <1>2 DEF Crash
<1>4. ~(CheckFault(p) /\ faults' = 0) /\ ~(Swallowed(p) /\ faults' = 0)
  BY <1>2 DEF CheckFault, Swallowed
<1>5. SubmitFault(p) /\ faults' = 0 => pc[p] \in {"s_copied", "s_meta"} /\ ~Exists(disk.stg)
  BY <1>2 DEF SubmitFault
<1> QED
  BY <1>1, <1>2, <1>3, <1>4, <1>5

-----------------------------------------------------------------------------
(***************************************************************************)
(* The section by itself: what each step of its holder does to the row and *)
(* to the places of the disk (the dump is left out), without the program   *)
(* counters and local variables of the other processes.                    *)
(***************************************************************************)
Step(l, m) == section = l /\ section' = m /\ work' = work
End(l) == section = l /\ section' = "free"

SameRow == row' = row
Record(status, snap, fail) ==
    row'.status = status /\ row'.snap = snap /\ row'.lastFail = fail

Put(stg, lib, pnl, pool) ==
    disk'.stg = stg /\ disk'.lib = lib /\ disk'.pnl = pnl /\ disk'.pool = pool
SameDisk == Put(disk.stg, disk.lib, disk.pnl, disk.pool)
PutStaging(d) == Put(d, disk.lib, disk.pnl, disk.pool)
PutLibrary(d) == Put(disk.stg, d, disk.pnl, disk.pool)
PutProducts(pnl, pool) == Put(disk.stg, disk.lib, pnl, pool)

Copied(whole) == [code |-> Submission(work.seen), whole |-> whole, meta |-> FALSE]

SubmitEffect ==
    \/ Step("s_wipe", "s_copy") /\ SameRow /\ PutStaging(NoDir)
    \/ Step("s_copy", "s_copied") /\ SameRow /\ PutStaging(Copied(FALSE))
    \/ Step("s_copied", "s_parse") /\ SameRow /\ PutStaging(Copied(TRUE))
    \/ Step("s_parse", "s_undo") /\ SameRow /\ SameDisk
    \/ Step("s_parse", "s_meta") /\ SameRow /\ SameDisk
    \/ End("s_undo") /\ SameRow /\ PutStaging(NoDir)
    \/ Step("s_meta", "s_commit") /\ SameRow /\ Exists(disk.stg)
       /\ PutStaging([disk.stg EXCEPT !.meta = TRUE])
       /\ disk'.stg.code = disk.stg.code /\ disk'.stg.whole = disk.stg.whole
    \/ End("s_commit") /\ row.status = "none" /\ SameDisk
       /\ Record("submitted", "none", row.lastFail)
    \/ Step("s_commit", "s_discard") /\ row.status # "none" /\ SameDisk
       /\ Record("submitted", row.snap, row.lastFail)
    \/ Step("s_discard", "s_purge") /\ SameDisk /\ Record(row.status, "none", row.lastFail)
    \/ End("s_purge") /\ SameRow /\ PutProducts(NoCode, NoCode)

SubmitBreaks ==
    \/ section \in {"s_copied", "s_meta"} /\ ~Exists(disk.stg)
       /\ section' = "free" /\ SameRow /\ SameDisk
    \/ section \in {"s_copied", "s_parse", "s_meta", "s_commit", "s_purge"} /\ faults' # 0
       /\ section' = "free" /\ SameRow /\ SameDisk

CheckEffect ==
    \/ Step("c_ensure", "c_mark") /\ row.status # "none" /\ SameRow /\ SameDisk
    \/ Step("c_ensure", "c_mark") /\ row.status = "none" /\ SameDisk
       /\ Record("submitted", "none", row.lastFail)
    \/ Step("c_mark", "c_prep") /\ SameDisk /\ Record("checking", row.snap, row.lastFail)
    \/ Step("c_prep", "c_run") /\ Exists(disk.stg) /\ SameRow
       /\ Put(disk'.stg, disk.lib, disk.pnl, disk.pool)
       /\ disk'.stg.code.py = disk.stg.code.py
       /\ disk'.stg.whole = disk.stg.whole /\ disk'.stg.meta = disk.stg.meta
    \/ section = "c_prep" /\ section' = "v_event" /\ SameRow /\ SameDisk
    \/ Step("snap_del", "snap_ins") /\ SameDisk /\ Record(row.status, "none", row.lastFail)
    \/ work.why = "pass" /\ Step("snap_ins", "p_rmsrc") /\ SameDisk
       /\ Record(row.status, "current", row.lastFail)
    \/ work.why # "pass" /\ Step("snap_ins", "j_rmsrc") /\ SameDisk
       /\ Record(row.status, "ahead", row.lastFail)

StagesEnd(outcome) ==
    /\ section = "c_run" /\ section' = AfterRun(outcome) /\ SameRow /\ SameDisk
    /\ work'.why = outcome /\ work'.ran = disk.stg.code
    /\ disk.stg.whole \/ outcome \in {"skip", "retry", "early", "unexpected"}
    /\ outcome \in {"pass", "correlation"} => disk.stg.code \in screened'

PassEffect ==
    \/ Step("p_event", "p_active") /\ SameDisk
       /\ Record(row.status, Appended(row.snap), row.lastFail)
    \/ Step("p_active", "snap_del") /\ SameDisk /\ Record("active", row.snap, row.lastFail)
    \/ Step("p_rmsrc", "p_mvsrc") /\ SameRow /\ PutLibrary(NoDir)
    \/ Step("p_mvsrc", "p_dump") /\ Exists(disk.stg) /\ SameRow
       /\ Put(NoDir, disk.stg, disk.pnl, disk.pool)
    \/ Step("p_mvsrc", "v_event") /\ ~Exists(disk.stg) /\ SameRow /\ SameDisk
    \/ Step("p_dump", "p_pnl") /\ SameRow /\ SameDisk
    \/ Step("p_pnl", "p_pool") /\ SameRow /\ PutProducts(work.ran, disk.pool)
    \/ End("p_pool") /\ SameRow /\ PutProducts(disk.pnl, disk.pnl)

FailEffect ==
    \/ Step("v_event", "v_state") /\ SameDisk
       /\ \/ Record(row.status, Appended(row.snap), row.lastFail)
          \/ Record(row.status, Appended(row.snap), "other")
    \/ End("v_state") /\ SameDisk /\ Record("submitted", row.snap, row.lastFail)
    \/ Step("j_rmsrc", "j_cpsrc") /\ SameRow /\ PutLibrary(NoDir)
    \/ Exists(disk.stg) /\ Step("j_cpsrc", IF work.why \in Keep THEN "j_keep_pnl" ELSE "j_clear")
       /\ SameRow /\ PutLibrary(disk.stg)
    \/ End("j_cpsrc") /\ ~Exists(disk.stg) /\ SameDisk
       /\ Record(row.status, row'.snap, row.lastFail)
    \/ Step("j_keep_pnl", "j_keep_dump") /\ SameRow /\ PutProducts(work.ran, disk.pool)
    \/ Step("j_keep_dump", "j_unstage") /\ SameRow /\ SameDisk
    \/ Step("j_clear", "j_unstage") /\ SameRow /\ SameDisk
    \/ Step("j_unstage", "j_event") /\ SameRow /\ PutStaging(NoDir)
    \/ Step("j_event", "j_state") /\ SameDisk
       /\ Record(row.status, Appended(row.snap),
                 IF work.why = "correlation" THEN "correlation" ELSE "other")
    \/ End("j_state") /\ SameDisk /\ Record("rejected", row.snap, row.lastFail)

RestageEffect ==
    \/ End("r_recall") /\ SameRow /\ SameDisk
    \/ section = "r_recall" /\ section' = "r_serving" /\ Restageable /\ ~Exists(disk.stg)
       /\ SameRow /\ Put(disk.lib, NoDir, disk.pnl, disk.pool)
    \/ Step("r_serving", "r_check") /\ SameRow /\ SameDisk
    \/ Step("r_check", "r_state") /\ SameRow /\ PutProducts(NoCode, NoCode)
    \/ Step("r_state", "r_discard") /\ SameDisk /\ Record("submitted", row.snap, row.lastFail)
    \/ End("r_discard") /\ SameDisk /\ Record(row.status, "none", row.lastFail)

OperatorEffect ==
    \/ End("a_state") /\ CorrelationRejected /\ SameDisk
       /\ Record("active", row.snap, row.lastFail)
    \/ End("a_state") /\ ~CorrelationRejected /\ SameRow /\ SameDisk
    \/ Step("x_unstage", "x_delete") /\ Cancellable(work.opt) /\ SameRow /\ PutStaging(NoDir)
    \/ End("x_unstage") /\ ~Cancellable(work.opt) /\ SameRow /\ SameDisk
    \/ End("x_delete") /\ SameDisk /\ Record("none", "none", row.lastFail)
    \/ End("l_unstage") /\ Orphan /\ SameRow /\ PutStaging(NoDir)
    \/ End("l_unstage") /\ ~Orphan /\ SameRow /\ SameDisk
    \/ Step("m_dump", "m_src") /\ SameRow /\ SameDisk
    \/ Step("m_src", "m_stg") /\ SameRow /\ PutLibrary(NoDir)
    \/ Step("m_stg", "m_check") /\ SameRow /\ PutStaging(NoDir)
    \/ Step("m_check", "m_delete") /\ SameRow /\ PutProducts(NoCode, NoCode)
    \/ End("m_delete") /\ SameDisk /\ Record("none", "none", row.lastFail)

CheckBreaks ==
    /\ faults' # 0 /\ SameRow /\ SameDisk
    /\ \/ section \in PassBody /\ section' = "v_event"
       \/ section \in {"snap_del", "snap_ins"} /\ work' = work
          /\ section' = IF work.why = "pass" THEN "p_rmsrc" ELSE "j_rmsrc"
       \/ Step("s_discard", "s_purge")
       \/ End("r_discard")

LEMMA SubmitEffects ==
    ASSUME IInv, NEW p \in Proc, SubmitStep(p), ~SubmitLateUndo(p)
    PROVE  SubmitEffect \/ SubmitBreaks
<1> USE Holder DEF At, ghost, Step, End, SameRow, Record, Put, SameDisk, PutStaging,
        PutLibrary, PutProducts, Copied,
    SubmitEffect, SubmitBreaks, IInv, Core, Data
<1>1. CASE SubmitWipe(p)
  BY <1>1 DEF SubmitWipe, Disk
<1>2. CASE SubmitCopy(p)
  BY <1>2 DEF SubmitCopy, Disk
<1>3. CASE SubmitParse(p)
  BY <1>3 DEF SubmitParse
<1>4. CASE SubmitUndo(p)
  BY <1>4 DEF SubmitUndo, Disk
<1>5. CASE SubmitMeta(p)
  BY <1>5 DEF SubmitMeta, Disk, Dir
<1>6. CASE SubmitCommit(p)
  BY <1>6 DEF SubmitCommit, Row, NoRow
<1>7. CASE SubmitDiscard(p)
  BY <1>7 DEF SubmitDiscard, Row
<1>8. CASE SubmitPurge(p)
  BY <1>8 DEF SubmitPurge, Disk
<1>9. CASE SubmitFault(p)
  <2>1. faults \in Nat /\ section = pc[p] /\ section' = "free"
    BY <1>9, SubmitFaults, BoundAssumption
  <2> QED
    BY <1>9, <2>1 DEF SubmitFault
<1> QED
  BY <1>1, <1>2, <1>3, <1>4, <1>5, <1>6, <1>7, <1>8, <1>9 DEF SubmitStep

LEMMA CheckEffects ==
    ASSUME IInv, NEW p \in Proc, CheckStep(p), ~CheckInit(p)
    PROVE  CheckEffect \/ CheckBreaks
           \/ \E outcome \in Outcome : StagesEnd(outcome)
<1> USE Holder DEF At, ghost, Step, End, SameRow, Record, Put, SameDisk, PutStaging,
        PutLibrary, PutProducts, Copied,
    CheckEffect, CheckBreaks, IInv, Core, Data
<1>1. CASE CheckEnsure(p)
  BY <1>1 DEF CheckEnsure, Row, NoRow
<1>2. CASE CheckMark(p)
  BY <1>2 DEF CheckMark, Row
<1>3. CASE CheckPrepare(p)
  <2>1. CASE Exists(disk.stg)
    BY <1>3, <2>1, XmlWritten DEF CheckPrepare
  <2>2. CASE ~Exists(disk.stg)
    BY <1>3, <2>2, Branches DEF CheckPrepare
  <2> QED
    BY <2>1, <2>2
<1>4. CASE CheckRun(p)
  BY <1>4, Branches DEF CheckRun, StagesEnd
<1>5. CASE CheckFault(p)
  <2>1. faults \in Nat /\ section \in PassBody /\ section' = "v_event"
    BY <1>5, Faults, BoundAssumption
  <2> QED
    BY <1>5, <2>1 DEF CheckFault
<1>6. CASE SnapDelete(p)
  BY <1>6 DEF SnapDelete, Row
<1>7. CASE SnapInsert(p)
  BY <1>7 DEF SnapInsert, Row, AfterSnap
<1>8. CASE Swallowed(p)
  <2>1. faults \in Nat
    BY BoundAssumption
  <2> QED
    BY <1>8, <2>1 DEF Swallowed, AfterSnap
<1> QED
  BY <1>1, <1>2, <1>3, <1>4, <1>5, <1>6, <1>7, <1>8 DEF CheckStep

LEMMA PassEffects ==
    ASSUME IInv, NEW p \in Proc, PassStep(p)
    PROVE  PassEffect
<1> USE Holder DEF At, ghost, Step, End, SameRow, Record, Put, SameDisk, PutStaging,
        PutLibrary, PutProducts, Copied,
    PassEffect, IInv, Core, Data
<1>1. CASE PassEvent(p)
  BY <1>1 DEF PassEvent, Row
<1>2. CASE PassActive(p)
  BY <1>2 DEF PassActive, Row
<1>3. CASE ArchiveRmSrc(p)
  BY <1>3 DEF ArchiveRmSrc, Disk
<1>4. CASE ArchiveMvSrc(p)
  <2>1. CASE Exists(disk.stg)
    <3>1. disk' = [disk EXCEPT !.lib = disk.stg, !.stg = NoDir]
      BY <1>4, <2>1 DEF ArchiveMvSrc
    <3>2. Put(NoDir, disk.stg, disk.pnl, disk.pool)
      BY <3>1 DEF Disk
    <3> QED
      BY <1>4, <2>1, <3>2 DEF ArchiveMvSrc
  <2>2. CASE ~Exists(disk.stg)
    BY <1>4, <2>2 DEF ArchiveMvSrc
  <2> QED
    BY <2>1, <2>2
<1>5. CASE ArchiveProduct(p)
  BY <1>5 DEF ArchiveProduct, Disk
<1> QED
  BY <1>1, <1>2, <1>3, <1>4, <1>5 DEF PassStep

LEMMA FailEffects ==
    ASSUME IInv, NEW p \in Proc, FailStep(p)
    PROVE  FailEffect
<1> USE Holder DEF At, ghost, Step, End, SameRow, Record, Put, SameDisk, PutStaging,
        PutLibrary, PutProducts, Copied,
    FailEffect, IInv, Core, Data
<1>1. CASE RevertEvent(p)
  BY <1>1 DEF RevertEvent, Row
<1>2. CASE RevertState(p)
  BY <1>2 DEF RevertState, Row
<1>3. CASE RejectRmSrc(p)
  BY <1>3 DEF RejectRmSrc, Disk
<1>4. CASE RejectCpSrc(p)
  BY <1>4 DEF RejectCpSrc, Row, Disk, Abandon
<1>5. CASE RejectProducts(p)
  BY <1>5 DEF RejectProducts, Disk
<1>6. CASE RejectUnstage(p)
  BY <1>6 DEF RejectUnstage, Disk
<1>7. CASE RejectEvent(p)
  BY <1>7 DEF RejectEvent, Row
<1>8. CASE RejectState(p)
  BY <1>8 DEF RejectState, Row
<1> QED
  BY <1>1, <1>2, <1>3, <1>4, <1>5, <1>6, <1>7, <1>8 DEF FailStep

LEMMA RestageEffects ==
    ASSUME IInv, NEW p \in Proc, RestageStep(p)
    PROVE  RestageEffect
<1> USE Holder DEF At, ghost, Step, End, SameRow, Record, Put, SameDisk, PutStaging,
        PutLibrary, PutProducts, Copied,
    RestageEffect, IInv, Core, Data
<1>1. CASE RestageRecall(p)
  <2>1. section' = "free" => disk' = disk /\ row' = row
    BY <1>1, Recalls DEF RestageRecall
  <2>2. section' = "r_serving" => Put(disk.lib, NoDir, disk.pnl, disk.pool)
    BY <1>1, Recalls DEF Disk
  <2> QED
    BY <1>1, <2>1, <2>2, Recalls DEF RestageRecall
<1>2. CASE RestagePurge(p)
  BY <1>2 DEF RestagePurge, Disk
<1>3. CASE RestageState(p)
  BY <1>3 DEF RestageState, Promise, Row
<1>4. CASE RestageDiscard(p)
  BY <1>4 DEF RestageDiscard, Row
<1> QED
  BY <1>1, <1>2, <1>3, <1>4 DEF RestageStep

LEMMA OperatorEffects ==
    ASSUME IInv, NEW p \in Proc, OperatorStep(p)
    PROVE  OperatorEffect
<1> USE Holder DEF At, ghost, Step, End, SameRow, Record, Put, SameDisk, PutStaging,
        PutLibrary, PutProducts, Copied,
    OperatorEffect, IInv, Core, Data
<1>1. CASE ApproveState(p)
  BY <1>1 DEF ApproveState, Row
<1>2. CASE CancelUnstage(p)
  BY <1>2 DEF CancelUnstage, Disk
<1>3. CASE CancelDelete(p)
  BY <1>3 DEF CancelDelete, Row, NoRow
<1>4. CASE ClearUnstage(p)
  BY <1>4 DEF ClearUnstage, Disk
<1>5. CASE RmDisk(p)
  BY <1>5 DEF RmDisk, Disk
<1>6. CASE RmDelete(p)
  BY <1>6 DEF RmDelete, Row, NoRow
<1> QED
  BY <1>1, <1>2, <1>3, <1>4, <1>5, <1>6 DEF OperatorStep

-----------------------------------------------------------------------------
\* The parts of a check under the lock.
Snapping == {"snap_del", "snap_ins"}
Rejecting == {"j_rmsrc", "j_cpsrc", "j_keep_pnl", "j_keep_dump", "j_clear", "j_unstage",
              "j_event", "j_state"}
Reverting == {"v_event", "v_state"}
Judging == {"c_prep", "c_run"} \cup PassBody \cup Snapping \cup Rejecting \cup Reverting

\* A restage between taking the source back and its compare-and-set.
Recalling == {"r_serving", "r_check", "r_state"}

\* The status follows the section: nobody else writes it.
Course ==
    /\ section \in PassBody => work.why = "pass"
    /\ section \in Snapping => work.why \in Keep \cup {"pass"}
    /\ section \in Rejecting => work.why \in Keep \cup {"early"}
    /\ section \in {"j_keep_pnl", "j_keep_dump"} => work.why \in Keep
    /\ section = "j_clear" => work.why = "early"
    /\ section \in PassBody \ {"p_event", "p_active"}
       \/ (section \in Snapping /\ work.why = "pass") => row.status = "active"
    /\ section \in {"c_prep", "c_run", "p_event", "p_active"} \cup Rejecting
       \/ (section \in Snapping /\ work.why # "pass") => row.status = "checking"
    /\ section \in Reverting => row.status \in {"checking", "active"}
    /\ section \in {"s_discard", "s_purge", "r_discard"} => row.status = "submitted"
    /\ section \in Recalling => row.status \in {"active", "rejected"}

\* A directory is there as long as it has code; where a section has just put
\* the source into alpha_src it is there, where it took it away it is not.
Sourced ==
    /\ disk.stg.code.py = 0 => disk.stg = NoDir
    /\ disk.lib.code.py = 0 => disk.lib = NoDir
    /\ section \in {"p_dump", "p_pnl", "p_pool"} \cup (Rejecting \ {"j_rmsrc", "j_cpsrc"})
          => Exists(disk.lib)

LEMMA CourseStep ==
    ASSUME IInv, Course, NEW p \in Proc, Begin(p) \/ Continue(p) \/ Crash(p)
    PROVE  Course'
<1> USE DEF PassBody, Snapping, Rejecting, Reverting, Recalling, Keep, Course
<1>1. CASE Begin(p) \/ CheckInit(p) \/ SubmitLateUndo(p) \/ RmtreePart(p)
  BY <1>1, Outside, Untouched
<1>2. CASE TryLock(p)
  BY <1>2, Enters DEF TryLock, Entry, Command
<1>3. CASE Crash(p)
  BY <1>3, Dies DEF Crash
<1>4. CASE SubmitStep(p) /\ ~SubmitLateUndo(p)
  BY <1>4, SubmitEffects DEF SubmitEffect, SubmitBreaks, Copied, Step, End, SameRow, Record,
      Put, SameDisk, PutStaging, PutLibrary, PutProducts
<1>5. CASE CheckStep(p) /\ ~CheckInit(p)
  BY <1>5, CheckEffects DEF CheckEffect, CheckBreaks, StagesEnd, AfterRun, Step, End,
      SameRow, Record, Put, SameDisk, PutStaging, PutLibrary, PutProducts, Outcome
<1>6. CASE PassStep(p)
  BY <1>6, PassEffects DEF PassEffect, Step, End, SameRow, Record, Put, SameDisk,
      PutStaging, PutLibrary, PutProducts
<1>7. CASE FailStep(p)
  BY <1>7, FailEffects DEF FailEffect, Step, End, SameRow, Record, Put, SameDisk,
      PutStaging, PutLibrary, PutProducts
<1>8. CASE RestageStep(p)
  BY <1>8, RestageEffects DEF RestageEffect, Step, End, SameRow, Record, Put, SameDisk,
      PutStaging, PutLibrary, PutProducts, Restageable
<1>9. CASE OperatorStep(p)
  BY <1>9, OperatorEffects DEF OperatorEffect, Step, End, SameRow, Record, Put, SameDisk,
      PutStaging, PutLibrary, PutProducts
<1> QED
  BY <1>1, <1>2, <1>3, <1>4, <1>5, <1>6, <1>7, <1>8, <1>9 DEF Continue, SubmitStep,
      CheckStep

LEMMA SourcedStep ==
    ASSUME IInv, Numbered, Course, Sourced, NEW p \in Proc, Begin(p) \/ Continue(p) \/ Crash(p)
    PROVE  Sourced'
<1> USE DEF PassBody, Rejecting, Sourced, Exists, NoDir, NoCode
<1>1. CASE Begin(p) \/ CheckInit(p) \/ SubmitLateUndo(p) \/ RmtreePart(p)
  <2>1. section' = section /\ disk'.lib = disk.lib
    BY <1>1, Outside, Untouched
  <2>2. disk'.stg.code.py = 0 => disk'.stg = NoDir
    <3>1. CASE RmtreePart(p)
      BY <3>1, Remains
    <3>2. CASE CheckInit(p) /\ Exists(disk.stg) /\ WriteXml(p)
      BY <3>2, XmlWritten
    <3>3. CASE disk'.stg = disk.stg \/ disk'.stg = NoDir
      BY <3>3
    <3> QED
      BY <1>1, <3>1, <3>2, <3>3, Untouched
  <2> QED
    BY <2>1, <2>2
<1>2. CASE TryLock(p)
  BY <1>2, Enters DEF TryLock, Entry, Command
<1>3. CASE Crash(p)
  BY <1>3, Dies DEF Crash
<1>4. CASE SubmitStep(p) /\ ~SubmitLateUndo(p)
  <2>1. section \in {"s_copy", "s_copied"} => work.seen # 0
    BY <1>4, Holder DEF Numbered
  <2> QED
    BY <1>4, <2>1, SubmitEffects DEF SubmitEffect, SubmitBreaks, Copied, Submission, Step,
       End, Put,
        SameDisk, PutStaging, PutLibrary, PutProducts
<1>5. CASE CheckStep(p) /\ ~CheckInit(p)
  BY <1>5, CheckEffects DEF CheckEffect, CheckBreaks, StagesEnd, AfterRun, Step, End,
      SameRow, Record, Put, SameDisk, PutStaging, PutLibrary, PutProducts
<1>6. CASE PassStep(p)
  BY <1>6, PassEffects DEF PassEffect, Step, End, SameRow, Record, Put, SameDisk,
      PutStaging, PutLibrary, PutProducts
<1>7. CASE FailStep(p)
  BY <1>7, FailEffects DEF FailEffect, Step, End, SameRow, Record, Put, SameDisk,
      PutStaging, PutLibrary, PutProducts
<1>8. CASE RestageStep(p)
  BY <1>8, RestageEffects DEF RestageEffect, Step, End, SameRow, Record, Put, SameDisk,
      PutStaging, PutLibrary, PutProducts
<1>9. CASE OperatorStep(p)
  BY <1>9, OperatorEffects DEF OperatorEffect, Step, End, SameRow, Record, Put, SameDisk,
      PutStaging, PutLibrary, PutProducts
<1> QED
  BY <1>1, <1>2, <1>3, <1>4, <1>5, <1>6, <1>7, <1>8, <1>9 DEF Continue, SubmitStep,
      CheckStep

-----------------------------------------------------------------------------
\* Without faults nobody rolls a submission back after leaving the lock, and a
\* section finds the staged copy it works on.
Staged == {"s_copied", "s_parse", "s_meta", "c_run", "p_event", "p_active", "snap_del", "snap_ins",
           "p_rmsrc", "p_mvsrc", "j_rmsrc", "j_cpsrc"}

Kept ==
    faults = 0 =>
        /\ \A p \in Proc : pc[p] # "s_late"
        /\ section \in Staged => Exists(disk.stg)

\* Without crashes a rejected factor's source is missing from alpha_src only
\* inside a restage or an rm.
Emptied == Recalling \cup {"m_stg", "m_check", "m_delete"}

Archived ==
    crashes = 0 /\ row.status = "rejected" => Exists(disk.lib) \/ section \in Emptied

LEMMA Present ==
    ASSUME Sourced
    PROVE  Exists(disk.stg) <=> disk.stg.code.py # 0
BY DEF Sourced, Exists, NoDir, NoCode

LEMMA KeptStep ==
    ASSUME IInv, Numbered, Sourced, Sourced', Kept, NEW p \in Proc,
           Begin(p) \/ Continue(p) \/ Crash(p)
    PROVE  Kept'
<1>1. SUFFICES ASSUME faults' = 0 PROVE Kept'
  BY DEF Kept
<1>2. /\ faults = 0 /\ ~CheckFault(p) /\ ~Swallowed(p)
      /\ SubmitFault(p) => pc[p] \in {"s_copied", "s_meta"} /\ ~Exists(disk.stg)
  BY <1>1, Failing
<1>3. section \in Staged => disk.stg.code.py # 0
  BY <1>2, Present DEF Kept
<1>4. \A q \in Proc : pc'[q] # "s_late"
  <2>1. \A q \in Proc : pc[q] # "s_late"
    BY <1>2 DEF Kept
  <2>2. ~SubmitFault(p)
    BY <1>2, <1>3, SubmitFaults, Present DEF Staged
  <2> QED
    BY <2>1, <2>2, Others, NumberedStep
<1>5. pc[p] # "s_late"
  BY <1>2 DEF Kept
<1>6. SUFFICES section' \in Staged => disk'.stg.code.py # 0
  <2>1. Exists(disk'.stg) <=> disk'.stg.code.py # 0
    BY DEF Sourced, Exists, NoDir, NoCode
  <2> QED
    BY <1>4, <2>1 DEF Kept
<1> USE DEF Staged
<1>7. CASE Begin(p) \/ CheckInit(p) \/ SubmitLateUndo(p) \/ RmtreePart(p)
  BY <1>7, <1>3, Outside, Untouched, <1>5, XmlWritten, Remains DEF SubmitLateUndo, At
<1>8. CASE TryLock(p)
  BY <1>8, <1>3, Enters DEF TryLock, Entry, Command
<1>9. CASE Crash(p)
  BY <1>9, <1>3, Dies DEF Crash
<1>10. CASE SubmitStep(p) /\ ~SubmitLateUndo(p)
  <2>1. section \in {"s_copy", "s_copied"} => work.seen # 0
    BY <1>10, Holder DEF Numbered
  <2> QED
    BY <1>10, <1>3, <2>1, SubmitEffects DEF SubmitEffect, SubmitBreaks, Copied, Submission,
       Step, End,
        Put, SameDisk, PutStaging, PutLibrary, PutProducts
<1>11. CASE CheckStep(p) /\ ~CheckInit(p)
  BY <1>11, <1>3, CheckEffects, <1>1, Present DEF CheckEffect, CheckBreaks, StagesEnd,
      AfterRun, Step, End, SameRow, Record, Put, SameDisk, PutStaging, PutLibrary, PutProducts,
      Outcome
<1>12. CASE PassStep(p)
  BY <1>12, <1>3, PassEffects DEF PassEffect, Step, End, SameRow, Record, Put, SameDisk,
      PutStaging, PutLibrary, PutProducts
<1>13. CASE FailStep(p)
  BY <1>13, <1>3, FailEffects DEF FailEffect, Step, End, SameRow, Record, Put, SameDisk,
      PutStaging, PutLibrary, PutProducts
<1>14. CASE RestageStep(p)
  BY <1>14, <1>3, RestageEffects DEF RestageEffect, Step, End, SameRow, Record, Put,
      SameDisk, PutStaging, PutLibrary, PutProducts
<1>15. CASE OperatorStep(p)
  BY <1>15, <1>3, OperatorEffects DEF OperatorEffect, Step, End, SameRow, Record, Put,
      SameDisk, PutStaging, PutLibrary, PutProducts
<1> QED
  BY <1>7, <1>8, <1>9, <1>10, <1>11, <1>12, <1>13, <1>14, <1>15 DEF Continue, SubmitStep,
      CheckStep

LEMMA ArchivedStep ==
    ASSUME IInv, Course, Sourced, Archived, NEW p \in Proc, Begin(p) \/ Continue(p) \/ Crash(p)
    PROVE  Archived'
<1>1. SUFFICES ASSUME crashes' = 0, row'.status = "rejected", section' \notin Emptied
               PROVE  Exists(disk'.lib)
  BY DEF Archived
<1>2. crashes = 0 /\ ~Crash(p)
  BY <1>1, Failing
<1>3. row.status = "rejected" => Exists(disk.lib) \/ section \in Emptied
  BY <1>2 DEF Archived
<1> USE DEF Emptied, Recalling, Rejecting, PassBody
<1>4. CASE Begin(p) \/ CheckInit(p) \/ SubmitLateUndo(p) \/ RmtreePart(p)
  BY <1>4, <1>1, <1>3, Outside, Untouched
<1>5. CASE TryLock(p)
  BY <1>5, <1>1, <1>3, Enters DEF TryLock, Entry, Command
<1>6. CASE Crash(p)
  BY <1>6, <1>1, <1>3, Dies, <1>2 DEF Crash
<1>7. CASE SubmitStep(p) /\ ~SubmitLateUndo(p)
  BY <1>7, <1>1, <1>3, SubmitEffects DEF SubmitEffect, SubmitBreaks, Copied, Step, End,
      SameRow, Record, Put, SameDisk, PutStaging, PutLibrary, PutProducts, Course
<1>8. CASE CheckStep(p) /\ ~CheckInit(p)
  BY <1>8, <1>1, <1>3, CheckEffects DEF CheckEffect, CheckBreaks, StagesEnd, AfterRun, Step,
      End, SameRow, Record, Put, SameDisk, PutStaging, PutLibrary, PutProducts, Course
<1>9. CASE PassStep(p)
  BY <1>9, <1>1, <1>3, PassEffects DEF PassEffect, Step, End, SameRow, Record, Put,
      SameDisk, PutStaging, PutLibrary, PutProducts, Course
<1>10. CASE FailStep(p)
  BY <1>10, <1>1, <1>3, FailEffects DEF FailEffect, Step, End, SameRow, Record, Put,
      SameDisk, PutStaging, PutLibrary, PutProducts, Course, Sourced
<1>11. CASE RestageStep(p)
  BY <1>11, <1>1, <1>3, RestageEffects DEF RestageEffect, Step, End, SameRow, Record, Put,
      SameDisk, PutStaging, PutLibrary, PutProducts, Course
<1>12. CASE OperatorStep(p)
  BY <1>12, <1>1, <1>3, OperatorEffects DEF OperatorEffect, Step, End, SameRow, Record, Put,
      SameDisk, PutStaging, PutLibrary, PutProducts, Course
<1> QED
  BY <1>4, <1>5, <1>6, <1>7, <1>8, <1>9, <1>10, <1>11, <1>12 DEF Continue, SubmitStep,
      CheckStep

-----------------------------------------------------------------------------
\* Without crashes and faults a section that marks the factor CHECKING moves it on.
Consumed ==
    crashes = 0 /\ faults = 0 =>
        /\ section \in Reverting => row.status = "checking"
        /\ section \notin Judging => row.status # "checking"

\* Then meta.json stands beside an incomplete copy only while the holder of the
\* lock is removing the directory.
Clearing ==
    \/ section \in {"s_wipe", "s_undo", "j_unstage", "m_stg"}
    \/ section = "x_unstage" /\ Cancellable(work.opt)
    \/ section = "l_unstage" /\ Orphan

Complete ==
    crashes = 0 /\ faults = 0 =>
        /\ disk.lib.meta => disk.lib.whole
        /\ disk.stg.meta /\ ~disk.stg.whole => Clearing
        /\ section \in {"s_parse", "s_meta"} => disk.stg.whole

LEMMA ConsumedStep ==
    ASSUME IInv, Course, Kept, Consumed, NEW p \in Proc, Begin(p) \/ Continue(p) \/ Crash(p)
    PROVE  Consumed'
<1>1. SUFFICES ASSUME crashes' = 0, faults' = 0 PROVE Consumed'
  BY DEF Consumed
<1>2. /\ crashes = 0 /\ ~Crash(p)
      /\ faults = 0 /\ ~CheckFault(p) /\ ~Swallowed(p)
  BY <1>1, Failing
<1>3. /\ section \in Reverting => row.status = "checking"
      /\ section \notin Judging => row.status # "checking"
      /\ section \in {"p_mvsrc", "j_cpsrc"} => Exists(disk.stg)
  BY <1>2 DEF Consumed, Kept, Staged
<1>4. SUFFICES /\ section' \in Reverting => row'.status = "checking"
               /\ section' \notin Judging => row'.status # "checking"
  BY DEF Consumed
<1> USE DEF Judging, Snapping, Rejecting, Reverting, Recalling, PassBody
<1>5. CASE Begin(p) \/ CheckInit(p) \/ SubmitLateUndo(p) \/ RmtreePart(p)
  BY <1>5, <1>3, Outside, Untouched
<1>6. CASE TryLock(p)
  BY <1>6, <1>3, Enters DEF TryLock, Entry, Command
<1>7. CASE Crash(p)
  BY <1>7, <1>3, Dies, <1>2 DEF Crash
<1>8. CASE SubmitStep(p) /\ ~SubmitLateUndo(p)
  BY <1>8, <1>3, SubmitEffects DEF SubmitEffect, SubmitBreaks, Copied, Step, End, SameRow,
      Record, Put, SameDisk, PutStaging, PutLibrary, PutProducts, Course
<1>9. CASE CheckStep(p) /\ ~CheckInit(p)
  BY <1>9, <1>3, CheckEffects, <1>1 DEF CheckEffect, CheckBreaks, StagesEnd, AfterRun, Step,
      End, SameRow, Record, Put, SameDisk, PutStaging, PutLibrary, PutProducts, Course, Outcome
<1>10. CASE PassStep(p)
  BY <1>10, <1>3, PassEffects DEF PassEffect, Step, End, SameRow, Record, Put, SameDisk,
      PutStaging, PutLibrary, PutProducts, Course
<1>11. CASE FailStep(p)
  BY <1>11, <1>3, FailEffects DEF FailEffect, Step, End, SameRow, Record, Put, SameDisk,
      PutStaging, PutLibrary, PutProducts, Course
<1>12. CASE RestageStep(p)
  BY <1>12, <1>3, RestageEffects DEF RestageEffect, Step, End, SameRow, Record, Put,
      SameDisk, PutStaging, PutLibrary, PutProducts, Course, Restageable
<1>13. CASE OperatorStep(p)
  BY <1>13, <1>3, OperatorEffects DEF OperatorEffect, Step, End, SameRow, Record, Put,
      SameDisk, PutStaging, PutLibrary, PutProducts, Course
<1> QED
  BY <1>5, <1>6, <1>7, <1>8, <1>9, <1>10, <1>11, <1>12, <1>13 DEF Continue, SubmitStep,
      CheckStep

LEMMA CompleteStep ==
    ASSUME IInv, Course, Sourced, Sourced', Kept, Complete, NEW p \in Proc,
           Begin(p) \/ Continue(p) \/ Crash(p)
    PROVE  Complete'
<1>1. SUFFICES ASSUME crashes' = 0, faults' = 0 PROVE Complete'
  BY DEF Complete
<1>2. /\ crashes = 0 /\ ~Crash(p)
      /\ faults = 0 /\ ~CheckFault(p) /\ ~Swallowed(p)
  BY <1>1, Failing
<1>3. /\ disk.lib.meta => disk.lib.whole
      /\ disk.stg.meta /\ ~disk.stg.whole => Clearing
      /\ section \in {"s_parse", "s_meta"} => disk.stg.whole
  BY <1>2 DEF Complete
<1>4. SUFFICES /\ disk'.lib.meta => disk'.lib.whole
               /\ disk'.stg.meta /\ ~disk'.stg.whole => Clearing'
               /\ section' \in {"s_parse", "s_meta"} => disk'.stg.whole
  BY DEF Complete
<1> USE DEF NoDir
<1>5. CASE Begin(p) \/ CheckInit(p) \/ SubmitLateUndo(p) \/ RmtreePart(p)
  <2>1. /\ section' = section /\ work' = work /\ row' = row /\ disk'.lib = disk.lib
        /\ pc[p] # "s_late"
    BY <1>5, <1>2, Outside, Untouched DEF Kept
  <2>2. Exists(disk'.stg) /\ Clearing => Clearing'
    BY <2>1 DEF Clearing, Cancellable, Orphan
  <2>3. CASE RmtreePart(p)
    <3>1. Clearing /\ section \notin {"s_parse", "s_meta"}
      <4>1. pc[p] \in Locked
        BY <2>1, <2>3, Remains DEF Removing, At, Locked
      <4> QED
        BY <2>1, <2>3, <4>1, Inside, Remains DEF Removing, At, Clearing
    <3>2. Exists(disk'.stg)
      BY <2>3, Remains, Present DEF Sourced, Exists, NoCode
    <3> QED
      BY <1>3, <2>1, <2>2, <3>1, <3>2
  <2>4. CASE CheckInit(p) /\ Exists(disk.stg) /\ WriteXml(p)
    <3>1. Exists(disk'.stg)
      <4>1. disk.stg.code.py # 0
        BY <2>4, Present
      <4>2. disk'.stg.code.py # 0
        BY <2>4, <4>1, XmlWritten
      <4> QED
        BY <4>2 DEF Exists, NoCode
    <3> QED
      BY <1>3, <2>1, <2>2, <2>4, <3>1, XmlWritten
  <2>5. CASE disk'.stg = disk.stg
    BY <1>3, <2>1, <2>2, <2>5 DEF Exists
  <2> QED
    BY <1>5, <2>1, <2>3, <2>4, <2>5, Untouched DEF SubmitLateUndo, At
<1>6. CASE TryLock(p)
  <2>1. CASE section = "free"
    BY <1>6, <1>3, <2>1, Enters DEF TryLock, Entry, Command, Clearing
  <2>2. CASE section' = section /\ work' = work
    BY <1>6, <1>3, <2>2 DEF TryLock, Clearing, Cancellable, Orphan
  <2> QED
    BY <1>6, <2>1, <2>2, Enters
<1>7. CASE Crash(p)
  BY <1>7, <1>3, Dies, <1>2 DEF Crash
<1>8. CASE SubmitStep(p) /\ ~SubmitLateUndo(p)
  BY <1>8, <1>3, SubmitEffects DEF SubmitEffect, SubmitBreaks, Copied, Step, End, SameRow,
      Record, Put, SameDisk, PutStaging, PutLibrary, PutProducts, Clearing
<1>9. CASE CheckStep(p) /\ ~CheckInit(p)
  <2>1. (~Clearing /\ section' \notin {"s_parse", "s_meta"}) \/ faults' # 0
    BY <1>9, CheckEffects DEF CheckEffect, CheckBreaks, StagesEnd, AfterRun, Outcome, Step, End,
        Clearing, PassBody
  <2>2. /\ disk'.lib = disk.lib /\ disk'.stg.whole = disk.stg.whole
        /\ disk'.stg.meta = disk.stg.meta
    BY <1>9, CheckEffects DEF CheckEffect, CheckBreaks, StagesEnd, Step, Put, SameDisk
  <2> QED
    BY <1>1, <1>3, <2>1, <2>2
<1>10. CASE PassStep(p)
  BY <1>10, <1>3, PassEffects DEF PassEffect, Step, End, SameRow, Record, Put, SameDisk,
      PutStaging, PutLibrary, PutProducts, Clearing
<1>11. CASE FailStep(p)
  BY <1>11, <1>3, FailEffects DEF FailEffect, Step, End, SameRow, Record, Put, SameDisk,
      PutStaging, PutLibrary, PutProducts, Clearing
<1>12. CASE RestageStep(p)
  BY <1>12, <1>3, RestageEffects DEF RestageEffect, Step, End, SameRow, Record, Put,
      SameDisk, PutStaging, PutLibrary, PutProducts, Clearing, Restageable
<1>13. CASE OperatorStep(p)
  BY <1>13, <1>3, OperatorEffects DEF OperatorEffect, Step, End, SameRow, Record, Put,
      SameDisk, PutStaging, PutLibrary, PutProducts, Clearing
<1> QED
  BY <1>5, <1>6, <1>7, <1>8, <1>9, <1>10, <1>11, <1>12, <1>13 DEF Continue, SubmitStep,
      CheckStep

-----------------------------------------------------------------------------
SInv == /\ IInv /\ Numbered /\ Course /\ Sourced
        /\ Kept /\ Archived /\ Consumed /\ Complete

LEMMA InitSInv == Init => SInv
<1> SUFFICES ASSUME Init PROVE SInv
  OBVIOUS
<1>1. IInv
  BY InitIInv
<1>2. section = "free" /\ row.status = "none" /\ disk.stg = NoDir /\ disk.lib = NoDir
      /\ \A p \in Proc : pc[p] = "idle"
  BY DEF Init, section
<1>3. Numbered /\ Course /\ Sourced
  BY <1>2 DEF Numbered, Course, Sourced, PassBody, Snapping, Rejecting, Reverting, Recalling
<1>4. Kept /\ Archived /\ Consumed /\ Complete
  BY <1>2 DEF Kept, Staged, Archived, Consumed, Judging, PassBody, Snapping, Rejecting,
      Reverting, Complete, NoDir
<1> QED
  BY <1>1, <1>3, <1>4 DEF SInv

LEMMA NextSInv == SInv /\ [Next]_vars => SInv'
<1> SUFFICES ASSUME SInv, [Next]_vars PROVE SInv'
  OBVIOUS
<1>1. IInv'
  BY NextIInv DEF SInv
<1>2. CASE Next
  <2>1. PICK p \in Proc : Begin(p) \/ Continue(p) \/ Crash(p)
    BY <1>2 DEF Next
  <2>2. Numbered' /\ Course' /\ Sourced'
    BY <2>1, NumberedStep, CourseStep, SourcedStep DEF SInv
  <2>3. Kept' /\ Archived' /\ Consumed' /\ Complete'
    BY <2>1, <2>2, KeptStep, ArchivedStep, ConsumedStep, CompleteStep DEF SInv
  <2> QED
    BY <1>1, <2>2, <2>3 DEF SInv
<1>3. CASE UNCHANGED vars
  <2>1. section' = section /\ work' = work
    BY <1>3 DEF vars, section, work
  <2>2. Numbered' /\ Course' /\ Sourced'
    BY <1>3, <2>1 DEF vars, SInv, Numbered, Course, Sourced, Exists
  <2>3. Kept' /\ Archived' /\ Consumed' /\ Complete'
    BY <1>3, <2>1 DEF vars, SInv, Kept, Archived, Consumed, Complete, Clearing, Cancellable,
        Orphan, Exists
  <2> QED
    BY <1>1, <2>2, <2>3 DEF SInv
<1> QED
  BY <1>2, <1>3

\* What holds of row, disk and section at every step under factor_lock.
THEOREM SectionInvariance == Spec => []SInv
<1>1. Init => SInv
  BY InitSInv
<1>2. SInv /\ [Next]_vars => SInv'
  BY NextSInv
<1> QED
  BY <1>1, <1>2, PTL DEF Spec

\* As long as nothing crashed, a REJECTED factor's source is in alpha_src
\* whenever no command is at work on it, whichever commands ran at the same time
\* and whatever errors they handled (check.py:415-436, restage.py:111-125).
THEOREM RejectedSourceArchived == Spec => [](crashes = 0 => RejectedIsArchived)
<1>1. SInv => (crashes = 0 => RejectedIsArchived)
  BY DEF SInv, Archived, RejectedIsArchived, Free, section, Emptied, Recalling
<1> QED
  BY <1>1, SectionInvariance, PTL

\* Up to the first crash or fault CHECKING is seen only while a command holds the
\* lock, with any number of checkers (check.py:298-451).
THEOREM CheckingHeld == Spec => [](crashes = 0 /\ faults = 0 => CheckingOnlyUnderLock)
<1>1. SInv => (crashes = 0 /\ faults = 0 => CheckingOnlyUnderLock)
  BY DEF SInv, Consumed, CheckingOnlyUnderLock, Free, section, Judging, PassBody, Snapping,
      Rejecting, Reverting
<1> QED
  BY <1>1, SectionInvariance, PTL

\* Up to the first crash or fault meta.json marks a complete copy, except for a
\* copy some process is removing (submit.py:112-131, shared-staging-queue.md:24-28).
THEOREM StagingMarked == Spec => [](crashes = 0 /\ faults = 0 => MetaMarksWhole)
<1>1. SInv => (crashes = 0 /\ faults = 0 => MetaMarksWhole)
  <2> SUFFICES ASSUME SInv, crashes = 0, faults = 0, disk.stg.meta, ~disk.stg.whole
               PROVE  \E p \in Proc : Removing(p)
    BY DEF MetaMarksWhole
  <2>1. Clearing
    BY DEF SInv, Complete
  <2>2. lock \in Proc /\ section = pc[lock] /\ work = loc[lock]
    BY <2>1 DEF SInv, IInv, Core, Control, Clearing, section, work
  <2> QED
    BY <2>1, <2>2 DEF Clearing, Removing, At
<1> QED
  BY <1>1, SectionInvariance, PTL

-----------------------------------------------------------------------------
\* Where the last copy of the source goes.
LEMMA LossStep ==
    ASSUME SInv, faults = 0, faults' = 0, NEW p \in Proc, Begin(p) \/ Continue(p) \/ Crash(p),
           row.status # "none", Exists(disk.lib) \/ Exists(disk.stg),
           ~Exists(disk'.lib), ~Exists(disk'.stg)
    PROVE  section \in {"s_wipe", "s_undo", "m_src", "m_stg", "x_unstage"}
<1>1. /\ pc[p] # "s_late"
      /\ section \in Staged => Exists(disk.stg)
      /\ section \in {"s_copy", "s_copied"} => work.seen # 0
  <2>1. section \in {"s_copy", "s_copied"} => lock \in Proc /\ section = pc[lock] /\ work = loc[lock]
    BY DEF SInv, IInv, Core, Control, section, work
  <2> QED
    BY <2>1 DEF SInv, Kept, Numbered
<1>2. /\ Exists(disk.stg) <=> disk.stg.code.py # 0
      /\ Exists(disk'.stg) <=> disk'.stg.code.py # 0
  BY SourcedStep DEF SInv, Sourced, Exists, NoDir, NoCode
<1>3. IInv /\ Sourced /\ Course
  BY DEF SInv
<1> USE DEF Exists
<1>4. CASE Begin(p) \/ CheckInit(p) \/ SubmitLateUndo(p) \/ RmtreePart(p)
  BY <1>4, <1>1, <1>2, <1>3, Outside, Untouched, XmlWritten, Remains DEF SubmitLateUndo, At
<1>5. CASE TryLock(p)
  BY <1>5, <1>1, <1>2, <1>3, Enters DEF TryLock, Entry, Command
<1>6. CASE Crash(p)
  BY <1>6, <1>1, <1>2, <1>3, Dies DEF Crash
<1>7. CASE SubmitStep(p) /\ ~SubmitLateUndo(p)
  BY <1>7, <1>1, <1>2, <1>3, SubmitEffects DEF SubmitEffect, SubmitBreaks, Copied, Step,
      End, SameRow, Record, Put, SameDisk, PutStaging, PutLibrary, PutProducts, Staged,
      Submission
<1>8. CASE CheckStep(p) /\ ~CheckInit(p)
  BY <1>8, <1>1, <1>2, <1>3, CheckEffects DEF CheckEffect, CheckBreaks, StagesEnd, AfterRun,
      Step, End, SameRow, Record, Put, SameDisk, PutStaging, PutLibrary, PutProducts
<1>9. CASE PassStep(p)
  BY <1>9, <1>1, <1>2, <1>3, PassEffects DEF PassEffect, Step, End, SameRow, Record, Put,
      SameDisk, PutStaging, PutLibrary, PutProducts, Staged
<1>10. CASE FailStep(p)
  BY <1>10, <1>1, <1>2, <1>3, FailEffects DEF FailEffect, Step, End, SameRow, Record, Put,
      SameDisk, PutStaging, PutLibrary, PutProducts, Staged, Sourced, Rejecting
<1>11. CASE RestageStep(p)
  BY <1>11, <1>1, <1>2, <1>3, RestageEffects DEF RestageEffect, Step, End, SameRow, Record,
      Put, SameDisk, PutStaging, PutLibrary, PutProducts, Restageable
<1>12. CASE OperatorStep(p)
  BY <1>12, <1>1, <1>2, <1>3, OperatorEffects DEF OperatorEffect, Step, End, SameRow,
      Record, Put, SameDisk, PutStaging, PutLibrary, PutProducts, Orphan
<1> QED
  BY <1>4, <1>5, <1>6, <1>7, <1>8, <1>9, <1>10, <1>11, <1>12 DEF Continue, SubmitStep,
      CheckStep

\* The source of a known factor is lost only where a submission is replaced or
\* rolled back, in cancel and in rm: archive, reject and restage always leave one
\* copy, also when they are killed half way (repository.py:560-605, check.py:188-196).
\* Without faults: the roll-back of a failed submit runs after the lock is gone.
THEOREM SourceSurvives ==
    ASSUME MaxFaults = 0
    PROVE  Spec => SourceLostOnlyBy
<1>1. SInv /\ SInv' /\ [Next]_vars =>
        [row.status # "none" /\ (Exists(disk.lib) \/ Exists(disk.stg))
         /\ ~Exists(disk'.lib) /\ ~Exists(disk'.stg)
         => \E p \in Proc : pc[p] \in {"s_wipe", "s_undo", "s_late", "m_src", "m_stg",
                                        "x_unstage"}]_vars
  <2> SUFFICES ASSUME SInv, SInv', Next, row.status # "none",
                      Exists(disk.lib) \/ Exists(disk.stg),
                      ~Exists(disk'.lib), ~Exists(disk'.stg)
               PROVE  \E p \in Proc : pc[p] \in {"s_wipe", "s_undo", "s_late", "m_src",
                                                 "m_stg", "x_unstage"}
    BY DEF vars
  <2>1. faults = 0 /\ faults' = 0
    BY DEF SInv, IInv, Core, Data
  <2>2. PICK p \in Proc : Begin(p) \/ Continue(p) \/ Crash(p)
    BY DEF Next
  <2>3. section \in {"s_wipe", "s_undo", "m_src", "m_stg", "x_unstage"}
    BY <2>1, <2>2, LossStep
  <2> QED
    BY <2>3 DEF SInv, IInv, Core, Control, section
<1> QED
  BY <1>1, SectionInvariance, PTL DEF Spec, SourceLostOnlyBy

=============================================================================
