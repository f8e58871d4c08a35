------------------------ MODULE FactorOpsCheckerProofs ------------------------
(***************************************************************************)
(* FactorOps when one process at a time checks the factor, the way the     *)
(* operators' guide runs it: any number of other processes submit,         *)
(* restage, approve, cancel, clear and rm meanwhile.  Two checkers of one  *)
(* factor break most of this (the runs DoubleCheck and AnyTwo).            *)
(*                                                                         *)
(* The argument: the one checker that could write an XML into staging or   *)
(* be queued for the lock is the one in the section, so between the stages *)
(* and the archive the staged copy is the code the stages ran, and a       *)
(* queued check finds the factor as it was scanned.                        *)
(***************************************************************************)
EXTENDS FactorOpsSectionProofs

SoleChecker == \A p, q \in Proc : "check" \in May[p] /\ "check" \in May[q] => p = q

Checking == {"c_ensure", "c_mark"} \cup Judging

\* A process runs the commands it is used for; a check's steps are a check's.
Manned ==
    \A p \in Proc :
        /\ loc[p].cmd # "none" => loc[p].cmd \in May[p]
        /\ pc[p] \in {"c_init"} \cup Checking => loc[p].cmd = "check"

\* A process that has scanned the factor and does not have the lock yet.
Waiting(p) == pc[p] = "c_init" \/ (pc[p] = "lock" /\ loc[p].cmd = "check")

-----------------------------------------------------------------------------
LEMMA MannedStep ==
    ASSUME IInv, Manned, NEW p \in Proc, Begin(p) \/ Continue(p) \/ Crash(p)
    PROVE  Manned'
<1> DEFINE Runs == loc[p].cmd # "none" => loc[p].cmd \in May[p]
           Checks == pc[p] \in {"c_init"} \cup Checking => loc[p].cmd = "check"
<1>1. SUFFICES Runs' /\ Checks'
  BY Others DEF Manned
<1>2. Runs /\ Checks
  BY DEF Manned
<1> USE <1>2 DEF At, Goto, Leave, IInv, Core, Control, NoLoc, Checking, Judging, PassBody, Snapping,
    Rejecting, Reverting
<1>3. CASE Begin(p)
  <2>1. CASE SubmitStart(p)
    BY <2>1 DEF SubmitStart
  <2>2. CASE CheckScan(p)
    BY <2>2 DEF CheckScan
  <2>3. CASE \E c \in Command, o \in BOOLEAN : Start(p, c, o)
    BY <2>3 DEF Start
  <2> QED
    BY <1>3, <2>1, <2>2, <2>3
    DEF Begin, RestageStart, ApproveStart, CancelStart, ClearStart, RmStart, Command
<1>4. CASE TryLock(p)
  BY <1>4 DEF TryLock, Entry, Loc, Command
<1>5. CASE RmtreePart(p) \/ Crash(p)
  BY <1>5 DEF RmtreePart, Crash, Abandon
<1>6. CASE SubmitStep(p)
  BY <1>6 DEF SubmitStep, SubmitWipe, SubmitCopy, SubmitParse, SubmitUndo, SubmitMeta,
      SubmitCommit, SubmitDiscard, SubmitPurge, SubmitFault, SubmitLateUndo
<1>7. CASE CheckStep(p)
  <2>1. CASE CheckInit(p) \/ CheckEnsure(p) \/ CheckMark(p)
    BY <2>1 DEF CheckInit, CheckEnsure, CheckMark
  <2>2. CASE CheckPrepare(p) \/ CheckRun(p)
    <3>1. pc[p] \in Checking /\ loc'[p].cmd = loc[p].cmd
      BY <2>2 DEF CheckPrepare, CheckRun, Branch, Loc
    <3> QED
      BY <3>1
  <2>3. CASE SnapDelete(p) \/ SnapInsert(p) \/ Swallowed(p) \/ CheckFault(p)
    BY <2>3 DEF SnapDelete, SnapInsert, AfterSnap, Swallowed, CheckFault, Loc
  <2> QED
    BY <1>7, <2>1, <2>2, <2>3 DEF CheckStep
<1>8. CASE PassStep(p)
  BY <1>8 DEF PassStep, PassEvent, PassActive, ArchiveRmSrc, ArchiveMvSrc, ArchiveProduct
<1>9. CASE FailStep(p)
  BY <1>9 DEF FailStep, RevertEvent, RevertState, RejectRmSrc, RejectCpSrc, RejectProducts,
      RejectUnstage, RejectEvent, RejectState, Abandon
<1>10. CASE RestageStep(p)
  BY <1>10 DEF RestageStep, RestageRecall, RestagePurge, RestageState, RestageDiscard, Loc
<1>11. CASE OperatorStep(p)
  BY <1>11 DEF OperatorStep, ApproveState, CancelUnstage, CancelDelete, ClearUnstage, RmDisk,
      RmDelete
<1> QED
  BY <1>3, <1>4, <1>5, <1>6, <1>7, <1>8, <1>9, <1>10, <1>11 DEF Continue

\* While a check is in the section no other is queued, and none begins.
LEMMA Alone ==
    ASSUME SoleChecker, IInv, Manned, NEW p \in Proc, section \in Checking
    PROVE  ~Waiting(p) /\ ~CheckScan(p)
<1>1. lock \in Proc /\ section = pc[lock] /\ "check" \in May[lock]
  BY DEF Manned, section, IInv, Core, Control, Checking, Judging, PassBody, Snapping,
     Rejecting, Reverting
<1>2. pc[lock] # "c_init" /\ pc[lock] # "lock" /\ pc[lock] # "idle"
  BY <1>1 DEF Checking, Judging, PassBody, Snapping, Rejecting, Reverting
<1>3. Waiting(p) \/ CheckScan(p) => "check" \in May[p] /\ pc[p] \in {"c_init", "lock", "idle"}
  BY DEF Manned, Waiting, CheckScan, At
<1> QED
  BY <1>1, <1>2, <1>3 DEF SoleChecker

LEMMA ScreenedGrows ==
    ASSUME IInv, NEW p \in Proc, Begin(p) \/ Continue(p) \/ Crash(p)
    PROVE  screened \subseteq screened'
<1> USE DEF ghost
<1>1. CASE Begin(p) \/ CheckInit(p) \/ SubmitLateUndo(p) \/ RmtreePart(p)
  BY <1>1, Untouched
<1>2. CASE TryLock(p) \/ Crash(p)
  BY <1>2 DEF TryLock, Crash
<1>3. CASE SubmitStep(p)
  BY <1>3 DEF SubmitStep, SubmitWipe, SubmitCopy, SubmitParse, SubmitUndo, SubmitMeta,
      SubmitCommit, SubmitDiscard, SubmitPurge, SubmitFault, SubmitLateUndo
<1>4. CASE CheckStep(p)
  BY <1>4 DEF CheckStep, CheckInit, CheckEnsure, CheckMark, CheckPrepare, CheckRun,
      CheckFault, SnapDelete, SnapInsert, Swallowed
<1>5. CASE PassStep(p) \/ FailStep(p)
  BY <1>5 DEF PassStep, PassEvent, PassActive, ArchiveRmSrc, ArchiveMvSrc, ArchiveProduct,
      FailStep, RevertEvent, RevertState, RejectRmSrc, RejectCpSrc, RejectProducts,
      RejectUnstage, RejectEvent, RejectState
<1>6. CASE RestageStep(p) \/ OperatorStep(p)
  BY <1>6 DEF RestageStep, RestageRecall, RestagePurge, RestageState, RestageDiscard,
      OperatorStep, ApproveState, CancelUnstage, CancelDelete, ClearUnstage, RmDisk, RmDelete
<1> QED
  BY <1>1, <1>2, <1>3, <1>4, <1>5, <1>6 DEF Continue

-----------------------------------------------------------------------------
\* The code follows the check: what the stages ran is what is archived.
Unmoved == {"p_event", "p_active", "p_rmsrc", "p_mvsrc", "j_rmsrc", "j_cpsrc"} \cup Snapping
Moved == {"p_dump", "p_pnl", "p_pool"} \cup (Rejecting \ {"j_rmsrc", "j_cpsrc"})

Good == Exists(disk.lib) /\ disk.lib.code \in screened

Followed ==
    /\ row.status = "active" =>
          Good \/ section \in Emptied \cup Snapping \cup Reverting \cup {"p_rmsrc", "p_mvsrc"}
    /\ row.status = "rejected" /\ row.lastFail = "correlation" => Good \/ section \in Emptied
    /\ section \in PassBody \cup Snapping \cup Rejecting /\ work.why \in {"pass", "correlation"}
          => work.ran \in screened
    /\ section \in Unmoved /\ Exists(disk.stg) => disk.stg.code = work.ran
    /\ section \in Moved => disk.lib.code = work.ran
    /\ section = "j_state" /\ row.lastFail = "correlation" => work.why = "correlation"

\* Without crashes; errors that a command handles may happen.
Screened == crashes = 0 => Followed

LEMMA ScreenedStep ==
    ASSUME SoleChecker, IInv, Course, Sourced, Manned, Screened, NEW p \in Proc,
           Begin(p) \/ Continue(p) \/ Crash(p)
    PROVE  Screened'
<1>1. SUFFICES ASSUME crashes' = 0 PROVE Followed'
  BY DEF Screened
<1>2. crashes = 0 /\ ~Crash(p)
  BY <1>1, Failing
<1>3. Followed /\ screened \subseteq screened'
  BY <1>2, ScreenedGrows DEF Screened
<1> USE DEF Unmoved, Moved, Emptied, Snapping, Rejecting, Reverting, Recalling, PassBody,
    Followed, Good
<1>4. CASE Begin(p) \/ CheckInit(p) \/ SubmitLateUndo(p) \/ RmtreePart(p)
  <2>1. /\ section' = section /\ work' = work /\ row' = row
        /\ disk'.lib = disk.lib /\ screened' = screened
    BY <1>4, Outside, Untouched
  <2>2. section \in Unmoved => ~CheckInit(p)
    BY Alone DEF CheckInit, Waiting, At, Checking, Judging
  <2>3. section \in Unmoved /\ Exists(disk'.stg) => disk'.stg.code = work.ran
    <3>1. CASE RmtreePart(p)
      <4>1. Exists(disk.stg) /\ disk'.stg.code = disk.stg.code
        BY <3>1, Remains DEF Exists, NoDir
      <4> QED
        BY <1>3, <4>1
    <3>2. CASE disk'.stg = disk.stg \/ disk'.stg = NoDir
      BY <1>3, <3>2 DEF Exists
    <3> QED
      BY <1>4, <2>2, <3>1, <3>2, Untouched
  <2> QED
    BY <1>3, <2>1, <2>3 DEF Exists
<1>5. CASE TryLock(p)
  BY <1>5, <1>3, Enters DEF TryLock, Entry, Command
<1>6. CASE Crash(p)
  BY <1>6, <1>3, Dies, <1>2 DEF Crash
<1>7. CASE SubmitStep(p) /\ ~SubmitLateUndo(p)
  BY <1>7, <1>3, SubmitEffects DEF SubmitEffect, SubmitBreaks, Copied, Step, End, SameRow,
      Record, Put, SameDisk, PutStaging, PutLibrary, PutProducts, Course, Sourced
<1>8. CASE CheckStep(p) /\ ~CheckInit(p)
  BY <1>8, <1>3, CheckEffects DEF CheckEffect, CheckBreaks, StagesEnd, AfterRun, Step, End,
      SameRow, Record, Put, SameDisk, PutStaging, PutLibrary, PutProducts, Course, Sourced,
      Outcome
<1>9. CASE PassStep(p)
  <2>1. CASE section \in {"p_event", "p_active"}
    BY <1>9, <2>1, <1>3, PassEffects DEF PassEffect, Step, End, SameRow, Record, Put, SameDisk,
        PutStaging, PutLibrary, PutProducts, Course, Sourced
  <2>2. CASE section = "p_rmsrc"
    BY <1>9, <2>2, <1>3, PassEffects DEF PassEffect, Step, End, SameRow, Record, Put, SameDisk,
        PutStaging, PutLibrary, PutProducts, Course, Sourced
  <2>3. CASE section = "p_mvsrc"
    BY <1>9, <2>3, <1>3, PassEffects DEF PassEffect, Step, End, SameRow, Record, Put, SameDisk,
        PutStaging, PutLibrary, PutProducts, Course, Sourced
  <2>4. CASE section \in {"p_dump", "p_pnl", "p_pool"}
    BY <1>9, <2>4, <1>3, PassEffects DEF PassEffect, Step, End, SameRow, Record, Put, SameDisk,
        PutStaging, PutLibrary, PutProducts, Course, Sourced
  <2> QED
    BY <1>9, <2>1, <2>2, <2>3, <2>4, PassEffects DEF PassEffect, Step, End
<1>10. CASE FailStep(p)
  <2>1. CASE section \in Reverting
    BY <1>10, <2>1, <1>3, FailEffects DEF FailEffect, Step, End, SameRow, Record, Put, SameDisk,
        PutStaging, PutLibrary, PutProducts, Course, Sourced
  <2>2. CASE section = "j_rmsrc"
    BY <1>10, <2>2, <1>3, FailEffects DEF FailEffect, Step, End, SameRow, Record, Put, SameDisk,
        PutStaging, PutLibrary, PutProducts, Course, Sourced
  <2>3. CASE section = "j_cpsrc"
    BY <1>10, <2>3, <1>3, FailEffects DEF FailEffect, Step, End, SameRow, Record, Put, SameDisk,
        PutStaging, PutLibrary, PutProducts, Course, Sourced
  <2>4. CASE section \in {"j_keep_pnl", "j_keep_dump", "j_clear", "j_unstage"}
    BY <1>10, <2>4, <1>3, FailEffects DEF FailEffect, Step, End, SameRow, Record, Put, SameDisk,
        PutStaging, PutLibrary, PutProducts, Course, Sourced
  <2>5. CASE section = "j_event"
    BY <1>10, <2>5, <1>3, FailEffects DEF FailEffect, Step, End, SameRow, Record, Put, SameDisk,
        PutStaging, PutLibrary, PutProducts, Course, Sourced
  <2>6. CASE section = "j_state"
    BY <1>10, <2>6, <1>3, FailEffects DEF FailEffect, Step, End, SameRow, Record, Put, SameDisk,
        PutStaging, PutLibrary, PutProducts, Course, Sourced
  <2> QED
    BY <1>10, <2>1, <2>2, <2>3, <2>4, <2>5, <2>6, FailEffects DEF FailEffect, Step, End
<1>11. CASE RestageStep(p)
  BY <1>11, <1>3, RestageEffects DEF RestageEffect, Step, End, SameRow, Record, Put,
      SameDisk, PutStaging, PutLibrary, PutProducts, Course, Sourced, Restageable
<1>12. CASE OperatorStep(p)
  BY <1>12, <1>3, OperatorEffects DEF OperatorEffect, Step, End, SameRow, Record, Put,
      SameDisk, PutStaging, PutLibrary, PutProducts, Course, Sourced, CorrelationRejected
<1> QED
  BY <1>4, <1>5, <1>6, <1>7, <1>8, <1>9, <1>10, <1>11, <1>12 DEF Continue, SubmitStep,
      CheckStep

-----------------------------------------------------------------------------
\* What is queued for a check waits for one: up to the first crash or fault a
\* process that scanned the factor finds it unknown or SUBMITTED when it gets the
\* lock.  A command that is about to put the status right is excepted.
Fresh == row.status \in {"none", "submitted"}
Turning == {"s_commit"} \cup Recalling
Unstaged == {"p_dump", "p_pnl", "p_pool", "j_event", "j_state"}

Queued ==
    crashes = 0 /\ faults = 0 =>
        /\ \A p \in Proc : Waiting(p) => Fresh \/ section \in Turning
        /\ disk.stg.meta => Fresh \/ section \in Turning \cup (Judging \ Unstaged)
        /\ section = "c_ensure" => Fresh
        /\ section = "c_mark" => row.status = "submitted"

\* The snapshot is that of the latest check, or not there.
Measured ==
    crashes = 0 /\ faults = 0 =>
        /\ Fresh => row.snap = "none" \/ section \in {"s_discard", "r_discard"}
        /\ row.status \in {"active", "rejected"} => row.snap \in {"none", "current"}
        /\ section \in {"c_prep", "c_run", "p_event", "p_active"} \cup Snapping \cup Reverting
              => row.snap = "none"
        /\ section \in Rejecting \ {"j_state"} => row.snap \in {"none", "ahead"}
        /\ section = "j_state" => row.snap \in {"none", "current"}

\* A copy in the pool is an active factor's.
Pooled ==
    crashes = 0 /\ faults = 0 =>
        /\ disk.pool # NoCode => row.status = "active" \/ section \in {"s_discard", "s_purge"}
        /\ section \in {"r_state", "m_delete"} => disk.pool = NoCode

\* A pnl is that of the archived code.
Printed ==
    crashes = 0 /\ faults = 0 =>
        /\ Fresh => disk.pnl = NoCode \/ section \in {"s_discard", "s_purge"}
        /\ section \in (Judging \ Moved) \cup {"p_dump", "p_pnl", "j_keep_pnl", "j_clear"}
              => disk.pnl = NoCode
        /\ row.status \in {"active", "rejected"} \/ section \in Moved
              => \/ disk.pnl \in {NoCode, disk.lib.code}
                 \/ section \in {"r_serving", "r_check", "m_stg", "m_check"}
        /\ section \in {"r_state", "m_delete"} => disk.pnl = NoCode

\* A process in the section does not go back to waiting.
LEMMA Stays ==
    ASSUME IInv, NEW p \in Proc, pc[p] \in Locked, Continue(p) \/ Crash(p)
    PROVE  ~Waiting(p)'
<1> SUFFICES pc'[p] \in Locked \cup {"idle", "s_late"}
  BY DEF Waiting, Locked, PassBody
<1> USE DEF At, Goto, Leave, IInv, Core, Control, Locked, PassBody
<1>1. CASE RmtreePart(p) \/ Crash(p) \/ TryLock(p)
  BY <1>1 DEF RmtreePart, Crash, Abandon, TryLock
<1>2. CASE SubmitStep(p)
  BY <1>2 DEF SubmitStep, SubmitWipe, SubmitCopy, SubmitParse, SubmitUndo, SubmitMeta,
      SubmitCommit, SubmitDiscard, SubmitPurge, SubmitFault, SubmitLateUndo
<1>3. CASE CheckStep(p)
  BY <1>3 DEF CheckStep, CheckInit, CheckEnsure, CheckMark, CheckPrepare, CheckRun, Branch,
      AfterRun, SnapDelete, SnapInsert, AfterSnap, Swallowed, CheckFault
<1>4. CASE PassStep(p)
  BY <1>4 DEF PassStep, PassEvent, PassActive, ArchiveRmSrc, ArchiveMvSrc, ArchiveProduct
<1>5. CASE FailStep(p)
  BY <1>5 DEF FailStep, RevertEvent, RevertState, RejectRmSrc, RejectCpSrc, RejectProducts,
      RejectUnstage, RejectEvent, RejectState, Abandon
<1>6. CASE RestageStep(p)
  BY <1>6 DEF RestageStep, RestageRecall, RestagePurge, RestageState, RestageDiscard
<1>7. CASE OperatorStep(p)
  BY <1>7 DEF OperatorStep, ApproveState, CancelUnstage, CancelDelete, ClearUnstage, RmDisk,
      RmDelete
<1> QED
  BY <1>1, <1>2, <1>3, <1>4, <1>5, <1>6, <1>7 DEF Continue

\* Whoever waits waited before, or has just scanned the factor.
LEMMA Waits ==
    ASSUME IInv, Numbered, NEW p \in Proc, Begin(p) \/ Continue(p) \/ Crash(p),
           NEW q \in Proc, Waiting(q)'
    PROVE  Waiting(q) \/ CheckScan(q)
<1>1. CASE q # p
  BY <1>1, Others DEF Waiting
<1>2. CASE q = p /\ Begin(p)
  <2>1. CASE SubmitStart(p) \/ \E c \in Command \ {"submit", "check"}, o \in BOOLEAN : Start(p, c, o)
    BY <1>2, <2>1 DEF SubmitStart, Start, Waiting, NoLoc, IInv, Core, Control
  <2> QED
    BY <1>2, <2>1
    DEF Begin, RestageStart, ApproveStart, CancelStart, ClearStart, RmStart, Command
<1>3. CASE q = p /\ ~Begin(p)
  <2>1. pc[p] \notin Locked
    BY <1>3, Stays
  <2>2. CASE CheckInit(p)
    BY <1>3, <2>2 DEF CheckInit, At, Waiting
  <2>3. CASE Crash(p) \/ SubmitLateUndo(p)
    BY <1>3, <2>3 DEF Crash, Abandon, SubmitLateUndo, Leave, Waiting, IInv, Core, Control
  <2>4. CASE RmtreePart(p)
    BY <1>3, <2>4 DEF RmtreePart, Waiting
  <2>5. CASE TryLock(p)
    BY <1>3, <2>5 DEF TryLock, At, Leave, Entry, Waiting, IInv, Core, Control, Loc, Command
  <2> QED
    BY <1>3, <2>1, <2>2, <2>3, <2>4, <2>5, Holder DEF Continue, CheckStep, SubmitStep
<1> QED
  BY <1>1, <1>2, <1>3

LEMMA QueuedStep ==
    ASSUME SoleChecker, IInv, Numbered, Course, Sourced, Kept, Consumed, Manned, Queued,
           NEW p \in Proc, Begin(p) \/ Continue(p) \/ Crash(p)
    PROVE  Queued'
<1>1. SUFFICES ASSUME crashes' = 0, faults' = 0 PROVE Queued'
  BY DEF Queued
<1>2. crashes = 0 /\ ~Crash(p) /\ faults = 0
  BY <1>1, Failing
<1>3. /\ \A q \in Proc : Waiting(q) => Fresh \/ section \in Turning
      /\ disk.stg.meta => Fresh \/ section \in Turning \cup (Judging \ Unstaged)
      /\ section = "c_ensure" => Fresh
      /\ section = "c_mark" => row.status = "submitted"
  BY <1>2 DEF Queued
\* Where a process waits for its check.
<1>4. ASSUME NEW q \in Proc, Waiting(q)'
      PROVE  section \notin Checking /\ (Fresh \/ section \in Turning)
  <2>1. section \notin Checking
    BY <1>4, Waits, Alone
  <2>2. CheckScan(q) => disk.stg.meta
    BY DEF CheckScan
  <2> QED
    BY <1>3, <1>4, <2>1, <2>2, Waits DEF Checking
<1>5. SUFFICES /\ (\E q \in Proc : Waiting(q)') => Fresh' \/ section' \in Turning
               /\ disk'.stg.meta => Fresh' \/ section' \in Turning \cup (Judging \ Unstaged)
               /\ section' = "c_ensure" => Fresh'
               /\ section' = "c_mark" => row'.status = "submitted"
  BY DEF Queued
<1> USE DEF Fresh, Judging, Snapping, Rejecting, Reverting, Recalling, PassBody, Turning,
    Unstaged
<1>6. CASE Begin(p) \/ CheckInit(p) \/ SubmitLateUndo(p) \/ RmtreePart(p)
  <2>1. section' = section /\ row' = row
    BY <1>6, Outside
  <2>2. disk'.stg.meta => disk.stg.meta
    <3>1. CASE WriteXml(p)
      BY <3>1, XmlWritten
    <3>2. CASE RmtreePart(p)
      BY <3>2, Remains
    <3>3. CASE disk'.stg = NoDir
      BY <3>3 DEF NoDir
    <3> QED
      BY <1>6, <3>1, <3>2, <3>3, Untouched
  <2> QED
    BY <1>3, <1>4, <2>1, <2>2
<1>7. CASE TryLock(p)
  BY <1>7, <1>3, <1>4, Enters DEF TryLock, Entry, Command, Waiting
<1>8. CASE Crash(p)
  BY <1>8, <1>3, <1>4, Dies, <1>2 DEF Crash
<1>9. CASE SubmitStep(p) /\ ~SubmitLateUndo(p)
  BY <1>9, <1>3, <1>4, SubmitEffects, <1>1 DEF SubmitEffect, SubmitBreaks, Copied, Step,
      End, SameRow, Record, Put, SameDisk, PutStaging, PutLibrary, PutProducts, Checking,
      Course, Consumed, Sourced, NoDir
<1>10. CASE CheckStep(p) /\ ~CheckInit(p)
  BY <1>10, <1>3, <1>4, CheckEffects, <1>1 DEF CheckEffect, CheckBreaks, StagesEnd,
      AfterRun, Step, End, SameRow, Record, Put, SameDisk, PutStaging, PutLibrary, PutProducts,
      Checking, Course, Consumed, Sourced, NoDir, Outcome
<1>11. CASE PassStep(p)
  BY <1>11, <1>3, <1>4, PassEffects, <1>1 DEF PassEffect, Step, End, SameRow, Record, Put,
      SameDisk, PutStaging, PutLibrary, PutProducts, Checking, Course, Consumed, Sourced, NoDir,
      Kept, Staged
<1>12. CASE FailStep(p)
  <2>1. CASE section \in Reverting
    BY <1>12, <2>1, <1>3, <1>4, FailEffects DEF FailEffect, Step, End, SameRow, Record, Put,
        SameDisk, PutStaging, PutLibrary, PutProducts, Checking, Course, Exists, NoDir
  <2>2. CASE section \in {"j_rmsrc", "j_cpsrc"}
    BY <1>12, <2>2, <1>3, <1>4, FailEffects DEF FailEffect, Step, End, SameRow, Record, Put,
        SameDisk, PutStaging, PutLibrary, PutProducts, Checking, Course, Exists, NoDir
  <2>3. CASE section \in {"j_keep_pnl", "j_keep_dump", "j_clear"}
    BY <1>12, <2>3, <1>3, <1>4, FailEffects DEF FailEffect, Step, End, SameRow, Record, Put,
        SameDisk, PutStaging, PutLibrary, PutProducts, Checking, Course, Exists, NoDir
  <2>4. CASE section = "j_unstage"
    BY <1>12, <2>4, <1>3, <1>4, FailEffects DEF FailEffect, Step, End, SameRow, Record, Put,
        SameDisk, PutStaging, PutLibrary, PutProducts, Checking, Course, Exists, NoDir
  <2>5. CASE section \in {"j_event", "j_state"}
    BY <1>12, <2>5, <1>3, <1>4, FailEffects DEF FailEffect, Step, End, SameRow, Record, Put,
        SameDisk, PutStaging, PutLibrary, PutProducts, Checking, Course, Exists, NoDir
  <2> QED
    BY <1>12, <2>1, <2>2, <2>3, <2>4, <2>5, FailEffects DEF FailEffect, Step, End
<1>13. CASE RestageStep(p)
  BY <1>13, <1>3, <1>4, RestageEffects, <1>1 DEF RestageEffect, Step, End, SameRow, Record,
      Put, SameDisk, PutStaging, PutLibrary, PutProducts, Checking, Course, Consumed, Sourced,
      NoDir, Restageable
<1>14. CASE OperatorStep(p)
  BY <1>14, <1>3, <1>4, OperatorEffects, <1>1 DEF OperatorEffect, Step, End, SameRow,
      Record, Put, SameDisk, PutStaging, PutLibrary, PutProducts, Checking, Course, Consumed,
      Sourced, NoDir, CorrelationRejected
<1> QED
  BY <1>6, <1>7, <1>8, <1>9, <1>10, <1>11, <1>12, <1>13, <1>14 DEF Continue, SubmitStep,
      CheckStep

LEMMA MeasuredStep ==
    ASSUME SoleChecker, IInv, Course, Kept, Consumed, Queued, Measured, NEW p \in Proc,
           Begin(p) \/ Continue(p) \/ Crash(p)
    PROVE  Measured'
<1>1. SUFFICES ASSUME crashes' = 0, faults' = 0 PROVE Measured'
  BY DEF Measured
<1>2. crashes = 0 /\ ~Crash(p) /\ faults = 0
  BY <1>1, Failing
<1> USE DEF Fresh, Judging, Snapping, Rejecting, Reverting, Recalling, PassBody, Measured
<1>3. CASE Begin(p) \/ CheckInit(p) \/ SubmitLateUndo(p) \/ RmtreePart(p)
  BY <1>3, <1>1, <1>2, Outside, Untouched
<1>4. CASE TryLock(p)
  BY <1>4, <1>1, <1>2, Enters DEF TryLock, Entry, Command
<1>5. CASE Crash(p)
  BY <1>5, <1>1, <1>2, Dies, <1>2 DEF Crash
<1>6. CASE SubmitStep(p) /\ ~SubmitLateUndo(p)
  BY <1>6, <1>1, <1>2, SubmitEffects DEF SubmitEffect, SubmitBreaks, Copied, Step, End,
      SameRow, Record, Put, SameDisk, PutStaging, PutLibrary, PutProducts, Course, Consumed,
      Queued
<1>7. CASE CheckStep(p) /\ ~CheckInit(p)
  BY <1>7, <1>1, <1>2, CheckEffects DEF CheckEffect, CheckBreaks, StagesEnd, AfterRun, Step,
      End, SameRow, Record, Put, SameDisk, PutStaging, PutLibrary, PutProducts, Course,
      Consumed, Queued, Outcome
<1>8. CASE PassStep(p)
  BY <1>8, <1>1, <1>2, PassEffects DEF PassEffect, Step, End, SameRow, Record, Put,
      SameDisk, PutStaging, PutLibrary, PutProducts, Course, Consumed, Queued, Appended, Kept,
      Staged
<1>9. CASE FailStep(p)
  BY <1>9, <1>1, <1>2, FailEffects DEF FailEffect, Step, End, SameRow, Record, Put,
      SameDisk, PutStaging, PutLibrary, PutProducts, Course, Consumed, Queued, Appended
<1>10. CASE RestageStep(p)
  BY <1>10, <1>1, <1>2, RestageEffects DEF RestageEffect, Step, End, SameRow, Record, Put,
      SameDisk, PutStaging, PutLibrary, PutProducts, Course, Consumed, Queued, Restageable
<1>11. CASE OperatorStep(p)
  BY <1>11, <1>1, <1>2, OperatorEffects DEF OperatorEffect, Step, End, SameRow, Record, Put,
      SameDisk, PutStaging, PutLibrary, PutProducts, Course, Consumed, Queued,
      CorrelationRejected
<1> QED
  BY <1>3, <1>4, <1>5, <1>6, <1>7, <1>8, <1>9, <1>10, <1>11 DEF Continue, SubmitStep,
      CheckStep

LEMMA PooledStep ==
    ASSUME SoleChecker, IInv, Course, Consumed, Queued, Pooled, NEW p \in Proc,
           Begin(p) \/ Continue(p) \/ Crash(p)
    PROVE  Pooled'
<1>1. SUFFICES ASSUME crashes' = 0, faults' = 0 PROVE Pooled'
  BY DEF Pooled
<1>2. crashes = 0 /\ ~Crash(p) /\ faults = 0
  BY <1>1, Failing
<1> USE DEF Fresh, Judging, Snapping, Rejecting, Reverting, Recalling, PassBody, Pooled
<1>3. CASE Begin(p) \/ CheckInit(p) \/ SubmitLateUndo(p) \/ RmtreePart(p)
  BY <1>3, <1>1, <1>2, Outside, Untouched
<1>4. CASE TryLock(p)
  BY <1>4, <1>1, <1>2, Enters DEF TryLock, Entry, Command
<1>5. CASE Crash(p)
  BY <1>5, <1>1, <1>2, Dies, <1>2 DEF Crash
<1>6. CASE SubmitStep(p) /\ ~SubmitLateUndo(p)
  BY <1>6, <1>1, <1>2, SubmitEffects DEF SubmitEffect, SubmitBreaks, Copied, Step, End,
      SameRow, Record, Put, SameDisk, PutStaging, PutLibrary, PutProducts, Course, Consumed,
      Queued
<1>7. CASE CheckStep(p) /\ ~CheckInit(p)
  BY <1>7, <1>1, <1>2, CheckEffects DEF CheckEffect, CheckBreaks, StagesEnd, AfterRun, Step,
      End, SameRow, Record, Put, SameDisk, PutStaging, PutLibrary, PutProducts, Course,
      Consumed, Queued, Outcome
<1>8. CASE PassStep(p)
  BY <1>8, <1>1, <1>2, PassEffects DEF PassEffect, Step, End, SameRow, Record, Put,
      SameDisk, PutStaging, PutLibrary, PutProducts, Course, Consumed, Queued
<1>9. CASE FailStep(p)
  BY <1>9, <1>1, <1>2, FailEffects DEF FailEffect, Step, End, SameRow, Record, Put,
      SameDisk, PutStaging, PutLibrary, PutProducts, Course, Consumed, Queued
<1>10. CASE RestageStep(p)
  BY <1>10, <1>1, <1>2, RestageEffects DEF RestageEffect, Step, End, SameRow, Record, Put,
      SameDisk, PutStaging, PutLibrary, PutProducts, Course, Consumed, Queued, Restageable
<1>11. CASE OperatorStep(p)
  <2>1. section = "x_delete" => row.status \in {"submitted", "checking"}
    BY <1>11, Holder DEF IInv, Core, Promise
  <2> QED
    BY <1>11, <2>1, <1>1, <1>2, OperatorEffects DEF OperatorEffect, Step, End, SameRow,
       Record, Put,
        SameDisk, PutStaging, PutLibrary, PutProducts, Course, Consumed, Queued,
        CorrelationRejected
<1> QED
  BY <1>3, <1>4, <1>5, <1>6, <1>7, <1>8, <1>9, <1>10, <1>11 DEF Continue, SubmitStep,
      CheckStep

LEMMA PrintedStep ==
    ASSUME SoleChecker, IInv, Course, Consumed, Screened, Queued, Printed, NEW p \in Proc,
           Begin(p) \/ Continue(p) \/ Crash(p)
    PROVE  Printed'
<1>1. SUFFICES ASSUME crashes' = 0, faults' = 0 PROVE Printed'
  BY DEF Printed
<1>2. crashes = 0 /\ ~Crash(p) /\ faults = 0
  BY <1>1, Failing
<1> USE DEF Fresh, Judging, Snapping, Rejecting, Reverting, Recalling, PassBody, Moved,
    Printed
<1>3. CASE Begin(p) \/ CheckInit(p) \/ SubmitLateUndo(p) \/ RmtreePart(p)
  BY <1>3, <1>1, <1>2, Outside, Untouched
<1>4. CASE TryLock(p)
  BY <1>4, <1>1, <1>2, Enters DEF TryLock, Entry, Command
<1>5. CASE Crash(p)
  BY <1>5, <1>1, <1>2, Dies, <1>2 DEF Crash
<1>6. CASE SubmitStep(p) /\ ~SubmitLateUndo(p)
  BY <1>6, <1>1, <1>2, SubmitEffects DEF SubmitEffect, SubmitBreaks, Copied, Step, End,
      SameRow, Record, Put, SameDisk, PutStaging, PutLibrary, PutProducts, Course, Consumed,
      Queued
<1>7. CASE CheckStep(p) /\ ~CheckInit(p)
  BY <1>7, <1>1, <1>2, CheckEffects DEF CheckEffect, CheckBreaks, StagesEnd, AfterRun, Step,
      End, SameRow, Record, Put, SameDisk, PutStaging, PutLibrary, PutProducts, Course,
      Consumed, Queued, Outcome
<1>8. CASE PassStep(p)
  BY <1>8, <1>1, <1>2, PassEffects DEF PassEffect, Step, End, SameRow, Record, Put,
      SameDisk, PutStaging, PutLibrary, PutProducts, Course, Consumed, Queued, Screened,
      Followed
<1>9. CASE FailStep(p)
  BY <1>9, <1>1, <1>2, FailEffects DEF FailEffect, Step, End, SameRow, Record, Put,
      SameDisk, PutStaging, PutLibrary, PutProducts, Course, Consumed, Queued, Screened,
      Followed
<1>10. CASE RestageStep(p)
  BY <1>10, <1>1, <1>2, RestageEffects DEF RestageEffect, Step, End, SameRow, Record, Put,
      SameDisk, PutStaging, PutLibrary, PutProducts, Course, Consumed, Queued, Restageable
<1>11. CASE OperatorStep(p)
  <2>1. section = "x_delete" => row.status \in {"submitted", "checking"}
    BY <1>11, Holder DEF IInv, Core, Promise
  <2> QED
    BY <1>11, <2>1, <1>1, <1>2, OperatorEffects DEF OperatorEffect, Step, End, SameRow,
       Record, Put,
        SameDisk, PutStaging, PutLibrary, PutProducts, Course, Consumed, Queued,
        CorrelationRejected
<1> QED
  BY <1>3, <1>4, <1>5, <1>6, <1>7, <1>8, <1>9, <1>10, <1>11 DEF Continue, SubmitStep,
      CheckStep

-----------------------------------------------------------------------------
KInv == /\ SInv /\ Manned
        /\ Screened /\ Queued /\ Measured /\ Pooled /\ Printed

LEMMA InitKInv == Init => KInv
<1> SUFFICES ASSUME Init PROVE KInv
  OBVIOUS
<1>1. SInv
  BY InitSInv
<1>2. /\ section = "free" /\ row.status = "none" /\ row.snap = "none"
      /\ disk.stg = NoDir /\ disk.pnl = NoCode /\ disk.pool = NoCode
      /\ \A p \in Proc : pc[p] = "idle" /\ loc[p].cmd = "none"
  BY DEF Init, section, NoLoc
<1> USE DEF Judging, PassBody, Snapping, Rejecting, Reverting, Recalling
<1>3. Manned /\ Screened
  BY <1>2 DEF Manned, Checking, Screened, Followed, Unmoved, Moved
<1>4. Queued /\ Measured /\ Pooled /\ Printed
  BY <1>2 DEF Queued, Waiting, Fresh, NoDir, Measured, Pooled, Printed, Moved
<1> QED
  BY <1>1, <1>3, <1>4 DEF KInv

LEMMA NextKInv ==
    ASSUME SoleChecker
    PROVE  KInv /\ [Next]_vars => KInv'
<1> SUFFICES ASSUME KInv, [Next]_vars PROVE KInv'
  OBVIOUS
<1>1. SInv'
  BY NextSInv DEF KInv
<1>2. CASE Next
  <2>1. PICK p \in Proc : Begin(p) \/ Continue(p) \/ Crash(p)
    BY <1>2 DEF Next
  <2>2. Manned' /\ Screened' /\ Queued'
    BY <2>1, MannedStep, ScreenedStep, QueuedStep DEF KInv, SInv
  <2>3. Measured' /\ Pooled' /\ Printed'
    BY <2>1, MeasuredStep, PooledStep, PrintedStep DEF KInv, SInv
  <2> QED
    BY <1>1, <2>2, <2>3 DEF KInv
<1>3. CASE UNCHANGED vars
  <2>1. section' = section /\ work' = work
    BY <1>3 DEF vars, section, work
  <2>2. Manned' /\ Screened' /\ Queued'
    BY <1>3, <2>1 DEF vars, KInv, Manned, Screened, Followed, Good, Exists, Queued, Waiting,
       Fresh
  <2>3. Measured' /\ Pooled' /\ Printed'
    BY <1>3, <2>1 DEF vars, KInv, Measured, Pooled, Printed, Fresh
  <2> QED
    BY <1>1, <2>2, <2>3 DEF KInv
<1> QED
  BY <1>2, <1>3

\* What holds at every step under factor_lock when one process checks.
THEOREM CheckerInvariance ==
    ASSUME SoleChecker
    PROVE  Spec => []KInv
<1>1. Init => KInv
  BY InitKInv
<1>2. KInv /\ [Next]_vars => KInv'
  BY NextKInv
<1> QED
  BY <1>1, <1>2, PTL DEF Spec

\* The archived code of an ACTIVE factor went through every stage of a check, or
\* failed correlation alone and was approved; up to the first crash, whatever
\* errors the commands handled (check.py:298-451, approve.py:25-28).
THEOREM ActiveScreened ==
    ASSUME SoleChecker
    PROVE  Spec => [](crashes = 0 => ActiveWasScreened)
<1>1. KInv => (crashes = 0 => ActiveWasScreened)
  BY DEF KInv, Screened, Followed, Good, ActiveWasScreened, Free, section, Emptied, Recalling,
      Snapping, Reverting
<1> QED
  BY <1>1, CheckerInvariance, PTL

\* Up to the first crash or fault a snapshot is the measurement of the latest
\* check event (check.py:353-376, factor.py:12-15).
THEOREM SnapshotsCurrent ==
    ASSUME SoleChecker
    PROVE  Spec => [](crashes = 0 /\ faults = 0 => SnapshotIsLatestCheck)
<1>1. KInv => (crashes = 0 /\ faults = 0 => SnapshotIsLatestCheck)
  <2> SUFFICES ASSUME KInv, crashes = 0, faults = 0, lock = NoProc
               PROVE  row.snap \in {"none", "current"}
    BY DEF SnapshotIsLatestCheck, Free
  <2>1. section = "free"
    BY DEF section
  <2>2. row.status # "checking"
    BY <2>1 DEF KInv, SInv, Consumed, Judging, PassBody, Snapping, Rejecting, Reverting
  <2>3. Fresh \/ row.status \in {"active", "rejected"}
    BY <2>2 DEF KInv, SInv, IInv, Core, Data, Row, Status, Fresh
  <2> QED
    BY <2>1, <2>3 DEF KInv, Measured
<1> QED
  BY <1>1, CheckerInvariance, PTL

\* Up to the first crash or fault the correlation pool holds ACTIVE factors only
\* (repository.py:583-586, submit.py:152-156, restage.py:119-122).
THEOREM PoolIsActive ==
    ASSUME SoleChecker
    PROVE  Spec => [](crashes = 0 /\ faults = 0 => PoolHoldsOnlyActive)
<1>1. KInv => (crashes = 0 /\ faults = 0 => PoolHoldsOnlyActive)
  BY DEF KInv, Pooled, PoolHoldsOnlyActive, Free, section
<1> QED
  BY <1>1, CheckerInvariance, PTL

\* Up to the first crash or fault a pnl in alpha_pnl is that of the archived
\* code (submit.py:152-156, restage.py:119-122, repository.py:583-605).
THEOREM PnlFollowsSource ==
    ASSUME SoleChecker
    PROVE  Spec => [](crashes = 0 /\ faults = 0 => PnlMatchesSource)
<1>1. KInv => (crashes = 0 /\ faults = 0 => PnlMatchesSource)
  BY DEF KInv, Printed, PnlMatchesSource, Free, section
<1> QED
  BY <1>1, CheckerInvariance, PTL

-----------------------------------------------------------------------------
(***************************************************************************)
(* The refinement: what each step does to the status and entered_at.       *)
(***************************************************************************)
LEMMA LifecycleStep ==
    ASSUME KInv, crashes = 0, faults = 0, faults' = 0,
           NEW p \in Proc, Begin(p) \/ Continue(p) \/ Crash(p)
    PROVE  Abstract!LifecycleNext \/ UNCHANGED Abstract!lifecycle
<1> USE DEF Abstract!LifecycleNext, Abstract!lifecycle, Abstract!Unknown, At
<1>1. /\ IInv /\ Course /\ row \in Row
      /\ section \in Reverting => row.status = "checking"
      /\ section = "c_mark" => row.status = "submitted"
  BY DEF KInv, SInv, IInv, Core, Data, Consumed, Queued
<1>2. /\ row.status = "none" => row.entered = FALSE
      /\ section = "x_delete" => row.entered = FALSE /\ row.status \in {"submitted", "checking"}
  BY <1>1 DEF IInv, Core, RowInv, Promise, Control, section, Row
<1>3. ~CheckFault(p) /\ ~Swallowed(p)
  BY <1>1, Failing
<1>4. CASE Begin(p) \/ CheckInit(p) \/ SubmitLateUndo(p) \/ RmtreePart(p)
  BY <1>1, <1>4, Outside
<1>5. CASE TryLock(p)
  BY <1>5 DEF TryLock
<1>6. CASE Crash(p)
  BY <1>1, <1>6 DEF Crash, Abandon, Row
<1>7. CASE SubmitStep(p) /\ ~SubmitLateUndo(p)
  BY <1>1, <1>2, <1>7 DEF SubmitStep, SubmitWipe, SubmitCopy, SubmitParse, SubmitUndo,
     SubmitMeta,
      SubmitCommit, SubmitDiscard, SubmitPurge, SubmitFault, NoRow, Row,
      Abstract!Submit, Abstract!Overwrite
<1>8. CASE CheckStep(p) /\ ~CheckInit(p)
  BY <1>1, <1>2, <1>3, <1>8, Holder DEF CheckStep, CheckEnsure, CheckMark, CheckPrepare,
     CheckRun,
      SnapDelete, SnapInsert, NoRow, Row, Abstract!Submit, Abstract!BeginCheck
<1>9. CASE PassStep(p)
  BY <1>1, <1>9, Holder DEF PassStep, PassEvent, PassActive, ArchiveRmSrc, ArchiveMvSrc,
      ArchiveProduct, Course, PassBody, Row, Abstract!Pass
<1>10. CASE FailStep(p)
  BY <1>1, <1>10, Holder DEF FailStep, RevertEvent, RevertState, RejectRmSrc, RejectCpSrc,
      RejectProducts, RejectUnstage, RejectEvent, RejectState, Abandon, Reverting, Rejecting,
      Course, Row, Abstract!Reject, Abstract!PutBack
<1>11. CASE RestageStep(p)
  BY <1>1, <1>11, Holder DEF RestageStep, RestageRecall, RestagePurge, RestageState,
      RestageDiscard, Course, Recalling, Row, Abstract!Restage
<1>12. CASE OperatorStep(p)
  <2>1. CASE CancelUnstage(p) \/ ClearUnstage(p) \/ RmDisk(p)
    BY <2>1 DEF CancelUnstage, ClearUnstage, RmDisk
  <2>2. CASE ApproveState(p)
    BY <1>1, <2>2 DEF ApproveState, CorrelationRejected, Row, Abstract!Approve
  <2>3. CASE CancelDelete(p)
    <3>1. section = "x_delete" /\ row' = NoRow
      BY <1>1, <1>12, <2>3, Holder DEF CancelDelete
    <3>2. row.status \in {"submitted", "checking"} /\ ~row.entered
      BY <1>2, <3>1
    <3>3. row'.status = "none" /\ row'.entered = FALSE
      BY <3>1 DEF NoRow
    <3>4. row'.entered = row.entered
      BY <1>2, <3>1, <3>3
    <3> QED
      BY <3>2, <3>3, <3>4 DEF Abstract!Cancel
  <2>4. CASE RmDelete(p)
    <3>1. row'.status = "none" /\ row'.entered = FALSE
      BY <2>4 DEF RmDelete, NoRow
    <3>2. CASE row.status = "none"
      BY <1>2, <3>1, <3>2
    <3>3. CASE row.status # "none"
      BY <3>1, <3>3 DEF Abstract!Remove, Abstract!Unknown
    <3> QED
      BY <3>2, <3>3
  <2> QED
    BY <1>12, <2>1, <2>2, <2>3, <2>4 DEF OperatorStep
<1> QED
  BY <1>4, <1>5, <1>6, <1>7, <1>8, <1>9, <1>10, <1>11, <1>12 DEF Continue, SubmitStep, CheckStep

\* One checking process, no crash and no I/O error: every command implements the
\* life cycle its readers see.  Each of the three is needed: a second check, a
\* process killed in the middle of an archive, or an error after it, leaves a
\* staging directory whose next check moves a factor that is not SUBMITTED.
THEOREM Refinement ==
    ASSUME SoleChecker, MaxCrashes = 0, MaxFaults = 0
    PROVE  Spec => Implements
<1>1. Init => Abstract!LifecycleInit
  BY DEF Init, Abstract!LifecycleInit, Abstract!Unknown
<1>2. KInv /\ KInv' /\ [Next]_vars => [Abstract!LifecycleNext]_(Abstract!lifecycle)
  <2> SUFFICES ASSUME KInv, KInv', [Next]_vars
               PROVE  Abstract!LifecycleNext \/ UNCHANGED Abstract!lifecycle
    OBVIOUS
  <2>1. crashes = 0 /\ faults = 0 /\ faults' = 0
    BY BoundAssumption DEF KInv, SInv, IInv, Core, Data
  <2>2. CASE Next
    BY <2>1, <2>2, LifecycleStep DEF Next
  <2>3. CASE UNCHANGED vars
    BY <2>3 DEF vars, Abstract!lifecycle
  <2> QED
    BY <2>2, <2>3
<1> QED
  BY <1>1, <1>2, CheckerInvariance, PTL DEF Spec, Implements, Abstract!Lifecycle

LEMMA ActiveStep ==
    ASSUME KInv, crashes = 0, faults = 0, faults' = 0,
           NEW p \in Proc, Begin(p) \/ Continue(p) \/ Crash(p),
           row.status = "active", row'.status # "active"
    PROVE  pc[p] \in {"r_state", "s_commit", "m_delete"}
<1> USE DEF At
<1>1. /\ IInv /\ Course /\ row \in Row
      /\ section \in Reverting => row.status = "checking"
      /\ section = "c_mark" => row.status = "submitted"
  BY DEF KInv, SInv, IInv, Core, Data, Consumed, Queued
<1>2. ~CheckFault(p) /\ ~Swallowed(p)
  BY <1>1, Failing
<1>0. section = "x_delete" => row.status # "active"
  BY <1>1 DEF IInv, Core, Promise, Control, section
<1>3. ~Begin(p) /\ ~CheckInit(p) /\ ~SubmitLateUndo(p) /\ ~RmtreePart(p)
  BY <1>1, Outside
<1>4. ~TryLock(p)
  BY DEF TryLock
<1>5. ~Crash(p)
  BY <1>1 DEF Crash, Abandon, Row
<1>6. CASE SubmitStep(p) /\ ~SubmitLateUndo(p)
  BY <1>1, <1>6 DEF SubmitStep, SubmitWipe, SubmitCopy, SubmitParse, SubmitUndo, SubmitMeta,
      SubmitCommit, SubmitDiscard, SubmitPurge, SubmitFault, Row
<1>7. CASE CheckStep(p) /\ ~CheckInit(p)
  BY <1>1, <1>2, <1>7, Holder DEF CheckStep, CheckEnsure, CheckMark, CheckPrepare, CheckRun,
      SnapDelete, SnapInsert, Row
<1>8. CASE PassStep(p)
  BY <1>1, <1>8 DEF PassStep, PassEvent, PassActive, ArchiveRmSrc, ArchiveMvSrc,
      ArchiveProduct, Row
<1>9. CASE FailStep(p)
  BY <1>1, <1>9, Holder DEF FailStep, RevertEvent, RevertState, RejectRmSrc, RejectCpSrc,
      RejectProducts, RejectUnstage, RejectEvent, RejectState, Abandon, Reverting, Rejecting,
      Course, Row
<1>10. CASE RestageStep(p)
  BY <1>1, <1>10 DEF RestageStep, RestageRecall, RestagePurge, RestageState, RestageDiscard, Row
<1>11. CASE OperatorStep(p)
  BY <1>0, <1>1, <1>11, Holder DEF OperatorStep, ApproveState, CorrelationRejected,
     CancelUnstage,
      CancelDelete, ClearUnstage, RmDisk, RmDelete, Row
<1> QED
  BY <1>3, <1>4, <1>5, <1>6, <1>7, <1>8, <1>9, <1>10, <1>11 DEF Continue

\* Under the same hypotheses ACTIVE is left by restage, submit --overwrite and
\* rm only, never because a check ran again (architecture.md:70-81).
THEOREM ActiveIsLeftByOperators ==
    ASSUME SoleChecker, MaxCrashes = 0, MaxFaults = 0
    PROVE  Spec => OnlyOperatorsLeaveActive
<1> DEFINE Left == row.status = "active" /\ row'.status # "active"
                      => \E p \in Proc : pc[p] \in {"r_state", "s_commit", "m_delete"}
<1>1. KInv /\ KInv' /\ [Next]_vars => [Left]_vars
  <2> SUFFICES ASSUME KInv, KInv', Next, row.status = "active", row'.status # "active"
               PROVE  \E p \in Proc : pc[p] \in {"r_state", "s_commit", "m_delete"}
    OBVIOUS
  <2>1. crashes = 0 /\ faults = 0 /\ faults' = 0
    BY BoundAssumption DEF KInv, SInv, IInv, Core, Data
  <2> QED
    BY <2>1, ActiveStep DEF Next
<1> QED
  BY <1>1, CheckerInvariance, PTL DEF Spec, OnlyOperatorsLeaveActive

=============================================================================
