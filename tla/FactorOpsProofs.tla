--------------------------- MODULE FactorOpsProofs ---------------------------
(***************************************************************************)
(* Proofs about FactorOps, for any set of processes, any assignment of     *)
(* commands to them, and any number of submissions, crashes and faults.    *)
(*                                                                         *)
(* The argument: a process inside factor_lock is alone there (LockHeld),   *)
(* and what the others do without the lock (queue a command, scan staging, *)
(* write an XML into staging, remove a staged copy) touches neither the    *)
(* row nor alpha_src.  So what a command established about the row and the *)
(* library under its lock (Promise) still holds at its next step.          *)
(***************************************************************************)
EXTENDS FactorOps, TLAPS

\* Where the processes are, and which of them has the lock; who else may hold it
\* (Doctor) is left open.
Control ==
    /\ pc \in [Proc -> Locked \cup Unlocked]
    /\ loc \in [Proc -> Loc]
    /\ LockHeld
    /\ \A p \in Proc : pc[p] \in {"lock", "c_init"} => loc[p].cmd # "none"

\* The row, the disk and the counters.
Data ==
    /\ row \in Row
    /\ disk \in Disk
    /\ gen \in Gens
    /\ screened \subseteq Code
    /\ crashes \in 0..MaxCrashes
    /\ faults \in 0..MaxFaults

RowInv ==
    /\ row.status = "none" => ~row.entered
    /\ row.status = "rejected" => row.lastFail # "none"

\* What process p may rely on at its present step.
Promise(p) ==
    /\ pc[p] = "x_delete" =>
          ~row.entered /\ ~Exists(disk.lib) /\ row.status \in {"submitted", "checking"}
    /\ pc[p] \in {"r_serving", "r_check", "r_state"} => row.status = loc[p].why
    /\ pc[p] \in NeedsRecord => row.status # "none"
    /\ pc[p] = "j_state" => row.lastFail # "none"

Core == Control /\ Data /\ RowInv /\ \A p \in Proc : Promise(p)

IInv == Core /\ lock \in Proc \cup {NoProc}

-----------------------------------------------------------------------------
LEMMA GotoKeeps ==
    ASSUME Control, NEW p \in Proc, pc[p] \in Locked, NEW l \in Locked, Goto(p, l)
    PROVE  /\ Control'
           /\ pc' = [pc EXCEPT ![p] = l]
           /\ loc' = loc
BY DEF Control, Goto, LockHeld, Locked, Unlocked, PassBody

LEMMA LeaveKeeps ==
    ASSUME Control, NEW p \in Proc, Leave(p)
    PROVE  /\ Control'
           /\ pc' = [pc EXCEPT ![p] = "idle"]
           /\ \A q \in Proc \ {p} : loc'[q] = loc[q]
<1>1. NoLoc \in Loc
  BY BoundAssumption DEF NoLoc, Loc, Gens, Why, Outcome, Status, Code, NoCode, Command
<1>2. "idle" \in Unlocked /\ "idle" \notin Locked
  BY DEF Locked, Unlocked, PassBody
<1>3. LockHeld'
  BY <1>2, ProcAssumption DEF Control, Leave, LockHeld
<1> QED
  BY <1>1, <1>2, <1>3 DEF Control, Leave

\* Nobody but p is at a step that relies on anything.
LEMMA Excluded ==
    ASSUME Control, NEW p \in Proc, pc[p] \in Locked,
           \A q \in Proc \ {p} : pc'[q] = pc[q]
    PROVE  \A q \in Proc \ {p} : Promise(q)'
<1>1. \A q \in Proc \ {p} : pc'[q] \notin Locked
  BY ProcAssumption DEF Control, LockHeld
<1> QED
  BY <1>1 DEF Promise, NeedsRecord, Locked, PassBody

\* A locked step that goes on, and one that ends the command.
LEMMA GotoStep ==
    ASSUME Core, NEW p \in Proc, NEW l \in Locked, pc[p] \in Locked, Goto(p, l),
           Data', RowInv', Promise(p)'
    PROVE  Core'
<1>1. Control' /\ \A q \in Proc \ {p} : pc'[q] = pc[q]
  BY GotoKeeps DEF Core, Control
<1> QED
  BY <1>1, Excluded DEF Core

LEMMA LeaveStep ==
    ASSUME Core, NEW p \in Proc, pc[p] \in Locked, Leave(p), Data', RowInv'
    PROVE  Core'
<1>1. Control' /\ pc' = [pc EXCEPT ![p] = "idle"]
  BY LeaveKeeps DEF Core
<1>2. \A q \in Proc \ {p} : pc'[q] = pc[q]
  BY <1>1 DEF Core, Control
<1>3. Promise(p)'
  <2>1. pc'[p] = "idle"
    BY <1>1 DEF Core, Control
  <2> QED
    BY <2>1 DEF Promise, NeedsRecord, PassBody
<1> QED
  BY <1>1, <1>2, <1>3, Excluded DEF Core

\* A locked step that leaves the row alone, outside the steps with more to promise.
Special == {"x_delete", "r_serving", "r_check", "r_state", "j_state"}

LEMMA QuietStep ==
    ASSUME Core, NEW p \in Proc, NEW l \in Locked, pc[p] \in Locked, Goto(p, l),
           Data', row' = row, l \notin Special,
           l \in NeedsRecord => pc[p] \in NeedsRecord \/ row.status # "none"
    PROVE  Core'
<1>1. RowInv'
  BY DEF Core, RowInv
<1>2. Promise(p)'
  <2>1. pc'[p] = l
    BY DEF Goto, Core, Control
  <2>2. l \in NeedsRecord => row.status # "none"
    BY DEF Core, Promise
  <2> QED
    BY <2>1, <2>2 DEF Promise, Special
<1> QED
  BY <1>1, <1>2, GotoStep

\* A locked step that also rewrites p's local variables.
LEMMA MoveKeeps ==
    ASSUME Control, NEW p \in Proc, NEW l \in Locked, NEW v \in Loc, pc[p] \in Locked,
           pc' = [pc EXCEPT ![p] = l], loc' = [loc EXCEPT ![p] = v], lock' = lock
    PROVE  /\ Control'
           /\ pc'[p] = l /\ loc'[p] = v
           /\ \A q \in Proc \ {p} : pc'[q] = pc[q]
BY DEF Control, LockHeld, Locked, Unlocked, PassBody

LEMMA MoveStep ==
    ASSUME Core, NEW p \in Proc, NEW l \in Locked, NEW v \in Loc, pc[p] \in Locked,
           pc' = [pc EXCEPT ![p] = l], loc' = [loc EXCEPT ![p] = v], lock' = lock,
           Data', row' = row, l \notin Special,
           l \in NeedsRecord => pc[p] \in NeedsRecord
    PROVE  Core'
<1>1. Control' /\ pc'[p] = l /\ \A q \in Proc \ {p} : pc'[q] = pc[q]
  BY MoveKeeps DEF Core
<1>2. RowInv'
  BY DEF Core, RowInv
<1>3. Promise(p)'
  BY <1>1 DEF Core, Promise, Special
<1> QED
  BY <1>1, <1>2, <1>3, Excluded DEF Core

\* A step without the lock, or one that takes or drops it: what the others rely
\* on stays as it is.
LEMMA OutsideStep ==
    ASSUME Core, NEW p \in Proc, Control', Data',
           row'.status = row.status, row'.entered = row.entered,
           row'.lastFail = row.lastFail, disk'.lib = disk.lib,
           \A q \in Proc \ {p} : pc'[q] = pc[q] /\ loc'[q] = loc[q],
           pc'[p] \notin NeedsRecord \/ (pc'[p] = pc[p] /\ loc'[p] = loc[p])
    PROVE  Core'
<1>1. RowInv'
  BY DEF Core, RowInv
<1>2. ASSUME NEW q \in Proc, pc'[q] = pc[q], loc'[q] = loc[q] PROVE Promise(q)'
  BY <1>2 DEF Core, Promise, Exists
<1>3. ASSUME NEW q \in Proc, pc'[q] \notin NeedsRecord PROVE Promise(q)'
  BY <1>3 DEF Promise, NeedsRecord, PassBody
<1> QED
  BY <1>1, <1>2, <1>3 DEF Core

-----------------------------------------------------------------------------
\* The places of the disk keep their types when one of them is rewritten.
LEMMA Blank == NoCode \in Code /\ NoDir \in Dir
BY BoundAssumption DEF NoCode, NoDir, Code, Dir, Gens

LEMMA Rewritten ==
    ASSUME NEW d \in Disk, NEW e \in Dir, NEW c \in Code, NEW k \in Code
    PROVE  /\ [d EXCEPT !.stg = e] \in Disk
           /\ [d EXCEPT !.lib = e] \in Disk
           /\ [d EXCEPT !.lib = e, !.stg = NoDir] \in Disk
           /\ [d EXCEPT !.stg = e, !.lib = NoDir] \in Disk
           /\ [d EXCEPT !.dump = c] \in Disk
           /\ [d EXCEPT !.pnl = c] \in Disk
           /\ [d EXCEPT !.pool = c] \in Disk
           /\ [d EXCEPT !.pnl = c, !.pool = k] \in Disk
BY Blank DEF Disk

LEMMA Cleared ==
    ASSUME NEW d \in Disk
    PROVE  /\ [d EXCEPT !.stg = NoDir] \in Disk
           /\ [d EXCEPT !.lib = NoDir] \in Disk
           /\ [d EXCEPT !.dump = NoCode] \in Disk
           /\ [d EXCEPT !.pnl = NoCode, !.pool = NoCode] \in Disk
BY Blank, Rewritten

LEMMA Places ==
    ASSUME NEW d \in Disk
    PROVE  /\ d.stg \in Dir /\ d.lib \in Dir
           /\ d.dump \in Code /\ d.pnl \in Code /\ d.pool \in Code
           /\ d.stg.code \in Code
BY DEF Disk, Dir

LEMMA XmlRewritten ==
    ASSUME NEW e \in Dir, NEW g \in Gens
    PROVE  [e EXCEPT !.code.xml = g] \in Dir
BY DEF Dir, Code

LEMMA Locals ==
    ASSUME Control, NEW p \in Proc, NEW w \in Why, NEW c \in Code
    PROVE  /\ loc[p].ran \in Code /\ loc[p].seen \in Gens
           /\ [loc[p] EXCEPT !.why = w] \in Loc
           /\ [loc[p] EXCEPT !.why = w, !.ran = c] \in Loc
BY DEF Control, Loc

LEMMA Reasons == Outcome \subseteq Why /\ Status \subseteq Why /\ "unexpected" \in Why
BY DEF Outcome, Status, Why

LEMMA WriteXmlKeeps ==
    ASSUME Core, NEW p \in Proc, WriteXml(p)
    PROVE  disk' \in Disk /\ disk'.lib = disk.lib
<1>1. [disk.stg EXCEPT !.code.xml = loc[p].seen] \in Dir
  BY Blank, Reasons, Places, Locals, XmlRewritten DEF Core, Data
<1>2. disk' = [disk EXCEPT !.stg = [disk.stg EXCEPT !.code.xml = loc[p].seen]]
  BY DEF WriteXml
<1>3. disk' \in Disk
  BY <1>1, <1>2, Blank, Rewritten DEF Core, Data
<1>4. disk'.lib = disk.lib
  BY <1>2 DEF Core, Data, Disk
<1> QED
  BY <1>3, <1>4

LEMMA SubmitPreserves ==
    ASSUME Core, NEW p \in Proc, SubmitStep(p)
    PROVE  Core'
<1> USE DEF At, Exists, ghost, Locked, NeedsRecord, PassBody, Special
<1>1. CASE SubmitWipe(p)
  <2>1. Data'
    BY <1>1, Blank, Rewritten DEF SubmitWipe, Core, Data
  <2> QED
    BY <1>1, <2>1, QuietStep DEF SubmitWipe
<1>2. CASE SubmitCopy(p)
  <2>1. \A w \in BOOLEAN :
           [code |-> Submission(loc[p].seen), whole |-> w, meta |-> FALSE] \in Dir
    BY DEF Core, Control, Loc, Submission, Dir, Code
  <2>2. Data'
    BY <1>2, <2>1, Blank, Rewritten DEF SubmitCopy, Core, Data
  <2> QED
    BY <1>2, <2>2, QuietStep DEF SubmitCopy
<1>3. CASE SubmitParse(p)
  <2>1. Data'
    BY <1>3 DEF SubmitParse, Core, Data
  <2> QED
    BY <1>3, <2>1, QuietStep DEF SubmitParse
<1>4. CASE SubmitUndo(p)
  <2>1. Data' /\ RowInv'
    BY <1>4, Blank, Rewritten DEF SubmitUndo, Core, Data, RowInv
  <2> QED
    BY <1>4, <2>1, LeaveStep DEF SubmitUndo
<1>5. CASE SubmitMeta(p)
  <2>1. [disk.stg EXCEPT !.meta = TRUE] \in Dir
    BY Blank, Places DEF Core, Data, Dir
  <2>2. Data'
    BY <1>5, <2>1, Blank, Rewritten, Places DEF SubmitMeta, Core, Data
  <2> QED
    BY <1>5, <2>2, QuietStep DEF SubmitMeta
<1>6. CASE SubmitCommit(p)
  <2>1. Data' /\ RowInv' /\ row'.status = "submitted"
    BY <1>6 DEF SubmitCommit, Core, Data, RowInv, Row, NoRow, Status, Snapshot
  <2>2. CASE Leave(p)
    BY <1>6, <2>1, <2>2, LeaveStep DEF SubmitCommit
  <2>3. CASE Goto(p, "s_discard")
    <3>1. Promise(p)'
      BY <2>1, <2>3 DEF Promise, Goto, Core, Control
    <3> QED
      BY <1>6, <2>1, <2>3, <3>1, GotoStep DEF SubmitCommit
  <2> QED
    BY <1>6, <2>2, <2>3 DEF SubmitCommit
<1>7. CASE SubmitDiscard(p)
  <2>1. Data' /\ RowInv' /\ row'.status = row.status
    BY <1>7 DEF SubmitDiscard, Core, Data, RowInv, Row, Snapshot
  <2>2. Promise(p)'
    BY <1>7, <2>1 DEF SubmitDiscard, Promise, Goto, Core, Control
  <2> QED
    BY <1>7, <2>1, <2>2, GotoStep DEF SubmitDiscard
<1>8. CASE SubmitPurge(p)
  <2>1. Data' /\ RowInv'
    BY <1>8, Blank, Rewritten DEF SubmitPurge, Core, Data, RowInv
  <2> QED
    BY <1>8, <2>1, LeaveStep DEF SubmitPurge
<1>9. CASE SubmitFault(p)
  <2>1. Data'
    BY <1>9, BoundAssumption DEF SubmitFault, Core, Data
  <2>2. NoLoc \in Loc
    BY BoundAssumption DEF NoLoc, Loc, Gens, Why, Outcome, Status, Code, NoCode, Command
  <2>3. Control'
    BY <1>9, <2>2, ProcAssumption DEF SubmitFault, Core, Control, LockHeld, Unlocked
  <2> QED
    BY <1>9, <2>1, <2>3, OutsideStep DEF SubmitFault, Core, Control
<1>10. CASE SubmitLateUndo(p)
  <2>1. Data' /\ disk'.lib = disk.lib
    BY <1>10, Blank, Rewritten DEF SubmitLateUndo, Core, Data, Disk
  <2>2. Control' /\ pc' = [pc EXCEPT ![p] = "idle"] /\ \A q \in Proc \ {p} : loc'[q] = loc[q]
    BY <1>10, LeaveKeeps DEF SubmitLateUndo, Core
  <2> QED
    BY <1>10, <2>1, <2>2, OutsideStep DEF SubmitLateUndo, Core, Control
<1> QED
  BY <1>1, <1>2, <1>3, <1>4, <1>5, <1>6, <1>7, <1>8, <1>9, <1>10 DEF SubmitStep

LEMMA CheckPreserves ==
    ASSUME Core, NEW p \in Proc, CheckStep(p)
    PROVE  Core'
<1> USE DEF At, Exists, ghost, Locked, NeedsRecord, PassBody, Special
<1>1. CASE CheckInit(p)
  <2>1. Data' /\ disk'.lib = disk.lib
    BY <1>1, WriteXmlKeeps DEF CheckInit, Core, Data
  <2>2. Control' /\ pc'[p] \in Unlocked
        /\ \A q \in Proc \ {p} : pc'[q] = pc[q] /\ loc'[q] = loc[q]
    <3>1. CASE Leave(p)
      BY <3>1, LeaveKeeps DEF Core, Control, Unlocked
    <3>2. CASE Goto(p, "lock")
      <4>1. loc[p].cmd # "none"
        BY <1>1 DEF CheckInit, Core, Control
      <4> QED
        BY <1>1, <3>2, <4>1 DEF CheckInit, Goto, Core, Control, LockHeld, Unlocked
    <3> QED
      BY <1>1, <3>1, <3>2 DEF CheckInit
  <2> QED
    BY <1>1, <2>1, <2>2, OutsideStep DEF CheckInit, Unlocked
<1>2. CASE CheckEnsure(p)
  <2>1. Data' /\ RowInv' /\ row'.status # "none"
    BY <1>2 DEF CheckEnsure, Core, Data, RowInv, Row, Snapshot, Status, LastFail, Appended,
       NoRow, Promise
  <2>2. Promise(p)'
    BY <1>2, <2>1 DEF CheckEnsure, Promise, Goto, Core, Control
  <2> QED
    BY <1>2, <2>1, <2>2, GotoStep DEF CheckEnsure
<1>3. CASE CheckMark(p)
  <2>1. Data' /\ RowInv' /\ row'.status = "checking"
    BY <1>3 DEF CheckMark, Core, Data, RowInv, Row, Snapshot, Status, LastFail, Appended,
       NoRow, Promise
  <2>2. Promise(p)'
    BY <1>3, <2>1 DEF CheckMark, Promise, Goto, Core, Control
  <2> QED
    BY <1>3, <2>1, <2>2, GotoStep DEF CheckMark
<1>4. CASE CheckPrepare(p)
  <2>1. Data'
    BY <1>4, WriteXmlKeeps DEF CheckPrepare, Core, Data
  <2>2. CASE Goto(p, "c_run")
    BY <1>4, <2>1, <2>2, QuietStep DEF CheckPrepare
  <2>3. CASE Branch(p, "v_event", "unexpected")
    <3>1. [loc[p] EXCEPT !.why = "unexpected", !.ran = disk.stg.code] \in Loc
      BY Places, Locals, Reasons DEF Core, Data
    <3> QED
      BY <1>4, <2>1, <2>3, <3>1, MoveStep DEF CheckPrepare, Branch
  <2> QED
    BY <1>4, <2>2, <2>3 DEF CheckPrepare
<1>5. CASE CheckRun(p)
  <2>1. PICK outcome \in Outcome : Branch(p, AfterRun(outcome), outcome)
    BY <1>5 DEF CheckRun
  <2>2. [loc[p] EXCEPT !.why = outcome, !.ran = disk.stg.code] \in Loc
    BY Places, Locals, Reasons DEF Core, Data
  <2>3. AfterRun(outcome) \in Locked \cap NeedsRecord /\ AfterRun(outcome) \notin Special
    BY DEF AfterRun
  <2>4. Data'
    BY <1>5, Places DEF CheckRun, Core, Data
  <2>5. pc[p] \in Locked \cap NeedsRecord /\ row' = row
    BY <1>5 DEF CheckRun
  <2> QED
    BY <2>1, <2>2, <2>3, <2>4, <2>5, MoveStep DEF Branch
<1>6. CASE CheckFault(p)
  <2>1. [loc[p] EXCEPT !.why = "unexpected"] \in Loc
    BY Blank, Locals, Reasons DEF Core
  <2>2. Data'
    BY <1>6, BoundAssumption DEF CheckFault, Core, Data
  <2> QED
    BY <1>6, <2>1, <2>2, MoveStep DEF CheckFault
<1>7. CASE SnapDelete(p)
  <2>1. Data' /\ RowInv' /\ row'.status = row.status
    BY <1>7 DEF SnapDelete, Core, Data, RowInv, Row, Snapshot, Status, LastFail, Appended,
       NoRow, Promise
  <2>2. Promise(p)'
    BY <1>7, <2>1 DEF SnapDelete, Promise, Goto, Core, Control
  <2> QED
    BY <1>7, <2>1, <2>2, GotoStep DEF SnapDelete
<1>8. CASE SnapInsert(p)
  <2>1. Data' /\ RowInv' /\ row'.status = row.status
    BY <1>8 DEF SnapInsert, Core, Data, RowInv, Row, Snapshot, Status, LastFail, Appended,
       NoRow, Promise
  <2>2. Promise(p)'
    BY <1>8, <2>1 DEF SnapInsert, Promise, Goto, Core, Control, AfterSnap
  <2> QED
    BY <1>8, <2>1, <2>2, GotoStep DEF SnapInsert, AfterSnap
<1>9. CASE Swallowed(p)
  <2>1. Data' /\ RowInv'
    BY <1>9, BoundAssumption DEF Swallowed, Core, Data, RowInv
  <2>2. CASE \E l \in {"p_rmsrc", "j_rmsrc", "s_purge"} : Goto(p, l)
    BY <1>9, <2>1, <2>2, QuietStep DEF Swallowed
  <2>3. CASE Leave(p)
    BY <1>9, <2>1, <2>3, LeaveStep DEF Swallowed
  <2> QED
    BY <1>9, <2>2, <2>3 DEF Swallowed, AfterSnap
<1> QED
  BY <1>1, <1>2, <1>3, <1>4, <1>5, <1>6, <1>7, <1>8, <1>9 DEF CheckStep

LEMMA PassPreserves ==
    ASSUME Core, NEW p \in Proc, PassStep(p)
    PROVE  Core'
<1> USE DEF At, Exists, ghost, Locked, NeedsRecord, PassBody, Special
<1>1. CASE PassEvent(p)
  <2>1. Data' /\ RowInv' /\ row'.status = row.status
    BY <1>1 DEF PassEvent, Core, Data, RowInv, Row, Snapshot, Status, LastFail, Appended,
       NoRow, Promise
  <2>2. Promise(p)'
    BY <1>1, <2>1 DEF PassEvent, Promise, Goto, Core, Control
  <2> QED
    BY <1>1, <2>1, <2>2, GotoStep DEF PassEvent
<1>2. CASE PassActive(p)
  <2>1. Data' /\ RowInv' /\ row'.status = "active"
    BY <1>2 DEF PassActive, Core, Data, RowInv, Row, Snapshot, Status, LastFail, Appended,
       NoRow, Promise
  <2>2. Promise(p)'
    BY <1>2, <2>1 DEF PassActive, Promise, Goto, Core, Control
  <2> QED
    BY <1>2, <2>1, <2>2, GotoStep DEF PassActive
<1>3. CASE ArchiveRmSrc(p)
  <2>1. Data'
    BY <1>3, Blank, Rewritten, Places DEF ArchiveRmSrc, Core, Data
  <2> QED
    BY <1>3, <2>1, QuietStep DEF ArchiveRmSrc
<1>4. CASE ArchiveMvSrc(p)
  <2>1. Data'
    BY <1>4, Blank, Rewritten, Places DEF ArchiveMvSrc, Core, Data
  <2> QED
    BY <1>4, <2>1, QuietStep DEF ArchiveMvSrc
<1>5. CASE ArchiveProduct(p)
  <2>1. Data' /\ RowInv'
    BY <1>5, Blank, Rewritten, Places, Locals, Reasons DEF ArchiveProduct, Core, Data, RowInv
  <2>2. CASE \E l \in {"p_pnl", "p_pool"} : Goto(p, l)
    BY <1>5, <2>1, <2>2, QuietStep DEF ArchiveProduct
  <2>3. CASE Leave(p)
    BY <1>5, <2>1, <2>3, LeaveStep DEF ArchiveProduct
  <2> QED
    BY <1>5, <2>2, <2>3 DEF ArchiveProduct
<1> QED
  BY <1>1, <1>2, <1>3, <1>4, <1>5 DEF PassStep

LEMMA FailPreserves ==
    ASSUME Core, NEW p \in Proc, FailStep(p)
    PROVE  Core'
<1> USE DEF At, Exists, ghost, Locked, NeedsRecord, PassBody, Special
<1>1. CASE RevertEvent(p)
  <2>1. Data' /\ RowInv' /\ row'.status = row.status
    BY <1>1 DEF RevertEvent, Core, Data, RowInv, Row, Snapshot, Status, LastFail, Appended,
       NoRow, Promise
  <2>2. Promise(p)'
    BY <1>1, <2>1 DEF RevertEvent, Promise, Goto, Core, Control
  <2> QED
    BY <1>1, <2>1, <2>2, GotoStep DEF RevertEvent
<1>2. CASE RevertState(p)
  <2>1. Data' /\ RowInv'
    BY <1>2 DEF RevertState, Core, Data, RowInv, Row, Snapshot, Status, LastFail, Promise
  <2> QED
    BY <1>2, <2>1, LeaveStep DEF RevertState
<1>3. CASE RejectRmSrc(p)
  <2>1. Data'
    BY <1>3, Blank, Rewritten, Places DEF RejectRmSrc, Core, Data
  <2> QED
    BY <1>3, <2>1, QuietStep DEF RejectRmSrc
<1>4. CASE RejectCpSrc(p)
  <2>1. row' \in Row /\ RowInv'
    BY <1>4 DEF RejectCpSrc, Abandon, Core, Data, RowInv, Row, Snapshot
  <2>4. Data'
    BY <1>4, <2>1, Blank, Rewritten, Places DEF RejectCpSrc, Core, Data
  <2>2. CASE \E l \in {"j_keep_pnl", "j_clear"} : Goto(p, l) /\ row' = row
    BY <1>4, <2>4, <2>2, QuietStep DEF RejectCpSrc
  <2>3. CASE Abandon(p)
    BY <1>4, <2>1, <2>4, <2>3, LeaveStep DEF RejectCpSrc, Abandon
  <2> QED
    BY <1>4, <2>2, <2>3 DEF RejectCpSrc
<1>5. CASE RejectProducts(p)
  <2>1. Data'
    <3>1. disk' = [disk EXCEPT !.pnl = loc[p].ran] \/ \E c \in Code : disk' = [disk EXCEPT !.dump = c]
      BY <1>5, Blank, Places, Locals, Reasons DEF RejectProducts, Core, Data
    <3>2. disk' \in Disk
      BY <3>1, Blank, Rewritten, Locals, Reasons DEF Core, Data
    <3> QED
      BY <1>5, <3>2 DEF RejectProducts, Core, Data
  <2> QED
    BY <1>5, <2>1, QuietStep DEF RejectProducts
<1>6. CASE RejectUnstage(p)
  <2>1. Data'
    BY <1>6, Blank, Rewritten, Places DEF RejectUnstage, Core, Data
  <2> QED
    BY <1>6, <2>1, QuietStep DEF RejectUnstage
<1>7. CASE RejectEvent(p)
  <2>1. Data' /\ RowInv' /\ row'.status = row.status /\ row'.lastFail # "none"
    BY <1>7 DEF RejectEvent, Core, Data, RowInv, Row, Snapshot, Status, LastFail, Appended,
       NoRow, Promise
  <2>2. Promise(p)'
    BY <1>7, <2>1 DEF RejectEvent, Promise, Goto, Core, Control
  <2> QED
    BY <1>7, <2>1, <2>2, GotoStep DEF RejectEvent
<1>8. CASE RejectState(p)
  <2>1. Data' /\ RowInv'
    BY <1>8 DEF RejectState, Core, Data, RowInv, Row, Snapshot, Status, LastFail, Promise
  <2> QED
    BY <1>8, <2>1, LeaveStep DEF RejectState
<1> QED
  BY <1>1, <1>2, <1>3, <1>4, <1>5, <1>6, <1>7, <1>8 DEF FailStep

LEMMA RestagePreserves ==
    ASSUME Core, NEW p \in Proc, RestageStep(p)
    PROVE  Core'
<1> USE DEF At, ghost, Locked, NeedsRecord, PassBody, Special
<1>1. CASE RestageRecall(p)
  <2>1. Data' /\ RowInv'
    BY <1>1, Blank, Rewritten, Places DEF RestageRecall, Core, Data, RowInv
  <2>2. CASE Leave(p)
    BY <1>1, <2>1, <2>2, LeaveStep DEF RestageRecall
  <2>3. CASE ~Leave(p)
    <3>1. /\ pc' = [pc EXCEPT ![p] = "r_serving"]
          /\ loc' = [loc EXCEPT ![p] = [loc[p] EXCEPT !.why = row.status]]
          /\ lock' = lock /\ row.status \in {"active", "rejected"}
      BY <1>1, <2>3 DEF RestageRecall, Restageable
    <3>2. [loc[p] EXCEPT !.why = row.status] \in Loc /\ loc[p] \in Loc
      BY Blank, Locals, Reasons DEF Core, Data, Row, Control
    <3>3. /\ Control' /\ pc'[p] = "r_serving"
          /\ loc'[p] = [loc[p] EXCEPT !.why = row.status]
          /\ \A q \in Proc \ {p} : pc'[q] = pc[q]
      BY <1>1, <3>1, <3>2, MoveKeeps DEF RestageRecall, Core
    <3>4. Promise(p)'
      BY <1>1, <3>1, <3>2, <3>3 DEF RestageRecall, Promise, Loc
    <3> QED
      BY <1>1, <2>1, <3>3, <3>4, Excluded DEF RestageRecall, Core
  <2> QED
    BY <2>2, <2>3
<1>2. CASE RestagePurge(p)
  <2>1. \/ \E c \in Code : disk' = [disk EXCEPT !.dump = c]
        \/ disk' = [disk EXCEPT !.pnl = NoCode, !.pool = NoCode]
    BY <1>2, Blank, Places DEF RestagePurge, Core, Data
  <2>2. disk' \in Disk
    <3>1. ASSUME NEW c \in Code PROVE [disk EXCEPT !.dump = c] \in Disk
      BY Blank, Rewritten DEF Core, Data
    <3> QED
      BY <2>1, <3>1, Cleared DEF Core, Data
  <2>3. Data' /\ RowInv'
    BY <1>2, <2>2 DEF RestagePurge, Core, Data, RowInv
  <2>4. PICK l \in {"r_check", "r_state"} : Goto(p, l)
    BY <1>2 DEF RestagePurge
  <2>5. Promise(p)'
    BY <1>2, <2>4 DEF RestagePurge, Promise, Goto, Core, Control
  <2> QED
    BY <1>2, <2>3, <2>4, <2>5, GotoStep DEF RestagePurge
<1>3. CASE RestageState(p)
  <2>1. Data' /\ RowInv' /\ (Goto(p, "r_discard") => row'.status = "submitted")
    BY <1>3 DEF RestageState, Core, Data, RowInv, Row, Status, Goto, Leave, Control
  <2>2. CASE Leave(p)
    BY <1>3, <2>1, <2>2, LeaveStep DEF RestageState
  <2>3. CASE Goto(p, "r_discard")
    <3>1. Promise(p)'
      BY <2>1, <2>3 DEF Promise, Goto, Core, Control
    <3> QED
      BY <1>3, <2>1, <2>3, <3>1, GotoStep DEF RestageState
  <2> QED
    BY <1>3, <2>2, <2>3 DEF RestageState
<1>4. CASE RestageDiscard(p)
  <2>1. Data' /\ RowInv'
    BY <1>4 DEF RestageDiscard, Core, Data, RowInv, Row, Snapshot
  <2> QED
    BY <1>4, <2>1, LeaveStep DEF RestageDiscard
<1> QED
  BY <1>1, <1>2, <1>3, <1>4 DEF RestageStep

LEMMA OperatorPreserves ==
    ASSUME Core, NEW p \in Proc, OperatorStep(p)
    PROVE  Core'
<1> USE DEF At, ghost, Locked, NeedsRecord, PassBody, Special
<1>1. CASE ApproveState(p)
  <2>1. Data' /\ RowInv'
    BY <1>1 DEF ApproveState, Core, Data, RowInv, Row, Status
  <2> QED
    BY <1>1, <2>1, LeaveStep DEF ApproveState
<1>2. CASE CancelUnstage(p)
  <2>1. Data' /\ RowInv'
    BY <1>2, Blank, Rewritten DEF CancelUnstage, Core, Data, RowInv
  <2>2. CASE Leave(p)
    BY <1>2, <2>1, <2>2, LeaveStep DEF CancelUnstage
  <2>3. CASE ~Leave(p)
    <3>1. /\ Goto(p, "x_delete") /\ Cancellable(loc[p].opt) /\ row' = row
          /\ disk' = [disk EXCEPT !.stg = NoDir]
      BY <1>2, <2>3 DEF CancelUnstage
    <3>2. disk'.lib = disk.lib
      BY <3>1 DEF Core, Data, Disk
    <3>3. Promise(p)'
      BY <3>1, <3>2 DEF Promise, Cancellable, Exists, Goto, Core, Control
    <3> QED
      BY <1>2, <2>1, <3>1, <3>3, GotoStep DEF CancelUnstage
  <2> QED
    BY <2>2, <2>3
<1>3. CASE CancelDelete(p)
  <2>1. Data' /\ RowInv'
    BY <1>3 DEF CancelDelete, NoRow, Core, Data, RowInv, Row, Status, Snapshot
  <2> QED
    BY <1>3, <2>1, LeaveStep DEF CancelDelete
<1>4. CASE ClearUnstage(p)
  <2>1. Data' /\ RowInv'
    BY <1>4, Blank, Rewritten DEF ClearUnstage, Core, Data, RowInv
  <2> QED
    BY <1>4, <2>1, LeaveStep DEF ClearUnstage
<1>5. CASE RmDisk(p)
  <2>1. Data'
    BY <1>5, Cleared DEF RmDisk, Core, Data
  <2> QED
    BY <1>5, <2>1, QuietStep DEF RmDisk
<1>6. CASE RmDelete(p)
  <2>1. Data' /\ RowInv'
    BY <1>6 DEF RmDelete, NoRow, Core, Data, RowInv, Row, Status, Snapshot
  <2> QED
    BY <1>6, <2>1, LeaveStep DEF RmDelete
<1> QED
  BY <1>1, <1>2, <1>3, <1>4, <1>5, <1>6 DEF OperatorStep

-----------------------------------------------------------------------------
\* Starting a command, taking the lock, removing a directory bit by bit, dying.
LEMMA LocalStart ==
    ASSUME NEW c \in Command, NEW o \in BOOLEAN, NEW g \in Gens
    PROVE  /\ [NoLoc EXCEPT !.cmd = c, !.opt = o] \in Loc
           /\ [NoLoc EXCEPT !.cmd = c, !.seen = g] \in Loc
           /\ [NoLoc EXCEPT !.cmd = c, !.opt = o, !.seen = g] \in Loc
           /\ [NoLoc EXCEPT !.cmd = c, !.opt = o].cmd = c
           /\ [NoLoc EXCEPT !.cmd = c, !.seen = g].cmd = c
           /\ [NoLoc EXCEPT !.cmd = c, !.opt = o, !.seen = g].cmd = c
           /\ c # "none"
<1>1. 0 \in Gens /\ "none" \in Why /\ NoCode \in Code
  BY BoundAssumption, Blank, Reasons DEF Gens, Status
<1>2. NoLoc \in Loc
  BY <1>1 DEF NoLoc, Loc
<1>3. c # "none"
  BY DEF Command
<1> QED
  BY <1>2, <1>3 DEF Loc

LEMMA Launched ==
    ASSUME Control, NEW p \in Proc, NEW l \in {"lock", "c_init"}, NEW v \in Loc,
           pc[p] = "idle", v.cmd # "none", lock' = lock,
           pc' = [pc EXCEPT ![p] = l], loc' = [loc EXCEPT ![p] = v]
    PROVE  /\ Control'
           /\ pc'[p] \notin NeedsRecord
           /\ \A q \in Proc \ {p} : pc'[q] = pc[q] /\ loc'[q] = loc[q]
<1>1. pc'[p] = l /\ l \in Unlocked /\ l \notin Locked /\ "idle" \notin Locked
  BY DEF Control, Locked, Unlocked, PassBody
<1>2. LockHeld'
  BY <1>1 DEF Control, LockHeld
<1> QED
  BY <1>1, <1>2 DEF Control, NeedsRecord, PassBody, Unlocked

LEMMA BeginPreserves ==
    ASSUME Core, NEW p \in Proc, Begin(p)
    PROVE  Core'
<1>1. CASE SubmitStart(p)
  <2>1. PICK o \in BOOLEAN :
           /\ pc[p] = "idle" /\ gen < MaxGen /\ gen' = gen + 1
           /\ pc' = [pc EXCEPT ![p] = "lock"]
           /\ loc' = [loc EXCEPT ![p] = [NoLoc EXCEPT !.cmd = "submit", !.opt = o, !.seen = gen + 1]]
           /\ UNCHANGED <<row, disk, lock, screened, crashes, faults>>
    BY <1>1 DEF SubmitStart, At
  <2>2. gen + 1 \in Gens /\ "submit" \in Command
    BY <2>1, BoundAssumption DEF Core, Data, Gens, Command
  <2>3. Data'
    BY <2>1, <2>2 DEF Core, Data
  <2> QED
    BY <2>1, <2>2, <2>3, LocalStart, Launched, OutsideStep DEF Core
<1>2. CASE CheckScan(p)
  <2>1. disk.stg.code.xml \in Gens /\ "check" \in Command
    BY Places DEF Core, Data, Code, Command
  <2>2. Data'
    BY <1>2 DEF CheckScan, ghost, Core, Data
  <2> QED
    BY <1>2, <2>1, <2>2, LocalStart, Launched, OutsideStep DEF CheckScan, At, Core
<1>3. CASE \E c \in Command, o \in BOOLEAN : Start(p, c, o)
  <2>1. PICK c \in Command, o \in BOOLEAN : Start(p, c, o)
    BY <1>3
  <2>2. Data'
    BY <2>1 DEF Start, ghost, Core, Data
  <2>3. [NoLoc EXCEPT !.cmd = c, !.opt = o] \in Loc /\ [NoLoc EXCEPT !.cmd = c, !.opt = o].cmd # "none"
    <3>1. 0 \in Gens
      BY BoundAssumption DEF Gens
    <3> QED
      BY <3>1, LocalStart
  <2> QED
    BY <2>1, <2>2, <2>3, Launched, OutsideStep DEF Start, At, Core
<1> QED
  BY <1>1, <1>2, <1>3
  DEF Begin, RestageStart, ApproveStart, CancelStart, ClearStart, RmStart, Command

LEMMA TryLockPreserves ==
    ASSUME Core, NEW p \in Proc, TryLock(p)
    PROVE  Core'
<1>1. Data'
  BY DEF TryLock, ghost, Core, Data
<1>2. CASE Leave(p)
  <2>1. Control' /\ pc'[p] = "idle" /\ \A q \in Proc \ {p} : pc'[q] = pc[q] /\ loc'[q] = loc[q]
    BY <1>2, LeaveKeeps DEF Core, Control
  <2> QED
    BY <1>1, <2>1, OutsideStep DEF TryLock, NeedsRecord, PassBody
<1>3. CASE ~Leave(p)
  <2>1. /\ lock = NoProc /\ lock' = p /\ loc' = loc /\ pc[p] = "lock"
        /\ pc' = [pc EXCEPT ![p] = Entry[loc[p].cmd]]
    BY <1>3 DEF TryLock, At
  <2>2. Entry[loc[p].cmd] \in Locked /\ Entry[loc[p].cmd] \notin NeedsRecord
    BY <2>1 DEF Core, Control, Loc, Command, Entry, Locked, NeedsRecord, PassBody
  <2>3. LockHeld'
    BY <2>1, <2>2, ProcAssumption DEF Core, Control, LockHeld
  <2>4. Control'
    BY <2>1, <2>2, <2>3 DEF Core, Control, Locked, PassBody
  <2> QED
    BY <1>1, <2>1, <2>2, <2>4, OutsideStep DEF TryLock, Core, Control
<1> QED
  BY <1>2, <1>3

LEMMA RmtreePreserves ==
    ASSUME Core, NEW p \in Proc, RmtreePart(p)
    PROVE  Core'
<1>1. PICK meta \in {FALSE, disk.stg.meta} :
         disk' = [disk EXCEPT !.stg = [disk.stg EXCEPT !.whole = FALSE, !.meta = meta]]
  BY DEF RmtreePart
<1>2. [disk.stg EXCEPT !.whole = FALSE, !.meta = meta] \in Dir
  BY Places DEF Core, Data, Dir
<1>3. disk' \in Disk /\ disk'.lib = disk.lib
  BY <1>1, <1>2, Blank, Rewritten DEF Core, Data, Disk
<1>4. Data'
  BY <1>3 DEF RmtreePart, ghost, Core, Data
<1>5. Control'
  BY DEF RmtreePart, Core, Control, LockHeld
<1> QED
  BY <1>3, <1>4, <1>5, OutsideStep DEF RmtreePart

LEMMA CrashPreserves ==
    ASSUME Core, NEW p \in Proc, Crash(p)
    PROVE  Core'
<1>1. Control' /\ pc'[p] = "idle" /\ \A q \in Proc \ {p} : pc'[q] = pc[q] /\ loc'[q] = loc[q]
  BY LeaveKeeps DEF Crash, Abandon, Core, Control
<1>2. /\ row' \in Row
      /\ row'.status = row.status /\ row'.entered = row.entered
      /\ row'.lastFail = row.lastFail
  BY DEF Crash, Abandon, Core, Data, Row, Snapshot
<1>3. Data'
  BY <1>2, BoundAssumption DEF Crash, Core, Data
<1> QED
  BY <1>1, <1>2, <1>3, OutsideStep DEF Crash, NeedsRecord, PassBody

-----------------------------------------------------------------------------
LEMMA InitIInv == Init => IInv
<1> SUFFICES ASSUME Init PROVE IInv
  OBVIOUS
<1> USE DEF Init
<1>1. "idle" \in Unlocked /\ "idle" \notin Locked
  BY DEF Unlocked, Locked, PassBody
<1>2. 0 \in Gens /\ NoLoc \in Loc
  BY BoundAssumption DEF NoLoc, Loc, Gens, Why, Outcome, Status, Code, NoCode, Command
<1>3. Control
  BY <1>1, <1>2, ProcAssumption DEF Control, LockHeld
<1>4. Data
  BY <1>2, Blank, BoundAssumption DEF Data, Row, Status, Snapshot, LastFail, Disk
<1>5. RowInv
  BY DEF RowInv
<1>6. \A p \in Proc : Promise(p)
  BY DEF Promise, NeedsRecord, PassBody
<1> QED
  BY <1>3, <1>4, <1>5, <1>6 DEF IInv, Core

LEMMA StepPreserves ==
    ASSUME Core, NEW p \in Proc, Begin(p) \/ Continue(p) \/ Crash(p)
    PROVE  Core'
BY BeginPreserves, CrashPreserves, TryLockPreserves, RmtreePreserves,
   SubmitPreserves, CheckPreserves, PassPreserves, FailPreserves,
   RestagePreserves, OperatorPreserves DEF Continue

\* A process takes the lock only when it is free and frees none but its own.
LEMMA LockMoves ==
    ASSUME Core, NEW p \in Proc, Begin(p) \/ Continue(p) \/ Crash(p)
    PROVE  \/ lock' = lock
           \/ lock = p /\ lock' = NoProc
           \/ lock = NoProc /\ lock' = p
<1> USE DEF At, Goto, Leave, Branch, Abandon
<1>1. CASE Begin(p)
  BY <1>1 DEF Begin, SubmitStart, CheckScan, RestageStart, ApproveStart, CancelStart,
              ClearStart, RmStart, Start
<1>2. CASE Crash(p) \/ TryLock(p) \/ RmtreePart(p)
  BY <1>2 DEF Crash, TryLock, RmtreePart
<1>3. CASE SubmitFault(p)
  BY <1>3 DEF SubmitFault, Core, Control, LockHeld, Locked
<1>4. CASE SubmitStep(p) /\ ~SubmitFault(p)
  BY <1>4 DEF SubmitStep, SubmitWipe, SubmitCopy, SubmitParse, SubmitUndo, SubmitMeta,
              SubmitCommit, SubmitDiscard, SubmitPurge, SubmitLateUndo
<1>5. CASE CheckStep(p)
  BY <1>5 DEF CheckStep, CheckInit, CheckEnsure, CheckMark, CheckPrepare, CheckRun,
              CheckFault, SnapDelete, SnapInsert, Swallowed
<1>6. CASE PassStep(p)
  BY <1>6 DEF PassStep, PassEvent, PassActive, ArchiveRmSrc, ArchiveMvSrc, ArchiveProduct
<1>7. CASE FailStep(p)
  BY <1>7 DEF FailStep, RevertEvent, RevertState, RejectRmSrc, RejectCpSrc, RejectProducts,
              RejectUnstage, RejectEvent, RejectState
<1>8. CASE RestageStep(p)
  BY <1>8 DEF RestageStep, RestageRecall, RestagePurge, RestageState, RestageDiscard
<1>9. CASE OperatorStep(p)
  BY <1>9 DEF OperatorStep, ApproveState, CancelUnstage, CancelDelete, ClearUnstage, RmDisk,
              RmDelete
<1> QED
  BY <1>1, <1>2, <1>3, <1>4, <1>5, <1>6, <1>7, <1>8, <1>9 DEF Continue

LEMMA NextIInv == IInv /\ [Next]_vars => IInv'
<1> SUFFICES ASSUME IInv, [Next]_vars PROVE IInv'
  OBVIOUS
<1>1. CASE Next
  <2>1. PICK p \in Proc : Begin(p) \/ Continue(p) \/ Crash(p)
    BY <1>1 DEF Next
  <2> QED
    BY <2>1, StepPreserves, LockMoves DEF IInv
<1>2. CASE UNCHANGED vars
  BY <1>2 DEF vars, IInv, Core, Control, Data, RowInv, Promise, LockHeld, Exists
<1> QED
  BY <1>1, <1>2

\* The inductive invariant holds in every reachable state.
THEOREM Invariance == Spec => []IInv
<1>1. Init => IInv
  BY InitIInv
<1>2. IInv /\ [Next]_vars => IInv'
  BY NextIInv
<1> QED
  BY <1>1, <1>2, PTL DEF Spec

\* Every variable keeps its type.
THEOREM TypeCorrect == Spec => []TypeOK
<1>1. IInv => TypeOK
  BY DEF IInv, Core, Control, Data, TypeOK
<1> QED
  BY <1>1, Invariance, PTL

\* factor_lock excludes: at most one process is inside, whatever died before
\* (lock.py:72-134; check.py:281, submit.py:215, _batch.py:59-86).
THEOREM MutualExclusion == Spec => []LockHeld
<1>1. IInv => LockHeld
  BY DEF IInv, Core, Control
<1> QED
  BY <1>1, Invariance, PTL

\* cancel deletes only a factor that never entered the library and has no
\* archived source (cancel.py:34-46, 121-137).
THEOREM CancelIsSafe == Spec => []CancelNeverDropsSource
<1>1. IInv => CancelNeverDropsSource
  BY DEF IInv, Core, Promise, CancelNeverDropsSource, At
<1> QED
  BY <1>1, Invariance, PTL

\* The compare-and-set of restage cannot fail after the source has moved
\* (restage.py:111-125).
THEOREM RestageCommits == Spec => []RestageNeverConflicts
<1>1. IInv => RestageNeverConflicts
  BY DEF IInv, Core, Promise, RestageNeverConflicts, At
<1> QED
  BY <1>1, Invariance, PTL

\* No command finds the record it works on deleted (check.py:298-451,
\* pg_store.py:180-240).
THEOREM RecordsStay == Spec => []RecordHeld
<1>1. IInv => RecordHeld
  BY DEF IInv, Core, Promise, RecordHeld
<1> QED
  BY <1>1, Invariance, PTL

\* A REJECTED factor always has a failing check event, also after crashes
\* (check.py:425-436, pg_store.py:255-263).
THEOREM RejectionsExplained == Spec => []RejectionExplained
<1>1. IInv => RejectionExplained
  BY DEF IInv, Core, RowInv, RejectionExplained
<1> QED
  BY <1>1, Invariance, PTL

-----------------------------------------------------------------------------
\* entered_at goes with the record only: where a step resets it there was no
\* record before it, or rm is deleting the record.
LEMMA EnteredStep ==
    ASSUME IInv, NEW p \in Proc, Begin(p) \/ Continue(p) \/ Crash(p), row.entered
    PROVE  row'.entered \/ At(p, "m_delete")
<1> USE DEF At, ghost
<1>1. CASE Begin(p)
  BY <1>1 DEF Begin, SubmitStart, CheckScan, RestageStart, ApproveStart, CancelStart,
              ClearStart, RmStart, Start
<1>2. CASE Crash(p)
  BY <1>2 DEF Crash, Abandon, IInv, Core, Data, Row
<1>3. CASE TryLock(p) \/ RmtreePart(p)
  BY <1>3 DEF TryLock, RmtreePart
<1>4. CASE SubmitStep(p)
  BY <1>4 DEF SubmitStep, SubmitWipe, SubmitCopy, SubmitParse, SubmitUndo, SubmitMeta,
              SubmitCommit, SubmitDiscard, SubmitPurge, SubmitFault, SubmitLateUndo,
              IInv, Core, Data, Row, RowInv
<1>5. CASE CheckStep(p)
  BY <1>5 DEF CheckStep, CheckInit, CheckEnsure, CheckMark, CheckPrepare, CheckRun,
              CheckFault, SnapDelete, SnapInsert, Swallowed, IInv, Core, Data, Row, RowInv
<1>6. CASE PassStep(p)
  BY <1>6 DEF PassStep, PassEvent, PassActive, ArchiveRmSrc, ArchiveMvSrc, ArchiveProduct,
              IInv, Core, Data, Row
<1>7. CASE FailStep(p)
  BY <1>7 DEF FailStep, RevertEvent, RevertState, RejectRmSrc, RejectCpSrc, RejectProducts,
              RejectUnstage, RejectEvent, RejectState, Abandon, IInv, Core, Data, Row
<1>8. CASE RestageStep(p)
  BY <1>8 DEF RestageStep, RestageRecall, RestagePurge, RestageState, RestageDiscard,
              IInv, Core, Data, Row
<1>9. CASE OperatorStep(p)
  BY <1>9 DEF OperatorStep, ApproveState, CancelUnstage, CancelDelete, ClearUnstage, RmDisk,
              RmDelete, IInv, Core, Data, Row, Promise
<1> QED
  BY <1>1, <1>2, <1>3, <1>4, <1>5, <1>6, <1>7, <1>8, <1>9 DEF Continue

\* entered_at survives every command, crash and fault until rm deletes the
\* record (restage.py:125, submit.py:142-145, approve.py:89-96).
THEOREM EnteredAtSurvives == Spec => EnteredOnce
<1>1. IInv /\ [Next]_vars =>
        [row.entered => row'.entered \/ \E p \in Proc : At(p, "m_delete")]_vars
  <2> SUFFICES ASSUME IInv, Next, row.entered
               PROVE  row'.entered \/ \E p \in Proc : At(p, "m_delete")
    BY DEF vars
  <2>1. PICK p \in Proc : Begin(p) \/ Continue(p) \/ Crash(p)
    BY DEF Next
  <2> QED
    BY <2>1, EnteredStep
<1> QED
  BY <1>1, Invariance, PTL DEF Spec, EnteredOnce

=============================================================================
