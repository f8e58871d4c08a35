---------------------------- MODULE DoctorProofs ----------------------------
(***************************************************************************)
(* What the doctor may do beside any number of other commands, whatever    *)
(* drift it starts from, for any number of submissions and crashes.        *)
(*                                                                         *)
(* The argument: the doctor is one more holder of the factor's lock, so    *)
(* the commands keep their own invariant beside it (Core), and what it     *)
(* reads of the row under the lock stays true until it has repaired        *)
(* (Rechecked).  In a pass that nobody disturbed the inventory is still    *)
(* the state of row and disk (Surveyed), and the list of repairs shrinks   *)
(* with the drift (Accounted).                                             *)
(***************************************************************************)
EXTENDS Doctor, FactorOpsProofs

DocState ==
    [phase: {"idle", "list", "fix", "recheck", "act"}, next: {1, 2, 3},
     status: Status \cup {"identity"}, snap: Snapshot,
     listed: SUBSET (Area \cup Version \cup {"pack-tmp"}),
     found: SUBSET Kind, refer: Referral, fix: SUBSET Fixer, todo: SUBSET Fixable,
     hand: Fixable \cup {"none"}, gone: SUBSET Fixable, locked: BOOLEAN, quiet: BOOLEAN]

Areas == {"stg", "lib", "dump", "pnl", "pool"}

Typed ==
    /\ feature \subseteq Version /\ tmp \in {"none", "fresh", "old"}
    /\ pack \in {"idle", "lock"} \cup Version
    /\ world \in [live: BOOLEAN, blind: SUBSET Area] /\ identity \in BOOLEAN
    /\ doc \in DocState
    /\ row \in Row /\ DOMAIN disk = Areas
    /\ lock \in Proc \cup {NoProc, DoctorId, PackId}

\* The three kinds of holders keep out of each other's way.
Holders ==
    /\ world.live => Core
    /\ doc.phase \in {"recheck", "act"} => lock = DoctorId /\ doc.hand \in Fixable
    /\ pack \in Version => lock = PackId
    /\ doc.phase = "idle" => doc = Idle

\* What the doctor decided upon under the lock still stands when it acts.
Rechecked == doc.phase = "act" => Recheck(doc.hand) /\ ~Insulated(doc.hand)

\* A bare identity belongs to a behaviour in which no command runs, so what the
\* doctor has seen of its sources stays what there is.
Bare ==
    /\ identity => ~world.live
    /\ doc.phase # "idle" /\ doc.status = "identity" => identity
    /\ doc.phase = "list" /\ doc.next # 1 /\ identity =>
        /\ Exists(disk.lib) => "alpha_src" \in doc.listed \cup world.blind
        /\ Exists(disk.stg) => "staging" \in doc.listed \cup world.blind
        /\ disk.pnl # NoCode => "alpha_pnl" \in doc.listed \cup world.blind

Undisturbed == doc.quiet /\ world.blind = {}

\* The inventory of an undisturbed pass.
Surveyed ==
    doc.phase = "list" /\ Undisturbed =>
        /\ doc.status = Record /\ doc.snap = row.snap /\ doc.gone = {}
        /\ "alpha_src" \in doc.listed => Exists(disk.lib)
        /\ "staging" \in doc.listed => Exists(disk.stg)
        /\ doc.next = 3 =>
            /\ disk.pool # NoCode => "pool" \in doc.listed
            /\ disk.dump # NoCode => "dump_local" \in doc.listed
            /\ feature \subseteq doc.listed
            /\ tmp = "old" => "pack-tmp" \in doc.listed

\* The drift that is left in an undisturbed pass is on its lists.
Accounted ==
    doc.phase \in {"fix", "recheck", "act"} /\ Undisturbed =>
        /\ doc.fix = Fixer /\ ~doc.locked =>
            /\ disk.pool # NoCode /\ Record \notin {"active", "identity"} => "ghost" \in doc.todo
            /\ disk.dump # NoCode /\ Record = "none" => "dump-orphan" \in doc.todo
            /\ Record = "none" => feature \subseteq doc.todo
            /\ tmp = "old" => "pack-tmp" \in doc.todo
        /\ identity => "info-orphan" \in doc.found
        /\ Record \in InLib /\ ~Exists(disk.lib) /\ ~Exists(disk.stg) => "lib-missing" \in doc.found
        /\ disk.pool # NoCode /\ Record \notin {"active", "identity"}
               => "ghost" \in doc.found \ doc.gone
        /\ row.snap \in {"ahead", "stale"} /\ ~identity => "mismatch" \in doc.found

DInv == Typed /\ Holders /\ Rechecked /\ Bare /\ RmReferralIsSafe /\ Surveyed /\ Accounted

-----------------------------------------------------------------------------
\* The fields of the doctor's process after each of its updates.
LEMMA IdleFields ==
    /\ Idle \in DocState
    /\ Idle.phase = "idle" /\ Idle.status = "none" /\ Idle.refer = "none" /\ Idle.quiet
<1>1. "none" \in Status \cup {"identity"} /\ "none" \in Snapshot /\ "none" \in Referral
  BY DEF Status, Snapshot, Referral
<1> QED BY <1>1 DEF Idle, DocState

LEMMA DisturbedFields ==
    ASSUME doc \in DocState, Disturbed, doc.phase # "idle"
    PROVE  /\ doc' \in DocState
           /\ doc'.phase = doc.phase /\ doc'.next = doc.next /\ doc'.status = doc.status
           /\ doc'.listed = doc.listed /\ doc'.hand = doc.hand
           /\ doc'.refer = "none" /\ doc'.quiet = FALSE
<1>1. "none" \in Referral
  BY DEF Referral
<1> QED BY <1>1, Zenon DEF Disturbed, DocState

LEMMA StartFields ==
    ASSUME NEW s \in Status \cup {"identity"}, NEW n \in Snapshot,
           doc' = [Idle EXCEPT !.phase = "list", !.status = s, !.snap = n]
    PROVE  /\ doc' \in DocState
           /\ doc'.phase = "list" /\ doc'.next = 1 /\ doc'.status = s /\ doc'.snap = n /\ doc'.listed = {}
           /\ doc'.refer = "none" /\ doc'.gone = {}
<1>1. "none" \in Referral
  BY DEF Referral
<1> QED BY <1>1 DEF Idle, DocState

LEMMA ListedFields ==
    ASSUME doc \in DocState, NEW i \in {1, 2, 3},
           NEW L \in SUBSET (Area \cup Version \cup {"pack-tmp"}),
           doc' = [doc EXCEPT !.next = i, !.listed = L]
    PROVE  /\ doc' \in DocState
           /\ doc'.phase = doc.phase /\ doc'.next = i /\ doc'.status = doc.status /\ doc'.snap = doc.snap
           /\ doc'.listed = L /\ doc'.refer = doc.refer /\ doc'.quiet = doc.quiet
           /\ doc'.gone = doc.gone
BY Zenon DEF DocState

LEMMA JudgedFields ==
    ASSUME doc \in DocState, NEW F \in SUBSET Kind, NEW r \in Referral,
           NEW fix \in SUBSET Fixer, NEW todo \in SUBSET Fixable,
           doc' = [doc EXCEPT !.phase = "fix", !.next = 1, !.listed = {}, !.status = "none",
                         !.snap = "none", !.found = F, !.refer = r, !.fix = fix, !.todo = todo]
    PROVE  /\ doc' \in DocState
           /\ doc'.phase = "fix" /\ doc'.status = "none" /\ doc'.found = F /\ doc'.refer = r
           /\ doc'.fix = fix /\ doc'.todo = todo /\ doc'.gone = doc.gone /\ doc'.quiet = doc.quiet
           /\ doc'.locked = doc.locked
<1>1. "none" \in Status \cup {"identity"} /\ "none" \in Snapshot
  BY DEF Status, Snapshot
<1> QED BY <1>1, Zenon DEF DocState

LEMMA HandFields ==
    ASSUME doc \in DocState, NEW k \in Fixable,
           doc' = [doc EXCEPT !.phase = "recheck", !.hand = k]
    PROVE  /\ doc' \in DocState
           /\ doc'.phase = "recheck" /\ doc'.hand = k /\ doc'.status = doc.status /\ doc'.found = doc.found
           /\ doc'.refer = doc.refer /\ doc'.fix = doc.fix /\ doc'.todo = doc.todo /\ doc'.gone = doc.gone
           /\ doc'.quiet = doc.quiet /\ doc'.locked = doc.locked
BY Zenon DEF DocState

LEMMA ActFields ==
    ASSUME doc \in DocState, doc' = [doc EXCEPT !.phase = "act"]
    PROVE  /\ doc' \in DocState
           /\ doc'.phase = "act" /\ doc'.hand = doc.hand /\ doc'.status = doc.status /\ doc'.found = doc.found
           /\ doc'.refer = doc.refer /\ doc'.fix = doc.fix /\ doc'.todo = doc.todo /\ doc'.gone = doc.gone
           /\ doc'.quiet = doc.quiet /\ doc'.locked = doc.locked
BY Zenon DEF DocState

LEMMA ResolvedFields ==
    ASSUME doc \in DocState, NEW k \in Fixable,
           NEW o \in {"fixed", "vanished", "blocked", "locked"},
           doc' = Resolved(k, o)
    PROVE  /\ doc' \in DocState
           /\ doc'.phase = "fix" /\ doc'.status = doc.status /\ doc'.found = doc.found
           /\ doc'.refer = doc.refer /\ doc'.fix = doc.fix /\ doc'.todo = doc.todo \ {k}
           /\ doc'.gone = IF o \in {"fixed", "vanished"} THEN doc.gone \cup {k} ELSE doc.gone
           /\ doc'.quiet = doc.quiet /\ doc'.locked = (doc.locked \/ o = "locked")
<1> DEFINE g == IF o \in {"fixed", "vanished"} THEN doc.gone \cup {k} ELSE doc.gone
           t == doc.todo \ {k}
           l == (doc.locked \/ o = "locked")
<1>1. g \in SUBSET Fixable /\ t \in SUBSET Fixable /\ l \in BOOLEAN
  BY DEF DocState
<1>2. doc' = [doc EXCEPT !.phase = "fix", !.hand = "none", !.todo = t, !.gone = g, !.locked = l]
  BY Zenon DEF Resolved
<1> HIDE DEF g, t, l
<1>3. /\ doc' \in DocState
      /\ doc'.phase = "fix" /\ doc'.status = doc.status /\ doc'.found = doc.found
      /\ doc'.refer = doc.refer /\ doc'.fix = doc.fix /\ doc'.todo = t
      /\ doc'.gone = g
      /\ doc'.quiet = doc.quiet /\ doc'.locked = l
  BY <1>1, <1>2, Zenon DEF DocState
<1> QED BY <1>3 DEF g, t, l

-----------------------------------------------------------------------------
\* The status changes only under the lock.
LEMMA StatusNeedsLock ==
    ASSUME Core, NEW p \in Proc, Begin(p) \/ Continue(p) \/ Crash(p), lock # p
    PROVE  row'.status = row.status
<1>1. pc[p] \notin Locked
  BY DEF Core, Control, LockHeld
<1> USE <1>1 DEF At, ghost, Locked, PassBody
<1>2. CASE Begin(p)
  BY <1>2 DEF Begin, SubmitStart, CheckScan, RestageStart, ApproveStart, CancelStart,
              ClearStart, RmStart, Start
<1>3. CASE Crash(p)
  BY <1>3 DEF Crash, Abandon, Core, Data, Row
<1>4. CASE TryLock(p) \/ RmtreePart(p)
  BY <1>4 DEF TryLock, RmtreePart
<1>5. CASE SubmitStep(p)
  BY <1>5 DEF SubmitStep, SubmitWipe, SubmitCopy, SubmitParse, SubmitUndo, SubmitMeta,
              SubmitCommit, SubmitDiscard, SubmitPurge, SubmitFault, SubmitLateUndo
<1>6. CASE CheckStep(p)
  BY <1>6 DEF CheckStep, CheckInit, CheckEnsure, CheckMark, CheckPrepare, CheckRun,
              CheckFault, SnapDelete, SnapInsert, Swallowed
<1>7. CASE PassStep(p)
  BY <1>7 DEF PassStep, PassEvent, PassActive, ArchiveRmSrc, ArchiveMvSrc, ArchiveProduct
<1>8. CASE FailStep(p)
  BY <1>8 DEF FailStep, RevertEvent, RevertState, RejectRmSrc, RejectCpSrc, RejectProducts,
              RejectUnstage, RejectEvent, RejectState
<1>9. CASE RestageStep(p)
  BY <1>9 DEF RestageStep, RestageRecall, RestagePurge, RestageState, RestageDiscard
<1>10. CASE OperatorStep(p)
  BY <1>10 DEF OperatorStep, ApproveState, CancelUnstage, CancelDelete, ClearUnstage, RmDisk,
               RmDelete
<1> QED
  BY <1>2, <1>3, <1>4, <1>5, <1>6, <1>7, <1>8, <1>9, <1>10 DEF Continue

LEMMA DiskAreas == ASSUME NEW d \in Disk PROVE DOMAIN d = Areas
BY DEF Disk, Areas

\* A command disturbs the pass; what the doctor has rechecked is behind its lock.
LEMMA CommandKeeps ==
    ASSUME DInv, NEW p \in Proc, CommandStep(p)
    PROVE  DInv'
<1>1. /\ world.live /\ Core /\ (Begin(p) \/ Continue(p) \/ Crash(p))
      /\ UNCHANGED <<tmp, pack, world, identity>>
  BY DEF CommandStep, DInv, Holders
<1>2. Core'
  BY <1>1, StepPreserves
<1>3. doc.phase = "idle" => doc' = doc
  BY DEF CommandStep, Disturbed
<1>4. doc.phase # "idle" =>
        /\ doc' \in DocState
        /\ doc'.phase = doc.phase /\ doc'.next = doc.next /\ doc'.status = doc.status
        /\ doc'.listed = doc.listed /\ doc'.hand = doc.hand
        /\ doc'.refer = "none" /\ doc'.quiet = FALSE
  BY DisturbedFields DEF CommandStep, DInv, Typed
<1>5. Typed'
  <2>1. row' \in Row /\ DOMAIN disk' = Areas
    BY <1>2, DiskAreas DEF Core, Data
  <2>2. feature' \subseteq Version
    BY DEF CommandStep, DInv, Typed
  <2>3. lock' \in Proc \cup {NoProc, DoctorId, PackId}
    BY <1>1, LockMoves DEF DInv, Typed
  <2> QED BY <1>1, <1>3, <1>4, <2>1, <2>2, <2>3 DEF DInv, Typed
<1>6. Holders'
  <2>1. lock \in {DoctorId, PackId} => lock' = lock
    BY <1>1, LockMoves, HolderAssumption
  <2> QED BY <1>1, <1>2, <1>3, <1>4, <2>1 DEF DInv, Holders
<1>7. Rechecked'
  <2>1. doc.phase = "act" => lock = DoctorId
    BY DEF DInv, Holders
  <2>2. doc.phase = "act" => row'.status = row.status
    BY <1>1, <2>1, StatusNeedsLock, HolderAssumption
  <2> QED BY <1>1, <1>3, <1>4, <2>2 DEF DInv, Rechecked, Recheck, RecheckPool, RecheckArtifact,
             RecheckDump, Insulated, Record
<1>8. Bare' /\ RmReferralIsSafe'
  <2>1. ~identity
    BY <1>1 DEF DInv, Bare
  <2>2. doc'.refer # "ops rm"
    BY <1>3, <1>4, IdleFields DEF DInv, Holders
  <2> QED BY <1>1, <1>3, <1>4, <2>1, <2>2 DEF DInv, Bare, RmReferralIsSafe
<1>9. Surveyed' /\ Accounted'
  BY <1>3, <1>4 DEF Surveyed, Accounted, Undisturbed
<1> QED BY <1>5, <1>6, <1>7, <1>8, <1>9 DEF DInv

\* So does a pack, which leaves the row and the other areas alone.
LEMMA PackKeeps ==
    ASSUME DInv, PackStep
    PROVE  DInv'
<1>1. UNCHANGED <<row, disk, pc, loc, gen, screened, faults, world, identity>>
  BY DEF PackStep
<1>3. doc.phase = "idle" => doc' = doc
  BY DEF PackStep, Disturbed
<1>4. doc.phase # "idle" =>
        /\ doc' \in DocState
        /\ doc'.phase = doc.phase /\ doc'.next = doc.next /\ doc'.status = doc.status
        /\ doc'.listed = doc.listed /\ doc'.hand = doc.hand
        /\ doc'.refer = "none" /\ doc'.quiet = FALSE
  BY DisturbedFields DEF PackStep, DInv, Typed
<1>2. /\ feature' \subseteq Version /\ tmp' \in {"none", "fresh", "old"}
      /\ pack' \in {"idle", "lock"} \cup Version
      /\ pack' \in Version => lock' = PackId
      /\ lock' = lock \/ (lock = NoProc /\ lock' = PackId) \/ (lock = PackId /\ lock' = NoProc)
      /\ crashes' = crashes \/ (crashes < MaxCrashes /\ crashes' = crashes + 1)
  BY DEF PackStep, PackStart, PackLock, PackWrite, PackFails, PackCrash, TmpAges, DInv, Typed,
         Holders, Version
<1>5. Typed'
  BY <1>1, <1>2, <1>3, <1>4 DEF DInv, Typed
<1>6. Holders'
  <2>1. Core => Core'
    <3>1. \A p \in Proc : lock = p <=> lock' = p
      BY <1>2, HolderAssumption, ProcAssumption
    <3>2. Control => Control'
      BY <1>1, <3>1 DEF Control, LockHeld
    <3>3. Data => Data'
      BY <1>1, <1>2, BoundAssumption DEF Data
    <3> QED BY <1>1, <3>2, <3>3 DEF Core, RowInv, Promise, Exists
  <2>2. lock = DoctorId => lock' = DoctorId
    BY <1>2, HolderAssumption
  <2> QED BY <1>1, <1>2, <1>3, <1>4, <2>1, <2>2 DEF DInv, Holders
<1>7. Rechecked'
  BY <1>1, <1>3, <1>4 DEF DInv, Rechecked, Recheck, RecheckPool, RecheckArtifact,
             RecheckDump, Insulated, Record
<1>8. Bare' /\ RmReferralIsSafe'
  <2>2. doc'.refer # "ops rm"
    BY <1>3, <1>4, IdleFields DEF DInv, Holders
  <2> QED BY <1>1, <1>3, <1>4, <2>2 DEF DInv, Bare, RmReferralIsSafe, Exists
<1>9. Surveyed' /\ Accounted'
  BY <1>3, <1>4 DEF Surveyed, Accounted, Undisturbed
<1> QED BY <1>5, <1>6, <1>7, <1>8, <1>9 DEF DInv

-----------------------------------------------------------------------------
\* The doctor's own steps leave the row alone, and of the lock only its own hold.
LEMMA CoreBeside ==
    ASSUME Core, UNCHANGED <<row, pc, loc, ghost, disk>>,
           \A p \in Proc : lock = p <=> lock' = p
    PROVE  Core'
<1>1. Control'
  BY DEF Core, Control, LockHeld
<1> QED BY <1>1 DEF Core, Data, RowInv, Promise, Exists, ghost

\* What no step of the scan changes.
Still == UNCHANGED <<row, disk, lock, pc, loc, ghost, feature, tmp, pack, world, identity>>

LEMMA StillKeeps ==
    ASSUME DInv, Still
    PROVE  /\ UNCHANGED <<row, disk, lock, feature, tmp, pack, world, identity>>
           /\ doc' \in DocState => Typed'
           /\ world.live => Core'
           /\ Record' = Record
<1>1. UNCHANGED <<row, disk, lock, pc, loc, ghost, feature, tmp, pack, world, identity>>
  BY DEF Still
<1> QED BY <1>1, CoreBeside DEF DInv, Typed, Holders, Record

LEMMA StartKeeps ==
    ASSUME DInv, DoctorStart, Still
    PROVE  DInv'
<1> DEFINE n == row.snap  r == Record
<1>1. doc.phase = "idle" /\ doc' = [Idle EXCEPT !.phase = "list", !.status = r, !.snap = n]
  BY DEF DoctorStart
<1>2. r \in Status \cup {"identity"} /\ n \in Snapshot
  BY DEF DInv, Typed, Record, Row
<1> HIDE DEF n, r
<1>3. /\ doc' \in DocState
      /\ doc'.phase = "list" /\ doc'.next = 1 /\ doc'.status = r /\ doc'.snap = n
      /\ doc'.listed = {} /\ doc'.refer = "none" /\ doc'.gone = {}
  BY <1>1, <1>2, StartFields
<1>4. /\ UNCHANGED <<row, disk, lock, feature, tmp, pack, world, identity>>
      /\ Typed' /\ (world.live => Core') /\ Record' = Record
  BY <1>3, StillKeeps
<1>5. Holders'
  BY <1>3, <1>4 DEF DInv, Holders
<1>6. Bare'
  BY <1>3, <1>4 DEF DInv, Bare, Record, Typed, Row, Status, r
<1>7. Surveyed'
  BY <1>3, <1>4 DEF Surveyed, r, n
<1> QED BY <1>3, <1>4, <1>5, <1>6, <1>7 DEF DInv, Rechecked, RmReferralIsSafe, Accounted

\* What each of the two listings shows.
LEMMA FirstEntries ==
    ASSUME Typed, NEW x, x \in UNION {Entries(a) : a \in AreaOrder[1] \ world.blind}
    PROVE  \/ x = "alpha_src" /\ Exists(disk.lib)
           \/ x = "staging" /\ Exists(disk.stg)
           \/ x = "alpha_pnl" /\ disk.pnl # NoCode
BY DEF Entries, AreaOrder

LEMMA SecondEntries ==
    ASSUME Typed, NEW x, x \in UNION {Entries(a) : a \in AreaOrder[2] \ world.blind}
    PROVE  x \in {"pool", "dump_local", "pack-tmp"} \cup Version
BY DEF Entries, AreaOrder, Typed

LEMMA FirstShown ==
    ASSUME Typed
    PROVE  LET L == UNION {Entries(a) : a \in AreaOrder[1] \ world.blind}
           IN  /\ Exists(disk.lib) => "alpha_src" \in L \cup world.blind
               /\ Exists(disk.stg) => "staging" \in L \cup world.blind
               /\ disk.pnl # NoCode => "alpha_pnl" \in L \cup world.blind
<1> DEFINE L == UNION {Entries(a) : a \in AreaOrder[1] \ world.blind}
<1>1. \A a \in {"alpha_src", "staging", "alpha_pnl"} \ world.blind : Entries(a) \subseteq L
  BY DEF AreaOrder
<1>2. /\ Exists(disk.lib) => "alpha_src" \in Entries("alpha_src")
      /\ Exists(disk.stg) => "staging" \in Entries("staging")
      /\ disk.pnl # NoCode => "alpha_pnl" \in Entries("alpha_pnl")
  BY DEF Entries
<1> HIDE DEF L
<1>3. /\ Exists(disk.lib) => "alpha_src" \in L \cup world.blind
      /\ Exists(disk.stg) => "staging" \in L \cup world.blind
      /\ disk.pnl # NoCode => "alpha_pnl" \in L \cup world.blind
  BY <1>1, <1>2
<1> QED BY <1>3 DEF L

LEMMA SecondShown ==
    ASSUME Typed, world.blind = {}
    PROVE  LET L == UNION {Entries(a) : a \in AreaOrder[2] \ world.blind}
           IN  /\ disk.pool # NoCode => "pool" \in L
               /\ disk.dump # NoCode => "dump_local" \in L
               /\ feature \subseteq L
               /\ tmp = "old" => "pack-tmp" \in L
<1> DEFINE L == UNION {Entries(a) : a \in AreaOrder[2] \ world.blind}
<1>1. \A a \in {"alpha_feature", "pool", "dump_local"} : Entries(a) \subseteq L
  BY DEF AreaOrder
<1>2. /\ disk.pool # NoCode => "pool" \in Entries("pool")
      /\ disk.dump # NoCode => "dump_local" \in Entries("dump_local")
      /\ feature \subseteq Entries("alpha_feature")
      /\ tmp = "old" => "pack-tmp" \in Entries("alpha_feature")
  BY DEF Entries
<1> HIDE DEF L
<1>3. /\ disk.pool # NoCode => "pool" \in L
      /\ disk.dump # NoCode => "dump_local" \in L
      /\ feature \subseteq L
      /\ tmp = "old" => "pack-tmp" \in L
  BY <1>1, <1>2
<1> QED BY <1>3 DEF L

LEMMA ListKeeps ==
    ASSUME DInv, ListArea, Still
    PROVE  DInv'
<1> DEFINE L == UNION {Entries(a) : a \in AreaOrder[doc.next] \ world.blind}
<1>1. /\ doc.phase = "list" /\ doc.next \in {1, 2}
      /\ doc' = [doc EXCEPT !.next = doc.next + 1, !.listed = doc.listed \cup L]
  BY DEF ListArea, AreaOrder
<1>2. Typed /\ doc \in DocState
  BY DEF DInv, Typed
<1>3. doc.next = 1 => \A x \in L : \/ x = "alpha_src" /\ Exists(disk.lib)
                                   \/ x = "staging" /\ Exists(disk.stg)
                                   \/ x = "alpha_pnl" /\ disk.pnl # NoCode
  BY <1>2, FirstEntries
<1>4. doc.next = 2 => L \subseteq {"pool", "dump_local", "pack-tmp"} \cup Version
  BY <1>2, SecondEntries
<1>5. doc.next = 1 => /\ Exists(disk.lib) => "alpha_src" \in L \cup world.blind
                      /\ Exists(disk.stg) => "staging" \in L \cup world.blind
                      /\ disk.pnl # NoCode => "alpha_pnl" \in L \cup world.blind
  BY <1>2, FirstShown
<1>6. doc.next = 2 /\ world.blind = {} => /\ disk.pool # NoCode => "pool" \in L
                                          /\ disk.dump # NoCode => "dump_local" \in L
                                          /\ feature \subseteq L
                                          /\ tmp = "old" => "pack-tmp" \in L
  BY <1>2, SecondShown
<1> HIDE DEF L
<1>7. doc.next + 1 \in {1, 2, 3} /\ doc.listed \cup L \in SUBSET (Area \cup Version \cup {"pack-tmp"})
  BY <1>1, <1>2, <1>3, <1>4 DEF DocState, Area
<1>8. /\ doc' \in DocState
      /\ doc'.phase = "list" /\ doc'.next = doc.next + 1 /\ doc'.status = doc.status
      /\ doc'.snap = doc.snap /\ doc'.listed = doc.listed \cup L /\ doc'.refer = doc.refer
      /\ doc'.quiet = doc.quiet /\ doc'.gone = doc.gone
  BY <1>1, <1>2, <1>7, ListedFields
<1>9. /\ UNCHANGED <<row, disk, lock, feature, tmp, pack, world, identity>>
      /\ Typed' /\ (world.live => Core') /\ Record' = Record
  BY <1>8, StillKeeps
<1>10. Holders'
  BY <1>1, <1>8, <1>9 DEF DInv, Holders
<1>11. Bare'
  BY <1>1, <1>5, <1>8, <1>9 DEF DInv, Bare, Exists
<1>12. Surveyed'
  BY <1>1, <1>3, <1>4, <1>6, <1>8, <1>9 DEF DInv, Surveyed, Undisturbed, Exists, Version
<1> QED BY <1>8, <1>9, <1>10, <1>11, <1>12
        DEF DInv, Rechecked, RmReferralIsSafe, Accounted, Exists

-----------------------------------------------------------------------------
\* Each family finds kinds of its own.
LEMMA ScanKinds ==
    ASSUME NEW f \in DOMAIN Family
    PROVE  Scan[f] \subseteq Family[f]
<1>1. DOMAIN Family = {"pool_ghost", "snapshot_stale", "info_orphan", "src_drift",
                       "staging_drift", "artifact_orphan", "dump_orphan"}
  BY DEF Family
<1> USE DEF Family, Scan, When
<1>2. Scan.pool_ghost \subseteq Family.pool_ghost
  BY DEF ScanPoolGhost, ClassifyPool
<1>3. /\ Scan.snapshot_stale \subseteq Family.snapshot_stale
      /\ Scan.info_orphan \subseteq Family.info_orphan
      /\ Scan.dump_orphan \subseteq Family.dump_orphan
  BY DEF ScanSnapshotStale, ScanInfoOrphan, ScanDumpOrphan
<1>4. /\ Scan.src_drift \subseteq Family.src_drift
      /\ Scan.staging_drift \subseteq Family.staging_drift
  BY DEF ScanSrcDrift, ScanStagingDrift
<1>5. Scan.artifact_orphan \subseteq Family.artifact_orphan
  BY DEF ScanArtifactOrphan, Version
<1> HIDE DEF Family, Scan, When
<1> QED BY <1>1, <1>2, <1>3, <1>4, <1>5

LEMMA FoundKinds == Found \subseteq Kind
<1>1. \A f \in Scanned : Scan[f] \subseteq Family[f]
  BY ScanKinds DEF Scanned
<1> QED BY <1>1 DEF Found, Kind, Scanned

\* Where every area can be listed, every family reports what it scans for.
LEMMA FoundHas ==
    ASSUME world.blind = {}
    PROVE  /\ "pool" \in doc.listed /\ doc.status \notin {"active", "identity"} => "ghost" \in Found
           /\ doc.status = "none" /\ "dump_local" \in doc.listed => "dump-orphan" \in Found
           /\ doc.status = "none" => Version \cap doc.listed \subseteq Found
           /\ "pack-tmp" \in doc.listed => "pack-tmp" \in Found
           /\ doc.status = "identity" => "info-orphan" \in Found
           /\ doc.status \in InLib /\ doc.listed \cap {"alpha_src", "staging"} = {}
                  => "lib-missing" \in Found
           /\ doc.status # "identity" /\ doc.snap \in {"ahead", "stale"} => "mismatch" \in Found
<1>1. \A f \in DOMAIN Family : Scan[f] \subseteq Found
  BY DEF Found, Scanned
<1>2. {"pool_ghost", "snapshot_stale", "info_orphan", "src_drift", "artifact_orphan",
       "dump_orphan"} \subseteq DOMAIN Family
  BY DEF Family
<1>3. /\ ScanPoolGhost \subseteq Found /\ ScanSnapshotStale \subseteq Found
      /\ ScanInfoOrphan \subseteq Found /\ ScanSrcDrift \subseteq Found
      /\ ScanArtifactOrphan \subseteq Found /\ ScanDumpOrphan \subseteq Found
  <2>1. /\ Scan["pool_ghost"] = ScanPoolGhost /\ Scan["snapshot_stale"] = ScanSnapshotStale
        /\ Scan["info_orphan"] = ScanInfoOrphan /\ Scan["src_drift"] = ScanSrcDrift
        /\ Scan["artifact_orphan"] = ScanArtifactOrphan /\ Scan["dump_orphan"] = ScanDumpOrphan
    BY DEF Scan
  <2> QED BY <1>1, <1>2, <2>1
<1> USE DEF When, Sees
<1>4. "pool" \in doc.listed /\ doc.status \notin {"active", "identity"} => "ghost" \in Found
  BY <1>3 DEF ScanPoolGhost, ClassifyPool
<1>5. doc.status = "none" /\ "dump_local" \in doc.listed => "dump-orphan" \in Found
  BY <1>3 DEF ScanDumpOrphan
<1>6. /\ doc.status = "none" => Version \cap doc.listed \subseteq Found
      /\ "pack-tmp" \in doc.listed => "pack-tmp" \in Found
  BY <1>3 DEF ScanArtifactOrphan
<1>7. doc.status = "identity" => "info-orphan" \in Found
  BY <1>3 DEF ScanInfoOrphan
<1>8. doc.status \in InLib /\ doc.listed \cap {"alpha_src", "staging"} = {} => "lib-missing" \in Found
  BY <1>3 DEF ScanSrcDrift
<1>9. doc.status # "identity" /\ doc.snap \in {"ahead", "stale"} => "mismatch" \in Found
  BY <1>3 DEF ScanSnapshotStale
<1> QED BY <1>4, <1>5, <1>6, <1>7, <1>8, <1>9

\* What is found and can be repaired is agreed to by who agrees to every family.
LEMMA AgreedHas == Found \cap Fixable \subseteq Agreed(Fixer)
<1>1. /\ "ghost" \in Family["pool_ghost"]
      /\ {"pack-tmp", "v1", "v2"} \subseteq Family["artifact_orphan"]
      /\ "dump-orphan" \in Family["dump_orphan"]
  BY DEF Family
<1>2. Fixable \subseteq UNION {Family[f] : f \in Fixer}
  BY <1>1 DEF Fixable, Fixer
<1> QED BY <1>2 DEF Agreed

LEMMA JudgeKeeps ==
    ASSUME DInv, Judge, Still
    PROVE  DInv'
<1> DEFINE F == Found  r == Referred
<1>1. PICK fix \in SUBSET Fixer : Judged(fix, Agreed(fix) \cap Fixable)
  BY DEF Judge
<1> DEFINE todo == Agreed(fix) \cap Fixable
<1>2. doc.phase = "list" /\ doc.next = 3 /\ doc \in DocState
  BY DEF Judge, AreaOrder, DInv, Typed, DocState
<1>3. F \in SUBSET Kind /\ r \in Referral /\ todo \in SUBSET Fixable
  BY FoundKinds DEF Referred, Referral
<1>4. doc' = [doc EXCEPT !.phase = "fix", !.next = 1, !.listed = {}, !.status = "none",
                  !.snap = "none", !.found = F, !.refer = r, !.fix = fix, !.todo = todo]
  BY <1>1 DEF Judged
<1>5. fix = Fixer => F \cap Fixable \subseteq todo
  BY AgreedHas
<1>6. doc.quiet /\ world.blind = {} =>
        /\ disk.pool # NoCode /\ Record \notin {"active", "identity"} => "ghost" \in F
        /\ disk.dump # NoCode /\ Record = "none" => "dump-orphan" \in F
        /\ Record = "none" => feature \subseteq F
        /\ tmp = "old" => "pack-tmp" \in F
        /\ identity => "info-orphan" \in F
        /\ Record \in InLib /\ ~Exists(disk.lib) /\ ~Exists(disk.stg) => "lib-missing" \in F
        /\ row.snap \in {"ahead", "stale"} /\ ~identity => "mismatch" \in F
  <2> SUFFICES ASSUME doc.quiet, world.blind = {} PROVE
        /\ disk.pool # NoCode /\ Record \notin {"active", "identity"} => "ghost" \in Found
        /\ disk.dump # NoCode /\ Record = "none" => "dump-orphan" \in Found
        /\ Record = "none" => feature \subseteq Found
        /\ tmp = "old" => "pack-tmp" \in Found
        /\ identity => "info-orphan" \in Found
        /\ Record \in InLib /\ ~Exists(disk.lib) /\ ~Exists(disk.stg) => "lib-missing" \in Found
        /\ row.snap \in {"ahead", "stale"} /\ ~identity => "mismatch" \in Found
    OBVIOUS
  <2>1. /\ doc.status = Record /\ doc.snap = row.snap
        /\ "alpha_src" \in doc.listed => Exists(disk.lib)
        /\ "staging" \in doc.listed => Exists(disk.stg)
        /\ disk.pool # NoCode => "pool" \in doc.listed
        /\ disk.dump # NoCode => "dump_local" \in doc.listed
        /\ feature \subseteq doc.listed
        /\ tmp = "old" => "pack-tmp" \in doc.listed
    BY <1>2 DEF DInv, Surveyed, Undisturbed
  <2>2. identity <=> Record = "identity"
    BY DEF Record, DInv, Typed, Row, Status
  <2>3. feature \subseteq Version
    BY DEF DInv, Typed
  <2> QED BY <2>1, <2>2, <2>3, FoundHas
<1>7. r = "ops rm" => ~Exists(disk.lib) /\ ~Exists(disk.stg) /\ disk.pnl = NoCode
  BY <1>2 DEF Referred, DInv, Bare
<1> HIDE DEF F, r, todo
<1>8. /\ doc' \in DocState
      /\ doc'.phase = "fix" /\ doc'.status = "none" /\ doc'.found = F /\ doc'.refer = r
      /\ doc'.fix = fix /\ doc'.todo = todo /\ doc'.gone = doc.gone /\ doc'.quiet = doc.quiet
      /\ doc'.locked = doc.locked
  BY <1>2, <1>3, <1>4, JudgedFields
<1>9. /\ UNCHANGED <<row, disk, lock, feature, tmp, pack, world, identity>>
      /\ Typed' /\ (world.live => Core') /\ Record' = Record
  BY <1>8, StillKeeps
<1>10. Holders' /\ Rechecked' /\ Bare' /\ Surveyed'
  BY <1>8, <1>9 DEF DInv, Holders, Rechecked, Bare, Surveyed
<1>11. RmReferralIsSafe'
  BY <1>7, <1>8, <1>9 DEF RmReferralIsSafe, Exists
<1>12. Accounted'
  <2> SUFFICES ASSUME doc.quiet, world.blind = {} PROVE Accounted'
    BY <1>8, <1>9 DEF Accounted, Undisturbed
  <2>1. doc.gone = {}
    BY <1>2 DEF DInv, Surveyed, Undisturbed
  <2>2. {"ghost", "dump-orphan", "pack-tmp"} \cup feature \subseteq Fixable
    BY DEF Fixable, DInv, Typed, Version
  <2> QED BY <1>5, <1>6, <1>8, <1>9, <2>1, <2>2 DEF Accounted, Exists
<1> QED BY <1>9, <1>10, <1>11, <1>12 DEF DInv

-----------------------------------------------------------------------------
\* Taking and dropping the lock of the doctor does not concern the commands.
LEMMA BesideKeeps ==
    ASSUME DInv, UNCHANGED <<row, disk, pc, loc, ghost, feature, tmp, pack, world, identity>>,
           doc' \in DocState,
           \/ lock' = lock
           \/ lock = NoProc /\ lock' = DoctorId
           \/ lock = DoctorId /\ lock' = NoProc
    PROVE  /\ Typed' /\ Record' = Record
           /\ world.live => Core'
           /\ pack \in Version => lock' = PackId
<1>1. \A p \in Proc : lock = p <=> lock' = p
  BY HolderAssumption, ProcAssumption
<1>2. world.live => Core'
  BY <1>1, CoreBeside DEF DInv, Holders
<1>3. pack \in Version => lock' = PackId
  BY HolderAssumption DEF DInv, Holders
<1> QED BY <1>2, <1>3 DEF DInv, Typed, Record

LEMMA IdleKeeps ==
    ASSUME DInv, doc' = Idle,
           UNCHANGED <<row, disk, pc, loc, ghost, feature, tmp, pack, world, identity>>,
           lock' = lock \/ (lock = DoctorId /\ lock' = NoProc)
    PROVE  DInv'
<1>1. Typed' /\ (world.live => Core') /\ (pack \in Version => lock' = PackId)
  BY IdleFields, BesideKeeps
<1>2. Idle.phase = "idle" /\ Idle.refer # "ops rm"
  BY IdleFields
<1> QED BY <1>1, <1>2 DEF DInv, Holders, Rechecked, Bare, RmReferralIsSafe, Surveyed, Accounted

LEMMA FixLockKeeps ==
    ASSUME DInv, FixLock,
           UNCHANGED <<row, disk, pc, loc, ghost, feature, tmp, pack, world, identity>>
    PROVE  DInv'
<1>1. PICK k \in doc.todo :
         \/ lock = NoProc /\ lock' = DoctorId /\ doc' = [doc EXCEPT !.phase = "recheck", !.hand = k]
         \/ lock' = lock /\ doc' = Resolved(k, "locked")
  BY DEF FixLock
<1>2. doc.phase = "fix" /\ doc \in DocState /\ k \in Fixable
  BY <1>1 DEF FixLock, DInv, Typed, DocState
<1>3. CASE lock = NoProc /\ lock' = DoctorId /\ doc' = [doc EXCEPT !.phase = "recheck", !.hand = k]
  <2>1. /\ doc' \in DocState
        /\ doc'.phase = "recheck" /\ doc'.hand = k /\ doc'.status = doc.status
        /\ doc'.found = doc.found /\ doc'.refer = doc.refer /\ doc'.fix = doc.fix
        /\ doc'.todo = doc.todo /\ doc'.gone = doc.gone
        /\ doc'.quiet = doc.quiet /\ doc'.locked = doc.locked
    BY <1>2, <1>3, HandFields
  <2>2. Typed' /\ Record' = Record /\ (world.live => Core') /\ (pack \in Version => lock' = PackId)
    BY <1>3, <2>1, BesideKeeps
  <2>3. Holders' /\ Rechecked' /\ Bare' /\ RmReferralIsSafe' /\ Surveyed'
    BY <1>2, <1>3, <2>1, <2>2
    DEF DInv, Holders, Rechecked, Bare, RmReferralIsSafe, Surveyed, Exists
  <2>4. Accounted'
    BY <1>2, <2>1, <2>2 DEF DInv, Accounted, Undisturbed, Exists
  <2> QED BY <2>2, <2>3, <2>4 DEF DInv
<1>4. CASE lock' = lock /\ doc' = Resolved(k, "locked")
  <2>1. /\ doc' \in DocState
        /\ doc'.phase = "fix" /\ doc'.status = doc.status /\ doc'.found = doc.found
        /\ doc'.refer = doc.refer /\ doc'.fix = doc.fix /\ doc'.todo = doc.todo \ {k}
        /\ doc'.gone = doc.gone /\ doc'.quiet = doc.quiet /\ doc'.locked
    BY <1>2, <1>4, ResolvedFields
  <2>2. Typed' /\ Record' = Record /\ (world.live => Core') /\ (pack \in Version => lock' = PackId)
    BY <1>4, <2>1, BesideKeeps
  <2>3. Holders' /\ Rechecked' /\ Bare' /\ RmReferralIsSafe' /\ Surveyed'
    BY <1>2, <1>4, <2>1, <2>2
    DEF DInv, Holders, Rechecked, Bare, RmReferralIsSafe, Surveyed, Exists
  <2>4. Accounted'
    BY <1>2, <2>1, <2>2 DEF DInv, Accounted, Undisturbed, Exists
  <2> QED BY <2>2, <2>3, <2>4 DEF DInv
<1> QED BY <1>1, <1>3, <1>4

LEMMA FixRecheckKeeps ==
    ASSUME DInv, FixRecheck,
           UNCHANGED <<row, disk, pc, loc, ghost, feature, tmp, pack, world, identity>>
    PROVE  DInv'
<1> DEFINE k == doc.hand
<1>1. doc.phase = "recheck" /\ doc \in DocState /\ k \in Fixable /\ lock = DoctorId
  BY DEF FixRecheck, DInv, Typed, Holders
<1>2. CASE Recheck(k) /\ ~Insulated(k)
  <2>1. lock' = lock /\ doc' = [doc EXCEPT !.phase = "act"]
    BY <1>2 DEF FixRecheck
  <2>2. /\ doc' \in DocState
        /\ doc'.phase = "act" /\ doc'.hand = doc.hand /\ doc'.status = doc.status
        /\ doc'.found = doc.found /\ doc'.refer = doc.refer /\ doc'.fix = doc.fix
        /\ doc'.todo = doc.todo /\ doc'.gone = doc.gone
        /\ doc'.quiet = doc.quiet /\ doc'.locked = doc.locked
    BY <1>1, <2>1, ActFields
  <2>3. Typed' /\ Record' = Record /\ (world.live => Core') /\ (pack \in Version => lock' = PackId)
    BY <2>1, <2>2, BesideKeeps
  <2>4. Holders' /\ Bare' /\ RmReferralIsSafe' /\ Surveyed'
    BY <1>1, <2>1, <2>2, <2>3 DEF DInv, Holders, Bare, RmReferralIsSafe, Surveyed, Exists
  <2>5. Rechecked'
    BY <1>2, <2>2, <2>3 DEF Rechecked, Recheck, RecheckPool, RecheckArtifact, RecheckDump,
       Insulated
  <2>6. Accounted'
    BY <1>1, <2>2, <2>3 DEF DInv, Accounted, Undisturbed, Exists
  <2> QED BY <2>3, <2>4, <2>5, <2>6 DEF DInv
<1>3. CASE ~(Recheck(k) /\ ~Insulated(k))
  <2>1. PICK o \in {"blocked", "vanished"} :
           /\ lock' = NoProc /\ doc' = Resolved(k, o)
           /\ o = "vanished" => ~Recheck(k)
           /\ o = "blocked" => Recheck(k) /\ Insulated(k)
    BY <1>3 DEF FixRecheck
  <2>2. /\ doc' \in DocState
        /\ doc'.phase = "fix" /\ doc'.status = doc.status /\ doc'.found = doc.found
        /\ doc'.refer = doc.refer /\ doc'.fix = doc.fix /\ doc'.todo = doc.todo \ {k}
        /\ doc'.gone = IF o = "vanished" THEN doc.gone \cup {k} ELSE doc.gone
        /\ doc'.quiet = doc.quiet /\ doc'.locked = doc.locked
    <3> HIDE DEF k
    <3>1. doc' = Resolved(k, o) /\ o \in {"fixed", "vanished", "blocked", "locked"}
      BY <2>1
    <3>2. /\ doc' \in DocState
          /\ doc'.phase = "fix" /\ doc'.status = doc.status /\ doc'.found = doc.found
          /\ doc'.refer = doc.refer /\ doc'.fix = doc.fix /\ doc'.todo = doc.todo \ {k}
          /\ doc'.gone = IF o \in {"fixed", "vanished"} THEN doc.gone \cup {k} ELSE doc.gone
          /\ doc'.quiet = doc.quiet /\ doc'.locked = (doc.locked \/ o = "locked")
      BY <1>1, <3>1, ResolvedFields
    <3>3. doc.locked \in BOOLEAN
      BY <1>1 DEF DocState
    <3> QED BY <2>1, <3>2, <3>3
  <2>3. Typed' /\ Record' = Record /\ (world.live => Core') /\ (pack \in Version => lock' = PackId)
    BY <1>1, <2>1, <2>2, BesideKeeps
  <2>4. Holders' /\ Rechecked' /\ Bare' /\ RmReferralIsSafe' /\ Surveyed'
    BY <1>1, <2>2, <2>3 DEF DInv, Holders, Rechecked, Bare, RmReferralIsSafe, Surveyed, Exists
  <2>5. /\ k = "ghost" => Record \in {"active", "identity"}
        /\ k # "pack-tmp"
        /\ k \in {"dump-orphan", "v1", "v2"} => Record # "none"
    BY <1>1, <2>1 DEF Recheck, RecheckPool, RecheckArtifact, RecheckDump, Insulated, Fixable
  <2>6. Accounted'
    <3>1. feature \subseteq {"v1", "v2"}
      BY DEF DInv, Typed, Version
    <3> QED BY <1>1, <2>2, <2>3, <2>5, <3>1 DEF DInv, Accounted, Undisturbed, Exists
  <2> QED BY <2>3, <2>4, <2>6 DEF DInv
<1> QED BY <1>2, <1>3

LEMMA FixActKeeps ==
    ASSUME DInv, FixAct, UNCHANGED <<row, pc, loc, ghost, pack, world, identity>>
    PROVE  DInv'
<1> DEFINE k == doc.hand
           o == IF PathOk(k) THEN "fixed" ELSE "vanished"
<1>1. doc.phase = "act" /\ doc \in DocState /\ k \in Fixable /\ lock = DoctorId /\ lock' = NoProc
  BY DEF FixAct, DInv, Typed, Holders
<1>2. /\ disk'.stg = disk.stg /\ disk'.lib = disk.lib /\ disk'.pnl = disk.pnl
      /\ disk'.pool = IF k = "ghost" THEN NoCode ELSE disk.pool
      /\ disk'.dump = IF k = "dump-orphan" THEN NoCode ELSE disk.dump
      /\ DOMAIN disk' = Areas
      /\ disk \in Disk => disk' \in Disk
  BY <1>1, Blank, Rewritten DEF FixAct, DInv, Typed, Areas
<1>3. /\ feature' = feature \ {k}
      /\ tmp' = IF k = "pack-tmp" /\ tmp = "old" THEN "none" ELSE tmp
  BY DEF FixAct, PathOk
<1>4. /\ doc' \in DocState
      /\ doc'.phase = "fix" /\ doc'.status = doc.status /\ doc'.found = doc.found
      /\ doc'.refer = doc.refer /\ doc'.fix = doc.fix /\ doc'.todo = doc.todo \ {k}
      /\ doc'.gone = doc.gone \cup {k}
      /\ doc'.quiet = doc.quiet /\ doc'.locked = doc.locked
  <2>1. doc' = Resolved(k, o) /\ o \in {"fixed", "vanished"}
    BY DEF FixAct
  <2> HIDE DEF k, o
  <2>2. /\ doc' \in DocState
        /\ doc'.phase = "fix" /\ doc'.status = doc.status /\ doc'.found = doc.found
        /\ doc'.refer = doc.refer /\ doc'.fix = doc.fix /\ doc'.todo = doc.todo \ {k}
        /\ doc'.gone = IF o \in {"fixed", "vanished"} THEN doc.gone \cup {k} ELSE doc.gone
        /\ doc'.quiet = doc.quiet /\ doc'.locked = (doc.locked \/ o = "locked")
    BY <1>1, <2>1, ResolvedFields
  <2>3. doc.locked \in BOOLEAN
    BY <1>1 DEF DocState
  <2> QED BY <2>1, <2>2, <2>3
<1> HIDE DEF k, o
<1>5. Record' = Record
  BY DEF Record
<1>6. world.live => Core'
  <2> SUFFICES ASSUME Core PROVE Core'
    BY DEF DInv, Holders
  <2>1. Control'
    <3>1. \A p \in Proc : lock = p <=> lock' = p
      BY <1>1, HolderAssumption, ProcAssumption
    <3> QED BY <3>1 DEF Core, Control, LockHeld
  <2>2. Data'
    BY <1>2 DEF Core, Data, ghost
  <2>3. RowInv' /\ \A p \in Proc : Promise(p)'
    BY <1>2 DEF Core, RowInv, Promise, Exists
  <2> QED BY <2>1, <2>2, <2>3 DEF Core
<1>7. Typed'
  BY <1>1, <1>2, <1>3, <1>4 DEF DInv, Typed
<1>8. Holders' /\ Rechecked' /\ Bare' /\ Surveyed'
  BY <1>1, <1>4, <1>6, HolderAssumption DEF DInv, Holders, Rechecked, Bare, Surveyed
<1>9. RmReferralIsSafe'
  BY <1>2, <1>4 DEF DInv, RmReferralIsSafe, Exists
<1>10. Accounted'
  <2>1. feature \subseteq {"v1", "v2"}
    BY DEF DInv, Typed, Version
  <2> QED BY <1>1, <1>2, <1>3, <1>4, <1>5, <2>1 DEF DInv, Accounted, Undisturbed, Exists
<1> QED BY <1>7, <1>8, <1>9, <1>10 DEF DInv

-----------------------------------------------------------------------------
LEMMA InitDInv == DInit => DInv
<1> SUFFICES ASSUME DInit PROVE DInv
  OBVIOUS
<1>1. pack = "idle" /\ doc = Idle /\ doc \in DocState /\ doc.phase = "idle" /\ doc.refer = "none"
  BY IdleFields DEF DInit
<1>2. feature \subseteq Version /\ tmp \in {"none", "fresh", "old"} /\ lock = NoProc
  BY DEF DInit, Fresh, Legacy, Init
<1>3. CASE Fresh
  <2>1. Core /\ world = [live |-> TRUE, blind |-> {}] /\ identity = FALSE
    BY <1>3, InitIInv DEF Fresh, IInv
  <2>2. row \in Row /\ DOMAIN disk = Areas
    BY <2>1, DiskAreas DEF Core, Data
  <2>3. Typed
    BY <1>1, <1>2, <2>1, <2>2 DEF Typed
  <2> QED BY <1>1, <2>1, <2>3
          DEF DInv, Holders, Rechecked, Bare, RmReferralIsSafe, Surveyed, Accounted, Version
<1>4. CASE Legacy
  <2>1. world \in [live: {FALSE}, blind: SUBSET Area]
    BY <1>4 DEF Legacy
  <2>2. PICK s \in Status \cup {"identity"}, snap \in {"none", "stale"} :
           /\ identity = (s = "identity")
           /\ row = [status |-> IF identity THEN "none" ELSE s, entered |-> s = "active",
                     snap |-> snap, lastFail |-> "none"]
    BY <1>4 DEF Legacy
  <2>3. row \in Row /\ identity \in BOOLEAN
    BY <2>2 DEF Row, Status, Snapshot, LastFail
  <2>4. DOMAIN disk = Areas
    BY <1>4 DEF Legacy, Areas
  <2>5. Typed
    BY <1>1, <1>2, <2>1, <2>3, <2>4 DEF Typed
  <2> QED BY <1>1, <2>1, <2>5
          DEF DInv, Holders, Rechecked, Bare, RmReferralIsSafe, Surveyed, Accounted, Version
<1> QED BY <1>3, <1>4 DEF DInit

LEMMA DoctorKeeps ==
    ASSUME DInv, DoctorStep
    PROVE  DInv'
<1>1. UNCHANGED <<row, pc, loc, ghost, pack, world, identity>>
  BY DEF DoctorStep
<1>2. CASE FixAct
  BY <1>1, <1>2, FixActKeeps
<1>3. CASE (DoctorStart \/ ListArea \/ Judge \/ DoctorReturn) /\ UNCHANGED <<disk, lock, feature, tmp>>
  <2>1. Still
    BY <1>1, <1>3 DEF Still
  <2>2. DoctorReturn => DInv'
    BY <1>1, <1>3, IdleKeeps DEF DoctorReturn
  <2> QED BY <1>3, <2>1, <2>2, StartKeeps, ListKeeps, JudgeKeeps
<1>4. CASE (FixLock \/ FixRecheck \/ DoctorKilled) /\ UNCHANGED <<disk, feature, tmp>>
  <2>1. DoctorKilled => DInv'
    BY <1>1, <1>4, IdleKeeps DEF DoctorKilled
  <2> QED BY <1>1, <1>4, <2>1, FixLockKeeps, FixRecheckKeeps
<1> QED BY <1>2, <1>3, <1>4 DEF DoctorStep

LEMMA NextDInv == DInv /\ [DNext]_dvars => DInv'
<1> SUFFICES ASSUME DInv, [DNext]_dvars PROVE DInv'
  OBVIOUS
<1>1. CASE DNext
  BY <1>1, CommandKeeps, PackKeeps, DoctorKeeps DEF DNext
<1>2. CASE UNCHANGED dvars
  <2>1. UNCHANGED <<row, disk, lock, pc, loc, ghost, feature, tmp, pack, doc, world, identity>>
    BY <1>2 DEF dvars, vars, side, ghost
  <2>2. Typed' /\ Record' = Record /\ (world.live => Core') /\ (pack \in Version => lock' = PackId)
    BY <2>1, BesideKeeps DEF DInv, Typed
  <2>3. Holders'
    BY <2>1, <2>2 DEF DInv, Holders
  <2>4. Rechecked'
    BY <2>1, <2>2 DEF DInv, Rechecked, Recheck, RecheckPool, RecheckArtifact, RecheckDump,
       Insulated
  <2>5. Bare' /\ RmReferralIsSafe'
    BY <2>1 DEF DInv, Bare, RmReferralIsSafe, Exists
  <2>6. Surveyed'
    BY <2>1, <2>2 DEF DInv, Surveyed, Undisturbed, Exists
  <2>7. Accounted'
    BY <2>1, <2>2 DEF DInv, Accounted, Undisturbed, Exists
  <2> QED BY <2>2, <2>3, <2>4, <2>5, <2>6, <2>7 DEF DInv
<1> QED BY <1>1, <1>2

\* The doctor is one more holder of the factor's lock: beside it the commands keep
\* what they keep alone, and what it rechecked under the lock stands until it has
\* repaired (guards.py:10-14, checks.py:6-9).
THEOREM DoctorInvariance == DSpec => []DInv
BY InitDInv, NextDInv, PTL DEF DSpec

\* Every variable of the doctor and of pack keeps its type.
THEOREM DoctorTypes == DSpec => []DTypeOK
<1>1. DInv => DTypeOK
  BY DEF DInv, Typed, DocState, DTypeOK
<1> QED BY <1>1, DoctorInvariance, PTL

\* `ops rm` is advised only for a name without sources, whatever area could not
\* be listed (checks.py:203-216).
THEOREM ReferralsAreSafe == DSpec => []RmReferralIsSafe
<1>1. DInv => RmReferralIsSafe
  BY DEF DInv
<1> QED BY <1>1, DoctorInvariance, PTL

\* A pass nobody disturbed leaves no drift that it can repair, and what it does
\* not report is not there (guards.py:22).
THEOREM SweepConverges == DSpec => []SweepRepairs
<1>1. DInv => SweepRepairs
  <2> SUFFICES ASSUME DInv, doc.phase = "fix", doc.todo = {}, doc.quiet, ~doc.locked,
                      world.blind = {}
               PROVE  /\ doc.fix = Fixer =>
                          /\ disk.pool # NoCode => Record \in {"active", "identity"}
                          /\ disk.dump # NoCode \/ feature # {} => Record # "none"
                          /\ tmp # "old"
                      /\ FailKinds \cap (doc.found \ doc.gone) = {} =>
                          /\ Record # "identity"
                          /\ Record \in InLib => Exists(disk.lib) \/ Exists(disk.stg)
                          /\ disk.pool # NoCode => Record = "active"
                      /\ doc.found = {} => row.snap \in {"none", "current"}
    BY DEF SweepRepairs
  <2>1. /\ Accounted /\ doc \in DocState /\ row \in Row
        /\ doc.gone \subseteq Fixable /\ (identity <=> Record = "identity")
    BY DEF DInv, Typed, DocState, Record, Row, Status
  <2>2. "info-orphan" \notin Fixable /\ "lib-missing" \notin Fixable
    BY DEF Fixable
  <2>3. row.snap \in {"none", "ahead", "current", "stale"}
    BY <2>1 DEF Row, Snapshot
  <2> QED BY <2>1, <2>2, <2>3 DEF Accounted, Undisturbed, FailKinds
<1> QED BY <1>1, DoctorInvariance, PTL

\* However old its inventory, the doctor never removes a pool copy of an ACTIVE
\* factor, nor products of a name PG knows at that moment, nor a temporary file
\* that is being written, nor any source (checks.py:6-9, guards.py:10-14).
THEOREM DoctorIsSafe == DSpec => DoctorSparesLive
<1> DEFINE Acts == doc.phase = "act" /\ doc'.phase = "fix"
           Spares == /\ disk'.pool # disk.pool => row.status # "active"
                     /\ disk'.dump # disk.dump \/ feature' # feature
                            => row.status = "none" /\ ~identity
                     /\ tmp' # tmp => tmp = "old"
                     /\ disk'.lib = disk.lib /\ disk'.stg = disk.stg /\ disk'.pnl = disk.pnl
<1>1. ASSUME DInv, [DNext]_dvars, Acts
      PROVE  Spares
  <2>1. FixAct
    <3>1. CASE \E p \in Proc : CommandStep(p)
      BY <1>1, <3>1, DisturbedFields DEF CommandStep, DInv, Typed
    <3>2. CASE PackStep
      BY <1>1, <3>2, DisturbedFields DEF PackStep, DInv, Typed
    <3>3. CASE DoctorStep /\ ~FixAct
      BY <1>1, <3>3, IdleFields
      DEF DoctorStep, DoctorStart, ListArea, Judge, DoctorReturn, FixLock, FixRecheck, DoctorKilled
    <3>4. CASE UNCHANGED dvars
      BY <1>1, <3>4 DEF dvars
    <3> QED BY <1>1, <3>1, <3>2, <3>3, <3>4 DEF DNext
  <2>2. doc.hand \in Fixable /\ Recheck(doc.hand) /\ feature \subseteq Version /\ DOMAIN disk = Areas
    BY <1>1 DEF DInv, Holders, Rechecked, Typed
  <2>3. /\ disk'.stg = disk.stg /\ disk'.lib = disk.lib /\ disk'.pnl = disk.pnl
        /\ disk'.pool # disk.pool => doc.hand = "ghost"
        /\ disk'.dump # disk.dump => doc.hand = "dump-orphan"
        /\ feature' = feature \ {doc.hand}
        /\ tmp' # tmp => tmp = "old"
    BY <2>1, <2>2 DEF FixAct, PathOk, Areas
  <2>4. feature' # feature => doc.hand \in Version
    BY <2>2, <2>3
  <2> QED BY <2>2, <2>3, <2>4
          DEF Recheck, RecheckPool, RecheckDump, RecheckArtifact, Record, Version
<1>2. DInv /\ [DNext]_dvars => [Acts => Spares]_dvars
  BY <1>1
<1> QED BY <1>2, DoctorInvariance, PTL DEF DSpec, DoctorSparesLive
=============================================================================
