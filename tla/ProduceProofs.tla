--------------------------- MODULE ProduceProofs ----------------------------
(***************************************************************************)
(* Why a factor that produce reports as done has a whole dataset, for any  *)
(* number of factors, of overlapping commands, of days and of versions,    *)
(* and any number of killed processes.                                     *)
(*                                                                         *)
(* The argument: unless `ops run` has run a factor, or its archiving was  *)
(* cut short over an old checkpoint, since it was archived as a whole, its *)
(* checkpoint speaks of the source that is in place and the days up to it  *)
(* are that source's; between the move of a new source and the removal of  *)
(* the checkpoint the check has the lock, so that no gsim process starts;  *)
(* and one that has the lock started from the first day or from a          *)
(* checkpoint of that kind.                                                *)
(***************************************************************************)
EXTENDS Produce, TLAPS

(***************************************************************************)
(* The inductive invariant.                                                *)
(***************************************************************************)
Xml == [form : {"none", "production", "legacy"}, start : 0..MaxDay, end : 0..MaxDay]
Checkpoint == [ver : Nat, upto : 0..MaxDay]
Load == [ver : Nat, from : 0..MaxDay, end : 0..MaxDay, temp : BOOLEAN, orig : Xml]
Command == [pc : {"idle", "sync", "move", "run"}, sel : SUBSET Factor,
            dirs : SUBSET Factor, opt : Option]
JobState == Ended \cup {"none", "todo", "running"}

PTypeOK ==
    /\ today \in Day
    /\ source \in [Factor -> Nat]
    /\ status \in [Factor -> {"active", "rejected", "queued"}]
    /\ prodxml \in [Factor -> Xml]
    /\ arch \in [Factor -> {"none", "rmsrc", "mvsrc", "xml", "void", "end"}]
    /\ ck \in [Factor -> Checkpoint]
    /\ dump \in [Factor -> [Day -> Nat]]
    /\ holder \in [Factor -> Driver \cup {NoOne, "run", "check"}]
    /\ loaded \in [Factor -> Load]
    /\ drv \in [Driver -> Command]
    /\ job \in [Driver -> [Factor -> JobState]]

\* A running job is the one that has the lock, and its command is at its workers.
LockIsJob ==
    \A d \in Driver, f \in Factor :
        /\ job[d][f] = "running" <=> holder[f] = d
        /\ job[d][f] = "running" => drv[d].pc = "run"

\* Archiving goes on under the lock, and the XML is in production form before the
\* checkpoint goes.
Archiving ==
    \A f \in Factor : /\ arch[f] # "none" => holder[f] = "check"
                      /\ arch[f] = "void" => prodxml[f] = Production

\* What a factor is like that is not in `touched`.
Archival(f) ==
    /\ holder[f] # "run"
    /\ prodxml[f].form = "production" => prodxml[f] = Production
\* Its checkpoint is one of the source in place, and speaks of what is in the dump,
\* except while it is about to be removed.
Resumable(f) ==
    arch[f] \notin {"xml", "void"} =>
    /\ ck[f].upto # 0 => ck[f].ver = source[f]
    /\ \A x \in Day : x <= ck[f].upto => dump[f][x] = source[f]
\* Its gsim process runs that source, after days that are that source's.
Continues(f) ==
    holder[f] \in Driver =>
        /\ loaded[f].ver = source[f] /\ loaded[f].from # 0
        /\ \A x \in Day : x < loaded[f].from => dump[f][x] = source[f]

LeftAlone(f) == Archival(f) /\ Resumable(f) /\ Continues(f)

PInv == PTypeOK /\ LockIsJob /\ \A f \in Factor \ touched : LeftAlone(f)

LEMMA StartInv == PInit => PInv
<1> SUFFICES ASSUME PInit PROVE PInv
    OBVIOUS
<1> USE ProduceAssumption
<1>1. PTypeOK
    BY SMT DEF PInit, PTypeOK, Command, Xml, Checkpoint, Load, JobState, Production, Legacy,
       NoCk, NoLoad, NoXml, Idle, Option, Day, TODAY
<1>2. LockIsJob
    BY DEF PInit, LockIsJob
<1>3. \A f \in Factor : LeftAlone(f)
    BY SMT DEF PInit, LeftAlone, Archival, Resumable, Continues, Production, Legacy, NoCk, Day
<1> QED BY <1>1, <1>2, <1>3 DEF PInv

(***************************************************************************)
(* Lemmas.                                                                 *)
(***************************************************************************)
\* What is kept about a factor depends on these parts of the state only.
LEMMA Unmoved ==
    ASSUME NEW g, LeftAlone(g),
           source'[g] = source[g], prodxml'[g] = prodxml[g], arch'[g] = arch[g], ck'[g] = ck[g],
           dump'[g] = dump[g], holder'[g] = holder[g], loaded'[g] = loaded[g]
    PROVE  LeftAlone(g)'
BY DEF LeftAlone, Archival, Resumable, Continues

\* A step of another component of the state keeps the jobs and the lock together.
LEMMA LockKept ==
    ASSUME LockIsJob, job' = job, UNCHANGED holder,
           \A d \in Driver : drv[d].pc = "run" => drv'[d].pc = "run"
    PROVE  LockIsJob'
BY DEF LockIsJob

LEMMA DumpedType ==
    ASSUME PTypeOK, NEW f \in Factor, NEW l, NEW last
    PROVE  Dumped(f, l, last) \in [Day -> Nat]
BY ProduceAssumption, SMT DEF PTypeOK, Dumped, Mixed

LEMMA PartlyType ==
    ASSUME PTypeOK, NEW f \in Factor, Partly(f)
    PROVE  dump' \in [Factor -> [Day -> Nat]]
<1>1. PICK last \in 0..loaded[f].end : dump' = [dump EXCEPT ![f] = Dumped(f, loaded[f], last)]
    BY DEF Partly
<1>2. Dumped(f, loaded[f], last) \in [Day -> Nat]
    BY DumpedType
<1> QED BY <1>1, <1>2, SMT DEF PTypeOK

\* Records with fields replaced.
LEMMA XmlDates ==
    ASSUME NEW xml \in Xml, NEW start \in 0..MaxDay, NEW end \in 0..MaxDay
    PROVE  [xml EXCEPT !.start = start, !.end = end] \in Xml
BY Zenon DEF Xml

LEMMA LoadFields ==
    ASSUME NEW l \in Load, NEW v \in Nat, NEW from \in 0..MaxDay, NEW end \in 0..MaxDay
    PROVE  LET r == [l EXCEPT !.ver = v, !.from = from, !.end = end] IN
           r \in Load /\ r.ver = v /\ r.from = from /\ r.end = end
BY Zenon DEF Load

LEMMA LoadOrig ==
    ASSUME NEW l \in Load, NEW xml \in Xml
    PROVE  [l EXCEPT !.orig = xml] \in Load
BY Zenon DEF Load

LEMMA LoadTemp ==
    ASSUME NEW l \in Load
    PROVE  LET r == [l EXCEPT !.temp = TRUE] IN
           r \in Load /\ r.ver = l.ver /\ r.from = l.from /\ r.end = l.end
BY Zenon DEF Load

\* What a gsim process starts from.
LEMMA ResumedType ==
    ASSUME PTypeOK, NEW f \in Factor, NEW c \in Checkpoint,
           NEW start \in 0..MaxDay, NEW end \in 0..MaxDay
    PROVE  LET r == Resumed(f, c, start, end) IN
           /\ r \in Load
           /\ r.ver = IF c.upto = 0 THEN source[f] ELSE c.ver
           /\ r.from = IF c.upto = 0 THEN start ELSE c.upto
           /\ r.end = LastDay(end)
<1>1. LastDay(end) \in 0..MaxDay
    BY ProduceAssumption, SMT DEF PTypeOK, Day, LastDay
<1>2. NoLoad \in Load
    BY ProduceAssumption, SMT DEF NoLoad, Load, NoXml, Xml
<1>3. /\ (IF c.upto = 0 THEN source[f] ELSE c.ver) \in Nat
      /\ (IF c.upto = 0 THEN start ELSE c.upto) \in 0..MaxDay
    BY SMT DEF PTypeOK, Checkpoint
<1> DEFINE v == IF c.upto = 0 THEN source[f] ELSE c.ver
           from == IF c.upto = 0 THEN start ELSE c.upto
           r == [NoLoad EXCEPT !.ver = v, !.from = from, !.end = LastDay(end)]
<1>4. Resumed(f, c, start, end) = r
    BY DEF Resumed
<1>5. r \in Load /\ r.ver = v /\ r.from = from /\ r.end = LastDay(end)
    <2> HIDE DEF v, from
    <2>1. v \in Nat /\ from \in 0..MaxDay
        BY <1>3 DEF v, from
    <2> QED BY <1>1, <1>2, <2>1, Zenon DEF Load
<1> QED BY <1>4, <1>5

\* Archiving has the lock or takes it: no job's.
LEMMA ArchiveLock ==
    ASSUME PInv, Archiving, NEW f \in Factor, ArchiveStep(f)
    PROVE  /\ LockIsJob' /\ holder' \in [Factor -> Driver \cup {NoOne, "run", "check"}]
           /\ holder[f] \in {NoOne, "check"} /\ holder'[f] \in {NoOne, "check"}
           /\ \A g \in Factor \ {f} : holder'[g] = holder[g]
<1> USE ProduceAssumption DEF PInv
<1>1. /\ job' = job /\ drv' = drv /\ holder[f] \in {NoOne, "check"}
      /\ \/ holder' = holder
         \/ holder' = [holder EXCEPT ![f] = NoOne]
         \/ holder' = [holder EXCEPT ![f] = "check"]
    BY DEF Archiving, ArchiveStep, ArchiveBegin, ArchiveRmSrc, ArchiveMvSrc, ArchiveXml,
       ArchiveVoid, ArchiveEnd, ArchiveFails, ArchiveDies, CutShort, lockvars, produce
<1>2. /\ holder'[f] \in {NoOne, "check"}
      /\ \A g \in Factor \ {f} : holder'[g] = holder[g]
      /\ holder' \in [Factor -> Driver \cup {NoOne, "run", "check"}]
    <2>1. CASE holder' = holder
        BY <1>1, <2>1 DEF PTypeOK
    <2>2. CASE holder' = [holder EXCEPT ![f] = NoOne]
        BY <2>2, SMT DEF PTypeOK
    <2>3. CASE holder' = [holder EXCEPT ![f] = "check"]
        BY <2>3, SMT DEF PTypeOK
    <2> QED BY <1>1, <2>1, <2>2, <2>3
<1>3. LockIsJob'
    BY <1>1, <1>2, SMT DEF LockIsJob
<1> QED BY <1>1, <1>2, <1>3

\* What the steps have in common: they keep to the one factor.
LEMMA ArchiveType ==
    ASSUME PInv, Archiving, NEW f \in Factor, ArchiveStep(f)
    PROVE  PTypeOK'
<1> USE ProduceAssumption DEF PInv
<1>1. today' = today /\ dump' = dump /\ loaded' = loaded /\ drv' = drv /\ job' = job
    BY DEF ArchiveStep, ArchiveBegin, ArchiveRmSrc, ArchiveMvSrc, ArchiveXml, ArchiveVoid,
       ArchiveEnd, ArchiveFails, ArchiveDies, CutShort, files, lockvars, produce
<1>2. \E s \in {"active", "rejected", "queued"} : status' = [status EXCEPT ![f] = s]
    BY SMT DEF PTypeOK, ArchiveStep, ArchiveBegin, ArchiveRmSrc, ArchiveMvSrc, ArchiveXml,
       ArchiveVoid, ArchiveEnd, ArchiveFails, ArchiveDies
<1>3. \E v \in Nat : source' = [source EXCEPT ![f] = v]
    BY SMT DEF PTypeOK, ArchiveStep, ArchiveBegin, ArchiveRmSrc, ArchiveMvSrc, ArchiveXml,
       ArchiveVoid, ArchiveEnd, ArchiveFails, ArchiveDies, CutShort
<1>4. {NoXml, Legacy, Production} \subseteq Xml
    BY DEF NoXml, Legacy, Production, Xml, TODAY
<1>5. \E x \in Xml : prodxml' = [prodxml EXCEPT ![f] = x]
    BY <1>4, SMT DEF PTypeOK, ArchiveStep, ArchiveBegin, ArchiveRmSrc, ArchiveMvSrc, ArchiveXml,
       ArchiveVoid, ArchiveEnd, ArchiveFails, ArchiveDies, CutShort, Productionized
<1>6. \E a \in {"none", "rmsrc", "mvsrc", "xml", "void", "end"} : arch' = [arch EXCEPT ![f] = a]
    BY DEF ArchiveStep, ArchiveBegin, ArchiveRmSrc, ArchiveMvSrc, ArchiveXml, ArchiveVoid,
       ArchiveEnd, ArchiveFails, ArchiveDies, CutShort
<1>7. ck' = ck \/ ck' = [ck EXCEPT ![f] = NoCk]
    BY DEF ArchiveStep, ArchiveBegin, ArchiveRmSrc, ArchiveMvSrc, ArchiveXml, ArchiveVoid,
       ArchiveEnd, ArchiveFails, ArchiveDies, CutShort, files
<1>8. NoCk \in Checkpoint
    BY DEF NoCk, Checkpoint
<1>9. ck' \in [Factor -> Checkpoint]
    <2>1. CASE ck' = ck
        BY <2>1 DEF PTypeOK
    <2>2. CASE ck' = [ck EXCEPT ![f] = NoCk]
        BY <1>8, <2>2, SMT DEF PTypeOK
    <2> QED BY <1>7, <2>1, <2>2
<1>10. status' \in [Factor -> {"active", "rejected", "queued"}] /\ source' \in [Factor -> Nat]
    BY <1>2, <1>3, SMT DEF PTypeOK
<1>11. prodxml' \in [Factor -> Xml]
    BY <1>5, SMT DEF PTypeOK
<1>12. arch' \in [Factor -> {"none", "rmsrc", "mvsrc", "xml", "void", "end"}]
    BY <1>6, SMT DEF PTypeOK
<1> QED BY <1>1, <1>9, <1>10, <1>11, <1>12, ArchiveLock DEF PTypeOK

\* What a step of archiving leaves of the other factors, and of its own.
LEMMA ArchiveOthers ==
    ASSUME PInv, Archiving, NEW f \in Factor, ArchiveStep(f), NEW g \in Factor \ touched', g # f
    PROVE  LeftAlone(g)'
<1> USE ProduceAssumption DEF PInv
<1>1. /\ source'[g] = source[g] /\ prodxml'[g] = prodxml[g] /\ arch'[g] = arch[g]
      /\ ck'[g] = ck[g] /\ dump'[g] = dump[g] /\ loaded'[g] = loaded[g]
    BY SMT DEF PTypeOK, ArchiveStep, ArchiveBegin, ArchiveRmSrc, ArchiveMvSrc, ArchiveXml,
       ArchiveVoid, ArchiveEnd, ArchiveFails, ArchiveDies, CutShort, Productionized, files,
       lockvars
<1>2. holder'[g] = holder[g]
    BY ArchiveLock
<1>3. g \in Factor \ touched
    BY DEF ArchiveStep, ArchiveBegin, ArchiveRmSrc, ArchiveMvSrc, ArchiveXml, ArchiveVoid,
       ArchiveEnd, ArchiveFails, ArchiveDies, CutShort
<1> QED BY <1>1, <1>2, <1>3, Unmoved

LEMMA ArchiveOwn ==
    ASSUME PInv, Archiving, NEW f \in Factor, ArchiveStep(f), f \notin touched'
    PROVE  LeftAlone(f)'
<1> USE ProduceAssumption DEF PInv
<1>1. holder'[f] \in {NoOne, "check"}
    BY ArchiveLock
<1>2. holder'[f] # "run" /\ Continues(f)'
    BY <1>1 DEF Continues
<1>3. \/ f \notin touched \/ ArchiveVoid(f)
    BY DEF ArchiveStep, ArchiveBegin, ArchiveRmSrc, ArchiveMvSrc, ArchiveXml, ArchiveEnd,
       ArchiveFails, ArchiveDies, CutShort
<1>4. Archival(f)'
    <2>1. CASE prodxml' = prodxml /\ f \notin touched
        BY <1>2, <2>1 DEF LeftAlone, Archival
    <2>2. CASE prodxml'[f] \in {NoXml, Legacy, Production}
        BY <1>2, <2>2 DEF Archival, NoXml, Legacy, Production
    <2>3. \/ prodxml' = prodxml
          \/ prodxml'[f] \in {NoXml, Legacy, Production}
        BY SMT DEF PTypeOK, ArchiveStep, ArchiveBegin, ArchiveRmSrc, ArchiveMvSrc, ArchiveXml,
           ArchiveVoid, ArchiveEnd, ArchiveFails, ArchiveDies, CutShort, Productionized
    <2>4. CASE ArchiveVoid(f)
        <3>1. prodxml' = prodxml /\ prodxml[f] = Production
            BY <2>4 DEF ArchiveVoid, Archiving
        <3> QED BY <3>1, <2>2
    <2> QED BY <1>3, <2>1, <2>2, <2>3, <2>4
<1>5. Resumable(f)'
    <2>1. CASE ck'[f] = NoCk
        BY <2>1, SMT DEF Resumable, NoCk, Day
    <2>2. CASE arch'[f] \in {"xml", "void"}
        BY <2>2 DEF Resumable
    <2>3. CASE /\ arch[f] \notin {"xml", "void"} /\ f \notin touched
               /\ UNCHANGED <<source, files>>
        BY <2>3 DEF LeftAlone, Resumable, files
    <2>4. CASE \/ \E verdict \in {"active", "rejected"} : ArchiveBegin(f, verdict)
               \/ ArchiveRmSrc(f) \/ ArchiveEnd(f)
        <3>1. arch[f] \notin {"xml", "void"} \/ arch'[f] \in {"xml", "void"}
            <4>1. CASE \E verdict \in {"active", "rejected"} : ArchiveBegin(f, verdict)
                <5>1. holder[f] = NoOne
                    BY <4>1 DEF ArchiveBegin
                <5> QED BY <5>1 DEF Archiving
            <4>2. CASE ArchiveRmSrc(f) \/ ArchiveEnd(f)
                BY <4>2 DEF ArchiveRmSrc, ArchiveEnd
            <4> QED BY <2>4, <4>1, <4>2
        <3>2. f \notin touched /\ UNCHANGED <<source, files>>
            BY <2>4 DEF ArchiveBegin, ArchiveRmSrc, ArchiveEnd
        <3> QED BY <2>2, <2>3, <3>1, <3>2
    <2>5. CASE ArchiveMvSrc(f) \/ ArchiveXml(f)
        <3>1. arch'[f] \in {"xml", "void"}
            BY <2>5, SMT DEF ArchiveMvSrc, ArchiveXml, PTypeOK
        <3> QED BY <2>2, <3>1
    <2>6. CASE ArchiveVoid(f)
        BY <2>1, <2>6, SMT DEF ArchiveVoid, PTypeOK
    <2>7. CASE CutShort(f)
        <3>1. UNCHANGED <<source, files>>
            BY <2>7 DEF CutShort
        <3>2. f \notin touched /\ (arch[f] \in {"xml", "void"} => ck[f] = NoCk)
            BY <2>7 DEF CutShort
        <3> QED BY <2>1, <2>3, <3>1, <3>2 DEF files
    <2> QED BY <2>4, <2>5, <2>6, <2>7 DEF ArchiveStep, ArchiveFails, ArchiveDies
<1> QED BY <1>2, <1>4, <1>5 DEF LeftAlone

LEMMA ArchiveStepInv ==
    ASSUME PInv, Archiving, NEW f \in Factor, ArchiveStep(f) PROVE PInv'
BY ArchiveLock, ArchiveType, ArchiveOthers, ArchiveOwn DEF PInv

\* Nobody else goes near the XML of a factor that is being archived.
LEMMA ArchivingKept ==
    ASSUME PTypeOK, LockIsJob, Archiving, [PNext]_pvars PROVE Archiving'
<1> USE ProduceAssumption
<1>1. ASSUME NEW f \in Factor, ArchiveStep(f) PROVE Archiving'
    <2>1. ASSUME NEW g \in Factor, g # f
          PROVE  arch'[g] = arch[g] /\ holder'[g] = holder[g] /\ prodxml'[g] = prodxml[g]
        BY <1>1, <2>1, SMT DEF PTypeOK, ArchiveStep, ArchiveBegin, ArchiveRmSrc, ArchiveMvSrc,
           ArchiveXml, ArchiveVoid, ArchiveEnd, ArchiveFails, ArchiveDies, CutShort,
           Productionized, lockvars
    <2>2. /\ arch'[f] # "none" => holder'[f] = "check"
          /\ arch'[f] = "void" => prodxml'[f] = Production
        BY <1>1, SMT DEF PTypeOK, Archiving, ArchiveStep, ArchiveBegin, ArchiveRmSrc,
           ArchiveMvSrc, ArchiveXml, ArchiveVoid, ArchiveEnd, ArchiveFails, ArchiveDies,
           CutShort, Productionized, lockvars
    <2> QED BY <2>1, <2>2 DEF Archiving
<1>2. ASSUME arch' = arch,
             \A g \in Factor : holder[g] = "check" =>
                 holder'[g] = "check" /\ prodxml'[g] = prodxml[g]
      PROVE  Archiving'
    BY <1>2 DEF Archiving
<1>3. ASSUME NEW f \in Factor, holder[f] # "check", arch' = arch,
             holder' = holder \/ (\E h : holder' = [holder EXCEPT ![f] = h]),
             prodxml' = prodxml \/ \E x : prodxml' = [prodxml EXCEPT ![f] = x]
      PROVE  Archiving'
    <2>1. \A g \in Factor : holder[g] = "check" =>
              holder'[g] = "check" /\ prodxml'[g] = prodxml[g]
        BY <1>3, SMT DEF PTypeOK
    <2> QED BY <1>2, <1>3, <2>1
<1>4. ASSUME NEW f \in Factor, LibraryStep(f) PROVE Archiving'
    <2>1. holder[f] # "check" /\ holder' = holder /\ arch' = arch
        BY <1>4 DEF LibraryStep, Leave, Approve, Migrate, lockvars
    <2>2. prodxml' = prodxml \/ \E x : prodxml' = [prodxml EXCEPT ![f] = x]
        BY <1>4 DEF LibraryStep, Leave, Approve, Migrate, Productionized
    <2> QED BY <1>3, <2>1, <2>2
<1>5. ASSUME NEW f \in Factor, RunStep(f) PROVE Archiving'
    <2>1. holder[f] # "check" /\ arch' = arch
        BY <1>5 DEF RunStep, RunBegin, RunEnd, RunFails, RunDies, library
    <2>2. \E h : holder' = [holder EXCEPT ![f] = h]
        BY <1>5 DEF RunStep, RunBegin, RunEnd, RunFails, RunDies, Released
    <2>3. prodxml' = prodxml \/ \E x : prodxml' = [prodxml EXCEPT ![f] = x]
        <3>1. CASE RunBegin(f)
            <4>1. PICK start, end \in 1..today :
                    prodxml' = [prodxml EXCEPT ![f].start = start, ![f].end = end]
                BY <3>1 DEF RunBegin
            <4>2. prodxml' = [prodxml EXCEPT ![f] = [prodxml[f] EXCEPT !.start = start, !.end = end]]
                BY <4>1, Zenon
            <4> QED BY <4>2
        <3> QED BY <1>5, <3>1 DEF RunStep, RunEnd, RunFails, RunDies, library
    <2> QED BY <1>3, <2>1, <2>2, <2>3
<1>6. ASSUME NEW d \in Driver, NEW f \in Factor, DriverStep(d, f) PROVE Archiving'
    <2>1. arch' = arch /\ prodxml' = prodxml
        BY <1>6 DEF DriverStep, RetireLook, RetireMove, WorkerSkips, WorkerBegins, WorkerOk,
           WorkerFails, Dies, library
    <2>2. \/ holder' = holder
          \/ holder[f] # "check" /\ \E h : holder' = [holder EXCEPT ![f] = h]
        BY <1>6 DEF DriverStep, RetireLook, RetireMove, WorkerSkips, WorkerBegins, WorkerOk,
           WorkerFails, Dies, lockvars, Released, LockIsJob
    <2> QED BY <1>2, <1>3, <2>1, <2>2
<1>7. CASE \/ NextDay \/ UNCHANGED pvars
           \/ \E d \in Driver : StartFull(d) \/ SyncDone(d) \/ StartTargeted(d) \/ Finish(d)
    <2>1. arch' = arch /\ holder' = holder /\ prodxml' = prodxml
        BY <1>7 DEF NextDay, pvars, StartFull, SyncDone, StartTargeted, Finish, library, lockvars
    <2> QED BY <1>2, <2>1
<1> QED BY <1>1, <1>4, <1>5, <1>6, <1>7 DEF PNext

\* Leaving the library takes at most the XML away.
LEMMA LeaveInv ==
    ASSUME PInv, NEW f \in Factor, Leave(f) PROVE PInv'
<1> USE ProduceAssumption DEF PInv
<1>1. PTypeOK'
    <2>1. prodxml' \in [Factor -> Xml]
        <3>1. CASE prodxml' = prodxml
            BY <3>1 DEF PTypeOK
        <3>2. CASE prodxml' = [prodxml EXCEPT ![f] = NoXml]
            BY <3>2, SMT DEF PTypeOK, NoXml, Xml
        <3> QED BY <3>1, <3>2 DEF Leave
    <2>2. status' \in [Factor -> {"active", "rejected", "queued"}]
        BY SMT DEF PTypeOK, Leave
    <2> QED BY <2>1, <2>2 DEF PTypeOK, Leave, lockvars, produce, files
<1>2. LockIsJob'
    BY LockKept DEF Leave, lockvars, produce
<1>3. ASSUME NEW g \in Factor \ touched' PROVE LeftAlone(g)'
    <2>1. CASE g = f
        BY <2>1, SMT DEF Leave, lockvars, produce, files, PTypeOK, NoXml,
           LeftAlone, Archival, Resumable, Continues
    <2>2. CASE g # f
        BY <2>2, Unmoved, SMT DEF Leave, lockvars, produce, files, PTypeOK
    <2> QED BY <2>1, <2>2
<1> QED BY <1>1, <1>2, <1>3

\* Approving changes the status alone.
LEMMA ApproveInv ==
    ASSUME PInv, NEW f \in Factor, Approve(f) PROVE PInv'
<1> USE ProduceAssumption DEF PInv
<1>1. PTypeOK'
    BY SMT DEF PTypeOK, Approve, lockvars, produce, files
<1>2. LockIsJob'
    BY LockKept DEF Approve, lockvars, produce
<1>3. ASSUME NEW g \in Factor \ touched' PROVE LeftAlone(g)'
    BY <1>3, Unmoved DEF Approve, lockvars, produce, files
<1> QED BY <1>1, <1>2, <1>3

\* Migrating makes the XML a production one.
LEMMA MigrateInv ==
    ASSUME PInv, NEW f \in Factor, Migrate(f) PROVE PInv'
<1> USE ProduceAssumption DEF PInv
<1>1. PTypeOK'
    BY SMT DEF PTypeOK, Migrate, Productionized, Production, Xml, TODAY, lockvars, produce,
       files
<1>2. LockIsJob'
    BY LockKept DEF Migrate, lockvars, produce
<1>3. ASSUME NEW g \in Factor \ touched' PROVE LeftAlone(g)'
    <2>1. CASE g = f
        BY <2>1, SMT DEF Migrate, Productionized, lockvars, produce, files, PTypeOK,
           LeftAlone, Archival, Resumable, Continues
    <2>2. CASE g # f
        BY <2>2, Unmoved, SMT DEF Migrate, Productionized, lockvars, produce, files, PTypeOK
    <2> QED BY <2>1, <2>2
<1> QED BY <1>1, <1>2, <1>3

\* A day of data more changes nothing that is there.
LEMMA NextDayInv ==
    ASSUME PInv, NextDay PROVE PInv'
<1> USE ProduceAssumption DEF PInv
<1>1. PTypeOK'
    BY SMT DEF PTypeOK, NextDay, Day, library, lockvars, produce, files
<1>2. LockIsJob'
    BY LockKept DEF NextDay, lockvars, produce
<1>3. ASSUME NEW g \in Factor \ touched' PROVE LeftAlone(g)'
    BY <1>3, Unmoved DEF NextDay, library, lockvars, produce, files
<1> QED BY <1>1, <1>2, <1>3

\* `ops run` begins: the factor counts as touched from here on.
LEMMA RunBeginInv ==
    ASSUME PInv, NEW f \in Factor, RunBegin(f) PROVE PInv'
<1> USE ProduceAssumption DEF PInv
<1>1. PTypeOK'
    <2>1. PICK start \in 1..today, end \in 1..today :
             /\ prodxml' = [prodxml EXCEPT ![f].start = start, ![f].end = end]
             /\ loaded' = [loaded EXCEPT ![f] =
                   [Resumed(f, ck[f], start, end) EXCEPT !.orig = prodxml[f]]]
        BY DEF RunBegin
    <2>2. start \in 0..MaxDay /\ end \in 0..MaxDay /\ LastDay(end) \in 0..MaxDay
        BY SMT DEF PTypeOK, Day, LastDay
    <2>3. prodxml' \in [Factor -> Xml]
        <3>1. [prodxml[f] EXCEPT !.start = start, !.end = end] \in Xml
            BY <2>2, XmlDates DEF PTypeOK
        <3>2. prodxml' = [prodxml EXCEPT ![f] = [prodxml[f] EXCEPT !.start = start, !.end = end]]
            BY <2>1, Zenon
        <3> QED BY <3>1, <3>2, SMT DEF PTypeOK
    <2>4. loaded' \in [Factor -> Load]
        <3>1. Resumed(f, ck[f], start, end) \in Load
            BY <2>2, ResumedType, SMT DEF PTypeOK
        <3>2. [Resumed(f, ck[f], start, end) EXCEPT !.orig = prodxml[f]] \in Load
            BY <3>1, LoadOrig DEF PTypeOK
        <3> QED BY <2>1, <3>2, SMT DEF PTypeOK
    <2>5. holder' \in [Factor -> Driver \cup {NoOne, "run", "check"}]
        BY SMT DEF PTypeOK, RunBegin
    <2> QED BY <2>3, <2>4, <2>5 DEF PTypeOK, RunBegin, produce, files
<1>2. LockIsJob'
    BY SMT DEF LockIsJob, RunBegin, PTypeOK, produce
<1>3. ASSUME NEW g \in Factor \ touched' PROVE LeftAlone(g)'
    BY <1>3, Unmoved, SMT DEF RunBegin, produce, files, PTypeOK
<1> QED BY <1>1, <1>2, <1>3

\* It ends well: the factor is touched already.
LEMMA RunEndInv ==
    ASSUME PInv, NEW f \in Factor, RunEnd(f) PROVE PInv'
<1> USE ProduceAssumption DEF PInv
<1>1. PTypeOK'
    <2>1. dump' \in [Factor -> [Day -> Nat]]
        <3>1. dump' = dump \/ dump' = [dump EXCEPT ![f] = Dumped(f, loaded[f], loaded[f].end)]
            BY DEF RunEnd, files
        <3> QED BY <3>1, DumpedType, SMT DEF PTypeOK
    <2>2. ck' \in [Factor -> Checkpoint]
        <3>1. [ver |-> loaded[f].ver, upto |-> loaded[f].end] \in Checkpoint
            BY SMT DEF PTypeOK, Load, Checkpoint
        <3>2. ck' = ck \/ ck' = [ck EXCEPT ![f] = [ver |-> loaded[f].ver, upto |-> loaded[f].end]]
            BY DEF RunEnd, files
        <3> QED BY <3>1, <3>2, SMT DEF PTypeOK
    <2>3. prodxml' \in [Factor -> Xml]
        BY SMT DEF PTypeOK, RunEnd, Load
    <2>4. loaded' \in [Factor -> Load] /\ holder' \in [Factor -> Driver \cup {NoOne, "run", "check"}]
        BY SMT DEF PTypeOK, RunEnd, Released, NoLoad, NoXml, Xml, Load
    <2> QED BY <2>1, <2>2, <2>3, <2>4, SMT DEF PTypeOK, RunEnd, produce
<1>2. LockIsJob'
    BY SMT DEF LockIsJob, RunEnd, Released, PTypeOK, produce
<1>3. ASSUME NEW g \in Factor \ touched' PROVE LeftAlone(g)'
    <2>1. g # f
        BY <1>3, SMT DEF RunEnd, LeftAlone, Archival
    <2>2. /\ prodxml'[g] = prodxml[g] /\ holder'[g] = holder[g] /\ loaded'[g] = loaded[g]
          /\ source'[g] = source[g] /\ arch'[g] = arch[g] /\ g \notin touched
        BY <2>1, <1>3, SMT DEF RunEnd, Released, PTypeOK
    <2>3. ck'[g] = ck[g] /\ dump'[g] = dump[g]
        BY <2>1, <1>3, SMT DEF RunEnd, files, PTypeOK
    <2> QED BY <2>2, <2>3, <1>3, Unmoved
<1> QED BY <1>1, <1>2, <1>3

\* gsim fails: the factor is touched already.
LEMMA RunFailsInv ==
    ASSUME PInv, NEW f \in Factor, RunFails(f) PROVE PInv'
<1> USE ProduceAssumption DEF PInv
<1>1. PTypeOK'
    <2>1. dump' \in [Factor -> [Day -> Nat]]
        <3>1. Partly(f) => dump' \in [Factor -> [Day -> Nat]]
            BY PartlyType
        <3> QED BY <3>1 DEF PTypeOK, RunFails
    <2>3. prodxml' \in [Factor -> Xml]
        BY SMT DEF PTypeOK, RunFails, Load
    <2>4. loaded' \in [Factor -> Load] /\ holder' \in [Factor -> Driver \cup {NoOne, "run", "check"}]
        BY SMT DEF PTypeOK, RunFails, Released, NoLoad, NoXml, Xml, Load
    <2> QED BY <2>1, <2>3, <2>4, SMT DEF PTypeOK, RunFails, produce
<1>2. LockIsJob'
    BY SMT DEF LockIsJob, RunFails, Released, PTypeOK, produce
<1>3. ASSUME NEW g \in Factor \ touched' PROVE LeftAlone(g)'
    <2>1. g # f
        BY <1>3, SMT DEF RunFails, LeftAlone, Archival
    <2> QED BY <2>1, <1>3, Unmoved, SMT DEF RunFails, Partly, Released, produce, files,
               library, PTypeOK
<1> QED BY <1>1, <1>2, <1>3

\* It is killed: the factor is touched already.
LEMMA RunDiesInv ==
    ASSUME PInv, NEW f \in Factor, RunDies(f) PROVE PInv'
<1> USE ProduceAssumption DEF PInv
<1>1. PTypeOK'
    <2>1. dump' \in [Factor -> [Day -> Nat]]
        <3>1. Partly(f) => dump' \in [Factor -> [Day -> Nat]]
            BY PartlyType
        <3> QED BY <3>1 DEF PTypeOK, RunDies
    <2>3. prodxml' \in [Factor -> Xml]
        BY SMT DEF PTypeOK, RunDies, library
    <2>4. loaded' \in [Factor -> Load] /\ holder' \in [Factor -> Driver \cup {NoOne, "run", "check"}]
        BY SMT DEF PTypeOK, RunDies, Released, NoLoad, NoXml, Xml, Load
    <2> QED BY <2>1, <2>3, <2>4, SMT DEF PTypeOK, RunDies, produce, library
<1>2. LockIsJob'
    BY SMT DEF LockIsJob, RunDies, Released, PTypeOK, produce
<1>3. ASSUME NEW g \in Factor \ touched' PROVE LeftAlone(g)'
    <2>1. g # f
        BY <1>3, SMT DEF RunDies, LeftAlone, Archival
    <2> QED BY <2>1, <1>3, Unmoved, SMT DEF RunDies, Partly, Released, produce, files,
               library, PTypeOK
<1> QED BY <1>1, <1>2, <1>3

(***************************************************************************)
(* The steps of `ops produce`.                                             *)
(***************************************************************************)
LEMMA CommandFields ==
    ASSUME NEW c \in Command, NEW pc \in {"idle", "sync", "move", "run"},
           NEW dirs \in SUBSET Factor, NEW opt \in Option
    PROVE  /\ [c EXCEPT !.pc = pc] \in Command /\ [c EXCEPT !.dirs = dirs] \in Command
           /\ [c EXCEPT !.pc = pc, !.dirs = dirs] \in Command
           /\ [c EXCEPT !.pc = pc, !.opt = opt] \in Command
BY Zenon DEF Command

LEMMA IdleType == Idle \in Command
BY DEF Idle, Command, Option

LEMMA ReportsType ==
    ASSUME PTypeOK, NEW d \in Driver, NEW f \in Factor, NEW r \in JobState, Reports(d, f, r)
    PROVE  job' \in [Driver -> [Factor -> JobState]]
BY SMT DEF PTypeOK, Reports

\* A job that waits and gets a result without gsim.
LEMMA ReportsKept ==
    ASSUME PTypeOK, LockIsJob, NEW d \in Driver, NEW f \in Factor, NEW r, r # "running",
           job[d][f] # "running", Reports(d, f, r), UNCHANGED holder,
           \A o \in Driver : drv'[o].pc = drv[o].pc
    PROVE  LockIsJob'
<1>1. \A o \in Driver, g \in Factor : job'[o][g] = "running" <=> job[o][g] = "running"
    BY SMT DEF PTypeOK, Reports
<1> QED BY <1>1, SMT DEF LockIsJob

LEMMA QueueType ==
    ASSUME PTypeOK, NEW d \in Driver, NEW sel, Queue(d, sel)
    PROVE  job' \in [Driver -> [Factor -> JobState]]
BY SMT DEF PTypeOK, Queue, JobState

\* Queueing forgets the jobs of a command that has none running.
LEMMA QueueKept ==
    ASSUME PTypeOK, LockIsJob, NEW d \in Driver, drv[d].pc # "run", NEW sel,
           Queue(d, sel), UNCHANGED holder, \A o \in Driver \ {d} : drv'[o] = drv[o]
    PROVE  LockIsJob'
BY SMT DEF PTypeOK, LockIsJob, Queue

\* What a command reads, it only remembers.
LEMMA StartFullInv ==
    ASSUME PInv, NEW d \in Driver, StartFull(d) PROVE PInv'
<1> USE ProduceAssumption DEF PInv
<1>1. PTypeOK'
    BY SMT DEF PTypeOK, Command, StartFull, Active, Option, library, files, lockvars
<1>2. LockIsJob'
    BY SMT DEF LockIsJob, StartFull, PTypeOK, lockvars
<1>3. ASSUME NEW g \in Factor \ touched' PROVE LeftAlone(g)'
    BY <1>3, Unmoved DEF StartFull, library, files, lockvars
<1> QED BY <1>1, <1>2, <1>3

\* Looking at a directory changes what is left to do.
LEMMA RetireLookInv ==
    ASSUME PInv, NEW d \in Driver, NEW f \in Factor, RetireLook(d, f) PROVE PInv'
<1> USE ProduceAssumption DEF PInv
<1>1. PTypeOK'
    <2>1. drv' \in [Driver -> Command]
        <3>1. CASE drv' = [drv EXCEPT ![d].dirs = @ \ {f}]
            <4>1. drv' = [drv EXCEPT ![d] = [drv[d] EXCEPT !.dirs = drv[d].dirs \ {f}]]
                BY <3>1, Zenon
            <4>2. drv[d] \in Command /\ drv[d].dirs \ {f} \in SUBSET Factor
                BY DEF PTypeOK, Command
            <4>3. [drv[d] EXCEPT !.dirs = drv[d].dirs \ {f}] \in Command
                BY <4>2, Zenon DEF Command
            <4> QED BY <4>1, <4>3, SMT DEF PTypeOK
        <3>2. CASE drv' = [drv EXCEPT ![d].pc = "move", ![d].dirs = {f} \cup @]
            <4>1. drv' = [drv EXCEPT ![d] = [drv[d] EXCEPT !.pc = "move", !.dirs = {f} \cup drv[d].dirs]]
                BY <3>2, Zenon
            <4>2. drv[d] \in Command /\ {f} \cup drv[d].dirs \in SUBSET Factor
                BY DEF PTypeOK, Command
            <4>3. [drv[d] EXCEPT !.pc = "move", !.dirs = {f} \cup drv[d].dirs] \in Command
                BY <4>2, Zenon DEF Command
            <4> QED BY <4>1, <4>3, SMT DEF PTypeOK
        <3> QED BY <3>1, <3>2 DEF RetireLook
    <2> QED BY <2>1 DEF PTypeOK, RetireLook, library, files, lockvars
<1>2. LockIsJob'
    BY SMT DEF LockIsJob, RetireLook, PTypeOK, lockvars
<1>3. ASSUME NEW g \in Factor \ touched' PROVE LeftAlone(g)'
    BY <1>3, Unmoved DEF RetireLook, library, files, lockvars
<1> QED BY <1>1, <1>2, <1>3

\* A directory that is retired speaks of no day at all.
LEMMA RetireMoveInv ==
    ASSUME PInv, NEW d \in Driver, NEW f \in Factor, RetireMove(d, f) PROVE PInv'
<1> USE ProduceAssumption DEF PInv
<1>1. PTypeOK'
    <2>1. \/ drv' = [drv EXCEPT ![d] = Idle]
          \/ drv' = [drv EXCEPT ![d] = [drv[d] EXCEPT !.pc = "sync", !.dirs = drv[d].dirs \ {f}]]
        BY DEF RetireMove
    <2>2. drv[d] \in Command /\ drv[d].dirs \ {f} \in SUBSET Factor
        BY DEF PTypeOK, Command
    <2>3. [drv[d] EXCEPT !.pc = "sync", !.dirs = drv[d].dirs \ {f}] \in Command
        BY <2>2, Zenon DEF Command
    <2>4. drv' \in [Driver -> Command]
        BY <2>1, <2>3, IdleType, SMT DEF PTypeOK
    <2>5. ck' \in [Factor -> Checkpoint]
        BY SMT DEF PTypeOK, RetireMove, NoCk, Checkpoint
    <2> QED BY <2>4, <2>5 DEF PTypeOK, RetireMove, library, lockvars
<1>2. LockIsJob'
    BY SMT DEF LockIsJob, RetireMove, Idle, PTypeOK, lockvars
<1>3. ASSUME NEW g \in Factor \ touched' PROVE LeftAlone(g)'
    <2>1. CASE g = f
        BY <2>1, SMT DEF RetireMove, library, lockvars, PTypeOK,
           LeftAlone, Archival, Resumable, Continues, NoCk, Day
    <2>2. CASE g # f
        BY <2>2, Unmoved, SMT DEF RetireMove, library, lockvars, PTypeOK
    <2> QED BY <2>1, <2>2
<1> QED BY <1>1, <1>2, <1>3

\* The sync ends, with workers to come or without.
LEMMA SyncDoneInv ==
    ASSUME PInv, NEW d \in Driver, SyncDone(d) PROVE PInv'
<1> USE ProduceAssumption DEF PInv
<1>1. PTypeOK'
    <2>1. drv' \in [Driver -> Command]
        <3>1. CASE drv' = [drv EXCEPT ![d] = Idle]
            BY <3>1, IdleType, SMT DEF PTypeOK
        <3>2. ASSUME NEW opt \in Option, drv' = [drv EXCEPT ![d].pc = "run", ![d].opt = opt]
              PROVE  drv' \in [Driver -> Command]
            <4>1. drv' = [drv EXCEPT ![d] = [drv[d] EXCEPT !.pc = "run", !.opt = opt]]
                BY <3>2, Zenon
            <4>2. drv[d] \in Command
                BY DEF PTypeOK
            <4>3. [drv[d] EXCEPT !.pc = "run", !.opt = opt] \in Command
                BY <4>2, Zenon DEF Command
            <4> QED BY <4>1, <4>3, SMT DEF PTypeOK
        <3> QED BY <3>1, <3>2 DEF SyncDone
    <2>2. job' \in [Driver -> [Factor -> JobState]]
        BY QueueType DEF PTypeOK, SyncDone
    <2> QED BY <2>1, <2>2 DEF PTypeOK, SyncDone, library, files, lockvars
<1>2. LockIsJob'
    <2>1. drv[d].pc # "run" /\ UNCHANGED holder /\ \A o \in Driver \ {d} : drv'[o] = drv[o]
        BY SMT DEF SyncDone, lockvars, PTypeOK
    <2>2. CASE Queue(d, drv[d].sel)
        BY <2>1, <2>2, QueueKept
    <2>3. CASE UNCHANGED job
        BY <2>1, <2>3, SMT DEF LockIsJob
    <2> QED BY <2>2, <2>3 DEF SyncDone
<1>3. ASSUME NEW g \in Factor \ touched' PROVE LeftAlone(g)'
    BY <1>3, Unmoved DEF SyncDone, library, files, lockvars
<1> QED BY <1>1, <1>2, <1>3

\* Named factors.
LEMMA StartTargetedInv ==
    ASSUME PInv, NEW d \in Driver, StartTargeted(d) PROVE PInv'
<1> USE ProduceAssumption DEF PInv
<1>1. PTypeOK'
    <2>1. drv' \in [Driver -> Command]
        BY SMT DEF PTypeOK, Command, StartTargeted, Active
    <2>2. job' \in [Driver -> [Factor -> JobState]]
        BY QueueType DEF PTypeOK, StartTargeted
    <2> QED BY <2>1, <2>2 DEF PTypeOK, StartTargeted, library, files, lockvars
<1>2. LockIsJob'
    BY SMT DEF LockIsJob, StartTargeted, Queue, PTypeOK, lockvars
<1>3. ASSUME NEW g \in Factor \ touched' PROVE LeftAlone(g)'
    BY <1>3, Unmoved DEF StartTargeted, library, files, lockvars
<1> QED BY <1>1, <1>2, <1>3

\* A worker that does nothing.
LEMMA WorkerSkipsInv ==
    ASSUME PInv, NEW d \in Driver, NEW f \in Factor, WorkerSkips(d, f) PROVE PInv'
<1> USE ProduceAssumption DEF PInv
<1>1. PTypeOK'
    <2>1. Reports(d, f, "failed") /\ "failed" \in JobState
        BY DEF WorkerSkips, JobState, Ended
    <2>2. job' \in [Driver -> [Factor -> JobState]]
        BY <2>1, ReportsType
    <2> QED BY <2>2 DEF PTypeOK, WorkerSkips, library, files, lockvars
<1>2. LockIsJob'
    <2>1. Reports(d, f, "failed")
        BY DEF WorkerSkips
    <2> QED BY <2>1, ReportsKept, SMT DEF WorkerSkips, lockvars
<1>3. ASSUME NEW g \in Factor \ touched' PROVE LeftAlone(g)'
    BY <1>3, Unmoved DEF WorkerSkips, library, files, lockvars
<1> QED BY <1>1, <1>2, <1>3

\* gsim starts from the first day or from a checkpoint of the source.
LEMMA WorkerBeginsInv ==
    ASSUME PInv, Archiving, NEW d \in Driver, NEW f \in Factor, WorkerBegins(d, f) PROVE PInv'
<1> USE ProduceAssumption DEF PInv
<1> DEFINE start == IF drv[d].opt = "force" \/ ck[f] = NoCk THEN EmptyCk(f) ELSE ck[f]
<1>1. start \in Checkpoint /\ EmptyCk(f) \in Checkpoint /\ prodxml[f] \in Xml
    BY SMT DEF PTypeOK, EmptyCk, Checkpoint
<1>2. PICK end : /\ end \in IF drv[d].opt = "enddate" THEN 1..today ELSE {prodxml[f].end}
                 /\ loaded' = [loaded EXCEPT ![f] =
                       IF drv[d].opt = "enddate"
                       THEN [Resumed(f, EmptyCk(f), prodxml[f].start, end) EXCEPT !.temp = TRUE]
                       ELSE Resumed(f, start, prodxml[f].start, end)]
    BY DEF WorkerBegins
<1>3. end \in 0..MaxDay /\ prodxml[f].start \in 0..MaxDay
    BY <1>1, <1>2, SMT DEF PTypeOK, Xml, Day
<1> HIDE DEF start
<1>4. PICK c \in {EmptyCk(f), start} :
        /\ loaded'[f] \in Load
        /\ loaded'[f].ver = Resumed(f, c, prodxml[f].start, end).ver
        /\ loaded'[f].from = Resumed(f, c, prodxml[f].start, end).from
    <2>1. CASE drv[d].opt = "enddate"
        <3>1. Resumed(f, EmptyCk(f), prodxml[f].start, end) \in Load
            BY <1>1, <1>3, ResumedType
        <3>2. loaded'[f] = [Resumed(f, EmptyCk(f), prodxml[f].start, end) EXCEPT !.temp = TRUE]
            BY <1>2, <2>1, SMT DEF PTypeOK
        <3> QED BY <3>1, <3>2, LoadTemp
    <2>2. CASE drv[d].opt # "enddate"
        <3>1. Resumed(f, start, prodxml[f].start, end) \in Load
            BY <1>1, <1>3, ResumedType
        <3>2. loaded'[f] = Resumed(f, start, prodxml[f].start, end)
            BY <1>2, <2>2, SMT DEF PTypeOK
        <3> QED BY <3>1, <3>2
    <2> QED BY <2>1, <2>2
<1>5. /\ loaded'[f].ver = IF c.upto = 0 THEN source[f] ELSE c.ver
      /\ loaded'[f].from = IF c.upto = 0 THEN prodxml[f].start ELSE c.upto
    BY <1>1, <1>3, <1>4, ResumedType
<1>6. /\ ck' = [ck EXCEPT ![f] = start]
      /\ holder' = [holder EXCEPT ![f] = d] /\ Reports(d, f, "running")
      /\ drv[d].pc = "run" /\ holder[f] = NoOne /\ job[d][f] = "todo"
      /\ prodxml[f].form = "production"
      /\ UNCHANGED <<today, library, dump, drv, killed, touched>>
    BY DEF WorkerBegins, start
<1>7. PTypeOK'
    <2>1. ck' \in [Factor -> Checkpoint] /\ holder' \in [Factor -> Driver \cup {NoOne, "run", "check"}]
        BY <1>1, <1>6, SMT DEF PTypeOK
    <2>2. loaded' \in [Factor -> Load]
        BY <1>2, <1>4, SMT DEF PTypeOK
    <2>3. job' \in [Driver -> [Factor -> JobState]]
        BY <1>6, ReportsType DEF JobState
    <2> QED BY <1>6, <2>1, <2>2, <2>3 DEF PTypeOK, library
<1>8. LockIsJob'
    <2>1. \A o \in Driver, g \in Factor :
            job'[o][g] = "running" <=> (job[o][g] = "running" \/ (o = d /\ g = f))
        BY <1>6, SMT DEF PTypeOK, Reports
    <2>2. \A g \in Factor : holder'[g] = IF g = f THEN d ELSE holder[g]
        BY <1>6, SMT DEF PTypeOK
    <2> QED BY <1>6, <2>1, <2>2, SMT DEF LockIsJob
<1>9. ASSUME NEW g \in Factor \ touched' PROVE LeftAlone(g)'
    <2>1. CASE g # f
        BY <1>2, <1>6, <2>1, Unmoved, SMT DEF library, PTypeOK
    <2>2. CASE g = f
        <3>1. LeftAlone(f) /\ prodxml[f] = Production /\ arch[f] = "none"
            BY <1>6, <2>2, SMT DEF LeftAlone, Archival, Archiving
        <3>2. /\ \A e \in {EmptyCk(f), start} : e.upto # 0 => e.ver = source[f]
              /\ \A e \in {EmptyCk(f), start}, x \in Day : x <= e.upto => dump[f][x] = source[f]
            BY <3>1, ProduceAssumption, SMT DEF LeftAlone, Resumable, EmptyCk, start, Day
        <3>3. Archival(f)'
            BY <1>6, <3>1, SMT DEF LeftAlone, Archival, library, PTypeOK
        <3>4. Resumable(f)'
            <4>1. ck'[f] = start
                BY <1>6, SMT DEF PTypeOK
            <4> QED BY <1>6, <3>2, <4>1 DEF Resumable, library
        <3>5. Continues(f)'
            <4>1. c.upto \in 0..MaxDay /\ (c.upto = 0 => loaded'[f].from = 1)
                BY <1>1, <1>5, <3>1, SMT DEF Checkpoint, Production
            <4>2. loaded'[f].ver = source[f] /\ loaded'[f].from # 0
                BY <1>5, <3>2, <4>1
            <4>3. ASSUME NEW x \in Day, x < loaded'[f].from PROVE dump[f][x] = source[f]
                BY <1>5, <3>2, <4>1, <4>3, SMT DEF Day
            <4> QED BY <1>6, <4>2, <4>3 DEF Continues, library
        <3> QED BY <2>2, <3>3, <3>4, <3>5 DEF LeftAlone
    <2> QED BY <2>1, <2>2
<1> QED BY <1>7, <1>8, <1>9

\* What a gsim process has dumped when it is over, for the source in place.
LEMMA DumpedDays ==
    ASSUME PTypeOK, NEW f \in Factor, holder[f] \in Driver, Continues(f), NEW last
    PROVE  \A x \in Day :
              /\ dump[f][x] = source[f] => Dumped(f, loaded[f], last)[x] = source[f]
              /\ x \in 1..last => Dumped(f, loaded[f], last)[x] = source[f]
BY SMT DEF PTypeOK, Continues, Dumped, Load, Day

\* The end of a gsim process that has a factor's lock, well or not.
LEMMA GsimOver ==
    ASSUME PInv, NEW d \in Driver, NEW f \in Factor, holder[f] = d,
           NEW last \in 0..loaded[f].end,
           dump' = [dump EXCEPT ![f] = Dumped(f, loaded[f], last)],
           Released(f), UNCHANGED library, UNCHANGED touched,
           \/ UNCHANGED ck
           \/ /\ last = loaded[f].end
              /\ ck' = [ck EXCEPT ![f] = [ver |-> loaded[f].ver, upto |-> last]]
    PROVE  /\ dump' \in [Factor -> [Day -> Nat]] /\ ck' \in [Factor -> Checkpoint]
           /\ holder' \in [Factor -> Driver \cup {NoOne, "run", "check"}] /\ loaded' \in [Factor -> Load]
           /\ \A g \in Factor : holder'[g] = IF g = f THEN NoOne ELSE holder[g]
           /\ \A g \in Factor \ touched' : LeftAlone(g)'
<1> USE ProduceAssumption DEF PInv
<1>1. dump' \in [Factor -> [Day -> Nat]]
    BY DumpedType, SMT DEF PTypeOK
<1>2. [ver |-> loaded[f].ver, upto |-> loaded[f].end] \in Checkpoint
    BY SMT DEF PTypeOK, Load, Checkpoint
<1>3. ck' \in [Factor -> Checkpoint]
    BY <1>2, SMT DEF PTypeOK
<1>4. holder' \in [Factor -> Driver \cup {NoOne, "run", "check"}] /\ loaded' \in [Factor -> Load]
    BY SMT DEF PTypeOK, Released, NoLoad, NoXml, Xml, Load
<1>5. \A g \in Factor : holder'[g] = IF g = f THEN NoOne ELSE holder[g]
    BY SMT DEF PTypeOK, Released
<1>6. ASSUME NEW g \in Factor \ touched' PROVE LeftAlone(g)'
    <2>1. CASE g # f
        BY <2>1, Unmoved, SMT DEF PTypeOK, Released, library
    <2>2. CASE g = f
        <3>1. LeftAlone(f)
            BY <2>2
        <3>2. \A x \in Day : /\ dump[f][x] = source[f] => dump'[f][x] = source[f]
                             /\ x \in 1..last => dump'[f][x] = source[f]
            BY <3>1, DumpedDays, SMT DEF PTypeOK, LeftAlone
        <3>3. Archival(f)'
            BY <1>5, <3>1, SMT DEF LeftAlone, Archival, library
        <3>4. Resumable(f)'
            <4>1. CASE UNCHANGED ck
                BY <3>1, <3>2, <4>1 DEF LeftAlone, Resumable, library
            <4>2. CASE ck' = [ck EXCEPT ![f] = [ver |-> loaded[f].ver, upto |-> last]]
                <5>1. ck'[f].ver = loaded[f].ver /\ ck'[f].upto = last
                    BY <4>2, SMT DEF PTypeOK
                <5>2. loaded[f].ver = source[f]
                    BY <3>1 DEF LeftAlone, Continues
                <5>3. \A x \in Day : x <= last => x \in 1..last
                    BY SMT DEF PTypeOK, Load, Day
                <5> QED BY <3>2, <5>1, <5>2, <5>3 DEF Resumable, library
            <4> QED BY <4>1, <4>2
        <3>5. Continues(f)'
            BY <1>5 DEF Continues
        <3> QED BY <2>2, <3>3, <3>4, <3>5 DEF LeftAlone
    <2> QED BY <2>1, <2>2
<1> QED BY <1>1, <1>3, <1>4, <1>5, <1>6

\* gsim ends well.
LEMMA WorkerOkInv ==
    ASSUME PInv, NEW d \in Driver, NEW f \in Factor, WorkerOk(d, f) PROVE PInv'
<1> USE ProduceAssumption DEF PInv
<1>1. holder[f] = d /\ job[d][f] = "running"
    BY DEF WorkerOk, LockIsJob
<1>2. UNCHANGED library /\ UNCHANGED touched /\ Released(f)
    BY DEF WorkerOk
<1>3. \/ UNCHANGED ck
      \/ ck' = [ck EXCEPT ![f] = [ver |-> loaded[f].ver, upto |-> loaded[f].end]]
    <2>1. CASE loaded[f].temp \/ ck[f] = NoCk
        BY <2>1, SMT DEF WorkerOk, Wholly, PTypeOK
    <2>2. CASE ~(loaded[f].temp \/ ck[f] = NoCk)
        BY <2>2, Zenon DEF WorkerOk, Wholly
    <2> QED BY <2>1, <2>2
<1>4. loaded[f].end \in 0..loaded[f].end
    BY SMT DEF PTypeOK, Load
<1>5. dump' = [dump EXCEPT ![f] = Dumped(f, loaded[f], loaded[f].end)]
    BY DEF WorkerOk, Wholly
<1>6. /\ dump' \in [Factor -> [Day -> Nat]] /\ ck' \in [Factor -> Checkpoint]
      /\ holder' \in [Factor -> Driver \cup {NoOne, "run", "check"}] /\ loaded' \in [Factor -> Load]
      /\ \A g \in Factor : holder'[g] = IF g = f THEN NoOne ELSE holder[g]
      /\ \A g \in Factor \ touched' : LeftAlone(g)'
    BY <1>1, <1>2, <1>3, <1>4, <1>5, GsimOver
<1>7. Reports(d, f, "ok") /\ UNCHANGED <<today, drv>>
    BY DEF WorkerOk
<1>8. PTypeOK'
    <2>1. job' \in [Driver -> [Factor -> JobState]]
        BY <1>7, ReportsType DEF JobState, Ended
    <2> QED BY <1>2, <1>6, <1>7, <2>1 DEF PTypeOK, library
<1>9. LockIsJob'
    <2>1. \A o \in Driver, g \in Factor :
            job'[o][g] = "running" <=> (job[o][g] = "running" /\ ~(o = d /\ g = f))
        BY <1>7, SMT DEF PTypeOK, Reports
    <2> QED BY <1>1, <1>6, <1>7, <2>1, SMT DEF LockIsJob
<1> QED BY <1>6, <1>8, <1>9

\* gsim fails.
LEMMA WorkerFailsInv ==
    ASSUME PInv, NEW d \in Driver, NEW f \in Factor, WorkerFails(d, f) PROVE PInv'
<1> USE ProduceAssumption DEF PInv
<1>1. holder[f] = d /\ job[d][f] = "running"
    BY DEF WorkerFails, LockIsJob
<1>2. UNCHANGED library /\ UNCHANGED touched /\ Released(f) /\ UNCHANGED ck
    BY DEF WorkerFails
<1>3. PICK last \in 0..loaded[f].end : dump' = [dump EXCEPT ![f] = Dumped(f, loaded[f], last)]
    BY DEF WorkerFails, Partly
<1>6. /\ dump' \in [Factor -> [Day -> Nat]] /\ ck' \in [Factor -> Checkpoint]
      /\ holder' \in [Factor -> Driver \cup {NoOne, "run", "check"}] /\ loaded' \in [Factor -> Load]
      /\ \A g \in Factor : holder'[g] = IF g = f THEN NoOne ELSE holder[g]
      /\ \A g \in Factor \ touched' : LeftAlone(g)'
    BY <1>1, <1>2, <1>3, GsimOver
<1>7. Reports(d, f, "failed") /\ UNCHANGED <<today, drv>>
    BY DEF WorkerFails
<1>8. PTypeOK'
    <2>1. job' \in [Driver -> [Factor -> JobState]]
        BY <1>7, ReportsType DEF JobState, Ended
    <2> QED BY <1>2, <1>6, <1>7, <2>1 DEF PTypeOK, library
<1>9. LockIsJob'
    <2>1. \A o \in Driver, g \in Factor :
            job'[o][g] = "running" <=> (job[o][g] = "running" /\ ~(o = d /\ g = f))
        BY <1>7, SMT DEF PTypeOK, Reports
    <2> QED BY <1>1, <1>6, <1>7, <2>1, SMT DEF LockIsJob
<1> QED BY <1>6, <1>8, <1>9

\* The worker and its command are killed.
LEMMA DiesInv ==
    ASSUME PInv, NEW d \in Driver, NEW f \in Factor, Dies(d, f) PROVE PInv'
<1> USE ProduceAssumption DEF PInv
<1>1. holder[f] = d /\ job[d][f] = "running"
    BY DEF Dies, LockIsJob
<1>2. UNCHANGED library /\ UNCHANGED touched /\ Released(f) /\ UNCHANGED ck
    BY DEF Dies
<1>3. PICK last \in 0..loaded[f].end : dump' = [dump EXCEPT ![f] = Dumped(f, loaded[f], last)]
    BY DEF Dies, Partly
<1>6. /\ dump' \in [Factor -> [Day -> Nat]] /\ ck' \in [Factor -> Checkpoint]
      /\ holder' \in [Factor -> Driver \cup {NoOne, "run", "check"}] /\ loaded' \in [Factor -> Load]
      /\ \A g \in Factor : holder'[g] = IF g = f THEN NoOne ELSE holder[g]
      /\ \A g \in Factor \ touched' : LeftAlone(g)'
    BY <1>1, <1>2, <1>3, GsimOver
<1>7. /\ drv' = [drv EXCEPT ![d] = Idle]
      /\ job' = [job EXCEPT ![d] = [g \in Factor |-> "none"]]
      /\ UNCHANGED today /\ \A g \in Factor \ {f} : job[d][g] # "running"
    BY DEF Dies
<1>8. PTypeOK'
    <2>1. job' \in [Driver -> [Factor -> JobState]]
        BY <1>7, SMT DEF PTypeOK, JobState
    <2>2. drv' \in [Driver -> Command]
        BY <1>7, IdleType, SMT DEF PTypeOK
    <2> QED BY <1>2, <1>6, <1>7, <2>1, <2>2 DEF PTypeOK, library
<1>9. LockIsJob'
    <2>1. \A o \in Driver, g \in Factor :
            job'[o][g] = "running" <=> (job[o][g] = "running" /\ o # d)
        BY <1>7, SMT DEF PTypeOK
    <2>2. \A o \in Driver : o # d => drv'[o] = drv[o]
        BY <1>7, SMT DEF PTypeOK
    <2> QED BY <1>1, <1>6, <1>7, <2>1, <2>2, SMT DEF LockIsJob
<1> QED BY <1>6, <1>8, <1>9

\* The results are forgotten.
LEMMA FinishInv ==
    ASSUME PInv, NEW d \in Driver, Finish(d) PROVE PInv'
<1> USE ProduceAssumption DEF PInv
<1>1. PTypeOK'
    BY SMT DEF PTypeOK, Command, Finish, Idle, Option, JobState, library, files, lockvars
<1>2. LockIsJob'
    <2>1. \A f \in Factor : job[d][f] # "running"
        BY SMT DEF Finish, Ended
    <2> QED BY <2>1, SMT DEF LockIsJob, Finish, PTypeOK, lockvars
<1>3. ASSUME NEW g \in Factor \ touched' PROVE LeftAlone(g)'
    BY <1>3, Unmoved DEF Finish, library, files, lockvars
<1> QED BY <1>1, <1>2, <1>3

(***************************************************************************)
(* The theorems.                                                           *)
(***************************************************************************)
LEMMA NextInv ==
    ASSUME PInv, Archiving, [PNext]_pvars PROVE PInv' /\ Archiving'
<1>1. ASSUME NextDay PROVE PInv'
    BY <1>1, NextDayInv
<1>2. ASSUME NEW f \in Factor, LibraryStep(f) PROVE PInv'
    BY <1>2, LeaveInv, ApproveInv, MigrateInv DEF LibraryStep
<1>7. ASSUME NEW f \in Factor, ArchiveStep(f) PROVE PInv'
    BY <1>7, ArchiveStepInv
<1>3. ASSUME NEW f \in Factor, RunStep(f) PROVE PInv'
    BY <1>3, RunBeginInv, RunEndInv, RunFailsInv, RunDiesInv DEF RunStep
<1>4. ASSUME NEW d \in Driver, StartFull(d) \/ SyncDone(d) \/ StartTargeted(d) \/ Finish(d)
      PROVE  PInv'
    BY <1>4, StartFullInv, SyncDoneInv, StartTargetedInv, FinishInv
<1>5. ASSUME NEW d \in Driver, NEW f \in Factor, DriverStep(d, f) PROVE PInv'
    BY <1>5, RetireLookInv, RetireMoveInv, WorkerSkipsInv, WorkerBeginsInv, WorkerOkInv,
       WorkerFailsInv, DiesInv DEF DriverStep
<1>6. ASSUME UNCHANGED pvars PROVE PInv'
    <2>1. PTypeOK' /\ LockIsJob'
        BY <1>6 DEF pvars, PInv, PTypeOK, LockIsJob
    <2>2. \A f \in Factor \ touched' : LeftAlone(f)'
        BY <1>6, Unmoved DEF pvars, PInv
    <2> QED BY <2>1, <2>2 DEF PInv
<1>8. Archiving'
    BY ArchivingKept DEF PInv
<1> QED BY <1>1, <1>2, <1>3, <1>4, <1>5, <1>6, <1>7, <1>8 DEF PNext

\* The checkpoint that a daily run resumes from speaks of the source in alpha_src,
\* whoever ran, was killed, archived, restaged or retired in between, but for the
\* factors in `touched` (run by `ops run`, or cut short in archiving between the
\* move of the source and the removal of the checkpoint); and at most one process
\* has the files of a factor: a gsim one, or a check that archives.
THEOREM ProduceInvariance == PSpec => [](PInv /\ Archiving)
<1>1. PInit => Archiving
    BY DEF PInit, Archiving
<1> QED BY <1>1, StartInv, NextInv, PTL DEF PSpec

\* A factor that produce reports as done, and that is not in `touched`, has a
\* dataset by one version as a whole: the code in alpha_src.
THEOREM ProducedIsWhole == PSpec => OkIsWhole
<1>1. ASSUME PInv, NEW d \in Driver, NEW f \in Factor \ touched,
             job[d][f] = "running", job'[d][f] = "ok", [PNext]_pvars
      PROVE  \A x \in 1..loaded[f].end : dump'[f][x] = source[f]
    <2>1. WorkerOk(d, f)
        <3> SUFFICES ASSUME ~WorkerOk(d, f) PROVE FALSE
            OBVIOUS
        <3>1. \A o \in Driver, g \in Factor : \A r : Reports(o, g, r) => (o = d /\ g = f /\ r = "ok")
            BY <1>1, SMT DEF PInv, PTypeOK, Reports
        <3>2. \A o \in Driver : \A sel : ~Queue(o, sel)
            BY <1>1, SMT DEF PInv, PTypeOK, Queue
        <3>3. job' # job
            BY <1>1
        <3>4. \A o \in Driver : job' # [job EXCEPT ![o] = [g \in Factor |-> "none"]]
            BY <1>1, SMT DEF PInv, PTypeOK
        <3>5. \A g \in Factor : ~LibraryStep(g)
            BY <3>3 DEF LibraryStep, Leave, Approve, Migrate, produce
        <3>10. \A g \in Factor : ~ArchiveStep(g)
            BY <3>3 DEF ArchiveStep, ArchiveBegin, ArchiveRmSrc, ArchiveMvSrc, ArchiveXml,
               ArchiveVoid, ArchiveEnd, ArchiveFails, ArchiveDies, CutShort, produce
        <3>6. \A g \in Factor : ~RunStep(g)
            BY <3>3 DEF RunStep, RunBegin, RunEnd, RunFails, RunDies, produce
        <3>7. ~NextDay /\ ~UNCHANGED pvars
            BY <3>3 DEF NextDay, produce, pvars
        <3>8. \A o \in Driver : ~StartFull(o) /\ ~SyncDone(o) /\ ~StartTargeted(o) /\ ~Finish(o)
            BY <3>2, <3>3, <3>4 DEF StartFull, SyncDone, StartTargeted, Finish
        <3>9. \A o \in Driver, g \in Factor : ~DriverStep(o, g)
            BY <3>1, <3>3, <3>4 DEF DriverStep, RetireLook, RetireMove, WorkerSkips,
               WorkerBegins, WorkerOk, WorkerFails, Dies
        <3> QED BY <1>1, <3>5, <3>6, <3>7, <3>8, <3>9, <3>10 DEF PNext
    <2>2. PTypeOK /\ LeftAlone(f) /\ holder[f] = d
        BY <1>1 DEF PInv, LockIsJob
    <2>3. dump'[f] = Dumped(f, loaded[f], loaded[f].end)
        BY <2>1, <2>2, SMT DEF WorkerOk, Wholly, PTypeOK
    <2>4. 1..loaded[f].end \subseteq Day
        BY <2>2, ProduceAssumption, SMT DEF PTypeOK, Load, Day
    <2> QED BY <2>2, <2>3, <2>4, DumpedDays DEF LeftAlone
<1>2. PInv /\ [PNext]_pvars =>
        [\A d \in Driver, f \in Factor \ touched :
           job[d][f] = "running" /\ job'[d][f] = "ok" /\ ~loaded[f].temp =>
              \A x \in 1..loaded[f].end : dump'[f][x] = source[f]]_pvars
    BY <1>1
<1> QED BY <1>2, ProduceInvariance, PTL DEF PSpec, OkIsWhole
=============================================================================
