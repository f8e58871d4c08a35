------------------------------ MODULE Produce -------------------------------
(***************************************************************************)
(* `ops produce`: the daily production of every ACTIVE factor, one gsim    *)
(* process per factor that resumes from the factor's checkpoint directory. *)
(* The sync that retires checkpoints takes no lock; a worker holds the     *)
(* factor's lock.  Around it, at any time: the library (check, approve,    *)
(* restage, rm), the migration script, another `ops produce`, and `ops     *)
(* run`, which runs the archived XML with dates of its own.                *)
(*                                                                         *)
(* Produce cannot see into a section under the factor lock, but a kill may *)
(* cut it short: archiving is its effects on status, source, XML and       *)
(* checkpoint one by one.  A day stands for a stretch of history, a        *)
(* version for one content of the factor's code.                           *)
(***************************************************************************)
EXTENDS Naturals, FiniteSets

CONSTANTS
    Factor, Driver,  \* factors; runs of `ops produce` that may overlap
    NoOne,           \* nobody holds the lock
    MaxDay, MaxCode, \* bounds: days of history, versions of a factor
    MaxKills         \* bound: processes killed

ASSUME ProduceAssumption ==
    /\ NoOne \notin Driver /\ {"run", "check"} \cap (Driver \cup {NoOne}) = {}
    /\ {MaxDay, MaxCode} \subseteq Nat \ {0} /\ MaxKills \in Nat

VARIABLES
    today,    \* the last day there is data for
    status,   \* status[f]: "active", "rejected" or "queued" (anything else)
    source,   \* source[f]: the version in alpha_src (or the one that was there)
    prodxml,  \* prodxml[f]: the archived XML, or NoXml
    arch,     \* arch[f]: the next step of a check that archives f, or "none"
    ck,       \* ck[f]: the checkpoint directory of the production line
    dump,     \* dump[f][x]: the version whose positions of day x are in the dataset
    holder,   \* holder[f]: who holds the factor lock: a Driver, "run" or "check"
    loaded,   \* loaded[f]: what the gsim process that runs f has started from
    drv,      \* drv[d]: [pc, sel (the ACTIVE set read), dirs (left to look at), opt]
    job,      \* job[d][f]: "none", "todo", "running" or how it ended
    killed,   \* processes killed so far
    touched   \* history: the factors that `ops run` has run, or whose archiving was
              \* cut short over a new source, since they were archived as a whole

pvars == <<today, status, source, prodxml, arch, ck, dump, holder, loaded, drv, job, killed,
           touched>>
library == <<status, source, prodxml, arch>>
files == <<ck, dump>>
lockvars == <<holder, loaded>>
produce == <<drv, job>>

Day == 1..MaxDay
TODAY == 0                                \* the literal of produce.enddate
Mixed == MaxCode + 1                      \* positions no version computes
NoXml == [form |-> "none", start |-> 0, end |-> 0]
Production == [form |-> "production", start |-> 1, end |-> TODAY]
Legacy == [form |-> "legacy", start |-> 1, end |-> TODAY]
NoCk == [ver |-> 0, upto |-> 0]           \* no directory
EmptyCk(f) == [ver |-> source[f], upto |-> 0]
NoLoad == [ver |-> 0, from |-> 0, end |-> 0, temp |-> FALSE, orig |-> NoXml]
\* How one command was called.
Option == {"plain", "force", "enddate"}
Idle == [pc |-> "idle", sel |-> {}, dirs |-> {}, opt |-> "plain"]
\* How a factor ended: "failed" is also locked, skipped and unmigrated, which the
\* summary tells apart and no property does.
Ended == {"ok", "failed"}

PInit ==
    /\ today = 1
    /\ status \in [Factor -> {"active", "rejected"}]
    /\ source = [f \in Factor |-> 1]
    /\ prodxml \in [Factor -> {Production, Legacy}]
    /\ arch = [f \in Factor |-> "none"]
    /\ ck = [f \in Factor |-> NoCk]
    /\ dump = [f \in Factor |-> [x \in Day |-> 0]]
    /\ holder = [f \in Factor |-> NoOne]
    /\ loaded = [f \in Factor |-> NoLoad]
    /\ drv = [d \in Driver |-> Idle]
    /\ job = [d \in Driver |-> [f \in Factor |-> "none"]]
    /\ killed = 0
    /\ touched = {}

(***************************************************************************)
(* gsim, from how run_backtest uses it: with an archive in its checkpoint  *)
(* directory it goes on from there, otherwise from the start date; it      *)
(* writes the dump day by day and the archive at the end.                  *)
(***************************************************************************)
LastDay(end) == IF end = TODAY THEN today ELSE end
Resumed(f, c, start, end) ==
    [NoLoad EXCEPT !.ver = IF c.upto = 0 THEN source[f] ELSE c.ver,
                   !.from = IF c.upto = 0 THEN start ELSE c.upto,
                   !.end = LastDay(end)]
Dumped(f, l, last) ==
    [x \in Day |-> IF x \in l.from..last
                   THEN IF l.ver = source[f] THEN source[f] ELSE Mixed
                   ELSE dump[f][x]]
\* A gsim process of f that died has dumped some of its days.
Partly(f) == \E last \in 0..loaded[f].end :
    dump' = [dump EXCEPT ![f] = Dumped(f, loaded[f], last)]
\* It ended well.  A directory moved away from under it takes the archive along.
Wholly(f) ==
    /\ dump' = [dump EXCEPT ![f] = Dumped(f, loaded[f], loaded[f].end)]
    /\ ck' = [ck EXCEPT ![f] = IF loaded[f].temp \/ @ = NoCk THEN @
                               ELSE [ver |-> loaded[f].ver, upto |-> loaded[f].end]]
Released(f) == /\ holder' = [holder EXCEPT ![f] = NoOne]
               /\ loaded' = [loaded EXCEPT ![f] = NoLoad]

(***************************************************************************)
(* The library.  A check that archives, after a pass or a rejection, holds *)
(* the lock.                                                               *)
(***************************************************************************)
\* The rules of prodxml set the output directories, the dates and the checkpoint
\* directory, whatever they were before; the other rewriting is about paths the
\* properties do not tell apart.
Productionized(f) == prodxml' = [prodxml EXCEPT ![f] = Production]

\* After a pass the row says ACTIVE before anything moves.
ArchiveBegin(f, verdict) ==
    /\ holder[f] = NoOne /\ status[f] = "queued"
    /\ holder' = [holder EXCEPT ![f] = "check"]
    /\ arch' = [arch EXCEPT ![f] = "rmsrc"]
    /\ status' = IF verdict = "active" THEN [status EXCEPT ![f] = "active"] ELSE status
    /\ UNCHANGED <<today, source, prodxml, files, loaded, produce, killed, touched>>

ArchiveRmSrc(f) ==
    /\ arch[f] = "rmsrc" /\ arch' = [arch EXCEPT ![f] = "mvsrc"]
    /\ prodxml' = [prodxml EXCEPT ![f] = NoXml]
    /\ UNCHANGED <<today, status, source, files, lockvars, produce, killed, touched>>

\* The staged XML is the one the check ran: it dumps into the workspace.
ArchiveMvSrc(f) ==
    /\ arch[f] = "mvsrc" /\ arch' = [arch EXCEPT ![f] = "xml"]
    /\ \E new \in {source[f], source[f] + 1} \cap 1..MaxCode : source' = [source EXCEPT ![f] = new]
    /\ prodxml' = [prodxml EXCEPT ![f] = Legacy]
    /\ UNCHANGED <<today, status, files, lockvars, produce, killed, touched>>

ArchiveXml(f) ==
    /\ arch[f] = "xml" /\ arch' = [arch EXCEPT ![f] = "void"]
    /\ Productionized(f)
    /\ UNCHANGED <<today, status, source, files, lockvars, produce, killed, touched>>

\* Deviation: the checkpoint is made void for an accepted factor only.
ArchiveVoidPassOnly(f) ==
    /\ arch[f] = "void" /\ arch' = [arch EXCEPT ![f] = "end"]
    /\ ck' = [ck EXCEPT ![f] = IF status[f] = "active" THEN NoCk ELSE @]
    /\ touched' = touched \ {f}
    /\ UNCHANGED <<today, status, source, prodxml, dump, lockvars, produce, killed>>

ArchiveVoid(f) ==
    /\ arch[f] = "void" /\ arch' = [arch EXCEPT ![f] = "end"]
    /\ ck' = [ck EXCEPT ![f] = NoCk]
    /\ touched' = touched \ {f}
    /\ UNCHANGED <<today, status, source, prodxml, dump, lockvars, produce, killed>>

\* The check's own products, the event and, after a rejection, the status.
ArchiveEnd(f) ==
    /\ arch[f] = "end" /\ arch' = [arch EXCEPT ![f] = "none"]
    /\ status' = [status EXCEPT ![f] = IF @ = "active" THEN @ ELSE "rejected"]
    /\ holder' = [holder EXCEPT ![f] = NoOne]
    /\ UNCHANGED <<today, source, prodxml, files, loaded, produce, killed, touched>>

\* The lock is free and the rest is not done; after a pass no rescan makes up for
\* it, because the source has left staging.
CutShort(f) ==
    /\ holder[f] = "check"
    /\ holder' = [holder EXCEPT ![f] = NoOne]
    /\ arch' = [arch EXCEPT ![f] = "none"]
    /\ touched' = IF arch[f] \in {"xml", "void"} /\ ck[f] # NoCk THEN touched \cup {f}
                  ELSE touched
    /\ UNCHANGED <<today, source, prodxml, files, loaded, produce>>

\* An exception puts an accepted factor back to SUBMITTED; on_reject's own leaves
\* the status CHECKING.
ArchiveFails(f) ==
    /\ CutShort(f)
    /\ status' = [status EXCEPT ![f] = "queued"]
    /\ UNCHANGED killed

ArchiveDies(f) ==
    /\ CutShort(f)
    /\ killed < MaxKills /\ killed' = killed + 1
    /\ UNCHANGED status

\* restage and rm take the source away; an overwrite, and the check of what staging
\* holds, leave it until the source is archived.
Leave(f) ==
    /\ holder[f] = NoOne /\ status[f] # "queued"
    /\ status' = [status EXCEPT ![f] = "queued"]
    /\ prodxml' \in {prodxml, [prodxml EXCEPT ![f] = NoXml]}
    /\ UNCHANGED <<today, source, arch, files, lockvars, produce, killed, touched>>

Approve(f) ==
    /\ holder[f] = NoOne /\ status[f] = "rejected"
    /\ status' = [status EXCEPT ![f] = "active"]
    /\ UNCHANGED <<today, source, prodxml, arch, files, lockvars, produce, killed, touched>>

\* migrate_one: the rules would change something.
Differs(f) == prodxml[f] \notin {NoXml, Production}

\* scripts/migrate_prod_xml.py --apply, one factor, whatever its status.
Migrate(f) ==
    /\ holder[f] = NoOne /\ Differs(f)
    /\ Productionized(f)
    /\ UNCHANGED <<today, status, source, arch, files, lockvars, produce, killed, touched>>

NextDay == today < MaxDay /\ today' = today + 1
           /\ UNCHANGED <<library, files, lockvars, produce, killed, touched>>

(***************************************************************************)
(* `ops run`: under the lock, the dates of the archived XML are replaced,  *)
(* gsim runs it as it is otherwise, and a finally clause puts them back.   *)
(***************************************************************************)
RunBegin(f) ==
    /\ holder[f] = NoOne /\ prodxml[f] # NoXml
    /\ holder' = [holder EXCEPT ![f] = "run"]
    /\ \E start, end \in 1..today :
        /\ start <= end
        /\ prodxml' = [prodxml EXCEPT ![f].start = start, ![f].end = end]
        /\ loaded' = [loaded EXCEPT ![f] =
              [Resumed(f, ck[f], start, end) EXCEPT !.orig = prodxml[f]]]
    /\ touched' = touched \cup {f}
    /\ UNCHANGED <<today, status, source, arch, files, produce, killed>>

\* An XML that is not in production form writes elsewhere.
RunEnd(f) ==
    /\ holder[f] = "run"
    /\ IF prodxml[f].form = "production"
       THEN /\ dump' = [dump EXCEPT ![f] = Dumped(f, loaded[f], loaded[f].end)]
            /\ ck' = [ck EXCEPT ![f] = [ver |-> loaded[f].ver, upto |-> loaded[f].end]]
       ELSE UNCHANGED files
    /\ prodxml' = [prodxml EXCEPT ![f] = loaded[f].orig]
    /\ Released(f)
    /\ UNCHANGED <<today, status, source, arch, produce, killed, touched>>

\* gsim fails.
RunFails(f) ==
    /\ holder[f] = "run"
    /\ IF prodxml[f].form = "production" THEN Partly(f) ELSE UNCHANGED dump
    /\ prodxml' = [prodxml EXCEPT ![f] = loaded[f].orig]
    /\ Released(f)
    /\ UNCHANGED <<today, status, source, arch, ck, produce, killed, touched>>

\* Killed before the finally clause, or its save fails: the dates stay.
RunDies(f) ==
    /\ holder[f] = "run" /\ killed < MaxKills
    /\ killed' = killed + 1
    /\ IF prodxml[f].form = "production" THEN Partly(f) ELSE UNCHANGED dump
    /\ Released(f)
    /\ UNCHANGED <<today, library, ck, produce, touched>>

(***************************************************************************)
(* One `ops produce`.  A full run looks at the ACTIVE set and at the       *)
(* checkpoint directories, then at one directory at a time; --sync-only    *)
(* ends it there.                                                          *)
(***************************************************************************)
Active == {f \in Factor : status[f] = "active"}

StartFull(d) ==
    /\ drv[d].pc = "idle"
    /\ drv' = [drv EXCEPT ![d] = [pc |-> "sync", sel |-> Active, opt |-> "plain",
                                  dirs |-> {f \in Factor : ck[f] # NoCk}]]
    /\ UNCHANGED <<today, library, files, lockvars, job, killed, touched>>

\* sync_lines: a directory that is still there and whose factor was not ACTIVE
\* goes to .retired (which nothing reads).
RetireLook(d, f) ==
    /\ drv[d].pc = "sync" /\ f \in drv[d].dirs
    /\ drv' = IF f \in drv[d].sel \/ ck[f] = NoCk
              THEN [drv EXCEPT ![d].dirs = @ \ {f}]
              ELSE [drv EXCEPT ![d].pc = "move", ![d].dirs = {f} \cup @]
    /\ UNCHANGED <<today, library, files, lockvars, job, killed, touched>>

\* A directory that somebody removed meanwhile ends the whole command.
RetireMove(d, f) ==
    /\ drv[d].pc = "move" /\ f \in drv[d].dirs \ drv[d].sel
    /\ ck' = [ck EXCEPT ![f] = NoCk]
    /\ drv' = [drv EXCEPT ![d] = IF ck[f] = NoCk THEN Idle
                                 ELSE [drv[d] EXCEPT !.pc = "sync", !.dirs = drv[d].dirs \ {f}]]
    /\ UNCHANGED <<today, library, dump, lockvars, job, killed, touched>>

Queue(d, sel) == job' = [job EXCEPT ![d] = [f \in Factor |-> IF f \in sel THEN "todo" ELSE "none"]]

\* The options matter from here on; --enddate goes with a full run as well.
SyncDone(d) ==
    /\ drv[d].pc = "sync" /\ drv[d].dirs = {}
    /\ \/ drv[d].sel # {} /\ \E opt \in Option \ {"force"} :
              drv' = [drv EXCEPT ![d].pc = "run", ![d].opt = opt] /\ Queue(d, drv[d].sel)
       \/ drv' = [drv EXCEPT ![d] = Idle] /\ UNCHANGED job
    /\ UNCHANGED <<today, library, files, lockvars, killed, touched>>

\* Named factors, or those of one user: no sync.  --force wants names.
StartTargeted(d) ==
    /\ drv[d].pc = "idle"
    /\ \E sel \in SUBSET Active \ {{}}, opt \in Option :
        /\ drv' = [drv EXCEPT ![d] = [pc |-> "run", sel |-> sel, opt |-> opt, dirs |-> {}]]
        /\ Queue(d, sel)
    /\ UNCHANGED <<today, library, files, lockvars, killed, touched>>

Reports(d, f, r) == job' = [job EXCEPT ![d][f] = r]

\* _produce_worker before gsim: the exits that change nothing.
WorkerSkips(d, f) ==
    /\ drv[d].pc = "run" /\ job[d][f] = "todo"
    /\ holder[f] # NoOne \/ status[f] # "active" \/ prodxml[f].form # "production"
    /\ Reports(d, f, "failed")
    /\ UNCHANGED <<today, library, files, lockvars, drv, killed, touched>>

\* The lock, the checks under it, --force, the mkdir, and gsim has started.
WorkerBegins(d, f) ==
    LET start == IF drv[d].opt = "force" \/ ck[f] = NoCk THEN EmptyCk(f) ELSE ck[f] IN
    /\ drv[d].pc = "run" /\ job[d][f] = "todo"
    /\ holder[f] = NoOne /\ status[f] = "active" /\ prodxml[f].form = "production"
    /\ holder' = [holder EXCEPT ![f] = d]
    /\ ck' = [ck EXCEPT ![f] = start]
    /\ \E end \in IF drv[d].opt = "enddate" THEN 1..today ELSE {prodxml[f].end} :
        loaded' = [loaded EXCEPT ![f] =
            IF drv[d].opt = "enddate"
            THEN [Resumed(f, EmptyCk(f), prodxml[f].start, end) EXCEPT !.temp = TRUE]
            ELSE Resumed(f, start, prodxml[f].start, end)]
    /\ Reports(d, f, "running")
    /\ UNCHANGED <<today, library, dump, drv, killed, touched>>

WorkerOk(d, f) ==
    /\ job[d][f] = "running"
    /\ Wholly(f) /\ Released(f) /\ Reports(d, f, "ok")
    /\ UNCHANGED <<today, library, drv, killed, touched>>

WorkerFails(d, f) ==
    /\ job[d][f] = "running"
    /\ Partly(f) /\ Released(f) /\ Reports(d, f, "failed")
    /\ UNCHANGED <<today, library, ck, drv, killed, touched>>

\* The summary; the results are forgotten with the process.
Finish(d) ==
    /\ drv[d].pc = "run" /\ \A f \in Factor : job[d][f] \in Ended \cup {"none"}
    /\ drv' = [drv EXCEPT ![d] = Idle]
    /\ job' = [job EXCEPT ![d] = [f \in Factor |-> "none"]]
    /\ UNCHANGED <<today, library, files, lockvars, killed, touched>>

\* A worker is killed in the middle of gsim, and the pool and the command end.
Dies(d, f) ==
    /\ job[d][f] = "running" /\ killed < MaxKills
    /\ \A g \in Factor \ {f} : job[d][g] # "running"
    /\ killed' = killed + 1
    /\ Partly(f) /\ Released(f)
    /\ drv' = [drv EXCEPT ![d] = Idle]
    /\ job' = [job EXCEPT ![d] = [g \in Factor |-> "none"]]
    /\ UNCHANGED <<today, library, ck, touched>>

ArchiveStep(f) == (\E verdict \in {"active", "rejected"} : ArchiveBegin(f, verdict))
                  \/ ArchiveRmSrc(f) \/ ArchiveMvSrc(f) \/ ArchiveXml(f) \/ ArchiveVoid(f)
                  \/ ArchiveEnd(f) \/ ArchiveFails(f) \/ ArchiveDies(f)
LibraryStep(f) == Leave(f) \/ Approve(f) \/ Migrate(f)
RunStep(f) == RunBegin(f) \/ RunEnd(f) \/ RunFails(f) \/ RunDies(f)
DriverStep(d, f) == RetireLook(d, f) \/ RetireMove(d, f) \/ WorkerSkips(d, f)
                    \/ WorkerBegins(d, f) \/ WorkerOk(d, f) \/ WorkerFails(d, f) \/ Dies(d, f)
PNext ==
    \/ NextDay
    \/ \E f \in Factor : ArchiveStep(f) \/ LibraryStep(f) \/ RunStep(f)
    \/ \E d \in Driver : StartFull(d) \/ SyncDone(d) \/ StartTargeted(d) \/ Finish(d)
                         \/ \E f \in Factor : DriverStep(d, f)
PSpec == PInit /\ [][PNext]_pvars

(***************************************************************************)
(* Properties.                                                             *)
(***************************************************************************)
\* When produce reports a factor as done (no --enddate), its production dataset,
\* from the first day to the day gsim ran to, is by the code in alpha_src as a
\* whole, whoever ran, failed, was killed, retired or archived before or
\* meanwhile.  Two cases are excepted, because the code does not keep them, until
\* the factor is archived as a whole again: `ops run` has run it, or a kill or an
\* exception cut its archiving short between the move of the source and the
\* removal of the checkpoint (repository.py:498-548).
OkIsWhole ==
    [][\A d \in Driver, f \in Factor \ touched :
         job[d][f] = "running" /\ job'[d][f] = "ok" /\ ~loaded[f].temp =>
            \A x \in 1..loaded[f].end : dump'[f][x] = source[f]]_pvars

\* The design says so without those exceptions: a repeated run resumes and
\* converges (produce.py:11), and an accidental run of an archived factor is no
\* more than another daily increment (docs/design/factor-produce-v3.md, D9).
RunsConverge ==
    [][\A d \in Driver, f \in Factor :
         job[d][f] = "running" /\ job'[d][f] = "ok" /\ ~loaded[f].temp =>
            \A x \in 1..loaded[f].end : dump'[f][x] = source[f]]_pvars
=============================================================================
