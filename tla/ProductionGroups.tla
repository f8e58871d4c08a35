-------------------------- MODULE ProductionGroups --------------------------
(***************************************************************************)
(* Grouped production: `ops produce --grouped`, scripts/bootstrap_groups.  *)
(*                                                                         *)
(* A group is one gsim process for many factors.  Its legs and their order *)
(* never change; a leg is muted when its factor has left ACTIVE or its     *)
(* code is no longer the frozen copy, and the factor is then produced by   *)
(* itself, as a single.  The roster and the muted flags are in PG,         *)
(* group.xml and the copies on disk; every run starts with a sync of       *)
(* roster, XML and the ACTIVE set.  Neither sync nor the bootstrap takes   *)
(* the factor lock, so checks and restages move factors between its steps. *)
(* One job (a produce run or a bootstrap) works at a time.                 *)
(***************************************************************************)
EXTENDS Naturals, FiniteSets

CONSTANTS
    Factor,   \* delay-1 factors of one author
    Moving,   \* bound: the factors that library commands work on
    MaxGid,   \* bound: groups
    MaxCode   \* bound: versions of a factor's code

ASSUME BoundAssumption ==
    MaxGid \in Nat \ {0} /\ MaxCode \in Nat \ {0} /\ Moving \subseteq Factor

Gid == 1..MaxGid
Code == 0..MaxCode  \* 0: no directory

VARIABLES
    lib,          \* per factor: status, library command under way, code in
                  \* alpha_src, code in staging, versions so far
    roster,       \* produce_group_member: gid -> factors, {} if no such group
    muted,        \* produce_group_member.muted
    gdir,         \* group directories: group.xml (legs, those that dump), code/
    single,       \* produce_single
    sdir,         \* single directories: code/, XML, and the code whose run
                  \* wrote the gsim checkpoint
    job,          \* where the job is
    mem,          \* what it remembers
    touched,      \* history: factors whose library part changed since the sync began
    interrupted   \* history: a job was killed or stopped by an exception

library == <<lib>>
grouped == <<roster, muted, gdir>>
singled == <<single, sdir>>
vars == <<lib, roster, muted, gdir, single, sdir, job, mem, touched, interrupted>>

Busy == {"recalled", "passed", "cleared"}  \* a library command holds the factor lock
Jobs == {"idle", "groups", "legs", "unmute", "save", "singles",
         "names", "run", "clear", "copy", "xml", "register",
         "freeze", "publish", "create", "retire"}
Memory == [active: SUBSET Factor, singles: SUBSET Factor,
           todo: SUBSET Gid, g: Gid,          \* groups to converge; the current one
           on: SUBSET Factor,                 \* its parsed group.xml
           demote: SUBSET Factor, mute: SUBSET Factor, unmute: SUBSET Factor,
           left: SUBSET Factor,               \* factors a loop has yet to do
           who: SUBSET Factor, back: Jobs]    \* _admit_single: of whom, for whom
Blank == [active |-> {}, singles |-> {}, todo |-> {}, g |-> 1, on |-> {},
          demote |-> {}, mute |-> {}, unmute |-> {}, left |-> {},
          who |-> {}, back |-> "idle"]

Active == {f \in Factor : lib[f].status = "active"}
Groups == {g \in Gid : roster[g] # {}}
Members == UNION {roster[g] : g \in Gid}

Init ==
    /\ lib = [f \in Factor |-> [status |-> "active", busy |-> "no",
                                live |-> 1, staged |-> 0, last |-> 1]]
    /\ roster = [g \in Gid |-> {}] /\ muted = [g \in Gid |-> {}]
    /\ gdir = [g \in Gid |-> [legs |-> {}, on |-> {}, code |-> [f \in Factor |-> 0]]]
    /\ single = {} /\ sdir = [f \in Factor |-> [code |-> 0, xml |-> 0, ck |-> 0]]
    /\ job = "idle" /\ mem = Blank
    /\ touched = {} /\ interrupted = FALSE

(***************************************************************************)
(* The library as production sees it: the steps of FactorOps that change   *)
(* a status or alpha_src.                                                  *)
(***************************************************************************)
Library(f, entry) ==
    /\ lib' = [lib EXCEPT ![f] = entry]
    /\ touched' = IF job \in {"idle", "freeze", "create", "retire"} THEN touched
                                                                 ELSE touched \cup {f}
    /\ UNCHANGED <<grouped, singled, job, mem, interrupted>>

\* restage moves the source, then records SUBMITTED.
Recall(f) ==
    /\ lib[f].busy = "no" /\ lib[f].status = "active" /\ lib[f].live # 0
    /\ Library(f, [lib[f] EXCEPT !.busy = "recalled", !.staged = lib[f].live, !.live = 0])
Recalled(f) ==
    /\ lib[f].busy = "recalled"
    /\ Library(f, [lib[f] EXCEPT !.busy = "no", !.status = "off"])

\* submit --overwrite: new code in staging, alpha_src left alone.
Overwrite(f) ==
    /\ lib[f].busy = "no" /\ lib[f].last < MaxCode
    /\ Library(f, [lib[f] EXCEPT !.status = "off", !.staged = lib[f].last + 1,
                                 !.last = lib[f].last + 1])

\* A check that passes records ACTIVE, removes the old source, moves the new.
Pass(f) ==
    /\ lib[f].busy = "no" /\ lib[f].status = "off" /\ lib[f].staged # 0
    /\ Library(f, [lib[f] EXCEPT !.busy = "passed", !.status = "active"])
ArchiveRm(f) ==
    /\ lib[f].busy = "passed"
    /\ Library(f, [lib[f] EXCEPT !.busy = "cleared", !.live = 0])
ArchiveMv(f) ==
    /\ lib[f].busy = "cleared"
    /\ Library(f, [lib[f] EXCEPT !.busy = "no", !.live = lib[f].staged, !.staged = 0])

(***************************************************************************)
(* The job.                                                                *)
(***************************************************************************)
To(j, m) == job' = j /\ mem' = m /\ touched' = IF j = "idle" THEN {} ELSE touched
ToAdmit(f, caller, m) == To("clear", [m EXCEPT !.who = {f}, !.back = caller,
                                              !.singles = @ \cup {f}])

\* An exception or SystemExit out of the sync ends the whole run.
Abort == To("idle", Blank) /\ interrupted' = TRUE

SyncStart ==
    /\ job = "idle"
    /\ To("groups", [Blank EXCEPT !.active = Active, !.singles = single, !.todo = Groups])
    /\ UNCHANGED <<library, grouped, singled, interrupted>>

Drifted(frozen, f) == frozen # lib[f].live

\* Deviations: drift is not looked at; or for all factors, in the group or not.
DriftUnseen(g) == {}
DriftAnywhere(g) == {f \in mem.active : Drifted(gdir[g].code[f], f)}
DriftedLegs(g) ==
    {f \in roster[g] \cap mem.active : Drifted(gdir[g].code[f], f)}

\* Deviation: a drifted leg is muted and no single is made of it.
DemoteNone(drifted) == {}
Demoted(drifted) == drifted \ mem.singles

Compare(g) ==
    /\ job = "groups" /\ g \in mem.todo
    /\ LET drifted == DriftedLegs(g)
           wanted == (roster[g] \ mem.active) \cup drifted  \* muted legs
           back == (muted[g] \ wanted) \cap mem.active
       IN  To("legs", [mem EXCEPT !.g = g, !.on = gdir[g].on,
                                    !.demote = Demoted(drifted),
                                    !.mute = wanted \ muted[g], !.unmute = back])
    /\ UNCHANGED <<library, grouped, singled, interrupted>>

GroupsDone ==
    /\ job = "groups" /\ mem.todo = {}
    /\ To("singles", [mem EXCEPT !.left = single])
    /\ UNCHANGED <<library, grouped, singled, interrupted>>

(***************************************************************************)
(* _admit_single, from three callers.                                      *)
(***************************************************************************)
\* No XML in alpha_src: SystemExit.  Else the old copy goes first.
AdmitClear(f) ==
    /\ job = "clear" /\ f \in mem.who
    /\ \/ lib[f].live = 0 /\ Abort /\ UNCHANGED sdir
       \/ /\ lib[f].live # 0 /\ To("copy", mem) /\ UNCHANGED interrupted
          /\ sdir' = [sdir EXCEPT ![f].code = 0]
    /\ UNCHANGED <<library, grouped, single>>

AdmitCopy(f) ==
    /\ job = "copy" /\ f \in mem.who
    /\ \/ lib[f].live = 0 /\ Abort /\ UNCHANGED sdir
       \/ /\ lib[f].live # 0 /\ To("xml", mem) /\ UNCHANGED interrupted
          /\ sdir' = [sdir EXCEPT ![f].code = lib[f].live]
    /\ UNCHANGED <<library, grouped, single>>

XmlOf(f) == lib[f].live

AdmitXml(f) ==
    /\ job = "xml" /\ f \in mem.who
    /\ \/ lib[f].live = 0 /\ Abort /\ UNCHANGED sdir
       \/ /\ lib[f].live # 0 /\ To("register", mem) /\ UNCHANGED interrupted
          /\ sdir' = [sdir EXCEPT ![f].xml = XmlOf(f)]
    /\ UNCHANGED <<library, grouped, single>>

AdmitRegister(f) ==
    /\ job = "register" /\ f \in mem.who
    /\ single' = single \cup {f}
    /\ To(mem.back, [mem EXCEPT !.who = {}])
    /\ UNCHANGED <<library, grouped, sdir, interrupted>>

Admit == \E f \in Factor :
    AdmitClear(f) \/ AdmitCopy(f) \/ AdmitXml(f) \/ AdmitRegister(f)

(***************************************************************************)
(* The rest of the loop over groups: demote, promote, roster, XML.         *)
(***************************************************************************)
Demote(f) ==
    /\ job = "legs" /\ f \in mem.demote
    /\ ToAdmit(f, "legs", [mem EXCEPT !.demote = @ \ {f}])
    /\ UNCHANGED <<library, grouped, singled, interrupted>>

Promote(f) ==
    /\ job = "legs" /\ mem.demote = {} /\ f \in mem.unmute \cap mem.singles
    /\ single' = single \ {f}
    /\ To("legs", [mem EXCEPT !.singles = @ \ {f}])
    /\ UNCHANGED <<library, grouped, sdir, interrupted>>

SetMuted(now, next) ==
    /\ muted' = [muted EXCEPT ![mem.g] = now]
    /\ To(next, mem)
    /\ UNCHANGED <<library, roster, gdir, singled, interrupted>>

Mute ==
    /\ job = "legs" /\ mem.demote = {} /\ mem.unmute \cap mem.singles = {}
    /\ SetMuted(muted[mem.g] \cup mem.mute, "unmute")
Unmute == job = "unmute" /\ SetMuted(muted[mem.g] \ mem.unmute, "save")

\* Deviation: only the muted legs are written.
MutedOnly == mem.on \ mem.mute
Dumping == (mem.on \ mem.mute) \cup mem.unmute

SaveXml ==
    /\ job = "save"
    /\ gdir' = [gdir EXCEPT ![mem.g].on = IF mem.mute \cup mem.unmute = {} THEN @ ELSE Dumping]
    /\ To("groups", [Blank EXCEPT !.active = mem.active, !.singles = mem.singles,
                                   !.todo = mem.todo \ {mem.g}])
    /\ UNCHANGED <<library, roster, muted, singled, interrupted>>

Converge == GroupsDone \/ Mute \/ Unmute \/ SaveXml
    \/ (\E g \in Gid : Compare(g)) \/ (\E f \in Factor : Demote(f) \/ Promote(f))

(***************************************************************************)
(* Singles, named admissions, the runs.                                    *)
(***************************************************************************)
\* Deviation: a single is never compared with alpha_src.
NeverStale(f) == FALSE
Stale(f) == f \in mem.singles /\ Drifted(sdir[f].code, f)

SingleLeaves(f) ==
    /\ job = "singles" /\ f \in mem.left \ mem.active
    /\ single' = single \ {f}
    /\ To("singles", [mem EXCEPT !.left = @ \ {f}])
    /\ UNCHANGED <<library, grouped, sdir, interrupted>>

SingleRefresh(f) ==
    /\ job = "singles" /\ f \in mem.left \cap mem.active /\ Stale(f)
    /\ sdir' = [sdir EXCEPT ![f].ck = 0]
    /\ ToAdmit(f, "singles", [mem EXCEPT !.left = @ \ {f}])
    /\ UNCHANGED <<library, grouped, single, interrupted>>

SingleStays(f) ==
    /\ job = "singles" /\ f \in mem.left \cap mem.active /\ ~Stale(f)
    /\ To("singles", [mem EXCEPT !.left = @ \ {f}])
    /\ UNCHANGED <<library, grouped, singled, interrupted>>

SinglesDone ==
    /\ job = "singles" /\ mem.left = {} /\ To("names", mem)
    /\ UNCHANGED <<library, grouped, singled, interrupted>>

\* --single-only with the name of a pending factor.
Name(f) ==
    /\ job = "names" /\ f \in mem.active \ (Members \cup mem.singles)
    /\ ToAdmit(f, "names", mem)
    /\ UNCHANGED <<library, grouped, singled, interrupted>>

NamesDone ==
    /\ job = "names"
    /\ To("run", [mem EXCEPT !.singles = {}]) \/ To("idle", Blank)  \* --sync-only
    /\ UNCHANGED <<library, grouped, singled, interrupted>>

\* Under the factor lock, ACTIVE looked at again.
RunSingle(f) ==
    /\ job = "run" /\ f \in single
    /\ lib[f].busy = "no" /\ lib[f].status = "active" /\ sdir[f].xml # 0
    /\ sdir' = [sdir EXCEPT ![f].ck = sdir[f].code]
    /\ UNCHANGED <<library, grouped, single, job, mem, touched, interrupted>>

Finish ==
    /\ job = "run" /\ To("idle", Blank)
    /\ UNCHANGED <<library, grouped, singled, interrupted>>

Singles == SinglesDone \/ NamesDone \/ Finish
    \/ (\E f \in Factor : SingleLeaves(f) \/ SingleRefresh(f) \/ SingleStays(f)
                           \/ Name(f) \/ RunSingle(f))

(***************************************************************************)
(* bootstrap_groups.py: one group.                                         *)
(***************************************************************************)
\* Deviation: numbers are given out without asking PG.
AlwaysFirst(g) == g = 1
NextGid(g) == g \notin Groups /\ \A h \in Gid : h < g => h \in Groups

\* Deviation: members of other groups are not left out.
AnyActive == Active
Ungrouped == Active \ Members

BootPlan(S) ==
    /\ job = "idle"
    /\ S # {} /\ S \subseteq Ungrouped /\ \A f \in S : lib[f].live # 0
    /\ \E g \in Gid : NextGid(g)
                      /\ To("freeze", [Blank EXCEPT !.g = g, !.active = S, !.left = S])
    /\ UNCHANGED <<library, grouped, singled, interrupted>>

\* A source that has gone fails the group; what was copied stays.
BootFreeze(f) ==
    /\ job = "freeze" /\ f \in mem.left
    /\ gdir' = [gdir EXCEPT ![mem.g].code[f] = lib[f].live]
    /\ IF lib[f].live = 0 THEN To("idle", Blank)
                          ELSE To("freeze", [mem EXCEPT !.left = @ \ {f}])
    /\ UNCHANGED <<library, roster, muted, singled, interrupted>>

\* Deviation: the group is published before all its code is frozen.
AnyFrozen == TRUE
AllFrozen == mem.left = {}

BootXml ==
    /\ job = "freeze" /\ AllFrozen
    /\ gdir' = [gdir EXCEPT ![mem.g].legs = mem.active, ![mem.g].on = mem.active]
    /\ To("create", mem)
    /\ UNCHANGED <<library, roster, muted, singled, interrupted>>

BootCreate ==
    /\ job = "create"
    /\ roster' = [roster EXCEPT ![mem.g] = mem.active]
    /\ To("retire", [mem EXCEPT !.left = mem.active])
    /\ UNCHANGED <<library, muted, gdir, singled, interrupted>>

\* Deviation: a member keeps its single entry.
RetireNone(f) == single
Retired(f) == single \ {f}

BootRetire(f) ==
    /\ job = "retire" /\ f \in mem.left
    /\ single' = Retired(f)
    /\ To("retire", [mem EXCEPT !.left = @ \ {f}])
    /\ UNCHANGED <<library, grouped, sdir, interrupted>>

BootDone ==
    /\ job = "retire" /\ mem.left = {} /\ To("idle", Blank)
    /\ UNCHANGED <<library, grouped, singled, interrupted>>

Bootstrap == BootXml \/ BootCreate \/ BootDone
    \/ (\E S \in SUBSET Factor : BootPlan(S)) \/ (\E f \in Factor : BootFreeze(f) \/ BootRetire(f))

Kill ==
    /\ job # "idle" /\ To("idle", Blank) /\ interrupted' = TRUE
    /\ UNCHANGED <<library, grouped, singled>>

LibraryStep == \E f \in Moving :
    Recall(f) \/ Recalled(f) \/ Overwrite(f) \/ Pass(f) \/ ArchiveRm(f) \/ ArchiveMv(f)

Next == LibraryStep \/ SyncStart \/ Converge \/ Admit \/ Singles \/ Bootstrap \/ Kill

Spec == Init /\ [][Next]_vars

(***************************************************************************)
(* Properties.                                                             *)
(***************************************************************************)
TypeOK ==
    /\ lib \in [Factor -> [status: {"active", "off"}, busy: Busy \cup {"no"},
                           live: Code, staged: Code, last: Code]]
    /\ roster \in [Gid -> SUBSET Factor]
    /\ muted \in [Gid -> SUBSET Factor] /\ \A g \in Gid : muted[g] \subseteq roster[g]
    /\ gdir \in [Gid -> [legs: SUBSET Factor, on: SUBSET Factor, code: [Factor -> Code]]]
    /\ single \subseteq Factor
    /\ sdir \in [Factor -> [code: Code, xml: Code, ck: Code]]
    /\ job \in Jobs /\ mem \in Memory
    /\ touched \subseteq Factor /\ interrupted \in BOOLEAN

Synced == job \in {"names", "run"}
InGroup(f) == {g \in Groups : f \in gdir[g].on}
Quiet == mem.active \ touched  \* ACTIVE at the sync and left alone since

\* A group that PG knows is complete on disk, whenever the job is killed: its
\* XML has the roster's legs and every leg its frozen code
\* (bootstrap_groups.py:150-161).
GroupSelfContained ==
    \A g \in Groups : /\ gdir[g].legs = roster[g] /\ gdir[g].on \subseteq roster[g]
                      /\ \A f \in roster[g] : gdir[g].code[f] # 0

\* A factor is in one group at most (bootstrap_groups.py:77-78).
OneGroup == \A g, h \in Gid : g # h => roster[g] \cap roster[h] = {}

\* After a sync no factor is dumped from two homes (groups.py:177-181).
OneHome == Synced /\ ~interrupted =>
    \A f \in single : InGroup(f) = {}

\* PG and group.xml agree on what is muted after a sync (groups.py:141-143).
Converged == Synced /\ ~interrupted =>
    \A g \in Groups : gdir[g].on = roster[g] \ muted[g]

\* A sync leaves no ACTIVE factor that is in production without a home
\* (groups.py:172-176).
NoneForgotten == Synced /\ ~interrupted =>
    \A f \in mem.active \cap Members : f \in single \/ InGroup(f) # {}

\* What a group dumps is the code in alpha_src, unless the factor has moved
\* since the sync (groups.py:166-170).
FreshLegs == Synced /\ ~interrupted =>
    \A f \in Quiet : \A g \in InGroup(f) : gdir[g].code[f] = lib[f].live

\* So is what a single dumps, after any interruption too (groups.py:194-203).
FreshSingles == Synced => \A f \in Quiet \cap single : sdir[f].code = lib[f].live

\* Once PG knows a group, its legs and their code never change: gsim's
\* checkpoint is read by leg number (prodgroup.py:16-20).
GroupFrozen ==
    [][\A g \in Groups : /\ gdir'[g].legs = gdir[g].legs
                         /\ gdir'[g].code = gdir[g].code
                         /\ roster'[g] = roster[g]]_vars

\* A single never resumes, with its code, from the checkpoint of another.
ResumesOwnCode == job = "run" => \A f \in single : sdir[f].ck \in {0, sdir[f].code}

=============================================================================
