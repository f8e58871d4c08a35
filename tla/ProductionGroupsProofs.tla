----------------------- MODULE ProductionGroupsProofs -----------------------
(***************************************************************************)
(* Proofs about ProductionGroups, for any factors, groups and versions of  *)
(* code, and any kills.                                                    *)
(*                                                                         *)
(* The argument: of all steps only the bootstrap's change a roster, legs   *)
(* or frozen code, and it works on a number that PG does not know yet      *)
(* (Building) until one transaction publishes it, complete.  The sync      *)
(* works on a group that PG knows and rewrites its dump flags only, with   *)
(* legs it has read from there (Converging).                               *)
(***************************************************************************)
EXTENDS ProductionGroups, TLAPS

Entry == [status: {"active", "off"}, busy: Busy \cup {"no"},
          live: Code, staged: Code, last: Code]
Tables ==    \* everything but the job
    /\ lib \in [Factor -> Entry]
    /\ roster \in [Gid -> SUBSET Factor]
    /\ muted \in [Gid -> SUBSET Factor] /\ \A g \in Gid : muted[g] \subseteq roster[g]
    /\ gdir \in [Gid -> [legs: SUBSET Factor, on: SUBSET Factor, code: [Factor -> Code]]]
    /\ single \subseteq Factor
    /\ sdir \in [Factor -> [code: Code, xml: Code, ck: Code]]

Doing ==    \* the job
    /\ job \in Jobs /\ mem \in Memory
    /\ touched \subseteq Factor /\ interrupted \in BOOLEAN

Admitting == {"clear", "copy", "xml", "register"}

\* The sync is in the loop over groups, in a group it has compared.
InLoop == job \in {"legs", "unmute", "save"} \/ (job \in Admitting /\ mem.back = "legs")

Converging ==
    /\ mem.todo \subseteq Groups
    /\ job \in Admitting => mem.back \in {"legs", "singles", "names"}
    /\ InLoop => /\ mem.on \subseteq roster[mem.g]
                 /\ mem.mute \subseteq roster[mem.g]
                 /\ mem.unmute \subseteq roster[mem.g]

Building ==
    /\ job \in {"freeze", "create"} =>
          /\ roster[mem.g] = {} /\ mem.active # {} /\ mem.todo = {}
          /\ \A g \in Gid : mem.active \cap roster[g] = {}
          /\ \A f \in mem.active \ mem.left : gdir[mem.g].code[f] # 0
    /\ job = "create" =>
          /\ mem.left = {}
          /\ gdir[mem.g].legs = mem.active /\ gdir[mem.g].on = mem.active

IInv == Tables /\ Doing /\ GroupSelfContained /\ OneGroup /\ Converging /\ Building

LEMMA BlankMemory == Blank \in Memory /\ Blank.todo = {} /\ 1 \in Gid
BY BoundAssumption DEF Blank, Memory, Jobs, Gid

-----------------------------------------------------------------------------
\* Roster, muted flags and group directories stay: so does what is known of them.
LEMMA GroupedKept ==
    ASSUME IInv, UNCHANGED grouped
    PROVE  GroupSelfContained' /\ OneGroup' /\ Groups' = Groups
BY DEF IInv, grouped, GroupSelfContained, OneGroup, Groups

\* The job stays too.
LEMMA JobKept ==
    ASSUME IInv, UNCHANGED grouped, job' = job, mem' = mem
    PROVE  Converging' /\ Building'
<1>1. Groups' = Groups /\ roster' = roster /\ gdir' = gdir
  BY GroupedKept DEF grouped
<1>2. Converging'
  BY <1>1 DEF IInv, Converging, InLoop
<1>3. Building'
  BY <1>1 DEF IInv, Building
<1> QED
  BY <1>2, <1>3

\* The job ends, or is killed.
LEMMA EndStep ==
    ASSUME IInv, UNCHANGED grouped, To("idle", Blank), Tables', interrupted' \in BOOLEAN
    PROVE  IInv'
<1>1. job' = "idle" /\ mem' = Blank /\ touched' = {}
  BY DEF To
<1>2. Doing'
  BY <1>1, BlankMemory DEF Jobs, Doing
<1>3. Converging' /\ Building'
  BY <1>1, BlankMemory DEF Converging, Building, InLoop, Admitting
<1> QED
  BY <1>2, <1>3, GroupedKept DEF IInv

-----------------------------------------------------------------------------
LEMMA LibraryKeeps ==
    ASSUME IInv, NEW f \in Factor, NEW e \in Entry, Library(f, e)
    PROVE  IInv'
<1>1. lib' = [lib EXCEPT ![f] = e] /\ touched' \subseteq Factor
      /\ UNCHANGED <<grouped, singled, job, mem, interrupted>>
  BY DEF Library, IInv, Doing
<1>2. Tables'
  BY <1>1 DEF IInv, Tables, grouped, singled
<1>3. Doing'
  BY <1>1 DEF IInv, Doing
<1> QED
  BY <1>1, <1>2, <1>3, GroupedKept, JobKept DEF IInv

LEMMA LibraryPreserves ==
    ASSUME IInv, LibraryStep
    PROVE  IInv'
<1>1. PICK f \in Moving : Recall(f) \/ Recalled(f) \/ Overwrite(f)
                          \/ Pass(f) \/ ArchiveRm(f) \/ ArchiveMv(f)
  BY DEF LibraryStep
<1>2. f \in Factor /\ lib[f] \in Entry
  BY <1>1, BoundAssumption DEF IInv, Tables
<1>3. 0 \in Code /\ \A c \in Code : c < MaxCode => c + 1 \in Code
  BY BoundAssumption DEF Code
<1>4. CASE Recall(f)
  BY <1>2, <1>3, <1>4, LibraryKeeps DEF Recall, Entry, Busy
<1>5. CASE Recalled(f)
  BY <1>2, <1>5, LibraryKeeps DEF Recalled, Entry, Busy
<1>6. CASE Overwrite(f)
  BY <1>2, <1>3, <1>6, LibraryKeeps DEF Overwrite, Entry, Busy
<1>7. CASE Pass(f)
  BY <1>2, <1>7, LibraryKeeps DEF Pass, Entry, Busy
<1>8. CASE ArchiveRm(f)
  BY <1>2, <1>3, <1>8, LibraryKeeps DEF ArchiveRm, Entry, Busy
<1>9. CASE ArchiveMv(f)
  BY <1>2, <1>3, <1>9, LibraryKeeps DEF ArchiveMv, Entry, Busy
<1> QED
  BY <1>1, <1>4, <1>5, <1>6, <1>7, <1>8, <1>9

-----------------------------------------------------------------------------
\* What the sync remembers of the group it is working on is within its roster.
Within(m) == /\ m.on \subseteq roster[m.g]
             /\ m.mute \subseteq roster[m.g]
             /\ m.unmute \subseteq roster[m.g]

\* A step that leaves the groups alone and goes on with the sync or the run.
LEMMA MoveStep ==
    ASSUME IInv, UNCHANGED grouped, Tables', interrupted' = interrupted,
           NEW j \in Jobs \ {"freeze", "create"}, NEW m \in Memory, To(j, m),
           m.todo \subseteq Groups,
           j \in Admitting => m.back \in {"legs", "singles", "names"},
           j \in {"legs", "unmute", "save"} \/ (j \in Admitting /\ m.back = "legs")
               => Within(m)
    PROVE  IInv'
<1>1. job' = j /\ mem' = m /\ touched' \in {{}, touched}
  BY DEF To
<1>2. Doing'
  BY <1>1 DEF IInv, Doing
<1>3. Converging'
  BY <1>1, GroupedKept DEF Converging, InLoop, Within, grouped
<1>4. Building'
  BY <1>1 DEF Building
<1> QED
  BY <1>2, <1>3, <1>4, GroupedKept DEF IInv

\* Only the job's place and memory change in what follows.
LEMMA TablesKept ==
    ASSUME IInv, UNCHANGED <<library, grouped, singled>>
    PROVE  Tables'
BY DEF IInv, Tables, library, grouped, singled

LEMMA SyncStartPreserves ==
    ASSUME IInv, SyncStart
    PROVE  IInv'
<1> DEFINE m == [Blank EXCEPT !.active = Active, !.singles = single, !.todo = Groups]
<1>1. m \in Memory /\ m.todo = Groups
  BY BlankMemory DEF Blank, Memory, Active, Groups, IInv, Tables
<1>2. To("groups", m) /\ UNCHANGED <<library, grouped, singled, interrupted>>
  BY DEF SyncStart
<1>3. "groups" \in Jobs \ {"freeze", "create"} /\ "groups" \notin Admitting
  BY DEF Jobs, Admitting
<1> QED
  BY <1>1, <1>2, <1>3, TablesKept, MoveStep

LEMMA ComparePreserves ==
    ASSUME IInv, NEW g \in Gid, Compare(g)
    PROVE  IInv'
<1> DEFINE drifted == DriftedLegs(g)
           wanted == (roster[g] \ mem.active) \cup drifted
           back == (muted[g] \ wanted) \cap mem.active
           m == [mem EXCEPT !.g = g, !.on = gdir[g].on, !.demote = Demoted(drifted),
                            !.mute = wanted \ muted[g], !.unmute = back]
<1>1. g \in Groups /\ mem \in Memory /\ mem.todo \subseteq Groups
  BY DEF Compare, IInv, Doing, Converging
<1>2. gdir[g].on \subseteq roster[g] /\ muted[g] \subseteq roster[g] /\ roster[g] \subseteq Factor
  BY <1>1 DEF IInv, Tables, GroupSelfContained
<1>3. drifted \subseteq roster[g]
  BY DEF DriftedLegs
<1>4. wanted \subseteq roster[g] /\ back \subseteq roster[g]
      /\ Demoted(drifted) \subseteq roster[g]
  BY <1>2, <1>3 DEF Demoted
<1> HIDE DEF drifted, wanted, back
<1>5. m \in Memory
  BY <1>1, <1>2, <1>4 DEF Memory
<1>6. Within(m) /\ m.todo = mem.todo
  BY <1>1, <1>2, <1>4 DEF Within, Memory
<1>7. To("legs", m) /\ UNCHANGED <<library, grouped, singled, interrupted>>
  BY DEF Compare, drifted, wanted, back
<1>8. "legs" \in Jobs \ {"freeze", "create"} /\ "legs" \notin Admitting
  BY DEF Jobs, Admitting
<1> HIDE DEF m
<1> QED
  BY <1>1, <1>5, <1>6, <1>7, <1>8, TablesKept, MoveStep

\* In the loop, and staying there with the same group.
LEMMA InLoopWithin == ASSUME IInv, InLoop PROVE Within(mem)
BY DEF IInv, Converging, Within

LEMMA Remembered ==
    ASSUME IInv
    PROVE  mem \in Memory /\ mem.todo \subseteq Groups
BY DEF IInv, Doing, Converging

LEMMA DemotePreserves ==
    ASSUME IInv, NEW f \in Factor, Demote(f)
    PROVE  IInv'
<1> DEFINE m == [[mem EXCEPT !.demote = @ \ {f}] EXCEPT
                     !.who = {f}, !.back = "legs", !.singles = @ \cup {f}]
<1>1. m \in Memory /\ m.todo = mem.todo /\ m.back = "legs"
  BY Remembered DEF Memory, Jobs
<1>2. Within(m)
  BY Remembered, InLoopWithin DEF Within, InLoop, Demote, Memory
<1>3. To("clear", m) /\ UNCHANGED <<library, grouped, singled, interrupted>>
  BY DEF Demote, ToAdmit
<1>4. "clear" \in Jobs \ {"freeze", "create"}
  BY DEF Jobs
<1> HIDE DEF m
<1> QED
  BY <1>1, <1>2, <1>3, <1>4, Remembered, TablesKept, MoveStep

LEMMA PromotePreserves ==
    ASSUME IInv, NEW f \in Factor, Promote(f)
    PROVE  IInv'
<1> DEFINE m == [mem EXCEPT !.singles = @ \ {f}]
<1>1. m \in Memory /\ m.todo = mem.todo
  BY Remembered DEF Memory
<1>2. Within(m)
  BY Remembered, InLoopWithin DEF Within, InLoop, Promote, Memory
<1>3. To("legs", m) /\ UNCHANGED <<grouped, interrupted>>
  BY DEF Promote
<1>4. Tables'
  BY DEF IInv, Tables, Promote, library, grouped
<1>5. "legs" \in Jobs \ {"freeze", "create"} /\ "legs" \notin Admitting
  BY DEF Jobs, Admitting
<1> HIDE DEF m
<1> QED
  BY <1>1, <1>2, <1>3, <1>4, <1>5, Remembered, MoveStep

\* Mute and Unmute write the muted flags of roster members.
LEMMA SetMutedPreserves ==
    ASSUME IInv, InLoop, NEW now \in SUBSET roster[mem.g], NEW next \in {"unmute", "save"},
           SetMuted(now, next)
    PROVE  IInv'
<1>1. job' = next /\ mem' = mem /\ touched' = touched
      /\ UNCHANGED <<library, roster, gdir, singled, interrupted>>
      /\ muted' = [muted EXCEPT ![mem.g] = now]
  BY DEF SetMuted, To
<1>2. mem.g \in Gid /\ roster[mem.g] \subseteq Factor
  BY DEF IInv, Doing, Memory, Tables
<1>3. Tables'
  BY <1>1, <1>2 DEF IInv, Tables, library, singled
<1>4. Doing'
  BY <1>1 DEF IInv, Doing, Jobs
<1>5. GroupSelfContained' /\ OneGroup' /\ Groups' = Groups
  BY <1>1 DEF IInv, GroupSelfContained, OneGroup, Groups
<1>6. Converging'
  BY <1>1, <1>5, InLoopWithin DEF IInv, Converging, InLoop, Within, Admitting
<1>7. Building'
  BY <1>1 DEF Building
<1> QED
  BY <1>3, <1>4, <1>5, <1>6, <1>7 DEF IInv

LEMMA SaveXmlPreserves ==
    ASSUME IInv, SaveXml
    PROVE  IInv'
<1> DEFINE on == IF mem.mute \cup mem.unmute = {} THEN gdir[mem.g].on ELSE Dumping
           m == [Blank EXCEPT !.active = mem.active, !.singles = mem.singles,
                              !.todo = mem.todo \ {mem.g}]
<1>1. /\ gdir' = [gdir EXCEPT ![mem.g].on = on] /\ job' = "groups" /\ mem' = m
      /\ touched' = touched /\ UNCHANGED <<library, roster, muted, singled, interrupted>>
  BY DEF SaveXml, To
<1>2. mem.g \in Gid /\ roster[mem.g] \subseteq Factor
  BY Remembered DEF IInv, Memory, Tables
<1>3. on \subseteq roster[mem.g] \/ on = gdir[mem.g].on
  BY InLoopWithin DEF SaveXml, InLoop, Within, Dumping
<1>4. gdir[mem.g].on \subseteq Factor
  BY <1>2 DEF IInv, Tables
<1> HIDE DEF on
<1>5. Tables'
  BY <1>1, <1>2, <1>3, <1>4 DEF IInv, Tables, library, singled
<1>6. Doing'
  <2>1. m \in Memory
    BY Remembered, BlankMemory DEF Memory, Blank
  <2> QED
    BY <1>1, <2>1 DEF IInv, Doing, Jobs
<1>7. OneGroup' /\ Groups' = Groups
  BY <1>1 DEF IInv, OneGroup, Groups
<1>8. GroupSelfContained'
  <2> SUFFICES ASSUME NEW g \in Groups
               PROVE  /\ gdir'[g].legs = roster[g] /\ gdir'[g].on \subseteq roster[g]
                      /\ \A f \in roster[g] : gdir'[g].code[f] # 0
    BY <1>1, <1>7 DEF GroupSelfContained
  <2>1. g \in Gid /\ gdir[g].legs = roster[g] /\ gdir[g].on \subseteq roster[g]
        /\ \A f \in roster[g] : gdir[g].code[f] # 0
    BY DEF IInv, GroupSelfContained, Groups
  <2>2. gdir'[g].legs = gdir[g].legs /\ gdir'[g].code = gdir[g].code
    BY <1>1, <1>2, <2>1 DEF IInv, Tables
  <2>3. gdir'[g].on = IF g = mem.g THEN on ELSE gdir[g].on
    BY <1>1, <1>2, <2>1 DEF IInv, Tables
  <2> QED
    BY <1>3, <2>1, <2>2, <2>3
<1>9. Converging' /\ Building'
  <2>1. m.todo \subseteq Groups
    BY Remembered DEF Blank
  <2> QED
    BY <1>1, <1>7, <2>1 DEF Converging, Building, InLoop, Admitting
<1> QED
  BY <1>5, <1>6, <1>7, <1>8, <1>9 DEF IInv

LEMMA ConvergePreserves ==
    ASSUME IInv, Converge
    PROVE  IInv'
<1>1. CASE GroupsDone
  <2> DEFINE m == [mem EXCEPT !.left = single]
  <2>1. m \in Memory /\ m.todo = mem.todo
    BY Remembered DEF Memory, IInv, Tables
  <2>2. To("singles", m) /\ UNCHANGED <<library, grouped, singled, interrupted>>
    BY <1>1 DEF GroupsDone
  <2>3. "singles" \in Jobs \ {"freeze", "create"} /\ "singles" \notin Admitting
    BY DEF Jobs, Admitting
  <2> HIDE DEF m
  <2> QED
    BY <2>1, <2>2, <2>3, Remembered, TablesKept, MoveStep
<1>2. mem.g \in Gid /\ muted[mem.g] \subseteq roster[mem.g]
  BY Remembered DEF IInv, Memory, Tables
<1>3. CASE Mute
  BY <1>2, <1>3, InLoopWithin, SetMutedPreserves DEF Mute, InLoop, Within
<1>4. CASE Unmute
  BY <1>2, <1>4, SetMutedPreserves DEF Unmute, InLoop
<1> QED
  BY <1>1, <1>3, <1>4, ComparePreserves, DemotePreserves, PromotePreserves,
     SaveXmlPreserves DEF Converge

-----------------------------------------------------------------------------
\* A step that writes into single directories or the registry of singles.
LEMMA SingledKept ==
    ASSUME IInv, UNCHANGED <<library, grouped>>,
           single' \subseteq Factor,
           sdir' \in [Factor -> [code: Code, xml: Code, ck: Code]]
    PROVE  Tables'
BY DEF IInv, Tables, library, grouped

LEMMA Versions ==
    ASSUME IInv, NEW f \in Factor
    PROVE  lib[f].live \in Code /\ sdir[f] \in [code: Code, xml: Code, ck: Code] /\ 0 \in Code
BY BoundAssumption DEF IInv, Tables, Entry, Code

LEMMA AdmitPreserves ==
    ASSUME IInv, Admit
    PROVE  IInv'
<1>1. PICK f \in Factor : AdmitClear(f) \/ AdmitCopy(f) \/ AdmitXml(f) \/ AdmitRegister(f)
  BY DEF Admit
<1>2. single \subseteq Factor /\ sdir \in [Factor -> [code: Code, xml: Code, ck: Code]]
  BY DEF IInv, Tables
<1>3. \A j \in {"copy", "xml", "register"} : j \in Jobs \ {"freeze", "create"}
  BY DEF Jobs
<1>4. job \in Admitting => /\ mem.back \in {"legs", "singles", "names"}
                           /\ mem.back = "legs" => Within(mem)
  BY InLoopWithin DEF IInv, Converging, InLoop
\* The source is there: the next part of the copy is written.
<1>5. ASSUME NEW j \in {"copy", "xml", "register"}, To(j, mem), interrupted' = interrupted,
             UNCHANGED <<library, grouped, single>>, job \in Admitting,
             sdir' \in [Factor -> [code: Code, xml: Code, ck: Code]]
      PROVE  IInv'
  <2>1. Tables'
    BY <1>2, <1>5, SingledKept
  <2> QED
    BY <1>3, <1>4, <1>5, <2>1, Remembered, MoveStep
\* The source is not there: SystemExit.
<1>6. ASSUME Abort, UNCHANGED <<library, grouped, single, sdir>>
      PROVE  IInv'
  BY <1>6, EndStep, TablesKept DEF Abort, singled
<1>7. CASE AdmitClear(f)
  BY <1>2, <1>5, <1>6, <1>7, Versions DEF AdmitClear, Admitting
<1>8. CASE AdmitCopy(f)
  BY <1>2, <1>5, <1>6, <1>8, Versions DEF AdmitCopy, Admitting
<1>9. CASE AdmitXml(f)
  BY <1>2, <1>5, <1>6, <1>9, Versions DEF AdmitXml, XmlOf, Admitting
<1>10. CASE AdmitRegister(f)
  <2> DEFINE m == [mem EXCEPT !.who = {}]
  <2>1. m \in Memory /\ m.todo = mem.todo /\ (Within(mem) => Within(m))
    BY Remembered DEF Memory, Within
  <2>2. To(mem.back, m) /\ UNCHANGED <<library, grouped, sdir, interrupted>>
        /\ single' \subseteq Factor
    BY <1>2, <1>10 DEF AdmitRegister
  <2> HIDE DEF m
  <2>3. Tables'
    BY <1>2, <2>2, SingledKept
  <2>4. mem.back \in {"legs", "singles", "names"} /\ (mem.back = "legs" => Within(m))
    BY <1>4, <1>10, <2>1 DEF AdmitRegister, Admitting
  <2>5. mem.back \in Jobs \ {"freeze", "create"} /\ mem.back \notin Admitting
        /\ mem.back \notin {"unmute", "save"}
    BY <2>4 DEF Jobs, Admitting
  <2> QED
    BY <2>1, <2>2, <2>3, <2>4, <2>5, Remembered, MoveStep
<1> QED
  BY <1>1, <1>7, <1>8, <1>9, <1>10

-----------------------------------------------------------------------------
\* The job goes on among the singles, the named admissions and the runs.
LEMMA Onward ==
    ASSUME IInv, UNCHANGED grouped, Tables', interrupted' = interrupted,
           NEW j \in {"singles", "names", "run"}, NEW m \in Memory, To(j, m),
           m.todo \subseteq Groups
    PROVE  IInv'
<1>1. j \in Jobs \ {"freeze", "create"} /\ j \notin Admitting
      /\ j \notin {"legs", "unmute", "save"}
  BY DEF Jobs, Admitting
<1> QED
  BY <1>1, MoveStep

\* Or turns to an admission.
LEMMA Admission ==
    ASSUME IInv, UNCHANGED grouped, Tables', interrupted' = interrupted,
           NEW f \in Factor, NEW caller \in {"singles", "names"}, NEW m \in Memory,
           ToAdmit(f, caller, m), m.todo \subseteq Groups
    PROVE  IInv'
<1> DEFINE n == [m EXCEPT !.who = {f}, !.back = caller, !.singles = @ \cup {f}]
<1>1. n \in Memory /\ n.todo = m.todo /\ n.back = caller
  BY DEF Memory, Jobs
<1>2. To("clear", n)
  BY DEF ToAdmit
<1>3. "clear" \in Jobs \ {"freeze", "create"} /\ "clear" \notin {"legs", "unmute", "save"}
  BY DEF Jobs
<1> HIDE DEF n
<1> QED
  BY <1>1, <1>2, <1>3, MoveStep

LEMMA SinglesPreserves ==
    ASSUME IInv, Singles
    PROVE  IInv'
<1>1. single \subseteq Factor /\ sdir \in [Factor -> [code: Code, xml: Code, ck: Code]]
  BY DEF IInv, Tables
<1>2. ASSUME NEW f \in Factor
      PROVE  LET m == [mem EXCEPT !.left = @ \ {f}]
             IN  m \in Memory /\ m.todo = mem.todo
  BY Remembered DEF Memory
<1>3. CASE SinglesDone
  BY <1>3, Remembered, TablesKept, Onward DEF SinglesDone
<1>4. CASE NamesDone
  <2> DEFINE m == [mem EXCEPT !.singles = {}]
  <2>1. m \in Memory /\ m.todo = mem.todo
    BY Remembered DEF Memory
  <2>2. UNCHANGED <<library, grouped, singled, interrupted>>
        /\ (To("run", m) \/ To("idle", Blank))
    BY <1>4 DEF NamesDone
  <2>3. interrupted' \in BOOLEAN
    BY <2>2 DEF IInv, Doing
  <2> HIDE DEF m
  <2> QED
    BY <2>1, <2>2, <2>3, Remembered, TablesKept, Onward, EndStep
<1>5. CASE Finish
  BY <1>5, TablesKept, EndStep DEF Finish, IInv, Doing
<1>6. ASSUME NEW f \in Factor, SingleLeaves(f)
      PROVE  IInv'
  <2>1. Tables'
    BY <1>1, <1>6, SingledKept DEF SingleLeaves
  <2> QED
    BY <1>2, <1>6, <2>1, Remembered, Onward DEF SingleLeaves
<1>7. ASSUME NEW f \in Factor, SingleRefresh(f)
      PROVE  IInv'
  <2>1. Tables'
    BY <1>1, <1>7, Versions, SingledKept DEF SingleRefresh
  <2> QED
    BY <1>2, <1>7, <2>1, Remembered, Admission DEF SingleRefresh
<1>8. ASSUME NEW f \in Factor, SingleStays(f)
      PROVE  IInv'
  BY <1>2, <1>8, Remembered, TablesKept, Onward DEF SingleStays
<1>9. ASSUME NEW f \in Factor, Name(f)
      PROVE  IInv'
  BY <1>9, Remembered, TablesKept, Admission DEF Name
<1>10. ASSUME NEW f \in Factor, RunSingle(f)
      PROVE  IInv'
  <2>1. Tables'
    BY <1>1, <1>10, Versions, SingledKept DEF RunSingle
  <2> QED
    BY <1>10, <2>1, GroupedKept, JobKept DEF RunSingle, IInv, Doing
<1> QED
  BY <1>3, <1>4, <1>5, <1>6, <1>7, <1>8, <1>9, <1>10 DEF Singles

-----------------------------------------------------------------------------
\* The bootstrap works on a number that PG does not know.
LEMMA Fresh ==
    ASSUME IInv, job \in {"freeze", "create"}
    PROVE  /\ mem.g \in Gid /\ mem.g \notin Groups
           /\ mem.active \subseteq Factor /\ mem.left \subseteq Factor
           /\ \A g \in Groups : g \in Gid /\ g # mem.g
BY DEF IInv, Doing, Building, Groups, Memory

\* A step that writes into the directory of that number.
LEMMA DirectoryKept ==
    ASSUME IInv, job \in {"freeze", "create"},
           NEW d \in [legs: SUBSET Factor, on: SUBSET Factor, code: [Factor -> Code]],
           gdir' = [gdir EXCEPT ![mem.g] = d],
           UNCHANGED <<library, roster, muted, singled>>
    PROVE  /\ Tables' /\ GroupSelfContained' /\ OneGroup' /\ Groups' = Groups
           /\ gdir'[mem.g] = d
           /\ \A g \in Groups : gdir'[g] = gdir[g]
<1>1. Tables'
  BY DEF IInv, Tables, library, singled
<1>2. gdir'[mem.g] = d /\ \A g \in Groups : gdir'[g] = gdir[g]
  BY Fresh DEF IInv, Tables
<1>3. Groups' = Groups /\ OneGroup'
  BY DEF IInv, Groups, OneGroup
<1>4. GroupSelfContained'
  BY <1>2, <1>3 DEF IInv, GroupSelfContained
<1> QED
  BY <1>1, <1>2, <1>3, <1>4

LEMMA BootPlanPreserves ==
    ASSUME IInv, NEW S \in SUBSET Factor, BootPlan(S)
    PROVE  IInv'
<1>1. PICK g \in Gid : NextGid(g) /\ To("freeze", [Blank EXCEPT !.g = g, !.active = S, !.left = S])
  BY DEF BootPlan
<1> DEFINE m == [Blank EXCEPT !.g = g, !.active = S, !.left = S]
<1>2. m \in Memory /\ m.g = g /\ m.active = S /\ m.left = S /\ m.todo = {}
  BY BlankMemory DEF Memory, Blank
<1>3. roster[g] = {} /\ S # {} /\ \A h \in Gid : S \cap roster[h] = {}
  BY <1>1 DEF NextGid, Groups, BootPlan, Ungrouped, Members
<1>4. job' = "freeze" /\ mem' = m /\ touched' = touched
  BY <1>1 DEF To
<1>5. UNCHANGED <<library, grouped, singled, interrupted>>
  BY DEF BootPlan
<1> HIDE DEF m
<1>6. Doing'
  BY <1>2, <1>4, <1>5 DEF IInv, Doing, Jobs
<1>7. Converging'
  BY <1>2, <1>4 DEF Converging, InLoop, Admitting
<1>8. Building'
  BY <1>2, <1>3, <1>4, <1>5 DEF Building, grouped
<1> QED
  BY <1>5, <1>6, <1>7, <1>8, TablesKept, GroupedKept DEF IInv

LEMMA BootFreezePreserves ==
    ASSUME IInv, NEW f \in Factor, BootFreeze(f)
    PROVE  IInv'
<1> DEFINE d == [gdir[mem.g] EXCEPT !.code[f] = lib[f].live]
           m == [mem EXCEPT !.left = @ \ {f}]
<1>1. job = "freeze" /\ mem.g \in Gid
  BY Fresh DEF BootFreeze
<1>2. d \in [legs: SUBSET Factor, on: SUBSET Factor, code: [Factor -> Code]]
  BY <1>1, Versions DEF IInv, Tables
<1>3. gdir' = [gdir EXCEPT ![mem.g] = d] /\ UNCHANGED <<library, roster, muted, singled, interrupted>>
  BY <1>1 DEF BootFreeze, IInv, Tables
<1>4. d.code = [gdir[mem.g].code EXCEPT ![f] = lib[f].live]
  BY <1>1 DEF IInv, Tables
<1>5. gdir[mem.g].code \in [Factor -> Code]
  BY <1>1 DEF IInv, Tables
<1> HIDE DEF d
<1>6. /\ Tables' /\ GroupSelfContained' /\ OneGroup' /\ Groups' = Groups
      /\ gdir'[mem.g] = d
  BY <1>1, <1>2, <1>3, DirectoryKept
<1>7. CASE lib[f].live = 0
  <2>1. job' = "idle" /\ mem' = Blank /\ touched' = {}
    BY <1>7 DEF BootFreeze, To
  <2>2. Doing'
    BY <1>3, <2>1, BlankMemory DEF IInv, Doing, Jobs
  <2>3. Converging' /\ Building'
    BY <2>1, BlankMemory DEF Converging, Building, InLoop, Admitting
  <2> QED
    BY <1>6, <2>2, <2>3 DEF IInv
<1>8. CASE lib[f].live # 0
  <2>1. job' = "freeze" /\ mem' = m /\ touched' = touched
    BY <1>8 DEF BootFreeze, To
  <2>2. m \in Memory /\ m.g = mem.g /\ m.active = mem.active /\ m.todo = mem.todo
        /\ m.left = mem.left \ {f}
    BY Remembered DEF Memory
  <2> HIDE DEF m
  <2>3. Doing'
    BY <1>3, <2>1, <2>2 DEF IInv, Doing, Jobs
  <2>4. Converging'
    BY <1>6, <2>1, <2>2, Remembered DEF Converging, InLoop, Admitting
  <2>5. \A e \in mem.active \ (mem.left \ {f}) : d.code[e] # 0
    BY <1>1, <1>4, <1>5, <1>8, Fresh DEF IInv, Building
  <2>6. Building'
    BY <1>1, <1>3, <1>6, <2>1, <2>2, <2>5 DEF IInv, Building
  <2> QED
    BY <1>6, <2>3, <2>4, <2>6 DEF IInv
<1> QED
  BY <1>7, <1>8

LEMMA BootXmlPreserves ==
    ASSUME IInv, BootXml
    PROVE  IInv'
<1> DEFINE d == [gdir[mem.g] EXCEPT !.legs = mem.active, !.on = mem.active]
<1>1. job = "freeze" /\ mem.left = {} /\ job' = "create" /\ mem' = mem /\ touched' = touched
  BY DEF BootXml, AllFrozen, To
<1>2. mem.g \in Gid /\ mem.active \subseteq Factor
  BY <1>1, Fresh
<1>3. d \in [legs: SUBSET Factor, on: SUBSET Factor, code: [Factor -> Code]]
      /\ d.legs = mem.active /\ d.on = mem.active /\ d.code = gdir[mem.g].code
  BY <1>2 DEF IInv, Tables
<1>4. gdir' = [gdir EXCEPT ![mem.g] = d] /\ UNCHANGED <<library, roster, muted, singled, interrupted>>
  BY <1>2 DEF BootXml, IInv, Tables
<1> HIDE DEF d
<1>5. /\ Tables' /\ GroupSelfContained' /\ OneGroup' /\ Groups' = Groups
      /\ gdir'[mem.g] = d
  BY <1>1, <1>3, <1>4, DirectoryKept
<1>6. Doing'
  BY <1>1, <1>4 DEF IInv, Doing, Jobs
<1>7. Converging'
  BY <1>1, <1>5 DEF IInv, Converging, InLoop, Admitting
<1>8. Building'
  BY <1>1, <1>3, <1>4, <1>5 DEF IInv, Building
<1> QED
  BY <1>5, <1>6, <1>7, <1>8 DEF IInv

\* The one transaction that publishes a group.
LEMMA BootCreatePreserves ==
    ASSUME IInv, BootCreate
    PROVE  IInv'
<1> DEFINE m == [mem EXCEPT !.left = mem.active]
<1>1. job = "create" /\ job' = "retire" /\ mem' = m /\ touched' = touched
  BY DEF BootCreate, To
<1>2. mem.g \in Gid /\ mem.g \notin Groups /\ mem.active \subseteq Factor
  BY <1>1, Fresh
<1>3. /\ mem.active # {} /\ mem.todo = {} /\ mem.left = {}
      /\ \A g \in Gid : mem.active \cap roster[g] = {}
      /\ gdir[mem.g].legs = mem.active /\ gdir[mem.g].on = mem.active
      /\ \A f \in mem.active : gdir[mem.g].code[f] # 0
  BY <1>1 DEF IInv, Building
<1>4. roster' = [roster EXCEPT ![mem.g] = mem.active]
      /\ UNCHANGED <<library, muted, gdir, singled, interrupted>>
  BY DEF BootCreate
<1>5. m \in Memory /\ m.todo = {}
  BY <1>2, <1>3, Remembered DEF Memory
<1> HIDE DEF m
<1>6. \A g \in Gid : roster'[g] = IF g = mem.g THEN mem.active ELSE roster[g]
  BY <1>4 DEF IInv, Tables
<1>7. Tables'
  <2>1. \A g \in Gid : muted[g] \subseteq roster'[g]
    BY <1>2, <1>6 DEF IInv, Tables, Groups
  <2>2. roster' \in [Gid -> SUBSET Factor]
    BY <1>2, <1>4 DEF IInv, Tables
  <2> QED
    BY <1>4, <2>1, <2>2 DEF IInv, Tables, library, singled
<1>8. Doing'
  BY <1>1, <1>4, <1>5 DEF IInv, Doing, Jobs
<1>9. GroupSelfContained'
  BY <1>3, <1>4, <1>6 DEF IInv, GroupSelfContained, Groups
<1>10. OneGroup'
  BY <1>3, <1>6 DEF IInv, OneGroup
<1>11. Converging' /\ Building'
  BY <1>1, <1>5 DEF Converging, Building, InLoop, Admitting
<1> QED
  BY <1>7, <1>8, <1>9, <1>10, <1>11 DEF IInv

LEMMA BootRetirePreserves ==
    ASSUME IInv, NEW f \in Factor, BootRetire(f)
    PROVE  IInv'
<1> DEFINE m == [mem EXCEPT !.left = @ \ {f}]
<1>1. m \in Memory /\ m.todo = mem.todo
  BY Remembered DEF Memory
<1>2. To("retire", m) /\ UNCHANGED <<library, grouped, sdir, interrupted>>
      /\ single' \subseteq Factor
  BY DEF BootRetire, Retired, IInv, Tables
<1>3. Tables'
  BY <1>2, SingledKept DEF IInv, Tables
<1>4. "retire" \in Jobs \ {"freeze", "create"} /\ "retire" \notin Admitting
      /\ "retire" \notin {"legs", "unmute", "save"}
  BY DEF Jobs, Admitting
<1> HIDE DEF m
<1> QED
  BY <1>1, <1>2, <1>3, <1>4, Remembered, MoveStep

LEMMA BootstrapPreserves ==
    ASSUME IInv, Bootstrap
    PROVE  IInv'
<1>1. CASE BootDone
  BY <1>1, TablesKept, EndStep DEF BootDone, IInv, Doing
<1> QED
  BY <1>1, BootPlanPreserves, BootFreezePreserves, BootXmlPreserves, BootCreatePreserves,
     BootRetirePreserves DEF Bootstrap

-----------------------------------------------------------------------------
LEMMA InitIInv == Init => IInv
<1> SUFFICES ASSUME Init PROVE IInv
  OBVIOUS
<1>1. 0 \in Code /\ 1 \in Code
  BY BoundAssumption DEF Code
<1>2. Tables
  BY <1>1 DEF Init, Tables, Entry
<1>3. Doing
  BY BlankMemory DEF Init, Doing, Jobs
<1>4. GroupSelfContained /\ OneGroup
  BY DEF Init, GroupSelfContained, OneGroup, Groups
<1>5. Converging /\ Building
  BY BlankMemory DEF Init, Converging, Building, InLoop, Admitting
<1> QED
  BY <1>2, <1>3, <1>4, <1>5 DEF IInv

LEMMA NextIInv == IInv /\ [Next]_vars => IInv'
<1> SUFFICES ASSUME IInv, [Next]_vars PROVE IInv'
  OBVIOUS
<1>1. CASE SyncStart
  BY <1>1, SyncStartPreserves
<1>2. CASE Kill
  BY <1>2, TablesKept, EndStep DEF Kill
<1>3. CASE UNCHANGED vars
  <2>1. UNCHANGED <<library, grouped, singled>> /\ UNCHANGED <<job, mem, touched, interrupted>>
    BY <1>3 DEF vars, library, grouped, singled
  <2>2. Doing'
    BY <2>1 DEF IInv, Doing
  <2> QED
    BY <2>1, <2>2, TablesKept, GroupedKept, JobKept DEF IInv
<1> QED
  BY <1>1, <1>2, <1>3, LibraryPreserves, ConvergePreserves, AdmitPreserves,
     SinglesPreserves, BootstrapPreserves DEF Next

\* The groups PG knows are complete and disjoint, the sync stays within the
\* group it works on and the bootstrap within a number of its own
\* (groups.py:150-191, bootstrap_groups.py:94-168).
THEOREM Invariance == Spec => []IInv
<1>1. Init => IInv
  BY InitIInv
<1>2. IInv /\ [Next]_vars => IInv'
  BY NextIInv
<1> QED
  BY <1>1, <1>2, PTL DEF Spec

\* Every reachable state is well typed, and only members are muted
\* (groups.py:166-171).
THEOREM TypeCorrect == Spec => []TypeOK
<1>1. IInv => TypeOK
  BY DEF IInv, Tables, Doing, Entry, TypeOK
<1> QED
  BY <1>1, Invariance, PTL

\* A group that PG knows is complete on disk, with its XML over its own roster
\* and every leg's code frozen, whenever a job dies (bootstrap_groups.py:148-161).
THEOREM GroupsComplete == Spec => []GroupSelfContained
<1>1. IInv => GroupSelfContained
  BY DEF IInv
<1> QED
  BY <1>1, Invariance, PTL

\* No factor is given to two groups (bootstrap_groups.py:77-93).
THEOREM GroupsDisjoint == Spec => []OneGroup
<1>1. IInv => OneGroup
  BY DEF IInv
<1> QED
  BY <1>1, Invariance, PTL

-----------------------------------------------------------------------------
Kept == \A g \in Groups : /\ gdir'[g].legs = gdir[g].legs
                          /\ gdir'[g].code = gdir[g].code
                          /\ roster'[g] = roster[g]

LEMMA KeptStep == IInv /\ [Next]_vars => Kept
<1> SUFFICES ASSUME IInv, [Next]_vars PROVE Kept
  OBVIOUS
<1>1. ASSUME UNCHANGED <<roster, gdir>> PROVE Kept
  BY <1>1 DEF Kept
<1>2. CASE LibraryStep
  BY <1>1, <1>2 DEF LibraryStep, Recall, Recalled, Overwrite, Pass, ArchiveRm, ArchiveMv,
     Library, grouped
<1>3. CASE SyncStart \/ Admit \/ Kill
  BY <1>1, <1>3 DEF SyncStart, Admit, AdmitClear, AdmitCopy, AdmitXml, AdmitRegister, Kill,
     grouped
<1>4. CASE Singles
  BY <1>1, <1>4 DEF Singles, SinglesDone, NamesDone, Finish, SingleLeaves, SingleRefresh,
     SingleStays, Name, RunSingle, grouped
<1>5. CASE Converge
  <2>1. CASE SaveXml
    <3>1. mem.g \in Gid
      BY Remembered DEF Memory
    <3>2. roster' = roster
      BY <2>1 DEF SaveXml
    <3>3. \A g \in Gid : gdir'[g].legs = gdir[g].legs /\ gdir'[g].code = gdir[g].code
      BY <2>1, <3>1 DEF SaveXml, IInv, Tables
    <3> QED
      BY <3>2, <3>3 DEF Kept, Groups
  <2> QED
    BY <1>1, <1>5, <2>1 DEF Converge, GroupsDone, Mute, Unmute, SetMuted, Compare, Demote,
       Promote, grouped
<1>6. CASE Bootstrap
  <2>1. CASE BootXml \/ \E f \in Factor : BootFreeze(f)
    <3>1. job \in {"freeze", "create"} /\ roster' = roster
      BY <2>1 DEF BootXml, BootFreeze
    <3>2. \A g \in Groups : gdir'[g] = gdir[g]
      BY <2>1, <3>1, Fresh DEF BootXml, BootFreeze, IInv, Tables
    <3> QED
      BY <3>1, <3>2 DEF Kept
  <2>2. CASE BootCreate
    <3>1. gdir' = gdir /\ \A g \in Groups : roster'[g] = roster[g]
      BY <2>2, Fresh DEF BootCreate, IInv, Tables
    <3> QED
      BY <3>1 DEF Kept
  <2> QED
    BY <1>1, <1>6, <2>1, <2>2 DEF Bootstrap, BootPlan, BootRetire, BootDone, grouped
<1>7. CASE UNCHANGED vars
  BY <1>1, <1>7 DEF vars
<1> QED
  BY <1>2, <1>3, <1>4, <1>5, <1>6, <1>7 DEF Next

\* Nothing changes the roster, the legs or the frozen code of a group that PG
\* knows: gsim's checkpoint, read by leg number, stays theirs (prodgroup.py:16-20).
THEOREM FrozenForGood == Spec => GroupFrozen
<1>1. IInv /\ [Next]_vars => [Kept]_vars
  BY KeptStep
<1> QED
  BY <1>1, Invariance, PTL DEF Spec, GroupFrozen, Kept

-----------------------------------------------------------------------------
(***************************************************************************)
(* Singles are fresh after a sync.  What the sync believes to be singles   *)
(* covers the registry, so the loop over the registry compares each one    *)
(* with alpha_src or finds it gone, and an admission copies what is there; *)
(* a factor that the library touches afterwards is no longer Quiet.        *)
(***************************************************************************)
Syncing == job \in {"groups", "legs", "unmute", "save", "singles", "names"} \cup Admitting

\* The loop over the singles has begun.
Refreshing == job \in {"singles", "names", "run"}
              \/ (job \in Admitting /\ mem.back \in {"singles", "names"})

Known ==
    /\ Syncing => single \subseteq mem.singles
    /\ mem.who \subseteq mem.singles
    /\ job \notin Admitting => mem.who = {}
    /\ \A e, f \in mem.who : e = f
    /\ job \in {"names", "run"} \/ (job \in Admitting /\ mem.back = "names") => mem.left = {}

Compared ==
    /\ job \in {"xml", "register"} =>
          \A f \in mem.who \cap Quiet : sdir[f].code = lib[f].live
    /\ Refreshing =>
          \A f \in Quiet \cap (single \ (mem.left \cup mem.who)) : sdir[f].code = lib[f].live

FInv == IInv /\ Known /\ Compared

\* Outside the sync and the run there is nothing to keep.
LEMMA IdleKeeps ==
    ASSUME job' \in {"idle", "freeze", "create", "retire"}, mem'.who = {}
    PROVE  Known' /\ Compared'
BY DEF Known, Compared, Syncing, Refreshing, Admitting

LEMMA BlankWho == Blank.who = {} /\ Blank.left = {}
BY DEF Blank

LEMMA LibraryWrites ==
    ASSUME FInv, LibraryStep
    PROVE  \E f \in Factor, e \in Entry : Library(f, e)
<1>1. PICK f \in Moving : Recall(f) \/ Recalled(f) \/ Overwrite(f)
                          \/ Pass(f) \/ ArchiveRm(f) \/ ArchiveMv(f)
  BY DEF LibraryStep
<1>2. f \in Factor /\ lib[f] \in Entry
  BY <1>1, BoundAssumption DEF FInv, IInv, Tables
<1>3. 0 \in Code /\ \A c \in Code : c < MaxCode => c + 1 \in Code
  BY BoundAssumption DEF Code
<1> QED
  BY <1>1, <1>2, <1>3 DEF Recall, Recalled, Overwrite, Pass, ArchiveRm, ArchiveMv, Entry, Busy

LEMMA LibraryCompared ==
    ASSUME FInv, LibraryStep
    PROVE  Known' /\ Compared'
<1>1. PICK f \in Factor, e \in Entry : Library(f, e)
  BY LibraryWrites
<1>2. lib' = [lib EXCEPT ![f] = e] /\ job' = job /\ mem' = mem /\ single' = single /\ sdir' = sdir
  BY <1>1 DEF Library, singled
<1>3. job \in {"idle", "freeze", "create", "retire"} \/ Quiet' = Quiet \ {f}
  BY <1>1, <1>2 DEF Library, Quiet
<1>4. \A g \in Factor \ {f} : lib'[g] = lib[g]
  BY <1>2 DEF FInv, IInv, Tables
<1>5. Known'
  BY <1>2 DEF FInv, Known, Syncing
<1>6. Quiet \subseteq Factor
  BY DEF Quiet, FInv, IInv, Doing, Memory
<1>7. Compared'
  <2>1. CASE job \in {"idle", "freeze", "create", "retire"}
    BY <1>2, <2>1 DEF Compared, Refreshing, Admitting
  <2>2. CASE Quiet' = Quiet \ {f}
    BY <1>2, <1>4, <1>6, <2>2 DEF FInv, Compared, Refreshing
  <2> QED
    BY <1>3, <2>1, <2>2
<1> QED
  BY <1>5, <1>7

LEMMA ConvergeCompared ==
    ASSUME FInv, SyncStart \/ Converge
    PROVE  Known' /\ Compared'
<1>1. mem \in Memory /\ single \subseteq Factor
  BY DEF FInv, IInv, Doing, Tables
<1>2. CASE SyncStart
  <2>1. job' = "groups" /\ mem'.singles = single /\ mem'.who = {} /\ single' = single
    BY <1>2 DEF SyncStart, To, Blank, singled
  <2> QED
    BY <2>1 DEF Known, Compared, Refreshing, Admitting
<1>3. ASSUME NEW g \in Gid, Compare(g)
      PROVE  Known' /\ Compared'
  <2>1. /\ job = "groups" /\ job' = "legs" /\ single' = single
        /\ mem'.singles = mem.singles /\ mem'.who = mem.who
    BY <1>1, <1>3 DEF Compare, To, singled, Memory
  <2> QED
    BY <2>1 DEF FInv, Known, Compared, Syncing, Refreshing, Admitting
<1>4. CASE GroupsDone
  <2>1. /\ job = "groups" /\ job' = "singles" /\ single' = single
        /\ mem'.singles = mem.singles /\ mem'.who = mem.who /\ mem'.left = single
    BY <1>1, <1>4 DEF GroupsDone, To, singled, Memory
  <2> QED
    BY <2>1 DEF FInv, Known, Compared, Syncing, Admitting
<1>5. ASSUME NEW f \in Factor, Demote(f)
      PROVE  Known' /\ Compared'
  <2>1. /\ job = "legs" /\ job' = "clear" /\ single' = single /\ mem'.back = "legs"
        /\ mem'.singles = mem.singles \cup {f} /\ mem'.who = {f}
    BY <1>1, <1>5 DEF Demote, ToAdmit, To, singled, Memory
  <2> QED
    BY <2>1 DEF FInv, Known, Compared, Syncing, Refreshing, Admitting
<1>6. ASSUME NEW f \in Factor, Promote(f)
      PROVE  Known' /\ Compared'
  <2>1. /\ job = "legs" /\ job' = "legs" /\ single' = single \ {f}
        /\ mem'.singles = mem.singles \ {f} /\ mem'.who = mem.who
    BY <1>1, <1>6 DEF Promote, To, Memory
  <2> QED
    BY <2>1 DEF FInv, Known, Compared, Syncing, Refreshing, Admitting
<1>7. CASE Mute \/ Unmute
  <2>1. job \in {"legs", "unmute"} /\ job' \in {"unmute", "save"} /\ single' = single /\ mem' = mem
    BY <1>7 DEF Mute, Unmute, SetMuted, To, singled
  <2> QED
    BY <2>1 DEF FInv, Known, Compared, Syncing, Refreshing, Admitting
<1>8. CASE SaveXml
  <2>1. /\ job = "save" /\ job' = "groups" /\ single' = single
        /\ mem'.singles = mem.singles /\ mem'.who = {}
    BY <1>8 DEF SaveXml, To, singled, Blank
  <2> QED
    BY <2>1 DEF FInv, Known, Compared, Syncing, Refreshing, Admitting
<1> QED
  BY <1>2, <1>3, <1>4, <1>5, <1>6, <1>7, <1>8 DEF Converge

LEMMA AdmitCompared ==
    ASSUME FInv, Admit
    PROVE  Known' /\ Compared'
<1>1. PICK f \in Factor : AdmitClear(f) \/ AdmitCopy(f) \/ AdmitXml(f) \/ AdmitRegister(f)
  BY DEF Admit
<1>2. /\ mem \in Memory /\ single \subseteq Factor
      /\ sdir \in [Factor -> [code: Code, xml: Code, ck: Code]]
  BY DEF FInv, IInv, Doing, Tables
<1>3. job \in Admitting /\ mem.who = {f} /\ mem.back \in {"legs", "singles", "names"}
  BY <1>1 DEF AdmitClear, AdmitCopy, AdmitXml, AdmitRegister, Admitting, FInv, IInv,
     Known, Converging
<1>4. CASE Abort
  BY <1>4, IdleKeeps, BlankWho DEF Abort, To
\* Nothing is written but in the directory of f.
<1>5. ASSUME ~Abort, ~AdmitRegister(f)
      PROVE  Known' /\ Compared'
  <2>1. /\ job' \in Admitting \ {"clear"} /\ mem' = mem /\ touched' = touched
        /\ lib' = lib /\ single' = single
        /\ \A g \in Factor \ {f} : sdir'[g] = sdir[g]
        /\ job' \in {"xml", "register"} => sdir'[f].code = lib[f].live \/ f \notin Quiet
    <3>1. CASE AdmitClear(f)
      BY <1>2, <1>5, <3>1 DEF AdmitClear, To, Admitting, library
    <3>2. CASE AdmitCopy(f)
      BY <1>2, <1>5, <3>2 DEF AdmitCopy, To, Admitting, library
    <3>3. CASE AdmitXml(f)
      BY <1>2, <1>3, <1>5, <3>3 DEF AdmitXml, To, Admitting, library, FInv, Compared
    <3> QED
      BY <1>1, <1>5, <3>1, <3>2, <3>3
  <2>2. Known'
    BY <1>3, <2>1 DEF FInv, Known, Syncing, Admitting
  <2>3. Quiet' = Quiet /\ Quiet \subseteq Factor
    BY <1>2, <2>1 DEF Quiet, Memory
  <2>4. Compared'
    BY <1>2, <1>3, <2>1, <2>3 DEF FInv, Compared, Refreshing, Admitting
  <2> QED
    BY <2>2, <2>4
<1>6. CASE AdmitRegister(f)
  <2>1. /\ job = "register" /\ job' = mem.back /\ single' = single \cup {f}
        /\ lib' = lib /\ sdir' = sdir /\ touched' = touched
        /\ mem'.who = {} /\ mem'.singles = mem.singles /\ mem'.left = mem.left
        /\ mem'.active = mem.active
    BY <1>2, <1>3, <1>6 DEF AdmitRegister, To, library, Memory
  <2>2. Known'
    BY <1>3, <2>1 DEF FInv, Known, Syncing, Admitting
  <2>3. Quiet' = Quiet
    BY <2>1 DEF Quiet
  <2>4. Compared'
    BY <1>3, <2>1, <2>3 DEF FInv, Compared, Refreshing, Admitting
  <2> QED
    BY <2>2, <2>4
<1> QED
  BY <1>4, <1>5, <1>6

LEMMA SinglesCompared ==
    ASSUME FInv, Singles
    PROVE  Known' /\ Compared'
<1>1. /\ mem \in Memory /\ single \subseteq Factor
      /\ sdir \in [Factor -> [code: Code, xml: Code, ck: Code]]
  BY DEF FInv, IInv, Doing, Tables
<1>2. job \notin Admitting => mem.who = {}
  BY DEF FInv, Known
<1>3. CASE SinglesDone
  <2>1. /\ job = "singles" /\ mem.left = {} /\ job' = "names" /\ mem' = mem
        /\ UNCHANGED <<library, singled>> /\ touched' = touched
    BY <1>3 DEF SinglesDone, To
  <2> QED
    BY <2>1 DEF FInv, Known, Compared, Syncing, Refreshing, Admitting, Quiet, library, singled
<1>4. CASE NamesDone
  <2>1. CASE job' = "idle"
    BY <1>4, <2>1, <1>2, IdleKeeps, BlankWho DEF NamesDone, To, Admitting
  <2>2. CASE job' # "idle"
    <3>1. /\ job = "names" /\ job' = "run" /\ mem' = [mem EXCEPT !.singles = {}]
          /\ UNCHANGED <<library, singled>> /\ touched' = touched
      BY <1>4, <2>2 DEF NamesDone, To
    <3>2. mem'.who = mem.who /\ mem'.left = mem.left /\ mem'.active = mem.active
      BY <1>1, <3>1 DEF Memory
    <3> QED
      BY <1>2, <3>1, <3>2 DEF FInv, Known, Compared, Syncing, Refreshing, Admitting, Quiet,
         library, singled
  <2> QED
    BY <2>1, <2>2
<1>5. CASE Finish
  BY <1>5, IdleKeeps, BlankWho DEF Finish, To
<1>6. ASSUME NEW f \in Factor, SingleLeaves(f)
      PROVE  Known' /\ Compared'
  <2>1. /\ job = "singles" /\ job' = "singles" /\ single' = single \ {f}
        /\ mem'.left = mem.left \ {f} /\ mem'.who = mem.who
        /\ mem'.singles = mem.singles /\ mem'.active = mem.active
        /\ lib' = lib /\ sdir' = sdir /\ touched' = touched
    BY <1>1, <1>6 DEF SingleLeaves, To, library, Memory
  <2> QED
    BY <2>1 DEF FInv, Known, Compared, Syncing, Refreshing, Admitting, Quiet
<1>7. ASSUME NEW f \in Factor, SingleRefresh(f)
      PROVE  Known' /\ Compared'
  <2>1. /\ job = "singles" /\ job' = "clear" /\ single' = single
        /\ mem'.left = mem.left \ {f} /\ mem'.who = {f} /\ mem'.back = "singles"
        /\ mem'.singles = mem.singles \cup {f} /\ mem'.active = mem.active
        /\ lib' = lib /\ touched' = touched
        /\ \A g \in Factor : sdir'[g].code = sdir[g].code
    BY <1>1, <1>7 DEF SingleRefresh, ToAdmit, To, library, Memory
  <2> QED
    BY <1>1, <1>2, <2>1 DEF FInv, Known, Compared, Syncing, Refreshing, Admitting, Quiet
\* It was compared: it is in the registry, so the sync knew it for a single.
<1>8. ASSUME NEW f \in Factor, SingleStays(f)
      PROVE  Known' /\ Compared'
  <2>1. /\ job = "singles" /\ job' = "singles" /\ single' = single
        /\ mem'.left = mem.left \ {f} /\ mem'.who = mem.who
        /\ mem'.singles = mem.singles /\ mem'.active = mem.active
        /\ lib' = lib /\ sdir' = sdir /\ touched' = touched
    BY <1>1, <1>8 DEF SingleStays, To, library, singled, Memory
  <2>2. f \in single => sdir[f].code = lib[f].live
    BY <1>8, <2>1 DEF SingleStays, Stale, Drifted, FInv, Known, Syncing
  <2> QED
    BY <2>1, <2>2 DEF FInv, Known, Compared, Syncing, Refreshing, Admitting, Quiet
<1>9. ASSUME NEW f \in Factor, Name(f)
      PROVE  Known' /\ Compared'
  <2>1. /\ job = "names" /\ job' = "clear" /\ single' = single
        /\ mem'.left = mem.left /\ mem'.who = {f} /\ mem'.back = "names"
        /\ mem'.singles = mem.singles \cup {f} /\ mem'.active = mem.active
        /\ lib' = lib /\ sdir' = sdir /\ touched' = touched
    BY <1>1, <1>9 DEF Name, ToAdmit, To, library, singled, Memory
  <2> QED
    BY <1>2, <2>1 DEF FInv, Known, Compared, Syncing, Refreshing, Admitting, Quiet
<1>10. ASSUME NEW f \in Factor, RunSingle(f)
       PROVE  Known' /\ Compared'
  <2>1. /\ job = "run" /\ job' = job /\ mem' = mem /\ single' = single
        /\ lib' = lib /\ touched' = touched
        /\ \A g \in Factor : sdir'[g].code = sdir[g].code
    BY <1>1, <1>10 DEF RunSingle, library
  <2> QED
    BY <1>1, <2>1 DEF FInv, Known, Compared, Syncing, Refreshing, Admitting, Quiet
<1> QED
  BY <1>3, <1>4, <1>5, <1>6, <1>7, <1>8, <1>9, <1>10 DEF Singles

LEMMA BootstrapCompared ==
    ASSUME FInv, Bootstrap \/ Kill
    PROVE  Known' /\ Compared'
<1>1. mem \in Memory
  BY DEF FInv, IInv, Doing
<1>2. job \notin Admitting => mem.who = {}
  BY DEF FInv, Known
<1>3. CASE BootXml \/ BootDone \/ Kill
  BY <1>2, <1>3, IdleKeeps, BlankWho DEF BootXml, BootDone, Kill, To, Admitting
<1>4. CASE BootCreate
  BY <1>1, <1>2, <1>4, IdleKeeps DEF BootCreate, To, Admitting, Memory
<1>5. ASSUME NEW S \in SUBSET Factor, BootPlan(S)
      PROVE  Known' /\ Compared'
  BY <1>5, IdleKeeps DEF BootPlan, To, Blank
<1>6. ASSUME NEW f \in Factor, BootFreeze(f)
      PROVE  Known' /\ Compared'
  BY <1>1, <1>2, <1>6, IdleKeeps, BlankWho DEF BootFreeze, To, Admitting, Memory
<1>7. ASSUME NEW f \in Factor, BootRetire(f)
      PROVE  Known' /\ Compared'
  BY <1>1, <1>2, <1>7, IdleKeeps DEF BootRetire, To, Admitting, Memory
<1> QED
  BY <1>3, <1>4, <1>5, <1>6, <1>7 DEF Bootstrap

LEMMA NextFInv == FInv /\ [Next]_vars => FInv'
<1> SUFFICES ASSUME FInv, [Next]_vars PROVE FInv'
  OBVIOUS
<1>1. IInv'
  BY NextIInv DEF FInv
<1>2. CASE UNCHANGED vars
  BY <1>1, <1>2 DEF FInv, Known, Compared, Syncing, Refreshing, Quiet, vars
<1> QED
  BY <1>1, <1>2, LibraryCompared, ConvergeCompared, AdmitCompared, SinglesCompared,
     BootstrapCompared DEF FInv, Next

\* After a sync, and whatever was interrupted before it, a single that the
\* library has left alone since has the code of alpha_src in its directory
\* (groups.py:194-203, 108-126).
THEOREM SinglesFresh == Spec => []FreshSingles
<1>1. Init => FInv
  BY InitIInv, BlankWho DEF FInv, Known, Compared, Syncing, Refreshing, Admitting, Init
<1>2. FInv /\ [Next]_vars => FInv'
  BY NextFInv
<1>3. FInv => FreshSingles
  BY DEF FInv, Known, Compared, Refreshing, Admitting, FreshSingles, Synced
<1> QED
  BY <1>1, <1>2, <1>3, PTL DEF Spec

-----------------------------------------------------------------------------
(***************************************************************************)
(* What a sync leaves behind when nothing interrupted it or a job before   *)
(* it.  The loop changes muted flags, dump flags and the registry of       *)
(* singles at different moments; Ahead(g) is what the muted flags of a     *)
(* group come to, and does not move while the loop is in g.                *)
(***************************************************************************)
Loop(g) == InLoop /\ g = mem.g
Ahead(g) == IF Loop(g) THEN (muted[g] \cup mem.mute) \ mem.unmute ELSE muted[g]
Switched == job \in {"unmute", "save"}    \* the muted flags are being written

\* group.xml agrees with the muted flags, or will when the loop saves it.
Agreed == \A g \in Groups :
    IF Loop(g)
    THEN /\ gdir[g].on = mem.on /\ Dumping = roster[g] \ Ahead(g)
         /\ job = "unmute" => mem.mute \subseteq muted[g]
         /\ job = "save" => muted[g] = Ahead(g)
    ELSE gdir[g].on = roster[g] \ muted[g]

\* A single that is on a roster is muted there, about to be promoted, or about
\* to be retired by the bootstrap of its group.
Homes == \A g \in Groups : \A f \in single \cap roster[g] :
    \/ f \in Ahead(g)
    \/ Loop(g) /\ ~Switched /\ f \in mem.unmute
    \/ job = "retire" /\ g = mem.g /\ f \in mem.left

\* In the groups the sync has compared, a muted ACTIVE leg is a single or about
\* to become one, and the others have the code of alpha_src.
Settled == Syncing \/ job = "run" =>
    \A g \in Groups : g \notin mem.todo \/ Loop(g) => \A f \in roster[g] :
        /\ f \in mem.active \cap Ahead(g) =>
               f \in single \/ (Loop(g) /\ f \in mem.demote \cup mem.who)
        /\ f \in Quiet \ Ahead(g) => gdir[g].code[f] = lib[f].live

\* Whom the sync has yet to admit, and why.
Pending ==
    /\ InLoop => mem.demote \subseteq roster[mem.g] \cap Ahead(mem.g)
    /\ Switched => mem.demote = {}
    /\ InLoop => mem.who \subseteq roster[mem.g] \cap Ahead(mem.g)
    /\ InLoop \/ job = "groups" => mem.singles \subseteq single \cup mem.who
    /\ job = "singles" \/ (job \in Admitting /\ mem.back = "singles") =>
           mem.left \cup mem.who \subseteq single
    /\ job \in Admitting /\ mem.back = "names" => mem.who \cap Members = {}
    /\ Refreshing => mem.todo = {}

Orderly == Agreed /\ Homes /\ Settled /\ Pending
HInv == FInv /\ (~interrupted => Orderly)

LEMMA TypedNow ==
    ASSUME FInv
    PROVE  /\ mem \in Memory /\ single \subseteq Factor /\ job \in Jobs
           /\ muted \in [Gid -> SUBSET Factor] /\ roster \in [Gid -> SUBSET Factor]
           /\ gdir \in [Gid -> [legs: SUBSET Factor, on: SUBSET Factor, code: [Factor -> Code]]]
           /\ job \notin Admitting => mem.who = {}
           /\ Syncing => single \subseteq mem.singles
           /\ OneGroup
BY DEF FInv, IInv, Tables, Doing, Known

\* Outside the loop, before and after.
LEMMA OutsideKeeps ==
    ASSUME Agreed, Homes, ~InLoop, ~InLoop', UNCHANGED grouped,
           single' \cap Members \subseteq single,
           job = "retire" => job' = "retire" /\ mem'.g = mem.g /\ single' \cap mem.left \subseteq mem'.left
    PROVE  Agreed' /\ Homes'
<1>1. Groups' = Groups /\ roster' = roster /\ muted' = muted /\ gdir' = gdir
  BY DEF grouped, Groups
<1>2. \A g : ~Loop(g) /\ ~Loop(g)' /\ Ahead(g) = muted[g] /\ Ahead(g)' = muted[g]
  BY <1>1 DEF Loop, Ahead
<1>3. Agreed'
  BY <1>1, <1>2 DEF Agreed
<1>4. Homes'
  <2> SUFFICES ASSUME NEW g \in Groups, NEW f \in single' \cap roster[g]
               PROVE  f \in muted[g] \/ (job' = "retire" /\ g = mem'.g /\ f \in mem'.left)
    BY <1>1, <1>2 DEF Homes
  <2>1. f \in single
    BY DEF Members, Groups
  <2> QED
    BY <1>2, <2>1 DEF Homes
<1> QED
  BY <1>3, <1>4

LEMMA OutsideSettled ==
    ASSUME Settled, ~InLoop, ~InLoop', Syncing \/ job = "run", UNCHANGED <<grouped, lib, touched>>,
           mem'.active = mem.active, mem'.todo = mem.todo,
           single \cap mem.active \cap Members \subseteq single'
    PROVE  Settled'
<1>1. Groups' = Groups /\ roster' = roster /\ muted' = muted /\ gdir' = gdir /\ Quiet' = Quiet
  BY DEF grouped, Groups, Quiet
<1>2. \A g : ~Loop(g) /\ ~Loop(g)' /\ Ahead(g) = muted[g] /\ Ahead(g)' = muted[g]
  BY <1>1 DEF Loop, Ahead
<1> SUFFICES ASSUME NEW g \in Groups, g \notin mem.todo, NEW f \in roster[g]
             PROVE  /\ f \in mem.active \cap muted[g] => f \in single'
                    /\ f \in Quiet \ muted[g] => gdir[g].code[f] = lib'[f].live
  BY <1>1, <1>2 DEF Settled
<1>3. f \in Members
  BY DEF Members, Groups
<1> QED
  BY <1>2, <1>3 DEF Settled

\* In the loop, with the group, what was decided for it and the flags as they are.
LEMMA InsideSame ==
    ASSUME InLoop, InLoop', UNCHANGED grouped, ~Switched, ~Switched',
           mem'.g = mem.g, mem'.on = mem.on, mem'.mute = mem.mute, mem'.unmute = mem.unmute
    PROVE  /\ Groups' = Groups /\ roster' = roster /\ muted' = muted /\ gdir' = gdir
           /\ \A g : Loop(g)' = Loop(g) /\ Ahead(g)' = Ahead(g)
           /\ Agreed => Agreed'
<1>1. Groups' = Groups /\ roster' = roster /\ muted' = muted /\ gdir' = gdir
  BY DEF grouped, Groups
<1>2. \A g : Loop(g)' = Loop(g) /\ Ahead(g)' = Ahead(g)
  BY <1>1 DEF Loop, Ahead
<1>3. Dumping' = Dumping
  BY DEF Dumping
<1>4. Agreed => Agreed'
  BY <1>1, <1>2, <1>3 DEF Agreed, Switched
<1> QED
  BY <1>1, <1>2, <1>4

LEMMA LibraryOrderly ==
    ASSUME FInv, Orderly, LibraryStep
    PROVE  Orderly'
<1>1. PICK f \in Factor, e \in Entry : Library(f, e)
  BY LibraryWrites
<1>2. lib' = [lib EXCEPT ![f] = e] /\ job' = job /\ mem' = mem /\ single' = single
      /\ roster' = roster /\ muted' = muted /\ gdir' = gdir /\ Groups' = Groups
  BY <1>1 DEF Library, singled, grouped, Groups
<1>3. job \in {"idle", "freeze", "create", "retire"} \/ Quiet' = Quiet \ {f}
  BY <1>1, <1>2 DEF Library, Quiet
<1>4. \A h \in Factor \ {f} : lib'[h] = lib[h]
  BY <1>2 DEF FInv, IInv, Tables
<1>5. /\ \A g : Loop(g)' = Loop(g) /\ Ahead(g)' = Ahead(g)
      /\ InLoop' = InLoop /\ Dumping' = Dumping /\ Members' = Members /\ Switched' = Switched
      /\ Refreshing' = Refreshing /\ Syncing' = Syncing
  BY <1>2 DEF Loop, Ahead, InLoop, Dumping, Members, Switched, Refreshing, Syncing
<1>6. Agreed' /\ Homes'
  BY <1>2, <1>5 DEF Orderly, Agreed, Homes
<1>7. Pending'
  BY <1>2, <1>5 DEF Orderly, Pending
<1>8. Settled'
  <2>1. CASE job \in {"idle", "freeze", "create", "retire"}
    BY <1>2, <2>1 DEF Settled, Syncing, Admitting
  <2>2. CASE Quiet' = Quiet \ {f}
    <3> SUFFICES ASSUME Syncing \/ job = "run", NEW g \in Groups, g \notin mem.todo \/ Loop(g),
                        NEW h \in roster[g]
                 PROVE  /\ h \in mem.active \cap Ahead(g) =>
                               h \in single \/ (Loop(g) /\ h \in mem.demote \cup mem.who)
                        /\ h \in Quiet' \ Ahead(g) => gdir[g].code[h] = lib'[h].live
      BY <1>2, <1>5 DEF Settled
    <3>1. h \in Factor
      BY TypedNow DEF Groups
    <3> QED
      BY <1>4, <2>2, <3>1 DEF Orderly, Settled
  <2> QED
    BY <1>3, <2>1, <2>2
<1> QED
  BY <1>6, <1>7, <1>8 DEF Orderly

LEMMA SyncStartOrderly ==
    ASSUME FInv, Orderly, SyncStart
    PROVE  Orderly'
<1>1. /\ job = "idle" /\ job' = "groups" /\ mem'.singles = single /\ mem'.todo = Groups
      /\ mem'.who = {} /\ UNCHANGED <<library, grouped, singled>>
  BY DEF SyncStart, To, Blank
<1>2. ~InLoop /\ ~InLoop' /\ single' = single /\ Groups' = Groups
  BY <1>1 DEF InLoop, Admitting, singled, grouped, Groups
<1>3. Agreed' /\ Homes'
  BY <1>1, <1>2, OutsideKeeps DEF Orderly
<1>4. Settled'
  BY <1>1, <1>2 DEF Settled, Loop
<1>5. Pending'
  BY <1>1, <1>2 DEF Pending, Switched, Refreshing, Admitting
<1> QED
  BY <1>3, <1>4, <1>5 DEF Orderly

\* The loop enters a group: what it decides, from what the group is.
LEMMA CompareOrderly ==
    ASSUME FInv, Orderly, NEW g \in Gid, Compare(g)
    PROVE  Orderly'
<1> DEFINE drifted == DriftedLegs(g)
           wanted == (roster[g] \ mem.active) \cup drifted
           back == (muted[g] \ wanted) \cap mem.active
<1>1. /\ job = "groups" /\ job' = "legs" /\ g \in mem.todo
      /\ mem'.g = g /\ mem'.on = gdir[g].on /\ mem'.demote = Demoted(drifted)
      /\ mem'.mute = wanted \ muted[g] /\ mem'.unmute = back
      /\ mem'.active = mem.active /\ mem'.singles = mem.singles /\ mem'.todo = mem.todo
      /\ mem'.who = mem.who
      /\ UNCHANGED <<library, grouped, singled>> /\ touched' = touched
  BY TypedNow DEF Compare, To, Memory
<1>2. /\ roster' = roster /\ muted' = muted /\ gdir' = gdir /\ lib' = lib /\ single' = single
      /\ Groups' = Groups /\ Quiet' = Quiet /\ Quiet \subseteq mem.active
  BY <1>1 DEF grouped, library, singled, Groups, Quiet
<1>3. g \in Groups /\ mem.who = {} /\ single \subseteq mem.singles
  BY <1>1, TypedNow DEF FInv, IInv, Converging, Admitting, Syncing
<1>4. muted[g] \subseteq roster[g] /\ gdir[g].on = roster[g] \ muted[g]
  BY <1>1, <1>3 DEF FInv, IInv, Tables, Orderly, Agreed, Loop, InLoop, Admitting
<1>5. drifted \subseteq roster[g] \cap mem.active
      /\ \A f \in (roster[g] \cap mem.active) \ drifted : gdir[g].code[f] = lib[f].live
  BY DEF DriftedLegs, Drifted
<1>6. \A h : (Loop(h)' <=> h = g) /\ ~Loop(h) /\ Ahead(h) = muted[h]
  BY <1>1 DEF Loop, Ahead, InLoop, Admitting
<1>7. \A h : h # g => Ahead(h)' = muted[h]
  BY <1>2, <1>6 DEF Ahead
<1>8. Ahead(g)' = wanted /\ Demoted(drifted) = drifted \ mem.singles
      /\ Dumping' = roster[g] \ wanted
  <2>1. Ahead(g)' = (muted[g] \cup (wanted \ muted[g])) \ back
    BY <1>1, <1>2, <1>6 DEF Ahead
  <2>2. Dumping' = (gdir[g].on \ (wanted \ muted[g])) \cup back
    BY <1>1 DEF Dumping
  <2> QED
    BY <1>4, <2>1, <2>2, <1>5 DEF Demoted
<1>9. ~Switched' /\ ~Switched /\ InLoop' /\ job' # "retire" /\ job # "retire"
  BY <1>1 DEF Switched, InLoop
<1> HIDE DEF drifted, wanted
<1>10. Agreed'
  BY <1>1, <1>2, <1>6, <1>8 DEF Agreed, Orderly
<1>11. Homes'
  <2> SUFFICES ASSUME NEW h \in Groups, NEW f \in single \cap roster[h]
               PROVE  f \in Ahead(h)' \/ (h = g /\ f \in back)
    BY <1>1, <1>2, <1>6, <1>9 DEF Homes
  <2>1. f \in muted[h]
    BY <1>6, <1>9 DEF Orderly, Homes
  <2>2. CASE h # g
    BY <1>7, <2>1, <2>2
  <2>3. CASE h = g
    BY <1>4, <1>8, <2>1, <2>3 DEF wanted
  <2> QED
    BY <2>2, <2>3
<1>12. Settled'
  <2> SUFFICES ASSUME NEW h \in Groups, h \notin mem.todo \/ h = g, NEW f \in roster[h]
               PROVE  /\ f \in mem.active \cap Ahead(h)' =>
                             f \in single \/ (h = g /\ f \in Demoted(drifted))
                      /\ f \in Quiet \ Ahead(h)' => gdir[h].code[f] = lib[f].live
    BY <1>1, <1>2, <1>6 DEF Settled
  <2>1. CASE h # g
    BY <1>1, <1>6, <1>7, <2>1 DEF Orderly, Settled, Syncing
  <2>2. CASE h = g
    <3>1. mem.singles \subseteq single
      BY <1>1, <1>3 DEF Orderly, Pending
    <3> QED
      BY <1>2, <1>5, <1>8, <2>2, <3>1 DEF wanted
  <2> QED
    BY <2>1, <2>2
<1>13. Pending'
  <2>1. Demoted(drifted) \subseteq roster[g] \cap wanted
    BY <1>5, <1>8 DEF wanted
  <2> QED
    BY <1>1, <1>2, <1>3, <1>8, <1>9, <2>1 DEF Orderly, Pending, Refreshing, Admitting
<1> QED
  BY <1>10, <1>11, <1>12, <1>13 DEF Orderly

LEMMA GroupsDoneOrderly ==
    ASSUME FInv, Orderly, GroupsDone
    PROVE  Orderly'
<1>1. /\ job = "groups" /\ job' = "singles" /\ mem.todo = {} /\ mem'.todo = {}
      /\ mem'.left = single /\ mem'.who = mem.who /\ mem'.active = mem.active
      /\ UNCHANGED <<library, grouped, singled>> /\ touched' = touched
  BY TypedNow DEF GroupsDone, To, Memory
<1>2. ~InLoop /\ ~InLoop' /\ single' = single /\ lib' = lib /\ mem.who = {}
  BY <1>1, TypedNow DEF InLoop, Admitting, singled, library
<1>3. Agreed' /\ Homes'
  BY <1>1, <1>2, OutsideKeeps DEF Orderly
<1>4. Settled'
  BY <1>1, <1>2, OutsideSettled DEF Orderly, Syncing
<1>5. Pending'
  BY <1>1, <1>2 DEF Pending, Switched, Refreshing, Admitting
<1> QED
  BY <1>3, <1>4, <1>5 DEF Orderly

LEMMA DemoteOrderly ==
    ASSUME FInv, Orderly, NEW f \in Factor, Demote(f)
    PROVE  Orderly'
<1>1. /\ job = "legs" /\ job' = "clear" /\ mem'.back = "legs" /\ f \in mem.demote
      /\ mem'.g = mem.g /\ mem'.on = mem.on /\ mem'.mute = mem.mute /\ mem'.unmute = mem.unmute
      /\ mem'.active = mem.active /\ mem'.todo = mem.todo
      /\ mem'.demote = mem.demote \ {f} /\ mem'.who = {f} /\ mem'.singles = mem.singles \cup {f}
      /\ UNCHANGED <<library, grouped, singled>> /\ touched' = touched
  BY TypedNow DEF Demote, ToAdmit, To, Memory
<1>2. /\ InLoop /\ InLoop' /\ ~Switched /\ ~Switched' /\ mem.who = {}
      /\ single' = single /\ lib' = lib /\ Quiet' = Quiet /\ Syncing
      /\ job # "retire" /\ job' # "retire"
  BY <1>1, TypedNow DEF InLoop, Switched, Admitting, singled, library, Quiet, Syncing
<1>3. /\ Groups' = Groups /\ roster' = roster /\ muted' = muted /\ gdir' = gdir
      /\ (\A g : Loop(g)' = Loop(g) /\ Ahead(g)' = Ahead(g)) /\ Agreed'
  BY <1>1, <1>2, InsideSame DEF Orderly
<1>4. Homes'
  BY <1>1, <1>2, <1>3 DEF Orderly, Homes
<1>5. Settled'
  BY <1>1, <1>2, <1>3 DEF Orderly, Settled
<1>6. Pending'
  BY <1>1, <1>2, <1>3 DEF Orderly, Pending, Refreshing, Admitting
<1> QED
  BY <1>3, <1>4, <1>5, <1>6 DEF Orderly

LEMMA PromoteOrderly ==
    ASSUME FInv, Orderly, NEW f \in Factor, Promote(f)
    PROVE  Orderly'
<1>1. /\ job = "legs" /\ job' = "legs" /\ f \in mem.unmute /\ mem.demote = {}
      /\ mem'.g = mem.g /\ mem'.on = mem.on /\ mem'.mute = mem.mute /\ mem'.unmute = mem.unmute
      /\ mem'.active = mem.active /\ mem'.todo = mem.todo
      /\ mem'.demote = mem.demote /\ mem'.who = mem.who /\ mem'.singles = mem.singles \ {f}
      /\ UNCHANGED <<library, grouped>> /\ touched' = touched /\ single' = single \ {f}
  BY TypedNow DEF Promote, To, Memory
<1>2. /\ InLoop /\ InLoop' /\ ~Switched /\ ~Switched' /\ mem.who = {}
      /\ lib' = lib /\ Quiet' = Quiet /\ Syncing /\ Syncing'
      /\ job # "retire" /\ job' # "retire"
  BY <1>1, TypedNow DEF InLoop, Switched, Admitting, library, Quiet, Syncing
<1>3. /\ Groups' = Groups /\ roster' = roster /\ muted' = muted /\ gdir' = gdir
      /\ (\A g : Loop(g)' = Loop(g) /\ Ahead(g)' = Ahead(g)) /\ Agreed'
  BY <1>1, <1>2, InsideSame DEF Orderly
<1>4. Homes'
  BY <1>1, <1>2, <1>3 DEF Orderly, Homes
\* f is on the roster of this group alone, and is to be a leg of it again.
<1>5. \A g \in Groups : f \in roster[g] => g = mem.g /\ f \notin Ahead(g)
  <2>1. mem.g \in Gid /\ f \in roster[mem.g]
    BY <1>1, <1>2, TypedNow DEF Memory, FInv, IInv, Converging
  <2>2. \A g \in Groups : f \in roster[g] => g = mem.g
    BY <2>1, TypedNow DEF OneGroup, Groups
  <2>3. f \notin Ahead(mem.g)
    BY <1>1, <1>2 DEF Ahead, Loop
  <2> QED
    BY <2>2, <2>3
<1>6. Settled'
  <2> SUFFICES ASSUME NEW g \in Groups, g \notin mem.todo \/ Loop(g), NEW h \in roster[g]
               PROVE  /\ h \in mem.active \cap Ahead(g) =>
                             h \in single \ {f} \/ (Loop(g) /\ h \in mem.demote \cup mem.who)
                      /\ h \in Quiet \ Ahead(g) => gdir[g].code[h] = lib[h].live
    BY <1>1, <1>2, <1>3 DEF Settled
  <2> QED
    BY <1>2, <1>5 DEF Orderly, Settled
<1>7. Pending'
  BY <1>1, <1>2, <1>3 DEF Orderly, Pending, Refreshing, Admitting
<1> QED
  BY <1>3, <1>4, <1>6, <1>7 DEF Orderly

\* The muted flags are written, first those set and then those cleared.
LEMMA MuteOrderly ==
    ASSUME FInv, Orderly, Mute \/ Unmute
    PROVE  Orderly'
<1> DEFINE now == IF job = "legs" THEN muted[mem.g] \cup mem.mute ELSE muted[mem.g] \ mem.unmute
<1>1. /\ job \in {"legs", "unmute"} /\ mem' = mem /\ touched' = touched
      /\ job = "legs" => job' = "unmute" /\ mem.demote = {} /\ mem.unmute \cap mem.singles = {}
      /\ job = "unmute" => job' = "save"
      /\ muted' = [muted EXCEPT ![mem.g] = now]
      /\ UNCHANGED <<library, roster, gdir, singled>>
  BY DEF Mute, Unmute, SetMuted, To
<1>2. /\ InLoop /\ InLoop' /\ Switched' /\ mem.who = {} /\ mem.g \in Gid
      /\ lib' = lib /\ single' = single /\ roster' = roster /\ gdir' = gdir
      /\ Groups' = Groups /\ Quiet' = Quiet /\ Syncing /\ single \subseteq mem.singles
      /\ job # "retire" /\ job' # "retire"
  BY <1>1, TypedNow DEF InLoop, Switched, Admitting, library, singled, Quiet, Syncing,
     Groups, Memory
<1>3. \A g \in Gid : muted'[g] = IF g = mem.g THEN now ELSE muted[g]
  BY <1>1, <1>2, TypedNow
<1>4. job = "unmute" => mem.mute \subseteq muted[mem.g] \/ mem.g \notin Groups
  BY <1>2 DEF Orderly, Agreed, Loop
<1>5. \A g \in Groups : (Loop(g)' <=> g = mem.g) /\ (Loop(g) <=> g = mem.g) /\ Ahead(g)' = Ahead(g)
  <2> SUFFICES ASSUME NEW g \in Groups
               PROVE  (Loop(g)' <=> g = mem.g) /\ (Loop(g) <=> g = mem.g) /\ Ahead(g)' = Ahead(g)
    OBVIOUS
  <2>1. (Loop(g)' <=> g = mem.g) /\ (Loop(g) <=> g = mem.g)
    BY <1>1, <1>2 DEF Loop
  <2>2. g \in Gid
    BY DEF Groups
  <2> QED
    BY <1>1, <1>3, <2>1, <2>2 DEF Ahead
<1>6. Dumping' = Dumping
  BY <1>1 DEF Dumping
<1>7. Agreed'
  <2> SUFFICES ASSUME NEW g \in Groups
               PROVE  IF g = mem.g
                      THEN /\ gdir[g].on = mem.on /\ Dumping = roster[g] \ Ahead(g)
                           /\ job' = "unmute" => mem.mute \subseteq muted'[g]
                           /\ job' = "save" => muted'[g] = Ahead(g)
                      ELSE gdir[g].on = roster[g] \ muted'[g]
    BY <1>1, <1>2, <1>5, <1>6 DEF Agreed
  <2>1. g \in Gid
    BY DEF Groups
  <2>2. job' = "unmute" /\ g = mem.g => mem.mute \subseteq muted'[g]
    BY <1>1, <1>3, <2>1
  <2>3. job' = "save" /\ g = mem.g => muted'[g] = Ahead(g)
    BY <1>1, <1>3, <1>4, <1>5, <2>1 DEF Ahead
  <2> QED
    BY <1>3, <1>5, <2>1, <2>2, <2>3 DEF Orderly, Agreed
<1>8. Homes'
  BY <1>1, <1>2, <1>5 DEF Orderly, Homes, Switched
<1>9. Settled'
  BY <1>1, <1>2, <1>5 DEF Orderly, Settled
<1>10. Pending'
  <2>1. mem.demote = {}
    BY <1>1 DEF Orderly, Pending, Switched
  <2> QED
    BY <1>1, <1>2, <2>1 DEF Orderly, Pending, Refreshing, Admitting
<1> QED
  BY <1>7, <1>8, <1>9, <1>10 DEF Orderly

\* group.xml is written, when anything changed, and the loop leaves the group.
LEMMA SaveXmlOrderly ==
    ASSUME FInv, Orderly, SaveXml
    PROVE  Orderly'
<1> DEFINE on == IF mem.mute \cup mem.unmute = {} THEN gdir[mem.g].on ELSE Dumping
<1>1. /\ job = "save" /\ job' = "groups" /\ mem'.active = mem.active
      /\ mem'.singles = mem.singles /\ mem'.todo = mem.todo \ {mem.g} /\ mem'.who = {}
      /\ gdir' = [gdir EXCEPT ![mem.g].on = on]
      /\ UNCHANGED <<library, roster, muted, singled>> /\ touched' = touched
  BY DEF SaveXml, To, Blank
<1>2. /\ InLoop /\ ~InLoop' /\ Switched /\ ~Switched' /\ mem.who = {} /\ mem.g \in Gid
      /\ lib' = lib /\ single' = single /\ roster' = roster /\ muted' = muted
      /\ Groups' = Groups /\ Quiet' = Quiet /\ Syncing
      /\ job # "retire" /\ job' # "retire"
  BY <1>1, TypedNow DEF InLoop, Switched, Admitting, library, singled, Quiet, Syncing,
     Groups, Memory
<1>3. \A g \in Groups : /\ gdir'[g].on = IF g = mem.g THEN on ELSE gdir[g].on
                        /\ gdir'[g].code = gdir[g].code
  BY <1>1, <1>2, TypedNow DEF Groups
<1>4. \A g \in Groups : /\ ~Loop(g)' /\ (Loop(g) <=> g = mem.g)
                        /\ Ahead(g)' = Ahead(g) /\ Ahead(g) = muted[g]
  <2> SUFFICES ASSUME NEW g \in Groups
               PROVE  /\ ~Loop(g)' /\ (Loop(g) <=> g = mem.g)
                      /\ Ahead(g)' = Ahead(g) /\ Ahead(g) = muted[g]
    OBVIOUS
  <2>1. ~Loop(g)' /\ (Loop(g) <=> g = mem.g)
    BY <1>2 DEF Loop
  <2>2. Ahead(g) = muted[g]
    BY <1>1, <2>1 DEF Orderly, Agreed, Ahead
  <2> QED
    BY <1>2, <2>1, <2>2 DEF Ahead
<1>5. mem.g \in Groups => on = roster[mem.g] \ muted[mem.g]
  <2> SUFFICES ASSUME mem.g \in Groups
               PROVE  on = roster[mem.g] \ muted[mem.g]
    OBVIOUS
  <2>1. gdir[mem.g].on = mem.on /\ Dumping = roster[mem.g] \ muted[mem.g]
    BY <1>4 DEF Orderly, Agreed
  <2>2. mem.mute \cup mem.unmute = {} => Dumping = mem.on
    BY DEF Dumping
  <2> QED
    BY <2>1, <2>2
<1> HIDE DEF on
<1>6. Agreed'
  <2> SUFFICES ASSUME NEW g \in Groups
               PROVE  gdir'[g].on = roster[g] \ muted[g]
    BY <1>2, <1>4 DEF Agreed
  <2>1. CASE g = mem.g
    BY <1>3, <1>5, <2>1
  <2>2. CASE g # mem.g
    BY <1>3, <1>4, <2>2 DEF Orderly, Agreed
  <2> QED
    BY <2>1, <2>2
<1>7. Homes'
  BY <1>1, <1>2, <1>4 DEF Orderly, Homes
<1>8. mem.demote = {}
  BY <1>2 DEF Orderly, Pending
<1>9. Settled'
  <2> SUFFICES ASSUME NEW g \in Groups, g \notin mem.todo \/ g = mem.g, NEW h \in roster[g]
               PROVE  /\ h \in mem.active \cap Ahead(g) => h \in single
                      /\ h \in Quiet \ Ahead(g) => gdir[g].code[h] = lib[h].live
    BY <1>1, <1>2, <1>3, <1>4 DEF Settled
  <2> QED
    BY <1>2, <1>4, <1>8 DEF Orderly, Settled
<1>10. Pending'
  BY <1>1, <1>2 DEF Orderly, Pending, Refreshing, Admitting
<1> QED
  BY <1>6, <1>7, <1>9, <1>10 DEF Orderly

LEMMA AdmitOrderly ==
    ASSUME FInv, Orderly, Admit, ~interrupted'
    PROVE  Orderly'
<1>1. PICK f \in Factor : AdmitClear(f) \/ AdmitCopy(f) \/ AdmitXml(f) \/ AdmitRegister(f)
  BY DEF Admit
<1>2. /\ job \in Admitting /\ mem.who = {f} /\ mem.back \in {"legs", "singles", "names"}
      /\ ~Switched /\ Syncing /\ job # "retire" /\ (InLoop <=> mem.back = "legs")
  BY <1>1 DEF AdmitClear, AdmitCopy, AdmitXml, AdmitRegister, Admitting, FInv, IInv,
     Known, Converging, Switched, Syncing, InLoop
<1>3. UNCHANGED <<library, grouped>> /\ touched' = touched /\ lib' = lib /\ ~Abort
  BY <1>1 DEF AdmitClear, AdmitCopy, AdmitXml, AdmitRegister, Abort, To, library, FInv, IInv,
     Converging, Known, Admitting
<1>4. CASE ~AdmitRegister(f)
  <2>1. /\ job' \in Admitting /\ mem' = mem /\ single' = single
    BY <1>1, <1>3, <1>4 DEF AdmitClear, AdmitCopy, AdmitXml, To, Admitting
  <2>2. /\ Groups' = Groups /\ roster' = roster /\ muted' = muted /\ gdir' = gdir /\ Quiet' = Quiet
        /\ ~Switched' /\ Syncing' /\ job' # "retire" /\ (InLoop' <=> InLoop) /\ Members' = Members
        /\ job # "groups" /\ job' # "groups" /\ job # "singles" /\ job' # "singles"
    BY <1>2, <1>3, <2>1 DEF grouped, Groups, Quiet, Switched, Syncing, InLoop, Admitting,
       Members
  <2>3. /\ \A g : Loop(g)' = Loop(g) /\ Ahead(g)' = Ahead(g)
        /\ Dumping' = Dumping /\ Refreshing' = Refreshing
    BY <1>2, <2>1, <2>2 DEF Loop, Ahead, Dumping, Refreshing, Admitting
  <2>4. Agreed' /\ Homes'
    BY <1>2, <2>1, <2>2, <2>3 DEF Orderly, Agreed, Homes, Switched
  <2>5. Settled'
    BY <1>2, <1>3, <2>1, <2>2, <2>3 DEF Orderly, Settled
  <2>6. Pending'
    BY <1>2, <2>1, <2>2, <2>3 DEF Orderly, Pending
  <2> QED
    BY <2>4, <2>5, <2>6 DEF Orderly
<1>5. CASE AdmitRegister(f)
  <2>1. /\ job' = mem.back /\ single' = single \cup {f} /\ mem'.who = {}
        /\ mem'.g = mem.g /\ mem'.on = mem.on /\ mem'.mute = mem.mute /\ mem'.unmute = mem.unmute
        /\ mem'.singles = mem.singles /\ mem'.left = mem.left /\ mem'.demote = mem.demote
        /\ mem'.active = mem.active /\ mem'.todo = mem.todo
    BY <1>2, <1>5, TypedNow DEF AdmitRegister, To, Memory
  <2>2. ~Switched' /\ Syncing' /\ job' # "retire" /\ job' \notin Admitting
        /\ Quiet' = Quiet /\ (InLoop' <=> InLoop) /\ job' # "groups"
    BY <1>2, <1>3, <2>1 DEF Switched, Syncing, InLoop, Admitting, Quiet
  <2>3. CASE InLoop
    <3>1. /\ Groups' = Groups /\ roster' = roster /\ muted' = muted /\ gdir' = gdir
          /\ (\A g : Loop(g)' = Loop(g) /\ Ahead(g)' = Ahead(g)) /\ Agreed'
      BY <1>2, <1>3, <2>1, <2>2, <2>3, InsideSame DEF Orderly
    <3>2. f \in roster[mem.g] \cap Ahead(mem.g) /\ mem.g \in Gid
      BY <1>2, <2>3, TypedNow DEF Orderly, Pending, Memory
    <3>3. \A g \in Groups : f \in roster[g] => f \in Ahead(g)
      BY <3>2, TypedNow DEF OneGroup, Groups
    <3>4. Homes'
      BY <1>2, <2>1, <2>2, <3>1, <3>3 DEF Orderly, Homes
    <3>5. Settled'
      BY <1>2, <1>3, <2>1, <2>2, <3>1 DEF Orderly, Settled
    <3>6. Pending'
      BY <1>2, <2>1, <2>2, <2>3, <3>1 DEF Orderly, Pending, Refreshing
    <3> QED
      BY <3>1, <3>4, <3>5, <3>6 DEF Orderly
  <2>4. CASE ~InLoop
    <3>1. f \notin Members \/ f \in single
      BY <1>2, <2>4 DEF Orderly, Pending
    <3>2. Agreed' /\ Homes'
      BY <1>2, <1>3, <2>1, <2>2, <2>4, <3>1, OutsideKeeps DEF Orderly
    <3>3. Settled'
      BY <1>2, <1>3, <2>1, <2>2, <2>4, OutsideSettled DEF Orderly
    <3>4. Pending'
      BY <1>2, <2>1, <2>2, <2>4 DEF Orderly, Pending, Refreshing
    <3> QED
      BY <3>2, <3>3, <3>4 DEF Orderly
  <2> QED
    BY <2>3, <2>4
<1> QED
  BY <1>4, <1>5

\* A job that ends, or does not sync, has nothing pending.
LEMMA RestOrderly ==
    ASSUME FInv, Orderly, UNCHANGED grouped, ~InLoop, single' \cap Members \subseteq single,
           job' \in {"idle", "freeze", "create"}, job # "retire" \/ mem.left = {}
    PROVE  Orderly'
<1>1. ~InLoop' /\ ~Switched' /\ job' \notin Admitting
  BY DEF InLoop, Switched, Admitting
<1>2. Groups' = Groups /\ roster' = roster /\ muted' = muted /\ gdir' = gdir
  BY DEF grouped, Groups
<1>3. \A g : ~Loop(g) /\ ~Loop(g)' /\ Ahead(g) = muted[g] /\ Ahead(g)' = muted[g]
  BY <1>1, <1>2 DEF Loop, Ahead
<1>4. Agreed'
  BY <1>2, <1>3 DEF Orderly, Agreed
<1>5. Homes'
  <2> SUFFICES ASSUME NEW g \in Groups, NEW f \in single' \cap roster[g]
               PROVE  f \in muted[g]
    BY <1>2, <1>3 DEF Homes
  <2>1. f \in single
    BY DEF Members, Groups
  <2> QED
    BY <1>3, <2>1 DEF Orderly, Homes
<1>6. Settled' /\ Pending'
  BY <1>1 DEF Settled, Pending, Syncing, Refreshing
<1> QED
  BY <1>4, <1>5, <1>6 DEF Orderly

LEMMA SinglesOrderly ==
    ASSUME FInv, Orderly, Singles
    PROVE  Orderly'
<1>1. CASE SinglesDone
  <2>1. /\ job = "singles" /\ job' = "names" /\ mem' = mem /\ single' = single
        /\ lib' = lib /\ touched' = touched /\ UNCHANGED grouped
    BY <1>1 DEF SinglesDone, To, library, singled
  <2>2. ~InLoop /\ ~InLoop' /\ ~Switched' /\ mem.who = {}
    BY <2>1, TypedNow DEF InLoop, Switched, Admitting
  <2>3. Agreed' /\ Homes'
    BY <2>1, <2>2, OutsideKeeps DEF Orderly, Members
  <2>4. Settled'
    BY <2>1, <2>2, OutsideSettled DEF Orderly, Syncing
  <2>5. Pending'
    BY <2>1, <2>2 DEF Orderly, Pending, Refreshing, Admitting
  <2> QED
    BY <2>3, <2>4, <2>5 DEF Orderly
<1>2. CASE NamesDone /\ job' = "run"
  <2>1. /\ job = "names" /\ mem' = [mem EXCEPT !.singles = {}] /\ single' = single
        /\ lib' = lib /\ touched' = touched /\ UNCHANGED grouped
        /\ job' = "run" /\ mem'.active = mem.active /\ mem'.todo = mem.todo /\ mem'.who = mem.who
    BY <1>2, TypedNow DEF NamesDone, To, library, singled, Memory
  <2>2. ~InLoop /\ ~InLoop' /\ ~Switched' /\ mem.who = {}
    BY <2>1, TypedNow DEF InLoop, Switched, Admitting
  <2>3. Agreed' /\ Homes'
    BY <2>1, <2>2, OutsideKeeps DEF Orderly, Members
  <2>4. Settled'
    BY <2>1, <2>2, OutsideSettled DEF Orderly, Syncing
  <2>5. Pending'
    BY <2>1, <2>2 DEF Orderly, Pending, Refreshing, Admitting
  <2> QED
    BY <2>3, <2>4, <2>5 DEF Orderly
<1>3. CASE (NamesDone /\ job' # "run") \/ Finish
  <2>1. job \in {"names", "run"} /\ job' = "idle" /\ single' = single /\ UNCHANGED grouped
    BY <1>3 DEF NamesDone, Finish, To, singled
  <2>2. ~InLoop
    BY <2>1 DEF InLoop, Admitting
  <2> QED
    BY <2>1, <2>2, RestOrderly
<1>4. ASSUME NEW f \in Factor, SingleLeaves(f) \/ SingleStays(f)
      PROVE  Orderly'
  <2>1. /\ job = "singles" /\ job' = "singles" /\ single' \in {single, single \ {f}}
        /\ f \in mem.active => single' = single
        /\ mem'.left = mem.left \ {f} /\ mem'.who = mem.who /\ mem'.todo = mem.todo
        /\ mem'.active = mem.active /\ lib' = lib /\ touched' = touched /\ UNCHANGED grouped
    BY <1>4, TypedNow DEF SingleLeaves, SingleStays, To, library, singled, Memory
  <2>2. ~InLoop /\ ~InLoop' /\ ~Switched' /\ mem.who = {}
    BY <2>1, TypedNow DEF InLoop, Switched, Admitting
  <2>3. Agreed' /\ Homes'
    BY <2>1, <2>2, OutsideKeeps DEF Orderly, Members
  <2>4. Settled'
    BY <2>1, <2>2, OutsideSettled DEF Orderly, Syncing
  <2>5. Pending'
    BY <2>1, <2>2 DEF Orderly, Pending, Refreshing, Admitting
  <2> QED
    BY <2>3, <2>4, <2>5 DEF Orderly
<1>5. ASSUME NEW f \in Factor, SingleRefresh(f)
      PROVE  Orderly'
  <2>1. /\ job = "singles" /\ job' = "clear" /\ single' = single /\ f \in mem.left
        /\ mem'.left = mem.left \ {f} /\ mem'.who = {f} /\ mem'.back = "singles"
        /\ mem'.todo = mem.todo
        /\ mem'.active = mem.active /\ lib' = lib /\ touched' = touched /\ UNCHANGED grouped
    BY <1>5, TypedNow DEF SingleRefresh, ToAdmit, To, library, Memory
  <2>2. ~InLoop /\ ~InLoop' /\ ~Switched' /\ mem.who = {}
    BY <2>1, TypedNow DEF InLoop, Switched, Admitting
  <2>3. Agreed' /\ Homes'
    BY <2>1, <2>2, OutsideKeeps DEF Orderly, Members
  <2>4. Settled'
    BY <2>1, <2>2, OutsideSettled DEF Orderly, Syncing
  <2>5. Pending'
    BY <2>1, <2>2 DEF Orderly, Pending, Refreshing, Admitting
  <2> QED
    BY <2>3, <2>4, <2>5 DEF Orderly
<1>6. ASSUME NEW f \in Factor, Name(f)
      PROVE  Orderly'
  <2>1. /\ job = "names" /\ job' = "clear" /\ single' = single /\ f \notin Members
        /\ mem'.who = {f} /\ mem'.back = "names" /\ mem'.todo = mem.todo
        /\ mem'.active = mem.active /\ lib' = lib /\ touched' = touched /\ UNCHANGED grouped
        /\ Members' = Members
    BY <1>6, TypedNow DEF Name, ToAdmit, To, library, singled, Memory, grouped, Members
  <2>2. ~InLoop /\ ~InLoop' /\ ~Switched' /\ mem.who = {}
    BY <2>1, TypedNow DEF InLoop, Switched, Admitting
  <2>3. Agreed' /\ Homes'
    BY <2>1, <2>2, OutsideKeeps DEF Orderly, Members
  <2>4. Settled'
    BY <2>1, <2>2, OutsideSettled DEF Orderly, Syncing
  <2>5. Pending'
    BY <2>1, <2>2 DEF Orderly, Pending, Refreshing, Admitting
  <2> QED
    BY <2>3, <2>4, <2>5 DEF Orderly
<1>7. ASSUME NEW f \in Factor, RunSingle(f)
      PROVE  Orderly'
  <2>1. /\ job = "run" /\ job' = "run" /\ mem' = mem /\ single' = single
        /\ lib' = lib /\ touched' = touched /\ UNCHANGED grouped
    BY <1>7 DEF RunSingle, library
  <2>2. ~InLoop /\ ~InLoop' /\ ~Switched' /\ mem.who = {}
    BY <2>1, TypedNow DEF InLoop, Switched, Admitting
  <2>3. Agreed' /\ Homes'
    BY <2>1, <2>2, OutsideKeeps DEF Orderly, Members
  <2>4. Settled'
    BY <2>1, <2>2, OutsideSettled DEF Orderly, Syncing
  <2>5. Pending'
    BY <2>1, <2>2 DEF Orderly, Pending, Refreshing, Admitting
  <2> QED
    BY <2>3, <2>4, <2>5 DEF Orderly
<1> QED
  BY <1>1, <1>2, <1>3, <1>4, <1>5, <1>6, <1>7 DEF Singles

\* The bootstrap builds a group that is not on any roster, publishes it with all
\* legs dumping, and retires the singles of its members.
LEMMA BootstrapOrderly ==
    ASSUME FInv, Orderly, Bootstrap
    PROVE  Orderly'
<1>1. ASSUME NEW S \in SUBSET Factor, BootPlan(S)
      PROVE  Orderly'
  <2>1. job = "idle" /\ job' = "freeze" /\ single' = single /\ UNCHANGED grouped
    BY <1>1 DEF BootPlan, To, singled
  <2>2. ~InLoop
    BY <2>1 DEF InLoop, Admitting
  <2> QED
    BY <2>1, <2>2, RestOrderly
<1>2. CASE BootDone
  <2>1. job = "retire" /\ mem.left = {} /\ job' = "idle" /\ single' = single /\ UNCHANGED grouped
    BY <1>2 DEF BootDone, To, singled
  <2>2. ~InLoop
    BY <2>1 DEF InLoop, Admitting
  <2> QED
    BY <2>1, <2>2, RestOrderly
<1>3. ASSUME BootXml \/ \E f \in Factor : BootFreeze(f)
      PROVE  Orderly'
  <2>1. /\ job = "freeze" /\ job' \in {"idle", "freeze", "create"} /\ single' = single
        /\ roster' = roster /\ muted' = muted
        /\ \A g \in Gid \ {mem.g} : gdir'[g] = gdir[g]
    BY <1>3, TypedNow DEF BootXml, BootFreeze, To, singled
  <2>2. roster[mem.g] = {} /\ ~InLoop /\ ~InLoop' /\ ~Switched' /\ job' \notin Admitting
    BY <2>1 DEF FInv, IInv, Building, InLoop, Switched, Admitting
  <2>3. Groups' = Groups /\ \A g \in Groups : gdir'[g] = gdir[g]
    BY <2>1, <2>2 DEF Groups
  <2>4. \A g : ~Loop(g) /\ ~Loop(g)' /\ Ahead(g) = muted[g] /\ Ahead(g)' = muted[g]
    BY <2>1, <2>2 DEF Loop, Ahead
  <2>5. Agreed' /\ Homes'
    BY <2>1, <2>3, <2>4 DEF Orderly, Agreed, Homes
  <2>6. Settled' /\ Pending'
    BY <2>1, <2>2 DEF Settled, Pending, Syncing, Refreshing
  <2> QED
    BY <2>5, <2>6 DEF Orderly
<1>4. CASE BootCreate
  <2>1. /\ job = "create" /\ job' = "retire" /\ single' = single /\ muted' = muted /\ gdir' = gdir
        /\ roster' = [roster EXCEPT ![mem.g] = mem.active]
        /\ mem'.left = mem.active /\ mem'.g = mem.g
    BY <1>4, TypedNow DEF BootCreate, To, singled, Memory
  <2>2. /\ mem.g \in Gid /\ roster[mem.g] = {} /\ muted[mem.g] = {} /\ mem.active # {}
        /\ gdir[mem.g].on = mem.active
    BY <2>1, TypedNow DEF Memory, FInv, IInv, Tables, Building
  <2>3. ~InLoop /\ ~InLoop' /\ ~Switched' /\ job' \notin Admitting
    BY <2>1 DEF InLoop, Switched, Admitting
  <2>4. \A g : ~Loop(g) /\ ~Loop(g)' /\ Ahead(g) = muted[g] /\ Ahead(g)' = muted[g]
    BY <2>1, <2>3 DEF Loop, Ahead
  <2>5. \A g \in Groups' : /\ g = mem.g => roster'[g] = mem.active
                           /\ g # mem.g => g \in Groups /\ roster'[g] = roster[g]
    BY <2>1, <2>2, TypedNow DEF Groups
  <2>6. Agreed'
    <3> SUFFICES ASSUME NEW g \in Groups'
                 PROVE  gdir[g].on = roster'[g] \ muted[g]
      BY <2>1, <2>4 DEF Agreed
    <3> QED
      BY <2>2, <2>4, <2>5 DEF Orderly, Agreed
  <2>7. Homes'
    <3> SUFFICES ASSUME NEW g \in Groups', NEW f \in single \cap roster'[g]
                 PROVE  f \in muted[g] \/ (g = mem.g /\ f \in mem.active)
      BY <2>1, <2>4 DEF Homes
    <3> QED
      BY <2>1, <2>4, <2>5 DEF Orderly, Homes
  <2>8. Settled' /\ Pending'
    BY <2>1, <2>3 DEF Settled, Pending, Syncing, Refreshing
  <2> QED
    BY <2>6, <2>7, <2>8 DEF Orderly
<1>5. ASSUME NEW f \in Factor, BootRetire(f)
      PROVE  Orderly'
  <2>1. /\ job = "retire" /\ job' = "retire" /\ single' = single \ {f} /\ mem'.g = mem.g
        /\ mem'.left = mem.left \ {f} /\ UNCHANGED grouped
    BY <1>5, TypedNow DEF BootRetire, Retired, To, Memory
  <2>2. ~InLoop /\ ~InLoop' /\ ~Switched' /\ job' \notin Admitting
    BY <2>1 DEF InLoop, Switched, Admitting
  <2>3. Groups' = Groups /\ roster' = roster /\ muted' = muted /\ gdir' = gdir
    BY <2>1 DEF grouped, Groups
  <2>4. \A g : ~Loop(g) /\ ~Loop(g)' /\ Ahead(g) = muted[g] /\ Ahead(g)' = muted[g]
    BY <2>2, <2>3 DEF Loop, Ahead
  <2>5. Agreed' /\ Homes'
    BY <2>1, <2>3, <2>4 DEF Orderly, Agreed, Homes
  <2>6. Settled' /\ Pending'
    BY <2>1, <2>2 DEF Settled, Pending, Syncing, Refreshing
  <2> QED
    BY <2>5, <2>6 DEF Orderly
<1> QED
  BY <1>1, <1>2, <1>3, <1>4, <1>5 DEF Bootstrap

LEMMA InitHInv == Init => HInv
<1> SUFFICES ASSUME Init PROVE HInv
  OBVIOUS
<1>1. FInv
  BY InitIInv, BlankWho DEF FInv, Known, Compared, Syncing, Refreshing, Admitting, Init
<1>2. Groups = {} /\ job = "idle"
  BY DEF Init, Groups
<1>3. Orderly
  BY <1>2 DEF Orderly, Agreed, Homes, Settled, Pending, InLoop, Switched, Refreshing,
     Syncing, Admitting
<1> QED
  BY <1>1, <1>3 DEF HInv

LEMMA NextHInv == HInv /\ [Next]_vars => HInv'
<1> SUFFICES ASSUME HInv, [Next]_vars PROVE HInv'
  OBVIOUS
<1>1. FInv'
  BY NextFInv DEF HInv
<1> SUFFICES ASSUME ~interrupted' PROVE Orderly'
  BY <1>1 DEF HInv
<1>2. ~interrupted
  BY DEF HInv, FInv, IInv, Doing, Next, LibraryStep, Recall, Recalled, Overwrite, Pass,
     ArchiveRm,
     ArchiveMv, Library, SyncStart, Converge, GroupsDone, Mute, Unmute, SetMuted, SaveXml, Compare,
     Demote, Promote, Admit, AdmitClear, AdmitCopy, AdmitXml, AdmitRegister, Abort, Singles,
     SinglesDone, NamesDone, Finish, SingleLeaves, SingleRefresh, SingleStays, Name, RunSingle,
     Bootstrap, BootXml, BootCreate, BootDone, BootPlan, BootFreeze, BootRetire, Kill, vars
<1>3. FInv /\ Orderly
  BY <1>2 DEF HInv
<1>4. CASE LibraryStep \/ SyncStart \/ Admit \/ Singles \/ Bootstrap
  BY <1>3, <1>4, LibraryOrderly, SyncStartOrderly, AdmitOrderly, SinglesOrderly,
     BootstrapOrderly
<1>5. CASE Converge
  BY <1>3, <1>5, CompareOrderly, GroupsDoneOrderly, DemoteOrderly, PromoteOrderly, MuteOrderly,
     SaveXmlOrderly DEF Converge
<1>6. ~Kill
  BY DEF Kill
<1>7. CASE UNCHANGED vars
  BY <1>3, <1>7 DEF vars, Orderly, Agreed, Homes, Settled, Pending, Loop, Ahead, Switched,
     InLoop,
     Dumping, Groups, Quiet, Syncing, Refreshing, Members
<1> QED
  BY <1>4, <1>5, <1>6, <1>7 DEF Next

\* What a sync keeps in order as long as no job was interrupted.
THEOREM SyncInvariance == Spec => []HInv
<1> QED
  BY InitHInv, NextHInv, PTL DEF Spec

\* After a sync no factor is dumped from two homes (groups.py:177-181): the
\* promotion takes a leg that dumps again out of the registry of singles.
THEOREM HomesAreOne == Spec => []OneHome
<1>1. HInv => OneHome
  <2> SUFFICES ASSUME HInv, Synced, ~interrupted, NEW f \in single, NEW g \in InGroup(f)
               PROVE  FALSE
    BY DEF OneHome
  <2>1. ~InLoop /\ g \in Groups /\ f \in gdir[g].on /\ Orderly /\ job # "retire"
    BY DEF HInv, Synced, InLoop, Admitting, InGroup
  <2>2. ~Loop(g) /\ Ahead(g) = muted[g]
    BY <2>1 DEF Loop, Ahead
  <2> QED
    BY <2>1, <2>2 DEF Orderly, Agreed, Homes
<1> QED
  BY <1>1, SyncInvariance, PTL

\* After a sync the dump flags of every group.xml are the rosters' legs that PG
\* does not hold muted (groups.py:141-143, 183-190).
THEOREM GroupsConverged == Spec => []Converged
<1>1. HInv => Converged
  BY DEF HInv, Orderly, Agreed, Loop, InLoop, Synced, Admitting, Converged
<1> QED
  BY <1>1, SyncInvariance, PTL

\* After a sync every ACTIVE factor of a roster is a single or a leg that dumps
\* (groups.py:172-176).
THEOREM NobodyForgotten == Spec => []NoneForgotten
<1>1. HInv => NoneForgotten
  <2> SUFFICES ASSUME HInv, Synced, ~interrupted, NEW f \in mem.active \cap Members, f \notin single
               PROVE  InGroup(f) # {}
    BY DEF NoneForgotten
  <2>1. ~InLoop /\ Orderly /\ mem.todo = {} /\ (Syncing \/ job = "run")
    BY DEF HInv, Orderly, Pending, Refreshing, Synced, Syncing, InLoop, Admitting
  <2>2. PICK g \in Gid : f \in roster[g]
    BY DEF Members
  <2>3. g \in Groups /\ ~Loop(g) /\ Ahead(g) = muted[g]
    BY <2>1, <2>2 DEF Groups, Loop, Ahead
  <2>4. f \notin muted[g]
    BY <2>1, <2>2, <2>3 DEF Orderly, Settled
  <2> QED
    BY <2>1, <2>2, <2>3, <2>4 DEF Orderly, Agreed, InGroup
<1> QED
  BY <1>1, SyncInvariance, PTL

\* After a sync a leg that dumps has the code of alpha_src, unless the library
\* has moved the factor since (groups.py:166-170).
THEOREM LegsFresh == Spec => []FreshLegs
<1>1. HInv => FreshLegs
  <2> SUFFICES ASSUME HInv, Synced, ~interrupted, NEW f \in Quiet, NEW g \in InGroup(f)
               PROVE  gdir[g].code[f] = lib[f].live
    BY DEF FreshLegs
  <2>1. /\ ~InLoop /\ Orderly /\ mem.todo = {} /\ (Syncing \/ job = "run")
        /\ g \in Groups /\ f \in gdir[g].on
    BY DEF HInv, Orderly, Pending, Refreshing, Synced, Syncing, InLoop, Admitting, InGroup
  <2>2. ~Loop(g) /\ Ahead(g) = muted[g]
    BY <2>1 DEF Loop, Ahead
  <2>3. f \in roster[g] \ muted[g]
    BY <2>1, <2>2 DEF Orderly, Agreed
  <2> QED
    BY <2>1, <2>2, <2>3 DEF Orderly, Settled
<1> QED
  BY <1>1, SyncInvariance, PTL

=============================================================================
