------------------------------ MODULE Verdicts ------------------------------
(***************************************************************************)
(* The three judgements of the check pipeline that compute something:      *)
(* compliance over the dump of every day, correlation with the pnl pools,  *)
(* and the firewall that keeps a factor from reading the future.  Each is  *)
(* the code's loop, stepped; a behaviour runs one of them on one input     *)
(* (`judge` says which) and the properties compare what it concludes with  *)
(* a definition by sets.                                                   *)
(***************************************************************************)
EXTENDS Integers, Sequences, FiniteSets

CONSTANTS
    MaxDays,    \* bound: dump files of a history
    Tolerance,  \* violation_tolerance
    Rival,      \* names in the pools
    Self,       \* the name of the factor under check
    MaxRows,    \* bound: rows of a bcorr output
    Corr,       \* correlations that occur
    Threshold,  \* corr_threshold
    DataDays, DataTicks \* the size of the data array the firewall guards

ASSUME BoundsAssumption == {MaxDays, Tolerance, MaxRows, DataDays, DataTicks} \subseteq Nat
ASSUME NamesAssumption == Self \notin Rival
ASSUME CorrAssumption == Corr \subseteq Int /\ Threshold \in Int

VARIABLES judge, comp, corr, fire
vvars == <<judge, comp, corr, fire>>
Off == [at |-> "off"]

(***************************************************************************)
(* Compliance.  A file is one day: unreadable, invalid (empty, all NaN or  *)
(* no exposure), or valid.  A valid day is clean, breaks the share limit   *)
(* ("over"), the limit times hard_position_mult ("severe"), the limits on  *)
(* the number of stocks ("thin"), or holds an infinite weight: its share   *)
(* is NaN, which no comparison finds above a limit.                        *)
(***************************************************************************)
Valid == {"clean", "over", "severe", "thin", "inf"}
DayFile == Valid \cup {"unreadable", "invalid"}
Violates(d) == d \in {"over", "severe", "thin"}
FarOver(d) == d \in {"severe", "inf"}

CompStart ==
    /\ judge = "compliance"
    /\ \E n \in 0..MaxDays : \E files \in [1..n -> DayFile] :
        comp = [at |-> "scan", files |-> files, i |-> 1, days |-> 0, bad |-> 0, severe |-> 0,
                viol |-> 0, streak |-> 0, maxStreak |-> 0, last |-> 0, verdict |-> "none"]

Bigger(a, b) == IF a >= b THEN a ELSE b

\* Deviations: a day that cannot be judged breaks the run of violations; an
\* unreadable day counts as a violation.
CompDayBreaks(d) ==
    comp' = [comp EXCEPT !.i = @ + 1, !.streak = 0,
                         !.bad = IF d = "unreadable" THEN @ + 1 ELSE @]
CompDayCounts(d) ==
    comp' = [comp EXCEPT !.i = @ + 1,
                         !.bad = IF d = "unreadable" THEN @ + 1 ELSE @,
                         !.viol = IF d = "unreadable" THEN @ + 1 ELSE @]

\* A day without a DayStat: counted when its file could not be read, no more.
CompUnjudged(d) ==
    comp' = [comp EXCEPT !.i = @ + 1, !.bad = IF d = "unreadable" THEN @ + 1 ELSE @]

CompJudged(d) ==
    LET run == IF Violates(d) THEN comp.streak + 1 ELSE 0 IN
    comp' = [comp EXCEPT !.i = @ + 1, !.days = @ + 1,
                         !.severe = IF FarOver(d) THEN @ + 1 ELSE @,
                         !.viol = IF Violates(d) THEN @ + 1 ELSE @,
                         !.streak = run,
                         !.maxStreak = Bigger(@, run),
                         !.last = IF Violates(d) THEN comp.i ELSE @]

CompScan ==
    /\ comp.at = "scan" /\ comp.i \in DOMAIN comp.files
    /\ LET d == comp.files[comp.i] IN IF d \in Valid THEN CompJudged(d) ELSE CompUnjudged(d)
    /\ UNCHANGED <<judge, corr, fire>>

CompConclude ==
    /\ comp.at = "scan" /\ comp.i \notin DOMAIN comp.files
    /\ comp' = [comp EXCEPT !.at = "done",
           !.verdict = IF comp.days = 0 THEN "skip"
                       ELSE IF comp.severe > 0 \/ comp.viol > Tolerance THEN "fail" ELSE "pass"]
    /\ UNCHANGED <<judge, corr, fire>>

(***************************************************************************)
(* Correlation.  bcorr (tools/bcorr/bcorr.cpp) prints a row (name,        *)
(* correlation) for every pnl of a pool, ascending by the signed value: a  *)
(* strong negative correlation comes first.  A factor with a discovery     *)
(* method has one pool, an old one has two, whose outputs are appended.  A *)
(* rival's metrics say in how many of fitness, ret and shrp the factor is  *)
(* better (None: simsummary failed on its pnl).                            *)
(***************************************************************************)
None == -1
Wins == {None} \cup 0..3
Magnitude(c) == IF c < 0 THEN -c ELSE c
Sorted(rows) == \A i, j \in DOMAIN rows : i < j => rows[i].c <= rows[j].c
OneEach(rows) == \A i, j \in DOMAIN rows : rows[i].name = rows[j].name => i = j
Output == {rows \in UNION {[1..n -> [name: Rival \cup {Self}, c: Corr]] : n \in 0..MaxRows} :
              Sorted(rows) /\ OneEach(rows)}

\* Metrics of the factor itself: they fail a gate (ret below the limit, shrp not
\* above it, tvr above the cap of its delay), pass all of them, or are missing.
OwnMetrics == {"gated", "good", "missing"}

CorrStart ==
    /\ judge = "correlation"
    /\ \E pools \in {<<a>> : a \in Output} \cup (Output \X Output),
          own \in OwnMetrics, w \in [Rival -> Wins] :
        corr = [at |-> "bcorr", pools |-> pools, own |-> own, next |-> 1,
                wins |-> [n \in Rival \cup {Self} |-> IF n = Self THEN 0 ELSE w[n]],
                rows |-> <<>>, high |-> {}, verdict |-> "none"]

CorrDone(verdict) == corr' = [corr EXCEPT !.at = "done", !.verdict = verdict, !.high = {}]

\* run_bcorr: one process for each pool; the failure of one is that of all.
CorrPool ==
    /\ corr.at = "bcorr" /\ corr.next \in DOMAIN corr.pools
    /\ \/ corr' = [corr EXCEPT !.next = @ + 1, !.rows = @ \o corr.pools[corr.next]]
       \/ CorrDone("skip")
    /\ UNCHANGED <<judge, comp, fire>>

\* Deviation: the factor's own old pnl stays among its rivals.
OthersAndSelf(rows) == DOMAIN rows
\* The rows that are left when the factor itself is struck out, and those of them
\* with a high correlation, by their position.
Others(rows) == {i \in DOMAIN rows : rows[i].name # Self}
High(rows) == {i \in Others(rows) : Magnitude(rows[i].c) >= Threshold}

\* The last row is taken for the largest, and its magnitude alone is looked at.
LastIsLow(rows) ==
    \E m \in Others(rows) : Magnitude(rows[m].c) < Threshold /\ \A i \in Others(rows) : i <= m

\* check: the gates come before the correlation.
CorrJudge ==
    /\ corr.at = "bcorr" /\ corr.next \notin DOMAIN corr.pools
    /\ IF Others(corr.rows) = {} \/ corr.own = "missing" THEN CorrDone("skip")
       ELSE IF corr.own = "gated" THEN CorrDone("fail")
       ELSE IF LastIsLow(corr.rows) THEN CorrDone("pass")
       ELSE corr' = [corr EXCEPT !.at = "beat", !.high = High(corr.rows)]
    /\ UNCHANGED <<judge, comp, fire>>

\* One rival after the other: without metrics it does not count, and one that
\* is not beaten in two of three rejects.
CorrBeat ==
    /\ corr.at = "beat"
    /\ \/ corr.high = {} /\ CorrDone("pass")
       \/ \E i \in corr.high :
            /\ \A j \in corr.high : i <= j
            /\ IF corr.wins[corr.rows[i].name] \in {None, 2, 3}
               THEN corr' = [corr EXCEPT !.high = corr.high \ {i}] ELSE CorrDone("fail")
    /\ UNCHANGED <<judge, comp, fire>>

(***************************************************************************)
(* The firewall.  A data attribute is indexed by day, then by tick when it *)
(* has three dimensions.  A key is an index or a slice; None stands for an *)
(* end that is left open, or for no tick key at all.  Data of one          *)
(* dimension is not truncated; it is left out.                             *)
(***************************************************************************)
Open == -99            \* None in a slice
NoKey == [kind |-> "none"]
DataDay == 0..DataDays - 1
Index == {[kind |-> "int", i |-> i] : i \in -DataDays..DataDays}
Slice == [kind: {"slice"}, start: {Open} \cup -DataDays..DataDays, stop: {Open} \cup -DataDays..DataDays]
TickKey == {NoKey} \cup {[kind |-> "int", i |-> t] : t \in -1..DataTicks - 1}
           \cup [kind: {"slice"}, start: {Open}, stop: {Open} \cup 0..DataTicks]
MaxTi == DataTicks - 1     \* DELAY0_MAX_TI, exclusive: the last tick is too late

FireStart ==
    /\ judge = "firewall"
    /\ \E delay \in 0..1, ndim \in 2..3, valid \in BOOLEAN, di \in DataDay, key \in Index \cup Slice,
          ti \in TickKey, viaData \in BOOLEAN :
        /\ ti # NoKey => ndim = 3 /\ ~viaData
        /\ fire = [at |-> "read", delay |-> delay, ndim |-> ndim, valid |-> valid, di |-> di,
                   key |-> key, ti |-> ti, viaData |-> viaData, days |-> {}, blocked |-> FALSE]

\* Exclusive: today is visible in `valid`, and with delay 0 in tick data.
MaxDi == IF fire.valid \/ (fire.delay = 0 /\ fire.ndim >= 3) THEN fire.di + 1 ELSE fire.di

StartOf(s) == IF s.start = Open THEN 0
            ELSE IF s.start < 0 THEN Bigger(0, MaxDi + s.start) ELSE s.start
StopOf(s) == IF s.stop = Open THEN MaxDi
           ELSE IF s.stop < 0 THEN Bigger(0, MaxDi + s.stop) ELSE s.stop

\* _check_index: negative indices pass, they count from the end of what is left.
LooksForward(key) ==
    IF key.kind = "int" THEN key.i >= MaxDi ELSE StartOf(key) >= MaxDi \/ StopOf(key) > MaxDi

\* _check_ti_for_delay0: only where the day is written as today's number.
LateTick ==
    /\ fire.delay = 0 /\ fire.ndim >= 3 /\ fire.key.kind = "int" /\ fire.key.i = fire.di
    /\ \/ fire.ti = NoKey
       \/ fire.ti.kind = "int" /\ fire.ti.i >= MaxTi
       \/ fire.ti.kind = "slice" /\ fire.ti.stop # Open /\ fire.ti.stop > MaxTi

\* Deviation: the array is handed over whole.
TruncatedNot == DataDays
\* _truncate: how many days of the array remain.
Truncated == IF MaxDi < DataDays THEN MaxDi ELSE DataDays

\* What numpy returns of an array of n days.
Picked(n, key) ==
    IF key.kind = "int" THEN {d \in 0..n - 1 : d = IF key.i < 0 THEN n + key.i ELSE key.i}
    ELSE {d \in 0..n - 1 :
            /\ key.start # Open => d >= (IF key.start < 0 THEN n + key.start ELSE key.start)
            /\ key.stop # Open => d < (IF key.stop < 0 THEN n + key.stop ELSE key.stop)}

\* __getitem__; attr.data truncates and leaves the indexing to numpy.
FireRead ==
    /\ fire.at = "read"
    /\ LET refused == ~fire.viaData /\ (LooksForward(fire.key) \/ LateTick) IN
       fire' = [fire EXCEPT !.at = "done", !.blocked = refused,
                            !.days = IF refused THEN {} ELSE Picked(Truncated, fire.key)]
    /\ UNCHANGED <<judge, comp, corr>>

VInit == \/ CompStart /\ corr = Off /\ fire = Off
         \/ CorrStart /\ comp = Off /\ fire = Off
         \/ FireStart /\ comp = Off /\ corr = Off
VNext == CompScan \/ CompConclude \/ CorrPool \/ CorrJudge \/ CorrBeat \/ FireRead
VSpec == VInit /\ [][VNext]_vvars

(***************************************************************************)
(* Properties.                                                             *)
(***************************************************************************)
\* Days that have data; whether all of a..b that have violate; how many have.
WithData(files) == {i \in DOMAIN files : files[i] \in Valid}
Unbroken(files, a, b) == \A i \in a..b : files[i] \in Valid => Violates(files[i])
DaysOfData(files, a, b) == Cardinality({i \in a..b : files[i] \in Valid})
Conclusion(files) ==
    IF WithData(files) = {} THEN "skip"
    ELSE IF \/ \E i \in WithData(files) : FarOver(files[i])
            \/ Cardinality({i \in WithData(files) : Violates(files[i])}) > Tolerance
         THEN "fail" ELSE "pass"

\* The verdict is a function of the valid days alone, and the longest run of
\* violations the rejection cites spans days without data
\* (compliance_checker.py:3-15, 130).
ComplianceIsByValidDays ==
    comp.at = "done" =>
        LET n == Len(comp.files) IN
        /\ comp.verdict = Conclusion(comp.files)
        /\ \E a \in 1..n + 1, b \in 0..n :
              Unbroken(comp.files, a, b) /\ comp.maxStreak = DaysOfData(comp.files, a, b)
        /\ \A a \in 1..n + 1, b \in 0..n :
              Unbroken(comp.files, a, b) => DaysOfData(comp.files, a, b) <= comp.maxStreak

\* Days that could not be read may hide a rejection (the warning of
\* compliance_checker.py:168-173), but a rejection never hangs on them: whatever
\* they hold, the factor would have been rejected.
RejectionStandsOnRead ==
    comp.at = "done" /\ comp.verdict = "fail" =>
        LET lost == {i \in DOMAIN comp.files : comp.files[i] = "unreadable"} IN
        \A found \in [lost -> {"clean", "severe", "invalid"}] :
            Conclusion([i \in DOMAIN comp.files |->
                IF i \in lost THEN found[i] ELSE comp.files[i]]) = "fail"

\* The rows of a pool about other factors; those with a high correlation that the
\* factor does not beat; and a pool whose highest row, by sign, is low.
Rivals(pool) == {r \in {pool[i] : i \in DOMAIN pool} : r.name # Self}
Unbeaten(pool, wins) ==
    {r \in Rivals(pool) : Magnitude(r.c) >= Threshold /\ wins[r.name] \in {0, 1}}
TopIsLow(pool) == /\ \A r \in Rivals(pool) : r.c < Threshold
                  /\ \E r \in Rivals(pool) : Magnitude(r.c) < Threshold

\* Against one pool a factor passes exactly when its metrics pass the gates and it
\* beats every other factor it correlates with highly, in either direction, and
\* whose metrics are known; its own old pnl in the pool changes nothing
\* (correlation_checker.py:74-79).  One case is excepted because the code does not
\* keep it: where the highest signed correlation is below the threshold, no rival
\* is looked at, and a strong negative one need not be beaten
\* (correlation_checker.py:96-100).
CorrelationBeatsAlike ==
    corr.at = "done" /\ Len(corr.pools) = 1 /\ corr.verdict # "skip" =>
        (corr.verdict = "pass" <=>
            /\ corr.own = "good"
            /\ Unbeaten(corr.pools[1], corr.wins) = {} \/ TopIsLow(corr.pools[1]))

\* However the key is written, no read returns a day the factor may not see yet
\* (firewall.py:54-62): not by a negative index, an open slice or attr.data.
NoFutureDay == fire.at = "done" => \A d \in fire.days : d < MaxDi
=============================================================================
