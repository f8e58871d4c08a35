---------------------------- MODULE SetupLayout -----------------------------
(***************************************************************************)
(* `ops setup`: the table of what a machine's deployment must look like.   *)
(* Each row has a check that reads and perhaps a fix that only makes what  *)
(* is missing; the engine goes through the table once, fixes a row that    *)
(* fails (unless --check), and judges the row by a second look.            *)
(* Directories that one row checks together are one item, and neighbouring *)
(* rows that only look at services (PG, lock) or at tools are one row.     *)
(***************************************************************************)
EXTENDS Naturals, Sequences, FiniteSets

CONSTANT MaxSetups      \* bound: runs of `ops setup`

ASSUME SetupAssumption == MaxSetups \in Nat

VARIABLES
    site,      \* the machine: [form, group, owned]
    outside,   \* the rows without a fix that pass
    step,      \* the row the engine is at, 0 when it does not run
    apply,     \* whether this run may fix
    report,    \* the rows reported so far, of the run at hand or of the last one
    setups

lvars == <<site, outside, step, apply, report, setups>>

Directory == {"root", "shared", "pools", "staging", "sidecar"}
Form == {"missing", "right", "wrong"}
Group == {"alpha-core", "alpha-data"}

\* The table, in the order of CHECKS.
Rows == <<"host", "mount", "shared", "pools", "staging", "dump", "legacy", "groups",
          "perms", "services", "tools">>
Outside == {"host", "mount", "services", "tools"}
\* The machine may be declared under its name or not, and the volume may be mounted
\* at the declared root or not (one of the two is as it should be).
Deployed == {Outside, Outside \ {"host"}, Outside \ {"mount"}}
\* The rows that make setup exit with 1; the others depend on the machine's role.
Required == {"mount", "shared", "pools", "staging", "dump", "services"}

LInit ==
    /\ site \in [form: [Directory \cup {"dump", "legacy"} -> Form],
                 group: [Group -> {"missing", "right", "wrong", "taken"}],
                 owned: {{}, Directory}]
    /\ site.form["root"] = "right"
    /\ outside \in Deployed
    /\ step = 0 /\ apply = FALSE /\ report = <<>> /\ setups = 0

(***************************************************************************)
(* The checks.                                                             *)
(***************************************************************************)
GroupOf(d) == IF d \in {"shared", "staging"} THEN "alpha-core" ELSE "alpha-data"
Known(s, g) == s.group[g] \in {"right", "wrong"}
Present(s) == {d \in Directory : s.form[d] = "right"}

Passes(s, row) ==
    CASE row \in Outside -> row \in outside
      [] row = "dump" -> s.form["dump"] = "right" /\ s.form["sidecar"] = "right"
      [] row = "groups" -> \A g \in Group : s.group[g] = "right"
      [] row = "perms" -> \A d \in Present(s) : d \in s.owned /\ Known(s, GroupOf(d))
      [] OTHER -> s.form[row] = "right"

(***************************************************************************)
(* The fixes.  What exists keeps its form; a directory just made has not   *)
(* the owner it should have.                                               *)
(***************************************************************************)
Made(s, item) == [s EXCEPT !.form[item] = "right", !.owned = @ \ {item}]
Ensured(s, item) == IF s.form[item] = "missing" THEN Made(s, item) ELSE s

\* The sidecar directory first: a file in its place raises before the link.
DumpFixed(s) == IF s.form["sidecar"] = "wrong" THEN s ELSE Ensured(Ensured(s, "sidecar"), "dump")
\* A group whose gid somebody else has is not made.
GroupsFixed(s) == [s EXCEPT !.group = [g \in Group |-> IF @[g] = "missing" THEN "right" ELSE @[g]]]
\* In the order of the table, up to the first directory whose group is not known.
PermTable == <<"root", "shared", "pools", "sidecar", "staging">>
PermsFixed(s) ==
    LET stop == {i \in DOMAIN PermTable :
                    PermTable[i] \in Present(s) /\ ~Known(s, GroupOf(PermTable[i]))}
        reached == {PermTable[i] : i \in {j \in DOMAIN PermTable : \A k \in stop : j < k}}
    IN  [s EXCEPT !.owned = @ \cup (reached \cap Present(s))]

Fixed(s, row) ==
    CASE row \in Outside -> s
      [] row = "dump" -> DumpFixed(s)
      [] row = "groups" -> GroupsFixed(s)
      [] row = "perms" -> PermsFixed(s)
      [] OTHER -> Ensured(s, row)

(***************************************************************************)
(* The engine.                                                             *)
(***************************************************************************)
SetupStarts ==
    /\ step = 0 /\ setups < MaxSetups
    /\ step' = 1 /\ apply' \in BOOLEAN /\ report' = <<>> /\ setups' = setups + 1
    /\ UNCHANGED <<site, outside>>

\* Deviation: the row is believed to be fixed once its fix has run.
JudgedByFix(s, after, row) ==
    [row |-> row, ok |-> Passes(s, row) \/ (apply /\ row \notin Outside),
     fixed |-> ~Passes(s, row) /\ apply /\ row \notin Outside]
\* A second look decides.
RowJudged(s, after, row) ==
    [row |-> row, ok |-> Passes(after, row), fixed |-> ~Passes(s, row) /\ Passes(after, row)]

SetupRow ==
    /\ step \in DOMAIN Rows
    /\ LET row == Rows[step]
           after == IF apply /\ ~Passes(site, row) THEN Fixed(site, row) ELSE site
       IN  /\ site' = after
           /\ report' = Append(report, RowJudged(site, after, row))
    /\ step' = (step + 1) % (Len(Rows) + 1)
    /\ UNCHANGED <<outside, apply, setups>>

\* Killed between two rows.
SetupDies == step # 0 /\ step' = 0 /\ report' = <<>> /\ UNCHANGED <<site, outside, apply, setups>>

LNext == SetupStarts \/ SetupRow \/ SetupDies
LSpec == LInit /\ [][LNext]_lvars

ExitCode == IF \E i \in DOMAIN report : report[i].row \in Required /\ ~report[i].ok THEN 1 ELSE 0

(***************************************************************************)
(* Properties.                                                             *)
(***************************************************************************)
\* A complete run reports the machine as it is when the run ends, although each
\* row was judged before the later fixes; so the exit code is 0 exactly when
\* every severe row holds.  After a run that may fix, a second one
\* would change nothing (cli/setup.py:36).
OneSetupSuffices ==
    step = 0 /\ report # <<>> =>
        /\ \A i \in DOMAIN report : report[i].ok <=> Passes(site, report[i].row)
        /\ ExitCode = 0 <=> \A row \in Required : Passes(site, row)
        /\ apply => \A row \in {Rows[i] : i \in DOMAIN Rows} : Passes(site, row) \/ Fixed(site, row) = site
=============================================================================
