--------------------------- MODULE CheckPipeline ---------------------------
(***************************************************************************)
(* The six stages of `ops check` and the files they leave to each other    *)
(* and to the next check of the same factor.                               *)
(*                                                                         *)
(* FactorOps takes the stages as one step with an outcome; this module     *)
(* opens that step.  A factor is checked again and again: after a skip or  *)
(* an error, after a restage, after an overwrite with new code.  The       *)
(* workspace (dump, pnl, gsim's checkpoint) is keyed by the factor's name  *)
(* and outlives the check that wrote it; whether the verdict of the next   *)
(* check is about its own code depends on what is wiped and when.  Checks  *)
(* of one name exclude each other, so there is one sequence of runs.       *)
(***************************************************************************)
EXTENDS Naturals, FiniteSets

CONSTANTS
    MaxGen,      \* bound: submissions of the factor
    MaxRuns,     \* bound: checks
    MaxCrashes,  \* bound: checks killed
    Stable       \* submissions whose resumed run dumps what a whole run dumps

ASSUME BoundAssumption ==
    MaxGen \in Nat \ {0} /\ MaxRuns \in Nat \ {0} /\ MaxCrashes \in Nat
ASSUME StableAssumption == Stable \subseteq 1..MaxGen

VARIABLES
    at,       \* where the factor is: waiting, in a stage, or judged
    code,     \* the submission in staging
    run,      \* checks so far; the number of the current one
    ws,       \* the workspace of the name
    xml,      \* the factor's XML: window, dump switches, @module
    pys,      \* the .py files beside it: 0 the factor's, n+1 a firewalled copy of n
    held,     \* in memory: the .py the scan picked, the @module to restore
    kept,     \* alpha_dump/<name>: the run that produced it, 0 if absent
    cleared,  \* submissions that got past the checkpoint stage
    crashes

vars == <<at, code, run, ws, xml, pys, held, kept, cleared, crashes>>

Stages == {"validate", "checkbias", "injected", "checkpoint", "long_backtest",
           "compliance", "correlation", "archive"}
Judged == {"active", "rejected"}

Period == {"month",    \* December 2024, the window of checkbias
           "later"}    \* the months after it that only long_backtest reaches
Window == {"own", "validate", "bias", "long"}
Days(w) == IF w = "long" THEN Period ELSE {"month"}

File == [run: 0..MaxRuns, code: 0..MaxGen, resumed: BOOLEAN]
NoFile == [run |-> 0, code |-> 0, resumed |-> FALSE]
Mark == [run: 0..MaxRuns, window: Window]
NoMark == [run |-> 0, window |-> "own"]
Workspace == [dump: [Period -> File],  \* alpha_dir
              pnl: Mark,               \* pnl_file
              archive: Mark]           \* checkpoint_dir/archive.bin
NoDump == [d \in Period |-> NoFile]
Empty == [dump |-> NoDump, pnl |-> NoMark, archive |-> NoMark]
PyFile == 0..(MaxCrashes + 1)
Xml == [window: Window, dumps: BOOLEAN, module: PyFile]
Submitted == [window |-> "own", dumps |-> TRUE, module |-> 0]

(***************************************************************************)
(* gsim (external): with dumps on, it resumes from archive.bin when there  *)
(* is one, which needs the pnl written with it, and writes dump, pnl and   *)
(* archive.  A run that fails or is killed leaves any part of that.        *)
(***************************************************************************)
Mismatched(w) == w.archive # NoMark /\ w.archive # w.pnl

Outputs(w, x) ==
    IF ~x.dumps THEN w
    ELSE LET file == [run |-> run, code |-> code, resumed |-> w.archive # NoMark]
             mark == [run |-> run, window |-> x.window]
         IN  [dump |-> [d \in Period |-> IF d \in Days(x.window) THEN file ELSE w.dump[d]],
              pnl |-> mark, archive |-> mark]

Partial(w, x) ==
    LET new == Outputs(w, x)
    IN  {[dump |-> [d \in Period |-> IF d \in D THEN new.dump[d] ELSE w.dump[d]],
          pnl |-> p, archive |-> a] :
             D \in SUBSET Period, p \in {w.pnl, new.pnl}, a \in {w.archive, new.archive}}

\* md5 of a dump file: the same for equal content, whichever run wrote it.
Content(f) == <<f.code, f.resumed /\ f.code \notin Stable>>

\* last_v2npy_file: of the latest month only.
Last(dump) == IF dump["later"] # NoFile THEN dump["later"] ELSE dump["month"]

(***************************************************************************)
(* The XML each stage asks for.                                            *)
(***************************************************************************)
\* Deviation: the initial preparation leaves @module as the scan found it.
InitialKeepsModule(x, n) == [x EXCEPT !.dumps = TRUE]
Initial(x, n) == [x EXCEPT !.dumps = TRUE, !.module = n]

\* Deviations: a stage inherits the switches or the window of the one before.
CheckbiasInherits(x) == [x EXCEPT !.window = "bias"]
LongInherits(x) == [x EXCEPT !.dumps = TRUE]

ForValidate(x) == [x EXCEPT !.window = "validate", !.dumps = FALSE]
ForCheckbias(x) == [x EXCEPT !.window = "bias", !.dumps = TRUE]
ForCheckpoint(x) == [x EXCEPT !.dumps = TRUE]
ForLong(x) == [x EXCEPT !.window = "long", !.dumps = TRUE]

\* The XML of the gsim run that is under way, or about to be, in a stage.
Running(x) == CASE at = "validate" -> ForValidate(x)
                [] at = "checkbias" -> ForCheckbias(x)
                [] at = "checkpoint" -> ForCheckpoint(x)
                [] at = "long_backtest" -> ForLong(x)
                [] OTHER -> x

(***************************************************************************)
(* One check.                                                              *)
(***************************************************************************)
Init ==
    /\ at = "queued" /\ code = 1 /\ run = 0 /\ crashes = 0
    /\ ws = Empty /\ xml = Submitted /\ pys = {0} /\ held = [py |-> 0, module |-> 0]
    /\ kept = 0 /\ cleared = {}

\* Deviation: the checkpoint of the previous check survives.
WipeNothing(w) == w
WipeCheckpoint(w) == [w EXCEPT !.archive = NoMark]

\* The scan takes any .py of the directory; the lock; the wipe.
Begin ==
    /\ at = "queued" /\ run < MaxRuns
    /\ at' = "validate" /\ run' = run + 1
    /\ \E n \in pys :
           /\ xml' = Initial(xml, n)
           /\ held' = [held EXCEPT !.py = n]
    /\ ws' = WipeCheckpoint(ws)
    /\ UNCHANGED <<code, pys, kept, cleared, crashes>>

\* Back to SUBMITTED with staging in place: skip, retryable or unexpected.
Requeue == at' = "queued" /\ UNCHANGED <<kept, cleared>>

Validate ==
    /\ at = "validate"
    /\ xml' = ForValidate(xml)
    /\ \/ at' = "checkbias" /\ UNCHANGED <<kept, cleared>>
       \/ Requeue
    /\ UNCHANGED <<code, run, ws, pys, held, crashes>>

\* on_reject for an early stage: alpha_dump/<name> is cleared.
RejectEarly == at' = "rejected" /\ kept' = 0 /\ UNCHANGED cleared

\* The firewalled sibling is written and the XML pointed at it.
Inject ==
    /\ at = "checkbias" /\ at' = "injected"
    /\ pys' = pys \cup {held.py + 1}
    /\ held' = [held EXCEPT !.module = xml.module]
    /\ xml' = [ForCheckbias(xml) EXCEPT !.module = held.py + 1]
    /\ UNCHANGED <<code, run, ws, kept, cleared, crashes>>

DropFirewall == pys \ {held.py + 1}

CheckBias ==
    /\ at = "injected"
    /\ \/ /\ ~Mismatched(ws)
          /\ at' = "checkpoint" /\ ws' = Outputs(ws, xml) /\ UNCHANGED <<kept, cleared>>
       \/ RejectEarly /\ ws' \in Partial(ws, xml)       \* BacktestError
       \/ Requeue /\ ws' \in Partial(ws, xml)           \* anything else: CheckSkip
    /\ xml' = [xml EXCEPT !.module = held.module]
    /\ pys' = DropFirewall
    /\ UNCHANGED <<code, run, held, crashes>>

\* Deviation: the baseline is read after the run it is the baseline of.
BaselineTooLate(w, x) == Last(Outputs(w, x).dump)
Baseline(w, x) == Last(w.dump)

Checkpoint ==
    /\ at = "checkpoint"
    /\ LET x == ForCheckpoint(xml)
           old == Baseline(ws, x)
           done == Outputs(ws, x)
           new == Last(done.dump)
           compared == ~Mismatched(ws) /\ NoFile \notin {old, new}
           same == Content(old) = Content(new)
       IN  /\ xml' = x
           /\ \/ Requeue /\ ws' \in Partial(ws, x)  \* gsim failed, or no file: CheckSkip
              \/ compared /\ ~same /\ RejectEarly /\ ws' = done
              \/ /\ compared /\ same
                 /\ at' = "long_backtest" /\ ws' = Empty
                 /\ cleared' = cleared \cup {code} /\ UNCHANGED kept
    /\ UNCHANGED <<code, run, pys, held, crashes>>

LongBacktest ==
    /\ at = "long_backtest"
    /\ LET x == ForLong(xml)
       IN  /\ xml' = x
           /\ \/ /\ ~Mismatched(ws)
                 /\ at' = "compliance" /\ ws' = Outputs(ws, x) /\ UNCHANGED <<kept, cleared>>
              \/ Requeue /\ ws' \in Partial(ws, x)
    /\ UNCHANGED <<code, run, pys, held, crashes>>

\* on_reject for compliance and correlation: the dump moves to alpha_dump
\* unless one is there; the pnl is copied, the workspace keeps its own.
RejectLate ==
    /\ at' = "rejected" /\ UNCHANGED cleared
    /\ IF kept = 0 THEN kept' = Last(ws.dump).run /\ ws' = [ws EXCEPT !.dump = NoDump]
                   ELSE UNCHANGED <<kept, ws>>

\* compliance and correlation only read the workspace.
Judge ==
    /\ \/ at = "compliance" /\ ws.dump # NoDump /\ at' = "correlation"
          /\ UNCHANGED <<ws, kept, cleared>>
       \/ at = "correlation" /\ at' = "archive" /\ UNCHANGED <<ws, kept, cleared>>
       \/ at \in {"compliance", "correlation"} /\ RejectLate
       \/ at \in {"compliance", "correlation"} /\ Requeue /\ ws' = ws
    /\ UNCHANGED <<code, run, xml, pys, held, crashes>>

\* repo.archive moves dump and pnl out; an error before that puts it back.
Archive ==
    /\ at = "archive"
    /\ \/ /\ at' = "active" /\ UNCHANGED cleared
          /\ kept' = Last(ws.dump).run
          /\ ws' = [ws EXCEPT !.dump = NoDump, !.pnl = NoMark]
       \/ Requeue /\ ws' = ws
    /\ UNCHANGED <<code, run, xml, pys, held, crashes>>

(***************************************************************************)
(* Between checks.                                                         *)
(***************************************************************************)
\* restage insists on one .py; a rejected factor's dump is cleared, an active
\* one's on --purge.
Restage ==
    /\ at \in Judged /\ Cardinality(pys) = 1
    /\ at' = "queued"
    /\ xml' = [Submitted EXCEPT !.module = CHOOSE n \in pys : TRUE]
    /\ kept' \in IF at = "active" THEN {kept, 0} ELSE {0}
    /\ UNCHANGED <<code, run, ws, pys, held, cleared, crashes>>

Overwrite ==
    /\ at \in Judged \cup {"queued"} /\ code < MaxGen
    /\ code' = code + 1
    /\ at' = "queued" /\ xml' = Submitted /\ pys' = {0}
    /\ UNCHANGED <<run, ws, held, kept, cleared, crashes>>

\* The check is killed; gsim with it, at any point of its run.
Kill ==
    /\ at \in Stages /\ crashes < MaxCrashes
    /\ crashes' = crashes + 1
    /\ Requeue
    /\ xml' = Running(xml)
    /\ ws' \in {ws} \cup Partial(ws, Running(xml))
    /\ UNCHANGED <<code, run, pys, held>>

Check == Begin \/ Validate \/ Inject \/ CheckBias \/ Checkpoint \/ LongBacktest
      \/ Judge \/ Archive
Next == Check \/ Restage \/ Overwrite \/ Kill

Spec == Init /\ [][Next]_vars

TypeOK ==
    /\ at \in {"queued"} \cup Stages \cup Judged
    /\ code \in 1..MaxGen
    /\ run \in 0..MaxRuns
    /\ ws \in Workspace
    /\ xml \in Xml
    /\ pys \subseteq PyFile
    /\ held \in [py: 0..MaxCrashes, module: PyFile]
    /\ kept \in 0..MaxRuns
    /\ cleared \subseteq 1..MaxGen
    /\ crashes \in 0..MaxCrashes

(***************************************************************************)
(* Properties.                                                             *)
(***************************************************************************)
\* gsim never starts from an archive.bin whose pnl is another run's or gone:
\* it would crash, and the factor be rejected for it (check.py:306-312).
HalvesMatch == at \in {"injected", "checkpoint", "long_backtest"} => ~Mismatched(ws)

\* What compliance and correlation judge, and archive keeps, is the full
\* history written by this very check (xml_prepare.py:54-57).
JudgedOnThisRun ==
    at \in {"compliance", "correlation", "archive"} =>
        /\ \A d \in Period : ws.dump[d].run = run /\ ws.dump[d].code = code
        /\ ws.pnl = [run |-> run, window |-> "long"]

\* @module names a file that exists whenever gsim is about to run
\* (checkbias_checker.py:142-156).
ModuleExists ==
    at \in {"validate", "checkbias", "injected", "checkpoint", "long_backtest"}
        => xml.module \in pys

\* A code that resumes correctly is never rejected by the checkpoint stage,
\* whatever earlier checks left behind.
StableNotRejected ==
    [][at = "checkpoint" /\ at' = "rejected" => code \notin Stable]_vars

\* Where no file of an earlier full run is in the way, the stage lets only
\* codes through that resume correctly.
CheckpointDiscriminates ==
    [][at = "checkpoint" /\ at' = "long_backtest" /\ ws.dump["later"] = NoFile
       => code \in Stable]_vars

\* The stage lets only codes through that resume correctly.
CheckpointIsSound == cleared \subseteq Stable

=============================================================================
