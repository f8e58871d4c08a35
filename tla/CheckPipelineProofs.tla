------------------------ MODULE CheckPipelineProofs ------------------------
(***************************************************************************)
(* Theorems about the stages of a check, for any number of submissions,    *)
(* checks and kills: gsim starts from files that belong together and from  *)
(* a module that exists, the judges see this check's own output, and the   *)
(* checkpoint stage compares what it is meant to compare.                  *)
(***************************************************************************)
EXTENDS CheckPipeline, TLAPS

\* Every killed check may leave one firewalled copy beside the factor's .py.
Files ==
    /\ 0 \in pys
    /\ held.py \in 0..crashes
    /\ pys \subseteq (0..crashes) \cup IF at = "injected" THEN {held.py + 1} ELSE {}

\* The @module a check set out with is the one the stages run and come back to.
Modules ==
    /\ at \in {"validate", "checkbias", "checkpoint", "long_backtest"} =>
           xml.module = held.py /\ held.py \in pys
    /\ at = "injected" => /\ held.module = held.py /\ held.py \in pys
                          /\ xml.module = held.py + 1 /\ xml.module \in pys

\* What a check has done to the workspace by the time it reaches a stage: no
\* checkpoint before checkbias, after it a whole month with its checkpoint, and
\* an empty workspace before the full backtest.
Progress ==
    /\ at \in {"validate", "checkbias", "injected"} => ws.archive = NoMark
    /\ at = "injected" => xml.window = "bias" /\ xml.dumps
    /\ at = "checkpoint" =>
           /\ xml.window = "bias"
           /\ ws.dump["month"] = [run |-> run, code |-> code, resumed |-> FALSE]
           /\ ws.archive = [run |-> run, window |-> "bias"] /\ ws.pnl = ws.archive
    /\ at = "long_backtest" => ws = Empty

IInv == TypeOK /\ Files /\ Modules /\ Progress /\ JudgedOnThisRun

-----------------------------------------------------------------------------
LEMMA Ranges ==
    /\ NoFile \in File /\ NoMark \in Mark /\ Empty \in Workspace /\ NoDump \in [Period -> File]
    /\ Submitted \in Xml /\ 0 \in PyFile
BY BoundAssumption DEF NoFile, File, NoMark, Mark, Empty, Workspace, NoDump, Submitted, Xml,
   PyFile, Window

LEMMA Asked ==
    ASSUME NEW x \in Xml
    PROVE  /\ ForValidate(x) \in Xml /\ ForCheckbias(x) \in Xml
           /\ ForCheckpoint(x) \in Xml /\ ForLong(x) \in Xml /\ Running(x) \in Xml
           /\ \A n \in PyFile : Initial(x, n) \in Xml /\ [x EXCEPT !.module = n] \in Xml
BY DEF ForValidate, ForCheckbias, ForCheckpoint, ForLong, Running, Initial, Xml, Window

\* What gsim leaves, whole or in part, is a workspace.
LEMMA Written ==
    ASSUME TypeOK, NEW w \in Workspace, NEW x \in Xml
    PROVE  Outputs(w, x) \in Workspace /\ Partial(w, x) \subseteq Workspace
<1>1. run \in 0..MaxRuns /\ code \in 0..MaxGen
  BY BoundAssumption DEF TypeOK
<1>2. Outputs(w, x) \in Workspace
  <2>1. [run |-> run, code |-> code, resumed |-> w.archive # NoMark] \in File
    BY <1>1 DEF File
  <2>2. [run |-> run, window |-> x.window] \in Mark
    BY <1>1 DEF Mark, Xml
  <2> QED
    BY <2>1, <2>2 DEF Outputs, Workspace
<1>3. Partial(w, x) \subseteq Workspace
  BY <1>2 DEF Partial, Workspace
<1> QED
  BY <1>2, <1>3

-----------------------------------------------------------------------------
LEMMA InitIInv == Init => IInv
BY Ranges, BoundAssumption DEF Init, IInv, TypeOK, Files, Modules, Progress,
   JudgedOnThisRun, Submitted,
   Stages, Judged, PyFile

LEMMA BeginPreserves == ASSUME IInv, Begin PROVE IInv'
<1>1. PICK n \in pys : xml' = Initial(xml, n) /\ held' = [held EXCEPT !.py = n]
  BY DEF Begin
<1>2. n \in 0..crashes /\ n \in PyFile /\ n \in 0..MaxCrashes
  BY BoundAssumption DEF IInv, TypeOK, Files, Begin, PyFile
<1>3. TypeOK'
  <2>1. xml' \in Xml
    BY <1>1, <1>2, Asked DEF IInv, TypeOK
  <2>2. ws' \in Workspace
    BY Ranges DEF IInv, TypeOK, Begin, WipeCheckpoint, Workspace
  <2> QED
    BY <1>1, <1>2, <2>1, <2>2, BoundAssumption DEF IInv, TypeOK, Begin, Stages, Judged
<1>4. Files' /\ Modules'
  BY <1>1, <1>2 DEF IInv, TypeOK, Files, Modules, Begin, Initial, Xml
<1>5. Progress' /\ JudgedOnThisRun'
  BY DEF IInv, TypeOK, Progress, JudgedOnThisRun, Begin, WipeCheckpoint, Workspace
<1> QED
  BY <1>3, <1>4, <1>5 DEF IInv

LEMMA ValidatePreserves == ASSUME IInv, Validate PROVE IInv'
<1>1. TypeOK'
  BY Asked DEF IInv, TypeOK, Validate, Requeue, Stages, Judged
<1>2. Files' /\ Modules'
  BY DEF IInv, TypeOK, Files, Modules, Validate, Requeue, ForValidate, Xml
<1>3. Progress' /\ JudgedOnThisRun'
  BY DEF IInv, Progress, JudgedOnThisRun, Validate, Requeue
<1> QED
  BY <1>1, <1>2, <1>3 DEF IInv

LEMMA InjectPreserves == ASSUME IInv, Inject PROVE IInv'
<1>1. held.py + 1 \in PyFile /\ held.py \in 0..MaxCrashes
  BY BoundAssumption DEF IInv, TypeOK, Files, PyFile
<1>2. TypeOK'
  <2>1. xml' \in Xml
    BY <1>1, Asked DEF IInv, TypeOK, Inject
  <2>2. held' \in [py: 0..MaxCrashes, module: PyFile]
    BY DEF IInv, TypeOK, Inject, Xml
  <2> QED
    BY <1>1, <2>1, <2>2 DEF IInv, TypeOK, Inject, Stages
<1>3. Files' /\ Modules'
  BY <1>1 DEF IInv, TypeOK, Files, Modules, Inject, ForCheckbias, Xml
<1>4. Progress' /\ JudgedOnThisRun'
  BY DEF IInv, TypeOK, Progress, JudgedOnThisRun, Inject, ForCheckbias, Xml
<1> QED
  BY <1>2, <1>3, <1>4 DEF IInv

LEMMA CheckBiasPreserves == ASSUME IInv, CheckBias PROVE IInv'
<1>1. ws' \in Workspace
  BY Written DEF IInv, TypeOK, CheckBias
<1>2. TypeOK'
  <2>1. xml' \in Xml
    BY Asked DEF IInv, TypeOK, CheckBias
  <2> QED
    BY <1>1, <2>1, BoundAssumption DEF IInv, TypeOK, CheckBias, Requeue, RejectEarly,
       DropFirewall, Stages, Judged
<1>3. Files' /\ Modules'
  BY DEF IInv, TypeOK, Files, Modules, CheckBias, Requeue, RejectEarly, DropFirewall, Xml
<1>4. Progress'
  <2>1. CASE at' = "checkpoint"
    <3>1. ws' = Outputs(ws, xml) /\ at = "injected" /\ run' = run /\ code' = code
      BY <2>1 DEF CheckBias, RejectEarly, Requeue
    <3>2. xml.window = "bias" /\ xml.dumps = TRUE /\ ws.archive = NoMark
      BY <3>1 DEF IInv, Progress, TypeOK, Xml
    <3>3. /\ ws'.dump["month"] = [run |-> run, code |-> code, resumed |-> FALSE]
          /\ ws'.archive = [run |-> run, window |-> "bias"] /\ ws'.pnl = ws'.archive
      BY <3>1, <3>2 DEF Outputs, Days, Period
    <3>4. xml'.window = "bias"
      BY <3>2 DEF CheckBias, IInv, TypeOK, Xml
    <3> QED
      BY <2>1, <3>1, <3>3, <3>4 DEF Progress
  <2>2. CASE at' # "checkpoint"
    BY <2>2 DEF Progress, CheckBias, RejectEarly, Requeue
  <2> QED
    BY <2>1, <2>2
<1>5. JudgedOnThisRun'
  BY DEF JudgedOnThisRun, CheckBias, RejectEarly, Requeue
<1> QED
  BY <1>2, <1>3, <1>4, <1>5 DEF IInv

LEMMA CheckpointPreserves == ASSUME IInv, Checkpoint PROVE IInv'
<1> DEFINE x == ForCheckpoint(xml)
<1>1. x \in Xml /\ Outputs(ws, x) \in Workspace /\ Partial(ws, x) \subseteq Workspace
  BY Asked, Written DEF IInv, TypeOK
<1>2. /\ at = "checkpoint" /\ xml' = x /\ UNCHANGED <<code, run, pys, held, crashes>>
      /\ \/ Requeue /\ ws' \in Partial(ws, x)
         \/ RejectEarly /\ ws' = Outputs(ws, x)
         \/ at' = "long_backtest" /\ ws' = Empty /\ cleared' = cleared \cup {code} /\ UNCHANGED kept
  BY DEF Checkpoint
<1> HIDE DEF x
<1>3. TypeOK'
  <2>1. ws' \in Workspace
    BY <1>1, <1>2, Ranges
  <2>2. at' \in {"queued"} \cup Stages \cup Judged
    BY <1>2 DEF Requeue, RejectEarly, Stages, Judged
  <2>3. kept' \in {kept, 0} /\ cleared' \in {cleared, cleared \cup {code}}
    BY <1>2 DEF Requeue, RejectEarly
  <2>4. kept' \in 0..MaxRuns
    BY <2>3, BoundAssumption DEF IInv, TypeOK
  <2>5. cleared' \subseteq 1..MaxGen
    BY <2>3 DEF IInv, TypeOK
  <2> QED
    BY <1>1, <1>2, <2>1, <2>2, <2>4, <2>5 DEF IInv, TypeOK
<1>4. x.module = xml.module
  BY DEF x, ForCheckpoint, IInv, TypeOK, Xml
<1>5. Files' /\ Modules'
  BY <1>2, <1>4 DEF IInv, Files, Modules, Requeue, RejectEarly
<1>6. Progress' /\ JudgedOnThisRun'
  BY <1>2 DEF Progress, JudgedOnThisRun, Requeue, RejectEarly
<1> QED
  BY <1>3, <1>5, <1>6 DEF IInv

LEMMA LongBacktestPreserves == ASSUME IInv, LongBacktest PROVE IInv'
<1> DEFINE x == ForLong(xml)
<1>1. x \in Xml /\ Outputs(ws, x) \in Workspace /\ Partial(ws, x) \subseteq Workspace
  BY Asked, Written DEF IInv, TypeOK
<1>2. /\ at = "long_backtest" /\ xml' = x /\ UNCHANGED <<code, run, pys, held, crashes>>
      /\ \/ at' = "compliance" /\ ws' = Outputs(ws, x) /\ UNCHANGED <<kept, cleared>>
         \/ Requeue /\ ws' \in Partial(ws, x)
  BY DEF LongBacktest
<1>3. x.window = "long" /\ x.dumps = TRUE
  BY DEF ForLong, IInv, TypeOK, Xml
<1> HIDE DEF x
<1>4. TypeOK'
  BY <1>1, <1>2 DEF IInv, TypeOK, Requeue, Stages, Judged
<1>5. Files' /\ Modules' /\ Progress'
  BY <1>2 DEF IInv, Files, Modules, Progress, Requeue
<1>6. JudgedOnThisRun'
  BY <1>2, <1>3 DEF JudgedOnThisRun, Requeue, Outputs, Days
<1> QED
  BY <1>4, <1>5, <1>6 DEF IInv

LEMMA JudgePreserves == ASSUME IInv, Judge \/ Archive PROVE IInv'
<1>1. TypeOK'
  <2>1. Last(ws.dump).run \in 0..MaxRuns
    BY DEF IInv, TypeOK, Last, Workspace, File, Period
  <2>2. ws' \in Workspace
    BY Ranges DEF IInv, TypeOK, Judge, Archive, RejectLate, Requeue, Workspace
  <2> QED
    BY <2>1, <2>2 DEF IInv, TypeOK, Judge, Archive, RejectLate, Requeue, Stages, Judged
<1>2. Files' /\ Modules' /\ Progress'
  BY DEF IInv, Files, Modules, Progress, Judge, Archive, RejectLate, Requeue
<1>3. JudgedOnThisRun'
  BY DEF IInv, JudgedOnThisRun, Judge, Archive, RejectLate, Requeue
<1> QED
  BY <1>1, <1>2, <1>3 DEF IInv

LEMMA BetweenPreserves == ASSUME IInv, Restage \/ Overwrite PROVE IInv'
<1>1. (CHOOSE n \in pys : TRUE) \in PyFile
  BY DEF IInv, TypeOK, Files
<1>2. TypeOK'
  <2>1. xml' \in Xml
    BY <1>1, Ranges DEF Restage, Overwrite, Xml
  <2>2. kept' \in 0..MaxRuns /\ code' \in 1..MaxGen /\ pys' \subseteq PyFile
    BY BoundAssumption DEF IInv, TypeOK, Restage, Overwrite, PyFile
  <2> QED
    BY <2>1, <2>2 DEF IInv, TypeOK, Restage, Overwrite, Stages, Judged
<1>3. Files' /\ Modules' /\ Progress' /\ JudgedOnThisRun'
  BY DEF IInv, TypeOK, Files, Modules, Progress, JudgedOnThisRun, Restage, Overwrite, Judged
<1> QED
  BY <1>2, <1>3 DEF IInv

LEMMA KillPreserves == ASSUME IInv, Kill PROVE IInv'
<1>1. xml' \in Xml /\ ws' \in Workspace
  BY Asked, Written DEF IInv, TypeOK, Kill
<1>2. TypeOK'
  BY <1>1, BoundAssumption DEF IInv, TypeOK, Kill, Requeue
<1>3. Files'
  BY BoundAssumption DEF IInv, TypeOK, Files, Kill, Requeue
<1>4. Modules' /\ Progress' /\ JudgedOnThisRun'
  BY DEF Modules, Progress, JudgedOnThisRun, Kill, Requeue
<1> QED
  BY <1>2, <1>3, <1>4 DEF IInv

LEMMA NextIInv == IInv /\ [Next]_vars => IInv'
<1> SUFFICES ASSUME IInv, [Next]_vars PROVE IInv'
  OBVIOUS
<1>1. CASE Check
  BY <1>1, BeginPreserves, ValidatePreserves, InjectPreserves, CheckBiasPreserves,
     CheckpointPreserves,
     LongBacktestPreserves, JudgePreserves DEF Check
<1>2. CASE Restage \/ Overwrite \/ Kill
  BY <1>2, BetweenPreserves, KillPreserves
<1>3. CASE UNCHANGED vars
  BY <1>3 DEF vars, IInv, TypeOK, Files, Modules, Progress, JudgedOnThisRun
<1> QED
  BY <1>1, <1>2, <1>3 DEF Next

\* What the stages keep, over any sequence of checks, restages, overwrites and
\* kills of one factor (check.py:298-451).
THEOREM Invariance == Spec => []IInv
<1> QED
  BY InitIInv, NextIInv, PTL DEF Spec

\* Workspace, XML and .py files are well typed throughout.
THEOREM TypeCorrect == Spec => []TypeOK
<1>1. IInv => TypeOK
  BY DEF IInv
<1> QED
  BY <1>1, Invariance, PTL

\* gsim never starts from an archive.bin whose pnl is another run's or gone
\* (check.py:306-312, checkpoint_checker.py): the wipe at the beginning and the
\* one after the checkpoint stage are enough, wherever earlier checks died.
THEOREM HalvesAlwaysMatch == Spec => []HalvesMatch
<1>1. IInv => HalvesMatch
  BY DEF IInv, Progress, HalvesMatch, Mismatched, Empty
<1> QED
  BY <1>1, Invariance, PTL

\* What the judges see and archive keeps is the full history that this check
\* wrote (xml_prepare.py:54-57).
THEOREM JudgesSeeThisRun == Spec => []JudgedOnThisRun
<1>1. IInv => JudgedOnThisRun
  BY DEF IInv
<1> QED
  BY <1>1, Invariance, PTL

\* @module names a file that exists whenever gsim is about to run, whatever the
\* firewalled copies killed checks left behind (checkbias_checker.py:142-156).
THEOREM ModuleAlwaysExists == Spec => []ModuleExists
<1>1. IInv => ModuleExists
  BY DEF IInv, Modules, ModuleExists
<1> QED
  BY <1>1, Invariance, PTL

-----------------------------------------------------------------------------
(***************************************************************************)
(* The checkpoint stage compares the last dump before and after a resumed  *)
(* run over the month of checkbias.                                        *)
(***************************************************************************)
\* Both are the file of a later month, if one is in the way: then the stage
\* compares that file with itself.  Otherwise the first was dumped by a whole
\* run and the second by a resumed one.
LEMMA Comparison ==
    ASSUME IInv, at = "checkpoint"
    PROVE  LET x == ForCheckpoint(xml)
               old == Last(ws.dump)
               new == Last(Outputs(ws, x).dump)
           IN  IF ws.dump["later"] # NoFile
               THEN old = new
               ELSE /\ old.code = code /\ ~old.resumed
                    /\ new.code = code /\ new.resumed
<1> DEFINE x == ForCheckpoint(xml)
           done == Outputs(ws, x)
<1>1. x.window = "bias" /\ x.dumps = TRUE
  BY DEF IInv, TypeOK, Progress, ForCheckpoint, Xml
<1>2. ws.archive # NoMark
  BY DEF IInv, Progress, NoMark
<1>3. /\ done.dump["later"] = ws.dump["later"]
      /\ done.dump["month"] = [run |-> run, code |-> code, resumed |-> TRUE]
  BY <1>1, <1>2 DEF Outputs, Days, Period
<1> HIDE DEF x, done
<1>4. ws.dump["month"] = [run |-> run, code |-> code, resumed |-> FALSE]
  BY DEF IInv, Progress
<1>5. CASE ws.dump["later"] # NoFile
  BY <1>3, <1>5 DEF Last, x, done
<1>6. CASE ws.dump["later"] = NoFile
  <2>1. Last(ws.dump) = ws.dump["month"] /\ Last(done.dump) = done.dump["month"]
    BY <1>3, <1>6 DEF Last
  <2> QED
    BY <1>3, <1>4, <1>6, <2>1 DEF x, done
<1> QED
  BY <1>5, <1>6

\* A code that resumes correctly is never rejected by the checkpoint stage,
\* whatever earlier checks left behind (checkpoint_checker.py).
THEOREM StableIsSpared == Spec => StableNotRejected
<1>1. IInv /\ [Next]_vars => [at = "checkpoint" /\ at' = "rejected" => code \notin Stable]_vars
  <2> SUFFICES ASSUME IInv, Next, at = "checkpoint", at' = "rejected", code \in Stable
               PROVE  FALSE
    OBVIOUS
  <2>1. Checkpoint
    BY DEF Next, Check, Begin, Validate, Inject, CheckBias, LongBacktest, Judge, Archive,
       Restage,
       Overwrite, Kill, Judged, Requeue
  <2>2. Content(Last(ws.dump)) # Content(Last(Outputs(ws, ForCheckpoint(xml)).dump))
    BY <2>1 DEF Checkpoint, Requeue, Baseline
  <2> QED
    BY <2>2, Comparison DEF Content
<1> QED
  BY <1>1, Invariance, PTL DEF Spec, StableNotRejected

\* And where no file of an earlier full run is in the way it lets only codes
\* through that resume correctly.
THEOREM StageDiscriminates == Spec => CheckpointDiscriminates
<1>1. IInv /\ [Next]_vars =>
        [at = "checkpoint" /\ at' = "long_backtest" /\ ws.dump["later"] = NoFile =>
            code \in Stable]_vars
  <2> SUFFICES ASSUME IInv, Next, at = "checkpoint", at' = "long_backtest",
                      ws.dump["later"] = NoFile
               PROVE  code \in Stable
    OBVIOUS
  <2>1. Checkpoint
    BY DEF Next, Check, Begin, Validate, Inject, CheckBias, LongBacktest, Judge, Archive,
       Restage,
       Overwrite, Kill, Judged, Requeue
  <2>2. Content(Last(ws.dump)) = Content(Last(Outputs(ws, ForCheckpoint(xml)).dump))
    BY <2>1 DEF Checkpoint, Requeue, RejectEarly, Baseline
  <2> QED
    BY <2>2, Comparison DEF Content
<1> QED
  BY <1>1, Invariance, PTL DEF Spec, CheckpointDiscriminates

=============================================================================
