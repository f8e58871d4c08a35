# A TLA+ model of gsim-ops

`ops` is the command line with which a quant desk runs its *alpha factors*: a
factor is a `.py` and an `.xml`; it is submitted, checked by running the gsim
back-tester over it, archived into a library, recalled, approved by hand,
removed, and, once ACTIVE, produced every day. Several machines share one
PostgreSQL database and one disk (JuiceFS), and every command is a short-lived
process. There is no daemon: all coordination goes through PG rows, directories
and one advisory lock per factor name.

This directory holds TLA+ modules translated from `src/ops` and
`src/scripts`, TLC configurations that check them on small instances, and
proofs about them for TLAPS. `PROJECT.json` maps each definition to the lines it
stands for, and lists the runs, the deviations each property detects
("mutants"), the hazards and the findings.

    tlc -workers 2 -config OneChecker.cfg MCFactorOps.tla
    tlapm FactorOpsProofs.tla

- [Inventory](#inventory)
- [Modules](#modules)
- [Runs](#runs)
- [Where code and documentation disagree](#where-code-and-documentation-disagree)
- [Proofs](#proofs)
- [Not modelled](#not-modelled)
- [Plan](#plan)

## Inventory

### Factor life cycle: `services/{submit,check,restage,approve,cancel,clear,rm}`

*State.* Per factor name: the PG row of `factor_state` (status NONE / SUBMITTED /
CHECKING / ACTIVE / REJECTED, `entered_at`), the snapshot row (the metrics of one
check), the append-only history, and five places on disk: `staging/<name>`,
`alpha_src/<name>`, `alpha_dump/<name>`, `alpha_pnl/<name>` and the pool copy
`pnl_manual|pnl_automated/<name>` that later factors are correlated with.

*Operations.* submit copies a dropbox directory to staging and registers it
(`--overwrite` replaces whatever was there); check scans staging, takes each
directory through six stages and archives or rejects it; restage moves an
archived factor back to staging; approve waives a correlation failure; cancel
withdraws a factor that never entered; clear removes staging directories without
a record; rm removes everything.

*Hard behaviours.* The staging scan takes no lock, and the XML it parses is
kept in memory until the lock is taken, perhaps hours later. Source,
products and row live in two stores with no common transaction, so each command
is a sequence of effects that a kill can cut anywhere. Operators confirm on a
state read before the lock. Exceptions are handled in layers (a rollback
outside the lock in submit, `except` arms that themselves fail in check).

*Correct when* no command loses the last copy of a library factor's source;
status, source, products and snapshot agree when no command is at work; ACTIVE
code has been screened; a row is CHECKING only while a check is at work and the
check always moves it on; an exception or a kill costs no more than the command.

### Repository and stores: `infra/repository.py`, `infra/store`, `infra/info`, `infra/snapshot`, `infra/pg.py`

One facade over the PG tables and the directories: `register`, `transition` (an
optional compare-and-set on the status), `append_check`, `attach_snapshot`,
`discard_snapshot`, `archive`, `recall`, `unstage`, `purge_artifacts`, `delete`.
Each database method is one transaction; the facade composes several with moves
of directories in between. `entered_at` is set by the first transition to ACTIVE
and must survive everything but `delete`. A JSON store stands in for tests.

### Lock: `infra/lock.py`

`factor_lock(name)`: `pg_try_advisory_lock` on a connection of its own, refused
at once when taken (`FactorLocked`), freed when the session dies. Everything
above leans on it: inside the lock a command re-reads what it decided upon
outside.

### Check pipeline: `services/check/{stages,xml_prepare}.py`, `checker/*`

Validate, checkbias (a *firewalled* copy of the `.py` is injected), checkpoint
(run again from gsim's saved state, compare dumps), long_backtest, compliance,
correlation. The stages communicate by files in a workspace keyed by the
factor's name (dump, pnl, gsim checkpoint) and by the factor's XML, which each
stage edits. *Hard behaviours:* the workspace outlives the check; a stage can
skip, fail or be killed with gsim half way. *Correct when* each verdict is about
the code of this check, and what is archived is this check's output.

### Production: `services/produce/*`, `core/prodgroup.py`, `core/prodxml.py`, `scripts/bootstrap_groups.py`

Daily runs of the ACTIVE factors. In the grouped form one gsim process runs many
factors ("legs" of a group), whose order never changes because gsim's checkpoint
is read by leg number; a leg whose factor has left ACTIVE, or whose code is no
longer the frozen copy, is muted and its factor is produced alone ("single").
Roster and muted flags are in PG, XML and frozen code on disk; every run starts
with a *sync* of roster, XML and the ACTIVE set. *Hard behaviours:* the sync
takes no factor lock, so checks and restages move factors between its steps; it
writes PG and XML one after the other. *Correct when* a group known to PG is
complete on disk and frozen for good, every factor has one home after a sync,
and what is produced is the code in `alpha_src`.

### Doctor and pack: `services/doctor`, `services/pack`

The doctor reads PG, then lists each area of the disk, all without a lock;
judges drift by families of checks; and with `--fix`, after the operator agreed,
repairs what a family may repair, one finding at a time under the factor lock
after a fresh look at PG. pack turns dumps into feature files through a
temporary file. *Hard behaviours:* the inventory is minutes old when it is acted
on; an area that cannot be listed looks empty. *Correct when* a repair never
removes anything of a factor that is live by then, an undisturbed pass leaves no
drift it can repair, and nobody is advised to `ops rm` what still has a source.

### Inside one check: `checker/{compliance,correlation}_checker.py`, `checker/firewall.py`, `utils/live_table.py`

Three judgements that compute: days against a tolerance, correlations against
pools, and what an index may return without looking ahead. Around them a pool of
worker processes, a queue, a watching thread and a table. *Hard behaviours:*
files that cannot be read, boundaries, negative and open indices; workers killed
before they report. *Correct when* a verdict is what its definition says of the
data that could be read, no index reaches a future day, and the command ends.

### Around the library: `services/produce/produce.py`, `services/run`, `infra/store/json_store.py`, `services/setup`

Daily production of single factors, resuming gsim from a checkpoint directory,
with a sync that retires directories without a lock; `ops run` with its own
dates over the same XML; the JSON backend of development; the table of what a
deployment must look like; and the switch of a JuiceFS mount with backup and
rollback. *Hard behaviours:* kills between effects, a second run beside the
first, failing steps inside a rollback. *Correct when* "ok" means the dataset is
by the code in `alpha_src`, no update of the JSON file is lost, a migration that
reports success left one configuration, and one setup is enough.

### The rest

Submit normalisation and parsing, PG connections and SQL, the gsim runner's
processes, configuration, argument parsing, the read-only commands list / info /
status.

### Interactions

    submit ──> staging/<name> + row ──> check ──> alpha_src, dump, pnl, pool + row
                    ^                     │ six stages over workspace/<name>
                    └────── restage ──────┘
    approve: row        cancel, clear, rm: row + directories
    produce/sync: reads row + alpha_src (no lock) ──> group roster, group XML, singles
    doctor: reads everything (no lock)

All coupling is by shared state; there are no messages. Within one command the
check pool and the live table add processes and a queue.

## Modules

| module | what it models | code |
|---|---|---|
| `FactorOps` | every command's durable effects on one factor, with lock, crashes and errors | `services/{submit,check,restage,approve,cancel,clear,rm}`, `infra/{repository,lock}.py`, `infra/store/pg_store.py` |
| `FactorLifecycle` | what the commands promise about status and `entered_at` | the transitions each service asks for |
| `FactorOpsProofs`, `FactorOpsSectionProofs`, `FactorOpsCheckerProofs` | theorems about `FactorOps`: about any processes; about the section under the lock; about one checking process | |
| `CheckPipeline` | the six stages, their files, repeated checks of one name | `services/check/**` |
| `CheckPipelineProofs` | theorems about `CheckPipeline` | |
| `Verdicts` | compliance, correlation, firewall, stepped over bounded inputs | `checker/{compliance,correlation}_checker.py`, `checker/firewall.py` |
| `LiveBatch` | workers, futures, queue, watching thread, main loop of one check command | `utils/live_table.py`, `check.py` |
| `Produce` | daily production of single factors, beside the library and `ops run` | `services/produce/produce.py`, `services/run/run.py`, `core/prodxml.py`, `scripts/migrate_prod_xml.py` |
| `ProduceProofs` | theorems about `Produce` | |
| `ProductionGroups` | sync, admissions, single runs, bootstrap of groups, against a moving library | `services/produce/groups.py`, `core/prodgroup.py`, `infra/groups/pg_store.py`, `scripts/bootstrap_groups.py` |
| `ProductionGroupsProofs` | theorems about `ProductionGroups` | |
| `Doctor` | doctor and pack, beside every command of `FactorOps` (which it extends) | `services/doctor/*`, `services/pack/pack.py` |
| `DoctorProofs` | theorems about `Doctor`, on those about `FactorOps` | |
| `JsonStore` | read-modify-write of the JSON backend | `infra/store/json_store.py` |
| `MountSwitch` | `setup --migrate-mount` | `services/setup/jfs.py` |
| `SetupLayout` | the table of `ops setup` and the engine's pass over it | `services/setup/{checks,engine}.py` |
| `ComponentProofs` | theorems about `JsonStore`, `MountSwitch`, `SetupLayout` and `Verdicts` | |
| `MCFactorOps`, `MCDoctor`, `MCComponents` | instances for TLC | |

How they fit: `FactorOps` takes the six stages of a check as one step with an
outcome, `CheckPipeline` opens that step, and `Verdicts` opens two of its stages.
`Doctor` composes with `FactorOps` by extending it: its steps and those of the
commands interleave over one row, one disk and one lock. `Produce` and
`ProductionGroups` take of the library only the steps of `FactorOps` that
change a status, `alpha_src` or the archived XML. `FactorOps` ends with the
refinement mapping (`Abstract`) under which it implements `FactorLifecycle`
(`Implements`).

`MCComponents` puts seven modules that share no state side by side, so that one
run answers for all of them: `part` chooses which one moves in a behaviour, and
the others rest in one of their initial states. The state space is the sum of
the parts, not their product, and a property about one part says nothing less
than in a run of its own.

A definition whose comment begins with "Deviation" models a plausible bug (a
dropped re-check, a missing reset, a swapped order). The modules do not use it:
put in place of its neighbour it must make a property fail, which is how each
property is shown to say something about the code.

### FactorOps

*State.* `row` is the PG state of the name. The history is kept as what its
readers derive: `lastFail` (the latest failed stage, which approve, list and
restage read) and `snap`, the relation of the snapshot to the latest check event
(`ahead` between writing a snapshot and recording the event it belongs to).
`disk` holds the five places. A directory is identified by the submissions its
`.py` and its `.xml` came from, which is what the properties tell apart,
with `whole` (the copy is complete) and `meta` (`meta.json`, the gate of the
staging scan, is there). `lock`, `pc`, `loc` are the advisory lock, the position
and the locals of each process; `screened` records codes that passed every stage
or all but correlation.

*Actions.* One action is one PG transaction or one operation on a directory.
`pc` names follow the commands: `s_` submit, `c_` check, `p_` pass, `j_` reject,
`v_` put back, `r_` restage, `a_` approve, `x_` cancel, `l_` clear, `m_` rm.
A command's checks before the lock are its `...Start` action, `TryLock` takes
the lock or gives up, and the first locked action looks again exactly where the
code does. `RmtreePart` makes removal of a staging directory visible half done,
because the lock-free scan reads it. `Swallowed`, `CheckFault` and `SubmitFault`
are the errors the code handles itself, each where it handles them; `Crash` is a
kill, or an exception nothing handles, at any point.

*Left out.* Version and timestamp columns; feature files (see `Doctor`); other
factors (all state is keyed by name, the lock too); the workspace (see
`CheckPipeline`). A rename is atomic. Removal of
`alpha_src/<name>` and the purge of the check's products are one step: nobody
reads them without the lock but production, which `ProductionGroups` covers.
Submissions bring no `meta.json` of their own. A lost lock session with a
living process is not modelled: no property that rests on the lock would hold.

### CheckPipeline

*State.* `ws` is the workspace: per period (the month of checkbias and
checkpoint; the later months only long_backtest reaches) the file, with the run
and the code that wrote it and whether gsim resumed for it; the pnl; the
`archive.bin`. `xml` is the window, the dump switch and `@module` of the factor's
XML; `pys` the `.py` files beside it (firewalled copies may survive a kill).
`Stable` is the set of submissions whose resumed run dumps what a whole run
dumps, which is the property of code that the checkpoint stage is meant to test.

*Actions.* One per stage (`Inject` is the first half of checkbias: its copy is
on disk while gsim runs), each with the stage's own failure classes; `Begin` for
scan, lock and wipe; `Restage` and `Overwrite` between checks; `Kill`. gsim is
external, modelled from how the code and `docs/remediation/JOURNAL.md` describe
it: with dumps on it resumes from `archive.bin`, which needs the pnl of the same
run; a run that fails or is killed leaves any part of its outputs.

### ProductionGroups

*State.* `lib` is what production sees of each factor; `roster`, `muted`,
`single` are the PG tables, `gdir` and `sdir` the directories; `job` and `mem`
the position and memory of the one job at work. `touched` (factors the library
changed since the sync began) and `interrupted` are history variables that the
properties use to say for which factors a sync vouches.

*Actions.* `SyncStart` reads the ACTIVE set and the singles once, as the code
does; `Compare` to `SaveXml` is the loop over groups; `Admit*` is
`_admit_single`, which removes, copies, writes the XML and registers in four
steps and ends the whole run when the source is in transit; `Single*`, `Name`,
`RunSingle` the rest of a produce run; `Boot*` the bootstrap of one group.
Library steps interleave with all of them, bounded to the factors of `Moving`.

*Left out.* Two jobs at once (nothing in the code prevents it: see the plan);
the content of `group.xml` beyond legs and their dump flags, so the merge
conflicts and the branch for a corrupt file; the pre-check that mutes legs
before a run; a gsim run of a group, which changes nothing the model holds;
factors of other authors and delays, which never share a group.

### Verdicts

*State and actions.* `judge` says which of three judgements a behaviour runs.
Compliance: `comp` holds a history of files, one class per day, and the counters
of the loop; `CompScan` is one iteration. Correlation: `corr` holds bcorr's
outputs, sorted as `src/ops/tools/bcorr/bcorr.cpp` sorts them, by signed value
from the lowest up, and the metrics of the factor and its rivals (rows go by
their position, so that "the last row" is the code's); `CorrPool`, `CorrJudge`
and `CorrBeat` are the query of a pool, the gates with the last row, and one
rival. `CorrelationBeatsAlike` is stated for one pool and for the behaviours in
which the highest signed correlation is not low; see "Noted without a run" for
the others. Firewall: `fire` is one read, and `FireRead` the checks with numpy's
indexing (external) on what they let through. The properties compare each with a
definition by sets. *Left out:* how a day's class or a rival's metrics are
computed; data of one dimension, which the code does not truncate; the AST
rewriting that puts the firewall in place.

### LiveBatch

*State and actions.* `worker`, `future`, `queue`, `row`, `remaining` and the
watching thread's memory. `Killed` breaks the pool, as
`concurrent.futures` does: all pending futures get the exception and all workers
end. `Watch` makes up a "done" event for some row, `Drain` counts done events.
Rendering, counters and the timeout of `queue.get` are left out.

### Produce

*State.* Per factor: status, version in `alpha_src`, the archived XML (its form
and its dates), the checkpoint directory (which version, up to which day), which
version wrote each day of the dataset, and who holds the lock; per produce run
its position, what the sync has read, and what each worker is at.

*Actions.* `StartFull`, `RetireLook`, `RetireMove` and `SyncDone` are the sync,
which locks nothing and ends there with `--sync-only` (or `--dry-run`);
`WorkerSkips` to `WorkerFails` are `_produce_worker`, whose results other than
ok count as failed; `Dies` is a kill. Around them a check that archives, `Leave`,
`Approve`, `Migrate` and `ops run` (`RunBegin` to `RunDies`). Archiving takes
its effects one by one under the lock, as `arch` says: `ArchiveBegin` (after a
pass ACTIVE is committed here), `ArchiveRmSrc`, `ArchiveMvSrc`, `ArchiveXml`,
`ArchiveVoid` (the production checkpoint) and `ArchiveEnd`; an exception
(`ArchiveFails`) or a kill (`ArchiveDies`) may cut it short before any of them.
gsim is external: it resumes from the checkpoint if there is one, dumps day by
day, and writes the checkpoint at the end. `touched` remembers the factors
`ops run` has run, and those whose archiving was cut short between the move of
the source and the removal of an existing checkpoint; `OkIsWhole` does not speak
for them (see `adhoc_run` and "Noted without a run"). *Left out:* the tail of a few days a resumed run writes again; the
rewriting of paths in `prodxml`.

### Doctor

*State.* That of `FactorOps` with the feature files, the temporary file of a
pack, and the doctor process: its inventory, what it found, what is agreed, the
finding at hand. A behaviour is "live" (an empty library whose commands run) or
"legacy" (any drift of one name, and at most one area unreadable).

*Actions.* `DoctorStart`, `ListArea`, `Judge` are the scan; `FixLock`,
`FixRecheck`, `FixAct` one repair; `PackStart` to `PackCrash` pack; and
`CommandStep` every step of `FactorOps`, which also removes the feature files
where the code purges. `quiet` says that nobody else has moved since the scan
began. *Left out:* the family `timeline-drift` (it compares creation times and
only reports), entries that are no factor names, the path guards and the
`FamilySkip` of a wrong `alpha_dump` (`checks.py:400-412`), which reject
configurations, not states. The two pools are one area.

### JsonStore, MountSwitch, SetupLayout

`JsonStore`: constructor, lock, removal of old temporaries, read, temporary file,
replace, failed writes and deaths; `committed` is what the operations make of the
file in the order in which they replaced it. One record stands for the file.

`MountSwitch`: the two files, what systemd has read, the service, the mount, the
sidecar, the link and the backup; each step of `migrate_mount` may fail, the
rollback's too, and an operator may start the service between attempts. systemd
is external, modelled from the commands used.

`SetupLayout`: the table of rows over a machine whose directories are missing,
right or of another kind; `SetupRow` is check, fix and second look. Rows that
only look at services or tools are inputs. *Left out:* what the shell commands
of a fix print, and fixes that fail with an exception half way.

## Runs

Sizes are TLC's distinct states. Runs that must pass:

| run | module / cfg | question | bounds |
|---|---|---|---|
| `one_checker` | `MCFactorOps` / `OneChecker` | One process checks and the other does everything else: do row, snapshot, products and source agree whenever no command is at work, do the commands implement the life cycle, does CHECKING always end? | 2 submissions, no failure; 17,141 states |
| `any_two` | `MCFactorOps` / `AnyTwo` | Both processes may run any command, so also two checks of one factor: what still holds? | 2 submissions, symmetry of processes (no liveness, no process distinguished); 366,567 states |
| `failures` | `MCFactorOps` / `Failures` | With one kill and one handled I/O or PG error anywhere: the promises that do not depend on a command finishing | 2 submissions, 1 crash, 1 fault; 846,076 states |
| `doctor` | `MCDoctor` / `Doctor` | What may a stale inventory still remove, what does an undisturbed pass leave, when is `ops rm` advised? | one process that submits, checks and removes; 1 submission, 1 crash; 1,819,675 states |
| `components` | `MCComponents` / `Components` | The stages over repeated checks, the verdicts, the live table, daily production, the JSON store, the mount switch and setup, each on its own | below; 3,392,630 states |
| `groups` | `ProductionGroups` / `Groups` | After a sync, against a moving library and kills: roster, XML, singles and frozen code | 2 factors (1 moving), 2 groups, 2 codes; 5.2 million states |

`components` by part: stages, 2 submissions, 4 checks, 2 kills (31,182 states);
verdicts, up to 4 days with tolerance 1, pools of up to 2 rows over 3
correlations, arrays of 3 days and 3 ticks (445,526); batch, 3 rows
(101,013); produce, 1 factor with 2 versions, 2 days, 2 overlapping runs, 1 kill
(2.5 million); store, 2 clients, 3 operations, 1 death (5,435); mount, 2
entries, 3 attempts (1,548); setup, every layout with at most one group and one
path odd, one run (the rest).

Why the bounds are enough. Two submissions are the least for "the code
replaced" to exist and all comparisons are between an old and a new one. Two
processes: a process inside the lock excludes others, so an interference is one
locked process and one that acted, or scanned, before it; the second process can
start again as often as it likes. One crash and one fault show each point of
failure with everything that can follow; what a second one adds is a failure during
the repair, for which the safety theorems of `FactorOpsProofs` hold for any
number. Four checks let the third and fourth meet a workspace two earlier checks
left. Two factors let a group have a moved leg and a still one; two groups
exercise the numbering and disjointness. In `produce` factors do not interact
(lock, directories and results are per factor), so one is enough; two days
let a dataset be half of one version. In `doctor` one process suffices because
the doctor and pack are the others at work. Three rows let a blamed
row, an innocent one and one not begun exist at once. Four days hold a streak
with a gap and a tolerance crossed. Three attempts at a mount let one find what a
failed one and its rollback left. The named bounds of `MCComponents`:
`GatesWithOnePool` (with two pools, the case the property does not speak of, the
factor's own metrics are good) and `FewOdd` (setup layouts).

Deadlock is not checked in the configurations of `MCFactorOps`, where all
processes may rightly be idle with nothing left to do within the bounds, nor in
`Components`, where the bounds on checks, days, updates and attempts end every
behaviour. It is checked in `Doctor` and `Groups`: the doctor, or a job, can
always go on.

Fairness. `CheckingIsTransient`: `FairSpec` says `WF_vars(Continue(p))` for each
process, i.e. a command that was started runs on, which is what the operating
system gives a single-threaded process that waits for nobody (the lock is tried
once, never waited for). Nobody is obliged to start a command, and it is not
claimed where processes are killed. `BatchEnds`: `BFair` says weak fairness for
each worker (gsim runs under time limits), for the watching thread per future,
and for the main loop; nothing is assumed about kills, which may come at any
time or never. In `components` that fairness is only stated where the batch
moves.

What the properties say is in the comment above each. The ones that took most
steps to get right: `ActiveWasScreened` (through overwrite, restage, failures
and approve, the archived code is one that went through the stages),
`SourceLostOnlyBy` (archive, reject and restage always leave a copy, whatever
two processes do), `SnapshotIsLatestCheck` (two transactions around an event),
`CheckpointDiscriminates`/`StableNotRejected` (what the checkpoint stage
compares), `NoneForgotten` and `OneHome` (every factor has one producer after a
sync), `GroupFrozen`, `OkIsWhole` (what produce reports as done is by one code,
through retirement, restage, kills and a second run), `BatchEnds`,
`DoctorSparesLive` and `SweepRepairs`, `StoreIsSerial`.

`OneHome`, `Converged`, `NoneForgotten` and `FreshLegs` are stated while no job
has been interrupted: the sync computes what to do from PG alone, so XML that a
killed job left behind PG is not repaired by the next one (see the hazards).
After a crash of the bootstrap between a group's publication and the removal of
its singles a factor keeps two homes, and after one between the flags in PG and
the XML the two differ for good.
`GroupSelfContained`, `OneGroup`, `FreshSingles` and `GroupFrozen` hold after any
kill. `CorrelationBeatsAlike` is stated for one pool and excepts a highest signed
row that is low, `StoreIsSerial` excepts behaviours in which a constructor
emptied a file, `OkIsWhole` factors that `ops run` touched or whose archiving was
cut short: each exception is a case in which the model does show the opposite.
`SourceLostOnlyBy` is checked without faults: with one, submit's rollback
(`SubmitLateUndo`) can remove the staged copy after a check has removed the old
`alpha_src`.

## Where code and documentation disagree

Each of these runs checks one statement of the repository's documentation,
comments or messages and must find it violated. `PROJECT.json` quotes the
lines.

| run | what happens |
|---|---|
| `double_check` | Two checkers scan the same directory; the second locks after the first has archived, marks the ACTIVE factor CHECKING, fails to open staging and puts it to SUBMITTED with nothing queued. |
| `stale_xml` | A check holds the XML it scanned, an overwrite replaces the directory, the check writes its XML over the new one: new `.py`, old `.xml` are archived. |
| `stale_dump` | A second version rejected at correlation keeps the first version's dump; approve makes it ACTIVE with it. |
| `leftover_dump` | A full-history dump left by an interrupted check is what the next checkpoint stage compares, with itself. |
| `stale_checkpoint` | A single that left production and comes back with other code resumes from its old gsim checkpoint. |
| `adhoc_run` | `ops run` over an archived factor leaves a checkpoint, or after a kill its dates in the XML, with which produce then reports ok for a dataset with days missing. |

Noted without a run:

- `submit.py:50-51` says a directory already in staging is an orphan without a
  record; under `--overwrite` it may be queued code, and when the new code does
  not parse both are gone (`submit.py:222`) while the row stays SUBMITTED.
- `docs/architecture.md:242` says a rescan recovers what a crash left; a check
  killed between clearing staging and recording the rejection (`check.py:220`)
  leaves CHECKING, which no scan finds and which restage, approve and cancel
  refuse.
- The same holds of a check killed while it archives. ACTIVE is committed at
  `check.py:353`, the source moves at `repository.py:498`, the XML is written at
  `:545`, and the production checkpoint goes at `:546-548`. After a pass, killed
  before the last, the factor is ACTIVE with new code and the old checkpoint,
  and staging is gone, so no scan meets it again; killed before `:545` it comes
  to the same once `migrate_prod_xml` has run. produce then resumes the old
  state and reports ok for a dataset of two codes (`produce.py:11` says that a
  rerun converges). In the model `OkIsWhole` is violated without its exception
  for this. A rejection leaves staging in place until `check.py:220`, so there
  the rescan does repair.
- `jfs.py:206` says after a rollback that the old configuration runs again and
  the disk is unchanged: `systemctl start` (`:201`) does nothing when the
  service is active under the new unit, and the sidecar entries moved at `:228`
  are not moved back. An exception in the steps from stop to the sidecar takes
  no rollback at all, although `:18` says any failed step restores and restarts.
- `json_store.py:21` says every read-modify-write is under the lock; the
  constructor writes an empty file without it (`:27-28`) and may empty one that
  another client has made meanwhile.
- `correlation_checker.py:96-100` takes the magnitude of the last row for the
  largest correlation, and `docs/components/check-pipeline.md:77` and
  `docs/gsim/factor-validation.md:179` say `abs(max_bcorr)`;
  `core/metrics.py:49` says only the magnitude counts. bcorr sorts by signed
  value (`bcorr.cpp:253-256`, `docs/gsim/factor-workflow.md:279`): with one pool
  and the rows -0.9 and 0.1 the factor passes on 0.1, and the rival at -0.9 is
  never beaten. With two pools the last row is that of the second.
- `ops doctor`'s help (`cli/doctor.py:46`), the docstring of its families
  (`services/doctor/checks.py:6-7`) and `scripts/postgres/migrate_snapshot_at.py:8`
  offer a repair of `snapshot-stale`; the family has no fixer (`checks.py:458-461`,
  and `tests/test_doctor.py:320-322` says it was retired).
- `docs/design/factor-produce-v3.md:119` describes `produce --dry-run` as a
  look at new lines and at those to be stopped; without names it retires the
  checkpoint directories first (`produce.py:225-228` before `:246`).
- `prodxml.py:9` says that every rule applied twice is as good as once; a
  `Data` id that ends in `ModMod` loses one `Mod` each time (`:204-208`).
- `docs/components/commands.md:66,69` says restage and overwrite keep the pnl
  while the code purges it, and `:64` says an early rejection clears it while
  `on_reject` clears the dump only.

## Proofs

Everything below holds for every value of the constants (any number of
processes, factors, drivers, clients, submissions, days, crashes and faults),
where the runs above show one small instance. The assumptions are the named
`ASSUME`s of each module, which TLC evaluates in the runs; where a theorem has a
hypothesis of its own it is in the statement, and the text says what TLC finds
without it.

### FactorOpsProofs

| theorem | states |
|---|---|
| `Invariance` | `IInv` below is an invariant |
| `TypeCorrect` | `[]TypeOK` |
| `MutualExclusion` | `[]LockHeld`: a process is in a locked step exactly when it holds the lock, through returns, exceptions and kills |
| `CancelIsSafe` | `[]CancelNeverDropsSource` |
| `RestageCommits` | `[]RestageNeverConflicts` |
| `RecordsStay` | `[]RecordHeld` |
| `RejectionsExplained` | `[]RejectionExplained` |
| `EnteredAtSurvives` | `EnteredOnce` |

The argument. None of these is inductive by itself: that `CancelDelete` finds a
factor that never entered depends on nobody changing the row or `alpha_src`
since `CancelUnstage` looked. The invariant therefore adds, for each process,
what its present step relies on (`Promise(p)`), the exclusion that makes promises
last (`LockHeld`, in `Control`), the types (`Data`) and two facts about the row
(`RowInv`). A step of a locked process preserves its own promise by what it
writes and the others' vacuously: nobody else is at a step that promises
anything (`Excluded`). A step outside the lock (starting, scanning, writing an
XML into staging, the late rollback) touches neither row nor library, so
promises stand (`OutsideStep`). There is one lemma per group of steps
(`SubmitPreserves` to `CrashPreserves`) and one temporal step per theorem.

These four parts are `Core`; `IInv` adds that the lock is a process's or free.
They are kept apart because the doctor takes the same lock without being one of
`Proc`: `DoctorProofs` reuses the lemma that a command's step preserves `Core`
(`StepPreserves`) beside a lock that may be the doctor's.

### FactorOpsSectionProofs

| theorem | states |
|---|---|
| `SectionInvariance` | `SInv` below is an invariant |
| `RejectedSourceArchived` | `RejectedIsArchived`, until something crashes |
| `CheckingHeld` | `CheckingOnlyUnderLock`, until the first crash or fault |
| `StagingMarked` | `MetaMarksWhole`, until the first crash or fault |
| `SourceSurvives` | `SourceLostOnlyBy`, if there are no faults; any number of crashes |

The argument. Since only one process is inside, the state of a section is that of
its holder: `section` is the step the holder is at ("free" if there is none),
`work` its locals. The parts of `SInv` say what row and disk are at each step:
where a source is (`Kept`, `Archived`), what the row says meanwhile (`Consumed`),
which staging copies are whole (`Complete`). Steps outside the lock hardly
matter to them. The condition "until the first crash" is a conjunct of the state
(`crashes = 0 => ...`), so the theorems are about every specification, with
crashes too.

The conditions are needed: on the instance of `any_two` with one crash, or with
one fault, TLC finds each of these properties violated where the theorem excludes
it. For `SourceLostOnlyBy` it takes an overwrite that raises and leaves the lock
before its rollback (`SubmitLateUndo`); a check gets the lock, the rollback
removes the staging copy under it, and the check's rejection removes the archived
copy to put the staged one in its place.

### FactorOpsCheckerProofs

Under `SoleChecker` (at most one process may run `check`; any number of others
do everything else):

| theorem | states |
|---|---|
| `CheckerInvariance` | `KInv` below is an invariant |
| `ActiveScreened` | `ActiveWasScreened`, until something crashes |
| `SnapshotsCurrent` | `SnapshotIsLatestCheck`, until the first crash or fault |
| `PoolIsActive` | `PoolHoldsOnlyActive`, until the first crash or fault |
| `PnlFollowsSource` | `PnlMatchesSource`, until the first crash or fault |
| `Refinement` | `Implements`, without crashes and faults |
| `ActiveIsLeftByOperators` | `OnlyOperatorsLeaveActive`, without crashes and faults |

The argument. `KInv` adds to `SInv` that the checker in the section is the only
one that could rewrite the staged XML or be queued for the lock (`Alone`). So from
the stages to the archive the staged copy is the code the stages ran
(`Screened`), a queued check finds the factor SUBMITTED as it was scanned
(`Queued`), and the snapshot, pool copy and pnl follow the section's steps
(`Measured`, `Pooled`, `Printed`). For the refinement each step is mapped to a
step of `FactorLifecycle` or a stutter, one lemma for each group of commands.

The hypotheses are needed. With two checkers `double_check` shows the second
take an ACTIVE factor out of the library's status. With one crash or one fault
TLC finds `Implements` and `OnlyOperatorsLeaveActive` violated on the instance of
`one_checker`: a kill or an error after the row says ACTIVE leaves the staging
directory, and the next check of it moves a factor that is not SUBMITTED. So it
does the three agreement properties, with a crash as with a fault, and
`ActiveWasScreened` with a crash.

### CheckPipelineProofs

| theorem | states |
|---|---|
| `Invariance`, `TypeCorrect` | `IInv` below, `TypeOK` |
| `HalvesAlwaysMatch` | `[]HalvesMatch` |
| `JudgesSeeThisRun` | `[]JudgedOnThisRun` |
| `ModuleAlwaysExists` | `[]ModuleExists` |
| `StableIsSpared` | `StableNotRejected` |
| `StageDiscriminates` | `CheckpointDiscriminates` |

The argument. `IInv` says for each stage what the earlier ones have made of the
workspace (`Progress`): no `archive.bin` before checkbias, a whole month and its
checkpoint before the checkpoint stage, an empty workspace before the full
backtest. `Modules` and `Files` say which `.py` the XML names and which files
killed checks may have left. The two action properties compare the dumps before
and after the resumed run, whose result is determined by `Progress` and by
whether the code is in `Stable`.

### ProductionGroupsProofs

| theorem | states |
|---|---|
| `Invariance` | `IInv` below is an invariant |
| `TypeCorrect` | `[]TypeOK`; in it: only members of a group are muted in it |
| `GroupsComplete` | `[]GroupSelfContained` |
| `GroupsDisjoint` | `[]OneGroup` |
| `FrozenForGood` | `GroupFrozen` |
| `SinglesFresh` | `[]FreshSingles` |
| `SyncInvariance` | `HInv` below is an invariant |
| `HomesAreOne` | `[]OneHome` |
| `GroupsConverged` | `[]Converged` |
| `NobodyForgotten` | `[]NoneForgotten` |
| `LegsFresh` | `[]FreshLegs` |

The argument. That the bootstrap publishes complete groups only depends on what
it has done so far to a directory no other step writes: `Building` says that
from freezing to publishing it works on a number that is not in PG, on factors
in no group, and that what it has left behind of its list is frozen. That the
sync never damages a group depends on what it remembers between reading the XML
and writing it: `Converging` says these legs are within the roster of its group,
also while it is away admitting a single. `IInv` joins them to the types and to
the two properties. `FrozenForGood` follows from `IInv` step by step
(`KeptStep`): whatever writes a directory's legs or code works on an unpublished
number. `SinglesFresh` needs more (`FInv`): the registry is within what the sync
takes for singles, so that each entry is compared (`Known`), and whatever has
been compared or copied is current unless the library has touched it (`Compared`).

The other four depend on how far the loop over groups has come, because it
changes muted flags, dump flags and the registry of singles at different moments.
`Ahead(g)` is what the muted flags of a group will come to; it does not move
while the loop is in `g`. With it, `HInv` says (as long as nothing was
interrupted) that XML and flags agree or will when the loop saves (`Agreed`),
that a single on a roster is muted, about to be promoted, or about to be retired
(`Homes`), what is true of the groups that have been compared (`Settled`), and
whom the sync has yet to admit (`Pending`). Each property is the case of `HInv`
in which the sync is over.

### ProduceProofs

| theorem | states |
|---|---|
| `ProduceInvariance` | `PInv` below is an invariant |
| `ProducedIsWhole` | `OkIsWhole` |

The argument. As long as `ops run` has left a factor alone since it was archived,
its checkpoint is of the source in place and the days up to it are that
source's (`Resumable`), and the gsim process that holds its lock started from the
first day or from such a checkpoint (`Continues`). The source changes only where
a check archives, and the checkpoint becomes void two steps later: in between
`Resumable` says nothing of the factor, and needs to say nothing, because the
check has the lock (`Archiving`) and no gsim process reads the checkpoint. A
check that is cut short in between puts a factor that has a checkpoint into
`touched`. `PInv` excepts the factors in `touched`, for which `adhoc_run` and the
killed archive show the opposite.

### DoctorProofs

| theorem | states |
|---|---|
| `DoctorInvariance`, `DoctorTypes` | `DInv` below, `DTypeOK` |
| `DoctorIsSafe` | `DoctorSparesLive` |
| `ReferralsAreSafe` | `[]RmReferralIsSafe` |
| `SweepConverges` | `[]SweepRepairs` |

They have no hypothesis: any commands of any processes, crashes and faults, packs
beside the doctor, any drift at the start. The doctor is one more holder of the
lock, so the commands keep `Core` (`Holders`), and what it has read of the row
under the lock stands until it has repaired (`Rechecked`). In a pass nobody
disturbed, the inventory still describes row and disk (`Surveyed`), each
drift that is left is on its lists (`Accounted`), and an empty list of repairs means
none is left. `Bare` covers names that PG knows by identity only.

### ComponentProofs

| theorem | states |
|---|---|
| `StoreSerial` | `[]StoreIsSerial` (`JsonStore`) |
| `SwitchWhole` | `[]SwitchIsWhole` (`MountSwitch`) |
| `SetupSuffices` | `[]OneSetupSuffices` (`SetupLayout`) |
| `FirewallHolds` | `[]NoFutureDay` (`Verdicts`) |
| `ComplianceIsRight` | `[]ComplianceIsByValidDays` (`Verdicts`) |
| `RejectionStands` | `[]RejectionStandsOnRead` (`Verdicts`) |
| `CorrelationIsRight` | `[]CorrelationBeatsAlike` (`Verdicts`) |

The arguments. *Store* (`JInv`): who is between read and replace has the lock
file, so what it read is still the file's content, and only the holder removes
temporaries. *Switch* (`SwitchInv`): for each step of a migration what has been
written, read by systemd and unmounted by then, and that what is saved is A's.
*Setup* (`LInv`): what the report says of the first rows is true of the machine
as it is, because no fix changes what an earlier row sees (`LaterKeeps`).
*Firewall*: a slice or index that passes the checks ends below the exclusive
limit, and numpy's negative numbers count from the end of the truncated array.
*Compliance* (`CompInv`): after k days the counters are those of the first k
files; the current streak and the longest are the number of days with data in
some unbroken interval, and no such interval has more (`Streak`, `Best`).
*Rejection*: replacing unreadable days only adds to the days with data and to
those that violate. *Correlation* (`CorrInv`): rivals no longer on the list have
been beaten; the output is sorted by signed value, so its last row is the highest
(`LastIsTop`), and it speaks for the others exactly where it is not low, which is
what the property says.

### Only model-checked

Liveness under fairness (`CheckingIsTransient`, `BatchEnds`) is outside what the
prover handles, so `LiveBatch`, whose one property it is, has no theorem. The
properties of the runs that expect a violation are refuted, not proved.
`RejectionExplained`, the fact of `RejectionsExplained`, is proved and no run
checks it. No module
computes anything recursively: loops are steps of a state machine, and what they
compute is proved through their invariants.

gsim, numpy and systemd are external: what they leave or return is taken from
how the code uses them, in the proofs as in the runs. Of bcorr the order of the
output is modelled from its source, the values are inputs.

## Not modelled

- Submit's normalisation and the parsing of `.py` and `.xml`: text; their failure
  is a branch of `SubmitParse`. A dropbox directory that brings its own
  `meta.json` is no input of the model.
- PG pools, SQL, the queries behind list, info and status, the info and snapshot
  stores as such: their effects are steps of `FactorOps`.
- A lock session lost under a living process: no property that rests on the lock
  would hold, and the code has nothing to check against.
- gsim: external; what a run, a failed or a killed one leaves behind is part of
  the modules that call it. Starting processes and reading their output is I/O.
- pack's matrices and the dates they cover: data.
- The AST rewriting of checkbias: an outcome.
- Of production groups: the pre-check that mutes broken legs before a run, the
  merge conflicts of `group.xml` and its content beyond legs and dump flags, a
  gsim run of a group, and two jobs at once (which nothing in the code prevents).
- Of the doctor: the `timeline-drift` family, alien entries, the path guards and
  the `FamilySkip` of a wrong `alpha_dump`.
- The one-off scripts but `bootstrap_groups.py` and `migrate_prod_xml.py`
  (`scripts/data-audit` and the like): reports and repairs of data by hand.
- Configuration, argument parsing, formatting, provisioning scripts.

## Plan

The modules above are what the model is meant to have, and every safety property
of a passing run is a theorem. What is left:

1. `LiveBatch`: the invariants behind `BatchEnds` (which rows, futures and queue
   entries account for each other) as theorems, so that what stays with TLC is
   the fairness argument alone.
2. The refinement `Implements` for any number of checkers, over what two of them
   do leave true (`FactorLifecycle` with the return to SUBMITTED that
   `double_check` shows).
3. `CorrelationBeatsAlike` for two pools, over the row the code takes for the
   largest.
