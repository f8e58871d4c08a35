----------------------------- MODULE LiveBatch ------------------------------
(***************************************************************************)
(* LiveDriver: how `ops check` follows its pool of worker processes.  Each *)
(* worker sends events through a queue and its future completes after it   *)
(* returned; a worker killed outright sends nothing more and breaks the    *)
(* pool, so that the futures of all unfinished workers complete with an    *)
(* exception.  A daemon thread sees the exceptions and makes up a "done"   *)
(* event for some row without one; the main loop applies events until it   *)
(* has counted as many done events as there are futures.  The counters and *)
(* the rendering are left out, and so are the events after a row's first:  *)
(* the thread only asks whether a row has begun.                           *)
(***************************************************************************)
EXTENDS Naturals, Sequences, FiniteSets
LOCAL INSTANCE SequencesExt

CONSTANT Row     \* the factors of the batch, numbered in the order of the table

ASSUME RowAssumption == IsFiniteSet(Row) /\ Row # {} /\ Row \subseteq Nat

VARIABLES
    worker,    \* worker[r]: "queued", "running" (its first event sent), "reported", "gone"
    future,    \* future[r]: "pending", "returned", or "broken" by a dead process
    queue,     \* events on their way to the main loop
    row,       \* row[r]: "pending", "flight" or "done", the table of the main loop
    remaining, \* done events the main loop still waits for
    watcher    \* [seen: futures looked at, made: rows it made up an event for]

bvars == <<worker, future, queue, row, remaining, watcher>>

Event == [kind: {"stage_start", "done"}, r: Row]

BInit ==
    /\ worker = [r \in Row |-> "queued"]
    /\ future = [r \in Row |-> "pending"]
    /\ queue = <<>>
    /\ row = [r \in Row |-> "pending"]
    /\ remaining = Cardinality(Row)
    /\ watcher = [seen |-> {}, made |-> {}]

(***************************************************************************)
(* Workers.  run_one catches every exception, so that each worker that     *)
(* lives sends exactly one done event, last: at once when the directory    *)
(* does not match, the lock is taken or the preamble fails.                *)
(***************************************************************************)
Sent(r, kind) == queue' = Append(queue, [kind |-> kind, r |-> r])

WorkerStage(r) ==
    /\ worker[r] = "queued"
    /\ worker' = [worker EXCEPT ![r] = "running"]
    /\ Sent(r, "stage_start")
    /\ UNCHANGED <<future, row, remaining, watcher>>

WorkerDone(r) ==
    /\ worker[r] \in {"queued", "running"}
    /\ worker' = [worker EXCEPT ![r] = "reported"]
    /\ Sent(r, "done")
    /\ UNCHANGED <<future, row, remaining, watcher>>

WorkerReturns(r) ==
    /\ worker[r] = "reported"
    /\ worker' = [worker EXCEPT ![r] = "gone"]
    /\ future' = [future EXCEPT ![r] = "returned"]
    /\ UNCHANGED <<queue, row, remaining, watcher>>

\* A worker is killed (out of memory, a segfault): BrokenProcessPool is set on
\* every future that is not done, and the pool ends the other workers.
Killed ==
    LET unfinished == {r \in Row : future[r] = "pending"} IN
    /\ unfinished # {}
    /\ future' = [r \in Row |-> IF r \in unfinished THEN "broken" ELSE future[r]]
    /\ worker' = [r \in Row |-> "gone"]
    /\ UNCHANGED <<queue, row, remaining, watcher>>

(***************************************************************************)
(* The watching thread takes the futures as they complete.                 *)
(***************************************************************************)
Candidates == {r \in Row \ watcher.made : row[r] # "done"}
InFlight == {r \in Candidates : row[r] = "flight"}
First(rows) == {r \in rows : \A other \in rows : r <= other}

\* Deviation: only a row that has begun is blamed.
TargetsInFlight == First(InFlight)
\* The first row that has begun, or else the first that is not done.
Targets == First(IF InFlight # {} THEN InFlight ELSE Candidates)

Watch(r) ==
    /\ future[r] # "pending" /\ r \notin watcher.seen
    /\ LET blamed == IF future[r] = "broken" THEN Targets ELSE {} IN
        /\ watcher' = [seen |-> watcher.seen \cup {r}, made |-> watcher.made \cup blamed]
        /\ queue' = queue \o SetToSeq({[kind |-> "done", r |-> b] : b \in blamed})
    /\ UNCHANGED <<worker, future, row, remaining>>

(***************************************************************************)
(* The main loop, on a terminal or not, applies one event after the other  *)
(* and counts the done ones.                                               *)
(***************************************************************************)
\* What an event makes of its row: an outcome, once there, stays.
Applied(ev) ==
    IF ev.kind = "done" \/ row[ev.r] = "done" THEN "done" ELSE "flight"

Drain ==
    /\ remaining > 0 /\ queue # <<>>
    /\ LET ev == Head(queue) IN
        /\ row' = [row EXCEPT ![ev.r] = Applied(ev)]
        /\ remaining' = IF ev.kind = "done" THEN remaining - 1 ELSE remaining
    /\ queue' = Tail(queue)
    /\ UNCHANGED <<worker, future, watcher>>

WorkerStep(r) == WorkerStage(r) \/ WorkerDone(r) \/ WorkerReturns(r)
BNext == (\E r \in Row : WorkerStep(r) \/ Watch(r)) \/ Killed \/ Drain

\* The operating system runs the pool, the thread and the main loop, and a
\* worker's stages have time limits; nothing says that anyone is killed.
BFair == (\A r \in Row : WF_bvars(WorkerStep(r)) /\ WF_bvars(Watch(r))) /\ WF_bvars(Drain)
BSpec == BInit /\ [][BNext]_bvars /\ BFair

\* The command ends, whichever workers are killed and when: the main loop is
\* never left waiting for an event that nobody will send (live_table.py:184-188).
BatchEnds == <>(remaining = 0)
=============================================================================
