----------------------------- MODULE JsonStore ------------------------------
(***************************************************************************)
(* JsonStateStore, the state backend of development and tests: one JSON    *)
(* file, an exclusive flock around every read-modify-write, and a          *)
(* temporary file that replaces it.  One factor's record stands for the    *)
(* file.  The constructor makes a missing file without the lock.           *)
(***************************************************************************)
EXTENDS Naturals, FiniteSets

CONSTANTS
    Client,       \* processes that use the store
    NoClient,     \* nobody holds the flock
    MaxUpdates,   \* bound: operations begun
    MaxDeaths     \* bound: clients killed

ASSUME StoreAssumption == NoClient \notin Client /\ {MaxUpdates, MaxDeaths} \subseteq Nat

VARIABLES
    file,      \* the JSON file: NoFile, Empty, or the record [status, checks]
    flock,     \* who holds the lock file
    temps,     \* temporary files: [by, old]
    client,    \* client[c]: [pc, op, raw: what it has read]
    begun,     \* operations begun; also the name of the check the next one appends
    deaths,
    committed, \* history: what the operations that have replaced the file make of it
    recreated  \* history: a constructor has emptied a file that was there

jvars == <<file, flock, temps, client, begun, deaths, committed, recreated>>
history == <<committed, recreated>>

Record(status, checks) == [status |-> status, checks |-> checks]
NoStore == Record("no file", {})
NoRecord == Record("no record", {})
StateOf == {"submitted", "active"}

Out == [pc |-> "out", op |-> "none", raw |-> NoStore]
Ready == [pc |-> "ready", op |-> "none", raw |-> NoStore]

JInit ==
    /\ file \in {NoStore, Record("submitted", {})} /\ committed = file
    /\ flock = NoClient /\ temps = {} /\ begun = 0 /\ deaths = 0 /\ recreated = FALSE
    /\ client = [c \in Client |-> Out]

Goes(c, pc) == client' = [client EXCEPT ![c].pc = pc]

(***************************************************************************)
(* The constructor.                                                        *)
(***************************************************************************)
Construct(c) ==
    /\ client[c].pc = "out"
    /\ IF file = NoStore THEN Goes(c, "create") ELSE client' = [client EXCEPT ![c] = Ready]
    /\ UNCHANGED <<file, flock, temps, begun, deaths, history>>

\* The file it did not see may be there by now, with records in it.
CreateFile(c) ==
    /\ client[c].pc = "create"
    /\ file' = NoRecord /\ committed' = NoRecord
    /\ recreated' = (recreated \/ file # NoStore)
    /\ client' = [client EXCEPT ![c] = Ready]
    /\ UNCHANGED <<flock, temps, begun, deaths>>

(***************************************************************************)
(* An operation.  op is "put", "append", "delete", "get" or a transition   *)
(* [to, expect] where expect may be any status.                            *)
(***************************************************************************)
Operation == {"put", "append", "delete", "get", "activate", "activate if submitted"}

\* What an operation makes of a record, and whether it writes at all: append,
\* delete and transition need the record, a transition the status it expects,
\* and put and transition keep the checks.
Writes(op, r) ==
    \/ op = "put"
    \/ op \in {"append", "delete", "activate"} /\ r.status \in StateOf
    \/ op = "activate if submitted" /\ r.status = "submitted"
After(op, r, id) ==
    CASE op = "put" -> Record("submitted", r.checks)
      [] op = "append" -> Record(r.status, r.checks \cup {id})
      [] op = "delete" -> NoRecord
      [] OTHER -> Record("active", r.checks)

\* Deviation: the file is read before the lock is taken.
BeginEarly(c, op) ==
    /\ client[c].pc = "ready" /\ begun < MaxUpdates
    /\ begun' = begun + 1
    /\ temps' = {t \in temps : ~t.old}
    /\ client' = [client EXCEPT ![c] = [pc |-> "modify", op |-> op, raw |-> file]]
    /\ UNCHANGED <<file, flock, deaths, history>>
\* _locked and _read_raw: the lock, the removal of old temporaries, the read.
BeginOp(c, op) ==
    /\ client[c].pc = "ready" /\ flock = NoClient /\ begun < MaxUpdates
    /\ begun' = begun + 1
    /\ flock' = c
    /\ temps' = {t \in temps : ~t.old}
    /\ client' = [client EXCEPT ![c] = [pc |-> "modify", op |-> op, raw |-> file]]
    /\ UNCHANGED <<file, deaths, history>>

Unlocked(c) == IF flock = c THEN NoClient ELSE flock
Leaves(c) == /\ client' = [client EXCEPT ![c] = Ready] /\ flock' = Unlocked(c)

\* get, an unknown name, a conflict: nothing is written.
Reads(c) ==
    /\ client[c].pc = "modify" /\ ~Writes(client[c].op, client[c].raw)
    /\ Leaves(c)
    /\ UNCHANGED <<file, temps, begun, deaths, history>>

WriteTemp(c) ==
    /\ client[c].pc = "modify" /\ Writes(client[c].op, client[c].raw)
    /\ temps' = temps \cup {[by |-> c, old |-> FALSE]}
    /\ Goes(c, "replace")
    /\ UNCHANGED <<file, flock, begun, deaths, history>>

\* os.replace, which needs the temporary file.
Replace(c) ==
    /\ client[c].pc = "replace"
    /\ \E t \in temps : t.by = c /\ temps' = temps \ {t}
    /\ file' = After(client[c].op, client[c].raw, begun)
    /\ committed' = IF Writes(client[c].op, committed)
                    THEN After(client[c].op, committed, begun) ELSE committed
    /\ Leaves(c)
    /\ UNCHANGED <<begun, deaths, recreated>>

\* The write or the sync fails: the temporary file is removed.
WriteFails(c) ==
    /\ client[c].pc = "replace"
    /\ temps' = {t \in temps : t.by # c}
    /\ Leaves(c)
    /\ UNCHANGED <<file, begun, deaths, history>>

\* Killed: the lock is freed by the system, a temporary file stays.
ClientDies(c) ==
    /\ client[c].pc # "out" /\ deaths < MaxDeaths
    /\ deaths' = deaths + 1
    /\ client' = [client EXCEPT ![c] = Out] /\ flock' = Unlocked(c)
    /\ UNCHANGED <<file, temps, begun, history>>

\* An hour passes over a temporary file, its writer alive or dead.
Ages ==
    /\ \E t \in temps : ~t.old /\ temps' = (temps \ {t}) \cup {[t EXCEPT !.old = TRUE]}
    /\ UNCHANGED <<file, flock, client, begun, deaths, history>>

JNext == Ages \/ \E c \in Client :
    \/ Construct(c) \/ CreateFile(c) \/ Reads(c) \/ WriteTemp(c) \/ Replace(c)
    \/ WriteFails(c) \/ ClientDies(c)
    \/ \E op \in Operation : BeginOp(c, op)
JSpec == JInit /\ [][JNext]_jvars

(***************************************************************************)
(* Properties.                                                             *)
(***************************************************************************)
\* No update is lost and none is applied to a record it did not expect: the file
\* is what the operations, one after the other at the moment they replaced it,
\* make of the file as it was created; and a writer still has its temporary file
\* when it needs it, however long it took (json_store.py:34-38).  All this only
\* where no constructor emptied a file that another one had made first.
StoreIsSerial ==
    recreated \/
    /\ (\A c \in Client : client[c].pc # "modify" /\ client[c].pc # "replace") => file = committed
    /\ \A c \in Client : client[c].pc = "replace" => \E t \in temps : t.by = c
=============================================================================
