--------------------------- MODULE ReferenceLedger ---------------------------
(***************************************************************************)
(* schema init and the ledger of its validations (commands/                *)
(* schema_init_cmd.py, schema_graph/reference.py, reference_validation.py, *)
(* reference_state.py): each answered query is kept as a result artifact,  *)
(* and a ledger says for every route of the reference what was found and   *)
(* in which artifact.  Ledgers are immutable files named by their content; *)
(* current.json points to the latest, a scope pointer to the latest of     *)
(* each reference and options, and files without a pointer are collected.  *)
(* Ledgers are read without a lock, while others are published, and        *)
(* results prune deletes old artifacts no live ledger refers to.           *)
(*                                                                         *)
(* A ledger is identified with its content, a reference snapshot with its  *)
(* number.  The physical schema and the queries of the routes stay the     *)
(* same, so validation_contract_matches holds within a scope, and every    *)
(* route compiles.  The four statuses of a counted answer are one.         *)
(***************************************************************************)
EXTENDS Naturals, FiniteSets

CONSTANTS
    Proc,           \* processes
    NoOne,          \* nobody holds the lock
    NoLedger,       \* a pointer that does not exist
    Routes,         \* the number of routes, validated in order
    Parameters,     \* values of lookback, samples and row_limit
    Commands,       \* command lines
    Faults,         \* which of "crash", "write" and "timeout" may happen
    MaxReference, MaxRun, MaxDay, MaxCommands, MaxFaults  \* bounds

Route == 1..Routes
Scopes == [reference : 1..MaxReference, options : Parameters]
Records == [status : {"none", "pending", "claim", "failed", "invalid"}, run : Nat]
Ledgers == [scope : Scopes, routes : [Route -> Records]]

ASSUME LedgerAssumption ==
    /\ NoOne \notin Proc /\ NoLedger \notin Ledgers
    /\ Routes \in Nat /\ MaxReference \in Nat /\ MaxRun \in Nat /\ MaxDay \in Nat
    /\ MaxCommands \in Nat /\ MaxFaults \in Nat
    /\ Commands \subseteq [op : {"init", "read", "prune"}, options : Parameters,
                           sync : BOOLEAN, revalidate : BOOLEAN, queries : Nat]

VARIABLES
    reference,          \* the current reference snapshot, 0 before the first
    files,              \* ledger files
    current, scoped,    \* the pointers
    data, meta, made,   \* files of the artifacts, and the day each was written
    last,               \* the latest run
    now,                \* the day
    lock,               \* who holds the schema evidence lock
    pc, task,           \* where each process is, and its local variables
    left, faults,       \* commands and faults still to come
    stale               \* history: a ledger was published over one its writer had not read

ledgers == <<files, current, scoped>>
artifacts == <<data, meta, made, last>>
vars == <<reference, ledgers, artifacts, now, lock, pc, task, left, faults, stale>>

None == [status |-> "none", run |-> 0]
Pending == [status |-> "pending", run |-> 0]
NoRecords == [r \in Route |-> None]

\* path, held: the pointer read and what it said; tries: _read_retries; moves: publications
\* meanwhile; base: the ledger the records come from; intent: the status to be published; then: where it goes on after the save.
Tasks == [op : {"none", "init", "read", "prune"}, scope : Scopes \cup {NoLedger},
          revalidate : BOOLEAN, queries : Nat, path : {"current", "scope"}, held : Ledgers \cup {NoLedger}, tries : 0..2,
          moves : 0..2, base : Ledgers \cup {NoLedger}, records : [Route -> Records],
          next : 1..(Routes + 1), stopped : BOOLEAN, intent : {"none", "claim", "failed"},
          then : {"route", "end"}, doomed : SUBSET Nat]

NoTask == [op |-> "none", scope |-> NoLedger, revalidate |-> FALSE, queries |-> 0,
           path |-> "current", held |-> NoLedger, tries |-> 0, moves |-> 0, base |-> NoLedger,
           records |-> NoRecords, next |-> 1, stopped |-> FALSE, intent |-> "none",
           then |-> "end", doomed |-> {}]

Labels == {"idle", "pointer", "ledger", "missing", "unreadable", "route", "lock", "data", "meta", "file",
           "current", "scope", "collect", "plan", "delete"}

TypeOK ==
    /\ reference \in 0..MaxReference
    /\ files \subseteq Ledgers
    /\ current \in Ledgers \cup {NoLedger}
    /\ scoped \in [Scopes -> Ledgers \cup {NoLedger}]
    /\ data \subseteq 0..MaxRun /\ meta \subseteq 0..MaxRun
    /\ made \in [1..MaxRun -> 0..MaxDay] /\ last \in 0..MaxRun
    /\ now \in 0..MaxDay
    /\ lock \in Proc \cup {NoOne}
    /\ pc \in [Proc -> Labels] /\ task \in [Proc -> Tasks]
    /\ left \in 0..MaxCommands /\ faults \in 0..MaxFaults
    /\ stale \in BOOLEAN

Init ==
    /\ reference = 0
    /\ files = {} /\ current = NoLedger /\ scoped = [s \in Scopes |-> NoLedger]
    /\ data = {} /\ meta = {} /\ made = [r \in 1..MaxRun |-> 0] /\ last = 0
    /\ now = 0 /\ lock = NoOne
    /\ pc = [p \in Proc |-> "idle"] /\ task = [p \in Proc |-> NoTask]
    /\ left = MaxCommands /\ faults = MaxFaults /\ stale = FALSE

At(p, label) == pc[p] = label
Goto(p, label, t) == pc' = [pc EXCEPT ![p] = label] /\ task' = [task EXCEPT ![p] = t]
Leave(p) == Goto(p, "idle", NoTask)
Free(p) == IF lock = p THEN NoOne ELSE lock

\* verify_validation_record: the saved result is there.
Whole(run) == run \in data \cap meta

Live == ({current} \cup {scoped[s] : s \in Scopes}) \ {NoLedger}

\* The runs a ledger claims.
Claims(l) == {l.routes[r].run : r \in {r \in Route : l.routes[r].status \in {"claim", "failed"}}}

-----------------------------------------------------------------------------
(* Commands.                                                               *)

Begin(p, c, label, scope) ==
    /\ At(p, "idle") /\ left > 0
    /\ left' = left - 1
    /\ Goto(p, label, [NoTask EXCEPT !.op = c.op, !.scope = scope, !.revalidate = c.revalidate,
                                     !.queries = c.queries, !.tries = 2,
                                     !.moves = IF lock # NoOne /\ c.op # "prune"
                                               THEN 1 ELSE 0])
    /\ UNCHANGED <<ledgers, artifacts, now, lock, faults, stale>>

\* _initialize: a snapshot is downloaded on request and when there is none.
StartInit(p, c) ==
    /\ c.op = "init"
    /\ reference' = IF c.sync \/ reference = 0 THEN reference + 1 ELSE reference
    /\ reference' <= MaxReference
    /\ Begin(p, c, "pointer", [reference |-> reference', options |-> c.options])

\* _compose_effective, where any options do.
StartRead(p, c) ==
    /\ c.op = "read" /\ reference # 0
    /\ Begin(p, c, "pointer", [reference |-> reference, options |-> c.options])
    /\ UNCHANGED reference

StartPrune(p, c) ==
    /\ c.op = "prune"
    /\ Begin(p, c, "lock", NoLedger)
    /\ UNCHANGED reference

Start(p) == \E c \in Commands : StartInit(p, c) \/ StartRead(p, c) \/ StartPrune(p, c)

-----------------------------------------------------------------------------
(* load_validation_state.                                                  *)

\* The scope's pointer if options are given and it exists, else current.json.
Path(t) == IF t.op = "init" /\ scoped[t.scope] # NoLedger THEN "scope" ELSE "current"
Pointer(t, path) == IF path = "scope" THEN scoped[t.scope] ELSE current

Loaded(p, l) ==
    IF task[p].op = "read" THEN Leave(p)
    ELSE Goto(p, "route", [task[p] EXCEPT !.base = l, !.path = "current", !.held = NoLedger,
                                          !.tries = 0, !.moves = 0,
                                          !.records = IF l = NoLedger THEN NoRecords
                                                      ELSE l.routes])

ReadPointer(p) ==
    LET t == task[p]  path == Path(t) IN
    /\ At(p, "pointer")
    /\ IF Pointer(t, path) = NoLedger THEN Loaded(p, NoLedger)
       ELSE Goto(p, "ledger", [t EXCEPT !.path = path, !.held = Pointer(t, path)])
    /\ UNCHANGED <<reference, ledgers, artifacts, now, lock, left, faults, stale>>

\* A ledger of another reference or, for init, of other options is none.
Fits(l, t) ==
    /\ l.scope.reference = t.scope.reference
    /\ t.op = "init" => l.scope.options = t.scope.options

ReadLedger(p) ==
    LET t == task[p] IN
    /\ At(p, "ledger")
    /\ IF t.held \in files THEN Loaded(p, IF Fits(t.held, t) THEN t.held ELSE NoLedger)
       ELSE Goto(p, "missing", t)
    /\ UNCHANGED <<reference, ledgers, artifacts, now, lock, left, faults, stale>>

\* Variant: a file that is not there is an error.
RetryNever(p) ==
    /\ At(p, "missing")
    /\ Goto(p, "unreadable", task[p])
    /\ UNCHANGED <<reference, ledgers, artifacts, now, lock, left, faults, stale>>

\* The file was collected: again, if the pointer has moved since.
Retry(p) ==
    LET t == task[p] IN
    /\ At(p, "missing")
    /\ IF t.tries > 0 /\ Pointer(t, t.path) # t.held
       THEN Goto(p, "pointer", [t EXCEPT !.tries = @ - 1])
       ELSE Goto(p, "unreadable", t)
    /\ UNCHANGED <<reference, ledgers, artifacts, now, lock, left, faults, stale>>

\* ReferenceError ends the command, unless all is validated anew.
Unreadable(p) ==
    /\ At(p, "unreadable")
    /\ IF task[p].op = "init" /\ task[p].revalidate THEN Loaded(p, NoLedger) ELSE Leave(p)
    /\ UNCHANGED <<reference, ledgers, artifacts, now, lock, left, faults, stale>>

-----------------------------------------------------------------------------
(* validate_reference: one route after the other.                          *)

Old(t) == t.records[t.next]

\* _fresh, within one day of the answer.
Reusable(t) ==
    /\ ~t.revalidate /\ Old(t).status = "claim"
    /\ Whole(Old(t).run) /\ made[Old(t).run] = now

Deferred(t) == t.queries = 0 \/ t.stopped

Validating(p) == At(p, "route") /\ task[p].next <= Routes
Asked(p) == Validating(p) /\ ~Reusable(task[p]) /\ ~Deferred(task[p])

Reuse(p) ==
    /\ Validating(p) /\ Reusable(task[p])
    /\ Goto(p, "route", [task[p] EXCEPT !.next = @ + 1])
    /\ UNCHANGED <<reference, ledgers, artifacts, now, lock, left, faults, stale>>

\* A failure that still verifies stays, and anything else is pending.
Defer(p) ==
    LET t == task[p] IN
    /\ Validating(p) /\ ~Reusable(t) /\ Deferred(t)
    /\ Goto(p, "route",
            [t EXCEPT !.next = @ + 1,
                      !.records[t.next] = IF @.status = "failed" /\ Whole(@.run) THEN @
                                          ELSE Pending])
    /\ UNCHANGED <<reference, ledgers, artifacts, now, lock, left, faults, stale>>

\* The query is answered with counts or refused; the answer is published and then saved.
Answer(p) ==
    /\ Asked(p)
    /\ \E status \in {"claim", "failed"} :
         Goto(p, "lock", [task[p] EXCEPT !.queries = @ - 1, !.intent = status, !.then = "route"])
    /\ UNCHANGED <<reference, ledgers, artifacts, now, lock, left, faults, stale>>

\* No usable answer: a wrong shape; a service that asks for a pause; any other error,
\* which is raised once the state is saved.
NoAnswer(p) ==
    LET t == [task[p] EXCEPT !.queries = @ - 1, !.records[task[p].next] = Pending] IN
    /\ Asked(p)
    /\ \/ Goto(p, "lock", [t EXCEPT !.records[t.next].status = "invalid", !.then = "route"])
       \/ Goto(p, "lock", [t EXCEPT !.stopped = TRUE, !.then = "route"])
       \/ Goto(p, "lock", [t EXCEPT !.then = "end"])
    /\ UNCHANGED <<reference, ledgers, artifacts, now, lock, left, faults, stale>>

LastSave(p) ==
    /\ At(p, "route") /\ task[p].next > Routes
    /\ Goto(p, "lock", [task[p] EXCEPT !.then = "end"])
    /\ UNCHANGED <<reference, ledgers, artifacts, now, lock, left, faults, stale>>

-----------------------------------------------------------------------------
(* Publication, under the evidence lock: publish_validation_record with an *)
(* answer, save_validation_state without.                                  *)

Reading(q) == pc[q] \in {"pointer", "ledger", "missing"}

Take(p) ==
    /\ lock' = p
    /\ pc' = [pc EXCEPT ![p] = IF task[p].op = "prune" THEN "plan"
                               ELSE IF task[p].intent # "none" THEN "data" ELSE "file"]
    /\ task' = [q \in Proc |->
                    IF task[p].op = "init" /\ Reading(q) /\ task[q].moves < 2
                    THEN [task[q] EXCEPT !.moves = @ + 1] ELSE task[q]]
    /\ UNCHANGED <<reference, ledgers, artifacts, now, left, faults, stale>>

\* Variant: the lock is not waited for.
AcquireAnyway(p) == At(p, "lock") /\ Take(p)

Acquire(p) == At(p, "lock") /\ lock = NoOne /\ Take(p)

\* write_result: the data file is put in place before the metadata.
WriteData(p) ==
    /\ At(p, "data") /\ last < MaxRun
    /\ last' = last + 1
    /\ data' = data \cup {last'} /\ made' = [made EXCEPT ![last'] = now]
    /\ Goto(p, "meta", task[p])
    /\ UNCHANGED <<reference, ledgers, meta, now, lock, left, faults, stale>>

WriteMeta(p) ==
    LET t == task[p] IN
    /\ At(p, "meta")
    /\ meta' = meta \cup {last}
    /\ Goto(p, "file",
            [t EXCEPT !.records[t.next] = [status |-> t.intent, run |-> last]])
    /\ UNCHANGED <<reference, ledgers, data, made, last, now, lock, left, faults, stale>>

Ledger(t) == [scope |-> t.scope, routes |-> t.records]

WriteLedger(p) ==
    LET t == task[p] IN
    /\ At(p, "file")
    /\ files' = files \cup {Ledger(t)}
    /\ stale' = (stale \/ (t.base # NoLedger /\ t.base \notin Live))
    /\ Goto(p, "current", t)
    /\ UNCHANGED <<reference, current, scoped, artifacts, now, lock, left, faults>>

PointCurrent(p) ==
    LET l == Ledger(task[p]) IN
    /\ At(p, "current")
    /\ current' = l
    /\ Goto(p, "scope", [task[p] EXCEPT !.base = l])
    /\ UNCHANGED <<reference, files, scoped, artifacts, now, lock, left, faults, stale>>

PointScope(p) ==
    /\ At(p, "scope")
    /\ scoped' = [scoped EXCEPT ![task[p].scope] = Ledger(task[p])]
    /\ Goto(p, "collect", task[p])
    /\ UNCHANGED <<reference, files, current, artifacts, now, lock, left, faults, stale>>

\* What follows the publication of an answer, a save, the last save.
GoOn(p) ==
    LET t == task[p] IN
    IF t.intent # "none" THEN Goto(p, "lock", [t EXCEPT !.intent = "none"])
    ELSE IF t.then = "route" THEN Goto(p, "route", [t EXCEPT !.next = @ + 1])
    ELSE Leave(p)

\* _collect_obsolete_ledgers, which leaves a file it cannot delete.
Collect(p) ==
    /\ At(p, "collect")
    /\ \/ files' = files \cap Live /\ UNCHANGED faults
       \/ /\ "write" \in Faults /\ faults > 0 /\ faults' = faults - 1
          /\ \E l \in files \ Live : files' = (files \cap Live) \cup {l}
    /\ lock' = NoOne
    /\ GoOn(p)
    /\ UNCHANGED <<reference, current, scoped, artifacts, now, left, stale>>

\* An error while a counted answer is published leaves the route pending, which is saved; any
\* other error ends the command.
Raise(p) ==
    LET t == task[p] IN
    IF t.intent = "claim"
    THEN Goto(p, "lock", [t EXCEPT !.intent = "none", !.then = "end",
                                   !.records[t.next] = Pending])
    ELSE Leave(p)

\* A file cannot be written; write_result removes what it had put in place.
FailWrite(p) ==
    /\ "write" \in Faults /\ faults > 0 /\ pc[p] \in {"data", "meta", "file", "current", "scope"}
    /\ data' = IF At(p, "meta") THEN data \ {last} ELSE data
    /\ lock' = NoOne
    /\ Raise(p)
    /\ faults' = faults - 1
    /\ UNCHANGED <<reference, ledgers, meta, made, last, now, left, stale>>

\* FileLockTimeout becomes a ConflictError.
LockTimeout(p) ==
    /\ "timeout" \in Faults /\ faults > 0 /\ At(p, "lock") /\ lock \notin {NoOne, p}
    /\ Raise(p)
    /\ faults' = faults - 1
    /\ UNCHANGED <<reference, ledgers, artifacts, now, lock, left, stale>>

-----------------------------------------------------------------------------
(* results prune, for what this ledger pins.                               *)

\* Variant: only what the latest ledger claims.
PinsOfCurrent == IF current = NoLedger THEN {} ELSE Claims(current)

Pins == UNION {Claims(l) : l \in Live}

\* verified_reference_validation_references: all of it verifies, or nothing is pruned.
Verified ==
    /\ current = NoLedger => files = {} /\ Live = {}
    /\ Live \subseteq files
    /\ \A run \in Pins : Whole(run)

\* _results_prune_plan.
Plan(p) ==
    /\ At(p, "plan")
    /\ IF Verified
       THEN /\ Goto(p, "delete",
                    [task[p] EXCEPT !.doomed = {r \in meta : made[r] < now /\ r \notin Pins}])
            /\ UNCHANGED lock
       ELSE Leave(p) /\ lock' = NoOne
    /\ UNCHANGED <<reference, ledgers, artifacts, now, left, faults, stale>>

\* The data file goes first, if it is there.
Delete(p) ==
    /\ At(p, "delete")
    /\ \E r \in task[p].doomed :
         /\ \A s \in task[p].doomed : r <= s
         /\ IF r \in data
            THEN data' = data \ {r} /\ UNCHANGED <<meta, pc, task>>
            ELSE /\ meta' = meta \ {r}
                 /\ Goto(p, "delete", [task[p] EXCEPT !.doomed = @ \ {r}])
                 /\ UNCHANGED data
    /\ UNCHANGED <<reference, ledgers, made, last, now, lock, left, faults, stale>>

Pruned(p) ==
    /\ At(p, "delete") /\ task[p].doomed = {}
    /\ lock' = NoOne
    /\ Leave(p)
    /\ UNCHANGED <<reference, ledgers, artifacts, now, left, faults, stale>>

-----------------------------------------------------------------------------

Crash(p) ==
    /\ "crash" \in Faults /\ faults > 0 /\ ~At(p, "idle")
    /\ lock' = Free(p)
    /\ Leave(p)
    /\ faults' = faults - 1
    /\ UNCHANGED <<reference, ledgers, artifacts, now, left, stale>>

Day ==
    /\ now < MaxDay
    /\ now' = now + 1
    /\ UNCHANGED <<reference, ledgers, artifacts, lock, pc, task, left, faults, stale>>

Step(p) ==
    \/ Start(p) \/ ReadPointer(p) \/ ReadLedger(p) \/ Retry(p) \/ Unreadable(p)
    \/ Reuse(p) \/ Defer(p) \/ Answer(p) \/ NoAnswer(p) \/ LastSave(p)
    \/ Acquire(p) \/ WriteData(p) \/ WriteMeta(p) \/ WriteLedger(p)
    \/ PointCurrent(p) \/ PointScope(p) \/ Collect(p) \/ FailWrite(p) \/ LockTimeout(p)
    \/ Plan(p) \/ Delete(p) \/ Pruned(p) \/ Crash(p)

Next == Day \/ \E p \in Proc : Step(p)

Spec == Init /\ [][Next]_vars

-----------------------------------------------------------------------------

\* Whatever a crash or an error interrupts, a pointer names a ledger that is there: the file
\* is written before the pointers, and collection keeps what any of them names
\* (_save_validation_state_unlocked, _collect_obsolete_ledgers).
PointersResolve == Live \subseteq files

\* "Current reference validation ledgers and live scope pointers also retain their verified
\* evidence" (results prune): an artifact that is deleted is claimed by no live ledger, of any
\* scope, then or when the other half of it goes.
PruneSparesEvidence ==
    [][\A r \in (data \ data') \cup (meta \ meta') : \A l \in Live : r \notin Claims(l)]_vars

\* What a live ledger claims can be verified, as long as nobody publishes records taken from a
\* ledger that has been replaced meanwhile; two schema init at a time can
\* (publish_validation_record: the evidence and its reference under the prune lock).
EvidenceUnlessStale == stale \/ \A run \in Pins : Whole(run)

\* A ledger that is being read is found unreadable only if two publications overlap the reading:
\* that the file just looked up is collected is no error (load_validation_state).
ReadingSurvivesReplacement == \A p \in Proc : At(p, "unreadable") => task[p].moves > 1
=============================================================================
