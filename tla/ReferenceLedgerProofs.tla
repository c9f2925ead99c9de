------------------------ MODULE ReferenceLedgerProofs ------------------------
(***************************************************************************)
(* Theorems about ReferenceLedger.  Who writes holds the lock (Exclusive); *)
(* the records of a command claim what the ledger they come from claims or *)
(* the answer being published (Grounded), and what the process under the   *)
(* lock has written so far is what its next step needs (Relies).  A step   *)
(* secures this for the process that takes it (Secures) and leaves the     *)
(* others alone (BystanderStays).  Readers are followed without the lock   *)
(* (Follows).                                                              *)
(***************************************************************************)
EXTENDS ReferenceLedger, TLAPS

-----------------------------------------------------------------------------
(* Type correctness.                                                       *)

\* With the evidence lock: schema init and results prune.
Saving == {"data", "meta", "file", "current", "scope", "collect"}
Pruning == {"plan", "delete"}
Locked == Saving \cup Pruning
Lookups == {"pointer", "ledger", "missing"}

\* What a process is doing where it is.
Shape(l, t) ==
    /\ l \in Saving \cup {"route"} => t.op = "init"
    /\ l \in Pruning => t.op = "prune"
    /\ l # "idle" => t.op # "none"
    /\ l = "lock" => t.op # "read"
    /\ l \in Lookups \cup {"unreadable"} => t.op \in {"init", "read"}
    /\ t.op \in {"init", "read"} => t.scope \in Scopes
    /\ l \in {"ledger", "missing"} => t.held # NoLedger
    /\ t.intent # "none" => t.next \in Route /\ t.op = "init"
    /\ l \in {"data", "meta"} => t.intent # "none"
    /\ l \in Saving \cup {"lock"} /\ t.then = "route" => t.next \in Route
    /\ l \in Lookups \cup {"route", "unreadable"} => t.intent = "none"

Store ==
    /\ reference \in 0..MaxReference
    /\ files \subseteq Ledgers
    /\ current \in Ledgers \cup {NoLedger}
    /\ scoped \in [Scopes -> Ledgers \cup {NoLedger}]
    /\ data \subseteq 0..MaxRun /\ meta \subseteq 0..MaxRun
    /\ made \in [1..MaxRun -> 0..MaxDay] /\ last \in 0..MaxRun
    /\ now \in 0..MaxDay
    /\ lock \in Proc \cup {NoOne}
    /\ left \in 0..MaxCommands /\ faults \in 0..MaxFaults
    /\ stale \in BOOLEAN

Locals ==
    /\ pc \in [Proc -> Labels] /\ task \in [Proc -> Tasks]
    /\ \A p \in Proc : Shape(pc[p], task[p])

LEMMA GotoKeepsLocals ==
    ASSUME Locals, NEW p \in Proc, NEW l \in Labels, NEW t \in Tasks, Shape(l, t), Goto(p, l, t)
    PROVE  Locals' /\ pc'[p] = l /\ task'[p] = t
  BY DEF Locals, Goto

LEMMA NoTaskOK ==
    /\ NoTask \in Tasks /\ NoTask.intent = "none" /\ NoTask.then = "end"
    /\ Shape("idle", NoTask)
  <1>1. NoRecords \in [Route -> Records] /\ 1 \in 1..(Routes + 1)
    BY LedgerAssumption DEF NoRecords, None, Records
  <1>2. NoTask \in Tasks
    BY <1>1 DEF NoTask, Tasks
  <1> QED
    BY <1>2 DEF NoTask, Shape, Saving, Pruning, Lookups

LEMMA LeaveKeepsLocals ==
    ASSUME Locals, NEW p \in Proc, Leave(p)
    PROVE  Locals' /\ pc'[p] = "idle" /\ task'[p] = NoTask
  BY NoTaskOK, GotoKeepsLocals DEF Leave, Labels

\* The task of a process, and what its fields are.
LEMMA Held ==
    ASSUME Locals, NEW p \in Proc
    PROVE  pc[p] \in Labels /\ task[p] \in Tasks /\ Shape(pc[p], task[p])
  BY DEF Locals

LEMMA LabelsApart ==
    /\ Locked = {"data", "meta", "file", "current", "scope", "collect", "plan", "delete"}
    /\ Saving = {"data", "meta", "file", "current", "scope", "collect"}
    /\ Pruning = {"plan", "delete"} /\ Lookups = {"pointer", "ledger", "missing"}
    /\ Labels = {"idle", "unreadable", "route", "lock"} \cup Lookups \cup Locked
  BY DEF Locked, Saving, Pruning, Lookups, Labels

\* A record made of a field that changes.
LEMMA RecordsChange ==
    ASSUME NEW t \in Tasks, NEW r \in Records, NEW n \in Route
    PROVE  /\ [t EXCEPT !.records[n] = r] \in Tasks
           /\ [t EXCEPT !.records[n] = r].records = [t.records EXCEPT ![n] = r]
  BY DEF Tasks

LEMMA BeginTyped ==
    ASSUME Locals, NEW p \in Proc, NEW c \in Commands, NEW l, NEW s, Begin(p, c, l, s),
           \/ c.op \in {"init", "read"} /\ l = "pointer" /\ s \in Scopes
           \/ c.op = "prune" /\ l = "lock" /\ s = NoLedger
    PROVE  Locals'
  <1> DEFINE n == IF lock # NoOne /\ c.op # "prune" THEN 1 ELSE 0
             t == [NoTask EXCEPT !.op = c.op, !.scope = s, !.revalidate = c.revalidate,
                                 !.queries = c.queries, !.tries = 2, !.moves = n]
  <1>0. n \in 0..2 /\ 2 \in 0..2 /\ s \in Scopes \cup {NoLedger}
    OBVIOUS
  <1> HIDE DEF n
  <1>1. c.op \in {"init", "read", "prune"} /\ c.revalidate \in BOOLEAN /\ c.queries \in Nat
    BY LedgerAssumption
  <1>2. t \in Tasks
    BY <1>0, <1>1, NoTaskOK DEF Tasks
  <1>3. t.op = c.op /\ t.scope = s /\ t.intent = "none" /\ t.then = "end"
    BY NoTaskOK DEF Tasks
  <1> HIDE DEF t
  <1>4. Shape(l, t) /\ l \in Labels
    BY <1>3, LabelsApart DEF Shape
  <1> QED
    BY <1>2, <1>4, GotoKeepsLocals DEF Begin, t, n

LEMMA BeginStored ==
    ASSUME Store, NEW p, NEW c, NEW l, NEW s, Begin(p, c, l, s), reference' \in 0..MaxReference
    PROVE  Store'
  <1>1. left' \in 0..MaxCommands
    BY LedgerAssumption DEF Begin, Store
  <1>2. UNCHANGED <<files, current, scoped, data, meta, made, last, now, lock, faults, stale>>
    BY DEF Begin, ledgers, artifacts
  <1> QED
    BY <1>1, <1>2 DEF Store

LEMMA StartTyped ==
    ASSUME Store, Locals, NEW p \in Proc, Start(p)
    PROVE  Store' /\ Locals'
  <1>1. PICK c \in Commands : StartInit(p, c) \/ StartRead(p, c) \/ StartPrune(p, c)
    BY DEF Start
  <1>2. c.options \in Parameters
    BY LedgerAssumption
  <1>3. reference' \in 0..MaxReference
    BY <1>1, LedgerAssumption DEF StartInit, StartRead, StartPrune, Store
  <1>4. CASE StartInit(p, c)
    <2>1. reference' \in 1..MaxReference
      BY <1>4, LedgerAssumption DEF StartInit, Store
    <2>2. [reference |-> reference', options |-> c.options] \in Scopes
      BY <1>2, <2>1 DEF Scopes
    <2>3. Locals'
      BY <1>4, <2>2, BeginTyped DEF StartInit
    <2> QED
      BY <1>3, <1>4, <2>3, BeginStored DEF StartInit
  <1>5. CASE StartRead(p, c)
    <2>1. reference \in 1..MaxReference
      BY <1>5, LedgerAssumption DEF StartRead, Store
    <2>2. [reference |-> reference, options |-> c.options] \in Scopes
      BY <1>2, <2>1 DEF Scopes
    <2>3. Locals'
      BY <1>5, <2>2, BeginTyped DEF StartRead
    <2> QED
      BY <1>3, <1>5, <2>3, BeginStored DEF StartRead
  <1>6. CASE StartPrune(p, c)
    <2>1. Locals'
      BY <1>6, BeginTyped DEF StartPrune
    <2> QED
      BY <1>3, <1>6, <2>1, BeginStored DEF StartPrune
  <1> QED
    BY <1>1, <1>4, <1>5, <1>6

LEMMA LoadedTyped ==
    ASSUME Locals, NEW p \in Proc, NEW l \in Ledgers \cup {NoLedger}, Loaded(p, l),
           pc[p] \in Lookups \cup {"unreadable"}
    PROVE  Locals'
  <1> DEFINE recs == IF l = NoLedger THEN NoRecords ELSE l.routes
             t == [task[p] EXCEPT !.base = l, !.path = "current", !.held = NoLedger, !.tries = 0,
                                  !.moves = 0, !.records = recs]
  <1>1. task[p] \in Tasks /\ Shape(pc[p], task[p])
    BY Held
  <1>2. CASE task[p].op = "read"
    BY <1>2, LeaveKeepsLocals DEF Loaded
  <1>3. CASE task[p].op # "read"
    <2>1. NoRecords \in [Route -> Records] /\ NoLedger \notin Ledgers
      BY LedgerAssumption DEF NoRecords, None, Records
    <2>2. recs \in [Route -> Records] /\ 0 \in 0..2
      BY <2>1 DEF Ledgers
    <2> HIDE DEF recs
    <2>3. t \in Tasks /\ t.op = task[p].op /\ t.scope = task[p].scope /\ t.intent = task[p].intent
      <3> DEFINE u == [task[p] EXCEPT !.base = l, !.path = "current", !.held = NoLedger]
      <3>1. u \in Tasks /\ u.op = task[p].op /\ u.scope = task[p].scope /\ u.intent = task[p].intent
        BY <1>1 DEF Tasks
      <3>2. t = [u EXCEPT !.tries = 0, !.moves = 0, !.records = recs]
        BY <1>1 DEF Tasks
      <3> HIDE DEF u, t
      <3> QED
        BY <2>2, <3>1, <3>2 DEF Tasks
    <2> HIDE DEF t
    <2>4. Goto(p, "route", t)
      BY <1>3 DEF Loaded, t, recs
    <2>5. Shape("route", t)
      BY <1>1, <1>3, <2>3, LabelsApart DEF Shape
    <2> QED
      BY <2>3, <2>4, <2>5, GotoKeepsLocals, LabelsApart
  <1> QED
    BY <1>2, <1>3

LEMMA LookupTyped ==
    ASSUME Store, Locals, NEW p \in Proc,
           ReadPointer(p) \/ ReadLedger(p) \/ Retry(p) \/ Unreadable(p)
    PROVE  Store' /\ Locals'
  <1>0. task[p] \in Tasks /\ Shape(pc[p], task[p])
    BY Held
  <1>1. Store'
    BY DEF ReadPointer, ReadLedger, Retry, Unreadable, Store, ledgers, artifacts
  <1>2. Pointer(task[p], Path(task[p])) \in Ledgers \cup {NoLedger} \/ task[p].scope \notin Scopes
    BY DEF Pointer, Store
  <1>3. CASE ReadPointer(p)
    <2> DEFINE path == Path(task[p])
               t == [task[p] EXCEPT !.path = path, !.held = Pointer(task[p], path)]
    <2>1. pc[p] = "pointer" /\ task[p].scope \in Scopes
      BY <1>0, <1>3, LabelsApart DEF ReadPointer, At, Shape
    <2>2. CASE Loaded(p, NoLedger)
      BY <1>1, <2>1, <2>2, LoadedTyped, LabelsApart
    <2>3. CASE Goto(p, "ledger", t) /\ Pointer(task[p], path) # NoLedger
      <3>1. /\ t \in Tasks /\ t.op = task[p].op /\ t.scope = task[p].scope
            /\ t.intent = task[p].intent /\ t.next = task[p].next
            /\ t.held = Pointer(task[p], path)
        <4>1. path \in {"current", "scope"}
          BY <1>0 DEF Tasks, Path
        <4>2. PICK h \in Ledgers \cup {NoLedger} : h = Pointer(task[p], path)
          BY <1>2, <2>1
        <4> HIDE DEF path
        <4>3. t = [task[p] EXCEPT !.path = path, !.held = h]
          BY <4>2
        <4> HIDE DEF t
        <4> QED
          BY <1>0, <4>1, <4>2, <4>3 DEF Tasks
      <3> HIDE DEF t
      <3>2. Shape("ledger", t)
        BY <1>0, <2>1, <2>3, <3>1, LabelsApart DEF Shape
      <3> QED
        BY <1>1, <2>3, <3>1, <3>2, GotoKeepsLocals, LabelsApart
    <2> QED
      BY <1>1, <1>3, <2>2, <2>3 DEF ReadPointer
  <1>4. CASE ReadLedger(p)
    <2>1. pc[p] = "ledger"
      BY <1>4 DEF ReadLedger, At
    <2>2. task[p].held \in Ledgers \cup {NoLedger}
      BY <1>0 DEF Tasks
    <2>3. CASE Goto(p, "missing", task[p])
      <3>1. Shape("missing", task[p])
        BY <1>0, <2>1, LabelsApart DEF Shape
      <3> QED
        BY <1>0, <1>1, <2>3, <3>1, GotoKeepsLocals, LabelsApart
    <2>4. CASE ~Goto(p, "missing", task[p])
      <3>1. PICK l \in Ledgers \cup {NoLedger} : Loaded(p, l)
        BY <1>4, <2>2, <2>4 DEF ReadLedger
      <3> QED
        BY <1>1, <2>1, <3>1, LoadedTyped, LabelsApart
    <2> QED
      BY <2>3, <2>4
  <1>5. CASE Retry(p)
    <2>1. pc[p] = "missing"
      BY <1>5 DEF Retry, At
    <2>2. CASE Goto(p, "unreadable", task[p])
      <3>1. Shape("unreadable", task[p])
        BY <1>0, <2>1, LabelsApart DEF Shape
      <3> QED
        BY <1>0, <1>1, <2>2, <3>1, GotoKeepsLocals, LabelsApart
    <2>3. CASE Goto(p, "pointer", [task[p] EXCEPT !.tries = @ - 1]) /\ task[p].tries > 0
      <3> DEFINE t == [task[p] EXCEPT !.tries = @ - 1]
      <3>1. /\ t \in Tasks /\ t.op = task[p].op /\ t.scope = task[p].scope
            /\ t.intent = task[p].intent
        BY <1>0, <2>3 DEF Tasks
      <3> HIDE DEF t
      <3>2. Shape("pointer", t)
        BY <1>0, <2>1, <3>1, LabelsApart DEF Shape
      <3> QED
        BY <1>1, <2>3, <3>1, <3>2, GotoKeepsLocals, LabelsApart DEF t
    <2> QED
      BY <1>5, <2>2, <2>3 DEF Retry
  <1>6. CASE Unreadable(p)
    <2>1. pc[p] = "unreadable"
      BY <1>6 DEF Unreadable, At
    <2> QED
      BY <1>1, <1>6, <2>1, LoadedTyped, LeaveKeepsLocals DEF Unreadable
  <1> QED
    BY <1>3, <1>4, <1>5, <1>6

\* Steps of validate_reference end at the next route or at the lock.
LEMMA ValidateTyped ==
    ASSUME Store, Locals, NEW p \in Proc,
           Reuse(p) \/ Defer(p) \/ Answer(p) \/ NoAnswer(p) \/ LastSave(p)
    PROVE  Store' /\ Locals'
  <1>0. task[p] \in Tasks /\ Shape(pc[p], task[p])
    BY Held
  <1>1. /\ pc[p] = "route" /\ task[p].op = "init" /\ task[p].scope \in Scopes
        /\ task[p].intent = "none"
    BY <1>0, LabelsApart
       DEF Reuse, Defer, Answer, NoAnswer, LastSave, Asked, Validating, At, Shape
  <1>2. Store'
    BY DEF Reuse, Defer, Answer, NoAnswer, LastSave, Store, ledgers, artifacts
  <1>3. Validating(p) => /\ task[p].next \in Route
                         /\ task[p].next + 1 \in 1..(Routes + 1)
                         /\ task[p].records[task[p].next] \in Records
    BY <1>0, LedgerAssumption DEF Validating, Tasks, Route
  <1>4. Asked(p) => task[p].queries - 1 \in Nat /\ Validating(p)
    BY <1>0 DEF Asked, Deferred, Tasks
  <1>5. Pending \in Records /\ [Pending EXCEPT !.status = "invalid"] \in Records
    BY DEF Pending, Records
  <1>6. ASSUME NEW l \in {"route", "lock"}, NEW t \in Tasks, Goto(p, l, t),
               t.op = "init", t.scope = task[p].scope,
               t.intent # "none" => t.next \in Route /\ l = "lock",
               l = "lock" /\ t.then = "route" => t.next \in Route
        PROVE  Locals'
    <2>1. Shape(l, t)
      BY <1>1, <1>6, LabelsApart DEF Shape
    <2> QED
      BY <1>6, <2>1, GotoKeepsLocals, LabelsApart
  <1>7. CASE Reuse(p)
    <2> DEFINE t == [task[p] EXCEPT !.next = @ + 1]
    <2>1. t \in Tasks /\ t.op = "init" /\ t.scope = task[p].scope /\ t.intent = "none"
      BY <1>0, <1>1, <1>3, <1>7 DEF Reuse, Tasks
    <2> QED
      BY <1>2, <1>6, <1>7, <2>1 DEF Reuse
  <1>8. CASE Defer(p)
    <2> DEFINE n == task[p].next
               r == IF task[p].records[n].status = "failed" /\ Whole(task[p].records[n].run)
                    THEN task[p].records[n] ELSE Pending
               t == [task[p] EXCEPT !.next = @ + 1, !.records[n] = r]
    <2>1. r \in Records /\ n \in Route /\ n + 1 \in 1..(Routes + 1)
      BY <1>3, <1>5, <1>8 DEF Defer
    <2>2. Goto(p, "route", t)
      BY <1>8 DEF Defer
    <2> HIDE DEF r
    <2>3. t \in Tasks /\ t.op = "init" /\ t.scope = task[p].scope /\ t.intent = "none"
      BY <1>0, <1>1, <2>1 DEF Tasks
    <2> QED
      BY <1>2, <1>6, <2>2, <2>3
  <1>9. CASE Answer(p)
    <2>1. PICK s \in {"claim", "failed"} :
            Goto(p, "lock", [task[p] EXCEPT !.queries = @ - 1, !.intent = s, !.then = "route"])
      BY <1>9 DEF Answer
    <2> DEFINE t == [task[p] EXCEPT !.queries = @ - 1, !.intent = s, !.then = "route"]
    <2>2. /\ t \in Tasks /\ t.op = "init" /\ t.scope = task[p].scope
          /\ t.next = task[p].next /\ t.next \in Route
      BY <1>0, <1>1, <1>3, <1>4, <1>9 DEF Answer, Tasks
    <2> QED
      BY <1>2, <1>6, <2>1, <2>2
  <1>10. CASE NoAnswer(p)
    <2> DEFINE n == task[p].next
               t == [task[p] EXCEPT !.queries = @ - 1, !.records[n] = Pending]
    <2>1. /\ t \in Tasks /\ t.op = "init" /\ t.scope = task[p].scope /\ t.intent = "none"
          /\ t.next = n /\ n \in Route /\ t.records[n] = Pending
      BY <1>0, <1>1, <1>3, <1>4, <1>5, <1>10 DEF NoAnswer, Tasks
    <2>2. \/ Goto(p, "lock", [t EXCEPT !.records[t.next].status = "invalid", !.then = "route"])
          \/ Goto(p, "lock", [t EXCEPT !.stopped = TRUE, !.then = "route"])
          \/ Goto(p, "lock", [t EXCEPT !.then = "end"])
      BY <1>10 DEF NoAnswer
    <2> HIDE DEF t
    <2>3. [t.records EXCEPT ![n].status = "invalid"] \in [Route -> Records]
      BY <1>5, <2>1 DEF Tasks
    <2>4. ASSUME Goto(p, "lock", [t EXCEPT !.records[t.next].status = "invalid", !.then = "route"])
          PROVE  Locals'
      <3> DEFINE u == [t EXCEPT !.records[t.next].status = "invalid", !.then = "route"]
      <3>1. u = [t EXCEPT !.records = [t.records EXCEPT ![n].status = "invalid"], !.then = "route"]
        BY <2>1 DEF Tasks
      <3>2. /\ u \in Tasks /\ u.op = "init" /\ u.scope = task[p].scope /\ u.intent = "none"
            /\ u.next = n
        BY <2>1, <2>3, <3>1 DEF Tasks
      <3> QED
        BY <1>6, <2>1, <2>4, <3>2
    <2>5. ASSUME \/ Goto(p, "lock", [t EXCEPT !.stopped = TRUE, !.then = "route"])
                 \/ Goto(p, "lock", [t EXCEPT !.then = "end"])
          PROVE  Locals'
      <3> DEFINE u == [t EXCEPT !.stopped = TRUE, !.then = "route"]
                 v == [t EXCEPT !.then = "end"]
      <3>1. /\ u \in Tasks /\ u.op = "init" /\ u.scope = task[p].scope /\ u.intent = "none"
            /\ u.next = n
        BY <2>1 DEF Tasks
      <3>2. /\ v \in Tasks /\ v.op = "init" /\ v.scope = task[p].scope /\ v.intent = "none"
            /\ v.next = n
        BY <2>1 DEF Tasks
      <3> QED
        BY <1>6, <2>1, <2>5, <3>1, <3>2
    <2> QED
      BY <1>2, <2>2, <2>4, <2>5
  <1>11. CASE LastSave(p)
    <2> DEFINE t == [task[p] EXCEPT !.then = "end"]
    <2>1. /\ t \in Tasks /\ t.op = "init" /\ t.scope = task[p].scope /\ t.intent = "none"
          /\ t.then = "end"
      BY <1>0, <1>1 DEF Tasks
    <2> QED
      BY <1>2, <1>6, <1>11, <2>1 DEF LastSave
  <1> QED
    BY <1>7, <1>8, <1>9, <1>10, <1>11

\* Who takes the lock counts as a publication for those who are reading.
LEMMA TakeTasks ==
    ASSUME Locals, NEW p \in Proc, Acquire(p), NEW q \in Proc
    PROVE  /\ task'[q] \in Tasks
           /\ task'[q] = task[q] \/ (pc[q] \in Lookups /\ task[p].op = "init" /\ task[q].moves < 2
                                      /\ task'[q] = [task[q] EXCEPT !.moves = @ + 1])
           /\ task[p].op = "init" /\ pc[q] \in Lookups /\ task[q].moves < 2 =>
                 task'[q] = [task[q] EXCEPT !.moves = @ + 1]
  <1>1. task[q] \in Tasks
    BY Held
  <1>2. /\ task'[q] = task[q] \/ (pc[q] \in Lookups /\ task[p].op = "init" /\ task[q].moves < 2
                                   /\ task'[q] = [task[q] EXCEPT !.moves = @ + 1])
        /\ task[p].op = "init" /\ pc[q] \in Lookups /\ task[q].moves < 2 =>
              task'[q] = [task[q] EXCEPT !.moves = @ + 1]
    BY DEF Acquire, Take, Reading, Lookups
  <1>3. task[q].moves < 2 => [task[q] EXCEPT !.moves = @ + 1] \in Tasks
    BY <1>1 DEF Tasks
  <1> QED
    BY <1>1, <1>2, <1>3

\* All but the moves of a task is as it was.
LEMMA SameButMoves ==
    ASSUME NEW t \in Tasks, NEW n
    PROVE  LET u == [t EXCEPT !.moves = n] IN
           /\ u.op = t.op /\ u.scope = t.scope /\ u.held = t.held /\ u.tries = t.tries
           /\ u.path = t.path /\ u.base = t.base /\ u.records = t.records /\ u.next = t.next
           /\ u.intent = t.intent /\ u.then = t.then /\ u.doomed = t.doomed
           /\ u.moves = n
  BY DEF Tasks

LEMMA AcquireTyped ==
    ASSUME Store, Locals, NEW p \in Proc, Acquire(p)
    PROVE  /\ Store' /\ Locals' /\ task'[p] = task[p] /\ pc[p] = "lock" /\ pc'[p] \in Locked
           /\ \A q \in Proc : q # p => pc'[q] = pc[q]
  <1>1. pc[p] = "lock" /\ Shape(pc[p], task[p]) /\ task[p].op \in {"init", "prune"}
    <2>1. task[p].op \in {"none", "init", "read", "prune"}
      BY Held DEF Tasks
    <2> QED
      BY <2>1, Held DEF Acquire, At, Shape
  <1>2. task'[p] = task[p]
    BY <1>1, TakeTasks, LabelsApart
  <1>3. /\ pc' = [pc EXCEPT ![p] = IF task[p].op = "prune" THEN "plan"
                                   ELSE IF task[p].intent # "none" THEN "data" ELSE "file"]
        /\ pc \in [Proc -> Labels]
    BY DEF Acquire, Take, Locals
  <1>4. Shape(pc'[p], task[p]) /\ pc'[p] \in Locked
    <2>1. pc'[p] = IF task[p].op = "prune" THEN "plan"
                   ELSE IF task[p].intent # "none" THEN "data" ELSE "file"
      BY <1>3
    <2> QED
      BY <1>1, <2>1, LabelsApart DEF Shape
  <1>5. ASSUME NEW q \in Proc, q # p PROVE pc'[q] = pc[q] /\ Shape(pc'[q], task'[q])
    <2>1. pc'[q] = pc[q] /\ Shape(pc[q], task[q]) /\ task[q] \in Tasks
      BY <1>3, <1>5, Held
    <2>2. CASE task'[q] = task[q]
      BY <2>1, <2>2
    <2>3. CASE task'[q] = [task[q] EXCEPT !.moves = @ + 1]
      BY <2>1, <2>3, SameButMoves DEF Shape
    <2> QED
      BY <2>1, <2>2, <2>3, TakeTasks
  <1>6. pc' \in [Proc -> Labels] /\ task' \in [Proc -> Tasks]
    <2>1. task' \in [Proc -> Tasks]
      BY TakeTasks DEF Acquire, Take
    <2> QED
      BY <1>3, <2>1, LabelsApart
  <1>7. Store'
    BY DEF Acquire, Take, Store, ledgers, artifacts
  <1> QED
    BY <1>1, <1>2, <1>4, <1>5, <1>6, <1>7 DEF Locals

\* The steps under the lock.
LEMMA SaveTyped ==
    ASSUME Store, Locals, NEW p \in Proc,
           WriteData(p) \/ WriteMeta(p) \/ WriteLedger(p) \/ PointCurrent(p) \/ PointScope(p)
    PROVE  Store' /\ Locals'
  <1>0. task[p] \in Tasks /\ Shape(pc[p], task[p])
    BY Held
  <1>1. pc[p] \in Saving \ {"collect"} /\ task[p].op = "init" /\ task[p].scope \in Scopes
    BY <1>0, LabelsApart
       DEF WriteData, WriteMeta, WriteLedger, PointCurrent, PointScope, At, Shape
  <1>2. Ledger(task[p]) \in Ledgers
    BY <1>0, <1>1 DEF Ledger, Ledgers, Tasks
  <1>3. Store'
    <2>1. WriteData(p) => last' \in 1..MaxRun
      BY LedgerAssumption DEF WriteData, Store
    <2>2. now \in 0..MaxDay /\ last \in 0..MaxRun
      BY DEF Store
    <2>3. CASE WriteData(p)
      <3>1. data' \subseteq 0..MaxRun /\ last' \in 0..MaxRun
        BY <2>1, <2>3, LedgerAssumption DEF WriteData, Store
      <3>2. made' \in [1..MaxRun -> 0..MaxDay]
        BY <2>2, <2>3 DEF WriteData, Store
      <3>3. UNCHANGED <<files, current, scoped, meta, now, lock, left, faults, reference, stale>>
        BY <2>3 DEF WriteData, ledgers
      <3> QED
        BY <3>1, <3>2, <3>3 DEF Store
    <2>4. CASE WriteMeta(p)
      BY <2>2, <2>4 DEF WriteMeta, Store, ledgers
    <2>5. CASE WriteLedger(p)
      BY <1>2, <2>5 DEF WriteLedger, Store, artifacts
    <2>6. CASE PointCurrent(p)
      BY <1>2, <2>6 DEF PointCurrent, Store, artifacts
    <2>7. CASE PointScope(p)
      BY <1>1, <1>2, <2>7 DEF PointScope, Store, artifacts
    <2> QED
      BY <2>3, <2>4, <2>5, <2>6, <2>7
  <1>4. CASE WriteData(p) \/ WriteLedger(p) \/ PointScope(p)
    <2>1. PICK l \in Labels : Goto(p, l, task[p]) /\ Shape(l, task[p])
      BY <1>0, <1>4, LabelsApart DEF WriteData, WriteLedger, PointScope, At, Shape
    <2> QED
      BY <1>0, <1>3, <2>1, GotoKeepsLocals
  <1>5. CASE WriteMeta(p)
    <2> DEFINE r == [status |-> task[p].intent, run |-> last]
               t == [task[p] EXCEPT !.records[task[p].next] = r]
    <2>1. task[p].next \in Route /\ task[p].intent \in {"claim", "failed"} /\ pc[p] = "meta"
      BY <1>0, <1>5, LabelsApart DEF WriteMeta, At, Shape, Tasks
    <2>2. r \in Records
      BY <2>1 DEF Records, Store
    <2> HIDE DEF r
    <2>3. /\ t \in Tasks /\ t.op = "init" /\ t.scope = task[p].scope /\ t.next = task[p].next
          /\ t.intent = task[p].intent
      BY <1>0, <1>1, <2>1, <2>2, RecordsChange DEF Tasks
    <2>4. Goto(p, "file", t)
      BY <1>5 DEF WriteMeta, r
    <2> HIDE DEF t
    <2>5. Shape("file", t)
      BY <1>1, <2>1, <2>3, LabelsApart DEF Shape
    <2> QED
      BY <1>3, <2>3, <2>4, <2>5, GotoKeepsLocals, LabelsApart
  <1>6. CASE PointCurrent(p)
    <2> DEFINE t == [task[p] EXCEPT !.base = Ledger(task[p])]
    <2>1. /\ t \in Tasks /\ t.op = "init" /\ t.scope = task[p].scope /\ t.next = task[p].next
          /\ t.intent = task[p].intent /\ t.then = task[p].then
      BY <1>0, <1>1, <1>2 DEF Tasks
    <2>2. Goto(p, "scope", t) /\ pc[p] = "current"
      BY <1>6 DEF PointCurrent, At
    <2> HIDE DEF t
    <2>3. Shape("scope", t)
      BY <1>0, <1>1, <2>1, <2>2, LabelsApart DEF Shape
    <2> QED
      BY <1>3, <2>1, <2>2, <2>3, GotoKeepsLocals, LabelsApart
  <1> QED
    BY <1>4, <1>5, <1>6

\* Where a publication goes on, in success and in failure.
LEMMA AfterTyped ==
    ASSUME Locals, NEW p \in Proc,
           \/ GoOn(p) /\ pc[p] \in Saving
           \/ Raise(p) /\ pc[p] \in Saving \cup {"lock"}
    PROVE  Locals' /\ pc'[p] \notin Locked
  <1>0. task[p] \in Tasks /\ Shape(pc[p], task[p])
    BY Held
  <1>1. ASSUME NEW l \in {"route", "lock"}, NEW t \in Tasks, Goto(p, l, t), t.op = "init",
               t.scope = task[p].scope, t.intent = "none",
               l = "lock" /\ t.then = "route" => t.next \in Route,
               task[p].op = "init"
        PROVE  Locals' /\ pc'[p] \notin Locked
    <2>1. Shape(l, t)
      BY <1>0, <1>1, LabelsApart DEF Shape
    <2> QED
      BY <1>1, <2>1, GotoKeepsLocals, LabelsApart
  <1>2. CASE Leave(p)
    BY <1>2, LeaveKeepsLocals, LabelsApart
  <1>3. CASE GoOn(p) /\ pc[p] \in Saving
    <2>1. task[p].op = "init" /\ (task[p].then = "route" => task[p].next \in Route)
      BY <1>0, <1>3 DEF Shape
    <2>2. CASE task[p].intent # "none"
      <3> DEFINE t == [task[p] EXCEPT !.intent = "none"]
      <3>1. /\ t \in Tasks /\ t.op = "init" /\ t.scope = task[p].scope /\ t.intent = "none"
            /\ t.then = task[p].then /\ t.next = task[p].next
        BY <1>0, <2>1 DEF Tasks
      <3> QED
        BY <1>1, <1>3, <2>1, <2>2, <3>1 DEF GoOn
    <2>3. CASE task[p].intent = "none" /\ task[p].then = "route"
      <3> DEFINE t == [task[p] EXCEPT !.next = @ + 1]
      <3>0. task[p].next + 1 \in 1..(Routes + 1)
        BY <1>3, <2>1, <2>3, LedgerAssumption DEF Route
      <3>1. t \in Tasks /\ t.op = "init" /\ t.scope = task[p].scope /\ t.intent = "none"
        BY <1>0, <2>1, <2>3, <3>0 DEF Tasks
      <3> QED
        BY <1>1, <1>3, <2>1, <2>3, <3>1 DEF GoOn
    <2> QED
      BY <1>2, <1>3, <2>2, <2>3 DEF GoOn
  <1>4. CASE Raise(p) /\ task[p].intent = "claim"
    <2> DEFINE n == task[p].next
               t == [task[p] EXCEPT !.intent = "none", !.then = "end", !.records[n] = Pending]
    <2>1. Pending \in Records
      BY DEF Pending, Records
    <2>2. task[p].op = "init" /\ n \in Route
      BY <1>0, <1>4 DEF Shape
    <2>3. /\ t \in Tasks /\ t.op = "init" /\ t.scope = task[p].scope /\ t.intent = "none"
          /\ t.then = "end"
      <3> DEFINE u == [task[p] EXCEPT !.intent = "none", !.then = "end"]
      <3>1. /\ u \in Tasks /\ u.op = "init" /\ u.scope = task[p].scope /\ u.intent = "none"
            /\ u.then = "end"
        BY <1>0, <2>2 DEF Tasks
      <3>2. t = [u EXCEPT !.records[n] = Pending]
        BY <1>0 DEF Tasks
      <3> HIDE DEF u, t
      <3> QED
        BY <2>1, <2>2, <3>1, <3>2, RecordsChange DEF Tasks
    <2> QED
      BY <1>1, <1>4, <2>2, <2>3 DEF Raise
  <1> QED
    BY <1>2, <1>3, <1>4 DEF Raise

LEMMA EndTyped ==
    ASSUME Store, Locals, NEW p \in Proc,
           Collect(p) \/ FailWrite(p) \/ LockTimeout(p) \/ Crash(p)
    PROVE  Store' /\ Locals' /\ pc'[p] \notin Locked
  <1>1. Store'
    <2>1. NoOne \in Proc \cup {NoOne} /\ (lock \in Proc \cup {NoOne} => Free(p) \in Proc \cup {NoOne})
      BY DEF Free
    <2>2. faults \in Nat /\ faults - 1 < faults
      BY LedgerAssumption DEF Store
    <2>3. CASE Collect(p)
      BY <2>1, <2>2, <2>3, LedgerAssumption DEF Collect, Store, artifacts
    <2>4. CASE FailWrite(p)
      BY <2>1, <2>2, <2>4, LedgerAssumption DEF FailWrite, Store, ledgers
    <2>5. CASE LockTimeout(p) \/ Crash(p)
      <3>1. lock' \in {lock, Free(p)} /\ UNCHANGED <<reference, ledgers, artifacts, now, left, stale>>
        BY <2>5 DEF LockTimeout, Crash
      <3>2. faults' = faults - 1 /\ faults > 0
        BY <2>5 DEF LockTimeout, Crash
      <3>3. faults' \in 0..MaxFaults
        BY <2>2, <3>2, LedgerAssumption DEF Store
      <3> QED
        BY <2>1, <3>1, <3>3 DEF Store, ledgers, artifacts
    <2> QED
      BY <2>3, <2>4, <2>5
  <1>2. CASE Collect(p)
    BY <1>1, <1>2, AfterTyped, LabelsApart DEF Collect, At
  <1>3. CASE FailWrite(p)
    BY <1>1, <1>3, AfterTyped, LabelsApart DEF FailWrite
  <1>4. CASE LockTimeout(p)
    BY <1>1, <1>4, AfterTyped, LabelsApart DEF LockTimeout, At
  <1>5. CASE Crash(p)
    BY <1>1, <1>5, LeaveKeepsLocals, LabelsApart DEF Crash
  <1> QED
    BY <1>2, <1>3, <1>4, <1>5

LEMMA PruneTyped ==
    ASSUME Store, Locals, NEW p \in Proc, Plan(p) \/ Delete(p) \/ Pruned(p)
    PROVE  Store' /\ Locals'
  <1>0. task[p] \in Tasks /\ Shape(pc[p], task[p]) /\ NoOne \in Proc \cup {NoOne}
    BY Held
  <1>1. Store'
    <2>1. CASE Plan(p) \/ Pruned(p)
      <3>1. lock' \in {lock, NoOne}
        BY <2>1 DEF Plan, Pruned
      <3>2. UNCHANGED <<reference, ledgers, artifacts, now, left, faults, stale>>
        BY <2>1 DEF Plan, Pruned
      <3> QED
        BY <3>1, <3>2 DEF Store, ledgers, artifacts
    <2>2. CASE Delete(p)
      <3>1. data' \subseteq data /\ meta' \subseteq meta
        BY <2>2 DEF Delete
      <3>2. UNCHANGED <<reference, ledgers, made, last, now, lock, left, faults, stale>>
        BY <2>2 DEF Delete
      <3> QED
        BY <3>1, <3>2 DEF Store, ledgers
    <2> QED
      BY <2>1, <2>2
  <1>2. ASSUME NEW d \in SUBSET Nat, Goto(p, "delete", [task[p] EXCEPT !.doomed = d]),
               pc[p] \in Pruning
        PROVE  Locals'
    <2> DEFINE t == [task[p] EXCEPT !.doomed = d]
    <2>1. /\ t \in Tasks /\ t.op = task[p].op /\ t.scope = task[p].scope
          /\ t.intent = task[p].intent /\ t.next = task[p].next
      BY <1>0 DEF Tasks
    <2> HIDE DEF t
    <2>2. Shape("delete", t)
      BY <1>0, <1>2, <2>1, LabelsApart DEF Shape
    <2> QED
      BY <1>2, <2>1, <2>2, GotoKeepsLocals, LabelsApart DEF t
  <1>3. CASE Plan(p)
    <2>1. CASE Leave(p)
      BY <1>1, <2>1, LeaveKeepsLocals
    <2>2. CASE ~Leave(p)
      <3> DEFINE d == {r \in meta : made[r] < now /\ r \notin Pins}
      <3>1. Goto(p, "delete", [task[p] EXCEPT !.doomed = d]) /\ pc[p] \in Pruning
        BY <1>3, <2>2, LabelsApart DEF Plan, At
      <3>2. d \in SUBSET Nat
        <4>1. 0..MaxRun \subseteq Nat /\ meta \subseteq 0..MaxRun
          BY LedgerAssumption DEF Store
        <4>2. d \subseteq meta
          OBVIOUS
        <4> QED
          BY <4>1, <4>2
      <3> QED
        BY <1>1, <1>2, <3>1, <3>2
    <2> QED
      BY <2>1, <2>2
  <1>4. CASE Delete(p)
    <2>1. pc[p] \in Pruning
      BY <1>4, LabelsApart DEF Delete, At
    <2>2. CASE UNCHANGED <<pc, task>>
      BY <1>1, <2>2 DEF Locals
    <2>3. CASE ~UNCHANGED <<pc, task>>
      <3>1. PICK r \in task[p].doomed :
              Goto(p, "delete", [task[p] EXCEPT !.doomed = @ \ {r}])
        BY <1>4, <2>3 DEF Delete
      <3>2. task[p].doomed \ {r} \in SUBSET Nat
        BY <1>0 DEF Tasks
      <3> QED
        BY <1>1, <1>2, <2>1, <3>1, <3>2
    <2> QED
      BY <2>2, <2>3
  <1>5. CASE Pruned(p)
    BY <1>1, <1>5, LeaveKeepsLocals DEF Pruned
  <1> QED
    BY <1>3, <1>4, <1>5

LEMMA StepTyped ==
    ASSUME Store, Locals, NEW p \in Proc, Step(p)
    PROVE  Store' /\ Locals'
  BY StartTyped, LookupTyped, ValidateTyped, AcquireTyped, SaveTyped, EndTyped, PruneTyped DEF Step

LEMMA TypeStep ==
    ASSUME Store, Locals, [Next]_vars
    PROVE  Store' /\ Locals'
  <1>1. CASE UNCHANGED vars
    BY <1>1 DEF vars, ledgers, artifacts, Store, Locals
  <1>2. CASE Day
    <2>1. now' \in 0..MaxDay
      BY <1>2, LedgerAssumption DEF Day, Store
    <2> QED
      BY <1>2, <2>1 DEF Day, ledgers, artifacts, Store, Locals
  <1>3. ASSUME NEW p \in Proc, Step(p)
        PROVE  Store' /\ Locals'
    BY <1>3, StepTyped
  <1> QED
    BY <1>1, <1>2, <1>3 DEF Next

LEMMA TypeInit == Init => Store /\ Locals
  <1> SUFFICES ASSUME Init PROVE Store /\ Locals
    OBVIOUS
  <1>1. Store
    <2>1. /\ 0 \in 0..MaxReference /\ 0 \in 0..MaxRun /\ 0 \in 0..MaxDay
          /\ MaxCommands \in 0..MaxCommands /\ MaxFaults \in 0..MaxFaults
      BY LedgerAssumption
    <2> QED
      BY <2>1 DEF Init, Store
  <1>2. Locals
    BY NoTaskOK, LabelsApart DEF Init, Locals
  <1> QED
    BY <1>1, <1>2

\* The state is well formed: a command knows its scope and its route, and the files hold what
\* the code puts in them.
THEOREM TypeCorrect == Spec => []TypeOK
  <1>1. Store /\ Locals => TypeOK
    BY DEF Store, Locals, TypeOK
  <1> QED
    BY <1>1, TypeInit, TypeStep, PTL DEF Spec

-----------------------------------------------------------------------------
(* The lock excludes, and only who holds it changes what is kept.          *)

Exclusive == \A p \in Proc : pc[p] \in Locked <=> lock = p

\* A step is a step of one process.
LEMMA OneMoves ==
    ASSUME NEW p \in Proc, Step(p), ~Acquire(p)
    PROVE  UNCHANGED <<pc, task>> \/ \E l, t : Goto(p, l, t)
  <1>1. Leave(p) => \E l, t : Goto(p, l, t)
    BY DEF Leave
  <1>2. ASSUME NEW l, Loaded(p, l)
        PROVE  \E k, t : Goto(p, k, t)
    BY <1>1, <1>2 DEF Loaded
  <1>3. GoOn(p) \/ Raise(p) => \E l, t : Goto(p, l, t)
    BY <1>1 DEF GoOn, Raise
  <1>4. CASE Start(p)
    BY <1>4 DEF Start, StartInit, StartRead, StartPrune, Begin
  <1>5. CASE ReadPointer(p) \/ ReadLedger(p) \/ Retry(p) \/ Unreadable(p)
    BY <1>1, <1>2, <1>5 DEF ReadPointer, ReadLedger, Retry, Unreadable
  <1>6. CASE Reuse(p) \/ Defer(p) \/ Answer(p) \/ NoAnswer(p) \/ LastSave(p)
    BY <1>6 DEF Reuse, Defer, Answer, NoAnswer, LastSave
  <1>7. CASE WriteData(p) \/ WriteMeta(p) \/ WriteLedger(p) \/ PointCurrent(p) \/ PointScope(p)
    BY <1>7 DEF WriteData, WriteMeta, WriteLedger, PointCurrent, PointScope
  <1>8. CASE Collect(p) \/ FailWrite(p) \/ LockTimeout(p) \/ Crash(p)
    BY <1>1, <1>3, <1>8 DEF Collect, FailWrite, LockTimeout, Crash
  <1>9. CASE Plan(p) \/ Delete(p) \/ Pruned(p)
    BY <1>1, <1>9 DEF Plan, Delete, Pruned
  <1> QED
    BY <1>4, <1>5, <1>6, <1>7, <1>8, <1>9 DEF Step

\* What a step leaves to the others.
LEMMA OthersStay ==
    ASSUME Locals, NEW p \in Proc, Step(p), NEW q \in Proc, q # p
    PROVE  /\ pc'[q] = pc[q]
           /\ ~Acquire(p) => task'[q] = task[q]
           /\ task'[q].base = task[q].base /\ task'[q].records = task[q].records
           /\ task'[q].held = task[q].held /\ task'[q].op = task[q].op
           /\ task'[q].tries = task[q].tries
  <1>1. task[q] \in Tasks
    BY Held
  <1>2. CASE Acquire(p)
    <2>1. pc'[q] = pc[q]
      BY <1>2 DEF Acquire, Take, Locals
    <2>2. CASE task'[q] = task[q]
      BY <1>2, <2>1, <2>2
    <2>3. CASE task'[q] = [task[q] EXCEPT !.moves = @ + 1]
      BY <1>1, <1>2, <2>1, <2>3, SameButMoves
    <2> QED
      BY <1>2, <2>2, <2>3, TakeTasks
  <1>3. CASE ~Acquire(p)
    <2>1. CASE UNCHANGED <<pc, task>>
      BY <1>3, <2>1
    <2>2. ASSUME NEW l, NEW t, Goto(p, l, t)
          PROVE  pc'[q] = pc[q] /\ task'[q] = task[q]
      BY <2>2 DEF Goto, Locals
    <2> QED
      BY <1>3, <2>1, <2>2, OneMoves
  <1> QED
    BY <1>2, <1>3

\* Who writes holds the lock, and everyone else reads.
Writes(p) ==
    \/ WriteData(p) \/ WriteMeta(p) \/ WriteLedger(p) \/ PointCurrent(p) \/ PointScope(p)
    \/ Collect(p) \/ FailWrite(p) \/ Delete(p)

LEMMA OnlyWritersWrite ==
    ASSUME NEW p \in Proc, Step(p), ~Writes(p)
    PROVE  UNCHANGED <<files, current, scoped, data, meta, last, stale>>
  <1>1. CASE Start(p)
    BY <1>1 DEF Start, StartInit, StartRead, StartPrune, Begin, ledgers, artifacts
  <1>2. CASE ReadPointer(p) \/ ReadLedger(p) \/ Retry(p) \/ Unreadable(p)
    BY <1>2 DEF ReadPointer, ReadLedger, Retry, Unreadable, ledgers, artifacts
  <1>3. CASE Reuse(p) \/ Defer(p) \/ Answer(p) \/ NoAnswer(p) \/ LastSave(p)
    BY <1>3 DEF Reuse, Defer, Answer, NoAnswer, LastSave, ledgers, artifacts
  <1>4. CASE Acquire(p)
    BY <1>4 DEF Acquire, Take, ledgers, artifacts
  <1>5. CASE LockTimeout(p) \/ Crash(p) \/ Plan(p) \/ Pruned(p)
    BY <1>5 DEF LockTimeout, Crash, Plan, Pruned, ledgers, artifacts
  <1> QED
    BY <1>1, <1>2, <1>3, <1>4, <1>5 DEF Step, Writes

LEMMA GotoGoes ==
    ASSUME Locals, NEW p \in Proc
    PROVE  /\ \A l, t : Goto(p, l, t) => pc'[p] = l /\ task'[p] = t
           /\ Leave(p) => pc'[p] = "idle" /\ task'[p] = NoTask
           /\ \A l : Loaded(p, l) => pc'[p] \in {"idle", "route"}
           /\ GoOn(p) \/ Raise(p) => pc'[p] \in {"idle", "lock", "route"}
  <1>1. \A l, t : Goto(p, l, t) => pc'[p] = l /\ task'[p] = t
    BY DEF Goto, Locals
  <1> QED
    BY <1>1 DEF Leave, Loaded, GoOn, Raise

\* The lock is kept, taken by a process that starts to publish or to prune, or given back.
LEMMA LockMoves ==
    ASSUME Store, Locals, Exclusive, NEW p \in Proc, Step(p)
    PROVE  \/ lock' = lock /\ (pc'[p] \in Locked <=> pc[p] \in Locked) /\ ~Acquire(p)
           \/ lock = p /\ lock' = NoOne /\ pc'[p] \notin Locked /\ ~Acquire(p)
           \/ Acquire(p) /\ lock = NoOne /\ lock' = p /\ pc'[p] \in Locked
  <1>0. /\ NoOne # p /\ pc[p] \in Labels /\ (pc[p] \in Locked <=> lock = p)
        /\ Acquire(p) => pc'[p] \in Locked /\ pc[p] = "lock"
    BY LedgerAssumption, AcquireTyped DEF Exclusive, Locals
  <1>1. CASE Start(p)
    <2>1. pc[p] = "idle" /\ pc'[p] \in {"pointer", "lock"} /\ lock' = lock
      BY <1>1, GotoGoes DEF Start, StartInit, StartRead, StartPrune, Begin, At
    <2> QED
      BY <1>0, <2>1, LabelsApart
  <1>2. CASE ReadPointer(p) \/ ReadLedger(p) \/ Retry(p) \/ Unreadable(p)
    <2>1. /\ pc[p] \in Lookups \cup {"unreadable"} /\ lock' = lock
          /\ pc'[p] \in Lookups \cup {"unreadable", "idle", "route"}
      BY <1>2, GotoGoes, LabelsApart DEF ReadPointer, ReadLedger, Retry, Unreadable, At
    <2> QED
      BY <1>0, <2>1, LabelsApart
  <1>3. CASE Reuse(p) \/ Defer(p) \/ Answer(p) \/ NoAnswer(p) \/ LastSave(p)
    <2>1. pc[p] = "route" /\ pc'[p] \in {"route", "lock"} /\ lock' = lock
      BY <1>3, GotoGoes
         DEF Reuse, Defer, Answer, NoAnswer, LastSave, Asked, Validating, At
    <2> QED
      BY <1>0, <2>1, LabelsApart
  <1>4. CASE Acquire(p)
    BY <1>0, <1>4 DEF Acquire, Take
  <1>5. CASE WriteData(p) \/ WriteMeta(p) \/ WriteLedger(p) \/ PointCurrent(p) \/ PointScope(p)
    <2>1. /\ pc[p] \in {"data", "meta", "file", "current", "scope"} /\ lock' = lock
          /\ pc'[p] \in {"meta", "file", "current", "scope", "collect"}
      BY <1>5, GotoGoes DEF WriteData, WriteMeta, WriteLedger, PointCurrent, PointScope, At
    <2> QED
      BY <1>0, <2>1, LabelsApart
  <1>6. CASE Delete(p)
    <2>1. pc[p] = "delete" /\ pc'[p] = "delete" /\ lock' = lock
      BY <1>6, GotoGoes DEF Delete, At
    <2> QED
      BY <1>0, <2>1, LabelsApart
  <1>7. CASE Collect(p) \/ FailWrite(p) \/ Pruned(p)
    <2>1. /\ pc[p] \in Locked \ {"lock"} /\ lock' = NoOne /\ pc'[p] \in {"idle", "lock", "route"}
      BY <1>7, GotoGoes, LabelsApart DEF Collect, FailWrite, Pruned, At
    <2> QED
      BY <1>0, <2>1, LabelsApart
  <1>8. CASE Plan(p)
    <2>1. /\ pc[p] = "plan"
          /\ (lock' = lock /\ pc'[p] = "delete") \/ (lock' = NoOne /\ pc'[p] = "idle")
      BY <1>8, GotoGoes DEF Plan, At
    <2> QED
      BY <1>0, <2>1, LabelsApart
  <1>9. CASE LockTimeout(p)
    <2>1. pc[p] = "lock" /\ pc'[p] \in {"idle", "lock", "route"} /\ lock' = lock
      BY <1>9, GotoGoes DEF LockTimeout, At
    <2> QED
      BY <1>0, <2>1, LabelsApart
  <1>10. CASE Crash(p)
    <2>1. pc'[p] = "idle" /\ lock' = IF lock = p THEN NoOne ELSE lock
      BY <1>10, GotoGoes DEF Crash, Free
    <2> QED
      BY <1>0, <2>1, LabelsApart
  <1> QED
    BY <1>1, <1>2, <1>3, <1>4, <1>5, <1>6, <1>7, <1>8, <1>9, <1>10 DEF Step

LEMMA WritersHold ==
    ASSUME Locals, Exclusive, NEW p \in Proc, Writes(p)
    PROVE  /\ lock = p /\ pc[p] \in Locked
           /\ ~Delete(p) => task[p].op = "init" /\ pc[p] \in Saving
  <1>1. pc[p] \in Locked /\ (~Delete(p) => pc[p] \in Saving)
    BY LabelsApart DEF Writes, WriteData, WriteMeta, WriteLedger, PointCurrent, PointScope, Collect,
                       FailWrite, Delete, At
  <1>2. pc[p] \in Saving => task[p].op = "init"
    BY Held DEF Shape
  <1> QED
    BY <1>1, <1>2 DEF Exclusive

LEMMA ExclusiveStep ==
    ASSUME Store, Locals, Exclusive, [Next]_vars
    PROVE  Exclusive'
  <1>1. CASE UNCHANGED vars \/ Day
    BY <1>1 DEF vars, Day, Exclusive
  <1>2. ASSUME NEW p \in Proc, Step(p)
        PROVE  Exclusive'
    <2>1. ASSUME NEW q \in Proc PROVE (pc'[q] \in Locked <=> lock' = q)
      <3>1. (pc[q] \in Locked <=> lock = q) /\ NoOne \notin Proc
        BY LedgerAssumption DEF Exclusive
      <3>2. CASE q = p
        BY <1>2, <3>1, <3>2, LockMoves
      <3>3. CASE q # p
        BY <1>2, <3>1, <3>3, LockMoves, OthersStay
      <3> QED
        BY <3>2, <3>3
    <2> QED
      BY <2>1 DEF Exclusive
  <1> QED
    BY <1>1, <1>2 DEF Next

-----------------------------------------------------------------------------
(* What the records of a command claim was read in the ledger they come    *)
(* from or is the answer being published.                                  *)

Counts(rec) == rec.status \in {"claim", "failed"}
BaseClaims(t) == IF t.base = NoLedger THEN {} ELSE Claims(t.base)
Older(l) == l # NoLedger => Claims(l) \subseteq 0..last

\* The route whose answer is published already carries it.
Added(p) == pc[p] \in {"file", "current"} /\ task[p].intent # "none"
Carried(p) ==
    \A r \in Route :
        Counts(task[p].records[r]) =>
            \/ task[p].records[r].run \in BaseClaims(task[p])
            \/ Added(p) /\ r = task[p].next /\ task[p].records[r].run = last

\* What the process under the lock relies on.
Relies(p) ==
    /\ pc[p] = "meta" => last \notin Pins /\ last \in data
    /\ Added(p) => Whole(last)
    /\ pc[p] = "current" => /\ Ledger(task[p]) \in files
                            /\ stale \/ task[p].base = NoLedger \/ task[p].base \in Live
    /\ pc[p] \in {"scope", "collect"} => current = Ledger(task[p]) /\ task[p].base = Ledger(task[p])
    /\ pc[p] = "delete" => task[p].doomed \cap Pins = {}

Grounded(p) == Carried(p) /\ Older(task[p].base) /\ Older(task[p].held)

Evidence ==
    /\ PointersResolve
    /\ EvidenceUnlessStale
    /\ \A l \in Live : Older(l)
    /\ \A p \in Proc : Grounded(p) /\ Relies(p)

LEMMA ClaimsAre ==
    ASSUME NEW l, NEW run
    PROVE  run \in Claims(l) <=> \E r \in Route : Counts(l.routes[r]) /\ run = l.routes[r].run
  BY DEF Claims, Counts

LEMMA PinsAre ==
    ASSUME NEW run
    PROVE  run \in Pins <=> \E l \in Live : run \in Claims(l)
  BY DEF Pins

\* The store of two states is the same.
SameStore == UNCHANGED <<files, current, scoped, data, meta, last, stale>>

LEMMA StoreStays ==
    ASSUME SameStore
    PROVE  /\ Live' = Live /\ Pins' = Pins /\ (PointersResolve <=> PointersResolve')
           /\ (EvidenceUnlessStale <=> EvidenceUnlessStale')
           /\ \A l : Older(l) <=> Older(l)'
           /\ \A run : Whole(run) <=> Whole(run)'
  <1>1. Live' = Live
    BY DEF SameStore, Live
  <1>2. Pins' = Pins
    BY <1>1 DEF Pins, Claims
  <1> QED
    BY <1>1, <1>2 DEF SameStore, PointersResolve, EvidenceUnlessStale, Older, Whole, Claims

\* A step leaves what the others rely on.
LEMMA BystanderStays ==
    ASSUME Store, Store', Locals, Exclusive, NEW p \in Proc, Step(p), NEW q \in Proc, q # p,
           Grounded(q), Relies(q), 0..last \subseteq 0..last'
    PROVE  Grounded(q)' /\ Relies(q)'
  <1>1. /\ pc'[q] = pc[q] /\ task'[q].base = task[q].base /\ task'[q].held = task[q].held
        /\ task'[q].records = task[q].records
    BY OthersStay
  <1>2. Older(task[q].base)' /\ Older(task[q].held)'
    <2>1. \A l : Older(l) => Older(l)'
      BY DEF Older, Claims
    <2> QED
      BY <1>1, <2>1 DEF Grounded
  <1>3. CASE pc[q] \notin Locked
    <2>1. ~Added(q) /\ Relies(q)'
      BY <1>1, <1>3, LabelsApart DEF Relies, Added
    <2> QED
      BY <1>1, <1>2, <2>1 DEF Grounded, Carried, BaseClaims, Claims
  <1>4. CASE pc[q] \in Locked
    <2>1. lock = q /\ q # NoOne
      BY <1>4, LedgerAssumption DEF Exclusive
    <2>2. ~Writes(p) /\ ~Acquire(p)
      BY <2>1, WritersHold DEF Acquire
    <2>3. SameStore /\ task'[q] = task[q]
      BY <2>2, OnlyWritersWrite, OthersStay DEF SameStore
    <2>4. Relies(q)'
      BY <1>1, <2>3, StoreStays DEF Relies, Added, Ledger, SameStore
    <2> QED
      BY <1>1, <1>2, <2>3, <2>4 DEF Grounded, Carried, BaseClaims, Claims, Added, SameStore
  <1> QED
    BY <1>3, <1>4

\* What is kept stays sound as long as no new ledger is pointed to.
LEMMA KeptStays ==
    ASSUME Evidence, Live' \subseteq Live, Live' \subseteq files', stale => stale',
           \A run \in Pins : Whole(run) => Whole(run)', 0..last \subseteq 0..last'
    PROVE  PointersResolve' /\ EvidenceUnlessStale' /\ \A l \in Live' : Older(l)'
  <1>1. PointersResolve'
    BY DEF PointersResolve
  <1>2. \A l \in Live' : Older(l)'
    BY DEF Evidence, Older, Claims
  <1>3. \A run : run \in Pins' => run \in Pins
    BY PinsAre DEF Pins, Claims
  <1>4. EvidenceUnlessStale'
    BY <1>3 DEF Evidence, EvidenceUnlessStale
  <1> QED
    BY <1>1, <1>2, <1>4

\* Records that are taken over or no longer count.
LEMMA RecordsStay ==
    ASSUME NEW p \in Proc, Grounded(p), 0..last \subseteq 0..last',
           task'[p].base = task[p].base,
           task'[p].held = task[p].held \/ Older(task[p].held)',
           \A r \in Route : Counts(task'[p].records[r]) =>
                /\ task'[p].records[r] = task[p].records[r]
                /\ ~(Added(p) /\ r = task[p].next)
    PROVE  Grounded(p)'
  <1>2. Older(task[p].base)' /\ Older(task[p].held)'
    <2>1. Older(task[p].base)'
      BY DEF Grounded, Older, Claims
    <2>2. Older(task[p].held)'
      BY DEF Grounded, Older, Claims
    <2> QED
      BY <2>1, <2>2
  <1>3. BaseClaims(task[p])' = BaseClaims(task[p])
    BY DEF BaseClaims, Claims
  <1>4. Carried(p)'
    BY <1>3 DEF Grounded, Carried, Counts
  <1> QED
    BY <1>2, <1>4 DEF Grounded

\* Records all in the ledger they come from.
LEMMA RecordsRead ==
    ASSUME NEW p \in Proc, Older(task[p].base)', task'[p].held = NoLedger \/ Older(task[p].held)',
           \/ task'[p].records = NoRecords
           \/ task'[p].base # NoLedger /\ task'[p].records = task'[p].base.routes
    PROVE  Grounded(p)'
  <1>1. \A r \in Route : ~Counts(NoRecords[r])
    BY DEF NoRecords, None, Counts
  <1>2. ASSUME NEW r \in Route, Counts(task'[p].records[r])
        PROVE  task'[p].records[r].run \in BaseClaims(task'[p])
    BY <1>1, <1>2, ClaimsAre DEF BaseClaims
  <1>3. Carried(p)'
    BY <1>2 DEF Carried, BaseClaims, Claims, Counts
  <1>4. Older(task[p].base)' /\ Older(task[p].held)'
    BY DEF Older
  <1> QED
    BY <1>3, <1>4 DEF Grounded

LEMMA LeaveGrounded ==
    ASSUME Locals, NEW p \in Proc, Leave(p)
    PROVE  Grounded(p)'
  <1>1. task'[p] = NoTask
    BY LeaveKeepsLocals
  <1>2. NoTask.base = NoLedger /\ NoTask.held = NoLedger /\ NoTask.records = NoRecords
    BY DEF NoTask
  <1>3. Older(task[p].base)'
    BY <1>1, <1>2 DEF Older
  <1> QED
    BY <1>1, <1>2, <1>3, RecordsRead

\* What a step of p must secure.
Secures(p) ==
    /\ PointersResolve' /\ EvidenceUnlessStale' /\ (\A l \in Live : Older(l))'
    /\ Grounded(p)' /\ Relies(p)' /\ 0..last \subseteq 0..last'

LEMMA SameStoreSecures ==
    ASSUME Evidence, NEW p \in Proc, SameStore, Grounded(p)', Relies(p)'
    PROVE  Secures(p)
  <1>1. Live' = Live /\ Live \subseteq files /\ 0..last \subseteq 0..last'
    BY StoreStays DEF SameStore, Evidence, PointersResolve
  <1>2. \A run \in Pins : Whole(run) => Whole(run)'
    BY StoreStays
  <1> QED
    BY <1>1, <1>2, KeptStays DEF SameStore, Secures

LEMMA FreeRelies ==
    ASSUME NEW p \in Proc, pc'[p] \notin Locked \/ pc'[p] \in {"data", "plan"}
    PROVE  Relies(p)'
  BY LabelsApart DEF Relies, Added

LEMMA StartSecures ==
    ASSUME Store, Locals, Exclusive, Evidence, NEW p \in Proc, Start(p)
    PROVE  Secures(p)
  <1>1. SameStore
    BY DEF SameStore, Start, StartInit, StartRead, StartPrune, Begin, ledgers, artifacts
  <1>2. PICK c, l, s : Begin(p, c, l, s) /\ l \in {"pointer", "lock"}
    BY DEF Start, StartInit, StartRead, StartPrune
  <1>3. /\ pc'[p] \in {"pointer", "lock"} /\ task'[p].base = NoLedger /\ task'[p].held = NoLedger
        /\ task'[p].records = NoRecords
    <2> DEFINE t == [NoTask EXCEPT !.op = c.op, !.scope = s, !.revalidate = c.revalidate,
                                   !.queries = c.queries, !.tries = 2,
                                   !.moves = IF lock # NoOne /\ c.op # "prune" THEN 1 ELSE 0]
    <2>1. t.base = NoLedger /\ t.held = NoLedger /\ t.records = NoRecords
      BY DEF NoTask
    <2>2. Goto(p, l, t)
      BY <1>2 DEF Begin
    <2> HIDE DEF t
    <2> QED
      BY <1>2, <2>1, <2>2, GotoGoes
  <1>4. Grounded(p)'
    <2>1. Older(task[p].base)'
      BY <1>3 DEF Older
    <2> QED
      BY <1>3, <2>1, RecordsRead
  <1> QED
    BY <1>1, <1>3, <1>4, FreeRelies, SameStoreSecures, LabelsApart

\* What is loaded is none or a ledger that was pointed to.
LEMMA LoadedGrounded ==
    ASSUME Locals, NEW p \in Proc, SameStore, NEW l, Older(l), Loaded(p, l)
    PROVE  Grounded(p)'
  <1>1. CASE Leave(p)
    BY <1>1, LeaveGrounded
  <1>2. CASE ~Leave(p)
    <2> DEFINE recs == IF l = NoLedger THEN NoRecords ELSE l.routes
               t == [task[p] EXCEPT !.base = l, !.path = "current", !.held = NoLedger, !.tries = 0,
                                    !.moves = 0, !.records = recs]
    <2>1. t.base = l /\ t.held = NoLedger /\ t.records = recs
      BY Held DEF Tasks
    <2>2. Goto(p, "route", t)
      BY <1>2 DEF Loaded
    <2> HIDE DEF t
    <2>3. task'[p].base = l /\ task'[p].held = NoLedger /\ task'[p].records = recs
      BY <2>1, <2>2, GotoGoes
    <2>4. Older(task[p].base)'
      BY <2>3 DEF Older, SameStore, Claims
    <2> QED
      BY <2>3, <2>4, RecordsRead
  <1> QED
    BY <1>1, <1>2

LEMMA LookupSecures ==
    ASSUME Store, Locals, Exclusive, Evidence, NEW p \in Proc,
           ReadPointer(p) \/ ReadLedger(p) \/ Retry(p) \/ Unreadable(p)
    PROVE  Secures(p)
  <1>1. SameStore
    BY DEF SameStore, ReadPointer, ReadLedger, Retry, Unreadable, ledgers, artifacts
  <1>2. pc'[p] \notin Locked
    BY GotoGoes, LabelsApart DEF ReadPointer, ReadLedger, Retry, Unreadable
  <1>3. Older(NoLedger) /\ Grounded(p) /\ task[p] \in Tasks /\ Shape(pc[p], task[p])
    BY Held DEF Older, Evidence
  <1>4. ASSUME NEW l, NEW t, Goto(p, l, t), t.base = task[p].base, t.records = task[p].records,
               Older(t.held), ~Added(p)
        PROVE  Grounded(p)'
    <2>1. task'[p] = t
      BY <1>4, GotoGoes
    <2>2. Older(task[p].held)'
      BY <1>1, <1>4, <2>1 DEF Older, SameStore, Claims
    <2> QED
      BY <1>1, <1>3, <1>4, <2>1, <2>2, RecordsStay DEF SameStore
  <1>5. CASE ReadPointer(p)
    <2> DEFINE path == Path(task[p])
               t == [task[p] EXCEPT !.path = path, !.held = Pointer(task[p], path)]
    <2>1. ~Added(p) /\ task[p].scope \in Scopes
      BY <1>3, <1>5, LabelsApart DEF ReadPointer, Added, At, Shape, Tasks
    <2>2. ASSUME Loaded(p, NoLedger)
          PROVE  Grounded(p)'
      BY <1>1, <1>3, <2>2, LoadedGrounded
    <2>3. ASSUME Goto(p, "ledger", t), Pointer(task[p], path) # NoLedger
          PROVE  Grounded(p)'
      <3>1. t.base = task[p].base /\ t.records = task[p].records /\ t.held = Pointer(task[p], path)
        BY <1>3 DEF Tasks
      <3>2. Pointer(task[p], path) \in Live
        BY <2>1, <2>3 DEF Pointer, Live
      <3> HIDE DEF t
      <3> QED
        BY <1>4, <2>1, <2>3, <3>1, <3>2 DEF Evidence
    <2>4. Grounded(p)'
      BY <1>5, <2>2, <2>3 DEF ReadPointer
    <2> QED
      BY <1>1, <1>2, <2>4, FreeRelies, SameStoreSecures
  <1>6. CASE ReadLedger(p)
    <2>1. ~Added(p) /\ Older(task[p].held)
      BY <1>3, <1>6 DEF ReadLedger, Added, At, Grounded
    <2>2. ASSUME Goto(p, "missing", task[p])
          PROVE  Grounded(p)'
      BY <1>4, <2>1, <2>2
    <2>3. ASSUME ~Goto(p, "missing", task[p])
          PROVE  Grounded(p)'
      BY <1>1, <1>3, <1>6, <2>1, <2>3, LoadedGrounded DEF ReadLedger
    <2>4. Grounded(p)'
      BY <2>2, <2>3
    <2> QED
      BY <1>1, <1>2, <2>4, FreeRelies, SameStoreSecures
  <1>7. CASE Retry(p)
    <2> DEFINE t == [task[p] EXCEPT !.tries = @ - 1]
    <2>1. ~Added(p) /\ Older(task[p].held)
      BY <1>3, <1>7 DEF Retry, Added, At, Grounded
    <2>2. t.base = task[p].base /\ t.records = task[p].records /\ t.held = task[p].held
      BY <1>3 DEF Tasks
    <2>3. Goto(p, "pointer", t) \/ Goto(p, "unreadable", task[p])
      BY <1>7 DEF Retry
    <2> HIDE DEF t
    <2>4. Grounded(p)'
      BY <1>4, <2>1, <2>2, <2>3
    <2> QED
      BY <1>1, <1>2, <2>4, FreeRelies, SameStoreSecures
  <1>8. CASE Unreadable(p)
    <2>1. Grounded(p)'
      BY <1>1, <1>3, <1>8, LoadedGrounded, LeaveGrounded DEF Unreadable
    <2> QED
      BY <1>1, <1>2, <2>1, FreeRelies, SameStoreSecures
  <1> QED
    BY <1>5, <1>6, <1>7, <1>8

LEMMA ValidateSecures ==
    ASSUME Store, Locals, Exclusive, Evidence, NEW p \in Proc,
           Reuse(p) \/ Defer(p) \/ Answer(p) \/ NoAnswer(p) \/ LastSave(p)
    PROVE  Secures(p)
  <1>1. SameStore
    BY DEF SameStore, Reuse, Defer, Answer, NoAnswer, LastSave, ledgers, artifacts
  <1>2. pc'[p] \notin Locked
    BY GotoGoes, LabelsApart DEF Reuse, Defer, Answer, NoAnswer, LastSave
  <1>3. Grounded(p) /\ task[p] \in Tasks /\ ~Added(p)
    BY Held DEF Evidence, Reuse, Defer, Answer, NoAnswer, LastSave, Asked, Validating, Added, At
  <1>4. ASSUME NEW l, NEW t, Goto(p, l, t), t.base = task[p].base, t.held = task[p].held,
               \A r \in Route : Counts(t.records[r]) => t.records[r] = task[p].records[r]
        PROVE  Grounded(p)'
    <2>1. task'[p] = t
      BY <1>4, GotoGoes
    <2> QED
      BY <1>1, <1>3, <1>4, <2>1, RecordsStay DEF SameStore
  <1>5. ~Counts(Pending) /\ ~Counts([Pending EXCEPT !.status = "invalid"])
    BY DEF Counts, Pending
  <1>6. ASSUME Reuse(p) PROVE Grounded(p)'
    <2> DEFINE t == [task[p] EXCEPT !.next = @ + 1]
    <2>1. t.base = task[p].base /\ t.held = task[p].held /\ t.records = task[p].records
      BY <1>3 DEF Tasks
    <2>2. Goto(p, "route", t)
      BY <1>6 DEF Reuse
    <2> HIDE DEF t
    <2> QED
      BY <1>4, <2>1, <2>2
  <1>7. ASSUME Defer(p) PROVE Grounded(p)'
    <2> DEFINE n == task[p].next
               r == IF task[p].records[n].status = "failed" /\ Whole(task[p].records[n].run)
                    THEN task[p].records[n] ELSE Pending
               t == [task[p] EXCEPT !.next = @ + 1, !.records[n] = r]
    <2>1. Goto(p, "route", t)
      BY <1>7 DEF Defer
    <2>2. r = task[p].records[n] \/ r = Pending
      OBVIOUS
    <2> HIDE DEF r, n
    <2>3. /\ t.base = task[p].base /\ t.held = task[p].held
          /\ t.records = [task[p].records EXCEPT ![n] = r]
      BY <1>3 DEF Tasks
    <2> HIDE DEF t
    <2>4. \A x \in Route : Counts(t.records[x]) => t.records[x] = task[p].records[x]
      BY <1>3, <1>5, <2>2, <2>3 DEF Tasks
    <2> QED
      BY <1>4, <2>1, <2>3, <2>4
  <1>8. ASSUME Answer(p) PROVE Grounded(p)'
    <2>1. PICK s \in {"claim", "failed"} :
            Goto(p, "lock", [task[p] EXCEPT !.queries = @ - 1, !.intent = s, !.then = "route"])
      BY <1>8 DEF Answer
    <2> DEFINE t == [task[p] EXCEPT !.queries = @ - 1, !.intent = s, !.then = "route"]
    <2>2. t.base = task[p].base /\ t.held = task[p].held /\ t.records = task[p].records
      BY <1>3 DEF Tasks
    <2> HIDE DEF t
    <2> QED
      BY <1>4, <2>1, <2>2 DEF t
  <1>9. ASSUME NoAnswer(p) PROVE Grounded(p)'
    <2> DEFINE n == task[p].next
               t == [task[p] EXCEPT !.queries = @ - 1, !.records[n] = Pending]
               u == [t EXCEPT !.records[t.next].status = "invalid", !.then = "route"]
               v == [t EXCEPT !.stopped = TRUE, !.then = "route"]
               w == [t EXCEPT !.then = "end"]
    <2>1. Goto(p, "lock", u) \/ Goto(p, "lock", v) \/ Goto(p, "lock", w)
      BY <1>9 DEF NoAnswer
    <2>2. /\ t.base = task[p].base /\ t.held = task[p].held /\ t.next = n
          /\ t.records = [task[p].records EXCEPT ![n] = Pending]
      BY <1>3 DEF Tasks
    <2>4. \A x \in Route : Counts(t.records[x]) => t.records[x] = task[p].records[x]
      BY <1>3, <1>5, <2>2 DEF Tasks
    <2>5. v.base = t.base /\ v.held = t.held /\ v.records = t.records
      BY <1>3 DEF Tasks
    <2>6. w.base = t.base /\ w.held = t.held /\ w.records = t.records
      BY <1>3 DEF Tasks
    <2>7. /\ u.base = t.base /\ u.held = t.held
          /\ u.records = [t.records EXCEPT ![n].status = "invalid"]
      BY <1>3 DEF Tasks
    <2> HIDE DEF t, u, v, w
    <2>8. \A x \in Route : Counts(u.records[x]) => u.records[x] = task[p].records[x]
      <3>1. t.records = [task[p].records EXCEPT ![n] = Pending] /\ task[p].records \in [Route -> Records]
        BY <1>3, <2>2 DEF Tasks
      <3>2. ASSUME NEW x \in Route, x # n PROVE u.records[x] = t.records[x]
        BY <2>7, <3>1, <3>2
      <3>3. n \in Route => ~Counts(u.records[n])
        BY <1>5, <2>7, <3>1
      <3> QED
        BY <2>4, <3>2, <3>3
    <2> QED
      BY <1>4, <2>1, <2>2, <2>4, <2>5, <2>6, <2>7, <2>8
  <1>10. ASSUME LastSave(p) PROVE Grounded(p)'
    <2> DEFINE t == [task[p] EXCEPT !.then = "end"]
    <2>1. t.base = task[p].base /\ t.held = task[p].held /\ t.records = task[p].records
      BY <1>3 DEF Tasks
    <2>2. Goto(p, "lock", t)
      BY <1>10 DEF LastSave
    <2> HIDE DEF t
    <2> QED
      BY <1>4, <2>1, <2>2
  <1>11. Grounded(p)'
    BY <1>6, <1>7, <1>8, <1>9, <1>10
  <1> QED
    BY <1>1, <1>2, <1>11, FreeRelies, SameStoreSecures

\* After a publication a command goes on with what it holds.
LEMMA AfterGrounded ==
    ASSUME Locals, NEW p \in Proc, Grounded(p), 0..last \subseteq 0..last',
           (GoOn(p) /\ ~Added(p)) \/ Raise(p)
    PROVE  Grounded(p)'
  <1>0. task[p] \in Tasks
    BY Held
  <1>1. CASE Leave(p)
    BY <1>1, LeaveGrounded
  <1>2. ASSUME GoOn(p), ~Added(p), ~Leave(p)
        PROVE  Grounded(p)'
    <2> DEFINE t == [task[p] EXCEPT !.intent = "none"]
               u == [task[p] EXCEPT !.next = @ + 1]
    <2>1. t.base = task[p].base /\ t.held = task[p].held /\ t.records = task[p].records
      BY <1>0 DEF Tasks
    <2>2. u.base = task[p].base /\ u.held = task[p].held /\ u.records = task[p].records
      BY <1>0 DEF Tasks
    <2>3. Goto(p, "lock", t) \/ Goto(p, "route", u)
      BY <1>2 DEF GoOn
    <2> HIDE DEF t, u
    <2>4. task'[p] = t \/ task'[p] = u
      BY <2>3, GotoGoes
    <2> QED
      BY <1>2, <2>1, <2>2, <2>4, RecordsStay
  <1>3. ASSUME Raise(p), ~Leave(p)
        PROVE  Grounded(p)'
    <2> DEFINE n == task[p].next
               t == [task[p] EXCEPT !.intent = "none", !.then = "end", !.records[n] = Pending]
    <2>1. /\ t.base = task[p].base /\ t.held = task[p].held
          /\ t.records = [task[p].records EXCEPT ![n] = Pending]
      BY <1>0 DEF Tasks
    <2>2. Goto(p, "lock", t)
      BY <1>3 DEF Raise
    <2> HIDE DEF t
    <2>3. task'[p] = t
      BY <2>2, GotoGoes
    <2>4. \A r \in Route : Counts(t.records[r]) => t.records[r] = task[p].records[r] /\ r # n
      <3>1. ~Counts(Pending) /\ task[p].records \in [Route -> Records]
        BY <1>0 DEF Counts, Pending, Tasks
      <3> QED
        BY <2>1, <3>1
    <2> QED
      BY <2>1, <2>3, <2>4, RecordsStay
  <1> QED
    BY <1>1, <1>2, <1>3

LEMMA FreeSecures ==
    ASSUME Store, Locals, Exclusive, Evidence, NEW p \in Proc,
           Acquire(p) \/ LockTimeout(p) \/ Crash(p) \/ Pruned(p) \/ Plan(p)
    PROVE  Secures(p)
  <1>1. SameStore /\ 0..last \subseteq 0..last'
    BY DEF SameStore, Acquire, Take, LockTimeout, Crash, Pruned, Plan, ledgers, artifacts
  <1>2. Grounded(p) /\ task[p] \in Tasks
    BY Held DEF Evidence
  <1>3. CASE Acquire(p)
    <2>1. /\ task'[p] = task[p] /\ pc[p] = "lock" /\ pc'[p] \in Locked
          /\ pc \in [Proc -> Labels]
      BY <1>3, AcquireTyped DEF Locals
    <2>2. /\ pc'[p] \in {"plan", "data", "file"}
          /\ pc'[p] = "file" => task[p].intent = "none"
      BY <1>3, <2>1 DEF Acquire, Take
    <2>3. ~Added(p) /\ ~Added(p)'
      BY <2>1, <2>2 DEF Added
    <2>4. Grounded(p)'
      BY <1>1, <1>2, <2>1, <2>3, RecordsStay
    <2>5. Relies(p)'
      BY <2>2, <2>3 DEF Relies
    <2> QED
      BY <1>1, <2>4, <2>5, SameStoreSecures
  <1>4. CASE LockTimeout(p)
    <2>1. Grounded(p)' /\ pc'[p] \notin Locked
      BY <1>1, <1>2, <1>4, AfterGrounded, GotoGoes, LabelsApart DEF LockTimeout
    <2> QED
      BY <1>1, <2>1, FreeRelies, SameStoreSecures
  <1>5. CASE Leave(p)
    <2>1. Grounded(p)' /\ pc'[p] \notin Locked
      BY <1>5, LeaveGrounded, GotoGoes, LabelsApart
    <2> QED
      BY <1>1, <2>1, FreeRelies, SameStoreSecures
  <1>6. CASE Plan(p) /\ ~Leave(p)
    <2> DEFINE d == {r \in meta : made[r] < now /\ r \notin Pins}
               t == [task[p] EXCEPT !.doomed = d]
    <2>1. /\ t.base = task[p].base /\ t.held = task[p].held /\ t.records = task[p].records
          /\ t.doomed = d
      BY <1>2 DEF Tasks
    <2>2. Goto(p, "delete", t) /\ ~Added(p)
      BY <1>6 DEF Plan, Added, At
    <2>3. d \cap Pins = {}
      OBVIOUS
    <2> HIDE DEF d, t
    <2>4. task'[p] = t /\ pc'[p] = "delete"
      BY <2>2, GotoGoes
    <2>5. Grounded(p)'
      BY <1>1, <1>2, <2>1, <2>2, <2>4, RecordsStay
    <2>6. Relies(p)'
      <3>1. Pins' = Pins
        BY <1>1, StoreStays
      <3> QED
        BY <2>1, <2>3, <2>4, <3>1 DEF Relies, Added
    <2> QED
      BY <1>1, <2>5, <2>6, SameStoreSecures
  <1> QED
    BY <1>3, <1>4, <1>5, <1>6 DEF Crash, Pruned

\* No ledger that is pointed to claims a run to come.
LEMMA PinsAreOld ==
    ASSUME Evidence
    PROVE  Pins \subseteq 0..last
  BY PinsAre, LedgerAssumption DEF Evidence, Older, Live

LEMMA WriteDataSecures ==
    ASSUME Store, Locals, Exclusive, Evidence, NEW p \in Proc, WriteData(p)
    PROVE  Secures(p)
  <1>1. /\ last' = last + 1 /\ data' = data \cup {last'} /\ UNCHANGED <<ledgers, meta, stale>>
        /\ Goto(p, "meta", task[p]) /\ ~Added(p)
    BY DEF WriteData, Added, At
  <1>2. last \in Nat /\ 0..last \subseteq 0..last' /\ last' \notin 0..last
    BY <1>1, LedgerAssumption DEF Store
  <1>3. Live' = Live /\ Live \subseteq files' /\ Pins' = Pins
    <2>1. UNCHANGED <<files, current, scoped>>
      BY <1>1 DEF ledgers
    <2>2. Live' = Live
      BY <2>1 DEF Live
    <2> QED
      BY <2>1, <2>2 DEF Pins, Claims, Evidence, PointersResolve
  <1>4. \A run : Whole(run) => Whole(run)'
    BY <1>1 DEF Whole
  <1>5. PointersResolve' /\ EvidenceUnlessStale' /\ \A l \in Live' : Older(l)'
    BY <1>1, <1>2, <1>3, <1>4, KeptStays
  <1>6. pc'[p] = "meta" /\ task'[p] = task[p]
    BY <1>1, GotoGoes
  <1>7. Grounded(p)'
    BY <1>1, <1>2, <1>6, RecordsStay DEF Evidence
  <1>8. Relies(p)'
    BY <1>1, <1>2, <1>3, <1>6, PinsAreOld DEF Relies, Added
  <1> QED
    BY <1>2, <1>5, <1>7, <1>8 DEF Secures

LEMMA WriteMetaSecures ==
    ASSUME Store, Locals, Exclusive, Evidence, NEW p \in Proc, WriteMeta(p)
    PROVE  Secures(p)
  <1> DEFINE n == task[p].next
             r == [status |-> task[p].intent, run |-> last]
             t == [task[p] EXCEPT !.records[n] = r]
  <1>1. /\ UNCHANGED <<ledgers, data, last, stale>> /\ meta' = meta \cup {last}
        /\ Goto(p, "file", t) /\ ~Added(p) /\ pc[p] = "meta"
    BY DEF WriteMeta, Added, At
  <1>2. 0..last \subseteq 0..last' /\ UNCHANGED <<files, current, scoped>>
    BY <1>1 DEF ledgers
  <1>3. Live' = Live /\ Live \subseteq files'
    BY <1>2 DEF Live, Evidence, PointersResolve
  <1>4. \A run : Whole(run) => Whole(run)'
    BY <1>1 DEF Whole
  <1>5. PointersResolve' /\ EvidenceUnlessStale' /\ \A l \in Live' : Older(l)'
    BY <1>1, <1>2, <1>3, <1>4, KeptStays
  <1>6. task[p] \in Tasks /\ n \in Route /\ Grounded(p) /\ Relies(p)
    BY <1>1, Held, LabelsApart DEF Shape, Evidence
  <1>7. /\ t.base = task[p].base /\ t.held = task[p].held /\ t.next = n
        /\ t.intent = task[p].intent /\ t.records = [task[p].records EXCEPT ![n] = r]
    BY <1>6 DEF Tasks
  <1>8. t.intent # "none" /\ r.run = last
    BY <1>1, <1>7, Held, LabelsApart DEF Shape
  <1> HIDE DEF t, r
  <1>9. pc'[p] = "file" /\ task'[p] = t
    BY <1>1, GotoGoes
  <1>10. Added(p)'
    BY <1>8, <1>9 DEF Added
  <1>11. Carried(p)'
    <2>1. ASSUME NEW x \in Route, Counts(t.records[x])
          PROVE  t.records[x].run \in BaseClaims(t) \/ (x = t.next /\ t.records[x].run = last')
      <3>1. BaseClaims(t) = BaseClaims(task[p])
        BY <1>7 DEF BaseClaims
      <3>2. CASE x = n
        BY <1>1, <1>6, <1>7, <1>8, <3>2 DEF Tasks
      <3>3. CASE x # n
        <4>1. t.records[x] = task[p].records[x]
          BY <1>6, <1>7, <3>3 DEF Tasks
        <4> QED
          BY <1>1, <1>6, <2>1, <3>1, <4>1 DEF Grounded, Carried
      <3> QED
        BY <3>2, <3>3
    <2> QED
      BY <1>9, <1>10, <2>1 DEF Carried, Added, BaseClaims, Claims, Counts
  <1>12. Grounded(p)'
    <2>1. Older(task[p].base)' /\ Older(task[p].held)'
      BY <1>1, <1>6, <1>7, <1>9 DEF Grounded, Older, Claims
    <2> QED
      BY <1>11, <2>1 DEF Grounded
  <1>13. Relies(p)'
    BY <1>1, <1>6, <1>9 DEF Relies, Whole
  <1> QED
    BY <1>2, <1>5, <1>12, <1>13 DEF Secures

LEMMA WriteLedgerSecures ==
    ASSUME Store, Locals, Exclusive, Evidence, NEW p \in Proc, WriteLedger(p)
    PROVE  Secures(p)
  <1>1. /\ files' = files \cup {Ledger(task[p])}
        /\ stale' = (stale \/ (task[p].base # NoLedger /\ task[p].base \notin Live))
        /\ Goto(p, "current", task[p]) /\ pc[p] = "file"
        /\ UNCHANGED <<current, scoped, data, meta, last>>
    BY DEF WriteLedger, artifacts, At
  <1>2. 0..last \subseteq 0..last' /\ Live' = Live /\ Live \subseteq files'
    BY <1>1 DEF Live, Evidence, PointersResolve
  <1>3. \A run : Whole(run) => Whole(run)'
    BY <1>1 DEF Whole
  <1>4. PointersResolve' /\ EvidenceUnlessStale' /\ \A l \in Live' : Older(l)'
    BY <1>1, <1>2, <1>3, KeptStays
  <1>5. pc'[p] = "current" /\ task'[p] = task[p] /\ Grounded(p) /\ Relies(p)
    BY <1>1, GotoGoes DEF Evidence
  <1>6. Added(p)' <=> Added(p)
    BY <1>1, <1>5 DEF Added
  <1>7. Grounded(p)'
    BY <1>1, <1>5, <1>6 DEF Grounded, Carried, Counts, BaseClaims, Claims, Older
  <1>8. Relies(p)'
    BY <1>1, <1>2, <1>3, <1>5, <1>6 DEF Relies, Ledger
  <1> QED
    BY <1>2, <1>4, <1>7, <1>8 DEF Secures

LEMMA PointCurrentSecures ==
    ASSUME Store, Locals, Exclusive, Evidence, NEW p \in Proc, PointCurrent(p)
    PROVE  Secures(p)
  <1> DEFINE L == Ledger(task[p])
             t == [task[p] EXCEPT !.base = L]
  <1>1. /\ current' = L /\ Goto(p, "scope", t) /\ pc[p] = "current"
        /\ UNCHANGED <<files, scoped, data, meta, last, stale>>
    BY DEF PointCurrent, artifacts, At
  <1>2. task[p] \in Tasks /\ Grounded(p) /\ Relies(p) /\ Shape(pc[p], task[p])
    BY Held DEF Evidence
  <1>3. /\ L \in Ledgers /\ L # NoLedger /\ L.routes = task[p].records
        /\ L.scope = task[p].scope
    <2>1. task[p].scope \in Scopes
      BY <1>1, <1>2, LabelsApart DEF Shape
    <2> QED
      BY <1>2, <2>1, LedgerAssumption DEF Ledger, Ledgers, Tasks
  <1>4. L \in files /\ (stale \/ task[p].base = NoLedger \/ task[p].base \in Live)
    BY <1>1, <1>2 DEF Relies
  <1>5. /\ t.base = L /\ t.held = task[p].held /\ t.records = task[p].records
        /\ t.scope = task[p].scope
    BY <1>2 DEF Tasks
  <1> HIDE DEF t
  <1>6. \A run \in Claims(L) : run \in BaseClaims(task[p]) \/ (Added(p) /\ run = last)
    <2>1. ASSUME NEW run \in Claims(L)
          PROVE  run \in BaseClaims(task[p]) \/ (Added(p) /\ run = last)
      <3>1. PICK r \in Route : Counts(task[p].records[r]) /\ run = task[p].records[r].run
        BY <1>3, <2>1, ClaimsAre
      <3> QED
        BY <1>2, <3>1 DEF Grounded, Carried
    <2> QED
      BY <2>1
  <1> HIDE DEF L
  <1>7. Older(L)
    <2>1. last \in 0..last
      BY LedgerAssumption DEF Store
    <2> QED
      BY <1>2, <1>6, <2>1 DEF Older, Grounded, BaseClaims
  <1>8. Live' \subseteq Live \cup {L}
    BY <1>1 DEF Live
  <1>9. PointersResolve'
    BY <1>1, <1>4, <1>8 DEF Evidence, PointersResolve
  <1>10. (\A l \in Live : Older(l))' /\ Older(current)'
    <2>1. \A l : Older(l) <=> Older(l)'
      BY <1>1 DEF Older, Claims
    <2>2. \A l \in Live' : Older(l)
      BY <1>7, <1>8 DEF Evidence
    <2> QED
      BY <1>1, <1>7, <2>1, <2>2
  <1>11. EvidenceUnlessStale'
    <2>1. ASSUME ~stale, NEW run \in Pins'
          PROVE  Whole(run)
      <3>1. PICK l \in Live' : run \in Claims(l)
        BY DEF Pins, Claims
      <3>2. \A k \in Live : run \in Claims(k) => Whole(run)
        BY <2>1, PinsAre DEF Evidence, EvidenceUnlessStale
      <3>3. CASE l \in Live
        BY <3>1, <3>2, <3>3
      <3>4. CASE l = L
        BY <1>2, <1>4, <1>6, <2>1, <3>1, <3>2, <3>4 DEF BaseClaims, Relies
      <3> QED
        BY <1>8, <3>1, <3>3, <3>4
    <2> QED
      BY <1>1, <2>1 DEF EvidenceUnlessStale, Whole
  <1>12. pc'[p] = "scope" /\ task'[p] = t
    BY <1>1, GotoGoes
  <1>13. Grounded(p)'
    <2>1. Older(task[p].base)'
      BY <1>1, <1>5, <1>10, <1>12
    <2>2. Older(task[p].held)'
      BY <1>1, <1>2, <1>5, <1>12 DEF Grounded, Older, Claims
    <2> QED
      BY <1>3, <1>5, <1>12, <2>1, <2>2, RecordsRead
  <1>14. Relies(p)'
    <2>1. Ledger(t) = L
      BY <1>5 DEF Ledger, L
    <2> QED
      BY <1>1, <1>5, <1>12, <2>1 DEF Relies, Added, Ledger
  <1> QED
    BY <1>1, <1>9, <1>10, <1>11, <1>13, <1>14 DEF Secures

LEMMA PointScopeSecures ==
    ASSUME Store, Locals, Exclusive, Evidence, NEW p \in Proc, PointScope(p)
    PROVE  Secures(p)
  <1> DEFINE L == Ledger(task[p])
  <1>1. /\ scoped' = [scoped EXCEPT ![task[p].scope] = L] /\ Goto(p, "collect", task[p])
        /\ pc[p] = "scope" /\ UNCHANGED <<files, current, data, meta, last, stale>>
    BY DEF PointScope, artifacts, At
  <1>2. Grounded(p) /\ Relies(p) /\ current = L /\ task[p].base = L
    BY <1>1 DEF Evidence, Relies
  <1>3. Live' \subseteq Live
    BY <1>1, <1>2 DEF Live, Store
  <1>4. 0..last \subseteq 0..last' /\ Live' \subseteq files'
    BY <1>1, <1>3 DEF Evidence, PointersResolve
  <1>5. \A run : Whole(run) => Whole(run)'
    BY <1>1 DEF Whole
  <1>6. PointersResolve' /\ EvidenceUnlessStale' /\ \A l \in Live' : Older(l)'
    BY <1>1, <1>3, <1>4, <1>5, KeptStays
  <1>7. pc'[p] = "collect" /\ task'[p] = task[p]
    BY <1>1, GotoGoes
  <1>8. Grounded(p)'
    BY <1>1, <1>2, <1>4, <1>7, RecordsStay DEF Added
  <1>9. Relies(p)'
    BY <1>1, <1>2, <1>7 DEF Relies, Added, Ledger
  <1> QED
    BY <1>4, <1>6, <1>8, <1>9 DEF Secures

LEMMA CollectSecures ==
    ASSUME Store, Locals, Exclusive, Evidence, NEW p \in Proc, Collect(p)
    PROVE  Secures(p)
  <1>1. /\ files \cap Live \subseteq files' /\ GoOn(p) /\ pc[p] = "collect"
        /\ UNCHANGED <<current, scoped, data, meta, last, stale>>
    BY DEF Collect, artifacts, At
  <1>2. Live' = Live
    BY <1>1 DEF Live
  <1>3. 0..last \subseteq 0..last' /\ Live' \subseteq files'
    BY <1>1, <1>2 DEF Evidence, PointersResolve
  <1>4. \A run : Whole(run) => Whole(run)'
    BY <1>1 DEF Whole
  <1>5. PointersResolve' /\ EvidenceUnlessStale' /\ \A l \in Live' : Older(l)'
    BY <1>1, <1>2, <1>3, <1>4, KeptStays
  <1>6. Grounded(p)' /\ pc'[p] \notin Locked
    BY <1>1, <1>3, AfterGrounded, GotoGoes, LabelsApart DEF Evidence, Added
  <1> QED
    BY <1>3, <1>5, <1>6, FreeRelies DEF Secures

LEMMA FailWriteSecures ==
    ASSUME Store, Locals, Exclusive, Evidence, NEW p \in Proc, FailWrite(p)
    PROVE  Secures(p)
  <1>1. /\ data' = IF pc[p] = "meta" THEN data \ {last} ELSE data
        /\ Raise(p) /\ UNCHANGED <<files, current, scoped, meta, last, stale>>
    BY DEF FailWrite, ledgers, At
  <1>2. Live' = Live
    BY <1>1 DEF Live
  <1>3. 0..last \subseteq 0..last' /\ Live' \subseteq files'
    BY <1>1, <1>2 DEF Evidence, PointersResolve
  <1>4. \A run \in Pins : Whole(run) => Whole(run)'
    BY <1>1 DEF Whole, Evidence, Relies
  <1>5. PointersResolve' /\ EvidenceUnlessStale' /\ \A l \in Live' : Older(l)'
    BY <1>1, <1>2, <1>3, <1>4, KeptStays
  <1>6. Grounded(p)' /\ pc'[p] \notin Locked
    BY <1>1, <1>3, AfterGrounded, GotoGoes, LabelsApart DEF Evidence
  <1> QED
    BY <1>3, <1>5, <1>6, FreeRelies DEF Secures

LEMMA DeleteSecures ==
    ASSUME Store, Locals, Exclusive, Evidence, NEW p \in Proc, Delete(p)
    PROVE  Secures(p)
  <1>1. PICK r \in task[p].doomed :
           /\ data \ {r} \subseteq data' /\ meta \ {r} \subseteq meta'
           /\ UNCHANGED <<pc, task>> \/ Goto(p, "delete", [task[p] EXCEPT !.doomed = @ \ {r}])
    BY DEF Delete
  <1>2. UNCHANGED <<files, current, scoped, last, stale>> /\ pc[p] = "delete"
    BY DEF Delete, ledgers, At
  <1>3. Grounded(p) /\ Relies(p) /\ task[p].doomed \cap Pins = {} /\ task[p] \in Tasks
    BY <1>2, Held DEF Evidence, Relies
  <1>4. Live' = Live /\ Pins' = Pins
    BY <1>2 DEF Live, Pins, Claims
  <1>5. 0..last \subseteq 0..last' /\ Live' \subseteq files'
    BY <1>2, <1>4 DEF Evidence, PointersResolve
  <1>6. \A run \in Pins : Whole(run) => Whole(run)'
    BY <1>1, <1>3 DEF Whole
  <1>7. PointersResolve' /\ EvidenceUnlessStale' /\ \A l \in Live' : Older(l)'
    BY <1>2, <1>4, <1>5, <1>6, KeptStays
  <1>8. /\ pc'[p] = "delete" /\ task'[p].base = task[p].base /\ task'[p].held = task[p].held
        /\ task'[p].records = task[p].records /\ task'[p].doomed \subseteq task[p].doomed
    <2> DEFINE t == [task[p] EXCEPT !.doomed = @ \ {r}]
    <2>1. /\ t.base = task[p].base /\ t.held = task[p].held /\ t.records = task[p].records
          /\ t.doomed \subseteq task[p].doomed
      BY <1>3 DEF Tasks
    <2> HIDE DEF t
    <2>2. CASE UNCHANGED <<pc, task>>
      BY <1>2, <2>2
    <2>3. CASE Goto(p, "delete", t)
      BY <2>1, <2>3, GotoGoes
    <2> QED
      BY <1>1, <2>2, <2>3 DEF t
  <1>9. Grounded(p)'
    BY <1>2, <1>3, <1>5, <1>8, RecordsStay DEF Added
  <1>10. Relies(p)'
    BY <1>3, <1>4, <1>8 DEF Relies, Added
  <1> QED
    BY <1>5, <1>7, <1>9, <1>10 DEF Secures

LEMMA EvidenceStep ==
    ASSUME Store, Store', Locals, Exclusive, Evidence, [Next]_vars
    PROVE  Evidence'
  <1>1. CASE UNCHANGED vars \/ Day
    <2>1. SameStore /\ UNCHANGED <<pc, task>>
      BY <1>1 DEF SameStore, vars, Day, ledgers, artifacts
    <2>2. (\A l \in Live : Older(l))'
      BY <2>1, StoreStays DEF Evidence
    <2>3. ASSUME NEW p \in Proc PROVE Grounded(p)' /\ Relies(p)'
      <3>1. Grounded(p) /\ Relies(p)
        BY DEF Evidence
      <3>2. Grounded(p)'
        BY <2>1, <3>1 DEF Grounded, Carried, Added, BaseClaims, Older, Claims, SameStore
      <3>3. Relies(p)'
        BY <2>1, <3>1, StoreStays DEF Relies, Added, Ledger, SameStore
      <3> QED
        BY <3>2, <3>3
    <2> QED
      BY <2>1, <2>2, <2>3, StoreStays DEF Evidence
  <1>2. ASSUME NEW p \in Proc, Step(p)
        PROVE  Evidence'
    <2>1. Secures(p)
      <3>1. CASE Start(p) \/ ReadPointer(p) \/ ReadLedger(p) \/ Retry(p) \/ Unreadable(p)
        BY <3>1, StartSecures, LookupSecures
      <3>2. CASE Reuse(p) \/ Defer(p) \/ Answer(p) \/ NoAnswer(p) \/ LastSave(p)
        BY <3>2, ValidateSecures
      <3>3. CASE Acquire(p) \/ LockTimeout(p) \/ Crash(p) \/ Pruned(p) \/ Plan(p)
        BY <3>3, FreeSecures
      <3>4. CASE WriteData(p) \/ WriteMeta(p) \/ WriteLedger(p)
        BY <3>4, WriteDataSecures, WriteMetaSecures, WriteLedgerSecures
      <3>5. CASE PointCurrent(p) \/ PointScope(p) \/ Collect(p)
        BY <3>5, PointCurrentSecures, PointScopeSecures, CollectSecures
      <3>6. CASE FailWrite(p) \/ Delete(p)
        BY <3>6, FailWriteSecures, DeleteSecures
      <3> QED
        BY <1>2, <3>1, <3>2, <3>3, <3>4, <3>5, <3>6 DEF Step
    <2>2. ASSUME NEW q \in Proc, q # p PROVE Grounded(q)' /\ Relies(q)'
      BY <1>2, <2>1, <2>2, BystanderStays DEF Secures, Evidence
    <2> QED
      BY <2>1, <2>2 DEF Secures, Evidence
  <1> QED
    BY <1>1, <1>2 DEF Next

LEMMA EvidenceInit == Init => Exclusive /\ Evidence
  <1> SUFFICES ASSUME Init PROVE Exclusive /\ Evidence
    OBVIOUS
  <1>1. Live = {} /\ Pins = {}
    BY DEF Init, Live, Pins
  <1>2. ASSUME NEW p \in Proc PROVE Grounded(p) /\ Relies(p)
    <2>1. task[p] = NoTask /\ pc[p] = "idle"
      BY DEF Init
    <2>2. \A r \in Route : ~Counts(NoTask.records[r])
      BY DEF NoTask, NoRecords, None, Counts
    <2>3. NoTask.base = NoLedger /\ NoTask.held = NoLedger
      BY DEF NoTask
    <2> QED
      BY <2>1, <2>2, <2>3 DEF Grounded, Carried, Older, Relies, Added
  <1>3. Exclusive
    BY LedgerAssumption, LabelsApart DEF Init, Exclusive
  <1> QED
    BY <1>1, <1>2, <1>3 DEF Evidence, PointersResolve, EvidenceUnlessStale

LEMMA EvidenceAlways == Spec => [](Store /\ Locals /\ Exclusive /\ Evidence)
  BY TypeInit, TypeStep, ExclusiveStep, EvidenceInit, EvidenceStep, PTL DEF Spec

\* Whatever a crash or an error interrupts, a pointer names a ledger that is there: the file is
\* written before the pointers and collection keeps what any of them names.
THEOREM PointersAlwaysResolve == Spec => []PointersResolve
  BY EvidenceAlways, PTL DEF Evidence

\* What a live ledger claims can be verified as long as nobody publishes records taken from a
\* ledger that has been replaced meanwhile: publish_validation_record puts an answer and the
\* ledger that claims it in place under one lock.
THEOREM ClaimsAreKept == Spec => []EvidenceUnlessStale
  BY EvidenceAlways, PTL DEF Evidence

\* What a step deletes was planned for it or is the run of a publication that failed.
LEMMA SparesStep ==
    ASSUME Store, Locals, Exclusive, Evidence, [Next]_vars
    PROVE  \A r \in (data \ data') \cup (meta \ meta') : \A l \in Live : r \notin Claims(l)
  <1> SUFFICES ASSUME NEW r \in (data \ data') \cup (meta \ meta')
               PROVE  r \notin Pins
    BY PinsAre
  <1>1. PICK p \in Proc : Step(p)
    BY DEF Next, Day, vars, artifacts
  <1>2. Writes(p) /\ Relies(p)
    BY <1>1, OnlyWritersWrite DEF Writes, Evidence
  <1>3. ~(WriteData(p) \/ WriteMeta(p))
    BY DEF WriteData, WriteMeta
  <1>4. ~(WriteLedger(p) \/ PointCurrent(p) \/ PointScope(p) \/ Collect(p))
    BY DEF WriteLedger, PointCurrent, PointScope, Collect, artifacts
  <1>5. CASE FailWrite(p)
    BY <1>2, <1>5 DEF FailWrite, Relies, At
  <1>6. CASE Delete(p)
    <2>1. pc[p] = "delete" /\ r \in task[p].doomed
      BY <1>6 DEF Delete, At
    <2> QED
      BY <1>2, <2>1 DEF Relies
  <1> QED
    BY <1>2, <1>3, <1>4, <1>5, <1>6 DEF Writes

\* Nothing that is deleted, by results prune or by a write_result that fails, is claimed by a
\* live ledger, of any scope.
THEOREM PruneSpares == Spec => PruneSparesEvidence
  <1>1. Store /\ Locals /\ Exclusive /\ Evidence /\ [Next]_vars =>
          [\A r \in (data \ data') \cup (meta \ meta') : \A l \in Live : r \notin Claims(l)]_vars
    BY SparesStep
  <1> QED
    BY <1>1, EvidenceAlways, PTL DEF Spec, PruneSparesEvidence

-----------------------------------------------------------------------------
(* A reader and the publications that overlap it.                          *)

Publishing == lock # NoOne /\ task[lock].op = "init"

\* As long as fewer than two publications overlap the reading, what it holds is there until the
\* publication ends, and after that one more try finds it.
Follows(p) ==
    pc[p] \in Lookups /\ task[p].moves < 2 =>
        /\ task[p].moves = 0 => ~Publishing /\ task[p].tries = 2
        /\ task[p].tries = 2 \/ (task[p].tries = 1 /\ ~Publishing)
        /\ pc[p] = "ledger" /\ (Publishing \/ task[p].moves = 0 \/ task[p].tries = 1) =>
              task[p].held \in files
        /\ pc[p] = "missing" => /\ task[p].moves = 1 /\ ~Publishing /\ task[p].tries = 2
                                /\ task[p].held \notin files

Following == \A p \in Proc : Follows(p) /\ (pc[p] = "unreadable" => task[p].moves > 1)

\* A publication begins and ends with the lock, and collects last.
LEMMA PublishingMoves ==
    ASSUME Store, Locals, Locals', Exclusive, NEW p \in Proc, Step(p)
    PROVE  \/ Acquire(p) /\ task[p].op = "init" /\ ~Publishing /\ Publishing' /\ files' = files
           \/ /\ Acquire(p) => task[p].op # "init"
              /\ Publishing' <=> Publishing
              /\ files' = files \/ (Publishing /\ files \subseteq files')
           \/ ~Acquire(p) /\ Publishing /\ ~Publishing'
  <1>0. NoOne \notin Proc /\ (pc[p] \in Locked <=> lock = p) /\ lock \in Proc \cup {NoOne}
    BY LedgerAssumption DEF Exclusive, Store
  <1>1. CASE Acquire(p)
    <2>1. files' = files /\ lock = NoOne /\ lock' = p /\ task'[p] = task[p]
      BY <1>1, AcquireTyped DEF Acquire, Take, ledgers
    <2> QED
      BY <1>0, <1>1, <2>1 DEF Publishing
  <1>2. CASE lock = p /\ lock' = NoOne
    <2>1. ~Publishing' /\ ~Acquire(p)
      BY <1>0, <1>2 DEF Publishing, Acquire
    <2>2. CASE Publishing
      BY <2>1, <2>2
    <2>3. CASE ~Publishing
      <3>1. ~(Writes(p) /\ ~Delete(p))
        BY <1>0, <1>2, <2>3, WritersHold DEF Publishing
      <3>2. files' = files
        <4>1. Delete(p) => files' = files
          BY DEF Delete, ledgers
        <4> QED
          BY <3>1, <4>1, OnlyWritersWrite
      <3> QED
        BY <2>1, <2>3, <3>2
    <2> QED
      BY <2>2, <2>3
  <1>3. CASE lock # p /\ lock' = lock /\ ~Acquire(p)
    <2>1. ~Writes(p)
      BY <1>3, WritersHold
    <2>2. files' = files
      BY <2>1, OnlyWritersWrite
    <2>3. lock # NoOne => task'[lock].op = task[lock].op
      BY <1>0, <1>3, OthersStay
    <2> QED
      BY <1>3, <2>2, <2>3 DEF Publishing
  <1>4. CASE lock = p /\ lock' = p /\ ~Acquire(p)
    <2>1. \/ WriteData(p) \/ WriteMeta(p) \/ WriteLedger(p) \/ PointCurrent(p) \/ PointScope(p)
          \/ Delete(p) \/ (Plan(p) /\ ~Leave(p))
      <3>1. pc[p] \in Locked
        BY <1>0, <1>4
      <3>2. ~Start(p)
        BY <3>1, LabelsApart DEF Start, StartInit, StartRead, StartPrune, Begin, At
      <3>3. ~(ReadPointer(p) \/ ReadLedger(p) \/ Retry(p) \/ Unreadable(p))
        BY <3>1, LabelsApart DEF ReadPointer, ReadLedger, Retry, Unreadable, At
      <3>4. ~(Reuse(p) \/ Defer(p) \/ Answer(p) \/ NoAnswer(p) \/ LastSave(p))
        BY <3>1, LabelsApart DEF Reuse, Defer, Answer, NoAnswer, LastSave, Asked, Validating, At
      <3>5. ~(Collect(p) \/ FailWrite(p) \/ Pruned(p))
        BY <1>0, <1>4 DEF Collect, FailWrite, Pruned
      <3>6. ~LockTimeout(p) /\ ~Crash(p)
        BY <1>0, <1>4 DEF LockTimeout, Crash, Free
      <3>7. ~(Plan(p) /\ Leave(p))
        <4>1. Leave(p) => pc'[p] \notin Locked
          BY GotoGoes, LabelsApart
        <4> QED
          BY <1>0, <1>4, <3>1, <4>1, LockMoves
      <3> QED
        BY <1>4, <3>2, <3>3, <3>4, <3>5, <3>6, <3>7 DEF Step
    <2>2. (pc[p] \in Saving /\ pc'[p] \in Saving) \/ (pc[p] \in Pruning /\ pc'[p] \in Pruning)
      BY <2>1, GotoGoes, LabelsApart
         DEF WriteData, WriteMeta, WriteLedger, PointCurrent, PointScope, Delete, Plan, At
    <2>3. task'[p].op = task[p].op
      <3>1. Shape(pc[p], task[p]) /\ Shape(pc'[p], task'[p])
        BY DEF Locals
      <3> QED
        BY <2>2, <3>1 DEF Shape
    <2>4. Publishing' <=> Publishing
      BY <1>4, <2>3 DEF Publishing
    <2>5. files' = files \/ WriteLedger(p)
      BY <2>1 DEF WriteData, WriteMeta, PointCurrent, PointScope, Delete, Plan, ledgers
    <2>6. WriteLedger(p) => Publishing /\ files \subseteq files'
      <3>1. WriteLedger(p) => task[p].op = "init"
        BY WritersHold DEF Writes, WriteLedger, Delete, At
      <3> QED
        BY <1>0, <1>4, <3>1 DEF WriteLedger, Publishing
    <2> QED
      BY <1>4, <2>4, <2>5, <2>6
  <1> QED
    BY <1>0, <1>1, <1>2, <1>3, <1>4, LockMoves

LEMMA ReaderFollows ==
    ASSUME Store, Locals, Locals', Exclusive, Following, NEW p \in Proc, Step(p),
           NEW q \in Proc, q # p
    PROVE  Follows(q)' /\ (pc'[q] = "unreadable" => task'[q].moves > 1)
  <1>0. /\ pc'[q] = pc[q] /\ task'[q].held = task[q].held /\ task'[q].tries = task[q].tries
        /\ ~Acquire(p) => task'[q] = task[q]
        /\ task[q] \in Tasks /\ task[q].moves \in 0..2
        /\ Follows(q) /\ (pc[q] = "unreadable" => task[q].moves > 1)
    BY OthersStay, Held DEF Following, Tasks
  <1>1. /\ task'[q] = task[q] \/ (pc[q] \in Lookups /\ task[q].moves < 2)
        /\ ~(Acquire(p) /\ task[p].op = "init") => task'[q] = task[q]
        /\ Acquire(p) /\ task[p].op = "init" /\ pc[q] \in Lookups =>
              \/ task[q].moves = 2 /\ task'[q] = task[q]
              \/ task[q].moves < 2 /\ task'[q].moves = task[q].moves + 1
    <2>1. CASE Acquire(p)
      <3> DEFINE t == [task[q] EXCEPT !.moves = @ + 1]
      <3>1. t.moves = task[q].moves + 1
        BY <1>0 DEF Tasks
      <3>2. /\ task'[q] = task[q] \/ (pc[q] \in Lookups /\ task[p].op = "init"
                                     /\ task[q].moves < 2 /\ task'[q] = t)
            /\ task[p].op = "init" /\ pc[q] \in Lookups /\ task[q].moves < 2 => task'[q] = t
        BY <2>1, TakeTasks
      <3> HIDE DEF t
      <3>3. task[q].moves < 2 \/ task[q].moves = 2
        BY <1>0
      <3> QED
        BY <2>1, <3>1, <3>2, <3>3
    <2>2. CASE ~Acquire(p)
      BY <1>0, <2>2
    <2> QED
      BY <2>1, <2>2
  <1>2. pc'[q] = "unreadable" => task'[q].moves > 1
    BY <1>0, <1>1, LabelsApart
  <1>3. CASE Acquire(p) /\ task[p].op = "init" /\ ~Publishing /\ Publishing' /\ files' = files
    BY <1>0, <1>1, <1>2, <1>3 DEF Follows
  <1>4. CASE /\ Acquire(p) => task[p].op # "init"
             /\ Publishing' <=> Publishing
             /\ files' = files \/ (Publishing /\ files \subseteq files')
    BY <1>0, <1>1, <1>2, <1>4 DEF Follows
  <1>5. CASE ~Acquire(p) /\ Publishing /\ ~Publishing'
    BY <1>0, <1>1, <1>2, <1>5 DEF Follows
  <1> QED
    BY <1>3, <1>4, <1>5, PublishingMoves

LEMMA MoverFollows ==
    ASSUME Store, Locals, Locals', Exclusive, Evidence, Following, NEW p \in Proc, Step(p)
    PROVE  Follows(p)' /\ (pc'[p] = "unreadable" => task'[p].moves > 1)
  <1>0. /\ task[p] \in Tasks /\ task[p].moves \in 0..2 /\ task[p].tries \in 0..2
        /\ Shape(pc[p], task[p]) /\ Follows(p)
    BY Held DEF Following, Tasks
  <1>1. CASE pc'[p] \notin Lookups \cup {"unreadable"}
    BY <1>1 DEF Follows
  <1>2. ASSUME pc[p] \in Labels \ (Locked \cup {"lock"}), UNCHANGED lock
        PROVE  Publishing' <=> Publishing
    <2>1. lock # p /\ lock \in Proc \cup {NoOne} /\ ~Acquire(p)
      BY <1>2, LabelsApart DEF Exclusive, Store, Acquire, At
    <2> QED
      BY <1>2, <2>1, OthersStay DEF Publishing
  <1>3. CASE Start(p) /\ pc'[p] \in Lookups \cup {"unreadable"}
    <2>1. PICK c, l, s : /\ Begin(p, c, l, s)
                         /\ (l = "pointer" /\ c.op # "prune") \/ (l = "lock" /\ c.op = "prune")
      BY <1>3 DEF Start, StartInit, StartRead, StartPrune
    <2> DEFINE n == IF lock # NoOne /\ c.op # "prune" THEN 1 ELSE 0
               t == [NoTask EXCEPT !.op = c.op, !.scope = s, !.revalidate = c.revalidate,
                                   !.queries = c.queries, !.tries = 2, !.moves = n]
    <2>2. t.tries = 2 /\ t.moves = n
      BY DEF NoTask
    <2>3. Goto(p, l, t) /\ pc[p] = "idle" /\ lock' = lock
      BY <2>1 DEF Begin, At
    <2> HIDE DEF t
    <2>4. pc'[p] = l /\ task'[p] = t
      BY <2>3, GotoGoes
    <2>5. l = "pointer" /\ c.op # "prune"
      BY <1>3, <2>1, <2>4, LabelsApart
    <2>6. n = 0 => ~Publishing
      BY <2>5 DEF Publishing
    <2>7. Publishing' <=> Publishing
      BY <1>2, <2>3, LabelsApart
    <2> QED
      BY <2>2, <2>4, <2>5, <2>6, <2>7 DEF Follows
  <1>4. CASE ReadPointer(p) /\ pc'[p] \in Lookups \cup {"unreadable"}
    <2> DEFINE path == Path(task[p])
               t == [task[p] EXCEPT !.path = path, !.held = Pointer(task[p], path)]
    <2>1. pc[p] = "pointer" /\ UNCHANGED <<files, lock>> /\ task[p].scope \in Scopes
      BY <1>0, <1>4, LabelsApart DEF ReadPointer, At, ledgers, Shape
    <2>2. Goto(p, "ledger", t) /\ Pointer(task[p], path) # NoLedger
      BY <1>4, GotoGoes, LabelsApart DEF ReadPointer
    <2>3. t.moves = task[p].moves /\ t.tries = task[p].tries /\ t.held \in files
      <3>1. Pointer(task[p], path) \in Live
        BY <2>1, <2>2 DEF Pointer, Live
      <3> QED
        BY <1>0, <3>1 DEF Tasks, Evidence, PointersResolve
    <2> HIDE DEF t
    <2>4. pc'[p] = "ledger" /\ task'[p] = t
      BY <2>2, GotoGoes
    <2>5. Publishing' <=> Publishing
      BY <1>2, <2>1, LabelsApart
    <2> QED
      BY <1>0, <2>1, <2>3, <2>4, <2>5, LabelsApart DEF Follows
  <1>5. CASE ReadLedger(p) /\ pc'[p] \in Lookups \cup {"unreadable"}
    <2>1. pc[p] = "ledger" /\ UNCHANGED <<files, lock>>
      BY <1>5 DEF ReadLedger, At, ledgers
    <2>2. Goto(p, "missing", task[p]) /\ task[p].held \notin files
      BY <1>5, GotoGoes, LabelsApart DEF ReadLedger
    <2>3. pc'[p] = "missing" /\ task'[p] = task[p]
      BY <2>2, GotoGoes
    <2>4. Publishing' <=> Publishing
      BY <1>2, <2>1, LabelsApart
    <2> QED
      BY <1>0, <2>1, <2>2, <2>3, <2>4, LabelsApart DEF Follows
  <1>6. CASE Retry(p)
    <2> DEFINE t == [task[p] EXCEPT !.tries = @ - 1]
    <2>1. /\ pc[p] = "missing" /\ UNCHANGED <<files, lock>> /\ task[p].held # NoLedger
          /\ task[p].scope \in Scopes
      BY <1>0, <1>6, LabelsApart DEF Retry, At, ledgers, Shape
    <2>2. Publishing' <=> Publishing
      BY <1>2, <2>1, LabelsApart
    <2>3. t.moves = task[p].moves /\ t.tries = task[p].tries - 1
      BY <1>0 DEF Tasks
    <2> HIDE DEF t
    <2>4. CASE Goto(p, "pointer", t)
      <3>1. pc'[p] = "pointer" /\ task'[p] = t
        BY <2>4, GotoGoes
      <3> QED
        BY <1>0, <2>1, <2>2, <2>3, <3>1, LabelsApart DEF Follows
    <2>5. CASE Goto(p, "unreadable", task[p]) /\ ~(task[p].tries > 0 /\ Pointer(task[p], task[p].path) # task[p].held)
      <3>1. pc'[p] = "unreadable" /\ task'[p] = task[p]
        BY <2>5, GotoGoes
      <3>2. task[p].moves > 1
        <4>1. SUFFICES ASSUME task[p].moves < 2 PROVE FALSE
          BY <1>0
        <4>2. task[p].tries = 2 /\ task[p].held \notin files
          BY <1>0, <2>1, <4>1, LabelsApart DEF Follows
        <4>3. Pointer(task[p], task[p].path) = task[p].held
          BY <2>5, <4>2
        <4>4. task[p].held \in Live
          BY <2>1, <4>3 DEF Pointer, Live
        <4> QED
          BY <4>2, <4>4 DEF Evidence, PointersResolve
      <3> QED
        BY <3>1, <3>2, LabelsApart DEF Follows
    <2> QED
      BY <1>6, <2>4, <2>5 DEF Retry, t
  <1>7. Start(p) \/ ReadPointer(p) \/ ReadLedger(p) \/ Retry(p) \/ pc'[p] \notin Lookups \cup {"unreadable"}
    <2>1. CASE Unreadable(p)
      BY <2>1, GotoGoes, LabelsApart DEF Unreadable
    <2>2. CASE Reuse(p) \/ Defer(p) \/ Answer(p) \/ NoAnswer(p) \/ LastSave(p)
      BY <2>2, GotoGoes, LabelsApart DEF Reuse, Defer, Answer, NoAnswer, LastSave
    <2>3. CASE Acquire(p)
      BY <2>3, LockMoves, LabelsApart
    <2>4. CASE WriteData(p) \/ WriteMeta(p) \/ WriteLedger(p) \/ PointCurrent(p) \/ PointScope(p)
      BY <2>4, GotoGoes, LabelsApart DEF WriteData, WriteMeta, WriteLedger, PointCurrent, PointScope
    <2>5. CASE Collect(p) \/ FailWrite(p) \/ LockTimeout(p) \/ Crash(p)
      BY <2>5, GotoGoes, LabelsApart DEF Collect, FailWrite, LockTimeout, Crash
    <2>6. CASE Plan(p) \/ Pruned(p)
      BY <2>6, GotoGoes, LabelsApart DEF Plan, Pruned
    <2>7. CASE Delete(p)
      <3>1. pc'[p] = "delete"
        BY <2>7, GotoGoes DEF Delete, At
      <3> QED
        BY <3>1, LabelsApart
    <2> QED
      BY <2>1, <2>2, <2>3, <2>4, <2>5, <2>6, <2>7 DEF Step
  <1> QED
    BY <1>1, <1>3, <1>4, <1>5, <1>6, <1>7

LEMMA FollowingStep ==
    ASSUME Store, Locals, Locals', Exclusive, Evidence, Following, [Next]_vars
    PROVE  Following'
  <1>1. CASE UNCHANGED vars \/ Day
    BY <1>1 DEF vars, Day, ledgers, Following, Follows, Publishing
  <1>2. ASSUME NEW p \in Proc, Step(p)
        PROVE  Following'
    BY <1>2, ReaderFollows, MoverFollows DEF Following
  <1> QED
    BY <1>1, <1>2 DEF Next

\* That a ledger just looked up is collected is no error, unless two publications overlap the
\* reading: one more look (load_validation_state) finds what replaced it.
THEOREM ReadersSurvive == Spec => []ReadingSurvivesReplacement
  <1>1. Init => Following
    BY LabelsApart DEF Init, Following, Follows
  <1>2. Following => ReadingSurvivesReplacement
    BY DEF Following, ReadingSurvivesReplacement, At
  <1>3. (Store /\ Locals /\ Exclusive /\ Evidence) /\ (Store /\ Locals /\ Exclusive /\ Evidence)'
          /\ Following /\ [Next]_vars => Following'
    BY FollowingStep
  <1> QED
    BY <1>1, <1>2, <1>3, EvidenceAlways, PTL DEF Spec
=============================================================================
