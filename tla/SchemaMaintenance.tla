--------------------------- MODULE SchemaMaintenance ---------------------------
(***************************************************************************)
(* The physical schema cache and the maintenance cycle that follows        *)
(* session end (schema_graph/session_maintenance.py, cache.py,             *)
(* maintenance.py, commands/schema_cmd.py), on top of the token cache: the *)
(* cycle refreshes a stale cache, validates and explores, each with tokens *)
(* acquired within its deadline, and marks the collection complete.        *)
(* Meanwhile others refresh the schema by hand, log in and log out.        *)
(*                                                                         *)
(* A generation of the cache is its number; the portal's listing and the   *)
(* rows are left out.  Validation and exploration are the queries they ask *)
(* and whether they finish: their own state is in Overlay and Capture.     *)
(***************************************************************************)
EXTENDS TokenCache

CONSTANTS
    Commands,       \* command lines
    MaxGenerations, MaxCommands     \* bounds

ASSUME MaintenanceAssumption ==
    /\ NoOne \notin Proc
    /\ MaxGenerations \in Nat /\ MaxCommands \in Nat
    /\ Commands \subseteq [op : {"end", "refresh", "get", "login", "logout"},
                           refresh : BOOLEAN, explore : BOOLEAN]

VARIABLES
    current,            \* current.json, 0 if there is none
    data, meta,         \* files of the generations
    made,               \* the number of generations
    stale,              \* the current generation is older than schema_stale_seconds
    refreshLock, cycleLock,     \* who holds .refresh and .session-maintenance
    marked,             \* maintenance.json: how often a collection was complete
    job,                \* where each process is in a cycle or a refresh
    left                \* commands still to come

files == <<current, data, meta, made, stale>>
locks == <<refreshLock, cycleLock>>
vars == <<tokenVars, files, locks, marked, job, left>>

Generation == 0..MaxGenerations

\* old: the generation found stale; rows: the generation planned with; own: the one published;
\* over: the deadline has passed or the user has interrupted the cycle.
NoJob == [op |-> "none", label |-> "idle", stage |-> "refresh", refresh |-> FALSE,
          explore |-> FALSE, old |-> 0, rows |-> 0, own |-> 0, partial |-> FALSE, over |-> FALSE]

Init ==
    /\ TokenInit
    /\ current = 0 /\ data = {} /\ meta = {} /\ made = 0 /\ stale = FALSE
    /\ refreshLock = NoOne /\ cycleLock = NoOne
    /\ marked = 0
    /\ job = [p \in Proc |-> NoJob] /\ left = MaxCommands

At(p, label) == job[p].label = label
Become(p, j) == job' = [job EXCEPT ![p] = j]
Step(p, label) == Become(p, [job[p] EXCEPT !.label = label])
InCycle(p) == job[p].op = "end"

\* The command is over, and its locks are free.
Finish(p) ==
    /\ Become(p, NoJob)
    /\ refreshLock' = IF refreshLock = p THEN NoOne ELSE refreshLock
    /\ cycleLock' = IF cycleLock = p THEN NoOne ELSE cycleLock

-----------------------------------------------------------------------------
(* Commands.                                                               *)

Idle(p) == At(p, "idle") /\ at[Main(p)] = "idle" /\ left > 0 /\ left' = left - 1

\* collect_session_schema: another cycle for the tenant is a conflict.
SessionEnd(p, c) ==
    /\ c.op = "end" /\ Idle(p)
    /\ IF cycleLock = NoOne
       THEN /\ cycleLock' = p
            /\ Become(p, [NoJob EXCEPT !.op = "end", !.label = "load", !.refresh = c.refresh,
                                       !.explore = c.explore])
       ELSE UNCHANGED <<cycleLock, job>>
    /\ UNCHANGED <<tokenVars, files, refreshLock, marked>>

ByHand(p, c) ==
    /\ c.op = "refresh" /\ Idle(p)
    /\ Become(p, [NoJob EXCEPT !.op = "refresh", !.label = "stage"])
    /\ UNCHANGED <<tokenVars, files, locks, marked>>

TokenCommand(p, c) ==
    /\ Idle(p)
    /\ \/ c.op = "get" /\ Get(p)
       \/ c.op = "login" /\ Login(p)
       \/ c.op = "logout" /\ Logout(p)
    /\ UNCHANGED <<files, locks, marked, job>>

Start(p) == \E c \in Commands : SessionEnd(p, c) \/ ByHand(p, c) \/ TokenCommand(p, c)

-----------------------------------------------------------------------------
(* The cycle (_maintain).                                                  *)

\* _load_cache.
Loadable == IF current \in data \cap meta THEN current ELSE 0

\* Variant: a cache that is there is good enough.
LoadTrusting(p) ==
    /\ At(p, "load")
    /\ LET due == job[p].refresh /\ Loadable = 0 IN
       Become(p, [job[p] EXCEPT !.label = "stage", !.stage = IF due THEN "refresh" ELSE "validation",
                                !.old = IF stale THEN current ELSE 0, !.rows = Loadable])
    /\ UNCHANGED <<tokenVars, files, locks, marked, left>>

\* A cache that is missing or stale is refreshed first.
Load(p) ==
    /\ At(p, "load")
    /\ LET due == job[p].refresh /\ (Loadable = 0 \/ stale) IN
       Become(p, [job[p] EXCEPT !.label = "stage", !.stage = IF due THEN "refresh" ELSE "validation",
                                !.old = IF stale THEN current ELSE 0, !.rows = Loadable])
    /\ UNCHANGED <<tokenVars, files, locks, marked, left>>

\* The overlay is incompatible, or the command's output cannot be written.
Fails(p) ==
    /\ At(p, "load")
    /\ Finish(p)
    /\ UNCHANGED <<tokenVars, files, marked, left>>

\* remaining_time is asked before a stage and after it.
Overdue(p) ==
    /\ InCycle(p) /\ job[p].over /\ job[p].label \in {"stage", "query", "reload", "mark"}
    /\ Finish(p)
    /\ UNCHANGED <<tokenVars, files, marked, left>>

\* A query needs a token; within a cycle the child acquires it.
Ask(p) ==
    /\ At(p, "stage") /\ ~job[p].over
    /\ Step(p, "token")
    /\ IF InCycle(p) THEN Bounded(p) ELSE Get(p)
    /\ UNCHANGED <<files, locks, marked, left>>

Answered(p) ==
    /\ At(p, "token") /\ at[Main(p)] = "idle"
    /\ IF reply[Main(p)] = "token" THEN Step(p, "query") /\ UNCHANGED locks ELSE Finish(p)
    /\ UNCHANGED <<tokenVars, files, marked, left>>

AfterStage(j) ==
    CASE j.stage = "validation" /\ j.explore -> [j EXCEPT !.label = "stage", !.stage = "exploration"]
      [] OTHER -> [j EXCEPT !.label = "mark"]

\* The last answer of a stage, which validation may leave incomplete (a budget pause); or
\* there was nothing to ask.
Queried(p) ==
    /\ At(p, "query") \/ (At(p, "stage") /\ InCycle(p) /\ job[p].stage # "refresh")
    /\ ~job[p].over
    /\ IF job[p].stage = "refresh" THEN Step(p, "publish")
       ELSE \/ Become(p, AfterStage(job[p]))
            \/ job[p].stage = "validation" /\ Become(p, AfterStage([job[p] EXCEPT !.partial = TRUE]))
    /\ UNCHANGED <<tokenVars, files, locks, marked, left>>

\* Not the last one.
Again(p) ==
    /\ At(p, "query") /\ job[p].stage # "refresh"
    /\ Step(p, "stage")
    /\ UNCHANGED <<tokenVars, files, locks, marked, left>>

\* The query fails, or exploration is partial.
QueryFails(p) ==
    /\ At(p, "query")
    /\ Finish(p)
    /\ UNCHANGED <<tokenVars, files, marked, left>>

\* schema_rows, _ = _load_cache(ctx)
Reload(p) ==
    /\ At(p, "reload") /\ ~job[p].over
    /\ Become(p, [job[p] EXCEPT !.label = "stage", !.stage = "validation", !.rows = Loadable])
    /\ UNCHANGED <<tokenVars, files, locks, marked, left>>

\* mark_collection_complete.
Mark(p) ==
    /\ At(p, "mark") /\ ~job[p].over
    /\ marked' = IF job[p].partial THEN marked ELSE marked + 1
    /\ Finish(p)
    /\ UNCHANGED <<tokenVars, files, left>>

-----------------------------------------------------------------------------
(* Publication of a generation (_schema_refresh).                          *)

Publish(p) ==
    /\ At(p, "publish") /\ refreshLock = NoOne /\ made < MaxGenerations
    /\ refreshLock' = p /\ made' = made + 1
    /\ Become(p, [job[p] EXCEPT !.label = "data", !.own = made'])
    /\ UNCHANGED <<tokenVars, current, data, meta, stale, cycleLock, marked, left>>

\* The lock is waited for five seconds.
PublishBusy(p) ==
    /\ At(p, "publish") /\ refreshLock # NoOne
    /\ Finish(p)
    /\ UNCHANGED <<tokenVars, files, marked, left>>

PutData(p) ==
    /\ At(p, "data")
    /\ data' = data \cup {job[p].own}
    /\ Step(p, "meta")
    /\ UNCHANGED <<tokenVars, current, meta, made, stale, locks, marked, left>>

PutMeta(p) ==
    /\ At(p, "meta")
    /\ meta' = meta \cup {job[p].own}
    /\ Step(p, "point")
    /\ UNCHANGED <<tokenVars, current, data, made, stale, locks, marked, left>>

\* current.json is replaced; the cycle goes on with what is current then.
Point(p) ==
    /\ At(p, "point")
    /\ current' = job[p].own /\ stale' = FALSE
    /\ IF InCycle(p)
       THEN Step(p, "reload") /\ refreshLock' = NoOne /\ UNCHANGED cycleLock
       ELSE Finish(p)
    /\ UNCHANGED <<tokenVars, data, meta, made, marked, left>>

\* A file cannot be written (ArtifactError).
WriteFails(p) ==
    /\ Fault("write") /\ job[p].label \in {"data", "meta", "point"}
    /\ Finish(p)
    /\ UNCHANGED <<cache, holder, at, memory, reply, issued, deleted, orphaned, files, marked, left>>

-----------------------------------------------------------------------------
(* Time, faults, and the steps of the token cache.                         *)

GrowOld ==
    /\ current # 0 /\ ~stale /\ stale' = TRUE
    /\ UNCHANGED <<tokenVars, current, data, meta, made, locks, marked, job, left>>

Expire(p) ==
    /\ InCycle(p) /\ ~job[p].over
    /\ Become(p, [job[p] EXCEPT !.over = TRUE])
    /\ UNCHANGED <<tokenVars, files, locks, marked, left>>

\* A process dies; what it has not released the system does.
Crash(p) ==
    /\ IF at[Main(p)] # "idle" THEN TokenCrash(Main(p))
       ELSE /\ ~At(p, "idle") /\ Fault("crash")
            /\ UNCHANGED <<cache, holder, at, memory, reply, issued, deleted, orphaned>>
    /\ Finish(p)
    /\ UNCHANGED <<files, marked, left>>

Rest == UNCHANGED <<files, locks, marked, job, left>>

Bound(p) ==
    /\ Received(p) \/ (job[p].over /\ GiveUp(p)) \/ Stop(p) \/ Return(p)
    /\ Rest

\* What a process does by itself, without an answer from a service or a user.
Work(p) ==
    \/ Load(p) \/ Fails(p) \/ Overdue(p) \/ Ask(p) \/ Answered(p) \/ Reload(p) \/ Mark(p)
    \/ Publish(p) \/ PublishBusy(p) \/ PutData(p) \/ PutMeta(p) \/ Point(p)
    \/ Bound(p)

Next ==
    \/ \E p \in Proc :
         \/ Start(p) \/ Work(p) \/ Queried(p) \/ Again(p) \/ QueryFails(p) \/ WriteFails(p)
         \/ Expire(p) \/ Crash(p)
         \/ (TokenCrash(Worker(p)) /\ Rest)
    \/ \E a \in Agent : (Progress(a) \/ SignIn(a)) /\ Rest
    \/ GrowOld

Spec == Init /\ [][Next]_vars

\* Time passes and processes run; services and users may never answer.
FairSpec == Spec /\ \A p \in Proc : WF_vars(Expire(p)) /\ WF_vars(Work(p))

-----------------------------------------------------------------------------

\* Whatever a crash or an error interrupts, current.json names a generation that is there
\* ("A crash before it leaves the prior generation authoritative", _schema_refresh).
CurrentIsWhole == current # 0 => current \in data \cap meta

\* A collection is marked complete by the cycle only after it planned with a generation that
\* was not stale when the cycle began, unless refreshing is disabled (_maintain).
MarkedIsFresh ==
    [][marked' # marked =>
          \E p \in Proc : /\ At(p, "mark")
                          /\ job[p].refresh => job[p].rows \notin {0, job[p].old}]_vars

\* A cycle comes to an end although no service answers, the token cache is locked by a login
\* nobody completes, and the child that acquires a token hangs ("shared deadline",
\* _maintain; _acquire_bounded_token).
MaintenanceEnds == \A p \in Proc : InCycle(p) ~> ~InCycle(p)
=============================================================================
