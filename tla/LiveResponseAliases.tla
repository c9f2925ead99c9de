------------------------ MODULE LiveResponseAliases ------------------------
(***************************************************************************)
(* live_response/session_aliases.py and the alias half of                  *)
(* live_response/handles.py: several xdr processes share one private       *)
(* directory that holds a handle file per session, the registry            *)
(* aliases.json and its loss marker aliases.initialized.                   *)
(*                                                                         *)
(* An operation holds the lock of its session's handle, and inside it the  *)
(* registry's lock, over several file operations; each action below is one *)
(* of them, and readers that hold no lock run in between.  Files are       *)
(* replaced atomically (secret_files.atomic_write_secret).  Somebody may   *)
(* remove files: the marker and the scan of the handles exist for that.    *)
(*                                                                         *)
(* A definition introduced as a variant of another is that definition with *)
(* one mistake; nothing uses it.  What LiveResponse also has by a common   *)
(* name has another name here: LiveResponseProofs is about both.           *)
(***************************************************************************)
EXTENDS Integers, FiniteSets

CONSTANTS
    Peers,          \* the xdr processes
    Sessions,       \* native CLR... identifiers
    Machines,       \* MachineIds
    MaxAlias,       \* _MAX_ALIAS, 2^63 - 1 in the code
    LegacyBindings, \* bindings of a registry written before there was a marker
    Losses,         \* which of "registry", "marker" and "handle" can be lost
    LossesAtRest,   \* TRUE: only while no operation is running
    AliasFaults,    \* which of "write", "timeout" and "crash" may happen
    MaxOps,         \* how many operations are started
    MaxLosses,      \* how many files are lost
    NoFile, NoOne

NoAlias == 0
Aliases == 1..MaxAlias
Binding == [alias: Aliases, session: Sessions, machine: Machines]
Registry == [next: 1..(MaxAlias + 1), bindings: SUBSET Binding]
Handle == [machine: Machines, alias: Aliases \cup {NoAlias}]

ASSUME AliasAssumption ==
    /\ MaxAlias \in Nat \ {0} /\ MaxOps \in Nat /\ MaxLosses \in Nat
    /\ LegacyBindings \subseteq Binding
    /\ \A x, y \in LegacyBindings : x.alias = y.alias \/ x.session = y.session => x = y
    /\ Losses \subseteq {"registry", "marker", "handle"}
    /\ LossesAtRest \in BOOLEAN
    /\ AliasFaults \subseteq {"write", "timeout", "crash"}
    /\ NoOne \notin Peers
    /\ NoFile \notin Registry \cup Handle \cup Sessions \cup Machines

VARIABLES
    registry,      \* aliases.json
    marker,        \* whether aliases.initialized exists
    handles,       \* <session>.json, as far as aliases are concerned
    sessionLock,   \* holder of <session>.json.lock
    registryLock,  \* holder of aliases.json.lock
    phase, task,   \* where each process is, and its local variables
    issued,        \* every binding ever written to the registry
    told,          \* the aliases shown to the user, with the session they name
    resolved,      \* the aliases resolved for the user, with the outcome
    ops, lost      \* operations started, files lost

files == <<registry, marker, handles>>
locks == <<sessionLock, registryLock>>
history == <<issued, told, resolved>>
aliasVars == <<registry, marker, handles, sessionLock, registryLock, phase, task,
               issued, told, resolved, ops, lost>>

Pc == {"idle", "find", "adoptFind", "load", "lockAlias", "lookup", "adoptLookup",
       "assign", "mark", "publish", "verify", "save"}

Task == [kind: {"remember", "show", "resolve"},
         session: Sessions \cup {NoFile},
         machine: Machines \cup {NoFile},
         wanted: Aliases \cup {NoAlias},     \* the reference being resolved
         held: Handle \cup {NoFile},         \* the handle as read under its lock
         copy: Registry,                     \* the registry as read under its lock
         found: Aliases \cup {NoAlias}]      \* what the registry answered

NoRegistry == [next |-> 1, bindings |-> {}]  \* _empty()
NoTask == [kind |-> "show", session |-> NoFile, machine |-> NoFile, wanted |-> NoAlias,
           held |-> NoFile, copy |-> NoRegistry, found |-> NoAlias]

AliasTypeOK ==
    /\ registry \in Registry \cup {NoFile}
    /\ marker \in BOOLEAN
    /\ handles \in [Sessions -> Handle \cup {NoFile}]
    /\ sessionLock \in [Sessions -> Peers \cup {NoOne}]
    /\ registryLock \in Peers \cup {NoOne}
    /\ phase \in [Peers -> Pc]
    /\ task \in [Peers -> Task]
    /\ issued \subseteq Binding /\ told \subseteq Binding /\ resolved \subseteq Binding
    /\ ops \in 0..MaxOps /\ lost \in 0..MaxLosses

\* What an older version leaves behind: handles, and perhaps a registry, no marker.
AliasInit ==
    /\ IF LegacyBindings = {}
       THEN registry = NoFile
       ELSE \E n \in 1..(MaxAlias + 1) :
               /\ \A b \in LegacyBindings : b.alias < n
               /\ registry = [next |-> n, bindings |-> LegacyBindings]
    /\ marker = FALSE
    /\ handles \in [Sessions -> Handle \cup {NoFile}]
    /\ \A s \in Sessions : handles[s] # NoFile =>
          \/ handles[s].alias = NoAlias
          \/ [alias |-> handles[s].alias, session |-> s, machine |-> handles[s].machine]
                \in LegacyBindings
    /\ sessionLock = [s \in Sessions |-> NoOne]
    /\ registryLock = NoOne
    /\ phase = [p \in Peers |-> "idle"]
    /\ task = [p \in Peers |-> NoTask]
    /\ issued = LegacyBindings /\ told = LegacyBindings /\ resolved = {}
    /\ ops = 0 /\ lost = 0
-----------------------------------------------------------------------------
(* Ends of an operation.                                                   *)

Unlocked(p) == [s \in Sessions |-> IF sessionLock[s] = p THEN NoOne ELSE sessionLock[s]]
FreedBy(p) == IF registryLock = p THEN NoOne ELSE registryLock

\* Returning or raising leaves both `with exclusive_lock` blocks.
Finish(p) ==
    /\ phase' = [phase EXCEPT ![p] = "idle"]
    /\ task' = [task EXCEPT ![p] = NoTask]
    /\ sessionLock' = Unlocked(p)
    /\ registryLock' = FreedBy(p)

\* On to another step, with local variables t.
Continue(p, step, t) ==
    /\ phase' = [phase EXCEPT ![p] = step]
    /\ task' = [task EXCEPT ![p] = t]

\* How writing a file ends: done, not done, or done but reported as failed
\* (an error after os.replace).
Outcomes == {"ok"} \cup IF "write" \in AliasFaults THEN {"failed", "unsure"} ELSE {}
-----------------------------------------------------------------------------
(* Starting an operation.                                                  *)

BeginOperation(p, t, step) ==
    /\ phase[p] = "idle" /\ ops < MaxOps
    /\ ops' = ops + 1
    /\ Continue(p, step, t)

\* remember_session after the service answered with session s on machine m: lock
\* the handle, read it, refuse another device.
Remember(p, s, m) ==
    /\ sessionLock[s] = NoOne
    /\ LET t == [NoTask EXCEPT !.kind = "remember", !.session = s, !.machine = m,
                               !.held = handles[s]]
       IN  IF handles[s] # NoFile /\ handles[s].machine # m
           THEN BeginOperation(p, NoTask, "idle") /\ UNCHANGED sessionLock
           ELSE /\ BeginOperation(p, t, "assign")
                /\ sessionLock' = [sessionLock EXCEPT ![s] = p]
    /\ UNCHANGED <<files, registryLock, history, lost>>

\* load_session: from iter_sessions, mark_session_missing or a command.
Show(p, s) ==
    /\ BeginOperation(p, [NoTask EXCEPT !.session = s], "load")
    /\ UNCHANGED <<files, locks, history, lost>>

\* resolve_session_id of a well-formed alias.
Resolve(p, a) ==
    /\ BeginOperation(p, [NoTask EXCEPT !.kind = "resolve", !.wanted = a], "find")
    /\ UNCHANGED <<files, locks, history, lost>>
-----------------------------------------------------------------------------
(* Reading the registry.                                                   *)

\* Variant: the marker is not looked at.
RefusedByHandle ==
    registry = NoFile /\ \E s \in Sessions : handles[s] # NoFile /\ handles[s].alias # NoAlias

\* _read_state refuses a registry that is missing although the marker, or a handle
\* with an alias, says there was one.
Refused ==
    /\ registry = NoFile
    /\ marker \/ \E s \in Sessions : handles[s] # NoFile /\ handles[s].alias # NoAlias

State == IF registry = NoFile THEN NoRegistry ELSE registry

OfSession(r, s) == {b \in r.bindings : b.session = s}
OfAlias(r, a) == {b \in r.bindings : b.alias = a}

\* resolve(): the binding of the wanted alias.
UseBinding(p) ==
    IF OfAlias(State, task[p].wanted) = {}
    THEN Finish(p)
    ELSE \E b \in OfAlias(State, task[p].wanted) :
            /\ Continue(p, "load", [task[p] EXCEPT !.session = b.session, !.machine = b.machine])
            /\ UNCHANGED locks

\* alias_for(): the alias of the session, a conflict, or none yet.
UseAlias(p) ==
    IF OfSession(State, task[p].session) = {}
    THEN Continue(p, "assign", task[p]) /\ UNCHANGED locks
    ELSE \E b \in OfSession(State, task[p].session) :
            IF b.machine # task[p].machine
            THEN Finish(p)
            ELSE Continue(p, "save", [task[p] EXCEPT !.found = b.alias]) /\ UNCHANGED locks

UseState(p) == IF phase[p] \in {"find", "adoptFind"} THEN UseBinding(p) ELSE UseAlias(p)

\* _read without the registry's lock; a registry from before the marker is adopted.
Read(p) ==
    /\ phase[p] \in {"find", "lookup"}
    /\ IF Refused
       THEN Finish(p)
       ELSE IF registry # NoFile /\ ~marker
            THEN /\ Continue(p, IF phase[p] = "find" THEN "adoptFind" ELSE "adoptLookup", task[p])
                 /\ UNCHANGED locks
            ELSE UseState(p)
    /\ UNCHANGED <<files, history, ops, lost>>

\* The rest of _read: under the registry's lock, read again and make the marker.
Adopt(p, outcome) ==
    /\ phase[p] \in {"adoptFind", "adoptLookup"}
    /\ registryLock = NoOne
    /\ IF registry = NoFile
       THEN Finish(p) /\ UNCHANGED marker
       ELSE /\ marker' = (marker \/ outcome # "failed")
            /\ IF outcome = "ok" \/ marker THEN UseState(p) ELSE Finish(p)
    /\ UNCHANGED <<registry, handles, history, ops, lost>>
-----------------------------------------------------------------------------
(* _alias and load_session around the registry.                            *)

\* load_session and resolve_session_id read the handle before they lock it; only
\* the resolution compares it with the binding it comes from.
Load(p) ==
    /\ phase[p] = "load"
    /\ LET h == handles[task[p].session]
       IN  IF h = NoFile \/ (task[p].kind = "resolve" /\ h.machine # task[p].machine)
           THEN Finish(p)
           ELSE Continue(p, "lockAlias", [task[p] EXCEPT !.machine = h.machine])
                /\ UNCHANGED locks
    /\ UNCHANGED <<files, history, ops, lost>>

\* _alias locks the handle and reads it again.
LockAlias(p) ==
    /\ phase[p] = "lockAlias"
    /\ LET s == task[p].session
       IN  /\ sessionLock[s] = NoOne
           /\ IF handles[s] = NoFile \/ handles[s].machine # task[p].machine
              THEN Finish(p)
              ELSE /\ Continue(p, "lookup", [task[p] EXCEPT !.held = handles[s]])
                   /\ sessionLock' = [sessionLock EXCEPT ![s] = p]
                   /\ UNCHANGED registryLock
    /\ UNCHANGED <<files, history, ops, lost>>

Answered(p) == [alias |-> task[p].found, session |-> task[p].session,
                machine |-> task[p].machine]

\* The alias is the answer of the operation; a resolution also compares it with
\* the reference it was given.
Answer(p) ==
    IF task[p].kind = "resolve"
    THEN /\ resolved' = IF task[p].found = task[p].wanted
                        THEN resolved \cup {Answered(p)} ELSE resolved
         /\ UNCHANGED told
    ELSE told' = told \cup {Answered(p)} /\ UNCHANGED resolved

\* _alias writes a new alias into the handle, and never a different one.
SaveAlias(p, outcome) ==
    /\ phase[p] = "save" /\ task[p].kind # "remember"
    /\ LET t == task[p]
           new == t.held.alias = NoAlias
       IN  /\ handles' = IF new /\ outcome # "failed"
                         THEN [handles EXCEPT ![t.session] = [t.held EXCEPT !.alias = t.found]]
                         ELSE handles
           /\ IF t.held.alias = t.found \/ (new /\ outcome = "ok")
              THEN Answer(p)
              ELSE UNCHANGED <<told, resolved>>
    /\ Finish(p)
    /\ UNCHANGED <<registry, marker, issued, ops, lost>>

\* Variant: the handle stays locked while load_session runs.
SaveSessionLocked(p, outcome) ==
    /\ phase[p] = "save" /\ task[p].kind = "remember"
    /\ handles' = [handles EXCEPT ![task[p].session] =
                    [machine |-> task[p].machine, alias |-> task[p].found]]
    /\ Continue(p, "load", [NoTask EXCEPT !.session = task[p].session])
    /\ UNCHANGED <<registry, marker, locks, history, ops, lost>>

\* Variant: the handle gets the alias of this answer, or none.
SaveSessionAnew(p, outcome) ==
    /\ phase[p] = "save" /\ task[p].kind = "remember"
    /\ LET t == task[p]
       IN  /\ handles' = IF outcome = "failed" THEN handles
                         ELSE [handles EXCEPT ![t.session] = [machine |-> t.machine, alias |-> t.found]]
           /\ IF outcome = "ok"
              THEN /\ Continue(p, "load", [NoTask EXCEPT !.session = t.session])
                   /\ sessionLock' = Unlocked(p) /\ UNCHANGED registryLock
              ELSE Finish(p)
    /\ UNCHANGED <<registry, marker, history, ops, lost>>

\* remember_session writes the handle whether or not it got an alias, keeps the one
\* the handle has, and is followed by load_session when the write succeeded.
SaveSession(p, outcome) ==
    /\ phase[p] = "save" /\ task[p].kind = "remember"
    /\ LET t == task[p]
           kept == t.held # NoFile /\ t.held.alias # NoAlias
           new == [machine |-> t.machine, alias |-> IF kept THEN t.held.alias ELSE t.found]
       IN  /\ handles' = IF outcome = "failed" THEN handles
                         ELSE [handles EXCEPT ![t.session] = new]
           /\ IF outcome = "ok"
              THEN /\ Continue(p, "load", [NoTask EXCEPT !.session = t.session])
                   /\ sessionLock' = Unlocked(p) /\ UNCHANGED registryLock
              ELSE Finish(p)
    /\ UNCHANGED <<registry, marker, history, ops, lost>>

-----------------------------------------------------------------------------
(* assign, under the session's lock and the registry's.                    *)

\* ArtifactError or ConflictError out of assign: remember_session goes on without
\* an alias, _alias gives up.
AssignFails(p) ==
    IF task[p].kind = "remember"
    THEN /\ Continue(p, "save", [task[p] EXCEPT !.copy = NoRegistry, !.found = NoAlias])
         /\ registryLock' = FreedBy(p) /\ UNCHANGED sessionLock
    ELSE Finish(p)

Assigned(p, a) ==
    /\ Continue(p, "save", [task[p] EXCEPT !.copy = NoRegistry, !.found = a])
    /\ registryLock' = NoOne
    /\ UNCHANGED sessionLock

\* Variant: the registry is read before its lock is taken.
AssignUnlocked(p) ==
    /\ phase[p] = "assign"
    /\ IF Refused
       THEN AssignFails(p)
       ELSE Continue(p, "mark", [task[p] EXCEPT !.copy = State]) /\ UNCHANGED locks
    /\ UNCHANGED <<files, history, ops, lost>>

\* Take the lock and read the registry.
Assign(p) ==
    /\ phase[p] = "assign" /\ registryLock = NoOne
    /\ IF Refused
       THEN AssignFails(p)
       ELSE /\ Continue(p, "mark", [task[p] EXCEPT !.copy = State])
            /\ registryLock' = p /\ UNCHANGED sessionLock
    /\ UNCHANGED <<files, history, ops, lost>>

\* _ensure_marker, then _find and the counter's limit.
EnsureMarker(p, outcome) ==
    /\ phase[p] = "mark"
    /\ marker' = (marker \/ outcome # "failed")
    /\ LET mine == OfSession(task[p].copy, task[p].session)
       IN  IF outcome # "ok" /\ ~marker
           THEN AssignFails(p)
           ELSE IF mine # {}
           THEN \E b \in mine : IF b.machine = task[p].machine
                                THEN Assigned(p, b.alias) ELSE AssignFails(p)
           ELSE IF task[p].copy.next > MaxAlias
           THEN AssignFails(p)
           ELSE Continue(p, "publish", task[p]) /\ UNCHANGED locks
    /\ UNCHANGED <<registry, handles, history, ops, lost>>

NewBinding(p) == [alias |-> task[p].copy.next, session |-> task[p].session,
                  machine |-> task[p].machine]

Extended(r, b) == [next |-> b.alias + 1, bindings |-> r.bindings \cup {b}]

\* The registry with the new binding replaces the file.
PublishRegistry(p, outcome) ==
    /\ phase[p] = "publish"
    /\ LET r == Extended(task[p].copy, NewBinding(p))
       IN  /\ registry' = IF outcome = "failed" THEN registry ELSE r
           /\ issued' = IF outcome = "failed" THEN issued ELSE issued \cup {NewBinding(p)}
           /\ IF outcome = "ok"
              THEN /\ Continue(p, "verify", [task[p] EXCEPT !.copy = r,
                                                            !.found = task[p].copy.next])
                   /\ UNCHANGED locks
              ELSE AssignFails(p)
    /\ UNCHANGED <<marker, handles, told, resolved, ops, lost>>

\* assign reads its own write back before it answers.
Verify(p) ==
    /\ phase[p] = "verify"
    /\ IF registry = task[p].copy THEN Assigned(p, task[p].found) ELSE AssignFails(p)
    /\ UNCHANGED <<files, history, ops, lost>>
-----------------------------------------------------------------------------
(* What goes wrong around it.                                              *)

\* A lock that somebody else holds for five seconds.  remember_session returns False
\* and _alias None; an assign that cannot lock the registry fails as any other.
Timeout(p) ==
    /\ "timeout" \in AliasFaults
    /\ \/ /\ phase[p] = "lockAlias" /\ sessionLock[task[p].session] # NoOne
          /\ Finish(p)
       \/ /\ phase[p] \in {"adoptFind", "adoptLookup"} /\ registryLock # NoOne
          /\ Finish(p)
       \/ /\ phase[p] = "assign" /\ registryLock # NoOne
          /\ IF task[p].kind = "remember"
             THEN /\ Continue(p, "save", [task[p] EXCEPT !.found = NoAlias])
                  /\ UNCHANGED locks
             ELSE Finish(p)
    /\ UNCHANGED <<files, history, ops, lost>>

\* The process dies; the system drops its locks.
Die(p) ==
    /\ "crash" \in AliasFaults /\ phase[p] # "idle"
    /\ Finish(p)
    /\ UNCHANGED <<files, history, ops, lost>>

CanLose(kind) ==
    /\ kind \in Losses /\ lost < MaxLosses
    /\ LossesAtRest => \A p \in Peers : phase[p] = "idle"
    /\ lost' = lost + 1
    /\ UNCHANGED <<locks, phase, task, history, ops>>

LoseRegistry ==
    /\ CanLose("registry") /\ registry # NoFile
    /\ registry' = NoFile /\ UNCHANGED <<marker, handles>>

LoseMarker ==
    /\ CanLose("marker") /\ marker
    /\ marker' = FALSE /\ UNCHANGED <<registry, handles>>

LoseHandle(s) ==
    /\ CanLose("handle") /\ handles[s] # NoFile
    /\ handles' = [handles EXCEPT ![s] = NoFile] /\ UNCHANGED <<registry, marker>>
-----------------------------------------------------------------------------
Start(p) ==
    \/ \E s \in Sessions, m \in Machines : Remember(p, s, m)
    \/ \E s \in Sessions : Show(p, s)
    \/ \E a \in Aliases : Resolve(p, a)

Step(p) ==
    \/ Read(p) \/ Load(p) \/ LockAlias(p) \/ Assign(p) \/ Verify(p)
    \/ \E outcome \in Outcomes :
          \/ Adopt(p, outcome) \/ SaveAlias(p, outcome) \/ SaveSession(p, outcome)
          \/ EnsureMarker(p, outcome) \/ PublishRegistry(p, outcome)

Loss == LoseRegistry \/ LoseMarker \/ \E s \in Sessions : LoseHandle(s)

AliasNext == (\E p \in Peers : Start(p) \/ Step(p) \/ Timeout(p) \/ Die(p)) \/ Loss

AliasSpec == AliasInit /\ [][AliasNext]_aliasVars

\* A running process keeps running; nobody has to start one, and nothing has to
\* be lost or fail.
AliasFairSpec == AliasSpec /\ \A p \in Peers : WF_aliasVars(Step(p))
-----------------------------------------------------------------------------
(* Properties.                                                             *)

\* An alias that was shown or resolved names one session on one device, and a
\* session has one alias, whoever asked and whatever was lost in between
\* ("an old alias [must not] silently address a different device later").
AliasNamesOneDevice ==
    \A x, y \in told \cup resolved :
        x.alias = y.alias \/ x.session = y.session => x = y

\* The registry, when it is there, has every binding ever made, and its counter is
\* beyond all of them: a failed, crashed or concurrent assign recycles nothing.
RegistryKeepsAll ==
    registry # NoFile => /\ registry.bindings = issued
                         /\ \A b \in issued : b.alias < registry.next

\* While the marker cannot be lost and no older registry was lying around, a lost
\* registry is always noticed.
LossIsNoticed ==
    LegacyBindings = {} /\ "marker" \notin Losses =>
        (issued # {} => marker)

\* A handle that exists never changes device and never changes an alias it has:
\* remember_session, _alias and a deletion in the middle of either included.
HandleIdentityIsStable ==
    [][\A s \in Sessions : handles[s] # NoFile /\ handles'[s] # NoFile =>
          /\ handles'[s].machine = handles[s].machine
          /\ handles[s].alias # NoAlias => handles'[s].alias = handles[s].alias]_handles

\* The registry implements the book of aliases.
Book == INSTANCE AliasBook WITH book <- issued
ImplementsBook == Book!Spec

\* Session lock before registry lock everywhere: no operation waits for ever.
OperationsEnd == \A p \in Peers : phase[p] # "idle" ~> phase[p] = "idle"

=============================================================================
