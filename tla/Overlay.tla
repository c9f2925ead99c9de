------------------------------- MODULE Overlay -------------------------------
(***************************************************************************)
(* The semantic overlay of one tenant (schema_graph/overlay.py): immutable *)
(* generations, a manifest that names the current one, and the commands    *)
(* that replace it: schema collect with its searches, schema observe,      *)
(* schema prune-evidence, results prune and schema repair-overlay, over    *)
(* the result artifacts that observations refer to.                        *)
(*                                                                         *)
(* An observation is identified with the artifact it rests on, and of the  *)
(* graph records only matters whether they fit the packaged contract.  A   *)
(* generation is named by the time it was made, so generations are         *)
(* numbered in that order.  Every section under the tenant's lock lies in  *)
(* one under the evidence lock, so that one is modelled.                   *)
(***************************************************************************)
EXTENDS Naturals, FiniteSets

CONSTANTS
    Procs,          \* processes
    Hunts,          \* saved results of hunts, which collect mines for overlaps
    Probes,         \* results of the collector's validations and searches
    Observed,       \* results of schema observe
    Proposed,       \* artifacts a live proposal draft refers to
    Retain,         \* generations kept, _RETAIN_GENERATIONS
    NoOne,          \* nobody holds the lock
    Faults,         \* which of "stop", "damage" and "upgrade" may happen
    MaxDay, MaxGen, MaxOps  \* bounds

Runs == Hunts \cup Probes \cup Observed
Automatic == Hunts \cup Probes

ASSUME OverlayAssumption ==
    /\ Hunts \cap Observed = {} /\ Probes \cap (Hunts \cup Observed) = {}
    /\ Retain \in Nat \ {0}
    /\ NoOne \notin Procs
    /\ MaxDay \in Nat /\ MaxGen \in Nat \ {0} /\ MaxOps \in Nat

VARIABLES
    day,            \* the date, as far as retention needs it
    made, results,  \* artifacts ever written, and those still there
    born,           \* the day each was written
    gens,           \* the files of each generation
    last,           \* the generation made last
    manifest,       \* semantic.current.json: the current generation, 0 if missing
    evidence,       \* who holds the schema evidence lock
    claim,          \* who holds the collection claim
    pc, task,       \* where each process is, and its local variables
    damaged,        \* whether a generation's files were ever damaged
    left            \* commands and upgrades still to come

store == <<made, results, born>>
overlay == <<gens, last, manifest>>
locks == <<evidence, claim>>
vars == <<day, store, overlay, locks, pc, task, damaged, left>>

Gen == 1..MaxGen
Day == 0..MaxDay

-----------------------------------------------------------------------------
\* "data": the data file without metadata.  "legacy": both, without a digest.
\* cutoff: discovery_retired_before, 0 if absent.  drift: records of an older contract.
Generations == [state : {"absent", "data", "whole", "legacy", "bad"}, obs : SUBSET Runs,
                cutoff : Day, drift : BOOLEAN]

Absent == [state |-> "absent", obs |-> {}, cutoff |-> 0, drift |-> FALSE]

\* new: what it publishes, a replacement of all observations or an addition;
\* base, seen: the generation it has read and its observations; cutoff: what it
\* retires; draft: what it writes as generation target; doomed: artifacts to delete.
Kinds == {"none", "collect", "observe", "pruneEvidence", "prune", "repair"}
Tasks == [kind : Kinds, new : SUBSET Runs, replace : BOOLEAN, base : Nat, seen : SUBSET Runs,
          cutoff : Day, draft : Generations, target : Nat, doomed : SUBSET Runs]

NoTask == [kind |-> "none", new |-> {}, replace |-> FALSE, base |-> 0, seen |-> {},
           cutoff |-> 0, draft |-> Absent, target |-> 0, doomed |-> {}]

Labels == {"idle", "open", "load", "probe", "publish", "data", "meta", "bind", "manifest",
           "retain", "delete"}

Present == {g \in Gen : gens[g].state # "absent"}
Readable(g) == g \in Gen /\ gens[g].state \in {"whole", "legacy"}

\* What load_tenant_overlay finds, {} and no cutoff without a manifest.
Current == IF manifest = 0 THEN {} ELSE gens[manifest].obs
Cutoff == IF manifest = 0 THEN 0 ELSE gens[manifest].cutoff
Drift == manifest # 0 /\ gens[manifest].drift

\* retired_observation: automatic, with an artifact that is gone or too old.
Retired(r, cutoff) ==
    cutoff # 0 /\ r \in Automatic /\ (r \notin results \/ born[r] < cutoff)

\* No overlay yet, or one from a version that recorded no digest.
NoOverlay == gens = [g \in Gen |-> Absent] /\ last = 0 /\ manifest = 0
LegacyOverlay ==
    /\ gens = [g \in Gen |-> IF g = 1 THEN [Absent EXCEPT !.state = "legacy", !.obs = Hunts]
                                      ELSE Absent]
    /\ last = 1 /\ manifest = 1

Init ==
    /\ day = 0
    /\ made = Hunts /\ results = Hunts /\ born = [r \in Runs |-> 0]
    /\ NoOverlay \/ LegacyOverlay
    /\ evidence = NoOne /\ claim = NoOne
    /\ pc = [p \in Procs |-> "idle"] /\ task = [p \in Procs |-> NoTask]
    /\ damaged = FALSE /\ left = MaxOps

Goto(p, label, t) ==
    /\ pc' = [pc EXCEPT ![p] = label]
    /\ task' = [task EXCEPT ![p] = t]

At(p, label) == pc[p] = label
Free(lock, p) == IF lock = p THEN NoOne ELSE lock

\* The command ends, with or without an error, and its locks are released.
Leave(p) ==
    /\ Goto(p, "idle", NoTask)
    /\ evidence' = Free(evidence, p) /\ claim' = Free(claim, p)

Start(p, label, t) ==
    /\ At(p, "idle") /\ left > 0
    /\ left' = left - 1
    /\ Goto(p, label, t)

-----------------------------------------------------------------------------
(* The beginning of each command.                                          *)

\* collection_claim, which does not wait, and discover_local.
Collect(p) ==
    /\ claim = NoOne
    /\ manifest = 0 \/ Readable(manifest)
    /\ \E mined \in SUBSET {h \in Hunts \cap results : born[h] >= Cutoff} :
         Start(p, "open", [NoTask EXCEPT !.kind = "collect", !.new = mined])
    /\ claim' = p
    /\ UNCHANGED <<day, store, overlay, evidence, damaged>>

\* schema observe: queries first, then one addition.
Write(r) ==
    /\ r \notin made
    /\ made' = made \cup {r} /\ results' = results \cup {r}
    /\ born' = [born EXCEPT ![r] = day]

Observe(p) ==
    /\ \E r \in Observed :
         /\ Write(r)
         /\ Start(p, "publish", [NoTask EXCEPT !.kind = "observe", !.new = {r}])
    /\ UNCHANGED <<day, overlay, locks, damaged>>

PruneEvidence(p) ==
    /\ \E cutoff \in 1..day :
         Start(p, "open", [NoTask EXCEPT !.kind = "pruneEvidence", !.cutoff = cutoff])
    /\ UNCHANGED <<day, store, overlay, locks, damaged>>

-----------------------------------------------------------------------------
(* Reading the overlay, which takes no lock.                               *)

\* _read_generation.
Open(p) ==
    /\ At(p, "open")
    /\ Goto(p, "load", [task[p] EXCEPT !.base = manifest])
    /\ UNCHANGED <<day, store, overlay, locks, damaged, left>>

\* What collect keeps: explicit observations, and its own that still verify.
KeptByCollect(seen) == {r \in seen : r \in Observed \/ (r \in Probes /\ r \in results)}

\* What prune-evidence keeps.
KeptByPrune(seen, cutoff) == {r \in seen : born[r] >= cutoff /\ ~Retired(r, cutoff)}

Seen(g) == IF g = 0 THEN {} ELSE gens[g].obs

\* _load_generation of what the manifest named, and the plan made from it.
Load(p) ==
    /\ At(p, "load")
    /\ IF task[p].base = 0 \/ Readable(task[p].base)
       THEN LET t == task[p]  seen == Seen(t.base) IN
            /\ Goto(p, "publish",
                    [t EXCEPT !.seen = seen, !.replace = TRUE,
                              !.new = IF t.kind = "collect" THEN @ \cup KeptByCollect(seen)
                                      ELSE KeptByPrune(seen, t.cutoff)])
            /\ UNCHANGED locks
       ELSE Leave(p)
    /\ UNCHANGED <<day, store, overlay, damaged, left>>

-----------------------------------------------------------------------------
(* publish_tenant_overlay.                                                 *)

\* Generations without a manifest are for repair.
Loads == IF manifest = 0 THEN Present = {} ELSE Readable(manifest)

NewCutoff(t) == IF t.cutoff > Cutoff THEN t.cutoff ELSE Cutoff

\* Variant: a replacement is of whatever is current.
ExpectedAny(t) == TRUE

\* expected_generation: a replacement is of the generation it was made from.
Expected(t) == t.replace => t.base = manifest

\* _validate_result_reference of what is new and not retired.
Referable(t) == \A r \in t.new : Retired(r, NewCutoff(t)) \/ r \in results

\* Variant: only what was there before is tested for retirement.
MergedUntested(t) ==
    (IF t.replace THEN {} ELSE {r \in Current : ~Retired(r, NewCutoff(t))}) \cup t.new

Merged(t) == {r \in (IF t.replace THEN {} ELSE Current) \cup t.new : ~Retired(r, NewCutoff(t))}

Draft(t) == [state |-> "whole", obs |-> Merged(t), cutoff |-> NewCutoff(t), drift |-> Drift]

BeginPublish(p) ==
    /\ At(p, "publish") /\ evidence = NoOne
    /\ IF Loads /\ Expected(task[p]) /\ Referable(task[p])
       THEN /\ evidence' = p
            /\ Goto(p, "data", [task[p] EXCEPT !.new = {}, !.draft = Draft(task[p])])
            /\ UNCHANGED claim
       ELSE Leave(p)
    /\ UNCHANGED <<day, store, overlay, damaged, left>>

\* The three renames, of which the last is the commit.
PutData(p) ==
    /\ At(p, "data") /\ last < MaxGen
    /\ last' = last + 1
    /\ gens' = [gens EXCEPT ![last + 1] = [task[p].draft EXCEPT !.state = "data"]]
    /\ Goto(p, "meta", [task[p] EXCEPT !.target = last + 1])
    /\ UNCHANGED <<day, store, manifest, locks, damaged, left>>

PutMeta(p) ==
    /\ At(p, "meta")
    /\ gens' = [gens EXCEPT ![task[p].target] = task[p].draft]
    /\ Goto(p, "manifest", [task[p] EXCEPT !.draft = Absent])
    /\ UNCHANGED <<day, store, last, manifest, locks, damaged, left>>

\* What is still of use behind the commit.
Kept(t) == [NoTask EXCEPT !.kind = t.kind, !.doomed = t.doomed]

PutManifest(p) ==
    /\ At(p, "manifest")
    /\ manifest' = task[p].target
    /\ IF task[p].kind = "repair"
       THEN Leave(p)
       ELSE Goto(p, "retain", Kept(task[p])) /\ UNCHANGED locks
    /\ UNCHANGED <<day, store, gens, last, damaged, left>>

\* All but the newest, by name.
Newer(g) == {h \in Present : h > g}
\* Variant: the oldest are kept.
SupersededNewest == {g \in Present : Cardinality({h \in Present : h < g}) >= Retain}

Superseded == {g \in Present : Cardinality(Newer(g)) >= Retain}

\* What follows the commit.
Continue(p) ==
    CASE task[p].kind = "prune" -> Goto(p, "delete", task[p]) /\ UNCHANGED locks
      [] task[p].kind = "collect" ->
           /\ Goto(p, "probe", [NoTask EXCEPT !.kind = "collect"])
           /\ evidence' = NoOne /\ UNCHANGED claim
      [] OTHER -> Leave(p)

\* Retention is fail-soft: some of the old files may stay.
Clean(p) ==
    /\ At(p, "retain")
    /\ \E gone \in SUBSET Superseded :
         /\ gone = Superseded \/ "stop" \in Faults
         /\ gens' = [g \in Gen |-> IF g \in gone THEN Absent ELSE gens[g]]
    /\ Continue(p)
    /\ UNCHANGED <<day, store, last, manifest, damaged, left>>

-----------------------------------------------------------------------------
(* Validations and searches of a collection, each an addition.             *)

Addition(rs) == [NoTask EXCEPT !.kind = "collect", !.new = rs]

\* run_query, write_result, then publish_search or the validation's publication.
Probe(p) ==
    /\ At(p, "probe")
    /\ \E r \in Probes : Write(r) /\ Goto(p, "publish", Addition({r}))
    /\ UNCHANGED <<day, overlay, locks, damaged, left>>

\* A saved search that an earlier command did not get to publish.
Recover(p) ==
    /\ At(p, "probe")
    /\ \E r \in (Probes \cap results) \ Current : Goto(p, "publish", Addition({r}))
    /\ UNCHANGED <<day, store, overlay, locks, damaged, left>>

\* Nothing left to do, the budget is used up, or a query failed.
EndCollect(p) ==
    /\ At(p, "probe")
    /\ Leave(p)
    /\ UNCHANGED <<day, store, overlay, damaged, left>>

-----------------------------------------------------------------------------
(* results prune.                                                          *)

\* The observations that keep their artifacts at this cutoff.
Pinned(cutoff) == {r \in Current : ~Retired(r, cutoff)} \cup Proposed

Doomed(cutoff) == {r \in results : born[r] < cutoff} \ Pinned(cutoff)

\* The plan, which refuses an overlay it cannot rely on.
Plannable == IF manifest = 0 THEN Present = {}
             ELSE gens[manifest].state = "whole"

PruneTask(cutoff) ==
    [NoTask EXCEPT !.kind = "prune", !.cutoff = cutoff, !.doomed = Doomed(cutoff)]

\* Variant: the artifacts go, the overlay stays.
PruneUnpublished(p) ==
    /\ evidence = NoOne /\ Plannable
    /\ evidence' = p
    /\ \E cutoff \in 1..day : Start(p, "delete", PruneTask(cutoff))
    /\ UNCHANGED <<day, store, overlay, claim, damaged>>

\* Retirement is published before the first deletion, where there is an overlay.
Prune(p) ==
    /\ evidence = NoOne /\ Plannable
    /\ evidence' = p
    /\ \E cutoff \in 1..day :
         LET t == PruneTask(cutoff) IN
         IF Present = {} THEN Start(p, "delete", t)
         ELSE Start(p, "data", [t EXCEPT !.draft = Draft(t)])
    /\ UNCHANGED <<day, store, overlay, claim, damaged>>

Delete(p) ==
    /\ At(p, "delete")
    /\ IF task[p].doomed = {}
       THEN Leave(p) /\ UNCHANGED store
       ELSE \E r \in task[p].doomed :
              /\ results' = results \ {r}
              /\ Goto(p, "delete", [task[p] EXCEPT !.doomed = @ \ {r}])
              /\ UNCHANGED <<made, born, locks>>
    /\ UNCHANGED <<day, overlay, damaged, left>>

-----------------------------------------------------------------------------
(* schema repair-overlay.                                                  *)

Valid == {g \in Gen : Readable(g)}
Newest(g) == g \in Valid /\ \A h \in Valid : h <= g
RepairTask(draft, target) ==
    [NoTask EXCEPT !.kind = "repair", !.draft = draft, !.target = target]

\* --reset-empty, when no generation can be loaded.
Reset(p) == Valid = {} /\ Start(p, "data", RepairTask([Absent EXCEPT !.state = "whole"], 0))

\* migrate_overlay makes some observations inactive; its metadata is all new.
Migrate(p, g) ==
    /\ gens[g].drift
    /\ \E obs \in SUBSET gens[g].obs :
         Start(p, "data", RepairTask([Absent EXCEPT !.state = "whole", !.obs = obs], 0))

\* The digest of a generation without one is written first.
Select(p, g) ==
    /\ ~gens[g].drift
    /\ Start(p, IF gens[g].state = "legacy" THEN "bind" ELSE "manifest",
             RepairTask([gens[g] EXCEPT !.state = "whole"], g))

\* Newest first, whether or not a manifest ever named it.
Repair(p) ==
    /\ evidence = NoOne
    /\ evidence' = p
    /\ Reset(p) \/ \E g \in Gen : Newest(g) /\ (Migrate(p, g) \/ Select(p, g))
    /\ UNCHANGED <<day, store, overlay, claim, damaged>>

Bind(p) ==
    /\ At(p, "bind")
    /\ gens' = [gens EXCEPT ![task[p].target] = task[p].draft]
    /\ Goto(p, "manifest", task[p])
    /\ UNCHANGED <<day, store, last, manifest, locks, damaged, left>>

-----------------------------------------------------------------------------
(* Faults and time.                                                        *)

\* The process dies, a file cannot be written or a lock is not free in time.
Stop(p) ==
    /\ "stop" \in Faults /\ ~At(p, "idle")
    /\ Leave(p)
    /\ UNCHANGED <<day, store, overlay, damaged, left>>

DayPasses ==
    /\ day < MaxDay
    /\ day' = day + 1
    /\ UNCHANGED <<store, overlay, locks, pc, task, damaged, left>>

\* A new version of the program, with another contract than the records were made for.
Upgrade ==
    /\ "upgrade" \in Faults /\ left > 0 /\ left' = left - 1
    /\ \A p \in Procs : At(p, "idle")
    /\ gens' = [g \in Gen |-> [gens[g] EXCEPT !.drift = @ \/ gens[g].obs # {}]]
    /\ UNCHANGED <<day, store, last, manifest, locks, pc, task, damaged>>

\* Somebody else changes the files of the current generation, once.
Damage ==
    /\ "damage" \in Faults /\ ~damaged
    /\ evidence = NoOne /\ Readable(manifest)
    /\ gens' = [gens EXCEPT ![manifest].state = "bad"]
    /\ damaged' = TRUE
    /\ UNCHANGED <<day, store, last, manifest, locks, pc, task, left>>

Step(p) ==
    \/ Open(p) \/ Load(p) \/ BeginPublish(p) \/ PutData(p) \/ PutMeta(p) \/ PutManifest(p)
    \/ Clean(p) \/ Probe(p) \/ Recover(p) \/ EndCollect(p) \/ Delete(p) \/ Bind(p)

Next ==
    \/ \E p \in Procs : \/ Collect(p) \/ Observe(p) \/ PruneEvidence(p)
                        \/ Prune(p) \/ Repair(p) \/ Step(p) \/ Stop(p)
    \/ DayPasses \/ Upgrade \/ Damage

Spec == Init /\ [][Next]_vars

-----------------------------------------------------------------------------
(* Properties.                                                             *)

\* Variables keep their types; no generation is written past the last number.
TypeOK ==
    /\ day \in Day
    /\ made \subseteq Runs /\ results \subseteq made /\ born \in [Runs -> Day]
    /\ gens \in [Gen -> Generations] /\ last \in 0..MaxGen /\ manifest \in 0..MaxGen
    /\ evidence \in Procs \cup {NoOne} /\ claim \in Procs \cup {NoOne}
    /\ pc \in [Procs -> Labels] /\ task \in [Procs -> Tasks]
    /\ damaged \in BOOLEAN /\ left \in 0..MaxOps

\* The generation the manifest names has both its files, wherever a publication
\* stopped, whatever retention deleted and whichever generation repair chose; only
\* damage from outside can make it unreadable.
CommittedIsReadable == manifest # 0 => gens[manifest].state \in {"whole", "legacy", "bad"}

\* Every observation of the current generation has its artifact: no pruning
\* deletes what a publication under way, or a generation that repair may still
\* activate, refers to.  Damage can make repair fall back on an older generation.
ObservationsHaveEvidence == ~damaged => Current \subseteq results

\* What another command published since is not lost in a replacement: an
\* observation goes only if it is retired, or if the command that replaces the
\* generation had read it.
NothingUnseenIsDropped ==
    [][\A r \in Current \ Current' :
          \/ Retired(r, Cutoff')
          \/ \E p \in Procs : At(p, "manifest") /\ (task[p].kind = "repair" \/ r \in task[p].seen)]_vars

\* A collection that mined an artifact before a pruning retired it does not pin it
\* again afterwards, even if a proposal keeps the artifact: what is published is held
\* against the cutoff in force at the publication.
RetiredStaysOut ==
    [][\A r \in Automatic \cap (Current' \ Current) : damaged \/ born[r] >= Cutoff]_vars

\* docs/schema_graph.md:974: "A persistent tenant cutoff prevents subsequent collection
\* from mining retired artifacts again."  Where nothing stops or is damaged, every
\* generation up to the manifest's has been current; what its cutoff retired is not
\* mined.  Repair breaks it: a generation it migrates has no cutoff.
RetiredIsNotMined ==
    [][\A p \in Procs, g \in Gen :
          At(p, "idle") /\ g <= manifest =>
              \A r \in task'[p].new \cap Hunts : born[r] >= gens[g].cutoff]_vars

=============================================================================
