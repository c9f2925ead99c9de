----------------------------- MODULE SchemaProofs -----------------------------
(***************************************************************************)
(* Theorems about what the schema commands learn and conclude: Overlay and *)
(* SchemaPath, which share nothing but this module.                        *)
(*                                                                         *)
(* Of Overlay, Files says what holds of the generations, whoever reads     *)
(* them; Plan what a command may still rely on without the lock, which is  *)
(* only what it remembers of a generation that stays as it is; Written,    *)
(* Keeps and Safe what the holder of the evidence lock is about to make    *)
(* current.                                                                *)
(*                                                                         *)
(* Of SchemaPath, PathInv says that every route still to be found goes on  *)
(* from a path in the queue, unless states were left out, and that what    *)
(* was found comes before what is queued.  What holds of paths of every    *)
(* length follows from the shortest, or the least, exception to it.        *)
(***************************************************************************)
EXTENDS Overlay, SchemaPath, FiniteSetTheorems, SequenceTheorems, WellFoundedInduction, TLAPS


Locked == {"data", "meta", "bind", "manifest", "retain", "delete"}
Planning == {"load", "publish"}

Holds(p, l, owner) == l \in Locked <=> owner = p

Files ==
    /\ \A g \in Gen : gens[g].state # "absent" => g <= last
    /\ manifest # 0 => gens[manifest].state \in {"whole", "legacy", "bad"}
    /\ \A g \in Gen : gens[g].state = "bad" => damaged
    /\ \A g \in Gen : gens[g].obs \subseteq made

\* A generation that was current keeps its observations until it is deleted.
Plan(l, t) ==
    /\ t.draft.obs \subseteq made
    /\ l \notin Locked => t.doomed = {}
    /\ l \in Planning /\ t.base # 0 => t.base \in Gen /\ t.base <= last /\ gens[t.base].state # "data"
    /\ l = "publish" /\ t.replace /\ t.base # 0 /\ gens[t.base].state # "absent" =>
         t.seen = gens[t.base].obs

Written(l, t) ==
    /\ l \in {"data", "meta", "bind"} => t.draft.state = "whole"
    /\ l = "meta" => t.target = last /\ last \in Gen /\ gens[last].state = "data"
    /\ l = "bind" => /\ t.kind = "repair" /\ Newest(t.target)
                     /\ t.draft.obs = gens[t.target].obs
                     /\ t.draft.cutoff = gens[t.target].cutoff
    /\ l = "manifest" => Newest(t.target) /\ (t.kind # "repair" => t.target = last)
    /\ l = "retain" => manifest = last
    /\ l = "delete" => manifest = last \/ Present = {}

\* What becomes current next.
Coming(l, t) == IF l = "manifest" THEN gens[t.target] ELSE t.draft

Keeps(l, t) ==
    l \in {"data", "meta", "manifest"} /\ t.kind # "repair" =>
      \A r \in Current : \/ r \in Coming(l, t).obs \/ r \in t.seen
                         \/ Retired(r, Coming(l, t).cutoff)

Good(g) ==
    /\ g.obs \subseteq results
    /\ \A r \in g.obs \cap Automatic : born[r] >= g.cutoff /\ born[r] >= Cutoff

GoodGens == ~damaged => \A g \in Gen : Readable(g) /\ g >= manifest => Good(gens[g])

Safe(l, t) ==
    /\ l \in {"data", "meta", "bind", "manifest"} =>
         t.doomed \cap Coming(l, t).obs = {} /\ (~damaged => Good(Coming(l, t)))
    /\ l \in {"retain", "delete"} => t.doomed \cap Current = {}

Types == TypeOK /\ \A p \in Procs : task[p].target <= MaxGen

\* Everything that holds of one process.
Process(p) ==
    /\ Holds(p, pc[p], evidence) /\ Plan(pc[p], task[p]) /\ Written(pc[p], task[p])
    /\ Keeps(pc[p], task[p]) /\ Safe(pc[p], task[p])

Inv == Types /\ Files /\ GoodGens /\ \A p \in Procs : Process(p)

\* What a step does to the generations that were current once.
Stays ==
    /\ last <= last' /\ made \subseteq made'
    /\ \A g \in Gen : g <= last /\ gens[g].state # "data" =>
         \/ gens'[g].state = "absent"
         \/ /\ gens[g].state # "absent" /\ gens'[g].state # "data"
            /\ gens'[g].obs = gens[g].obs

\* Nothing of an artifact that was ever written changes.
Grows ==
    /\ made \subseteq made'
    /\ \A r \in made : (r \in results' <=> r \in results) /\ born'[r] = born[r]

Others(p) == \A q \in Procs \ {p} : pc'[q] = pc[q] /\ task'[q] = task[q]

-----------------------------------------------------------------------------
(* Types                                                                   *)

LEMMA Fields ==
    ASSUME Types
    PROVE  /\ last \in Nat /\ manifest \in Nat /\ manifest <= MaxGen /\ MaxGen \in Nat \ {0}
           /\ manifest # 0 => manifest \in Gen
           /\ Gen \subseteq Nat
           /\ \A g \in Gen : /\ gens[g].obs \in SUBSET Runs /\ gens[g].cutoff \in Day
                             /\ gens[g] \in Generations
           /\ \A p \in Procs : /\ pc[p] \in Labels /\ task[p] \in Tasks
                               /\ task[p].draft \in Generations /\ task[p].draft.obs \in SUBSET Runs
                               /\ task[p].draft.cutoff \in Day /\ task[p].cutoff \in Day
                               /\ task[p].target \in Nat /\ task[p].base \in Nat
           /\ Cutoff \in Nat /\ Cutoff \in Day /\ Current \in SUBSET Runs
           /\ \A r \in Runs : born[r] \in Nat
  <1>1. /\ last \in Nat /\ manifest \in Nat /\ manifest <= MaxGen /\ MaxGen \in Nat \ {0}
        /\ manifest # 0 => manifest \in Gen
        /\ Gen \subseteq Nat /\ Day \subseteq Nat /\ 0 \in Day
    BY OverlayAssumption DEF Types, TypeOK, Gen, Day
  <1>2. \A g \in Gen : /\ gens[g].obs \in SUBSET Runs /\ gens[g].cutoff \in Day
                       /\ gens[g] \in Generations
    BY DEF Types, TypeOK, Generations
  <1>3. \A p \in Procs : pc[p] \in Labels /\ task[p] \in Tasks
    BY DEF Types, TypeOK
  <1>4. \A p \in Procs : task[p].draft \in Generations /\ task[p].cutoff \in Day
    BY <1>3 DEF Tasks
  <1>5. \A p \in Procs : task[p].target \in Nat /\ task[p].base \in Nat
    BY <1>3 DEF Tasks
  <1>6. \A p \in Procs : task[p].draft.obs \in SUBSET Runs /\ task[p].draft.cutoff \in Day
    BY <1>4 DEF Generations
  <1>7. Cutoff \in Day /\ Current \in SUBSET Runs
    BY <1>1, <1>2 DEF Cutoff, Current
  <1>8. \A r \in Runs : born[r] \in Nat
    BY <1>1 DEF Types, TypeOK
  <1> QED
    BY <1>1, <1>2, <1>3, <1>4, <1>5, <1>6, <1>7, <1>8

LEMMA EmptyTask == Absent \in Generations /\ NoTask \in Tasks
  <1>1. 0 \in Day
    BY OverlayAssumption DEF Day
  <1>2. Absent \in Generations
    BY <1>1 DEF Absent, Generations
  <1> QED
    BY <1>1, <1>2 DEF NoTask, Tasks, Kinds

-----------------------------------------------------------------------------
(* What other steps leave as it is                                         *)

\* Observations of a generation that a command has read stay what they were.
LEMMA PlanKept ==
    ASSUME Types, NEW q \in Procs, Plan(pc[q], task[q]), Stays,
           last' \in Nat, pc'[q] = pc[q], task'[q] = task[q]
    PROVE  Plan(pc[q], task[q])'
  <1>1. \A g \in Gen : g \in Nat /\ last \in Nat /\ (g <= last => g <= last')
    BY Fields DEF Stays
  <1> QED
    BY <1>1 DEF Plan, Stays, Planning

\* A process without the lock needs nothing else.
LEMMA Bystander ==
    ASSUME NEW q \in Procs, pc'[q] \notin Locked, evidence' # q, Plan(pc[q], task[q])'
    PROVE  Process(q)'
  BY DEF Process, Holds, Written, Keeps, Safe, Locked

\* Steps that leave the overlay alone and only add artifacts.
Quiet == UNCHANGED <<gens, last, manifest, damaged>> /\ Grows

LEMMA QuietFiles ==
    ASSUME Inv, Quiet
    PROVE  Files' /\ GoodGens'
  <1>1. Files'
    BY Fields DEF Inv, Quiet, Grows, Files
  <1>2. Cutoff' = Cutoff
    BY DEF Quiet, Cutoff
  <1>3. GoodGens'
    <2> SUFFICES ASSUME ~damaged, NEW g \in Gen, Readable(g), g >= manifest
                 PROVE  Good(gens[g])'
      BY DEF GoodGens, Quiet, Readable
    <2>1. Good(gens[g]) /\ gens[g].obs \subseteq made /\ gens'[g] = gens[g]
      BY DEF Inv, GoodGens, Files, Quiet
    <2> QED
      BY <2>1, <1>2 DEF Good, Quiet, Grows
  <1> QED
    BY <1>1, <1>3

LEMMA QuietProcess ==
    ASSUME Inv, Quiet, NEW q \in Procs, pc'[q] = pc[q], task'[q] = task[q],
           evidence = q <=> evidence' = q
    PROVE  Process(q)'
  <1>1. Cutoff' = Cutoff /\ Current' = Current /\ Coming(pc[q], task[q])' = Coming(pc[q], task[q])
    BY DEF Quiet, Cutoff, Current, Coming
  <1>2. Types /\ Files /\ Process(q)
    BY DEF Inv
  <1>3. Plan(pc[q], task[q])'
    <2>1. Stays /\ last' \in Nat
      BY <1>2, Fields DEF Stays, Quiet, Grows
    <2> QED
      BY <2>1, <1>2, PlanKept DEF Process
  <1>4. Written(pc[q], task[q])'
    BY <1>2 DEF Process, Written, Newest, Valid, Readable, Present, Quiet
  <1>5. Current \subseteq made
    BY <1>2, Fields DEF Files, Current
  <1>6. Keeps(pc[q], task[q])'
    BY <1>1, <1>2, <1>5 DEF Process, Keeps, Retired, Quiet, Grows
  <1>7. pc[q] \in {"data", "meta", "bind", "manifest"} => Coming(pc[q], task[q]).obs \subseteq made
    <2>1. Plan(pc[q], task[q]) /\ Written(pc[q], task[q])
      BY <1>2 DEF Process
    <2>2. pc[q] = "manifest" => task[q].target \in Gen
      BY <2>1 DEF Written, Newest, Valid
    <2> QED
      BY <1>2, <2>1, <2>2 DEF Coming, Plan, Files
  <1>8. Safe(pc[q], task[q])'
    BY <1>1, <1>2, <1>7 DEF Process, Safe, Good, Quiet, Grows
  <1>9. Holds(q, pc[q], evidence)'
    BY <1>2 DEF Process, Holds
  <1> QED
    BY <1>3, <1>4, <1>6, <1>8, <1>9 DEF Process

LEMMA MoveFacts ==
    ASSUME Types, NEW p \in Procs, NEW label \in Labels, NEW t \in Tasks, t.target <= MaxGen,
           pc' = [pc EXCEPT ![p] = label], task' = [task EXCEPT ![p] = t]
    PROVE  /\ pc' \in [Procs -> Labels] /\ task' \in [Procs -> Tasks]
           /\ \A q \in Procs : task'[q].target <= MaxGen
           /\ pc'[p] = label /\ task'[p] = t /\ Others(p)
  <1>1. pc \in [Procs -> Labels] /\ task \in [Procs -> Tasks]
    BY DEF Types, TypeOK
  <1>2. pc'[p] = label /\ task'[p] = t /\ Others(p)
    BY <1>1 DEF Others
  <1>3. \A q \in Procs : task'[q].target <= MaxGen
    BY <1>2 DEF Types, Others
  <1> QED
    BY <1>1, <1>2, <1>3

LEMMA QuietStep ==
    ASSUME Inv, Quiet, NEW p \in Procs, Others(p), Types', Process(p)',
           \A q \in Procs \ {p} : evidence = q <=> evidence' = q
    PROVE  Inv'
  <1>1. \A q \in Procs \ {p} : Process(q)'
    BY QuietProcess DEF Others
  <1> QED
    BY <1>1, QuietFiles DEF Inv

\* A command without the lock goes on to a label without the lock.
LEMMA QuietUnlocked ==
    ASSUME Inv, Quiet, NEW p \in Procs, NEW label \in Labels \ Locked, NEW t \in Tasks,
           t.target <= MaxGen, t.doomed = {}, t.draft.obs \subseteq made,
           label \in Planning /\ t.base # 0 =>
             t.base \in Gen /\ t.base <= last /\ gens[t.base].state # "data",
           label = "publish" /\ t.replace /\ t.base # 0 /\ gens[t.base].state # "absent" =>
             t.seen = gens[t.base].obs,
           pc' = [pc EXCEPT ![p] = label], task' = [task EXCEPT ![p] = t],
           evidence' \in {evidence, Free(evidence, p)}, evidence' # p,
           claim' \in Procs \cup {NoOne}, day' \in Day, left' \in 0..MaxOps,
           made' \subseteq Runs, results' \subseteq made', born' \in [Runs -> Day]
    PROVE  Inv'
  <1>1. /\ pc' \in [Procs -> Labels] /\ task' \in [Procs -> Tasks]
        /\ \A q \in Procs : task'[q].target <= MaxGen
        /\ pc'[p] = label /\ task'[p] = t /\ Others(p)
    BY MoveFacts DEF Inv
  <1>2. evidence' \in Procs \cup {NoOne} /\ \A q \in Procs \ {p} : evidence = q <=> evidence' = q
    BY OverlayAssumption DEF Inv, Types, TypeOK, Free
  <1>3. Types'
    BY <1>1, <1>2 DEF Inv, Types, TypeOK, Quiet
  <1>4. Plan(pc[p], task[p])'
    BY <1>1 DEF Plan, Quiet, Grows
  <1>5. Process(p)'
    BY <1>1, <1>4, Bystander
  <1> QED
    BY <1>1, <1>2, <1>3, <1>5, QuietStep

-----------------------------------------------------------------------------
(* Steps of the commands outside of the lock                               *)

LEMMA SameQuiet ==
    ASSUME Types, UNCHANGED store, UNCHANGED overlay, damaged' = damaged
    PROVE  Quiet /\ made' \subseteq Runs /\ results' \subseteq made' /\ born' \in [Runs -> Day]
  BY DEF Types, TypeOK, Quiet, Grows, store, overlay

LEMMA NotLocked ==
    ASSUME Inv, NEW p \in Procs, pc[p] \notin Locked
    PROVE  evidence # p
  BY DEF Inv, Process, Holds

LEMMA LeaveStep ==
    ASSUME Inv, NEW p \in Procs, Leave(p), UNCHANGED day, UNCHANGED store, UNCHANGED overlay,
           damaged' = damaged, left' = left
    PROVE  Inv'
  <1>1. Types /\ Quiet /\ made' \subseteq Runs /\ results' \subseteq made' /\ born' \in [Runs -> Day]
    BY SameQuiet DEF Inv
  <1>2. /\ pc' = [pc EXCEPT ![p] = "idle"] /\ task' = [task EXCEPT ![p] = NoTask]
        /\ evidence' = Free(evidence, p) /\ claim' = Free(claim, p)
    BY DEF Leave, Goto
  <1>3. evidence' # p /\ claim' \in Procs \cup {NoOne}
    BY <1>1, <1>2, OverlayAssumption DEF Free, Types, TypeOK
  <1>4. NoTask.doomed = {} /\ NoTask.draft.obs \subseteq made /\ NoTask.target <= MaxGen
    BY <1>1, Fields DEF NoTask, Absent
  <1>5. day' \in Day /\ left' \in 0..MaxOps
    BY <1>1 DEF Types, TypeOK
  <1>6. "idle" \in Labels \ Locked /\ "idle" \notin Planning /\ "idle" # "publish"
    BY DEF Labels, Locked, Planning
  <1>7. evidence' \in {evidence, Free(evidence, p)}
    BY <1>2
  <1> HIDE DEF Quiet
  <1> QED
    BY <1>1, <1>2, <1>3, <1>4, <1>5, <1>6, <1>7, EmptyTask, QuietUnlocked

LEMMA CollectStep ==
    ASSUME Inv, NEW p \in Procs, Collect(p)
    PROVE  Inv'
  <1>1. PICK mined \in SUBSET Hunts :
          Start(p, "open", [NoTask EXCEPT !.kind = "collect", !.new = mined])
    BY DEF Collect
  <1> DEFINE t == [NoTask EXCEPT !.kind = "collect", !.new = mined]
  <1>2. t \in Tasks /\ t.doomed = {} /\ t.draft.obs = {} /\ t.target = 0
    BY EmptyTask DEF NoTask, Tasks, Kinds, Runs, Absent
  <1>3. /\ pc[p] = "idle" /\ left' \in 0..MaxOps
        /\ pc' = [pc EXCEPT ![p] = "open"] /\ task' = [task EXCEPT ![p] = t]
    BY <1>1, OverlayAssumption DEF Start, Goto, At, Inv, Types, TypeOK
  <1>4. Types /\ Quiet /\ made' \subseteq Runs /\ results' \subseteq made' /\ born' \in [Runs -> Day]
    BY SameQuiet DEF Inv, Collect
  <1>5. evidence' = evidence /\ claim' = p /\ day' \in Day
    BY <1>4 DEF Collect, Types, TypeOK
  <1>6. evidence # p
    BY <1>3, NotLocked DEF Locked
  <1>7. "open" \in Labels \ Locked /\ "open" \notin Planning /\ "open" # "publish"
    BY DEF Labels, Locked, Planning
  <1>8. t.target <= MaxGen /\ t.draft.obs \subseteq made
    BY <1>2, <1>4, Fields
  <1> HIDE DEF t, Quiet
  <1> QED
    BY <1>2, <1>3, <1>4, <1>5, <1>6, <1>7, <1>8, QuietUnlocked

LEMMA PruneEvidenceStep ==
    ASSUME Inv, NEW p \in Procs, PruneEvidence(p)
    PROVE  Inv'
  <1>1. PICK cutoff \in 1..day :
          Start(p, "open", [NoTask EXCEPT !.kind = "pruneEvidence", !.cutoff = cutoff])
    BY DEF PruneEvidence
  <1> DEFINE t == [NoTask EXCEPT !.kind = "pruneEvidence", !.cutoff = cutoff]
  <1>0. cutoff \in Day
    BY OverlayAssumption DEF Inv, Types, TypeOK, Day
  <1>2. t \in Tasks /\ t.doomed = {} /\ t.draft.obs = {} /\ t.target = 0
    BY <1>0, EmptyTask DEF NoTask, Tasks, Kinds, Absent
  <1>3. /\ pc[p] = "idle" /\ left' \in 0..MaxOps
        /\ pc' = [pc EXCEPT ![p] = "open"] /\ task' = [task EXCEPT ![p] = t]
    BY <1>1, OverlayAssumption DEF Start, Goto, At, Inv, Types, TypeOK
  <1>4. Types /\ Quiet /\ made' \subseteq Runs /\ results' \subseteq made' /\ born' \in [Runs -> Day]
    BY SameQuiet DEF Inv, PruneEvidence
  <1>5. evidence' = evidence /\ claim' \in Procs \cup {NoOne} /\ day' \in Day
    BY <1>4 DEF PruneEvidence, Types, TypeOK, locks
  <1>6. evidence # p
    BY <1>3, NotLocked DEF Locked
  <1>7. "open" \in Labels \ Locked /\ "open" \notin Planning /\ "open" # "publish"
    BY DEF Labels, Locked, Planning
  <1>8. t.target <= MaxGen /\ t.draft.obs \subseteq made
    BY <1>2, <1>4, Fields
  <1> HIDE DEF t, Quiet
  <1> QED
    BY <1>2, <1>3, <1>4, <1>5, <1>6, <1>7, <1>8, QuietUnlocked

\* A new artifact.
LEMMA WriteQuiet ==
    ASSUME Types, NEW r \in Runs, Write(r), UNCHANGED overlay, damaged' = damaged
    PROVE  Quiet /\ made' \subseteq Runs /\ results' \subseteq made' /\ born' \in [Runs -> Day]
  BY DEF Types, TypeOK, Quiet, Grows, Write, overlay

LEMMA ObserveStep ==
    ASSUME Inv, NEW p \in Procs, Observe(p)
    PROVE  Inv'
  <1>1. PICK r \in Observed :
          Write(r) /\ Start(p, "publish", [NoTask EXCEPT !.kind = "observe", !.new = {r}])
    BY DEF Observe
  <1> DEFINE t == [NoTask EXCEPT !.kind = "observe", !.new = {r}]
  <1>2. t \in Tasks /\ t.doomed = {} /\ t.draft.obs = {} /\ t.target = 0 /\ t.base = 0 /\ r \in Runs
    BY EmptyTask DEF NoTask, Tasks, Kinds, Runs, Absent
  <1>3. /\ pc[p] = "idle" /\ left' \in 0..MaxOps
        /\ pc' = [pc EXCEPT ![p] = "publish"] /\ task' = [task EXCEPT ![p] = t]
    BY <1>1, OverlayAssumption DEF Start, Goto, At, Inv, Types, TypeOK
  <1>4. Types /\ Quiet /\ made' \subseteq Runs /\ results' \subseteq made' /\ born' \in [Runs -> Day]
    BY <1>1, <1>2, WriteQuiet DEF Inv, Observe
  <1>5. evidence' = evidence /\ claim' \in Procs \cup {NoOne} /\ day' \in Day
    BY <1>4 DEF Observe, Types, TypeOK, locks
  <1>6. evidence # p
    BY <1>3, NotLocked DEF Locked
  <1>7. "publish" \in Labels \ Locked
    BY DEF Labels, Locked
  <1>8. t.target <= MaxGen /\ t.draft.obs \subseteq made
    BY <1>2, <1>4, Fields
  <1> HIDE DEF t, Quiet
  <1> QED
    BY <1>2, <1>3, <1>4, <1>5, <1>6, <1>7, <1>8, QuietUnlocked

LEMMA OpenStep ==
    ASSUME Inv, NEW p \in Procs, Open(p)
    PROVE  Inv'
  <1> DEFINE t == [task[p] EXCEPT !.base = manifest]
  <1>1. Types /\ Files /\ Plan(pc[p], task[p]) /\ pc[p] = "open"
    BY DEF Inv, Process, Open, At
  <1>2. task[p] \in Tasks /\ manifest \in Nat
    BY <1>1, Fields
  <1>3. /\ t \in Tasks /\ t.base = manifest /\ t.doomed = task[p].doomed
        /\ t.draft = task[p].draft /\ t.target = task[p].target
    BY <1>2 DEF Tasks
  <1>4. t.doomed = {} /\ t.draft.obs \subseteq made /\ t.target <= MaxGen
    BY <1>1, <1>3 DEF Plan, Locked, Types
  <1>5. manifest # 0 => manifest \in Gen /\ manifest <= last /\ gens[manifest].state # "data"
    BY <1>1, Fields DEF Files
  <1>6. pc' = [pc EXCEPT ![p] = "load"] /\ task' = [task EXCEPT ![p] = t]
    BY DEF Open, Goto
  <1>7. Quiet /\ made' \subseteq Runs /\ results' \subseteq made' /\ born' \in [Runs -> Day]
    BY <1>1, SameQuiet DEF Open
  <1>8. evidence' = evidence /\ claim' \in Procs \cup {NoOne} /\ day' \in Day /\ left' \in 0..MaxOps
    BY <1>1 DEF Open, locks, Types, TypeOK
  <1>9. evidence # p
    BY <1>1, NotLocked DEF Locked
  <1>10. "load" \in Labels \ Locked /\ "load" # "publish"
    BY DEF Labels, Locked
  <1> HIDE DEF t, Quiet
  <1> QED
    BY <1>3, <1>4, <1>5, <1>6, <1>7, <1>8, <1>9, <1>10, QuietUnlocked

Loaded(t) ==
    [t EXCEPT !.seen = Seen(t.base), !.replace = TRUE,
              !.new = IF t.kind = "collect" THEN @ \cup KeptByCollect(Seen(t.base))
                      ELSE KeptByPrune(Seen(t.base), t.cutoff)]

LEMMA LoadStep ==
    ASSUME Inv, NEW p \in Procs, Load(p)
    PROVE  Inv'
  <1>1. Types /\ Files /\ Plan(pc[p], task[p]) /\ pc[p] = "load"
    BY DEF Inv, Process, Load, At
  <1>2. CASE ~ (task[p].base = 0 \/ Readable(task[p].base))
    <2>1. Leave(p) /\ UNCHANGED day /\ UNCHANGED store /\ UNCHANGED overlay
          /\ damaged' = damaged /\ left' = left
      BY <1>2 DEF Load
    <2> QED
      BY <2>1, LeaveStep
  <1>3. CASE task[p].base = 0 \/ Readable(task[p].base)
    <2> DEFINE t == Loaded(task[p])
    <2>1. task[p] \in Tasks
      BY <1>1, Fields
    <2>2. Seen(task[p].base) \in SUBSET Runs
      BY <1>1, <1>3, Fields DEF Seen, Readable
    <2>3. /\ KeptByCollect(Seen(task[p].base)) \in SUBSET Runs
          /\ KeptByPrune(Seen(task[p].base), task[p].cutoff) \in SUBSET Runs
      BY <2>2 DEF KeptByCollect, KeptByPrune
    <2>4. /\ t \in Tasks /\ t.base = task[p].base /\ t.doomed = task[p].doomed
          /\ t.draft = task[p].draft /\ t.target = task[p].target /\ t.seen = Seen(task[p].base)
      <3>1. task[p].new \cup KeptByCollect(Seen(task[p].base)) \in SUBSET Runs
        BY <2>1, <2>3 DEF Tasks
      <3> HIDE DEF Seen, KeptByCollect, KeptByPrune
      <3> QED
        BY <2>1, <2>2, <2>3, <3>1 DEF Tasks, Loaded
    <2>5. t.doomed = {} /\ t.draft.obs \subseteq made /\ t.target <= MaxGen
      BY <1>1, <2>4 DEF Plan, Locked, Types
    <2>6. /\ t.base # 0 => t.base \in Gen /\ t.base <= last /\ gens[t.base].state # "data"
          /\ t.base # 0 => t.seen = gens[t.base].obs
      BY <1>1, <2>4 DEF Plan, Planning, Seen
    <2>7. pc' = [pc EXCEPT ![p] = "publish"] /\ task' = [task EXCEPT ![p] = t]
      BY <1>3 DEF Load, Goto, Loaded
    <2>8. Quiet /\ made' \subseteq Runs /\ results' \subseteq made' /\ born' \in [Runs -> Day]
      BY <1>1, SameQuiet DEF Load
    <2>9. evidence' = evidence /\ claim' \in Procs \cup {NoOne} /\ day' \in Day /\ left' \in 0..MaxOps
      BY <1>1, <1>3 DEF Load, locks, Types, TypeOK
    <2>10. evidence # p
      BY <1>1, NotLocked DEF Locked
    <2>11. "publish" \in Labels \ Locked
      BY DEF Labels, Locked
    <2> HIDE DEF t, Quiet
    <2> QED
      BY <2>4, <2>5, <2>6, <2>7, <2>8, <2>9, <2>10, <2>11, QuietUnlocked
  <1> QED
    BY <1>2, <1>3

LEMMA AdditionFacts ==
    ASSUME Types, NEW r \in Runs
    PROVE  /\ Addition({r}) \in Tasks /\ Addition({r}).doomed = {} /\ Addition({r}).base = 0
           /\ Addition({r}).draft.obs \subseteq made /\ Addition({r}).target <= MaxGen
  <1>1. Addition({r}).target = 0 /\ Addition({r}).draft = Absent
    BY DEF Addition, NoTask
  <1>2. Addition({r}) \in Tasks /\ Addition({r}).doomed = {} /\ Addition({r}).base = 0
    BY EmptyTask DEF Addition, NoTask, Tasks, Kinds
  <1>3. Addition({r}).draft.obs = {} /\ 0 <= MaxGen
    BY <1>1, Fields DEF Absent
  <1> HIDE DEF Addition
  <1> QED
    BY <1>1, <1>2, <1>3

LEMMA ProbeStep ==
    ASSUME Inv, NEW p \in Procs, Probe(p)
    PROVE  Inv'
  <1>1. PICK r \in Probes : Write(r) /\ Goto(p, "publish", Addition({r}))
    BY DEF Probe
  <1>2. Types /\ pc[p] = "probe" /\ r \in Runs
    BY DEF Inv, Probe, At, Runs
  <1>3. Quiet /\ made' \subseteq Runs /\ results' \subseteq made' /\ born' \in [Runs -> Day]
    BY <1>1, <1>2, WriteQuiet DEF Probe
  <1>4. evidence' = evidence /\ claim' \in Procs \cup {NoOne} /\ day' \in Day /\ left' \in 0..MaxOps
    BY <1>2 DEF Probe, locks, Types, TypeOK
  <1>5. evidence # p
    BY <1>2, NotLocked DEF Locked
  <1>6. "publish" \in Labels \ Locked
    BY DEF Labels, Locked
  <1>7. pc' = [pc EXCEPT ![p] = "publish"] /\ task' = [task EXCEPT ![p] = Addition({r})]
    BY <1>1 DEF Goto
  <1>8. made \subseteq made'
    BY <1>3 DEF Quiet, Grows
  <1> HIDE DEF Quiet
  <1> QED
    BY <1>2, <1>3, <1>4, <1>5, <1>6, <1>7, <1>8, AdditionFacts, QuietUnlocked

LEMMA RecoverStep ==
    ASSUME Inv, NEW p \in Procs, Recover(p)
    PROVE  Inv'
  <1>1. PICK r \in Probes : Goto(p, "publish", Addition({r}))
    BY DEF Recover
  <1>2. Types /\ pc[p] = "probe" /\ r \in Runs
    BY DEF Inv, Recover, At, Runs
  <1>3. Quiet /\ made' \subseteq Runs /\ results' \subseteq made' /\ born' \in [Runs -> Day]
    BY <1>2, SameQuiet DEF Recover
  <1>4. evidence' = evidence /\ claim' \in Procs \cup {NoOne} /\ day' \in Day /\ left' \in 0..MaxOps
    BY <1>2 DEF Recover, locks, Types, TypeOK
  <1>5. evidence # p
    BY <1>2, NotLocked DEF Locked
  <1>6. "publish" \in Labels \ Locked
    BY DEF Labels, Locked
  <1>7. pc' = [pc EXCEPT ![p] = "publish"] /\ task' = [task EXCEPT ![p] = Addition({r})]
    BY <1>1 DEF Goto
  <1> HIDE DEF Quiet
  <1> QED
    BY <1>2, <1>3, <1>4, <1>5, <1>6, <1>7, AdditionFacts, QuietUnlocked

LEMMA EndCollectStep ==
    ASSUME Inv, NEW p \in Procs, EndCollect(p)
    PROVE  Inv'
  BY LeaveStep DEF EndCollect

LEMMA StopStep ==
    ASSUME Inv, NEW p \in Procs, Stop(p)
    PROVE  Inv'
  BY LeaveStep DEF Stop

LEMMA DayStep ==
    ASSUME Inv, DayPasses
    PROVE  Inv'
  <1>1. Types /\ Quiet
    BY SameQuiet DEF Inv, DayPasses
  <1>2. \A q \in Procs : Process(q)'
    BY <1>1, QuietProcess DEF DayPasses, locks
  <1>3. Types'
    BY <1>1, OverlayAssumption DEF DayPasses, Types, TypeOK, store, overlay, locks, Day
  <1> QED
    BY <1>1, <1>2, <1>3, QuietFiles DEF Inv

-----------------------------------------------------------------------------
(* Steps that take the lock                                                *)

LEMMA LockStep ==
    ASSUME Inv, NEW p \in Procs, evidence = NoOne, evidence' = p,
           UNCHANGED store, UNCHANGED overlay, damaged' = damaged,
           NEW label \in Labels, label \in Locked,
           NEW t \in Tasks, t.target <= MaxGen, t.draft.obs \subseteq made,
           Written(label, t), Keeps(label, t), Safe(label, t),
           pc' = [pc EXCEPT ![p] = label], task' = [task EXCEPT ![p] = t],
           claim' \in Procs \cup {NoOne}, day' \in Day, left' \in 0..MaxOps
    PROVE  Inv'
  <1>1. /\ pc' \in [Procs -> Labels] /\ task' \in [Procs -> Tasks]
        /\ \A q \in Procs : task'[q].target <= MaxGen
        /\ pc'[p] = label /\ task'[p] = t /\ Others(p)
    BY MoveFacts DEF Inv
  <1>2. Types /\ Quiet /\ made' \subseteq Runs /\ results' \subseteq made' /\ born' \in [Runs -> Day]
    BY SameQuiet DEF Inv
  <1>3. Types'
    BY <1>1, <1>2 DEF Inv, Types, TypeOK, Quiet
  <1>4. \A q \in Procs \ {p} : evidence = q <=> evidence' = q
    BY OverlayAssumption
  <1>5. Plan(pc[p], task[p])'
    BY <1>1, <1>2 DEF Plan, Quiet, Grows, Locked, Planning
  <1>6. Holds(p, pc[p], evidence)'
    BY <1>1 DEF Holds
  <1>7. Written(pc[p], task[p])'
    BY <1>1, <1>2 DEF Written, Newest, Valid, Readable, Present, Quiet
  <1>8. UNCHANGED <<gens, manifest, made, results, born, damaged>>
    BY DEF store, overlay
  <1>9. Cutoff' = Cutoff /\ Current' = Current /\ Coming(pc[p], task[p])' = Coming(label, t)
    BY <1>1, <1>8 DEF Cutoff, Current, Coming
  <1>10. Keeps(pc[p], task[p])'
    BY <1>1, <1>8, <1>9 DEF Keeps, Retired
  <1>11. Safe(pc[p], task[p])'
    BY <1>1, <1>8, <1>9 DEF Safe, Good
  <1>12. Process(p)'
    BY <1>5, <1>6, <1>7, <1>10, <1>11 DEF Process
  <1> QED
    BY <1>1, <1>2, <1>3, <1>4, <1>12, QuietStep

\* What is written next, from what is current and what is new.
LEMMA DraftFacts ==
    ASSUME Inv, NEW t \in Tasks
    PROVE  /\ Draft(t) \in Generations /\ Draft(t).state = "whole"
           /\ Draft(t).obs = Merged(t) /\ Draft(t).cutoff = NewCutoff(t)
           /\ NewCutoff(t) \in Nat /\ NewCutoff(t) >= Cutoff /\ NewCutoff(t) >= t.cutoff
           /\ t.cutoff \in Nat
           /\ Referable(t) => /\ Draft(t).obs \subseteq made
                              /\ ~damaged => Good(Draft(t))
  <1>1. Types /\ Files /\ GoodGens
    BY DEF Inv
  <1>2. t.cutoff \in Day /\ t.new \in SUBSET Runs /\ Cutoff \in Day /\ Current \in SUBSET Runs
        /\ Day \subseteq Nat
    BY <1>1, Fields, OverlayAssumption DEF Tasks, Day
  <1>3. /\ NewCutoff(t) \in Day /\ NewCutoff(t) \in Nat
        /\ NewCutoff(t) >= Cutoff /\ NewCutoff(t) >= t.cutoff /\ t.cutoff \in Nat
    <2>1. t.cutoff \in Nat /\ Cutoff \in Nat
      BY <1>2
    <2>2. CASE t.cutoff > Cutoff
      <3>1. NewCutoff(t) = t.cutoff
        BY <2>2 DEF NewCutoff
      <3> QED
        BY <1>2, <2>1, <2>2, <3>1
    <2>3. CASE ~(t.cutoff > Cutoff)
      <3>1. NewCutoff(t) = Cutoff
        BY <2>3 DEF NewCutoff
      <3> QED
        BY <1>2, <2>1, <2>3, <3>1
    <2> QED
      BY <2>2, <2>3
  <1>4. Merged(t) \in SUBSET Runs
    BY <1>2 DEF Merged
  <1>5. Drift \in BOOLEAN
    BY <1>1, Fields DEF Drift, Generations
  <1>6. Draft(t) \in Generations /\ Draft(t).state = "whole"
        /\ Draft(t).obs = Merged(t) /\ Draft(t).cutoff = NewCutoff(t)
    BY <1>3, <1>4, <1>5 DEF Draft, Generations
  <1>7. Current \subseteq made
    BY <1>1, Fields DEF Files, Current
  <1>8. ASSUME Referable(t) PROVE Draft(t).obs \subseteq made
    BY <1>1, <1>6, <1>7, <1>8 DEF Merged, Referable, Types, TypeOK
  <1>9. ASSUME Referable(t), ~damaged PROVE Good(Draft(t))
    <2>1. Current \subseteq results
      <3>1. CASE manifest = 0
        BY <3>1 DEF Current
      <3>2. CASE manifest # 0
        <4>1. Readable(manifest) /\ manifest \in Gen /\ manifest >= manifest
          BY <3>2, <1>1, <1>9, Fields DEF Files, Readable
        <4> QED
          BY <3>2, <4>1, <1>1, <1>9 DEF GoodGens, Good, Current
      <3> QED
        BY <3>1, <3>2
    <2>2. \A r \in Merged(t) : ~Retired(r, NewCutoff(t)) /\ r \in results
      BY <1>9, <2>1 DEF Merged, Referable
    <2>3. \A r \in Merged(t) \cap Automatic : born[r] >= NewCutoff(t) /\ born[r] >= Cutoff
      <3> SUFFICES ASSUME NEW r \in Merged(t) \cap Automatic
                   PROVE  born[r] >= NewCutoff(t) /\ born[r] >= Cutoff
        OBVIOUS
      <3>1. born[r] \in Nat /\ Cutoff \in Nat
        BY <1>1, <1>4, Fields
      <3>2. NewCutoff(t) = 0 \/ ~(born[r] < NewCutoff(t))
        BY <2>2 DEF Retired
      <3> QED
        BY <3>1, <3>2, <1>3
    <2> QED
      BY <1>6, <2>2, <2>3 DEF Good
  <1> QED
    BY <1>3, <1>6, <1>8, <1>9

Publication(t) == [t EXCEPT !.new = {}, !.draft = Draft(t)]

LEMMA BeginPublishStep ==
    ASSUME Inv, NEW p \in Procs, BeginPublish(p)
    PROVE  Inv'
  <1>1. Types /\ Files /\ Plan(pc[p], task[p]) /\ pc[p] = "publish"
    BY DEF Inv, Process, BeginPublish, At
  <1>2. CASE ~ (Loads /\ Expected(task[p]) /\ Referable(task[p]))
    <2>1. Leave(p) /\ UNCHANGED day /\ UNCHANGED store /\ UNCHANGED overlay
          /\ damaged' = damaged /\ left' = left
      BY <1>2 DEF BeginPublish
    <2> QED
      BY <2>1, LeaveStep
  <1>3. CASE Loads /\ Expected(task[p]) /\ Referable(task[p])
    <2> DEFINE s == task[p]
    <2> DEFINE t == Publication(s)
    <2>1. s \in Tasks
      BY <1>1, Fields
    <2>2. /\ Draft(s) \in Generations /\ Draft(s).state = "whole"
          /\ Draft(s).obs = Merged(s) /\ Draft(s).cutoff = NewCutoff(s)
          /\ Draft(s).obs \subseteq made /\ (~damaged => Good(Draft(s)))
      BY <1>3, <2>1, DraftFacts
    <2>3. /\ t \in Tasks /\ t.draft = Draft(s) /\ t.doomed = s.doomed /\ t.kind = s.kind
          /\ t.seen = s.seen /\ t.target = s.target
      <3> HIDE DEF Draft, s
      <3> QED
        BY <2>1, <2>2 DEF Publication, Tasks
    <2>4. t.doomed = {} /\ t.target <= MaxGen /\ t.draft.obs \subseteq made
      BY <1>1, <2>2, <2>3 DEF Plan, Locked, Types
    <2>5. \A r \in Current : r \in Merged(s) \/ r \in s.seen \/ Retired(r, NewCutoff(s))
      <3>1. CASE ~s.replace
        BY <3>1 DEF Merged
      <3>2. CASE s.replace
        <4>1. s.base = manifest
          BY <1>3, <3>2 DEF Expected
        <4>2. manifest # 0 => gens[manifest].state # "absent"
          BY <1>1 DEF Files
        <4>3. Current \subseteq s.seen
          BY <1>1, <3>2, <4>1, <4>2 DEF Plan, Current
        <4> QED
          BY <4>3
      <3> QED
        BY <3>1, <3>2
    <2>6. Written("data", t)
      BY <2>2, <2>3 DEF Written
    <2>7. Coming("data", t) = Draft(s)
      BY <2>3 DEF Coming
    <2>8. Keeps("data", t)
      <3> HIDE DEF s, t, Draft
      <3> QED
        BY <2>2, <2>3, <2>5, <2>7 DEF Keeps
    <2>9. Safe("data", t)
      <3> HIDE DEF s, t, Draft
      <3> QED
        BY <2>2, <2>4, <2>7 DEF Safe
    <2>10. pc' = [pc EXCEPT ![p] = "data"] /\ task' = [task EXCEPT ![p] = t]
           /\ evidence = NoOne /\ evidence' = p
      BY <1>3 DEF BeginPublish, Goto, Publication
    <2>11. UNCHANGED store /\ UNCHANGED overlay /\ damaged' = damaged
      BY DEF BeginPublish
    <2>12. claim' \in Procs \cup {NoOne} /\ day' \in Day /\ left' \in 0..MaxOps
      BY <1>1, <1>3 DEF BeginPublish, Types, TypeOK
    <2>13. "data" \in Labels /\ "data" \in Locked
      BY DEF Labels, Locked
    <2> HIDE DEF t
    <2> QED
      BY <2>3, <2>4, <2>6, <2>8, <2>9, <2>10, <2>11, <2>12, <2>13, LockStep
  <1> QED
    BY <1>2, <1>3

LEMMA PruneStep ==
    ASSUME Inv, NEW p \in Procs, Prune(p)
    PROVE  Inv'
  <1>1. Types /\ Files /\ evidence = NoOne /\ evidence' = p
    BY DEF Inv, Prune
  <1>2. PICK cutoff \in 1..day :
          IF Present = {} THEN Start(p, "delete", PruneTask(cutoff))
          ELSE Start(p, "data", [PruneTask(cutoff) EXCEPT !.draft = Draft(PruneTask(cutoff))])
    BY DEF Prune
  <1> DEFINE s == PruneTask(cutoff)
  <1>3. cutoff \in Day /\ cutoff \in Nat /\ cutoff # 0
    BY <1>1, OverlayAssumption DEF Types, TypeOK, Day
  <1>4. Doomed(cutoff) \in SUBSET Runs
    BY <1>1 DEF Doomed, Types, TypeOK
  <1>5. /\ s \in Tasks /\ s.doomed = Doomed(cutoff) /\ s.cutoff = cutoff /\ s.new = {}
        /\ s.replace = FALSE /\ s.target = 0 /\ s.draft = Absent /\ s.kind = "prune"
    <2> HIDE DEF Doomed
    <2> QED
      BY <1>3, <1>4, EmptyTask DEF PruneTask, NoTask, Tasks, Kinds
  <1>6. UNCHANGED store /\ UNCHANGED overlay /\ damaged' = damaged
    BY DEF Prune
  <1>7. claim' \in Procs \cup {NoOne} /\ day' \in Day
    BY <1>1 DEF Prune, Types, TypeOK
  <1>8. 0 <= MaxGen
    BY <1>1, Fields
  <1>9. CASE Present = {}
    <2>1. pc' = [pc EXCEPT ![p] = "delete"] /\ task' = [task EXCEPT ![p] = s] /\ left' \in 0..MaxOps
      BY <1>1, <1>2, <1>9, OverlayAssumption DEF Start, Goto, Types, TypeOK
    <2>2. Current = {}
      BY <1>1, <1>9, Fields DEF Files, Present, Current
    <2>3. s.draft.obs \subseteq made
      BY <1>5 DEF Absent
    <2>4. Written("delete", s) /\ Keeps("delete", s) /\ Safe("delete", s)
      BY <1>9, <2>2 DEF Written, Keeps, Safe
    <2>5. "delete" \in Labels /\ "delete" \in Locked
      BY DEF Labels, Locked
    <2> HIDE DEF s
    <2> QED
      BY <1>1, <1>5, <1>6, <1>7, <1>8, <2>1, <2>3, <2>4, <2>5, LockStep
  <1>10. CASE Present # {}
    <2> DEFINE t == [s EXCEPT !.draft = Draft(s)]
    <2>1. pc' = [pc EXCEPT ![p] = "data"] /\ task' = [task EXCEPT ![p] = t] /\ left' \in 0..MaxOps
      BY <1>1, <1>2, <1>10, OverlayAssumption DEF Start, Goto, Types, TypeOK
    <2>2. Referable(s)
      BY <1>5 DEF Referable
    <2>3. /\ Draft(s) \in Generations /\ Draft(s).state = "whole"
          /\ Draft(s).obs = Merged(s) /\ Draft(s).cutoff = NewCutoff(s)
          /\ NewCutoff(s) \in Nat /\ NewCutoff(s) >= s.cutoff
          /\ Draft(s).obs \subseteq made /\ (~damaged => Good(Draft(s)))
      BY <1>5, <2>2, DraftFacts
    <2>4. /\ t \in Tasks /\ t.draft = Draft(s) /\ t.doomed = s.doomed /\ t.kind = s.kind
          /\ t.target = 0
      <3> HIDE DEF Draft, s
      <3> QED
        BY <1>5, <2>3 DEF Tasks
    <2>5. Merged(s) = {r \in Current : ~Retired(r, NewCutoff(s))}
      BY <1>5 DEF Merged
    <2>6. Merged(s) \cap s.doomed = {}
      <3> SUFFICES ASSUME NEW r \in Merged(s), r \in Doomed(cutoff) PROVE FALSE
        BY <1>5
      <3>1. r \in Current /\ ~Retired(r, NewCutoff(s)) /\ r \in Runs
        BY <2>5, <1>1, Fields
      <3>2. born[r] \in Nat
        BY <1>1, <3>1, Fields
      <3>3. ~Retired(r, cutoff)
        BY <1>3, <1>5, <2>3, <3>1, <3>2 DEF Retired
      <3> QED
        BY <3>1, <3>3 DEF Doomed, Pinned
    <2>7. \A r \in Current : r \in Merged(s) \/ Retired(r, NewCutoff(s))
      BY <2>5
    <2>8. Coming("data", t) = Draft(s)
      BY <2>4 DEF Coming
    <2> HIDE DEF s, t, Draft
    <2>9. Written("data", t) /\ Keeps("data", t) /\ Safe("data", t)
      BY <2>3, <2>4, <2>6, <2>7, <2>8 DEF Written, Keeps, Safe
    <2>10. "data" \in Labels /\ "data" \in Locked
      BY DEF Labels, Locked
    <2> QED
      BY <1>1, <1>6, <1>7, <1>8, <2>1, <2>3, <2>4, <2>9, <2>10, LockStep
  <1> QED
    BY <1>9, <1>10

LEMMA RepairTaskFacts ==
    ASSUME Types, NEW draft \in Generations, NEW target \in Nat, target <= MaxGen
    PROVE  /\ RepairTask(draft, target) \in Tasks /\ RepairTask(draft, target).kind = "repair"
           /\ RepairTask(draft, target).draft = draft /\ RepairTask(draft, target).target = target
           /\ RepairTask(draft, target).doomed = {}
  BY EmptyTask DEF RepairTask, NoTask, Tasks, Kinds

\* The newest generation is good as long as nothing was damaged.
LEMMA NewestIsGood ==
    ASSUME Inv, NEW g, Newest(g)
    PROVE  /\ g \in Gen /\ g \in Nat /\ g <= MaxGen /\ Readable(g) /\ gens[g] \in Generations
           /\ gens[g].obs \subseteq made
           /\ ~damaged => Good(gens[g])
  <1>1. Types /\ Files /\ GoodGens /\ g \in Gen /\ Readable(g)
    BY DEF Inv, Newest, Valid
  <1>2. g \in Nat /\ g <= MaxGen /\ gens[g] \in Generations /\ gens[g].obs \subseteq made
    BY <1>1, Fields DEF Files, Gen
  <1>3. ASSUME ~damaged PROVE Good(gens[g])
    <2>1. CASE manifest = 0
      BY <1>1, <1>2, <1>3, <2>1 DEF GoodGens
    <2>2. CASE manifest # 0
      <3>1. manifest \in Gen /\ Readable(manifest)
        BY <1>1, <1>3, <2>2, Fields DEF Files, Readable
      <3>2. g >= manifest
        BY <1>1, <3>1, Fields DEF Newest, Valid
      <3> QED
        BY <1>1, <1>3, <3>2 DEF GoodGens
    <2> QED
      BY <2>1, <2>2
  <1> QED
    BY <1>1, <1>2, <1>3

LEMMA ResetStep ==
    ASSUME Inv, NEW p \in Procs, evidence = NoOne, evidence' = p, Reset(p),
           UNCHANGED <<day, store, overlay, claim, damaged>>
    PROVE  Inv'
  <1> DEFINE draft == [Absent EXCEPT !.state = "whole"]
  <1> DEFINE t == RepairTask(draft, 0)
  <1>1. Types /\ 0 \in Nat /\ 0 <= MaxGen
    BY Fields DEF Inv
  <1>2. draft \in Generations /\ draft.state = "whole" /\ draft.obs = {}
    BY EmptyTask DEF Generations, Absent
  <1>3. t \in Tasks /\ t.kind = "repair" /\ t.draft = draft /\ t.target = 0 /\ t.doomed = {}
    BY <1>1, <1>2, RepairTaskFacts
  <1>4. pc' = [pc EXCEPT ![p] = "data"] /\ task' = [task EXCEPT ![p] = t] /\ left' \in 0..MaxOps
    BY <1>1, OverlayAssumption DEF Reset, Start, Goto, Types, TypeOK
  <1>5. claim' \in Procs \cup {NoOne} /\ day' \in Day
    BY <1>1 DEF Types, TypeOK
  <1>6. "data" \in Labels /\ "data" \in Locked
    BY DEF Labels, Locked
  <1> HIDE DEF draft, t
  <1>7. Written("data", t) /\ Keeps("data", t) /\ Safe("data", t) /\ t.draft.obs \subseteq made
    BY <1>2, <1>3 DEF Written, Keeps, Safe, Coming, Good
  <1> QED
    BY <1>1, <1>3, <1>4, <1>5, <1>6, <1>7, LockStep

LEMMA MigrateStep ==
    ASSUME Inv, NEW p \in Procs, evidence = NoOne, evidence' = p,
           NEW g \in Gen, Newest(g), Migrate(p, g),
           UNCHANGED <<day, store, overlay, claim, damaged>>
    PROVE  Inv'
  <1>1. PICK obs \in SUBSET gens[g].obs :
          Start(p, "data", RepairTask([Absent EXCEPT !.state = "whole", !.obs = obs], 0))
    BY DEF Migrate
  <1> DEFINE draft == [Absent EXCEPT !.state = "whole", !.obs = obs]
  <1> DEFINE t == RepairTask(draft, 0)
  <1>2. Types /\ 0 \in Nat /\ 0 <= MaxGen
    BY Fields DEF Inv
  <1>3. obs \in SUBSET Runs /\ obs \subseteq made
    BY <1>2, NewestIsGood, Fields
  <1>4. draft \in Generations /\ draft.state = "whole" /\ draft.obs = obs /\ draft.cutoff = 0
    BY <1>3, EmptyTask DEF Generations, Absent
  <1>5. t \in Tasks /\ t.kind = "repair" /\ t.draft = draft /\ t.target = 0 /\ t.doomed = {}
    BY <1>2, <1>4, RepairTaskFacts
  <1>6. pc' = [pc EXCEPT ![p] = "data"] /\ task' = [task EXCEPT ![p] = t] /\ left' \in 0..MaxOps
    BY <1>1, <1>2, OverlayAssumption DEF Start, Goto, Types, TypeOK
  <1>7. claim' \in Procs \cup {NoOne} /\ day' \in Day
    BY <1>2 DEF Types, TypeOK
  <1>8. "data" \in Labels /\ "data" \in Locked
    BY DEF Labels, Locked
  <1>9. ASSUME ~damaged PROVE Good(draft)
    <2>1. Good(gens[g])
      BY <1>9, NewestIsGood
    <2>2. \A r \in obs : born[r] >= 0
      BY <1>2, <1>3, Fields
    <2> QED
      BY <1>4, <2>1, <2>2 DEF Good
  <1> HIDE DEF draft, t
  <1>10. Written("data", t) /\ Keeps("data", t) /\ Safe("data", t) /\ t.draft.obs \subseteq made
    BY <1>3, <1>4, <1>5, <1>9 DEF Written, Keeps, Safe, Coming
  <1> QED
    BY <1>2, <1>5, <1>6, <1>7, <1>8, <1>10, LockStep

LEMMA SelectStep ==
    ASSUME Inv, NEW p \in Procs, evidence = NoOne, evidence' = p,
           NEW g \in Gen, Newest(g), Select(p, g),
           UNCHANGED <<day, store, overlay, claim, damaged>>
    PROVE  Inv'
  <1> DEFINE draft == [gens[g] EXCEPT !.state = "whole"]
  <1> DEFINE t == RepairTask(draft, g)
  <1> DEFINE label == IF gens[g].state = "legacy" THEN "bind" ELSE "manifest"
  <1>1. Types /\ g \in Nat /\ g <= MaxGen /\ gens[g] \in Generations /\ Readable(g)
        /\ gens[g].obs \subseteq made /\ (~damaged => Good(gens[g]))
    BY NewestIsGood DEF Inv
  <1>2. /\ draft \in Generations /\ draft.state = "whole" /\ draft.obs = gens[g].obs
        /\ draft.cutoff = gens[g].cutoff
    BY <1>1 DEF Generations
  <1>3. t \in Tasks /\ t.kind = "repair" /\ t.draft = draft /\ t.target = g /\ t.doomed = {}
    BY <1>1, <1>2, RepairTaskFacts
  <1>4. pc' = [pc EXCEPT ![p] = label] /\ task' = [task EXCEPT ![p] = t] /\ left' \in 0..MaxOps
    BY <1>1, OverlayAssumption DEF Select, Start, Goto, Types, TypeOK
  <1>5. claim' \in Procs \cup {NoOne} /\ day' \in Day
    BY <1>1 DEF Types, TypeOK
  <1>6. label \in Labels /\ label \in Locked /\ label \in {"bind", "manifest"}
    BY DEF Labels, Locked
  <1> HIDE DEF draft, t, label
  <1>7. ~damaged => Good(draft)
    BY <1>1, <1>2 DEF Good
  <1>8. Written(label, t)
    BY <1>2, <1>3, <1>6 DEF Written
  <1>9. Keeps(label, t)
    BY <1>3 DEF Keeps
  <1>10. Coming(label, t) = draft \/ Coming(label, t) = gens[g]
    BY <1>3 DEF Coming
  <1>11. Safe(label, t)
    BY <1>1, <1>3, <1>6, <1>7, <1>10 DEF Safe
  <1>12. t.draft.obs \subseteq made
    BY <1>1, <1>2, <1>3
  <1> QED
    BY <1>1, <1>3, <1>4, <1>5, <1>6, <1>8, <1>9, <1>11, <1>12, LockStep

LEMMA RepairStep ==
    ASSUME Inv, NEW p \in Procs, Repair(p)
    PROVE  Inv'
  BY ResetStep, MigrateStep, SelectStep DEF Repair

-----------------------------------------------------------------------------
(* Steps under the lock                                                    *)

LEMMA LockedStep ==
    ASSUME Inv, NEW p \in Procs, pc[p] \in Locked, evidence' \in {p, NoOne}, Others(p),
           Types', Files', GoodGens', Stays, Process(p)'
    PROVE  Inv'
  <1>1. evidence = p /\ Types /\ last' \in Nat
    BY Fields DEF Inv, Process, Holds, Types, TypeOK
  <1>2. ASSUME NEW q \in Procs \ {p} PROVE Process(q)'
    <2>1. pc[q] \notin Locked /\ evidence' # q /\ Plan(pc[q], task[q])
      BY <1>1, OverlayAssumption DEF Inv, Process, Holds
    <2>2. pc'[q] = pc[q] /\ task'[q] = task[q]
      BY DEF Others
    <2>3. Plan(pc[q], task[q])'
      BY <1>1, <2>1, <2>2, PlanKept
    <2> QED
      BY <2>1, <2>2, <2>3, Bystander
  <1> QED
    BY <1>2 DEF Inv

LEMMA OwnFacts ==
    ASSUME Inv, NEW p \in Procs
    PROVE  /\ Types /\ Files /\ GoodGens
           /\ Plan(pc[p], task[p]) /\ Written(pc[p], task[p])
           /\ Keeps(pc[p], task[p]) /\ Safe(pc[p], task[p])
           /\ pc[p] \in Locked <=> evidence = p
           /\ task[p] \in Tasks /\ task[p].target <= MaxGen
           /\ manifest # 0 => manifest \in Gen /\ manifest <= last
  <1>1. Types /\ Files /\ Process(p) /\ GoodGens
    BY DEF Inv
  <1>2. manifest # 0 => manifest \in Gen /\ manifest <= last
    BY <1>1, Fields DEF Files
  <1> QED
    BY <1>1, <1>2, Fields DEF Process, Holds, Types

LEMMA PutDataStep ==
    ASSUME Inv, NEW p \in Procs, PutData(p)
    PROVE  Inv'
  <1> DEFINE n == last + 1
  <1> DEFINE file == [task[p].draft EXCEPT !.state = "data"]
  <1> DEFINE t == [task[p] EXCEPT !.target = n]
  <1>1. /\ Types /\ Files /\ GoodGens /\ Plan(pc[p], task[p]) /\ Written(pc[p], task[p])
        /\ Keeps(pc[p], task[p]) /\ Safe(pc[p], task[p]) /\ evidence = p /\ pc[p] = "data"
        /\ manifest # 0 => manifest \in Gen /\ manifest <= last
    BY OwnFacts DEF PutData, At, Locked
  <1>2. n \in Gen /\ n \in Nat /\ last \in Nat /\ n <= MaxGen
    BY <1>1, Fields DEF PutData, Gen
  <1>3. task[p] \in Tasks /\ task[p].draft \in Generations
    BY <1>1, Fields
  <1>4. file \in Generations /\ file.state = "data" /\ file.obs = task[p].draft.obs
    BY <1>3 DEF Generations
  <1>5. /\ t \in Tasks /\ t.target = n /\ t.draft = task[p].draft /\ t.doomed = task[p].doomed
        /\ t.kind = task[p].kind /\ t.seen = task[p].seen
    BY <1>2, <1>3 DEF Tasks
  <1>6. /\ gens' = [gens EXCEPT ![n] = file] /\ last' = n
        /\ pc' = [pc EXCEPT ![p] = "meta"] /\ task' = [task EXCEPT ![p] = t]
        /\ UNCHANGED <<day, made, results, born, manifest, evidence, claim, damaged, left>>
    BY DEF PutData, Goto, store, locks
  <1> HIDE DEF file, t
  <1>7. /\ gens'[n] = file /\ \A g \in Gen \ {n} : gens'[g] = gens[g]
        /\ gens' \in [Gen -> Generations]
    BY <1>1, <1>2, <1>4, <1>6 DEF Types, TypeOK
  <1>8. /\ pc' \in [Procs -> Labels] /\ task' \in [Procs -> Tasks]
        /\ \A q \in Procs : task'[q].target <= MaxGen
        /\ pc'[p] = "meta" /\ task'[p] = t /\ Others(p)
    <2>1. "meta" \in Labels
      BY DEF Labels
    <2> QED
      BY <1>1, <1>2, <1>5, <1>6, <2>1, MoveFacts
  <1>9. Types'
    BY <1>1, <1>2, <1>6, <1>7, <1>8 DEF Types, TypeOK
  <1>10. manifest # n /\ (manifest # 0 => gens'[manifest] = gens[manifest])
    BY <1>1, <1>2, <1>7
  <1>11. Cutoff' = Cutoff /\ Current' = Current
    BY <1>6, <1>10 DEF Cutoff, Current
  <1>12. Files'
    <2>1. \A g \in Gen : g \in Nat
      BY DEF Gen
    <2> QED
      BY <1>1, <1>2, <1>4, <1>6, <1>7, <1>10, <2>1 DEF Files, Plan
  <1>13. GoodGens'
    <2> SUFFICES ASSUME ~damaged, NEW g \in Gen, Readable(g)', g >= manifest
                 PROVE  Good(gens[g])'
      BY <1>6 DEF GoodGens
    <2>1. g # n /\ gens'[g] = gens[g]
      BY <1>4, <1>7 DEF Readable
    <2>2. Good(gens[g])
      BY <1>1, <2>1 DEF GoodGens, Readable
    <2> QED
      BY <1>6, <1>11, <2>1, <2>2 DEF Good
  <1>14. Stays
    BY <1>2, <1>6, <1>7 DEF Stays, Gen
  <1>15. Plan(pc[p], task[p])'
    BY <1>1, <1>5, <1>6, <1>8 DEF Plan, Locked, Planning
  <1>16. Written(pc[p], task[p])'
    BY <1>1, <1>2, <1>4, <1>5, <1>6, <1>7, <1>8 DEF Written
  <1>17. Coming(pc[p], task[p]) = task[p].draft /\ Coming(pc[p], task[p])' = task[p].draft
    BY <1>1, <1>5, <1>8 DEF Coming
  <1>18. Keeps(pc[p], task[p])'
    BY <1>1, <1>5, <1>6, <1>8, <1>11, <1>17 DEF Keeps, Retired
  <1>19. Safe(pc[p], task[p])'
    BY <1>1, <1>5, <1>6, <1>8, <1>11, <1>17 DEF Safe, Good
  <1>20. Process(p)'
    BY <1>1, <1>6, <1>8, <1>15, <1>16, <1>18, <1>19 DEF Process, Holds, Locked
  <1> QED
    BY <1>1, <1>6, <1>8, <1>9, <1>12, <1>13, <1>14, <1>20, LockedStep DEF Locked

LEMMA PutMetaStep ==
    ASSUME Inv, NEW p \in Procs, PutMeta(p)
    PROVE  Inv'
  <1> DEFINE t == [task[p] EXCEPT !.draft = Absent]
  <1>1. /\ Types /\ Files /\ GoodGens /\ Plan(pc[p], task[p]) /\ Written(pc[p], task[p])
        /\ Keeps(pc[p], task[p]) /\ Safe(pc[p], task[p]) /\ evidence = p /\ pc[p] = "meta"
        /\ manifest # 0 => manifest \in Gen /\ manifest <= last
    BY OwnFacts DEF PutMeta, At, Locked
  <1>2. /\ last \in Gen /\ last \in Nat /\ task[p].target = last /\ last <= MaxGen
        /\ gens[last].state = "data" /\ task[p].draft.state = "whole"
    BY <1>1, Fields DEF Written, Gen
  <1>3. task[p] \in Tasks /\ task[p].draft \in Generations
    BY <1>1, Fields
  <1>4. /\ t \in Tasks /\ t.target = last /\ t.draft = Absent /\ t.doomed = task[p].doomed
        /\ t.kind = task[p].kind /\ t.seen = task[p].seen
    BY <1>2, <1>3, EmptyTask DEF Tasks
  <1>5. /\ gens' = [gens EXCEPT ![last] = task[p].draft]
        /\ pc' = [pc EXCEPT ![p] = "manifest"] /\ task' = [task EXCEPT ![p] = t]
        /\ UNCHANGED <<day, made, results, born, last, manifest, evidence, claim, damaged, left>>
    BY <1>2 DEF PutMeta, Goto, store, locks
  <1> HIDE DEF t
  <1>6. /\ gens'[last] = task[p].draft /\ \A g \in Gen \ {last} : gens'[g] = gens[g]
        /\ gens' \in [Gen -> Generations]
    BY <1>1, <1>2, <1>3, <1>5 DEF Types, TypeOK
  <1>7. /\ pc' \in [Procs -> Labels] /\ task' \in [Procs -> Tasks]
        /\ \A q \in Procs : task'[q].target <= MaxGen
        /\ pc'[p] = "manifest" /\ task'[p] = t /\ Others(p)
    <2>1. "manifest" \in Labels
      BY DEF Labels
    <2> QED
      BY <1>1, <1>2, <1>4, <1>5, <2>1, MoveFacts
  <1>8. Types'
    BY <1>1, <1>5, <1>6, <1>7 DEF Types, TypeOK
  <1>9. manifest # last /\ (manifest # 0 => gens'[manifest] = gens[manifest])
    BY <1>1, <1>2, <1>6 DEF Files, Gen
  <1>10. Cutoff' = Cutoff /\ Current' = Current
    BY <1>5, <1>9 DEF Cutoff, Current
  <1>11. \A g \in Gen : g \in Nat
    BY DEF Gen
  <1>12. Files'
    BY <1>1, <1>2, <1>5, <1>6, <1>9, <1>11 DEF Files, Plan
  <1>13. Coming(pc[p], task[p]) = task[p].draft /\ Coming(pc[p], task[p])' = task[p].draft
    BY <1>1, <1>2, <1>4, <1>5, <1>6, <1>7 DEF Coming
  <1>14. GoodGens'
    <2> SUFFICES ASSUME ~damaged, NEW g \in Gen, Readable(g)', g >= manifest
                 PROVE  Good(gens[g])'
      BY <1>5 DEF GoodGens
    <2>1. CASE g = last
      <3>1. Good(task[p].draft)
        BY <1>1, <1>13 DEF Safe
      <3> QED
        BY <1>5, <1>6, <1>10, <2>1, <3>1 DEF Good
    <2>2. CASE g # last
      <3>1. gens'[g] = gens[g]
        BY <1>6, <2>2
      <3>2. Good(gens[g])
        BY <1>1, <3>1 DEF GoodGens, Readable
      <3> QED
        BY <1>5, <1>10, <3>1, <3>2 DEF Good
    <2> QED
      BY <2>1, <2>2
  <1>15. Stays
    BY <1>1, <1>2, <1>5, <1>6 DEF Stays, Files
  <1>16. Plan(pc[p], task[p])'
    BY <1>4, <1>7 DEF Plan, Locked, Planning, Absent
  <1>17. Written(pc[p], task[p])'
    <2>1. Newest(last)'
      BY <1>2, <1>5, <1>6, <1>11, <1>12 DEF Newest, Valid, Readable, Files
    <2> QED
      BY <1>4, <1>5, <1>7, <2>1 DEF Written, Newest, Valid, Readable
  <1>18. Keeps(pc[p], task[p])'
    BY <1>1, <1>4, <1>5, <1>7, <1>10, <1>13 DEF Keeps, Retired
  <1>19. Safe(pc[p], task[p])'
    BY <1>1, <1>4, <1>5, <1>7, <1>10, <1>13 DEF Safe, Good
  <1>20. Process(p)'
    BY <1>1, <1>5, <1>7, <1>16, <1>17, <1>18, <1>19 DEF Process, Holds, Locked
  <1> QED
    BY <1>1, <1>5, <1>7, <1>8, <1>12, <1>14, <1>15, <1>20, LockedStep DEF Locked

LEMMA LeaveFacts ==
    ASSUME Types, Files, NEW p \in Procs, evidence = p, Leave(p), made \subseteq made'
    PROVE  /\ pc' \in [Procs -> Labels] /\ task' \in [Procs -> Tasks]
           /\ \A q \in Procs : task'[q].target <= MaxGen
           /\ Others(p) /\ evidence' = NoOne /\ claim' \in Procs \cup {NoOne}
           /\ Process(p)'
  <1>1. "idle" \in Labels /\ NoTask.target <= MaxGen
    BY Fields DEF Labels, NoTask
  <1>2. pc' = [pc EXCEPT ![p] = "idle"] /\ task' = [task EXCEPT ![p] = NoTask]
    BY DEF Leave, Goto
  <1>3. /\ pc' \in [Procs -> Labels] /\ task' \in [Procs -> Tasks]
        /\ \A q \in Procs : task'[q].target <= MaxGen
        /\ pc'[p] = "idle" /\ task'[p] = NoTask /\ Others(p)
    BY <1>1, <1>2, EmptyTask, MoveFacts
  <1>4. evidence' = NoOne /\ claim' \in Procs \cup {NoOne}
    BY DEF Leave, Free, Types, TypeOK
  <1>5. Plan(pc[p], task[p])'
    BY <1>3 DEF Plan, NoTask, Absent, Planning
  <1>6. Process(p)'
    BY <1>3, <1>4, <1>5, OverlayAssumption, Bystander DEF Locked
  <1> QED
    BY <1>3, <1>4, <1>6

LEMMA PutManifestStep ==
    ASSUME Inv, NEW p \in Procs, PutManifest(p)
    PROVE  Inv'
  <1> DEFINE n == task[p].target
  <1>1. /\ Types /\ Files /\ GoodGens /\ Plan(pc[p], task[p]) /\ Written(pc[p], task[p])
        /\ Safe(pc[p], task[p]) /\ evidence = p /\ pc[p] = "manifest"
    BY OwnFacts DEF PutManifest, At, Locked
  <1>2. /\ n \in Gen /\ n \in Nat /\ n <= MaxGen /\ n # 0 /\ Newest(n)
        /\ gens[n].state \in {"whole", "legacy"} /\ (task[p].kind # "repair" => n = last)
    BY <1>1 DEF Written, Newest, Valid, Readable, Gen
  <1>3. /\ manifest' = n
        /\ UNCHANGED <<day, made, results, born, gens, last, damaged, left>>
    BY DEF PutManifest, store
  <1>4. Cutoff' = gens[n].cutoff /\ Current' = gens[n].obs
    BY <1>2, <1>3 DEF Cutoff, Current
  <1>5. Coming(pc[p], task[p]) = gens[n]
    BY <1>1 DEF Coming
  <1>6. Files'
    BY <1>1, <1>2, <1>3 DEF Files
  <1>7. GoodGens'
    <2> SUFFICES ASSUME ~damaged, NEW g \in Gen, Readable(g), g >= n
                 PROVE  Good(gens[g])'
      BY <1>3 DEF GoodGens, Readable
    <2>1. g = n
      BY <1>2 DEF Newest, Valid, Gen
    <2>2. Good(gens[n])
      BY <1>1, <1>5 DEF Safe
    <2> QED
      BY <1>3, <1>4, <2>1, <2>2 DEF Good
  <1>8. Stays
    BY <1>1, <1>3, Fields DEF Stays
  <1>9. CASE task[p].kind = "repair"
    <2>1. Leave(p) /\ made \subseteq made'
      BY <1>3, <1>9 DEF PutManifest
    <2>2. /\ pc' \in [Procs -> Labels] /\ task' \in [Procs -> Tasks]
          /\ \A q \in Procs : task'[q].target <= MaxGen
          /\ Others(p) /\ evidence' = NoOne /\ claim' \in Procs \cup {NoOne}
          /\ Process(p)'
      BY <1>1, <2>1, LeaveFacts
    <2>3. Types'
      BY <1>1, <1>2, <1>3, <2>2 DEF Types, TypeOK
    <2> QED
      BY <1>1, <1>6, <1>7, <1>8, <2>2, <2>3, LockedStep DEF Locked
  <1>10. CASE task[p].kind # "repair"
    <2> DEFINE t == Kept(task[p])
    <2>1. task[p] \in Tasks /\ 0 <= MaxGen
      BY <1>1, Fields
    <2>2. t \in Tasks /\ t.doomed = task[p].doomed /\ t.draft = Absent /\ t.target = 0
      BY <2>1, EmptyTask DEF Kept, NoTask, Tasks
    <2>3. /\ pc' = [pc EXCEPT ![p] = "retain"] /\ task' = [task EXCEPT ![p] = t]
          /\ evidence' = evidence /\ claim' = claim
      BY <1>10 DEF PutManifest, Goto, locks
    <2> HIDE DEF t
    <2>4. /\ pc' \in [Procs -> Labels] /\ task' \in [Procs -> Tasks]
          /\ \A q \in Procs : task'[q].target <= MaxGen
          /\ pc'[p] = "retain" /\ task'[p] = t /\ Others(p)
      <3>1. "retain" \in Labels
        BY DEF Labels
      <3> QED
        BY <1>1, <2>1, <2>2, <2>3, <3>1, MoveFacts
    <2>5. Types'
      BY <1>1, <1>2, <1>3, <2>3, <2>4 DEF Types, TypeOK
    <2>6. Plan(pc[p], task[p])'
      BY <2>2, <2>4 DEF Plan, Locked, Planning, Absent
    <2>7. Written(pc[p], task[p])' /\ Keeps(pc[p], task[p])'
      BY <1>2, <1>3, <1>10, <2>4 DEF Written, Keeps
    <2>8. Safe(pc[p], task[p])'
      BY <1>1, <1>4, <1>5, <2>2, <2>4 DEF Safe
    <2>9. Process(p)'
      BY <1>1, <2>3, <2>4, <2>6, <2>7, <2>8 DEF Process, Holds, Locked
    <2> QED
      BY <1>1, <1>6, <1>7, <1>8, <2>3, <2>4, <2>5, <2>9, LockedStep DEF Locked
  <1> QED
    BY <1>9, <1>10

LEMMA CleanStep ==
    ASSUME Inv, NEW p \in Procs, Clean(p)
    PROVE  Inv'
  <1>1. /\ Types /\ Files /\ GoodGens /\ Plan(pc[p], task[p]) /\ Written(pc[p], task[p])
        /\ Safe(pc[p], task[p]) /\ evidence = p /\ pc[p] = "retain" /\ task[p] \in Tasks
        /\ task[p].target <= MaxGen
    BY OwnFacts DEF Clean, At, Locked
  <1>2. PICK gone \in SUBSET Superseded :
          gens' = [g \in Gen |-> IF g \in gone THEN Absent ELSE gens[g]]
    BY DEF Clean
  <1>3. manifest = last /\ last \in Nat /\ (manifest # 0 => manifest \in Gen)
    BY <1>1, Fields DEF Written
  <1>4. manifest \notin gone
    <2>1. Newer(manifest) = {}
      BY <1>1, <1>3 DEF Newer, Present, Files, Gen
    <2>2. Cardinality(Newer(manifest)) = 0
      BY <2>1, FS_EmptySet
    <2> QED
      BY <1>2, <2>2, OverlayAssumption DEF Superseded
  <1>5. \A g \in Gen : /\ gens'[g] = Absent \/ gens'[g] = gens[g]
                       /\ g = manifest => gens'[g] = gens[g]
    BY <1>2, <1>4
  <1>6. gens' \in [Gen -> Generations]
    BY <1>1, <1>2, EmptyTask DEF Types, TypeOK
  <1>7. UNCHANGED <<day, made, results, born, last, manifest, damaged, left>>
    BY DEF Clean, store
  <1>8. Cutoff' = Cutoff /\ Current' = Current
    BY <1>3, <1>5, <1>7 DEF Cutoff, Current
  <1>9. Files'
    BY <1>1, <1>3, <1>5, <1>7 DEF Files, Absent
  <1>10. GoodGens'
    <2> SUFFICES ASSUME ~damaged, NEW g \in Gen, Readable(g)', g >= manifest
                 PROVE  Good(gens[g])'
      BY <1>7 DEF GoodGens
    <2>1. gens'[g] = gens[g]
      BY <1>5 DEF Readable, Absent
    <2>2. Good(gens[g])
      BY <1>1, <2>1 DEF GoodGens, Readable
    <2> QED
      BY <1>7, <1>8, <2>1, <2>2 DEF Good
  <1>11. Stays
    BY <1>3, <1>5, <1>7 DEF Stays, Absent
  <1>12. CASE task[p].kind = "prune"
    <2>1. /\ pc' = [pc EXCEPT ![p] = "delete"] /\ task' = [task EXCEPT ![p] = task[p]]
          /\ evidence' = evidence /\ claim' = claim
      BY <1>12 DEF Clean, Continue, Goto, locks
    <2>2. /\ pc' \in [Procs -> Labels] /\ task' \in [Procs -> Tasks]
          /\ \A q \in Procs : task'[q].target <= MaxGen
          /\ pc'[p] = "delete" /\ task'[p] = task[p] /\ Others(p)
      <3>1. "delete" \in Labels
        BY DEF Labels
      <3> QED
        BY <1>1, <2>1, <3>1, MoveFacts
    <2>3. Types'
      BY <1>1, <1>6, <1>7, <2>1, <2>2 DEF Types, TypeOK
    <2>4. Plan(pc[p], task[p])'
      BY <1>1, <1>7, <2>2 DEF Plan, Locked, Planning
    <2>5. Written(pc[p], task[p])' /\ Keeps(pc[p], task[p])'
      BY <1>3, <1>7, <2>2 DEF Written, Keeps
    <2>6. Safe(pc[p], task[p])'
      BY <1>1, <1>8, <2>2 DEF Safe
    <2>7. Process(p)'
      BY <1>1, <2>1, <2>2, <2>4, <2>5, <2>6 DEF Process, Holds, Locked
    <2> QED
      BY <1>1, <1>9, <1>10, <1>11, <2>1, <2>2, <2>3, <2>7, LockedStep DEF Locked
  <1>13. CASE task[p].kind = "collect"
    <2> DEFINE t == [NoTask EXCEPT !.kind = "collect"]
    <2>0. 0 <= MaxGen
      BY <1>1, Fields
    <2>1. t \in Tasks /\ t.doomed = {} /\ t.draft = Absent /\ t.target = 0
      BY EmptyTask DEF NoTask, Tasks, Kinds
    <2>2. /\ pc' = [pc EXCEPT ![p] = "probe"] /\ task' = [task EXCEPT ![p] = t]
          /\ evidence' = NoOne /\ claim' = claim
      BY <1>13 DEF Clean, Continue, Goto
    <2> HIDE DEF t
    <2>3. /\ pc' \in [Procs -> Labels] /\ task' \in [Procs -> Tasks]
          /\ \A q \in Procs : task'[q].target <= MaxGen
          /\ pc'[p] = "probe" /\ task'[p] = t /\ Others(p)
      <3>1. "probe" \in Labels
        BY DEF Labels
      <3> QED
        BY <1>1, <2>0, <2>1, <2>2, <3>1, MoveFacts
    <2>4. Types'
      BY <1>1, <1>6, <1>7, <2>2, <2>3 DEF Types, TypeOK
    <2>5. Plan(pc[p], task[p])'
      BY <2>1, <2>3 DEF Plan, Planning, Absent
    <2>6. Process(p)'
      BY <2>2, <2>3, <2>5, OverlayAssumption, Bystander DEF Locked
    <2> QED
      BY <1>1, <1>9, <1>10, <1>11, <2>2, <2>3, <2>4, <2>6, LockedStep DEF Locked
  <1>14. CASE task[p].kind \notin {"prune", "collect"}
    <2>1. Leave(p) /\ made \subseteq made'
      BY <1>7, <1>14 DEF Clean, Continue
    <2>2. /\ pc' \in [Procs -> Labels] /\ task' \in [Procs -> Tasks]
          /\ \A q \in Procs : task'[q].target <= MaxGen
          /\ Others(p) /\ evidence' = NoOne /\ claim' \in Procs \cup {NoOne}
          /\ Process(p)'
      BY <1>1, <2>1, LeaveFacts
    <2>3. Types'
      BY <1>1, <1>6, <1>7, <2>2 DEF Types, TypeOK
    <2> QED
      BY <1>1, <1>9, <1>10, <1>11, <2>2, <2>3, LockedStep DEF Locked
  <1> QED
    BY <1>12, <1>13, <1>14

LEMMA BindStep ==
    ASSUME Inv, NEW p \in Procs, Bind(p)
    PROVE  Inv'
  <1> DEFINE n == task[p].target
  <1>1. /\ Types /\ Files /\ GoodGens /\ Plan(pc[p], task[p]) /\ Written(pc[p], task[p])
        /\ Safe(pc[p], task[p]) /\ evidence = p /\ pc[p] = "bind" /\ task[p] \in Tasks
        /\ n <= MaxGen
    BY OwnFacts DEF Bind, At, Locked
  <1>2. /\ n \in Gen /\ Newest(n) /\ Readable(n) /\ task[p].kind = "repair"
        /\ task[p].draft.state = "whole" /\ task[p].draft.obs = gens[n].obs
        /\ task[p].draft.cutoff = gens[n].cutoff /\ task[p].draft \in Generations
    BY <1>1, Fields DEF Written, Newest, Valid
  <1>3. /\ gens' = [gens EXCEPT ![n] = task[p].draft]
        /\ pc' = [pc EXCEPT ![p] = "manifest"] /\ task' = [task EXCEPT ![p] = task[p]]
        /\ UNCHANGED <<day, made, results, born, last, manifest, evidence, claim, damaged, left>>
    BY DEF Bind, Goto, store, locks
  <1>4. /\ gens'[n] = task[p].draft /\ \A g \in Gen \ {n} : gens'[g] = gens[g]
        /\ gens' \in [Gen -> Generations]
    BY <1>1, <1>2, <1>3 DEF Types, TypeOK
  <1>5. /\ pc' \in [Procs -> Labels] /\ task' \in [Procs -> Tasks]
        /\ \A q \in Procs : task'[q].target <= MaxGen
        /\ pc'[p] = "manifest" /\ task'[p] = task[p] /\ Others(p)
    <2>1. "manifest" \in Labels
      BY DEF Labels
    <2> QED
      BY <1>1, <1>3, <2>1, MoveFacts
  <1>6. Types'
    BY <1>1, <1>3, <1>4, <1>5 DEF Types, TypeOK
  <1>7. \A g \in Gen : /\ gens'[g].obs = gens[g].obs /\ gens'[g].cutoff = gens[g].cutoff
                       /\ Readable(g)' <=> Readable(g)
                       /\ g # n => gens'[g] = gens[g]
    BY <1>2, <1>4 DEF Readable
  <1>8. Cutoff' = Cutoff /\ Current' = Current
    BY <1>1, <1>3, <1>7, Fields DEF Cutoff, Current
  <1>9. Files'
    BY <1>1, <1>2, <1>3, <1>4, <1>7 DEF Files, Readable
  <1>10. GoodGens'
    BY <1>1, <1>3, <1>7, <1>8 DEF GoodGens, Good
  <1>11. Stays
    BY <1>1, <1>2, <1>3, <1>4, Fields DEF Stays, Readable
  <1>12. Plan(pc[p], task[p])'
    BY <1>1, <1>3, <1>5 DEF Plan, Locked, Planning
  <1>13. Newest(n)'
    BY <1>2, <1>5, <1>7 DEF Newest, Valid
  <1>14. Written(pc[p], task[p])' /\ Keeps(pc[p], task[p])'
    BY <1>2, <1>5, <1>13 DEF Written, Keeps
  <1>15. Coming(pc[p], task[p]) = task[p].draft /\ Coming(pc[p], task[p])' = task[p].draft
    BY <1>1, <1>4, <1>5 DEF Coming
  <1>16. Safe(pc[p], task[p])'
    BY <1>1, <1>3, <1>5, <1>8, <1>15 DEF Safe, Good
  <1>17. Process(p)'
    BY <1>1, <1>3, <1>5, <1>12, <1>14, <1>16 DEF Process, Holds, Locked
  <1> QED
    BY <1>1, <1>3, <1>5, <1>6, <1>9, <1>10, <1>11, <1>17, LockedStep DEF Locked

LEMMA DeleteStep ==
    ASSUME Inv, NEW p \in Procs, Delete(p)
    PROVE  Inv'
  <1>1. /\ Types /\ Files /\ GoodGens /\ Plan(pc[p], task[p]) /\ Written(pc[p], task[p])
        /\ Safe(pc[p], task[p]) /\ evidence = p /\ pc[p] = "delete" /\ task[p] \in Tasks
        /\ task[p].target <= MaxGen
    BY OwnFacts DEF Delete, At, Locked
  <1>2. CASE task[p].doomed = {}
    <2>1. Leave(p) /\ UNCHANGED day /\ UNCHANGED store /\ UNCHANGED overlay
          /\ damaged' = damaged /\ left' = left
      BY <1>2 DEF Delete
    <2> QED
      BY <2>1, LeaveStep
  <1>3. CASE task[p].doomed # {}
    <2>1. PICK r \in task[p].doomed :
            /\ results' = results \ {r}
            /\ Goto(p, "delete", [task[p] EXCEPT !.doomed = @ \ {r}])
            /\ UNCHANGED <<made, born, locks>>
      BY <1>3 DEF Delete
    <2> DEFINE t == [task[p] EXCEPT !.doomed = @ \ {r}]
    <2>2. /\ t \in Tasks /\ t.target = task[p].target /\ t.draft = task[p].draft
          /\ t.doomed = task[p].doomed \ {r}
      BY <1>1 DEF Tasks
    <2>3. /\ pc' = [pc EXCEPT ![p] = "delete"] /\ task' = [task EXCEPT ![p] = t]
          /\ UNCHANGED <<day, made, born, gens, last, manifest, evidence, claim, damaged, left>>
      BY <1>3, <2>1 DEF Delete, Goto, overlay, locks
    <2> HIDE DEF t
    <2>4. /\ pc' \in [Procs -> Labels] /\ task' \in [Procs -> Tasks]
          /\ \A q \in Procs : task'[q].target <= MaxGen
          /\ pc'[p] = "delete" /\ task'[p] = t /\ Others(p)
      <3>1. "delete" \in Labels
        BY DEF Labels
      <3> QED
        BY <1>1, <2>2, <2>3, <3>1, MoveFacts
    <2>5. Types'
      BY <1>1, <2>1, <2>3, <2>4 DEF Types, TypeOK
    <2>6. Cutoff' = Cutoff /\ Current' = Current /\ r \notin Current
      BY <1>1, <2>3 DEF Cutoff, Current, Safe
    <2>7. Files'
      BY <1>1, <2>3 DEF Files
    <2>8. GoodGens'
      <3> SUFFICES ASSUME ~damaged, NEW g \in Gen, Readable(g), g >= manifest
                   PROVE  Good(gens[g])'
        BY <2>3 DEF GoodGens, Readable
      <3>1. Present # {} /\ manifest = last
        BY <1>1 DEF Readable, Present, Written
      <3>2. g = manifest /\ g # 0
        BY <1>1, <3>1, Fields DEF Files, Readable, Gen
      <3>3. Good(gens[g]) /\ r \notin gens[g].obs
        BY <1>1, <2>6, <3>2 DEF GoodGens, Current
      <3> QED
        BY <2>1, <2>3, <2>6, <3>3 DEF Good
    <2>9. Stays
      BY <1>1, <2>3, Fields DEF Stays
    <2>10. Plan(pc[p], task[p])'
      BY <1>1, <2>2, <2>3, <2>4 DEF Plan, Locked, Planning
    <2>11. Written(pc[p], task[p])' /\ Keeps(pc[p], task[p])'
      BY <1>1, <2>3, <2>4 DEF Written, Keeps, Present
    <2>12. Safe(pc[p], task[p])'
      BY <1>1, <2>2, <2>4, <2>6 DEF Safe
    <2>13. Process(p)'
      BY <1>1, <2>3, <2>4, <2>10, <2>11, <2>12 DEF Process, Holds, Locked
    <2> QED
      BY <1>1, <2>3, <2>4, <2>5, <2>7, <2>8, <2>9, <2>13, LockedStep DEF Locked
  <1> QED
    BY <1>2, <1>3

-----------------------------------------------------------------------------
(* The environment                                                         *)

LEMMA NobodyLocked ==
    ASSUME Inv, \A q \in Procs : pc[q] \notin Locked, UNCHANGED <<pc, task, evidence>>,
           Stays, Types', Files', GoodGens'
    PROVE  Inv'
  <1>1. ASSUME NEW q \in Procs PROVE Process(q)'
    <2>1. Plan(pc[q], task[q]) /\ Types /\ last' \in Nat /\ evidence' # q
      BY NotLocked, Fields DEF Inv, Process, Types, TypeOK
    <2>2. Plan(pc[q], task[q])'
      BY <2>1, PlanKept
    <2> QED
      BY <2>1, <2>2, Bystander
  <1> QED
    BY <1>1 DEF Inv

LEMMA DamageStep ==
    ASSUME Inv, Damage
    PROVE  Inv' /\ Current' = Current
  <1>1. Types /\ Files /\ manifest \in Gen /\ gens[manifest].state \in {"whole", "legacy"}
    BY DEF Inv, Damage, Readable
  <1>2. /\ gens' = [gens EXCEPT ![manifest].state = "bad"] /\ damaged' = TRUE
        /\ UNCHANGED <<day, made, results, born, last, manifest, evidence, claim, pc, task, left>>
    BY DEF Damage, store, locks
  <1>3. gens[manifest] \in Generations /\ gens \in [Gen -> Generations]
    BY <1>1 DEF Types, TypeOK
  <1> DEFINE file == [gens[manifest] EXCEPT !.state = "bad"]
  <1>4. file \in Generations /\ file.state = "bad" /\ file.obs = gens[manifest].obs
    BY <1>3 DEF Generations
  <1>5. gens' = [gens EXCEPT ![manifest] = file]
    BY <1>1, <1>2, <1>3
  <1> HIDE DEF file
  <1>6. /\ gens'[manifest] = file /\ \A g \in Gen \ {manifest} : gens'[g] = gens[g]
        /\ gens' \in [Gen -> Generations]
    BY <1>1, <1>3, <1>4, <1>5
  <1>7. Types'
    BY <1>1, <1>2, <1>6 DEF Types, TypeOK
  <1>8. Files'
    BY <1>1, <1>2, <1>4, <1>6 DEF Files
  <1>9. GoodGens'
    BY <1>2 DEF GoodGens
  <1>10. Stays
    <2>1. last <= last' /\ made \subseteq made'
      BY <1>1, <1>2, Fields
    <2> SUFFICES ASSUME NEW g \in Gen, gens[g].state # "data"
                 PROVE  \/ gens'[g].state = "absent"
                        \/ /\ gens[g].state # "absent" /\ gens'[g].state # "data"
                           /\ gens'[g].obs = gens[g].obs
      BY <2>1 DEF Stays
    <2>2. CASE g = manifest
      BY <1>1, <1>4, <1>6, <2>2
    <2>3. CASE g # manifest
      BY <1>6, <2>3
    <2> QED
      BY <2>2, <2>3
  <1>11. \A q \in Procs : pc[q] \notin Locked
    BY OverlayAssumption DEF Damage, Inv, Process, Holds
  <1>12. Current' = Current
    BY <1>2, <1>4, <1>6 DEF Current
  <1> QED
    BY <1>2, <1>7, <1>8, <1>9, <1>10, <1>11, <1>12, NobodyLocked

LEMMA UpgradeStep ==
    ASSUME Inv, Upgrade
    PROVE  Inv' /\ Current' = Current
  <1>1. Types /\ Files /\ GoodGens
    BY DEF Inv
  <1>2. /\ gens' = [g \in Gen |-> [gens[g] EXCEPT !.drift = @ \/ gens[g].obs # {}]]
        /\ UNCHANGED <<day, made, results, born, last, manifest, evidence, claim, pc, task, damaged>>
        /\ left' \in 0..MaxOps
    BY <1>1, OverlayAssumption DEF Upgrade, store, locks, Types, TypeOK
  <1>3. \A g \in Gen : gens[g] \in Generations
    BY <1>1 DEF Types, TypeOK
  <1>4. \A g \in Gen : /\ gens'[g].state = gens[g].state /\ gens'[g].obs = gens[g].obs
                       /\ gens'[g].cutoff = gens[g].cutoff /\ gens'[g] \in Generations
    <2> SUFFICES ASSUME NEW g \in Gen
                 PROVE  /\ gens'[g].state = gens[g].state /\ gens'[g].obs = gens[g].obs
                        /\ gens'[g].cutoff = gens[g].cutoff /\ gens'[g] \in Generations
      OBVIOUS
    <2>1. PICK b \in BOOLEAN : b = (gens[g].drift \/ gens[g].obs # {})
      BY <1>3 DEF Generations
    <2>2. gens'[g] = [gens[g] EXCEPT !.drift = b]
      BY <1>2, <2>1
    <2> QED
      BY <1>3, <2>2 DEF Generations
  <1>5. gens' \in [Gen -> Generations]
    BY <1>2, <1>4
  <1>6. Types'
    BY <1>1, <1>2, <1>5 DEF Types, TypeOK
  <1>7. Cutoff' = Cutoff /\ Current' = Current
    BY <1>1, <1>2, <1>4, Fields DEF Cutoff, Current
  <1>8. Files'
    BY <1>1, <1>2, <1>4, Fields DEF Files
  <1>9. GoodGens'
    BY <1>1, <1>2, <1>4, <1>7 DEF GoodGens, Good, Readable
  <1>10. Stays
    <2>1. last <= last' /\ made \subseteq made'
      BY <1>1, <1>2, Fields
    <2> QED
      BY <1>4, <2>1 DEF Stays
  <1>11. \A q \in Procs : pc[q] \notin Locked
    BY DEF Upgrade, At, Locked
  <1> QED
    BY <1>2, <1>6, <1>7, <1>8, <1>9, <1>10, <1>11, NobodyLocked

-----------------------------------------------------------------------------
(* All steps                                                               *)

LEMMA Initial == Init => Inv
  <1> SUFFICES ASSUME Init PROVE Inv
    OBVIOUS
  <1>1. /\ day = 0 /\ made = Hunts /\ results = Hunts /\ born = [r \in Runs |-> 0]
        /\ evidence = NoOne /\ claim = NoOne
        /\ pc = [p \in Procs |-> "idle"] /\ task = [p \in Procs |-> NoTask]
        /\ damaged = FALSE /\ left = MaxOps
    BY DEF Init
  <1>2. MaxGen \in Nat \ {0} /\ MaxOps \in Nat /\ 0 \in Day /\ 1 \in Gen
    BY OverlayAssumption DEF Day, Gen
  <1> DEFINE old == [Absent EXCEPT !.state = "legacy", !.obs = Hunts]
  <1>3. /\ old \in Generations /\ old.state = "legacy" /\ old.obs = Hunts /\ old.cutoff = 0
    BY EmptyTask DEF Generations, Absent, Runs
  <1>4. Absent.state = "absent" /\ Absent.obs = {}
    BY DEF Absent
  <1>5. /\ last \in Nat /\ last <= MaxGen /\ manifest = last /\ (last = 0 \/ last = 1)
        /\ gens \in [Gen -> Generations]
        /\ \A g \in Gen : gens[g] = Absent \/ (gens[g] = old /\ g = 1 /\ last = 1)
        /\ last = 1 => gens[1] = old
    <2>1. CASE NoOverlay
      BY <1>2, <2>1, EmptyTask DEF NoOverlay
    <2>2. CASE LegacyOverlay
      BY <1>2, <1>3, <2>2, EmptyTask DEF LegacyOverlay
    <2> QED
      BY <2>1, <2>2 DEF Init
  <1> HIDE DEF old
  <1>6. NoTask.target = 0 /\ NoTask.doomed = {} /\ NoTask.draft.obs = {}
    BY DEF NoTask, Absent
  <1>7. Types
    <2>1. pc \in [Procs -> Labels] /\ task \in [Procs -> Tasks]
      BY <1>1, EmptyTask DEF Labels
    <2>2. made \subseteq Runs /\ results \subseteq made /\ born \in [Runs -> Day] /\ day \in Day
      BY <1>1, <1>2 DEF Runs
    <2>3. last \in 0..MaxGen /\ manifest \in 0..MaxGen /\ left \in 0..MaxOps
      BY <1>1, <1>2, <1>5
    <2>4. \A p \in Procs : task[p].target <= MaxGen
      BY <1>1, <1>2, <1>6
    <2>5. evidence \in Procs \cup {NoOne} /\ claim \in Procs \cup {NoOne} /\ damaged \in BOOLEAN
      BY <1>1
    <2> QED
      BY <1>5, <2>1, <2>2, <2>3, <2>4, <2>5 DEF Types, TypeOK
  <1>8. Files
    BY <1>1, <1>3, <1>4, <1>5 DEF Files
  <1>9. GoodGens
    <2>1. \A g \in Gen : Readable(g) => gens[g] = old /\ g = 1 /\ last = 1
      BY <1>4, <1>5 DEF Readable
    <2>2. Cutoff = 0
      BY <1>3, <1>5 DEF Cutoff
    <2>3. Hunts \subseteq Runs
      BY DEF Runs
    <2> QED
      BY <1>1, <1>3, <2>1, <2>2, <2>3 DEF GoodGens, Good
  <1>10. ASSUME NEW p \in Procs PROVE Process(p)
    BY <1>1, <1>6, OverlayAssumption
       DEF Process, Holds, Plan, Written, Keeps, Safe, Locked, Planning
  <1> QED
    BY <1>7, <1>8, <1>9, <1>10 DEF Inv

LEMMA NextStep == Inv /\ [Next]_vars => Inv'
  <1> SUFFICES ASSUME Inv, [Next]_vars PROVE Inv'
    OBVIOUS
  <1>1. CASE UNCHANGED vars
    BY <1>1 DEF vars, store, overlay, locks, Inv, Types, TypeOK, Files, GoodGens, Good, Process,
                Holds, Plan, Written, Keeps, Safe, Coming, Newest, Valid, Readable, Present,
                Current, Cutoff, Retired
  <1>2. ASSUME NEW p \in Procs, Step(p) PROVE Inv'
    BY <1>2, OpenStep, LoadStep, BeginPublishStep, PutDataStep, PutMetaStep, PutManifestStep,
       CleanStep, ProbeStep, RecoverStep, EndCollectStep, DeleteStep, BindStep DEF Step
  <1>3. ASSUME NEW p \in Procs,
               \/ Collect(p) \/ Observe(p) \/ PruneEvidence(p) \/ Prune(p) \/ Repair(p) \/ Stop(p)
        PROVE  Inv'
    BY <1>3, CollectStep, ObserveStep, PruneEvidenceStep, PruneStep, RepairStep, StopStep
  <1> QED
    BY <1>1, <1>2, <1>3, DayStep, UpgradeStep, DamageStep DEF Next

THEOREM Invariant == Spec => []Inv
  BY Initial, NextStep, PTL DEF Spec

\* TypeOK: no generation is written past the last number, and what the manifest
\* names has been made.
THEOREM TypeCorrect == Spec => []TypeOK
  <1>1. Inv => TypeOK
    BY DEF Inv, Types
  <1> QED
    BY <1>1, Invariant, PTL

\* CommittedIsReadable, of publish_tenant_overlay, its retention and repair: the
\* manifest never names a generation of which a file is missing.
THEOREM CommitIsWhole == Spec => []CommittedIsReadable
  <1>1. Inv => CommittedIsReadable
    BY DEF Inv, Files, CommittedIsReadable
  <1> QED
    BY <1>1, Invariant, PTL

\* ObservationsHaveEvidence, of results prune against publication and repair.
THEOREM EvidenceStays == Spec => []ObservationsHaveEvidence
  <1>1. Inv => ObservationsHaveEvidence
    <2> SUFFICES ASSUME Inv, ~damaged PROVE Current \subseteq results
      BY DEF ObservationsHaveEvidence
    <2>1. CASE manifest = 0
      BY <2>1 DEF Current
    <2>2. CASE manifest # 0
      <3>1. manifest \in Gen /\ Readable(manifest) /\ manifest >= manifest
        BY <2>2, Fields DEF Inv, Files, Readable
      <3> QED
        BY <2>2, <3>1 DEF Inv, GoodGens, Good, Current
    <2> QED
      BY <2>1, <2>2
  <1> QED
    BY <1>1, Invariant, PTL

\* Only the last rename of a publication or a repair changes what is current.
LEMMA OnlyCommits ==
    ASSUME Inv, [Next]_vars, \A p \in Procs : ~PutManifest(p)
    PROVE  Current' = Current
  <1>1. Types /\ Files /\ manifest \in Nat /\ last \in Nat
    BY Fields DEF Inv
  <1>2. CASE UNCHANGED overlay
    BY <1>2 DEF overlay, Current
  <1>3. ASSUME NEW p \in Procs, PutData(p) PROVE Current' = Current
    <2>1. gens' = [gens EXCEPT ![last + 1] = [task[p].draft EXCEPT !.state = "data"]]
          /\ manifest' = manifest
      BY <1>3 DEF PutData
    <2>2. manifest # 0 => manifest \in Gen /\ manifest <= last
      BY <1>1, Fields DEF Files
    <2>3. manifest' = manifest /\ (manifest # 0 => gens'[manifest] = gens[manifest])
      BY <1>1, <2>1, <2>2 DEF Types, TypeOK
    <2> QED
      BY <2>3 DEF Current
  <1>4. ASSUME NEW p \in Procs, PutMeta(p) PROVE Current' = Current
    <2>1. gens' = [gens EXCEPT ![task[p].target] = task[p].draft] /\ manifest' = manifest
      BY <1>4 DEF PutMeta
    <2>2. gens[task[p].target].state = "data"
      BY <1>4 DEF PutMeta, At, Inv, Process, Written
    <2>3. manifest # 0 => manifest \in Gen /\ manifest # task[p].target
      BY <1>1, <2>2, Fields DEF Files
    <2>4. manifest' = manifest /\ (manifest # 0 => gens'[manifest] = gens[manifest])
      BY <1>1, <2>1, <2>3 DEF Types, TypeOK
    <2> QED
      BY <2>4 DEF Current
  <1>5. ASSUME NEW p \in Procs, Bind(p) PROVE Current' = Current
    <2>1. gens' = [gens EXCEPT ![task[p].target] = task[p].draft] /\ manifest' = manifest
      BY <1>5 DEF Bind
    <2>2. task[p].target \in Gen /\ task[p].draft.obs = gens[task[p].target].obs
      BY <1>5 DEF Bind, At, Inv, Process, Written, Newest, Valid
    <2>3. manifest # 0 => manifest \in Gen
      BY <1>1, Fields
    <2>4. manifest' = manifest /\ (manifest # 0 => gens'[manifest].obs = gens[manifest].obs)
      BY <1>1, <2>1, <2>2, <2>3 DEF Types, TypeOK
    <2> QED
      BY <2>4 DEF Current
  <1>6. ASSUME NEW p \in Procs, Clean(p) PROVE Current' = Current
    <2>1. PICK gone \in SUBSET Superseded :
            gens' = [g \in Gen |-> IF g \in gone THEN Absent ELSE gens[g]]
      BY <1>6 DEF Clean
    <2>2. manifest = last /\ (manifest # 0 => manifest \in Gen) /\ manifest' = manifest
      BY <1>1, <1>6, Fields DEF Clean, At, Inv, Process, Written
    <2>3. Newer(manifest) = {}
      BY <1>1, <2>2 DEF Newer, Present, Files, Gen
    <2>4. Cardinality(Newer(manifest)) = 0
      BY <2>3, FS_EmptySet
    <2>5. manifest \notin gone
      BY <2>1, <2>4, OverlayAssumption DEF Superseded
    <2> QED
      BY <2>1, <2>2, <2>5 DEF Current
  <1>7. ASSUME NEW p \in Procs, Step(p) PROVE UNCHANGED overlay \/ Current' = Current
    BY <1>3, <1>4, <1>5, <1>6, <1>7
       DEF Step, Open, Load, BeginPublish, Probe, Recover, EndCollect, Delete
  <1>8. ASSUME NEW p \in Procs,
               \/ Collect(p) \/ Observe(p) \/ PruneEvidence(p) \/ Prune(p) \/ Repair(p) \/ Stop(p)
        PROVE  UNCHANGED overlay
    BY <1>8 DEF Collect, Observe, PruneEvidence, Prune, Repair, Stop
  <1>9. UNCHANGED vars \/ DayPasses => UNCHANGED overlay
    BY DEF vars, DayPasses, overlay
  <1> QED
    BY <1>2, <1>7, <1>8, <1>9, DamageStep, UpgradeStep DEF Next

\* NothingUnseenIsDropped, of publish_tenant_overlay and its expected_generation:
\* no publication drops an observation another command added since it read.
THEOREM NothingUnseenDropped == Spec => NothingUnseenIsDropped
  <1>1. Inv /\ [Next]_vars =>
          [\A r \in Current \ Current' :
             \/ Retired(r, Cutoff')
             \/ \E p \in Procs : At(p, "manifest")
                                 /\ (task[p].kind = "repair" \/ r \in task[p].seen)]_vars
    <2> SUFFICES ASSUME Inv, [Next]_vars, NEW r \in Current \ Current'
                 PROVE  \/ Retired(r, Cutoff')
                        \/ \E p \in Procs : At(p, "manifest")
                                            /\ (task[p].kind = "repair" \/ r \in task[p].seen)
      OBVIOUS
    <2>1. PICK p \in Procs : PutManifest(p)
      BY OnlyCommits
    <2>2. At(p, "manifest") /\ Keeps(pc[p], task[p]) /\ Written(pc[p], task[p])
          /\ pc[p] = "manifest"
      BY <2>1 DEF PutManifest, At, Inv, Process
    <2>3. manifest' = task[p].target /\ manifest' # 0 /\ gens' = gens
      BY <2>1, <2>2 DEF PutManifest, Written, Newest, Valid, Gen
    <2>4. Current' = gens[task[p].target].obs /\ Cutoff' = gens[task[p].target].cutoff
      BY <2>3 DEF Current, Cutoff
    <2>5. Coming(pc[p], task[p]) = gens[task[p].target]
      BY <2>2 DEF Coming
    <2> QED
      BY <2>2, <2>4, <2>5 DEF Keeps
  <1> QED
    BY <1>1, Invariant, PTL DEF Spec, NothingUnseenIsDropped

\* RetiredStaysOut, of discover_local and publish_tenant_overlay: what a pruning
\* retired does not come back by a collection that had mined it before, as long as its
\* cutoff is in force (a repair that migrates the overlay drops it).
THEOREM RetiredStaysRetired == Spec => RetiredStaysOut
  <1>1. Inv /\ [Next]_vars =>
          [\A r \in Automatic \cap (Current' \ Current) : damaged \/ born[r] >= Cutoff]_vars
    <2> SUFFICES ASSUME Inv, [Next]_vars, NEW r \in Automatic \cap (Current' \ Current), ~damaged
                 PROVE  born[r] >= Cutoff
      OBVIOUS
    <2>1. PICK p \in Procs : PutManifest(p)
      BY OnlyCommits
    <2>2. Safe(pc[p], task[p]) /\ Written(pc[p], task[p]) /\ pc[p] = "manifest"
      BY <2>1 DEF PutManifest, At, Inv, Process
    <2>3. manifest' = task[p].target /\ manifest' # 0 /\ gens' = gens
      BY <2>1, <2>2 DEF PutManifest, Written, Newest, Valid, Gen
    <2>4. Current' = gens[task[p].target].obs
      BY <2>3 DEF Current
    <2>5. Good(gens[task[p].target])
      BY <2>2 DEF Safe, Coming
    <2> QED
      BY <2>4, <2>5 DEF Good
  <1> QED
    BY <1>1, Invariant, PTL DEF Spec, RetiredStaysOut

-----------------------------------------------------------------------------
(* Least numbers.                                                          *)

Smaller == {pair \in Nat \X Nat : pair[1] < pair[2]}

\* A set of numbers has a least one: what is claimed of every number follows from what the
\* least exception would be.
LEMMA LeastOne ==
    ASSUME NEW S, S \subseteq Nat, S # {}
    PROVE  \E n \in S : \A m \in S : n <= m
  <1>1. IsWellFoundedOn(Smaller, Nat)
    BY NatLessThanWellFounded DEF OpToRel, Smaller
  <1>2. PICK n \in S : \A m \in S : <<m, n>> \notin Smaller
    BY <1>1, WFMin
  <1>3. ASSUME NEW m \in S
        PROVE  n <= m
    <2>1. <<m, n>> \in Nat \X Nat /\ <<m, n>>[1] = m /\ <<m, n>>[2] = n
      OBVIOUS
    <2>2. ~(<<m, n>>[1] < <<m, n>>[2])
      BY <1>2, <2>1 DEF Smaller
    <2> QED
      BY <2>1, <2>2
  <1> QED
    BY <1>3

-----------------------------------------------------------------------------
(* The order of keys.                                                      *)

\* Tuples of numbers are compared by an irreflexive and transitive order, which looks no further
\* than the first difference.
LEMMA NotBeforeItself ==
    ASSUME NEW a \in Seq(Nat)
    PROVE  ~Before(a, a)
  BY DEF Before

LEMMA BeforeBefore ==
    ASSUME NEW a \in Seq(Nat), NEW b \in Seq(Nat), NEW c \in Seq(Nat), Before(a, b), Before(b, c)
    PROVE  Before(a, c)
  <1>1. PICK n \in DOMAIN a \cap DOMAIN b : a[n] < b[n] /\ \A m \in 1..(n - 1) : a[m] = b[m]
    BY Zenon DEF Before
  <1>2. PICK k \in DOMAIN b \cap DOMAIN c : b[k] < c[k] /\ \A m \in 1..(k - 1) : b[m] = c[m]
    BY Zenon DEF Before
  <1>3. n \in 1..Len(a) /\ n \in 1..Len(b) /\ k \in 1..Len(b) /\ k \in 1..Len(c)
    BY LenProperties
  <1>4. a[n] \in Nat /\ b[n] \in Nat /\ b[k] \in Nat /\ c[k] \in Nat
    BY <1>3, ElementOfSeq
  <1>5. CASE n < k
    <2>0. n \in 1..(k - 1) /\ n \in 1..Len(c)
      <3>1. /\ n \in Nat /\ k \in Nat /\ Len(c) \in Nat /\ n >= 1 /\ k <= Len(c)
        BY <1>3
      <3> QED
        BY <1>5, <3>1
    <2>1. b[n] = c[n]
      BY <1>2, <2>0
    <2>3. n \in DOMAIN a \cap DOMAIN c
      BY <1>3, <2>0
    <2>2. \A m \in 1..(n - 1) : a[m] = c[m]
      BY <1>1, <1>2, <1>3, <1>5
    <2> QED
      BY <1>1, <2>1, <2>2, <2>3 DEF Before
  <1>6. CASE ~(n < k)
    <2>1. k \in DOMAIN a \cap DOMAIN c
      BY <1>3, <1>6
    <2>2. \A m \in 1..(k - 1) : a[m] = c[m]
      BY <1>1, <1>2, <1>3, <1>6
    <2>3. a[k] < c[k]
      <3>1. CASE k = n
        BY <1>1, <1>2, <1>4, <3>1
      <3>2. CASE k # n
        <4>1. k \in 1..(n - 1)
          BY <1>3, <1>6, <3>2
        <4> QED
          BY <1>1, <1>2, <4>1
      <3> QED
        BY <3>1, <3>2
    <2> QED
      BY <2>1, <2>2, <2>3 DEF Before
  <1> QED
    BY <1>5, <1>6

LEMMA BeforeAnyEnd ==
    ASSUME NEW a \in Seq(Nat), NEW b \in Seq(Nat), NEW x \in Seq(Nat), NEW y \in Seq(Nat),
           Before(a, b)
    PROVE  Before(a \o x, b \o y)
  <1>1. PICK n \in DOMAIN a \cap DOMAIN b : a[n] < b[n] /\ \A m \in 1..(n - 1) : a[m] = b[m]
    BY DEF Before
  <1>2. n \in 1..Len(a) /\ n \in 1..Len(b)
    OBVIOUS
  <1>3. \A m \in 1..n : (a \o x)[m] = a[m] /\ (b \o y)[m] = b[m]
    BY <1>2
  <1>4. n \in DOMAIN (a \o x) \cap DOMAIN (b \o y)
    BY <1>2
  <1>5. \A m \in 1..(n - 1) : (a \o x)[m] = (b \o y)[m]
    <2>1. n \in Nat
      BY <1>2
    <2>2. \A m \in 1..(n - 1) : m \in 1..n
      BY <2>1
    <2> QED
      BY <1>1, <1>3, <2>2
  <1>6. (a \o x)[n] < (b \o y)[n]
    BY <1>1, <1>2, <1>3
  <1> QED
    BY <1>4, <1>5, <1>6 DEF Before

-----------------------------------------------------------------------------
(* Ranks.                                                                  *)

Ranked == [1..9 -> Nat]

LEMMA Weights ==
    ASSUME NEW r \in Relationships
    PROVE  /\ EvidenceRank(r) \in Nat /\ RelationWeight(r) \in Nat /\ ConfidencePenalty(r) \in Nat
           /\ r.id \in Nat
  BY DEF EvidenceRank, RelationWeight, ConfidencePenalty, Relationships

LEMMA RankedAreKeys == Ranked \subseteq Seq(Nat)
  BY SeqDef DEF Ranked

LEMMA NoRankRanked == NoRank \in Ranked
  BY DEF NoRank, Ranked

\* One more step ranks a path lower: the maxima do not fall, and the number of hops grows.
LEMMA AddedIsLater ==
    ASSUME NEW rank \in Ranked, NEW s, s.by \in Relationships
    PROVE  Added(rank, s) \in Ranked /\ Before(rank, Added(rank, s))
  <1> DEFINE a == Added(rank, s)
  <1>1. \A n \in 1..9 : rank[n] \in Nat
    BY DEF Ranked
  <1>2. /\ EvidenceRank(s.by) \in Nat /\ RelationWeight(s.by) \in Nat
        /\ ConfidencePenalty(s.by) \in Nat
    BY Weights
  <1>3. \A b : Bit(b) \in Nat
    BY DEF Bit
  <1>4. /\ a \in Ranked
        /\ a[1] = Most(rank[1], EvidenceRank(s.by)) /\ a[2] = Most(rank[2], RelationWeight(s.by))
        /\ a[3] = rank[3] + RelationWeight(s.by) /\ a[4] = rank[4] + 1
    <2> DEFINE x1 == Most(rank[1], EvidenceRank(s.by))
               x2 == Most(rank[2], RelationWeight(s.by))
               x3 == rank[3] + RelationWeight(s.by)
               x4 == rank[4] + 1
               x5 == rank[5] + Bit(s.by.lossy)
               x6 == rank[6] + Bit(s.by.cardinality \in {"many-to-many", "unknown"})
               x7 == rank[7] + Bit(Blocked(s))
               x8 == rank[8] + ConfidencePenalty(s.by)
               x9 == rank[9] + Bit(~s.by.timed)
    <2>1. x1 \in Nat /\ x2 \in Nat
      BY <1>1, <1>2 DEF Most
    <2>2. x3 \in Nat /\ x4 \in Nat /\ x8 \in Nat
      BY <1>1, <1>2
    <2>3. x5 \in Nat /\ x6 \in Nat /\ x7 \in Nat /\ x9 \in Nat
      BY <1>1, <1>3
    <2>4. a = <<x1, x2, x3, x4, x5, x6, x7, x8, x9>>
      BY DEF Added
    <2> HIDE DEF a, x1, x2, x3, x4, x5, x6, x7, x8, x9
    <2>5. a \in Ranked /\ a[1] = x1 /\ a[2] = x2 /\ a[3] = x3 /\ a[4] = x4
      BY <2>1, <2>2, <2>3, <2>4 DEF Ranked
    <2> QED
      BY <2>5 DEF x1, x2, x3, x4
  <1> HIDE DEF a
  <1>5. a[1] >= rank[1] /\ a[2] >= rank[2] /\ a[3] >= rank[3] /\ a[4] > rank[4]
    BY <1>1, <1>2, <1>4 DEF Most
  <1>6. \A n \in 1..4 : a[n] \in Nat /\ rank[n] \in Nat /\ n \in DOMAIN rank \cap DOMAIN a
    BY <1>4 DEF Ranked
  <1>7. \E n \in 1..4 : rank[n] < a[n] /\ \A m \in 1..(n - 1) : rank[m] = a[m]
    <2>1. CASE rank[1] < a[1]
      BY <2>1
    <2>2. CASE rank[1] = a[1] /\ rank[2] < a[2]
      BY <2>2
    <2>3. CASE rank[1] = a[1] /\ rank[2] = a[2] /\ rank[3] < a[3]
      <3>1. \A m \in 1..2 : rank[m] = a[m]
        BY <2>3
      <3> QED
        BY <2>3, <3>1
    <2>4. CASE rank[1] = a[1] /\ rank[2] = a[2] /\ rank[3] = a[3]
      <3>1. \A m \in 1..3 : rank[m] = a[m]
        BY <2>4
      <3> QED
        BY <1>5, <3>1
    <2> QED
      BY <1>5, <1>6, <2>1, <2>2, <2>3, <2>4
  <1> QED
    BY <1>4, <1>6, <1>7 DEF Before, a

\* The ranks of the beginnings of a sequence of steps.
Ranks(w) ==
    LET rank[n \in 0..Len(w)] == IF n = 0 THEN NoRank ELSE Added(rank[n - 1], w[n]) IN rank
Rank(w) == Ranks(w)[Len(w)]

LEMMA RanksAre ==
    ASSUME NEW w, Len(w) \in Nat
    PROVE  Ranks(w) = [n \in 0..Len(w) |-> IF n = 0 THEN NoRank ELSE Added(Ranks(w)[n - 1], w[n])]
  <1> DEFINE Ranking(f, k) == f = [n \in 0..k |-> IF n = 0 THEN NoRank ELSE Added(f[n - 1], w[n])]
             S == {k \in 0..Len(w) : ~\E f : Ranking(f, k)}
  <1>1. S = {}
    <2> SUFFICES ASSUME S # {} PROVE FALSE
      OBVIOUS
    <2>1. PICK k \in S : \A m \in S : k <= m
      <3>1. S \subseteq Nat
        OBVIOUS
      <3> HIDE DEF S
      <3> QED
        BY <3>1, LeastOne
    <2>2. k # 0
      <3>1. Ranking([n \in 0..0 |-> NoRank], 0)
        OBVIOUS
      <3> QED
        BY <2>1, <3>1
    <2>3. PICK f : Ranking(f, k - 1)
      <3>1. k \in Nat /\ k - 1 \in 0..Len(w) /\ ~(k <= k - 1)
        BY <2>1, <2>2
      <3>2. k - 1 \notin S
        BY <2>1, <3>1
      <3> HIDE DEF Ranking
      <3> QED
        BY <3>1, <3>2
    <2> DEFINE g == [n \in 0..k |-> IF n = k THEN Added(f[k - 1], w[k]) ELSE f[n]]
    <2>4. Ranking(g, k)
      <3>1. ASSUME NEW n \in 0..k
            PROVE  g[n] = IF n = 0 THEN NoRank ELSE Added(g[n - 1], w[n])
        BY <2>1, <2>2, <2>3
      <3> QED
        BY <3>1
    <2> QED
      BY <2>1, <2>4
  <1>2. PICK f : Ranking(f, Len(w))
    BY <1>1
  <1> QED
    BY <1>2 DEF Ranks

\* What begins alike is ranked alike.
LEMMA RanksAgree ==
    ASSUME NEW v, NEW w, Len(v) \in Nat, Len(w) \in Nat, Len(v) <= Len(w),
           \A n \in 1..Len(v) : v[n] = w[n]
    PROVE  \A n \in 0..Len(v) : Ranks(v)[n] = Ranks(w)[n]
  <1> DEFINE S == {n \in 0..Len(v) : Ranks(v)[n] # Ranks(w)[n]}
  <1> SUFFICES ASSUME S # {} PROVE FALSE
    OBVIOUS
  <1>1. PICK n \in S : \A m \in S : n <= m
    <2>1. S \subseteq Nat
      OBVIOUS
    <2> HIDE DEF S
    <2> QED
      BY <2>1, LeastOne
  <1>2. n \in 0..Len(v) /\ n \in 0..Len(w) /\ Ranks(v)[n] # Ranks(w)[n]
    OBVIOUS
  <1>3. CASE n = 0
    <2>1. Ranks(v)[n] = NoRank
      BY <1>2, <1>3, RanksAre
    <2>2. Ranks(w)[n] = NoRank
      BY <1>2, <1>3, RanksAre
    <2> QED
      BY <1>2, <2>1, <2>2
  <1>4. CASE n # 0
    <2>1. n - 1 \in 0..Len(v) /\ n \in 1..Len(v)
      BY <1>2, <1>4
    <2>2. Ranks(v)[n - 1] = Ranks(w)[n - 1] /\ v[n] = w[n]
      BY <1>1, <1>2, <2>1
    <2>3. Ranks(v)[n] = Added(Ranks(v)[n - 1], v[n])
      BY <1>2, <1>4, RanksAre
    <2>4. Ranks(w)[n] = Added(Ranks(w)[n - 1], w[n])
      BY <1>2, <1>4, RanksAre
    <2> QED
      BY <1>2, <2>2, <2>3, <2>4
  <1> QED
    BY <1>3, <1>4

LEMMA RankAppended ==
    ASSUME NEW S, NEW w \in Seq(S), NEW s \in S
    PROVE  Rank(Append(w, s)) = Added(Rank(w), s)
  <1> DEFINE v == Append(w, s)
  <1>1. /\ Len(w) \in Nat /\ Len(v) = Len(w) + 1 /\ v[Len(v)] = s
        /\ \A n \in 1..Len(w) : w[n] = v[n]
    OBVIOUS
  <1> HIDE DEF v
  <1>2. Ranks(w)[Len(w)] = Ranks(v)[Len(w)]
    BY <1>1, RanksAgree
  <1>3. Ranks(v)[Len(v)] = Added(Ranks(v)[Len(w)], v[Len(v)])
    <2>1. Len(v) \in 0..Len(v) /\ Len(v) # 0 /\ Len(v) - 1 = Len(w) /\ Len(v) \in Nat
      BY <1>1
    <2> QED
      BY <2>1, RanksAre
  <1> QED
    BY <1>1, <1>2, <1>3 DEF Rank, v

LEMMA RankOfOne ==
    ASSUME NEW s
    PROVE  Rank(<<s>>) = Added(NoRank, s)
  <1>1. Len(<<s>>) = 1 /\ <<s>>[1] = s
    OBVIOUS
  <1>2. Ranks(<<s>>)[0] = NoRank /\ Ranks(<<s>>)[1] = Added(Ranks(<<s>>)[0], s)
    <2> DEFINE w == <<s>>
    <2>1. w[1] = s /\ Len(w) = 1 /\ 0 \in 0..1 /\ 1 \in 0..1
      BY <1>1
    <2> HIDE DEF w
    <2>2. Ranks(w) = [n \in 0..1 |-> IF n = 0 THEN NoRank ELSE Added(Ranks(w)[n - 1], w[n])]
      BY <2>1, RanksAre
    <2>3. Ranks(w)[0] = NoRank /\ Ranks(w)[1] = Added(Ranks(w)[0], s)
      BY <2>1, <2>2
    <2> QED
      BY <2>3 DEF w
  <1> QED
    BY <1>1, <1>2 DEF Rank

Steps == [from : Interp, to : Interp, by : Relationships]

LEMMA RanksRanked ==
    ASSUME NEW w \in Seq(Steps)
    PROVE  \A n \in 0..Len(w) : Ranks(w)[n] \in Ranked
  <1> DEFINE S == {n \in 0..Len(w) : Ranks(w)[n] \notin Ranked}
  <1> SUFFICES ASSUME S # {} PROVE FALSE
    OBVIOUS
  <1>1. PICK n \in S : \A m \in S : n <= m
    <2>1. S \subseteq Nat
      OBVIOUS
    <2> HIDE DEF S
    <2> QED
      BY <2>1, LeastOne
  <1>2. n \in 0..Len(w) /\ Len(w) \in Nat
    OBVIOUS
  <1>3. n # 0
    <2>1. n = 0 => Ranks(w)[n] = NoRank
      BY <1>2, RanksAre
    <2> QED
      BY <2>1, NoRankRanked
  <1>4. n - 1 \in 0..Len(w) /\ Ranks(w)[n - 1] \in Ranked
    BY <1>1, <1>2, <1>3
  <1>5. Ranks(w)[n] = Added(Ranks(w)[n - 1], w[n])
    BY <1>2, <1>3, RanksAre
  <1>6. w[n] \in Steps
    BY <1>2, <1>3
  <1>7. w[n].by \in Relationships
    BY <1>6 DEF Steps
  <1> QED
    BY <1>4, <1>5, <1>7, AddedIsLater

\* Of two beginnings the shorter is ranked before the longer.
LEMMA RanksGrow ==
    ASSUME NEW w \in Seq(Steps), NEW k \in 0..Len(w)
    PROVE  \A n \in (k + 1)..Len(w) : Before(Ranks(w)[k], Ranks(w)[n])
  <1> DEFINE S == {n \in (k + 1)..Len(w) : ~Before(Ranks(w)[k], Ranks(w)[n])}
  <1> SUFFICES ASSUME S # {} PROVE FALSE
    OBVIOUS
  <1>1. PICK n \in S : \A m \in S : n <= m
    <2>1. S \subseteq Nat
      OBVIOUS
    <2> HIDE DEF S
    <2> QED
      BY <2>1, LeastOne
  <1>2. n \in 1..Len(w) /\ n - 1 \in 0..Len(w) /\ n \in 0..Len(w) /\ n # 0
    OBVIOUS
  <1>3. Ranks(w)[n] = Added(Ranks(w)[n - 1], w[n])
    BY <1>2, RanksAre
  <1>4. w[n].by \in Relationships
    <2>1. w[n] \in Steps
      BY <1>2
    <2> QED
      BY <2>1 DEF Steps
  <1>5. Ranks(w)[k] \in Ranked /\ Ranks(w)[n - 1] \in Ranked /\ Ranks(w)[n] \in Ranked
    BY <1>2, RanksRanked
  <1>6. Before(Ranks(w)[n - 1], Ranks(w)[n])
    BY <1>3, <1>4, <1>5, AddedIsLater
  <1>7. CASE n = k + 1
    BY <1>6, <1>7
  <1>8. CASE n # k + 1
    <2>1. Before(Ranks(w)[k], Ranks(w)[n - 1])
      <3>1. n - 1 \in (k + 1)..Len(w) /\ ~(n <= n - 1)
        BY <1>2, <1>8
      <3> QED
        BY <1>1, <3>1
    <2> QED
      BY <1>5, <1>6, <2>1, RankedAreKeys, BeforeBefore
  <1> QED
    BY <1>7, <1>8

-----------------------------------------------------------------------------
(* Paths and routes.                                                       *)

Given == graph \in Graphs /\ field \in Knowledge /\ options \in Options

\* What the options and the graph are.
LEMMA Known ==
    ASSUME Given
    PROVE  /\ options.depth \in 1..12 /\ options.paths \in Nat \ {0}
           /\ options.expansions \in Nat \ {0} /\ options.candidates \in BOOLEAN
           /\ graph \subseteq Relationships /\ IsFiniteSet(graph)
  BY PathAssumption DEF Given

LEMMA UsableAreSteps ==
    ASSUME Given, NEW c
    PROVE  Usable(c) \subseteq Steps
  <1> SUFFICES ASSUME NEW s \in Usable(c) PROVE s \in Steps
    OBVIOUS
  <1>1. PICK r \in graph : \E d \in Directions(r) : s = Hop(r, d)
    BY DEF Usable
  <1>2. PICK d \in Directions(r) : s = Hop(r, d)
    BY <1>1
  <1>3. r \in Relationships
    BY Known
  <1>4. r.source \in Interp /\ r.target \in Interp
    BY <1>3 DEF Relationships
  <1>5. d[1] \in Interp /\ d[2] \in Interp
    BY <1>4 DEF Directions
  <1> QED
    BY <1>2, <1>3, <1>5 DEF Hop, Steps

NodeAt(w, n) == IF n = 0 THEN w[1].from ELSE w[n].to
Nodes(w) == {NodeAt(w, n) : n \in 0..Len(w)}

\* The beginning of a route, or a route.
Trail(w, c) ==
    /\ w \in Seq(Usable(c)) /\ Len(w) \in 1..options.depth
    /\ w[1].from \in Sources
    /\ \A n \in 1..Len(w) : w[n].from = NodeAt(w, n - 1)
    /\ \A n \in 1..(Len(w) - 1) : w[n].to \notin Targets
    /\ \A n, m \in 0..Len(w) : NodeAt(w, n) = NodeAt(w, m) => n = m

PathOf(w) == [steps |-> w, visited |-> Nodes(w), rank |-> Rank(w)]

LEMMA ChainsAre ==
    ASSUME Given, NEW c, NEW w
    PROVE  w \in Chains(c) <=> w \in Seq(Usable(c)) /\ Len(w) \in 1..options.depth
  <1>1. options.depth \in Nat
    BY Known
  <1>2. ASSUME w \in Chains(c)
        PROVE  w \in Seq(Usable(c)) /\ Len(w) \in 1..options.depth
    <2>1. PICK n \in 1..options.depth : w \in [1..n -> Usable(c)]
      BY <1>2 DEF Chains
    <2>2. n \in Nat
      BY <1>1
    <2>3. w \in Seq(Usable(c))
      BY <2>1, <2>2, SeqDef
    <2>4. Len(w) = n
      BY <2>1, <2>2, <2>3, LenProperties
    <2> QED
      BY <2>3, <2>4
  <1>3. ASSUME w \in Seq(Usable(c)), Len(w) \in 1..options.depth
        PROVE  w \in Chains(c)
    <2>1. w \in [1..Len(w) -> Usable(c)]
      BY <1>3, LenProperties
    <2> QED
      BY <1>3, <2>1 DEF Chains
  <1> QED
    BY <1>2, <1>3

LEMMA RoutesAre ==
    ASSUME Given, NEW c, NEW w
    PROVE  w \in Routes(c) <=> Trail(w, c) /\ w[Len(w)].to \in Targets
  <1>1. IsRoute(w) <=> /\ w[1].from \in Sources
                       /\ \A n \in 1..Len(w) : w[n].from = NodeAt(w, n - 1)
                       /\ \A n \in 1..Len(w) : w[n].to \in Targets <=> n = Len(w)
                       /\ \A n, m \in 0..Len(w) : NodeAt(w, n) = NodeAt(w, m) => n = m
    BY DEF IsRoute, NodeAt
  <1>2. ASSUME Len(w) \in 1..options.depth
        PROVE  (\A n \in 1..Len(w) : w[n].to \in Targets <=> n = Len(w)) <=>
               (\A n \in 1..(Len(w) - 1) : w[n].to \notin Targets) /\ w[Len(w)].to \in Targets
    <2>1. Len(w) \in Nat /\ Len(w) >= 1
      BY <1>2, Known
    <2>2. 1..Len(w) = (1..(Len(w) - 1)) \cup {Len(w)} /\ Len(w) \notin 1..(Len(w) - 1)
      BY <2>1
    <2> QED
      BY <2>2
  <1> QED
    BY <1>1, <1>2, ChainsAre DEF Routes, Trail

LEMMA TrailsAre ==
    ASSUME Given, NEW c, NEW w, Trail(w, c)
    PROVE  /\ w \in Seq(Usable(c)) /\ w \in Seq(Steps) /\ Len(w) \in Nat /\ Len(w) >= 1
           /\ Len(w) <= options.depth
           /\ Last(w) = w[Len(w)] /\ NodeAt(w, Len(w)) = Last(w).to
           /\ \A n \in 1..Len(w) : w[n] \in Usable(c) /\ w[n] \in Steps
  <1>1. w \in Seq(Usable(c)) /\ Len(w) \in 1..options.depth /\ options.depth \in Nat
    BY Known DEF Trail
  <1>2. Len(w) \in Nat /\ Len(w) >= 1 /\ Len(w) <= options.depth
    BY <1>1
  <1>3. w \in Seq(Steps)
    BY <1>1, UsableAreSteps, SeqMonotonic
  <1> QED
    BY <1>1, <1>2, <1>3, UsableAreSteps DEF Last, NodeAt

\* The extension of a path by a usable step to somewhere new is a path, and the search knows it
\* under the steps it took.
LEMMA Longer ==
    ASSUME Given, NEW c, NEW w, Trail(w, c), NEW s \in Usable(c), s.from = Last(w).to,
           s.to \notin Nodes(w), Last(w).to \notin Targets, Len(w) < options.depth
    PROVE  Trail(Append(w, s), c) /\ PathOf(Append(w, s)) = Extended(PathOf(w), s)
  <1> DEFINE v == Append(w, s)
             k == Len(w)
  <1>1. /\ w \in Seq(Usable(c)) /\ k \in Nat /\ k >= 1 /\ Last(w) = w[k]
        /\ NodeAt(w, k) = Last(w).to /\ options.depth \in Nat
    BY TrailsAre, Known
  <1>2. /\ v \in Seq(Usable(c)) /\ Len(v) = k + 1 /\ v[k + 1] = s
        /\ \A n \in 1..k : v[n] = w[n]
    BY <1>1
  <1> HIDE DEF v, k
  <1>3. (\A n \in 0..k : NodeAt(v, n) = NodeAt(w, n)) /\ NodeAt(v, k + 1) = s.to
    <2>1. v[1] = w[1]
      BY <1>1, <1>2
    <2>2. ASSUME NEW n \in 0..k
          PROVE  NodeAt(v, n) = NodeAt(w, n)
      <3>1. n = 0 \/ n \in 1..k
        BY <1>1
      <3> QED
        BY <1>2, <2>1, <3>1 DEF NodeAt
    <2>3. k + 1 # 0
      BY <1>1
    <2> QED
      BY <1>2, <2>2, <2>3 DEF NodeAt
  <1>4. \A n \in 0..k : NodeAt(w, n) \in Nodes(w)
    BY DEF Nodes, k
  <1>5. Nodes(v) = Nodes(w) \cup {s.to}
    <2>1. 0..(k + 1) = (0..k) \cup {k + 1}
      BY <1>1
    <2> QED
      BY <1>2, <1>3, <2>1 DEF Nodes, k
  <1>6. Len(v) \in 1..options.depth
    BY <1>1, <1>2 DEF k
  <1>7. v[1].from \in Sources
    BY <1>1, <1>2 DEF Trail
  <1>8. ASSUME NEW n \in 1..Len(v)
        PROVE  v[n].from = NodeAt(v, n - 1)
    <2>1. CASE n = k + 1
      BY <1>1, <1>2, <1>3, <2>1
    <2>2. CASE n # k + 1
      <3>1. n \in 1..k /\ n - 1 \in 0..k
        BY <1>1, <1>2, <2>2
      <3> QED
        BY <1>2, <1>3, <3>1 DEF Trail, k
    <2> QED
      BY <2>1, <2>2
  <1>9. ASSUME NEW n \in 1..(Len(v) - 1)
        PROVE  v[n].to \notin Targets
    <2>1. CASE n = k
      BY <1>1, <1>2, <2>1
    <2>2. CASE n # k
      <3>1. n \in 1..k /\ n \in 1..(k - 1)
        BY <1>1, <1>2, <2>2
      <3> QED
        BY <1>2, <3>1 DEF Trail, k
    <2> QED
      BY <2>1, <2>2
  <1>10. ASSUME NEW n \in 0..Len(v), NEW m \in 0..Len(v), NodeAt(v, n) = NodeAt(v, m)
         PROVE  n = m
    <2>1. \A i \in 0..Len(v) : i \in 0..k \/ i = k + 1
      BY <1>1, <1>2
    <2>2. \A i \in 0..k : NodeAt(v, i) # s.to
      BY <1>3, <1>4
    <2>3. \A i, j \in 0..k : NodeAt(w, i) = NodeAt(w, j) => i = j
      BY DEF Trail, k
    <2> QED
      BY <1>3, <1>10, <2>1, <2>2, <2>3
  <1>11. Rank(v) = Added(Rank(w), s)
    BY <1>1, RankAppended DEF v
  <1> QED
    BY <1>2, <1>5, <1>6, <1>7, <1>8, <1>9, <1>10, <1>11 DEF Trail, PathOf, Extended, v

\* So is a first step from a source.
LEMMA FirstHop ==
    ASSUME Given, NEW c, NEW s \in Usable(c), s.from \in Sources, s.to # s.from
    PROVE  Trail(<<s>>, c) /\ PathOf(<<s>>) = Extended(Nowhere(s.from), s)
  <1> DEFINE w == <<s>>
  <1>1. w \in Seq(Usable(c)) /\ Len(w) = 1 /\ w[1] = s /\ w = Append(<<>>, s)
    OBVIOUS
  <1>2. Rank(w) = Added(NoRank, s)
    BY RankOfOne
  <1> HIDE DEF w
  <1>3. NodeAt(w, 0) = s.from /\ NodeAt(w, 1) = s.to
    BY <1>1 DEF NodeAt
  <1>4. Nodes(w) = {s.from} \cup {s.to}
    <2>1. 0..1 = {0, 1}
      OBVIOUS
    <2> QED
      BY <1>1, <1>3, <2>1 DEF Nodes
  <1>5. 1 \in 1..options.depth
    BY Known
  <1>6. \A n \in 1..Len(w) : w[n].from = NodeAt(w, n - 1)
    <2>1. \A n \in 1..1 : n = 1 /\ n - 1 = 0
      OBVIOUS
    <2> QED
      BY <1>1, <1>3, <2>1
  <1>7. \A n \in 1..(Len(w) - 1) : w[n].to \notin Targets
    BY <1>1
  <1>8. \A n, m \in 0..Len(w) : NodeAt(w, n) = NodeAt(w, m) => n = m
    <2>1. \A n \in 0..1 : n = 0 \/ n = 1
      OBVIOUS
    <2> QED
      BY <1>1, <1>3, <2>1
  <1>9. Trail(w, c)
    BY <1>1, <1>5, <1>6, <1>7, <1>8 DEF Trail
  <1> QED
    BY <1>1, <1>2, <1>4, <1>9 DEF PathOf, Extended, Nowhere, w

Starts(v, w) == Len(v) <= Len(w) /\ \A n \in 1..Len(v) : v[n] = w[n]

\* A route that goes on from a path goes on with one of its extensions.
LEMMA GoesOn ==
    ASSUME Given, NEW c, NEW v, NEW w, Trail(v, c), Trail(w, c), Starts(v, w), Len(v) < Len(w)
    PROVE  LET s == w[Len(v) + 1] IN
           /\ s \in Usable(c) /\ s.from = Last(v).to /\ s.to \notin Nodes(v)
           /\ Starts(Append(v, s), w)
           /\ Last(v).to \notin Targets /\ Len(v) < options.depth
  <1> DEFINE k == Len(v)
             s == w[k + 1]
  <1>1. /\ k \in Nat /\ k >= 1 /\ Len(w) \in Nat /\ Len(w) <= options.depth /\ options.depth \in Nat
        /\ Last(v) = v[k] /\ k + 1 \in 1..Len(w) /\ k \in 1..(Len(w) - 1) /\ k \in 1..k
    BY TrailsAre, Known
  <1>2. s \in Usable(c)
    BY <1>1, TrailsAre
  <1>3. w[k] = v[k] /\ w[1] = v[1]
    BY <1>1 DEF Starts
  <1>4. s.from = Last(v).to /\ Last(v).to \notin Targets
    <2>1. s.from = NodeAt(w, k)
      BY <1>1 DEF Trail
    <2> QED
      BY <1>1, <1>3, <2>1 DEF NodeAt, Trail
  <1>5. s.to \notin Nodes(v)
    <2>1. \A n \in 0..k : NodeAt(v, n) = NodeAt(w, n)
      <3>1. \A n \in 0..k : n = 0 \/ n \in 1..k
        BY <1>1
      <3> QED
        BY <1>3, <3>1 DEF NodeAt, Starts
    <2>2. NodeAt(w, k + 1) = s.to
      BY <1>1 DEF NodeAt
    <2>3. \A n \in 0..k : n \in 0..Len(w) /\ n # k + 1
      BY <1>1
    <2>4. k + 1 \in 0..Len(w)
      BY <1>1
    <2>5. \A n \in 0..k : NodeAt(w, n) # s.to
      BY <2>2, <2>3, <2>4 DEF Trail
    <2> QED
      BY <2>1, <2>5 DEF Nodes
  <1>6. Starts(Append(v, s), w)
    <2>1. v \in Seq(Usable(c))
      BY DEF Trail
    <2>2. /\ Len(Append(v, s)) = k + 1 /\ Append(v, s)[k + 1] = s
          /\ \A n \in 1..k : Append(v, s)[n] = v[n]
      BY <1>2, <2>1
    <2>3. \A n \in 1..(k + 1) : n \in 1..k \/ n = k + 1
      BY <1>1
    <2> QED
      BY <1>1, <2>2, <2>3 DEF Starts
  <1> QED
    BY <1>1, <1>2, <1>4, <1>5, <1>6

\* The keys of paths, and of routes.
LEMMA KeysAre ==
    ASSUME Given, NEW c, NEW w, Trail(w, c)
    PROVE  /\ Key(PathOf(w)) = Place(w) /\ Place(w) \in Seq(Nat)
           /\ \E a, b \in Seq(Nat) : Place(w) = (Rank(w) \o a) \o b
           /\ Rank(w) \in Seq(Nat)
  <1>1. w \in Seq(Steps) /\ Len(w) \in Nat /\ DOMAIN w = 1..Len(w)
    BY TrailsAre
  <1> DEFINE x == [n \in DOMAIN w |-> w[n].by.id]
             y == [n \in DOMAIN w |-> w[n].to]
  <1>2. /\ Key(PathOf(w)) = (Rank(w) \o x) \o y
        /\ Place(w) = (Rank(w) \o x) \o y
    BY DEF Key, PathOf, Place, Rank, Ranks
  <1>3. \A n \in 1..Len(w) : w[n].by.id \in Nat /\ w[n].to \in Nat
    <2> SUFFICES ASSUME NEW n \in 1..Len(w) PROVE w[n].by.id \in Nat /\ w[n].to \in Nat
      OBVIOUS
    <2>1. w[n] \in Steps
      BY <1>1
    <2> QED
      BY <2>1, Weights, PathAssumption DEF Steps
  <1>4. x \in Seq(Nat) /\ y \in Seq(Nat)
    <2>1. x \in [1..Len(w) -> Nat] /\ y \in [1..Len(w) -> Nat]
      BY <1>1, <1>3
    <2> QED
      BY <1>1, <2>1, SeqDef
  <1>5. Rank(w) \in Seq(Nat)
    BY <1>1, RanksRanked, RankedAreKeys DEF Rank
  <1> HIDE DEF x, y
  <1>6. Rank(w) \o x \in Seq(Nat)
    BY <1>4, <1>5, ConcatProperties
  <1>7. (Rank(w) \o x) \o y \in Seq(Nat)
    BY <1>4, <1>6, ConcatProperties
  <1>8. \E a, b \in Seq(Nat) : Place(w) = (Rank(w) \o a) \o b
    BY <1>2, <1>4
  <1> QED
    BY <1>2, <1>5, <1>7, <1>8

\* A path comes before every route it can become.
LEMMA BeginningFirst ==
    ASSUME Given, NEW c, NEW v, NEW w, Trail(v, c), Trail(w, c), Starts(v, w), Len(v) < Len(w)
    PROVE  Before(Place(v), Place(w))
  <1>1. /\ v \in Seq(Steps) /\ w \in Seq(Steps) /\ Len(v) \in Nat /\ Len(w) \in Nat
    BY TrailsAre
  <1>2. Rank(v) = Ranks(w)[Len(v)]
    <2>1. Len(v) \in 0..Len(v)
      BY <1>1
    <2> QED
      BY <1>1, <2>1, RanksAgree DEF Rank, Starts
  <1>3. Before(Rank(v), Rank(w))
    <2>1. Len(v) \in 0..Len(w) /\ Len(w) \in (Len(v) + 1)..Len(w)
      BY <1>1
    <2> QED
      BY <1>1, <1>2, <2>1, RanksGrow DEF Rank
  <1>4. PICK a \in Seq(Nat), b \in Seq(Nat) : Place(v) = (Rank(v) \o a) \o b
    BY KeysAre
  <1>5. PICK d \in Seq(Nat), e \in Seq(Nat) : Place(w) = (Rank(w) \o d) \o e
    BY KeysAre
  <1>6. Rank(v) \in Seq(Nat) /\ Rank(w) \in Seq(Nat)
    BY KeysAre
  <1>7. Rank(v) \o a \in Seq(Nat) /\ Rank(w) \o d \in Seq(Nat)
    BY <1>6, ConcatProperties
  <1>8. Before(Rank(v) \o a, Rank(w) \o d)
    BY <1>3, <1>6, BeforeAnyEnd
  <1>9. Before((Rank(v) \o a) \o b, (Rank(w) \o d) \o e)
    BY <1>7, <1>8, BeforeAnyEnd
  <1> QED
    BY <1>4, <1>5, <1>9

\* Routes and their order are those of the graph, the fields and the options.
LEMMA InputKept ==
    ASSUME UNCHANGED input
    PROVE  /\ \A w : Rank(w)' = Rank(w)
           /\ \A c : Usable(c)' = Usable(c) /\ Routes(c)' = Routes(c)
           /\ \A c, w : Trail(w, c)' <=> Trail(w, c)
           /\ \A w : Place(w)' = Place(w) /\ PathOf(w)' = PathOf(w)
           /\ Sources' = Sources /\ Targets' = Targets
  <1>1. graph' = graph /\ field' = field /\ options' = options
    BY DEF input
  <1>2. Sources' = Sources /\ Targets' = Targets
    BY <1>1 DEF Sources, Targets
  <1>3. ASSUME NEW s
        PROVE  Blocked(s)' <=> Blocked(s)
    BY <1>1 DEF Blocked, Queryable
  <1>4. ASSUME NEW c
        PROVE  Usable(c)' = Usable(c)
    BY <1>1, <1>3 DEF Usable
  <1>5. ASSUME NEW c, NEW w
        PROVE  Trail(w, c)' <=> Trail(w, c)
    BY <1>1, <1>2, <1>4 DEF Trail
  <1>6. ASSUME NEW c
        PROVE  Routes(c)' = Routes(c)
    BY <1>1, <1>2, <1>4 DEF Routes, Chains, IsRoute
  <1>7. ASSUME NEW w
        PROVE  Ranks(w)' = Ranks(w)
    BY <1>1 DEF Ranks, Added, Blocked, Queryable
  <1>8. ASSUME NEW w
        PROVE  Rank(w)' = Rank(w) /\ PathOf(w)' = PathOf(w) /\ Place(w)' = Place(w)
    BY <1>7 DEF Rank, PathOf, Place, Ranks
  <1> QED
    BY <1>2, <1>4, <1>5, <1>6, <1>8

-----------------------------------------------------------------------------
(* There are finitely many routes.                                         *)

LEMMA ImagesAreFinite ==
    ASSUME NEW S, IsFiniteSet(S), NEW f, DOMAIN f = S
    PROVE  IsFiniteSet({f[x] : x \in S})
  <1> DEFINE T == {f[x] : x \in S}
             g == [x \in S |-> f[x]]
  <1>1. g \in [S -> T] /\ \A t \in T : \E x \in S : g[x] = t
    OBVIOUS
  <1>2. g \in Surjection(S, T)
    BY <1>1 DEF Surjection
  <1> QED
    BY <1>2, FS_Surjection

LEMMA FewUsable ==
    ASSUME Given, NEW c
    PROVE  IsFiniteSet(Usable(c))
  <1> DEFINE there == [r \in graph |-> Hop(r, <<r.source, r.target>>)]
             back == [r \in graph |-> Hop(r, <<r.target, r.source>>)]
             S == {there[r] : r \in graph}
             T == {back[r] : r \in graph}
  <1>1. IsFiniteSet(graph)
    BY Known
  <1>2. IsFiniteSet(S) /\ IsFiniteSet(T)
    <2>1. DOMAIN there = graph /\ DOMAIN back = graph
      OBVIOUS
    <2> HIDE DEF there, back
    <2> QED
      BY <1>1, <2>1, ImagesAreFinite
  <1>3. Usable(c) \subseteq S \cup T
    <2> SUFFICES ASSUME NEW s \in Usable(c) PROVE s \in S \cup T
      OBVIOUS
    <2>1. PICK r \in graph : \E d \in Directions(r) : s = Hop(r, d)
      BY DEF Usable
    <2>2. there[r] \in S /\ back[r] \in T
      BY <2>1
    <2> QED
      BY <2>1, <2>2 DEF Directions
  <1>4. IsFiniteSet(S \cup T)
    BY <1>2, FS_Union
  <1> QED
    BY <1>3, <1>4, FS_Subset

LEMMA FewRoutes ==
    ASSUME Given, NEW c
    PROVE  IsFiniteSet(Routes(c))
  <1> DEFINE Places == (1..options.depth) \X Usable(c)
             f == [w \in Routes(c) |-> {<<n, w[n]>> : n \in 1..Len(w)}]
  <1>1. IsFiniteSet(SUBSET Places)
    <2>1. IsFiniteSet(1..options.depth)
      <3>1. options.depth \in Int /\ 1 \in Int
        BY Known
      <3> QED
        BY <3>1, FS_Interval
    <2> QED
      BY <2>1, FewUsable, FS_Product, FS_SUBSET
  <1>2. \A w \in Routes(c) : /\ w \in Seq(Usable(c)) /\ Len(w) \in 1..options.depth
                             /\ Len(w) \in Nat
    BY RoutesAre, TrailsAre DEF Trail
  <1>3. f \in [Routes(c) -> SUBSET Places]
    <2> SUFFICES ASSUME NEW w \in Routes(c), NEW n \in 1..Len(w)
                 PROVE  <<n, w[n]>> \in Places
      OBVIOUS
    <2>1. n \in 1..options.depth
      <3>1. Len(w) \in Nat /\ Len(w) <= options.depth /\ options.depth \in Nat
        BY <1>2, Known
      <3> QED
        BY <3>1
    <2>2. w[n] \in Usable(c)
      BY <1>2
    <2> QED
      BY <2>1, <2>2
  <1>4. ASSUME NEW v \in Routes(c), NEW w \in Routes(c), f[v] = f[w]
        PROVE  v = w
    <2>1. \A n \in 1..Len(v) : n \in 1..Len(w) /\ v[n] = w[n]
      <3> SUFFICES ASSUME NEW n \in 1..Len(v) PROVE n \in 1..Len(w) /\ v[n] = w[n]
        OBVIOUS
      <3>1. <<n, v[n]>> \in f[w]
        BY <1>4
      <3>2. PICK m \in 1..Len(w) : <<n, v[n]>> = <<m, w[m]>>
        BY <3>1
      <3> QED
        BY <3>2
    <2>2. \A n \in 1..Len(w) : n \in 1..Len(v)
      <3> SUFFICES ASSUME NEW n \in 1..Len(w) PROVE n \in 1..Len(v)
        OBVIOUS
      <3>1. <<n, w[n]>> \in f[v]
        BY <1>4
      <3>2. PICK m \in 1..Len(v) : <<n, w[n]>> = <<m, v[m]>>
        BY <3>1
      <3> QED
        BY <3>2
    <2>3. Len(v) = Len(w)
      BY <1>2, <2>1, <2>2
    <2> QED
      BY <1>2, <2>1, <2>3, SeqEqual
  <1>5. f \in Injection(Routes(c), SUBSET Places)
    BY <1>3, <1>4 DEF Injection, IsInjective
  <1> HIDE DEF f, Places
  <1> QED
    BY <1>1, <1>5, FS_Injection

-----------------------------------------------------------------------------
(* The invariant.                                                          *)

Told(c) == stage = "over" \/ (~c /\ pass)

\* What a search tells is so: routes, all of them if it says so, and the best of them if it
\* left nothing out.
GoodReport(c) ==
    LET all == Routes(c)  given == report[c].paths IN
    /\ given \subseteq all
    /\ report[c].complete => given = all
    /\ ~report[c].exhausted =>
         /\ Cardinality(given) = Least(options.paths, Cardinality(all))
         /\ \A w \in given, x \in all \ given : Before(Place(w), Place(x))

SearchShape ==
    /\ pass \in BOOLEAN /\ stage \in {"begin", "search", "over"} /\ exhausted \in BOOLEAN
    /\ DOMAIN report = BOOLEAN
    /\ \A c \in BOOLEAN : DOMAIN report[c] = {"paths", "complete", "exhausted"}
    /\ stage = "over" => pass
    /\ stage = "begin" => queue = {} /\ found = {} /\ ~exhausted

PathsAreTrails == \A p \in queue \cup found : Trail(p.steps, pass) /\ p = PathOf(p.steps)
FoundArrive == \A p \in found : Last(p.steps).to \in Targets
FoundAreFew == IsFiniteSet(found) /\ Cardinality(found) <= options.paths + 1
NothingLost ==
    stage = "search" /\ ~exhausted =>
        \A w \in Routes(pass) : \/ \E p \in found : p.steps = w
                                \/ \E p \in queue : Starts(p.steps, w)
FoundFirst == \A f \in found, q \in queue : Before(Key(f), Key(q))
LastFound ==
    found # {} => \E m \in found : \A f \in found \ {m} : Before(Key(f), Key(m))
ReportsHold == \A c \in BOOLEAN : Told(c) => GoodReport(c)

PathInv ==
    /\ Given /\ SearchShape /\ PathsAreTrails /\ FoundArrive /\ FoundAreFew
    /\ NothingLost /\ FoundFirst /\ LastFound /\ ReportsHold

LEMMA Starting == PathInit => PathInv
  <1> SUFFICES ASSUME PathInit PROVE PathInv
    OBVIOUS
  <1>1. Given
    BY DEF PathInit, Given
  <1>2. options.paths \in Nat
    BY <1>1, Known
  <1>3. FoundAreFew
    BY <1>2, FS_EmptySet DEF PathInit, FoundAreFew
  <1> QED
    BY <1>1, <1>3 DEF PathInit, PathInv, SearchShape, PathsAreTrails, FoundArrive, NothingLost,
       FoundFirst, LastFound, ReportsHold, Told, NoResult

\* What is left out when states are enqueued is owned up to.
LEMMA Enqueued ==
    ASSUME NEW rest, NEW paths, Enqueue(rest, paths), exhausted \in BOOLEAN
    PROVE  /\ rest \subseteq queue' /\ queue' \subseteq rest \cup paths
           /\ exhausted' \in BOOLEAN
           /\ ~exhausted' => ~exhausted /\ queue' = rest \cup paths
  BY DEF Enqueue, First

LEMMA GivenKept ==
    ASSUME Given, UNCHANGED input
    PROVE  Given'
  BY DEF Given, input

LEMMA ReportKept ==
    ASSUME UNCHANGED input, NEW c, report'[c] = report[c], GoodReport(c)
    PROVE  GoodReport(c)'
  <1>1. options' = options
    BY DEF input
  <1>2. Routes(c)' = Routes(c) /\ \A w : Place(w)' = Place(w)
    BY InputKept
  <1> QED
    BY <1>1, <1>2 DEF GoodReport

\* A step of a search leaves the reports alone.
LEMMA ReportsKept ==
    ASSUME PathInv, UNCHANGED <<input, pass, report>>, stage' # "over"
    PROVE  ReportsHold'
  <1> SUFFICES ASSUME NEW c \in BOOLEAN, Told(c)' PROVE GoodReport(c)'
    BY DEF ReportsHold
  <1>1. Told(c)
    BY DEF Told
  <1> QED
    BY <1>1, ReportKept DEF PathInv, ReportsHold

-----------------------------------------------------------------------------
(* The steps of a search.                                                  *)

LEMMA TrailOf ==
    ASSUME UNCHANGED <<input, pass>>, NEW w
    PROVE  (Trail(w, pass)' <=> Trail(w, pass)) /\ PathOf(w)' = PathOf(w)
  BY InputKept

LEMMA BeginKeeps ==
    ASSUME PathInv, Begin
    PROVE  PathInv'
  <1>1. /\ UNCHANGED <<input, pass, report>> /\ stage' = "search" /\ found' = {}
        /\ queue = {} /\ exhausted = FALSE /\ pass \in BOOLEAN /\ Given
    BY DEF PathInv, Begin, SearchShape, search
  <1> DEFINE first == UNION {Extensions(Nowhere(i), i) : i \in Sources}
  <1>2. /\ \A p \in queue' : p \in first
        /\ exhausted' \in BOOLEAN
        /\ ~exhausted' => queue' = first \/ Sources = {} \/ Targets = {}
    <2>1. CASE Sources = {} \/ Targets = {}
      BY <1>1, <2>1 DEF Begin, search
    <2>2. CASE ~(Sources = {} \/ Targets = {})
      <3>1. Enqueue({}, first)
        BY <2>2 DEF Begin
      <3> HIDE DEF first
      <3>2. exhausted \in BOOLEAN
        BY <1>1
      <3>3. /\ queue' \subseteq {} \cup first /\ exhausted' \in BOOLEAN
            /\ ~exhausted' => queue' = {} \cup first
        BY <3>1, <3>2, Enqueued
      <3> QED
        BY <3>3
    <2> QED
      BY <2>1, <2>2
  <1>3. \A p \in first : /\ p = PathOf(p.steps) /\ Trail(p.steps, pass)
    <2> SUFFICES ASSUME NEW p \in first PROVE p = PathOf(p.steps) /\ Trail(p.steps, pass)
      OBVIOUS
    <2>1. PICK i \in Sources : p \in Extensions(Nowhere(i), i)
      OBVIOUS
    <2>2. PICK s \in Usable(pass) : /\ s.from = i /\ s.to \notin Nowhere(i).visited
                                    /\ p = Extended(Nowhere(i), s)
      BY <2>1 DEF Extensions
    <2>3. s.to # s.from
      BY <2>2 DEF Nowhere
    <2>4. Trail(<<s>>, pass) /\ PathOf(<<s>>) = p
      BY <1>1, <2>1, <2>2, <2>3, FirstHop
    <2>5. p.steps = <<s>>
      BY <2>4 DEF PathOf
    <2> QED
      BY <2>4, <2>5
  <1>4. Given' /\ SearchShape'
    BY <1>1, <1>2, GivenKept DEF PathInv, SearchShape
  <1>5. PathsAreTrails'
    <2> SUFFICES ASSUME NEW p \in queue'
                 PROVE  Trail(p.steps, pass)' /\ p = PathOf(p.steps)'
      BY <1>1 DEF PathsAreTrails
    <2>1. p = PathOf(p.steps) /\ Trail(p.steps, pass)
      BY <1>2, <1>3
    <2> QED
      BY <1>1, <2>1, TrailOf
  <1>6. NothingLost'
    <2> SUFFICES ASSUME ~exhausted', NEW w \in Routes(pass)
                 PROVE  \E p \in queue' : Starts(p.steps, w)
      <3>1. Routes(pass)' = Routes(pass)
        BY <1>1, InputKept
      <3> QED
        BY <1>1, <3>1 DEF NothingLost
    <2>1. Trail(w, pass) /\ w[Len(w)].to \in Targets
      BY <1>1, RoutesAre
    <2>2. /\ Len(w) \in Nat /\ Len(w) >= 1 /\ w[1] \in Usable(pass)
          /\ w[Len(w)] \in Usable(pass)
      <3>1. Len(w) \in Nat /\ Len(w) >= 1 /\ \A n \in 1..Len(w) : w[n] \in Usable(pass)
        BY <1>1, <2>1, TrailsAre
      <3> QED
        BY <3>1
    <2>3. w[1].from \in Sources /\ w[1].to # w[1].from
      <3>1. NodeAt(w, 0) = w[1].from /\ NodeAt(w, 1) = w[1].to
        BY DEF NodeAt
      <3>2. 0 \in 0..Len(w) /\ 1 \in 0..Len(w)
        BY <2>2
      <3> QED
        BY <2>1, <3>1, <3>2 DEF Trail
    <2>4. queue' = first
      BY <1>2, <2>1, <2>3
    <2> DEFINE p == Extended(Nowhere(w[1].from), w[1])
    <2>5. p \in first
      <3>1. w[1].to \notin Nowhere(w[1].from).visited
        BY <2>3 DEF Nowhere
      <3>2. p \in Extensions(Nowhere(w[1].from), w[1].from)
        BY <2>2, <3>1 DEF Extensions
      <3> QED
        BY <2>3, <3>2
    <2>6. p.steps = <<w[1]>>
      BY DEF Extended, Nowhere
    <2>7. Starts(p.steps, w)
      <3>1. Len(<<w[1]>>) = 1 /\ <<w[1]>>[1] = w[1] /\ \A n \in 1..1 : n = 1
        OBVIOUS
      <3> HIDE DEF p
      <3> QED
        BY <2>2, <2>6, <3>1 DEF Starts
    <2> HIDE DEF p, first
    <2> QED
      BY <2>4, <2>5, <2>7
  <1>7. FoundAreFew'
    <2>1. options.paths' \in Nat
      BY <1>4, Known, <1>1 DEF input
    <2> QED
      BY <1>1, <2>1, FS_EmptySet DEF FoundAreFew
  <1>8. ReportsHold'
    BY <1>1, ReportsKept
  <1> QED
    BY <1>1, <1>4, <1>5, <1>6, <1>7, <1>8 DEF PathInv, FoundArrive, FoundFirst, LastFound

LEMMA TrailKeys ==
    ASSUME Given, NEW c, NEW p, Trail(p.steps, c), p = PathOf(p.steps)
    PROVE  Key(p) = Place(p.steps) /\ Key(p) \in Seq(Nat)
  <1>1. Key(PathOf(p.steps)) = Place(p.steps) /\ Place(p.steps) \in Seq(Nat)
    BY KeysAre
  <1> QED
    BY <1>1

\* A route is taken from the queue: every other comes after it.
LEMMA ReachKeeps ==
    ASSUME PathInv, stage = "search", ~Enough, NEW p \in queue, Next1(p), Reach(p),
           UNCHANGED <<input, pass, stage, report>>
    PROVE  PathInv'
  <1>1. /\ pass \in BOOLEAN /\ Given /\ found' = found \cup {p} /\ queue' = queue \ {p}
        /\ exhausted' = exhausted /\ options' = options /\ options.paths \in Nat
    BY Known DEF PathInv, Reach, SearchShape, input
  <1>2. \A q \in queue \cup found : Trail(q.steps, pass) /\ q = PathOf(q.steps)
    BY DEF PathInv, PathsAreTrails
  <1>3. \A q \in queue \cup found : Key(q) \in Seq(Nat)
    BY <1>1, <1>2, TrailKeys
  <1>4. Given' /\ SearchShape'
    BY <1>1, GivenKept DEF PathInv, SearchShape
  <1>5. PathsAreTrails'
    <2> SUFFICES ASSUME NEW q \in queue' \cup found'
                 PROVE  Trail(q.steps, pass)' /\ q = PathOf(q.steps)'
      BY DEF PathsAreTrails
    <2>1. q = PathOf(q.steps) /\ Trail(q.steps, pass)
      BY <1>1, <1>2
    <2> QED
      BY <2>1, TrailOf
  <1>6. FoundArrive'
    <2>1. Targets' = Targets
      BY InputKept
    <2>2. Last(p.steps).to \in Targets
      BY DEF Reach
    <2> QED
      BY <1>1, <2>1, <2>2 DEF PathInv, FoundArrive
  <1>7. FoundAreFew'
    <2>1. IsFiniteSet(found) /\ Cardinality(found) \in Nat /\ Cardinality(found) <= options.paths
      <3>1. IsFiniteSet(found)
        BY DEF PathInv, FoundAreFew
      <3>2. Cardinality(found) \in Nat
        BY <3>1, FS_CardinalityType
      <3> QED
        BY <1>1, <3>1, <3>2 DEF Enough
    <2>2. /\ IsFiniteSet(found \cup {p})
          /\ Cardinality(found \cup {p}) =
                IF p \in found THEN Cardinality(found) ELSE Cardinality(found) + 1
      BY <2>1, FS_AddElement
    <2>3. Cardinality(found \cup {p}) <= options.paths + 1
      BY <1>1, <2>1, <2>2
    <2> QED
      BY <1>1, <2>2, <2>3 DEF FoundAreFew
  <1>8. NothingLost'
    <2> SUFFICES ASSUME ~exhausted, NEW w \in Routes(pass)
                 PROVE  \/ \E q \in found \cup {p} : q.steps = w
                        \/ \E q \in queue \ {p} : Starts(q.steps, w)
      <3>1. Routes(pass)' = Routes(pass)
        BY InputKept
      <3> QED
        BY <1>1, <3>1 DEF NothingLost
    <2>1. ASSUME Starts(p.steps, w)
          PROVE  p.steps = w
      <3>1. Trail(w, pass) /\ Trail(p.steps, pass)
        BY <1>1, <1>2, RoutesAre
      <3>2. Len(p.steps) \in Nat /\ Len(w) \in Nat /\ Len(p.steps) <= Len(w)
        BY <1>1, <2>1, <3>1, TrailsAre DEF Starts
      <3>3. ~(Len(p.steps) < Len(w))
        <4>1. Last(p.steps).to \in Targets
          BY DEF Reach
        <4> QED
          BY <1>1, <2>1, <3>1, <4>1, GoesOn
      <3>4. Len(p.steps) = Len(w)
        BY <3>2, <3>3
      <3>5. p.steps \in Seq(Usable(pass)) /\ w \in Seq(Usable(pass))
        BY <3>1 DEF Trail
      <3> QED
        BY <2>1, <3>4, <3>5, SeqEqual DEF Starts
    <2>2. \/ \E q \in found : q.steps = w
          \/ \E q \in queue : Starts(q.steps, w)
      BY DEF PathInv, NothingLost
    <2> QED
      BY <2>1, <2>2
  <1>9. \A f \in found : Before(Key(f), Key(p))
    BY DEF PathInv, FoundFirst
  <1>10. FoundFirst'
    <2> SUFFICES ASSUME NEW f \in found \cup {p}, NEW q \in queue \ {p}
                 PROVE  Before(Key(f), Key(q))
      BY <1>1 DEF FoundFirst, Key
    <2>1. CASE f = p
      BY <2>1 DEF Next1
    <2>2. CASE f # p
      BY <2>2 DEF PathInv, FoundFirst
    <2> QED
      BY <2>1, <2>2
  <1>11. LastFound'
    <2>1. \A f \in (found \cup {p}) \ {p} : Before(Key(f), Key(p))
      BY <1>9
    <2> QED
      BY <1>1, <2>1 DEF LastFound, Key
  <1>12. ReportsHold'
    BY ReportsKept
  <1> QED
    BY <1>4, <1>5, <1>6, <1>7, <1>8, <1>10, <1>11, <1>12 DEF PathInv

\* A path gives way to its extensions: a route that went on from it goes on from one of them, and
\* they come after it.
LEMMA ExpandKeeps ==
    ASSUME PathInv, stage = "search", ~Enough, NEW p \in queue, Next1(p), Expand(p),
           UNCHANGED <<input, pass, stage, report>>
    PROVE  PathInv'
  <1> DEFINE next == IF Len(p.steps) < options.depth THEN Extensions(p, Last(p.steps).to) ELSE {}
             rest == queue \ {p}
  <1>1. /\ pass \in BOOLEAN /\ exhausted \in BOOLEAN /\ Given /\ found' = found
        /\ options' = options
    BY DEF PathInv, Expand, SearchShape, input
  <1>2. \A q \in queue \cup found : Trail(q.steps, pass) /\ q = PathOf(q.steps)
    BY DEF PathInv, PathsAreTrails
  <1>3. \A q \in queue \cup found : Key(q) \in Seq(Nat)
    BY <1>1, <1>2, TrailKeys
  <1>4. /\ rest \subseteq queue' /\ queue' \subseteq rest \cup next /\ exhausted' \in BOOLEAN
        /\ ~exhausted' => ~exhausted /\ queue' = rest \cup next
    <2>1. Enqueue(rest, next)
      BY DEF Expand
    <2> HIDE DEF rest, next
    <2> QED
      BY <1>1, <2>1, Enqueued
  <1>5. Last(p.steps).to \notin Targets
    BY DEF Expand
  <1>6. ASSUME NEW q \in next
        PROVE  \E s \in Usable(pass) : /\ s.from = Last(p.steps).to /\ s.to \notin Nodes(p.steps)
                                      /\ Len(p.steps) < options.depth /\ q = Extended(p, s)
    <2>1. p.visited = Nodes(p.steps)
      BY <1>2 DEF PathOf
    <2> QED
      BY <1>6, <2>1 DEF Extensions
  <1>7. ASSUME NEW q \in next
        PROVE  /\ q = PathOf(q.steps) /\ Trail(q.steps, pass)
               /\ Before(Key(p), Key(q))
    <2>1. PICK s \in Usable(pass) : /\ s.from = Last(p.steps).to /\ s.to \notin Nodes(p.steps)
                                    /\ Len(p.steps) < options.depth /\ q = Extended(p, s)
      BY <1>6, <1>7
    <2>2. Trail(p.steps, pass) /\ p = PathOf(p.steps)
      BY <1>2
    <2> DEFINE v == Append(p.steps, s)
    <2>3. Trail(v, pass) /\ PathOf(v) = Extended(p, s)
      BY <1>1, <1>5, <2>1, <2>2, Longer
    <2>4. q.steps = v /\ q = PathOf(v)
      BY <2>1, <2>3 DEF Extended
    <2>5. Starts(p.steps, v) /\ Len(p.steps) < Len(v)
      <3>1. p.steps \in Seq(Usable(pass))
        BY <2>2 DEF Trail
      <3>2. /\ Len(v) = Len(p.steps) + 1 /\ Len(p.steps) \in Nat
            /\ \A n \in 1..Len(p.steps) : v[n] = p.steps[n]
        BY <3>1
      <3> QED
        BY <3>2 DEF Starts
    <2> HIDE DEF v
    <2>6. Before(Place(p.steps), Place(v))
      BY <1>1, <2>2, <2>3, <2>5, BeginningFirst
    <2>7. Key(p) = Place(p.steps) /\ Key(q) = Place(v)
      BY <1>1, <2>2, <2>3, <2>4, TrailKeys
    <2> QED
      BY <2>3, <2>4, <2>6, <2>7
  <1>8. Given' /\ SearchShape'
    BY <1>1, <1>4, GivenKept DEF PathInv, SearchShape
  <1>9. \A q \in queue' : q \in queue \/ q \in next
    BY <1>4
  <1> HIDE DEF next
  <1>10. PathsAreTrails'
    <2> SUFFICES ASSUME NEW q \in queue' \cup found'
                 PROVE  Trail(q.steps, pass)' /\ q = PathOf(q.steps)'
      BY DEF PathsAreTrails
    <2>1. q = PathOf(q.steps) /\ Trail(q.steps, pass)
      BY <1>1, <1>2, <1>7, <1>9
    <2> QED
      BY <2>1, TrailOf
  <1>11. FoundArrive' /\ FoundAreFew' /\ LastFound'
    <2>1. Targets' = Targets
      BY InputKept
    <2> QED
      BY <1>1, <2>1 DEF PathInv, FoundArrive, FoundAreFew, LastFound, Key
  <1>12. NothingLost'
    <2> SUFFICES ASSUME ~exhausted', NEW w \in Routes(pass)
                 PROVE  \/ \E q \in found : q.steps = w
                        \/ \E q \in queue' : Starts(q.steps, w)
      <3>1. Routes(pass)' = Routes(pass)
        BY InputKept
      <3> QED
        BY <1>1, <3>1 DEF NothingLost
    <2>1. ~exhausted /\ queue' = rest \cup next
      BY <1>4
    <2>2. \/ \E q \in found : q.steps = w
          \/ \E q \in queue : Starts(q.steps, w)
      BY <2>1 DEF PathInv, NothingLost
    <2>3. ASSUME Starts(p.steps, w)
          PROVE  \E q \in next : Starts(q.steps, w)
      <3>1. /\ Trail(w, pass) /\ Trail(p.steps, pass) /\ p = PathOf(p.steps)
            /\ w[Len(w)].to \in Targets
        BY <1>1, <1>2, RoutesAre
      <3>2. Len(p.steps) \in Nat /\ Len(w) \in Nat /\ Len(p.steps) <= Len(w)
        BY <1>1, <2>3, <3>1, TrailsAre DEF Starts
      <3>3. Len(p.steps) < Len(w)
        <4> SUFFICES ASSUME Len(p.steps) = Len(w) PROVE FALSE
          BY <3>2
        <4>1. p.steps[Len(w)] = w[Len(w)] /\ Last(p.steps) = p.steps[Len(w)]
          <5>1. Len(w) \in 1..Len(w) /\ Last(p.steps) = p.steps[Len(p.steps)]
            BY <1>1, <3>1, <3>2, TrailsAre
          <5> QED
            BY <2>3, <5>1 DEF Starts
        <4> QED
          BY <1>5, <3>1, <4>1
      <3> DEFINE s == w[Len(p.steps) + 1]
      <3>4. /\ s \in Usable(pass) /\ s.from = Last(p.steps).to /\ s.to \notin Nodes(p.steps)
            /\ Starts(Append(p.steps, s), w) /\ Len(p.steps) < options.depth
        BY <1>1, <2>3, <3>1, <3>3, GoesOn
      <3> HIDE DEF s
      <3>5. p.visited = Nodes(p.steps)
        BY <3>1 DEF PathOf
      <3>6. Extended(p, s) \in next
        BY <3>4, <3>5 DEF next, Extensions
      <3>7. Extended(p, s).steps = Append(p.steps, s)
        BY DEF Extended
      <3> QED
        BY <3>4, <3>6, <3>7
    <2> QED
      BY <2>1, <2>2, <2>3
  <1>13. FoundFirst'
    <2> SUFFICES ASSUME NEW f \in found, NEW q \in queue'
                 PROVE  Before(Key(f), Key(q))
      BY <1>1 DEF FoundFirst, Key
    <2>1. \A r \in queue : Before(Key(f), Key(r))
      BY DEF PathInv, FoundFirst
    <2>2. CASE q \in queue
      BY <2>1, <2>2
    <2>3. CASE q \in next
      <3>1. Before(Key(p), Key(q)) /\ q = PathOf(q.steps) /\ Trail(q.steps, pass)
        BY <1>7, <2>3
      <3>2. Key(q) \in Seq(Nat)
        BY <1>1, <3>1, TrailKeys
      <3>3. Key(f) \in Seq(Nat) /\ Key(p) \in Seq(Nat) /\ Before(Key(f), Key(p))
        BY <1>3, <2>1
      <3> QED
        BY <3>1, <3>2, <3>3, BeforeBefore
    <2> QED
      BY <1>9, <2>2, <2>3
  <1>14. ReportsHold'
    BY ReportsKept
  <1> QED
    BY <1>8, <1>10, <1>11, <1>12, <1>13, <1>14 DEF PathInv

\* What a finished search returns is so.  If it stopped early it found one route more than it
\* returns, the last of them; every other route comes after that one, as it was found no sooner or
\* goes on from the queue.
LEMMA ReturnIsGood ==
    ASSUME PathInv, stage = "search", queue = {} \/ Enough
    PROVE  LET all == Routes(pass)  given == {p.steps : p \in Best} IN
           /\ given \subseteq all
           /\ Complete => given = all
           /\ ~exhausted => /\ Cardinality(given) = Least(options.paths, Cardinality(all))
                           /\ \A w \in given, x \in all \ given : Before(Place(w), Place(x))
  <1> DEFINE all == Routes(pass)
             given == {p.steps : p \in Best}
             few == options.paths
             Ahead(p) == {q \in found : Before(Key(q), Key(p))}
  <1>1. /\ pass \in BOOLEAN /\ Given /\ few \in Nat /\ few >= 1
    BY Known DEF PathInv, SearchShape
  <1>2. \A q \in queue \cup found : Trail(q.steps, pass) /\ q = PathOf(q.steps)
    BY DEF PathInv, PathsAreTrails
  <1>3. \A q \in queue \cup found : Key(q) = Place(q.steps) /\ Key(q) \in Seq(Nat)
    BY <1>1, <1>2, TrailKeys
  <1>4. \A p \in found : p.steps \in all
    <2> SUFFICES ASSUME NEW p \in found PROVE p.steps \in all
      OBVIOUS
    <2>1. Trail(p.steps, pass) /\ Last(p.steps).to \in Targets
      BY <1>2 DEF PathInv, FoundArrive
    <2>2. Last(p.steps) = p.steps[Len(p.steps)]
      BY <1>1, <2>1, TrailsAre
    <2> QED
      BY <1>1, <2>1, <2>2, RoutesAre
  <1>5. Best \subseteq found
    BY DEF Best
  <1>6. given \subseteq all
    BY <1>4, <1>5
  <1>7. /\ IsFiniteSet(found) /\ Cardinality(found) \in Nat /\ Cardinality(found) <= few + 1
    BY FS_CardinalityType DEF PathInv, FoundAreFew
  <1>8. IsFiniteSet(all) /\ Cardinality(all) \in Nat
    BY <1>1, FewRoutes, FS_CardinalityType
  <1>9. IsFiniteSet(Best) /\ IsFiniteSet(given) /\ Cardinality(given) = Cardinality(Best)
    <2> DEFINE f == [p \in Best |-> p.steps]
    <2>1. IsFiniteSet(Best)
      BY <1>5, <1>7, FS_Subset
    <2>2. f \in Surjection(Best, given)
      BY DEF Surjection
    <2>3. \A p, q \in Best : f[p] = f[q] => p = q
      <3> SUFFICES ASSUME NEW p \in Best, NEW q \in Best, p.steps = q.steps PROVE p = q
        OBVIOUS
      <3>1. p = PathOf(p.steps) /\ q = PathOf(q.steps)
        BY <1>2, <1>5
      <3> QED
        BY <3>1
    <2>4. f \in Injection(Best, given)
      BY <2>3 DEF Injection, IsInjective
    <2> HIDE DEF f
    <2> QED
      BY <2>1, <2>2, <2>4, FS_Surjection
  <1> HIDE DEF given, all, few
  <1>10. ASSUME NEW p \in found
         PROVE  /\ Ahead(p) \subseteq found \ {p} /\ IsFiniteSet(Ahead(p))
                /\ Cardinality(Ahead(p)) \in Nat
                /\ Cardinality(Ahead(p)) <= Cardinality(found) - 1
    <2>1. p \notin Ahead(p)
      BY <1>3, NotBeforeItself
    <2>2. Ahead(p) \subseteq found \ {p}
      BY <2>1
    <2>3. IsFiniteSet(found \ {p}) /\ Cardinality(found \ {p}) = Cardinality(found) - 1
      BY <1>7, FS_RemoveElement
    <2> HIDE DEF Ahead
    <2>4. IsFiniteSet(Ahead(p)) /\ Cardinality(Ahead(p)) <= Cardinality(found \ {p})
      BY <2>2, <2>3, FS_Subset
    <2>5. Cardinality(Ahead(p)) \in Nat
      BY <2>4, FS_CardinalityType
    <2> QED
      BY <2>2, <2>3, <2>4, <2>5
  <1>11. Best = {p \in found : Cardinality(Ahead(p)) < few}
    BY DEF Best, few
  <1> HIDE DEF Ahead
  <1>12. CASE ~Enough
    <2>1. Cardinality(found) <= few
      BY <1>1, <1>7, <1>12 DEF Enough, few
    <2>2. Best = found
      <3>1. \A p \in found : Cardinality(Ahead(p)) < few
        BY <1>1, <1>7, <1>10, <2>1
      <3> QED
        BY <1>11, <3>1
    <2>3. ~exhausted => given = all
      <3> SUFFICES ASSUME ~exhausted, NEW w \in all PROVE w \in given
        BY <1>6
      <3>1. queue = {}
        BY <1>12
      <3>2. PICK p \in found : p.steps = w
        BY <3>1 DEF PathInv, NothingLost, all
      <3> QED
        BY <2>2, <3>2 DEF given
    <2>4. Cardinality(given) <= few /\ Cardinality(given) \in Nat
      BY <1>7, <1>9, <2>1, <2>2
    <2>5. ~exhausted => Cardinality(given) = Least(few, Cardinality(all))
      BY <1>1, <2>3, <2>4 DEF Least
    <2> QED
      BY <1>6, <2>3, <2>5 DEF Complete, given, all, few
  <1>13. CASE Enough
    <2>1. Cardinality(found) = few + 1
      BY <1>1, <1>7, <1>13 DEF Enough, few
    <2>2. PICK m \in found : \A f \in found \ {m} : Before(Key(f), Key(m))
      <3>1. found # {}
        BY <1>1, <2>1, FS_EmptySet
      <3> QED
        BY <3>1 DEF PathInv, LastFound
    <2>3. IsFiniteSet(found \ {m}) /\ Cardinality(found \ {m}) = few
      BY <1>1, <1>7, <2>1, FS_RemoveElement
    <2>4. m \notin Best
      <3>1. Ahead(m) = found \ {m}
        BY <1>10, <2>2 DEF Ahead
      <3> QED
        BY <1>1, <1>11, <2>3, <3>1
    <2>5. ASSUME NEW p \in found, p # m
          PROVE  p \in Best
      <3>1. m \notin Ahead(p)
        <4>1. Before(Key(p), Key(m)) /\ Key(p) \in Seq(Nat) /\ Key(m) \in Seq(Nat)
          BY <1>3, <2>2, <2>5
        <4>2. ~Before(Key(m), Key(p))
          BY <4>1, BeforeBefore, NotBeforeItself
        <4> QED
          BY <4>2 DEF Ahead
      <3>2. Ahead(p) \subseteq (found \ {m}) \ {p}
        BY <1>10, <3>1
      <3>3. /\ IsFiniteSet((found \ {m}) \ {p})
            /\ Cardinality((found \ {m}) \ {p}) = few - 1
        BY <2>3, <2>5, FS_RemoveElement
      <3>4. Cardinality(Ahead(p)) <= few - 1
        BY <3>2, <3>3, FS_Subset
      <3>5. Cardinality(Ahead(p)) \in Nat
        BY <1>10
      <3>6. Cardinality(Ahead(p)) < few
        BY <1>1, <3>4, <3>5
      <3> QED
        BY <1>11, <3>6
    <2>6. Best = found \ {m}
      BY <1>5, <2>4, <2>5
    <2>7. Cardinality(given) = few
      BY <1>9, <2>3, <2>6
    <2>8. few <= Cardinality(all)
      BY <1>6, <1>8, <2>7, FS_Subset
    <2>9. Cardinality(given) = Least(few, Cardinality(all))
      BY <1>1, <1>8, <2>7, <2>8 DEF Least
    <2>10. ASSUME ~exhausted, NEW w \in given, NEW x \in all \ given
           PROVE  Before(Place(w), Place(x))
      <3>1. PICK p \in found \ {m} : p.steps = w
        BY <2>6 DEF given
      <3>2. Key(p) = Place(w) /\ Key(p) \in Seq(Nat) /\ Key(m) \in Seq(Nat)
        BY <1>3, <3>1
      <3>3. \/ \E f \in found : f.steps = x
            \/ \E q \in queue : Starts(q.steps, x)
        BY <2>10 DEF PathInv, NothingLost, all
      <3>4. CASE \E f \in found : f.steps = x
        <4>1. PICK f \in found : f.steps = x
          BY <3>4
        <4>2. f = m
          BY <2>6, <2>10, <4>1 DEF given
        <4> QED
          BY <1>3, <2>2, <3>1, <3>2, <4>1, <4>2
      <3>5. CASE \E q \in queue : Starts(q.steps, x)
        <4>1. PICK q \in queue : Starts(q.steps, x)
          BY <3>5
        <4>2. Before(Key(p), Key(q))
          BY <3>1, <4>1 DEF PathInv, FoundFirst
        <4>3. Trail(q.steps, pass) /\ Trail(x, pass)
          BY <1>1, <1>2, <4>1, RoutesAre DEF all
        <4>4. Key(q) = Place(q.steps) /\ Key(q) \in Seq(Nat) /\ Place(x) \in Seq(Nat)
          BY <1>1, <1>3, <4>1, <4>3, KeysAre
        <4>5. CASE Len(q.steps) < Len(x)
          <5>1. Before(Place(q.steps), Place(x))
            BY <1>1, <4>1, <4>3, <4>5, BeginningFirst
          <5> QED
            BY <3>2, <4>2, <4>4, <5>1, BeforeBefore
        <4>6. CASE ~(Len(q.steps) < Len(x))
          <5>1. /\ Len(q.steps) \in Nat /\ Len(x) \in Nat
                /\ q.steps \in Seq(Usable(pass)) /\ x \in Seq(Usable(pass))
            BY <1>1, <4>3, TrailsAre
          <5>2. Len(q.steps) = Len(x)
            BY <4>1, <4>6, <5>1 DEF Starts
          <5>3. q.steps = x
            BY <4>1, <5>1, <5>2, SeqEqual DEF Starts
          <5> QED
            BY <3>2, <4>2, <4>4, <5>3
        <4> QED
          BY <4>5, <4>6
      <3> QED
        BY <3>3, <3>4, <3>5
    <2> QED
      BY <1>6, <1>13, <2>9, <2>10 DEF Complete, given, all, few
  <1> QED
    BY <1>12, <1>13

LEMMA ReturnKeeps ==
    ASSUME PathInv, Return
    PROVE  PathInv'
  <1>1. /\ UNCHANGED input /\ stage = "search" /\ (queue = {} \/ Enough)
        /\ pass \in BOOLEAN /\ Given /\ options' = options
        /\ queue' = {} /\ found' = {} /\ exhausted' = FALSE /\ pass' = TRUE
        /\ stage' = IF pass THEN "over" ELSE "begin"
    BY DEF PathInv, Return, SearchShape, input
  <1>2. Given'
    BY <1>1, GivenKept
  <1>3. DOMAIN report = BOOLEAN
        /\ \A c \in BOOLEAN : DOMAIN report[c] = {"paths", "complete", "exhausted"}
    BY DEF PathInv, SearchShape
  <1> DEFINE told == [paths |-> {p.steps : p \in Best}, complete |-> Complete,
                      exhausted |-> exhausted]
  <1>4. report' = [report EXCEPT ![pass] = told]
    BY DEF Return
  <1>5. DOMAIN told = {"paths", "complete", "exhausted"}
    OBVIOUS
  <1> HIDE DEF told
  <1>6. /\ DOMAIN report' = BOOLEAN /\ report'[pass] = told
        /\ \A c \in BOOLEAN : c # pass => report'[c] = report[c]
    BY <1>1, <1>3, <1>4
  <1>7. SearchShape'
    <2>1. \A c \in BOOLEAN : DOMAIN report'[c] = {"paths", "complete", "exhausted"}
      BY <1>3, <1>5, <1>6
    <2> QED
      BY <1>1, <1>6, <2>1 DEF SearchShape
  <1>8. FoundAreFew'
    <2>1. options.paths \in Nat
      BY <1>1, Known
    <2> QED
      BY <1>1, <2>1, FS_EmptySet DEF FoundAreFew
  <1>9. NothingLost'
    BY <1>1 DEF NothingLost
  <1>10. ReportsHold'
    <2> SUFFICES ASSUME NEW c \in BOOLEAN, Told(c)' PROVE GoodReport(c)'
      BY DEF ReportsHold
    <2>1. CASE c = pass
      <3>1. /\ report'[c] = told
            /\ Routes(c)' = Routes(pass) /\ \A w : Place(w)' = Place(w)
        BY <1>1, <1>6, <2>1, InputKept
      <3>2. LET all == Routes(pass)  given == {p.steps : p \in Best} IN
            /\ given \subseteq all
            /\ Complete => given = all
            /\ ~exhausted =>
                 /\ Cardinality(given) = Least(options.paths, Cardinality(all))
                 /\ \A w \in given, x \in all \ given : Before(Place(w), Place(x))
        BY <1>1, ReturnIsGood
      <3>3. /\ told.paths = {p.steps : p \in Best} /\ told.complete = Complete
            /\ told.exhausted = exhausted
        BY DEF told
      <3> QED
        BY <1>1, <3>1, <3>2, <3>3 DEF GoodReport
    <2>2. CASE c # pass
      <3>1. Told(c)
        BY <1>1, <2>2 DEF Told
      <3>2. GoodReport(c)
        BY <3>1 DEF PathInv, ReportsHold
      <3>3. report'[c] = report[c]
        BY <1>6, <2>2
      <3> QED
        BY <1>1, <3>2, <3>3, ReportKept
    <2> QED
      BY <2>1, <2>2
  <1> QED
    BY <1>1, <1>2, <1>7, <1>8, <1>9, <1>10
    DEF PathInv, PathsAreTrails, FoundArrive, FoundFirst, LastFound

LEMMA StandingStill ==
    ASSUME PathInv, UNCHANGED pathVars
    PROVE  PathInv'
  <1>1. /\ UNCHANGED <<input, pass, report>> /\ stage' = stage /\ queue' = queue /\ found' = found
        /\ exhausted' = exhausted /\ options' = options
    BY DEF pathVars, search, input
  <1>2. Given' /\ SearchShape'
    BY <1>1, GivenKept DEF PathInv, SearchShape
  <1>3. PathsAreTrails'
    <2> SUFFICES ASSUME NEW p \in queue \cup found
                 PROVE  Trail(p.steps, pass)' /\ p = PathOf(p.steps)'
      BY <1>1 DEF PathsAreTrails
    <2>1. Trail(p.steps, pass) /\ p = PathOf(p.steps)
      BY DEF PathInv, PathsAreTrails
    <2> QED
      BY <1>1, <2>1, TrailOf
  <1>4. FoundArrive' /\ FoundAreFew' /\ FoundFirst' /\ LastFound'
    <2>1. Targets' = Targets
      BY <1>1, InputKept
    <2> QED
      BY <1>1, <2>1 DEF PathInv, FoundArrive, FoundAreFew, FoundFirst, LastFound, Key
  <1>5. NothingLost'
    <2>1. Routes(pass)' = Routes(pass)
      BY <1>1, InputKept
    <2> QED
      BY <1>1, <2>1 DEF PathInv, NothingLost
  <1>6. ReportsHold'
    <2> SUFFICES ASSUME NEW c \in BOOLEAN, Told(c)' PROVE GoodReport(c)'
      BY DEF ReportsHold
    <2>1. Told(c)
      BY <1>1 DEF Told
    <2> QED
      BY <1>1, <2>1, ReportKept DEF PathInv, ReportsHold
  <1> QED
    BY <1>2, <1>3, <1>4, <1>5, <1>6 DEF PathInv

\* Every state of the command is in step with its graph: what is queued are beginnings of routes,
\* what was found are routes and the best there were, nothing is lost unless the search says so,
\* and what it reported is so (table_paths, schema_path).
THEOREM PathInvariant == PathSpec => []PathInv
  <1>1. PathInit => PathInv
    BY Starting
  <1>2. PathInv /\ [PathNext]_pathVars => PathInv'
    <2> SUFFICES ASSUME PathInv, [PathNext]_pathVars PROVE PathInv'
      OBVIOUS
    <2>1. CASE Begin
      BY <2>1, BeginKeeps
    <2>2. CASE Pop
      <3>1. /\ stage = "search" /\ ~Enough /\ UNCHANGED <<input, pass, stage, report>>
            /\ \E p \in queue : Next1(p) /\ (Reach(p) \/ Expand(p))
        BY <2>2 DEF Pop
      <3>2. PICK p \in queue : Next1(p) /\ (Reach(p) \/ Expand(p))
        BY <3>1
      <3>3. CASE Reach(p)
        BY <3>1, <3>2, <3>3, ReachKeeps
      <3>4. CASE Expand(p)
        BY <3>1, <3>2, <3>4, ExpandKeeps
      <3> QED
        BY <3>2, <3>3, <3>4
    <2>3. CASE Return
      BY <2>3, ReturnKeeps
    <2>4. CASE UNCHANGED pathVars
      BY <2>4, StandingStill
    <2> QED
      BY <2>1, <2>2, <2>3, <2>4 DEF PathNext
  <1> QED
    BY <1>1, <1>2, PTL DEF PathSpec

\* A search that left nothing out returns the best routes there are, as many as were asked for,
\* on every graph, for every availability of its fields and under every limit (table_paths).
THEOREM BestRoutes == PathSpec => []RoutesAreBest
  <1>1. PathInv => RoutesAreBest
    <2> SUFFICES ASSUME PathInv, stage = "over", NEW c \in BOOLEAN PROVE GoodReport(c)
      BY DEF RoutesAreBest, GoodReport
    <2> QED
      BY DEF PathInv, ReportsHold, Told
  <1> QED
    BY <1>1, PathInvariant, PTL

\* What the command concludes of the two tables is so of the graph: disconnected, candidate-only
\* and a complete list of routes (search_complete; outcome of schema_path).
THEOREM ReportTrue == PathSpec => []ReportIsTrue
  <1>1. PathInv => ReportIsTrue
    <2> SUFFICES ASSUME PathInv, stage = "over" PROVE ReportIsTrue
      BY DEF ReportIsTrue
    <2>1. /\ report[TRUE].paths \subseteq Routes(TRUE) /\ report[FALSE].paths \subseteq Routes(FALSE)
          /\ report[TRUE].complete => report[TRUE].paths = Routes(TRUE)
          /\ report[FALSE].complete => report[FALSE].paths = Routes(FALSE)
      <3>1. GoodReport(TRUE) /\ GoodReport(FALSE)
        BY DEF PathInv, ReportsHold, Told
      <3> QED
        BY <3>1 DEF GoodReport
    <2>2. CASE options.candidates = TRUE
      BY <2>1, <2>2 DEF ReportIsTrue, Outcome, Result, CandidateOnly
    <2>3. CASE options.candidates = FALSE
      BY <2>1, <2>3 DEF ReportIsTrue, Outcome, Result, CandidateOnly
    <2>4. options.candidates \in BOOLEAN
      BY Known DEF PathInv
    <2> QED
      BY <2>2, <2>3, <2>4
  <1> QED
    BY <1>1, PathInvariant, PTL
=============================================================================
