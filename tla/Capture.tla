------------------------------- MODULE Capture -------------------------------
(***************************************************************************)
(* schema collect --explore and results prune of one tenant: the capture   *)
(* engine with its job ledgers (capture_engine.py), the command around it  *)
(* that indexes what was captured and releases it (capture_orchestration), *)
(* and the pruning that must not remove what a ledger still needs          *)
(* (retention.py, results_cmd.py).                                         *)
(*                                                                         *)
(* A ledger is read and changed under the capture lock, by one command at  *)
(* a time, so one variable holds the copy in memory.  Pruning does not     *)
(* take that lock: it reads the files as they are.  The evidence lock      *)
(* covers the publication of an artifact with its ledger entry, and the    *)
(* whole of a pruning.  The service that answers queries is external.      *)
(***************************************************************************)
EXTENDS Naturals, Sequences, FiniteSets

CONSTANTS
    Explorers,      \* processes that run the explore command
    Pruner,         \* the process that prunes
    Tables,         \* physical tables of the plan
    Bindings,       \* what a ledger is bound to: backend, schema, horizon
    Budgets,        \* the size limits a call can be given
    TopCap,         \* request sizes left to try, 25,000 rows halved down to 100
    NoOne,          \* nobody holds the lock
    Faults,         \* which of "crash", "write" and "damage" may happen
    MaxCalls, MaxPrunes, MaxDays, MaxFaults  \* bounds

ASSUME CaptureAssumption ==
    /\ Pruner \notin Explorers
    /\ NoOne \notin Explorers \cup {Pruner}
    /\ Tables # {} /\ Bindings # {}
    /\ Budgets # {} /\ Budgets \subseteq Nat \ {0}
    /\ TopCap \in Nat \ {0}

VARIABLES
    ledgers,        \* the job ledgers on disk, in the order of their creation
    work,           \* the ledger in the memory of the capture lock's owner
    made, stored,   \* artifacts written so far, and those still there
    damaged, old,   \* artifacts whose bytes changed; that prune may delete
    retired,        \* artifacts older than the published retirement cutoff
    discovered,     \* artifacts whose content a published discovery used
    aged,           \* jobs older than job_ttl_seconds
    captureLock, evidenceLock,
    pc, self,       \* where each command is, and its local variables
    pruning,        \* where the pruning is, and what it will delete
    spent           \* how much of each bound is used

disk == <<ledgers, made, stored, damaged, old, retired, discovered>>
store == <<made, stored, damaged, old, retired, discovered>>
locks == <<captureLock, evidenceLock>>
vars == <<disk, work, aged, locks, pc, self, pruning, spent>>

-----------------------------------------------------------------------------
\* "malformed": failed for a reason in _TRANSIENT_FAILURES.
SliceStates == {"pending", "complete", "irretrievable", "failed", "malformed"}
Finished == {"closed", "superseded", "expired"}

\* cap and failures matter while a slice may be tried again, and are reset
\* when it is not.
Slices == [state : SliceStates, art : Nat, cap : 1..TopCap,
           limits : {0} \cup Budgets, failures : 0..1]

Ledgers == [status : {"open"} \cup Finished, handoff : {"pending", "consumed"},
            key : Bindings, slices : [Tables -> Slices]]

\* table: the one being fetched; art: written, not yet in the ledger.
Works == [job : Nat, ledger : Ledgers, table : Tables \cup {NoOne}, art : Nat]

Labels == {"idle", "open", "reconcile", "run", "request", "store", "write",
           "link", "finish", "refs", "index", "publish", "mark"}

\* fatal: the command ends with the run.  need: required source runs; gone:
\* the retired ones among them; hand: jobs whose handoff it completes.
Selves == [budget : Budgets, key : Bindings, fatal : BOOLEAN, need : SUBSET Nat,
           gone : SUBSET Nat, hand : SUBSET Nat]

NoSelf == [budget |-> CHOOSE b \in Budgets : TRUE, key |-> CHOOSE k \in Bindings : TRUE,
           fatal |-> FALSE, need |-> {}, gone |-> {}, hand |-> {}]

NewSlice == [state |-> "pending", art |-> 0, cap |-> TopCap, limits |-> 0, failures |-> 0]

NewLedger(k) == [status |-> "open", handoff |-> "pending", key |-> k,
                 slices |-> [t \in Tables |-> NewSlice]]

NoWork == [job |-> 0, ledger |-> NewLedger(CHOOSE k \in Bindings : TRUE),
           table |-> NoOne, art |-> 0]

\* The artifacts a ledger's completed slices point to.
Captured(led) == {led.slices[t].art : t \in {u \in Tables : led.slices[u].state = "complete"}}
Pending(led) == {t \in Tables : led.slices[t].state = "pending"}

\* Variant: a finished job no longer pins what it captured.
LiveWhileOpen(j) == ledgers[j].status = "open"

\* Ledgers whose artifacts retention must keep.
Live(j) == ledgers[j].status = "open" \/ ledgers[j].handoff = "pending"
LiveJobs == {j \in DOMAIN ledgers : Live(j)}
LiveArtifacts == UNION {Captured(ledgers[j]) : j \in LiveJobs}

Sound == stored \ damaged

Spend(what) == spent' = [spent EXCEPT ![what] = @ + 1]
MayFail(kind) == kind \in Faults /\ spent.faults < MaxFaults

Init ==
    /\ ledgers = << >> /\ work = NoWork
    /\ made = 0 /\ stored = {} /\ damaged = {} /\ old = {} /\ retired = {} /\ discovered = {}
    /\ aged = {}
    /\ captureLock = NoOne /\ evidenceLock = NoOne
    /\ pc = [e \in Explorers |-> "idle"]
    /\ self = [e \in Explorers |-> NoSelf]
    /\ pruning = [at |-> "idle", targets |-> {}]
    /\ spent = [calls |-> 0, prunes |-> 0, days |-> 0, faults |-> 0]

Goto(e, label) == pc' = [pc EXCEPT ![e] = label]

\* The command ends: whatever it holds is released with it.
EndCommand(e) ==
    /\ Goto(e, "idle")
    /\ self' = [self EXCEPT ![e] = NoSelf]
    /\ captureLock' = IF captureLock = e THEN NoOne ELSE captureLock
    /\ evidenceLock' = IF evidenceLock = e THEN NoOne ELSE evidenceLock
    /\ work' = IF captureLock = e THEN NoWork ELSE work

-----------------------------------------------------------------------------
(* Starting a job.                                                         *)

\* exclusive_lock(directory / ".capture"): ConflictError when it is held, and
\* the call has done nothing.  The binding is what the schema cache and the
\* configuration are when the command starts.
Explore(e) ==
    /\ pc[e] = "idle" /\ spent.calls < MaxCalls
    /\ captureLock = NoOne
    /\ captureLock' = e
    /\ \E b \in Budgets, k \in Bindings :
          self' = [self EXCEPT ![e] = [NoSelf EXCEPT !.budget = b, !.key = k]]
    /\ Goto(e, "open")
    /\ Spend("calls")
    /\ UNCHANGED <<disk, work, aged, evidenceLock, pruning>>

\* The open ledgers this call may resume.
Resumable(e, j) ==
    ledgers[j].status = "open" /\ ledgers[j].key = self[e].key /\ j \notin aged

Resumed(e) == {j \in DOMAIN ledgers : Resumable(e, j)}

Stale(e) == {j \in DOMAIN ledgers : ledgers[j].status = "open"} \ Resumed(e)

\* open_job closes an open ledger it cannot resume: one file, one save.
CloseStale(e) ==
    /\ pc[e] = "open"
    /\ \E j \in Stale(e) :
          ledgers' = [ledgers EXCEPT ![j].status =
              IF ledgers[j].key # self[e].key THEN "superseded" ELSE "expired"]
    /\ UNCHANGED <<store, work, aged, locks, pc, self, pruning, spent>>

Unconsumed(e) == {j \in DOMAIN ledgers : ledgers[j].status = "closed"
    /\ ledgers[j].handoff = "pending" /\ ledgers[j].key = self[e].key /\ j \notin aged}

\* Resume the open job, reuse the newest finished one that discovery has not
\* used, or save a new one.
OpenJob(e) ==
    /\ pc[e] = "open" /\ Stale(e) = {}
    /\ Goto(e, "reconcile")
    /\ \/ \E j \in Resumed(e) :
             work' = [NoWork EXCEPT !.job = j, !.ledger = ledgers[j]] /\ UNCHANGED ledgers
       \/ /\ Resumed(e) = {}
          /\ \E j \in Unconsumed(e) :
                /\ \A i \in Unconsumed(e) : i <= j
                /\ work' = [NoWork EXCEPT !.job = j, !.ledger = ledgers[j]]
          /\ UNCHANGED ledgers
       \/ /\ Resumed(e) = {} /\ Unconsumed(e) = {}
          /\ ledgers' = Append(ledgers, NewLedger(self[e].key))
          /\ work' = [NoWork EXCEPT !.job = Len(ledgers) + 1,
                                    !.ledger = NewLedger(self[e].key)]
    /\ UNCHANGED <<store, aged, locks, self, pruning, spent>>

\* sink.verify: the bytes and the metadata are those the ledger recorded; a
\* retired artifact still verifies.
Verified(a) == a \in Sound

\* The limits that made the gap were smaller than this call's.
Larger(slice, budget) == slice.limits # 0 /\ budget > slice.limits

\* Variant: a resumed job fetches its finished tables again.
ReopensAll(slice, budget) ==
    \/ slice.state \in {"complete", "malformed"}
    \/ slice.state = "irretrievable" /\ Larger(slice, budget)

Reopens(slice, budget) ==
    \/ slice.state = "complete" /\ ~ Verified(slice.art)
    \/ slice.state = "malformed"
    \/ slice.state = "irretrievable" /\ Larger(slice, budget)

ReopenedSlice(slice) ==
    [NewSlice EXCEPT !.cap = IF slice.state = "malformed" THEN slice.cap ELSE TopCap]

ReconciledSlice(slice, budget) ==
    IF Reopens(slice, budget) THEN ReopenedSlice(slice) ELSE [slice EXCEPT !.failures = 0]

Reconciled(led, budget) ==
    [led EXCEPT !.slices = [t \in Tables |-> ReconciledSlice(led.slices[t], budget)],
                !.status = IF \E t \in Tables : Reopens(led.slices[t], budget)
                           THEN "open" ELSE led.status]

Reconcile(e) ==
    /\ pc[e] = "reconcile"
    /\ work' = [work EXCEPT !.ledger = Reconciled(work.ledger, self[e].budget)]
    /\ ledgers' = [ledgers EXCEPT ![work.job] = work'.ledger]
    /\ Goto(e, "run")
    /\ UNCHANGED <<store, aged, locks, self, pruning, spent>>

-----------------------------------------------------------------------------
(* Running it.  Every change is made in memory and then saved.             *)

Slice == work.ledger.slices[work.table]
WithSlice(s) == [work.ledger EXCEPT !.slices[work.table] = s]

Abort(e) ==
    /\ self' = [self EXCEPT ![e].fatal = TRUE]
    /\ Goto(e, "finish")

\* ledger.save() in run: when it fails, _finish still saves what is in memory.
Save(e, next) ==
    \/ /\ ledgers' = [ledgers EXCEPT ![work.job] = work'.ledger]
       /\ Goto(e, next)
       /\ UNCHANGED <<self, spent>>
    \/ /\ MayFail("write") /\ Spend("faults")
       /\ Abort(e)
       /\ UNCHANGED ledgers

\* The next pending table; the attempt is saved before the request is sent.
NextTable(e) ==
    /\ pc[e] = "run" /\ work.ledger.status \in {"open", "closed"}
    /\ \E t \in Pending(work.ledger) :
          work' = [work EXCEPT !.table = t]
    /\ Save(e, "request")
    /\ UNCHANGED <<store, aged, locks, pruning>>

\* Nothing is pending; or a budget or the deadline of this call is used up, or
\* resume_after still lies in the future.
EndRun(e) ==
    /\ pc[e] = "run"
    /\ Goto(e, "finish")
    /\ UNCHANGED <<disk, work, aged, locks, self, pruning, spent>>

\* Variant: the smallest request is repeated instead of recorded as a gap.
ReducedToOne(s, budget) == IF s.cap > 1 THEN [s EXCEPT !.cap = @ - 1] ELSE s

\* _reduce: half the request, or an explicit gap with the limits that caused it.
Reduced(s, budget) ==
    IF s.cap > 1 THEN [s EXCEPT !.cap = @ - 1]
                 ELSE [NewSlice EXCEPT !.state = "irretrievable", !.limits = budget]

Mangled(s) == [s EXCEPT !.state = "malformed", !.failures = 0]
Malformed(s) == IF s.failures = 1 THEN Mangled(s) ELSE [s EXCEPT !.failures = 1]

\* What one request can leave behind other than the table's rows: too large
\* or too slow, an incomplete answer, a rejected query, an answer that is not
\* what the query must return.
Outcomes(s, budget) ==
    {Reduced(s, budget), Malformed(s), Mangled(s), [NewSlice EXCEPT !.state = "failed"]}

Answered(e) ==
    /\ pc[e] = "request"
    /\ \E s \in Outcomes(Slice, self[e].budget) :
          work' = [work EXCEPT !.table = NoOne, !.ledger = WithSlice(s)]
    /\ Save(e, "run")
    /\ UNCHANGED <<store, aged, locks, pruning>>

\* Every row arrived: the packets and the control packet agree.
AnsweredWhole(e) ==
    /\ pc[e] = "request"
    /\ Goto(e, "store")
    /\ UNCHANGED <<disk, work, aged, locks, self, pruning, spent>>

\* _StopSignal in a request: throttled for long, network, upstream, deadline
\* (which also reduces the table's request), or an answer from another
\* execution surface than the job's first.
Stopped(e) ==
    /\ pc[e] = "request"
    /\ Goto(e, "finish")
    /\ work' \in {work, [work EXCEPT !.ledger.status = "superseded"],
                  [work EXCEPT !.ledger = WithSlice(Reduced(Slice, self[e].budget))]}
    /\ UNCHANGED <<disk, aged, locks, self, pruning, spent>>

\* Any other exception, or cancellation: _finish, then the command ends.
Fatal(e) ==
    /\ pc[e] = "request"
    /\ Abort(e)
    /\ UNCHANGED <<disk, work, aged, locks, pruning, spent>>

\* schema_evidence_lock: ConflictError when another process holds it.
LockEvidence(e) ==
    /\ pc[e] = "store"
    /\ \/ /\ evidenceLock = NoOne
          /\ evidenceLock' = e
          /\ Goto(e, "write")
          /\ UNCHANGED self
       \/ /\ evidenceLock # NoOne
          /\ Abort(e)
          /\ UNCHANGED evidenceLock
    /\ UNCHANGED <<disk, work, aged, captureLock, pruning, spent>>

WriteArtifact(e) ==
    /\ pc[e] = "write"
    /\ made' = made + 1
    /\ stored' = stored \cup {made + 1}
    /\ work' = [work EXCEPT !.art = made + 1]
    /\ Goto(e, "link")
    /\ UNCHANGED <<ledgers, damaged, old, retired, discovered, aged, locks, self,
                   pruning, spent>>

Linked == WithSlice([NewSlice EXCEPT !.state = "complete", !.art = work.art])

\* The evidence lock is free again however the save ends.
LinkArtifact(e) ==
    /\ pc[e] = "link"
    /\ work' = [work EXCEPT !.ledger = Linked, !.art = 0, !.table = NoOne]
    /\ Save(e, "run")
    /\ evidenceLock' = NoOne
    /\ UNCHANGED <<store, aged, captureLock, pruning>>

\* _finish: nothing pending closes an open job.
Closing(led) ==
    IF led.status = "open" /\ Pending(led) = {} THEN [led EXCEPT !.status = "closed"] ELSE led

Finish(e) ==
    /\ pc[e] = "finish"
    /\ ledgers' = [ledgers EXCEPT ![work.job] = Closing(work.ledger)]
    /\ \/ self[e].fatal /\ EndCommand(e)
       \/ /\ ~ self[e].fatal
          /\ captureLock' = NoOne /\ work' = NoWork
          /\ self' = [self EXCEPT ![e] = [NoSelf EXCEPT
                !.need = Captured(work.ledger),
                !.hand = IF Closing(work.ledger).status = "closed" THEN {work.job} ELSE {}]]
          /\ Goto(e, "refs")
          /\ UNCHANGED evidenceLock
    /\ UNCHANGED <<store, aged, pruning, spent>>

\* A file that cannot be written elsewhere: the artifact, which only ends the
\* run, or a ledger outside of run, which ends the command.
WriteFails(e) ==
    /\ MayFail("write") /\ Spend("faults")
    /\ \/ pc[e] \in {"open", "reconcile", "finish", "mark"} /\ EndCommand(e)
       \/ /\ pc[e] = "write" /\ Abort(e)
          /\ evidenceLock' = NoOne
          /\ UNCHANGED <<captureLock, work>>
    /\ UNCHANGED <<disk, aged, pruning>>

-----------------------------------------------------------------------------
(* Using what was captured.                                                *)

Waiting == {j \in LiveJobs : ledgers[j].status # "open" /\ Captured(ledgers[j]) # {}}

\* live_capture_references, read without a lock, and the sources among them
\* that pruning has retired; one of those that does not verify ends the command.
ReadReferences(e) ==
    LET need == self[e].need \cup UNION {Captured(ledgers[j]) : j \in Waiting}
        gone == need \cap retired \cap stored
    IN
    /\ pc[e] = "refs"
    /\ \/ /\ gone \subseteq LiveArtifacts \cap Sound
          /\ self' = [self EXCEPT ![e] = [@ EXCEPT !.need = need \ gone, !.gone = gone,
                                                   !.hand = self[e].hand \cup Waiting]]
          /\ Goto(e, "index")
          /\ UNCHANGED <<locks, work>>
       \/ ~ (gone \subseteq LiveArtifacts \cap Sound) /\ EndCommand(e)
    /\ UNCHANGED <<disk, aged, pruning, spent>>

Indexable == Sound \ retired

\* collect_local reads the artifacts it finds.  Only when it has read all that
\* it needs is the handoff ready; out of time, it stops before it publishes.
IndexSources(e) ==
    /\ pc[e] = "index"
    /\ \/ /\ self[e].need \subseteq Indexable
          /\ Goto(e, "publish")
          /\ UNCHANGED <<self, locks, work>>
       \/ EndCommand(e)
    /\ UNCHANGED <<disk, aged, pruning, spent>>

\* The overlay is published under the evidence lock, or is not published: the
\* lock is busy, another process published first, validation failed.
PublishDiscovery(e) ==
    /\ pc[e] = "publish"
    /\ \/ /\ evidenceLock = NoOne
          /\ discovered' = discovered \cup self[e].need
          /\ Goto(e, "mark")
          /\ UNCHANGED <<self, locks, work>>
       \/ EndCommand(e) /\ UNCHANGED discovered
    /\ UNCHANGED <<ledgers, made, stored, damaged, old, retired, aged, pruning, spent>>

\* Variant: the job is released without looking at what it refers to now.
CoveredWhenDone(e, j) == ledgers[j].status # "open"

\* mark_capture_consumed checks what the ledger refers to now.
Covered(e, j) ==
    /\ ledgers[j].status # "open"
    /\ Captured(ledgers[j]) \subseteq self[e].need \cup self[e].gone

MarkConsumed(e) ==
    /\ pc[e] = "mark" /\ self[e].hand # {}
    /\ \/ /\ captureLock = NoOne
          /\ LET j == CHOOSE i \in self[e].hand : \A k \in self[e].hand : i <= k
             IN /\ ledgers' = IF Covered(e, j) THEN [ledgers EXCEPT ![j].handoff = "consumed"]
                                               ELSE ledgers
                /\ self' = [self EXCEPT ![e].hand = @ \ {j}]
          /\ UNCHANGED <<pc, locks, work>>
       \/ captureLock # NoOne /\ EndCommand(e) /\ UNCHANGED ledgers
    /\ UNCHANGED <<store, aged, pruning, spent>>

Marked(e) ==
    /\ pc[e] = "mark" /\ self[e].hand = {}
    /\ EndCommand(e)
    /\ UNCHANGED <<disk, aged, pruning, spent>>

-----------------------------------------------------------------------------
(* results prune.                                                          *)

EndPrune ==
    /\ pruning' = [at |-> "idle", targets |-> {}]
    /\ evidenceLock' = NoOne

\* Under the evidence lock: the plan keeps every artifact a live ledger needs,
\* and fails when one of them is missing or does not verify.
PlanPrune ==
    /\ pruning.at = "idle" /\ spent.prunes < MaxPrunes
    /\ evidenceLock = NoOne
    /\ LiveArtifacts \subseteq Sound
    /\ evidenceLock' = Pruner
    /\ pruning' = [at |-> "retire", targets |-> (old \cap stored) \ LiveArtifacts]
    /\ Spend("prunes")
    /\ UNCHANGED <<disk, work, aged, captureLock, pc, self>>

\* The retirement is published before the first byte is deleted.
Retire ==
    /\ pruning.at = "retire"
    /\ retired' = retired \cup old
    /\ pruning' = [pruning EXCEPT !.at = "delete"]
    /\ UNCHANGED <<ledgers, made, stored, damaged, old, discovered, work, aged, locks, pc,
                   self, spent>>

DeleteOne ==
    /\ pruning.at = "delete"
    /\ \E a \in pruning.targets :
          /\ stored' = stored \ {a}
          /\ pruning' = [pruning EXCEPT !.targets = @ \ {a}]
    /\ UNCHANGED <<ledgers, made, damaged, old, retired, discovered, work, aged, locks, pc,
                   self, spent>>

FinishPrune ==
    /\ pruning.at = "delete" /\ pruning.targets = {}
    /\ EndPrune
    /\ UNCHANGED <<disk, work, aged, captureLock, pc, self, spent>>

-----------------------------------------------------------------------------
(* The environment: a crash frees the locks and loses what was in memory.  *)

Crash(e) ==
    /\ MayFail("crash") /\ Spend("faults")
    /\ pc[e] # "idle"
    /\ EndCommand(e)
    /\ UNCHANGED <<disk, aged, pruning>>

CrashPrune ==
    /\ MayFail("crash") /\ Spend("faults")
    /\ pruning.at # "idle"
    /\ EndPrune
    /\ UNCHANGED <<disk, work, aged, captureLock, pc, self>>

Damage ==
    /\ MayFail("damage") /\ Spend("faults")
    /\ \E a \in Sound : damaged' = damaged \cup {a}
    /\ UNCHANGED <<ledgers, made, stored, old, retired, discovered, work, aged, locks, pc,
                   self, pruning>>

\* A day passes: results prune can delete every artifact written so far, and
\* the jobs so far have passed their time to live.  It does not pass between the
\* writing of an artifact and the save that links it, _finish's included.
Day ==
    /\ spent.days < MaxDays /\ Spend("days")
    /\ \A e \in Explorers : pc[e] \notin {"link", "finish"}
    /\ old' = 1..made
    /\ aged' = DOMAIN ledgers
    /\ UNCHANGED <<ledgers, made, stored, damaged, retired, discovered, work, locks,
                   pc, self, pruning>>

ExploreStep(e) ==
    \/ CloseStale(e) \/ OpenJob(e) \/ Reconcile(e)
    \/ NextTable(e) \/ EndRun(e) \/ Answered(e) \/ AnsweredWhole(e) \/ Stopped(e) \/ Fatal(e)
    \/ LockEvidence(e) \/ WriteArtifact(e) \/ LinkArtifact(e) \/ Finish(e)
    \/ ReadReferences(e) \/ IndexSources(e) \/ PublishDiscovery(e) \/ MarkConsumed(e)
    \/ Marked(e)

PruneStep == Retire \/ DeleteOne \/ FinishPrune

Next ==
    \/ \E e \in Explorers : ExploreStep(e) \/ Explore(e) \/ WriteFails(e) \/ Crash(e)
    \/ PlanPrune \/ PruneStep \/ CrashPrune
    \/ Damage \/ Day

Spec == Init /\ [][Next]_vars

-----------------------------------------------------------------------------
(* Properties.                                                             *)

\* The state has the shape that the ledgers, the locks and the results
\* directory have (_validated_ledger).
TypeOK ==
    /\ ledgers \in Seq(Ledgers) /\ work \in Works
    /\ made \in Nat
    /\ stored \subseteq 1..made /\ damaged \subseteq 1..made
    /\ old \subseteq 1..made /\ retired \subseteq 1..made /\ discovered \subseteq Nat
    /\ aged \subseteq Nat
    /\ captureLock \in Explorers \cup {NoOne}
    /\ evidenceLock \in Explorers \cup {Pruner, NoOne}
    /\ pc \in [Explorers -> Labels] /\ self \in [Explorers -> Selves]
    /\ pruning \in [at : {"idle", "retire", "delete"}, targets : SUBSET Nat]

\* Pruning never removes an artifact of a job that is not released, although
\* it reads the ledgers without the lock under which they change
\* (live_capture_references, _Runner._store).
PinnedSurvives ==
    [][\A j \in DOMAIN ledgers : ledgers[j].handoff = "pending" =>
          Captured(ledgers[j]) \cap stored \subseteq stored']_vars

\* A job is released only when discovery has used everything it captured,
\* or pruning has retired it: no captured data goes unseen
\* (mark_capture_consumed).
ConsumedIsUsed ==
    \A j \in DOMAIN ledgers : ledgers[j].handoff = "consumed" =>
        Captured(ledgers[j]) \subseteq discovered \cup retired

Open == {j \in DOMAIN ledgers : ledgers[j].status = "open"}

\* At most one job of the tenant is open, so a rerun resumes the job it means
\* (open_job).
OneOpenJob == \A i, j \in Open : i = j

\* A finished table is not fetched again while its artifact is there
\* ("resumes without refetching finished tables").
CapturedOnce ==
    [][\A j \in DOMAIN ledgers, t \in Tables :
          LET s == ledgers[j].slices[t]
              n == ledgers'[j].slices[t]
          IN s.state = "complete" /\ s.art \in Sound => n.state = s.state /\ n.art = s.art]_vars

\* A job that is released stays as it was released: nothing is captured into
\* it, and it is never pinned again (mark_capture_consumed, open_job).
HandoffIsFinal ==
    [][\A j \in DOMAIN ledgers :
          ledgers[j].handoff = "consumed" => ledgers'[j] = ledgers[j]]_vars

\* A closed job has no pending table: what it lacks is a recorded gap or
\* failure (_finish, reconcile).
NoSilentGap ==
    \A j \in DOMAIN ledgers : ledgers[j].status = "closed" => Pending(ledgers[j]) = {}

\* What a slice may still cost: requests to shrink, answers to repeat.
Left(s) == IF s.state = "pending" THEN 2 * s.cap - s.failures ELSE 0

\* Retrying comes to an end: a run goes back to its loop only with less left
\* to try for the table it asked for (_reduce, protocol_failures, _store).
RetriesRunOut ==
    [][\A e \in Explorers : pc[e] \in {"request", "link"} /\ pc'[e] = "run" =>
          /\ Left(work'.ledger.slices[work.table]) < Left(Slice)
          /\ \A t \in Tables \ {work.table} : work'.ledger.slices[t] = work.ledger.slices[t]]_vars

=============================================================================
