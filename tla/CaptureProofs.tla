---------------------------- MODULE CaptureProofs ----------------------------
(***************************************************************************)
(* Theorems about Capture.  Ledgers says what holds of the files whoever   *)
(* reads them; Memory what the owner of the capture lock may rely on: its  *)
(* job is the only one that can be open, is not released, and the copy in  *)
(* memory closes no table that is pending.                                 *)
(***************************************************************************)
EXTENDS Capture, SequenceTheorems, TLAPS

Holding == {"open", "reconcile", "run", "request", "store", "write", "link", "finish"}
Asking == {"request", "store", "write", "link"}
HasJob == Holding \ {"open"}

OneOpen(L) == \A i, j \in DOMAIN L : L[i].status = "open" /\ L[j].status = "open" => i = j
NoGap(L) == \A j \in DOMAIN L : L[j].status = "closed" => Pending(L[j]) = {}
Used(L, D) == \A j \in DOMAIN L : L[j].handoff = "consumed" =>
                 L[j].status # "open" /\ Captured(L[j]) \subseteq D

\* What holds of the ledger files, with D the artifacts used or retired.
Files(L, D) == L \in Seq(Ledgers) /\ OneOpen(L) /\ NoGap(L) /\ Used(L, D)

Only(L, k) == \A j \in DOMAIN L : L[j].status = "open" => j = k

Gapless(led) == led.status = "closed" => Pending(led) = {}

\* What a command with a job has in memory.
Memory(l, w, L) ==
    l \in HasJob =>
      /\ w.job \in DOMAIN L /\ L[w.job].handoff = "pending"
      /\ w.ledger.handoff = "pending" /\ Gapless(w.ledger)
      /\ Only(L, w.job)
      /\ l \in Asking => /\ w.table \in Tables /\ w.ledger.status = "open"
                         /\ w.ledger.slices[w.table].state = "pending"

Ready(l, m, disc, ret) ==
    m.gone \subseteq ret /\ (l = "mark" => m.need \subseteq disc)

Shapes ==
    /\ work \in Works
    /\ made \in Nat
    /\ stored \subseteq 1..made /\ damaged \subseteq 1..made
    /\ old \subseteq 1..made /\ retired \subseteq 1..made /\ discovered \subseteq Nat
    /\ aged \subseteq Nat
    /\ evidenceLock \in Explorers \cup {Pruner, NoOne}
    /\ pruning \in [at : {"idle", "retire", "delete"}, targets : SUBSET Nat]

Holds(e, l, owner) == l \in Holding <=> owner = e

Inv ==
    /\ Shapes
    /\ captureLock \in Explorers \cup {NoOne}
    /\ pc \in [Explorers -> Labels] /\ self \in [Explorers -> Selves]
    /\ Files(ledgers, discovered \cup retired)
    /\ \A e \in Explorers : Holds(e, pc[e], captureLock)
    /\ \A e \in Explorers : Memory(pc[e], work, ledgers)
    /\ \A e \in Explorers : Ready(pc[e], self[e], discovered, retired)

\* Released ledgers stay as they are.
Frozen(L, M) == \A j \in DOMAIN L : L[j].handoff = "consumed" => j \in DOMAIN M /\ M[j] = L[j]

-----------------------------------------------------------------------------
(* Ledgers and slices *)

LEMMA Constants ==
    /\ NoSelf \in Selves /\ NoSelf.gone = {} /\ NoSelf.need = {}
    /\ NoWork \in Works
    /\ NewSlice \in Slices /\ NewSlice.state = "pending"
    /\ \A k \in Bindings : /\ NewLedger(k) \in Ledgers
                           /\ NewLedger(k).handoff = "pending" /\ NewLedger(k).status = "open"
  <1>1. NewSlice \in Slices /\ NewSlice.state = "pending"
    BY CaptureAssumption DEF NewSlice, Slices, SliceStates
  <1>2. \A k \in Bindings : /\ NewLedger(k) \in Ledgers
                            /\ NewLedger(k).handoff = "pending" /\ NewLedger(k).status = "open"
    BY <1>1 DEF NewLedger, Ledgers
  <1>3. (CHOOSE b \in Budgets : TRUE) \in Budgets /\ (CHOOSE k \in Bindings : TRUE) \in Bindings
    BY CaptureAssumption
  <1>4. NoSelf \in Selves /\ NoSelf.gone = {} /\ NoSelf.need = {}
    BY <1>3 DEF NoSelf, Selves
  <1>5. NoWork \in Works
    BY <1>2, <1>3 DEF NoWork, Works
  <1> QED
    BY <1>1, <1>2, <1>4, <1>5

\* Every outcome of a request is a slice, with less left to try.
LEMMA OutcomesShrink ==
    ASSUME NEW s \in Slices, NEW b \in Budgets, NEW r \in Outcomes(s, b)
    PROVE  /\ r \in Slices
           /\ s.state = "pending" => Left(r) < Left(s) /\ r.state # "complete"
  <1>1. s.cap \in 1..TopCap /\ s.failures \in 0..1 /\ TopCap \in Nat \ {0}
    BY CaptureAssumption DEF Slices
  <1>2. NewSlice \in Slices
    BY Constants
  <1>3. CASE r = Reduced(s, b)
    <2>1. CASE s.cap > 1
      <3>1. r = [s EXCEPT !.cap = @ - 1]
        BY <1>3, <2>1 DEF Reduced
      <3>2. s.cap - 1 \in 1..TopCap
        BY <1>1, <2>1
      <3>3. r \in Slices /\ r.cap = s.cap - 1 /\ r.failures = s.failures /\ r.state = s.state
        BY <3>1, <3>2 DEF Slices
      <3> QED
        BY <3>3, <1>1 DEF Left
    <2>2. CASE ~ (s.cap > 1)
      <3>1. r = [NewSlice EXCEPT !.state = "irretrievable", !.limits = b]
        BY <1>3, <2>2 DEF Reduced
      <3>2. r \in Slices /\ r.state = "irretrievable"
        BY <3>1, <1>2 DEF Slices, SliceStates
      <3> QED
        BY <3>2, <1>1 DEF Left
    <2> QED
      BY <2>1, <2>2
  <1>4. CASE r = Mangled(s)
    <2>1. r = [s EXCEPT !.state = "malformed", !.failures = 0]
      BY <1>4 DEF Mangled
    <2>2. 0 \in 0..1 /\ "malformed" \in SliceStates
      BY DEF SliceStates
    <2>3. r \in Slices /\ r.state = "malformed"
      BY <2>1, <2>2 DEF Slices
    <2> QED
      BY <2>3, <1>1 DEF Left
  <1>5. CASE r = Malformed(s) /\ r # Mangled(s)
    <2>1. r = [s EXCEPT !.failures = 1] /\ s.failures # 1
      BY <1>5 DEF Malformed
    <2>2. r \in Slices /\ r.state = s.state /\ r.cap = s.cap /\ r.failures = 1
      BY <2>1 DEF Slices
    <2> QED
      BY <2>1, <2>2, <1>1 DEF Left
  <1>6. CASE r = [NewSlice EXCEPT !.state = "failed"]
    <2>1. r \in Slices /\ r.state = "failed"
      BY <1>6, <1>2 DEF Slices, SliceStates
    <2> QED
      BY <2>1, <1>1 DEF Left
  <1> QED
    BY <1>3, <1>4, <1>5, <1>6 DEF Outcomes

Put(led, t, s) == [led EXCEPT !.slices[t] = s]

\* Changing one slice keeps the rest of a ledger.
LEMMA SliceChange ==
    ASSUME NEW led \in Ledgers, NEW t \in Tables, NEW s \in Slices
    PROVE  /\ Put(led, t, s) \in Ledgers /\ Put(led, t, s).status = led.status
           /\ Put(led, t, s).handoff = led.handoff /\ Put(led, t, s).slices[t] = s
           /\ \A u \in Tables \ {t} : Put(led, t, s).slices[u] = led.slices[u]
  BY DEF Ledgers, Put

LEMMA SliceInHand ==
    ASSUME work.ledger \in Ledgers, work.table \in Tables, NEW s \in Slices
    PROVE  /\ WithSlice(s) \in Ledgers /\ WithSlice(s).status = work.ledger.status
           /\ WithSlice(s).handoff = work.ledger.handoff /\ WithSlice(s).slices[work.table] = s
           /\ \A u \in Tables \ {work.table} : WithSlice(s).slices[u] = work.ledger.slices[u]
  <1>1. WithSlice(s) = Put(work.ledger, work.table, s)
    BY DEF WithSlice, Put
  <1> QED
    BY <1>1, SliceChange

\* Reconciling keeps a ledger's kind, and opens it when a table is pending again.
LEMMA ReconciledKeeps ==
    ASSUME NEW led \in Ledgers, NEW b \in Budgets, Gapless(led)
    PROVE  /\ Reconciled(led, b) \in Ledgers /\ Gapless(Reconciled(led, b))
           /\ Reconciled(led, b).handoff = led.handoff
  <1> DEFINE r == Reconciled(led, b)
  <1>1. \A t \in Tables : led.slices[t] \in Slices
    BY DEF Ledgers
  <1>2. ASSUME NEW t \in Tables
        PROVE  /\ ReconciledSlice(led.slices[t], b) \in Slices
               /\ ~ Reopens(led.slices[t], b) =>
                     ReconciledSlice(led.slices[t], b).state = led.slices[t].state
    <2> DEFINE s == led.slices[t]
    <2>1. s \in Slices
      BY <1>1
    <2>2. ReopenedSlice(s) \in Slices
      <3>1. (IF s.state = "malformed" THEN s.cap ELSE TopCap) \in 1..TopCap
        BY <2>1, CaptureAssumption DEF Slices
      <3> QED
        BY <3>1, Constants DEF ReopenedSlice, Slices
    <2>3. [s EXCEPT !.failures = 0] \in Slices /\ [s EXCEPT !.failures = 0].state = s.state
      BY <2>1 DEF Slices
    <2> QED
      BY <2>2, <2>3 DEF ReconciledSlice
  <1>3. r.slices = [t \in Tables |-> ReconciledSlice(led.slices[t], b)] /\ r.handoff = led.handoff
    BY DEF Reconciled, Ledgers
  <1>4. r.status = IF \E t \in Tables : Reopens(led.slices[t], b) THEN "open" ELSE led.status
    BY DEF Reconciled, Ledgers
  <1>5. r \in Ledgers
    <2>1. [t \in Tables |-> ReconciledSlice(led.slices[t], b)] \in [Tables -> Slices]
      BY <1>2
    <2> QED
      BY <2>1 DEF Reconciled, Ledgers
  <1>6. Gapless(r)
    <2> SUFFICES ASSUME r.status = "closed", NEW t \in Tables PROVE r.slices[t].state # "pending"
      BY DEF Gapless, Pending
    <2>1. led.status = "closed" /\ ~ Reopens(led.slices[t], b)
      BY <1>4
    <2>2. led.slices[t].state # "pending"
      BY <2>1 DEF Gapless, Pending
    <2> QED
      BY <2>1, <2>2, <1>2, <1>3
  <1> QED
    BY <1>3, <1>5, <1>6

\* _finish closes only what has nothing pending.
LEMMA ClosingKeeps ==
    ASSUME NEW led \in Ledgers, Gapless(led)
    PROVE  /\ Closing(led) \in Ledgers /\ Gapless(Closing(led))
           /\ Closing(led).handoff = led.handoff /\ Closing(led).slices = led.slices
  <1>1. CASE led.status = "open" /\ Pending(led) = {}
    <2>1. Closing(led) = [led EXCEPT !.status = "closed"]
      BY <1>1 DEF Closing
    <2>2. Closing(led) \in Ledgers /\ Closing(led).handoff = led.handoff
          /\ Closing(led).slices = led.slices
      BY <2>1 DEF Ledgers, Finished
    <2> QED
      BY <1>1, <2>2 DEF Gapless, Pending
  <1>2. CASE ~ (led.status = "open" /\ Pending(led) = {})
    BY <1>2 DEF Closing
  <1> QED
    BY <1>1, <1>2

Saved(L, k, led) == [L EXCEPT ![k] = led]

\* Saving the job in memory: it is the only one that can be open.
LEMMA SaveFiles ==
    ASSUME NEW L \in Seq(Ledgers), NEW D, Files(L, D), NEW k \in DOMAIN L, Only(L, k),
           L[k].handoff = "pending", NEW led \in Ledgers, led.handoff = "pending", Gapless(led)
    PROVE  /\ Files(Saved(L, k, led), D) /\ Only(Saved(L, k, led), k)
           /\ Frozen(L, Saved(L, k, led)) /\ Saved(L, k, led)[k] = led
           /\ DOMAIN Saved(L, k, led) = DOMAIN L
  <1> DEFINE M == Saved(L, k, led)
  <1>1. M \in Seq(Ledgers) /\ DOMAIN M = DOMAIN L
    BY ExceptSeq DEF Saved
  <1>2. M[k] = led /\ \A j \in DOMAIN L : j # k => M[j] = L[j]
    BY <1>1 DEF Saved
  <1> HIDE DEF M
  <1>3. Only(M, k)
    BY <1>1, <1>2 DEF Only
  <1>4. NoGap(M)
    BY <1>1, <1>2 DEF Files, NoGap, Gapless
  <1>5. Used(M, D)
    BY <1>1, <1>2 DEF Files, Used
  <1>6. Frozen(L, M)
    BY <1>1, <1>2 DEF Frozen
  <1>7. Files(M, D)
    BY <1>1, <1>3, <1>4, <1>5 DEF Files, OneOpen, Only
  <1> QED
    BY <1>1, <1>2, <1>3, <1>6, <1>7 DEF M

-----------------------------------------------------------------------------
(* Steps *)

\* A step of one explorer, which keeps what it says of itself and leaves the
\* memory of another owner of the capture lock alone.
LEMMA Moved ==
    ASSUME Inv, NEW e \in Explorers, NEW l \in Labels, NEW m \in Selves,
           pc' = [pc EXCEPT ![e] = l], self' = [self EXCEPT ![e] = m],
           Shapes', Holds(e, l, captureLock'),
           \/ captureLock' = captureLock
           \/ captureLock = NoOne /\ captureLock' = e
           \/ captureLock = e /\ captureLock' = NoOne,
           captureLock \in {e, NoOne} \/ (work' = work /\ ledgers' = ledgers),
           Files(ledgers', (discovered \cup retired)'),
           discovered \subseteq discovered', retired \subseteq retired',
           Memory(l, work', ledgers'), Ready(l, m, discovered', retired')
    PROVE  Inv'
  <1>1. /\ captureLock' \in Explorers \cup {NoOne}
        /\ pc' \in [Explorers -> Labels] /\ self' \in [Explorers -> Selves]
        /\ pc'[e] = l /\ self'[e] = m
        /\ \A f \in Explorers \ {e} : pc'[f] = pc[f] /\ self'[f] = self[f]
    BY DEF Inv
  <1>2. ASSUME NEW f \in Explorers \ {e} PROVE Holds(f, pc'[f], captureLock')
    <2>1. Holds(f, pc[f], captureLock) /\ f # NoOne /\ e # NoOne
      BY CaptureAssumption DEF Inv
    <2> QED
      BY <1>1, <2>1 DEF Holds
  <1>3. ASSUME NEW f \in Explorers \ {e} PROVE Memory(pc'[f], work', ledgers')
    <2>1. Holds(f, pc[f], captureLock) /\ f # NoOne /\ Memory(pc[f], work, ledgers)
      BY CaptureAssumption DEF Inv
    <2>2. CASE captureLock \in {e, NoOne}
      BY <1>1, <2>1, <2>2 DEF Holds, Memory, HasJob
    <2>3. CASE work' = work /\ ledgers' = ledgers
      BY <1>1, <2>1, <2>3
    <2> QED
      BY <2>2, <2>3
  <1>4. ASSUME NEW f \in Explorers \ {e} PROVE Ready(pc'[f], self'[f], discovered', retired')
    BY <1>1 DEF Inv, Ready
  <1> QED
    BY <1>1, <1>2, <1>3, <1>4 DEF Inv

\* The command ends: it forgets everything.
LEMMA Ended ==
    ASSUME Inv, NEW e \in Explorers, EndCommand(e), UNCHANGED <<store, aged, pruning>>,
           captureLock = e \/ ledgers' = ledgers, Files(ledgers', discovered \cup retired)
    PROVE  Inv'
  <1>1. e # NoOne /\ Holds(e, pc[e], captureLock)
    BY CaptureAssumption DEF Inv
  <1>2. "idle" \in Labels /\ "idle" \notin Holding /\ "idle" \notin HasJob
    BY DEF Labels, Holding, HasJob
  <1>3. Shapes'
    BY Constants DEF Inv, Shapes, EndCommand, store
  <1>4. Memory("idle", work', ledgers') /\ Ready("idle", NoSelf, discovered', retired')
    BY <1>2, Constants DEF Memory, Ready
  <1>5. Holds(e, "idle", captureLock')
    BY <1>1, <1>2 DEF Holds, EndCommand
  <1>6. /\ discovered' = discovered /\ retired' = retired
        /\ (discovered \cup retired)' = discovered \cup retired
    BY DEF store
  <1>7. captureLock' = captureLock \/ (captureLock = e /\ captureLock' = NoOne)
    BY DEF EndCommand
  <1>8. captureLock \in {e, NoOne} \/ (work' = work /\ ledgers' = ledgers)
    BY DEF EndCommand
  <1>9. pc' = [pc EXCEPT ![e] = "idle"] /\ self' = [self EXCEPT ![e] = NoSelf] /\ NoSelf \in Selves
    BY Constants DEF EndCommand, Goto
  <1> QED
    BY <1>2, <1>3, <1>4, <1>5, <1>6, <1>7, <1>8, <1>9, Moved

LEMMA StayFrozen ==
    ASSUME NEW L, NEW M, M = L
    PROVE  Frozen(L, M)
  BY DEF Frozen

-----------------------------------------------------------------------------
(* Starting *)

LEMMA ExploreStarts ==
    ASSUME Inv, NEW e \in Explorers, Explore(e)
    PROVE  Inv' /\ Frozen(ledgers, ledgers')
  <1>1. PICK b \in Budgets, k \in Bindings :
            self' = [self EXCEPT ![e] = [NoSelf EXCEPT !.budget = b, !.key = k]]
    BY DEF Explore
  <1> DEFINE m == [NoSelf EXCEPT !.budget = b, !.key = k]
  <1>2. m \in Selves /\ m.gone = {}
    BY Constants DEF Selves
  <1>3. "open" \in Labels /\ "open" \in Holding /\ "open" \notin HasJob
    BY DEF Labels, Holding, HasJob
  <1>4. /\ captureLock = NoOne /\ captureLock' = e /\ pc' = [pc EXCEPT ![e] = "open"]
        /\ ledgers' = ledgers /\ discovered' = discovered /\ retired' = retired
    BY DEF Explore, Goto, disk
  <1>5. Shapes'
    BY DEF Inv, Shapes, Explore, disk
  <1>6. Memory("open", work', ledgers') /\ Ready("open", m, discovered', retired')
    BY <1>2, <1>3 DEF Memory, Ready
  <1>7. Files(ledgers', (discovered \cup retired)')
    BY <1>4 DEF Inv
  <1>8. Holds(e, "open", captureLock')
    BY <1>3, <1>4 DEF Holds
  <1>9. self' = [self EXCEPT ![e] = m]
    BY <1>1
  <1> HIDE DEF m
  <1>10. Inv'
    BY <1>2, <1>3, <1>4, <1>5, <1>6, <1>7, <1>8, <1>9, Moved
  <1> QED
    BY <1>4, <1>10, StayFrozen

\* Facts about a command that has the capture lock.
LEMMA Owner ==
    ASSUME Inv, NEW e \in Explorers, pc[e] \in Holding
    PROVE  /\ captureLock = e /\ Memory(pc[e], work, ledgers) /\ self[e] \in Selves
           /\ Files(ledgers, discovered \cup retired) /\ work \in Works /\ Shapes
           /\ Ready(pc[e], self[e], discovered, retired)
           /\ self = [self EXCEPT ![e] = self[e]] /\ pc = [pc EXCEPT ![e] = pc[e]]
  BY DEF Inv, Holds, Shapes

LEMMA CloseStaleStep ==
    ASSUME Inv, NEW e \in Explorers, CloseStale(e)
    PROVE  Inv' /\ Frozen(ledgers, ledgers')
  <1> DEFINE D == discovered \cup retired
  <1>1. PICK j \in Stale(e) : ledgers' = [ledgers EXCEPT ![j].status =
              IF ledgers[j].key # self[e].key THEN "superseded" ELSE "expired"]
    BY DEF CloseStale
  <1>2. pc[e] = "open" /\ "open" \in Holding /\ "open" \in Labels /\ "open" \notin HasJob
    BY DEF CloseStale, Holding, HasJob, Labels
  <1>3. /\ captureLock = e /\ Files(ledgers, D) /\ Shapes /\ self[e] \in Selves
        /\ Ready("open", self[e], discovered, retired)
        /\ self = [self EXCEPT ![e] = self[e]] /\ pc = [pc EXCEPT ![e] = "open"]
    BY <1>2, Owner
  <1>4. j \in DOMAIN ledgers /\ ledgers[j].status = "open" /\ ledgers \in Seq(Ledgers)
    BY <1>3 DEF Stale, Files
  <1> DEFINE v == IF ledgers[j].key # self[e].key THEN "superseded" ELSE "expired"
             led == [ledgers[j] EXCEPT !.status = v]
  <1>5. ledgers[j] \in Ledgers
    BY <1>4
  <1>6. v \in Finished /\ v # "closed" /\ v # "open"
    BY DEF Finished
  <1>7. led \in Ledgers /\ led.status = v /\ led.handoff = ledgers[j].handoff
    BY <1>5, <1>6 DEF Ledgers, Finished
  <1>8. ledgers' = [ledgers EXCEPT ![j] = led]
    BY <1>1, <1>4
  <1> HIDE DEF led, v
  <1>9. ledgers' \in Seq(Ledgers) /\ DOMAIN ledgers' = DOMAIN ledgers
    BY <1>4, <1>7, <1>8, ExceptSeq
  <1>10. ledgers'[j] = led /\ \A i \in DOMAIN ledgers : i # j => ledgers'[i] = ledgers[i]
    BY <1>4, <1>8, <1>9
  <1>11. ledgers[j].handoff # "consumed"
    BY <1>3, <1>4 DEF Files, Used
  <1>12. Files(ledgers', D)
    BY <1>3, <1>6, <1>7, <1>9, <1>10, <1>11 DEF Files, OneOpen, NoGap, Used
  <1>13. Frozen(ledgers, ledgers')
    BY <1>9, <1>10, <1>11 DEF Frozen
  <1>14. /\ UNCHANGED <<store, work, aged, locks, pc, self, pruning>>
         /\ discovered' = discovered /\ retired' = retired
    BY DEF CloseStale, store
  <1>15. Shapes'
    BY <1>3, <1>14 DEF Shapes, store, locks
  <1>16. /\ pc' = [pc EXCEPT ![e] = "open"] /\ self' = [self EXCEPT ![e] = self[e]]
         /\ captureLock' = captureLock /\ (discovered \cup retired)' = D
    BY <1>3, <1>14 DEF locks
  <1>17. Memory("open", work', ledgers') /\ Holds(e, "open", captureLock')
    BY <1>2, <1>3, <1>16 DEF Memory, Holds
  <1>18. Inv'
    BY <1>2, <1>3, <1>12, <1>14, <1>15, <1>16, <1>17, Moved
  <1> QED
    BY <1>13, <1>18

\* A new job is appended when no other can be open.
LEMMA AppendFiles ==
    ASSUME NEW L \in Seq(Ledgers), NEW D, Files(L, D), NEW led \in Ledgers,
           led.status = "open", led.handoff = "pending",
           \A j \in DOMAIN L : L[j].status # "open"
    PROVE  /\ Files(Append(L, led), D) /\ Only(Append(L, led), Len(L) + 1)
           /\ Frozen(L, Append(L, led)) /\ Len(L) + 1 \in DOMAIN Append(L, led)
           /\ Append(L, led)[Len(L) + 1] = led
  <1> DEFINE M == Append(L, led)
  <1>1. M \in Seq(Ledgers) /\ Len(M) = Len(L) + 1 /\ DOMAIN M = 1..Len(M) /\ Len(L) \in Nat
    OBVIOUS
  <1>2. M[Len(L) + 1] = led /\ \A j \in DOMAIN L : M[j] = L[j] /\ j \in DOMAIN M
    OBVIOUS
  <1>3. \A j \in DOMAIN M : j = Len(L) + 1 \/ j \in DOMAIN L
    BY <1>1
  <1> HIDE DEF M
  <1>4. Files(M, D)
    BY <1>1, <1>2, <1>3 DEF Files, OneOpen, NoGap, Used
  <1>5. Only(M, Len(L) + 1) /\ Frozen(L, M)
    BY <1>1, <1>2, <1>3 DEF Only, Frozen
  <1> QED
    BY <1>1, <1>2, <1>4, <1>5 DEF M

LEMMA OpenJobStep ==
    ASSUME Inv, NEW e \in Explorers, OpenJob(e)
    PROVE  Inv' /\ Frozen(ledgers, ledgers') /\ work'.ledger = ledgers'[work'.job]
  <1> DEFINE D == discovered \cup retired
  <1>1. pc[e] = "open" /\ "open" \in Holding /\ "reconcile" \in Labels /\ "reconcile" \in Holding
        /\ "reconcile" \notin Asking
    BY DEF OpenJob, Holding, Asking, Labels
  <1>2. /\ captureLock = e /\ Files(ledgers, D) /\ Shapes /\ self[e] \in Selves
        /\ Ready("open", self[e], discovered, retired) /\ ledgers \in Seq(Ledgers)
        /\ self = [self EXCEPT ![e] = self[e]]
    BY <1>1, Owner DEF Files
  <1>3. /\ UNCHANGED <<store, aged, locks, self, pruning>> /\ Stale(e) = {}
        /\ pc' = [pc EXCEPT ![e] = "reconcile"]
    BY DEF OpenJob, Goto
  <1>4. /\ work' \in Works /\ Files(ledgers', D) /\ Frozen(ledgers, ledgers')
        /\ work'.job \in DOMAIN ledgers' /\ work'.ledger = ledgers'[work'.job]
        /\ ledgers'[work'.job].handoff = "pending" /\ Only(ledgers', work'.job)
    <2>1. CASE \E j \in Resumed(e) :
             work' = [NoWork EXCEPT !.job = j, !.ledger = ledgers[j]] /\ UNCHANGED ledgers
      <3>1. PICK j \in Resumed(e) :
              work' = [NoWork EXCEPT !.job = j, !.ledger = ledgers[j]] /\ ledgers' = ledgers
        BY <2>1
      <3>2. j \in DOMAIN ledgers /\ ledgers[j].status = "open" /\ j \in Nat
        BY <1>2 DEF Resumed, Resumable
      <3>3. ledgers[j] \in Ledgers
        BY <1>2, <3>2
      <3>4. work' \in Works /\ work'.job = j /\ work'.ledger = ledgers[j]
        BY <3>1, <3>2, <3>3, Constants DEF Works
      <3>5. ledgers[j].handoff = "pending"
        BY <1>2, <3>2, <3>3 DEF Files, Used, Ledgers
      <3>6. Only(ledgers, j)
        BY <1>2, <3>2 DEF Files, OneOpen, Only
      <3> QED
        BY <1>2, <3>1, <3>2, <3>4, <3>5, <3>6, StayFrozen
    <2>2. CASE Resumed(e) = {} /\ ledgers' = ledgers /\ \E j \in Unconsumed(e) :
             work' = [NoWork EXCEPT !.job = j, !.ledger = ledgers[j]]
      <3>1. PICK j \in Unconsumed(e) : work' = [NoWork EXCEPT !.job = j, !.ledger = ledgers[j]]
        BY <2>2
      <3>2. j \in DOMAIN ledgers /\ j \in Nat /\ ledgers[j].handoff = "pending"
        BY <1>2 DEF Unconsumed
      <3>3. ledgers[j] \in Ledgers
        BY <1>2, <3>2
      <3>4. work' \in Works /\ work'.job = j /\ work'.ledger = ledgers[j]
        BY <3>1, <3>2, <3>3, Constants DEF Works
      <3>5. Only(ledgers, j)
        BY <1>3, <2>2 DEF Only, Stale
      <3> QED
        BY <1>2, <2>2, <3>2, <3>4, <3>5, StayFrozen
    <2>3. CASE /\ Resumed(e) = {}
               /\ ledgers' = Append(ledgers, NewLedger(self[e].key))
               /\ work' = [NoWork EXCEPT !.job = Len(ledgers) + 1,
                                         !.ledger = NewLedger(self[e].key)]
      <3>1. self[e].key \in Bindings
        BY <1>2 DEF Selves
      <3> DEFINE led == NewLedger(self[e].key)
      <3>2. led \in Ledgers /\ led.handoff = "pending" /\ led.status = "open"
        BY <3>1, Constants
      <3>3. \A j \in DOMAIN ledgers : ledgers[j].status # "open"
        BY <1>3, <2>3 DEF Stale
      <3>4. Len(ledgers) + 1 \in Nat
        BY <1>2
      <3> HIDE DEF led
      <3>5. work' = [NoWork EXCEPT !.job = Len(ledgers) + 1, !.ledger = led]
            /\ ledgers' = Append(ledgers, led)
        BY <2>3 DEF led
      <3>6. work' \in Works /\ work'.job = Len(ledgers) + 1 /\ work'.ledger = led
        BY <3>2, <3>4, <3>5, Constants DEF Works
      <3>7. /\ Files(Append(ledgers, led), D) /\ Only(Append(ledgers, led), Len(ledgers) + 1)
            /\ Frozen(ledgers, Append(ledgers, led))
            /\ Len(ledgers) + 1 \in DOMAIN Append(ledgers, led)
            /\ Append(ledgers, led)[Len(ledgers) + 1] = led
        BY <1>2, <3>2, <3>3, AppendFiles
      <3> QED
        BY <3>2, <3>5, <3>6, <3>7
    <2> QED
      BY <2>1, <2>2, <2>3 DEF OpenJob
  <1>5. Gapless(work'.ledger)
    BY <1>4 DEF Files, NoGap, Gapless
  <1>6. Memory("reconcile", work', ledgers')
    BY <1>1, <1>4, <1>5 DEF Memory
  <1>7. /\ discovered' = discovered /\ retired' = retired /\ captureLock' = captureLock
        /\ (discovered \cup retired)' = D /\ self' = [self EXCEPT ![e] = self[e]]
    BY <1>2, <1>3 DEF store, locks
  <1>8. Shapes'
    BY <1>2, <1>3, <1>4 DEF Shapes, store, locks
  <1>9. Holds(e, "reconcile", captureLock') /\ Ready("reconcile", self[e], discovered', retired')
    BY <1>1, <1>2, <1>7 DEF Holds, Ready
  <1>10. Inv'
    BY <1>1, <1>2, <1>3, <1>4, <1>6, <1>7, <1>8, <1>9, Moved
  <1> QED
    BY <1>4, <1>10

-----------------------------------------------------------------------------
(* Running *)

Aimed(l, w) == l \in Asking => /\ w.table \in Tables /\ w.ledger.status = "open"
                               /\ w.ledger.slices[w.table].state = "pending"

\* A step of a run: the ledger in memory changes, and may be saved.
LEMMA RunStep ==
    ASSUME Inv, NEW e \in Explorers, pc[e] \in HasJob, NEW l \in HasJob,
           NEW m \in Selves, m.gone = self[e].gone,
           pc' = [pc EXCEPT ![e] = l], self' = [self EXCEPT ![e] = m], Shapes',
           captureLock' = captureLock, discovered' = discovered, retired' = retired,
           work'.job = work.job, work'.ledger.handoff = "pending", Gapless(work'.ledger),
           Aimed(l, work'),
           ledgers' = ledgers \/ ledgers' = Saved(ledgers, work.job, work'.ledger)
    PROVE  Inv' /\ Frozen(ledgers, ledgers')
  <1> DEFINE D == discovered \cup retired
  <1>1. pc[e] \in Holding /\ l \in Holding /\ l \in Labels /\ l # "mark"
    BY DEF HasJob, Holding, Labels
  <1>2. /\ captureLock = e /\ Files(ledgers, D) /\ Ready(pc[e], self[e], discovered, retired)
        /\ Memory(pc[e], work, ledgers)
    BY <1>1, Owner
  <1>3. /\ work.job \in DOMAIN ledgers /\ ledgers[work.job].handoff = "pending"
        /\ Only(ledgers, work.job) /\ ledgers \in Seq(Ledgers)
    BY <1>2 DEF Memory, Files
  <1>4. work'.ledger \in Ledgers
    BY DEF Shapes, Works
  <1>5. /\ Files(ledgers', D) /\ Only(ledgers', work.job) /\ Frozen(ledgers, ledgers')
        /\ work.job \in DOMAIN ledgers' /\ ledgers'[work.job].handoff = "pending"
    <2>1. CASE ledgers' = ledgers
      BY <1>2, <1>3, <2>1, StayFrozen
    <2>2. CASE ledgers' = Saved(ledgers, work.job, work'.ledger)
      BY <1>2, <1>3, <1>4, <2>2, SaveFiles
    <2> QED
      BY <2>1, <2>2
  <1>6. Memory(l, work', ledgers')
    BY <1>5 DEF Memory, Aimed
  <1>7. Holds(e, l, captureLock') /\ Ready(l, m, discovered', retired')
    BY <1>1, <1>2 DEF Holds, Ready
  <1>8. (discovered \cup retired)' = D
    OBVIOUS
  <1>9. Inv'
    BY <1>1, <1>2, <1>5, <1>6, <1>7, <1>8, Moved
  <1> QED
    BY <1>5, <1>9

LEMMA AbortShape ==
    ASSUME NEW e \in Explorers, self \in [Explorers -> Selves], Abort(e)
    PROVE  /\ pc' = [pc EXCEPT ![e] = "finish"]
           /\ \E m \in Selves : m.gone = self[e].gone /\ self' = [self EXCEPT ![e] = m]
  <1> DEFINE m == [self[e] EXCEPT !.fatal = TRUE]
  <1>1. self[e] \in Selves
    OBVIOUS
  <1>2. m \in Selves /\ m.gone = self[e].gone
    BY <1>1 DEF Selves
  <1>3. self' = [self EXCEPT ![e] = m]
    BY DEF Abort
  <1> QED
    BY <1>2, <1>3 DEF Abort, Goto

LEMMA SaveStep ==
    ASSUME Inv, NEW e \in Explorers, pc[e] \in HasJob, NEW l \in HasJob, Save(e, l), Shapes',
           captureLock' = captureLock, discovered' = discovered, retired' = retired,
           work'.job = work.job, work'.ledger.handoff = "pending", Gapless(work'.ledger),
           Aimed(l, work')
    PROVE  Inv' /\ Frozen(ledgers, ledgers')
  <1>1. self \in [Explorers -> Selves] /\ self[e] \in Selves /\ self = [self EXCEPT ![e] = self[e]]
    BY DEF Inv
  <1>2. CASE ledgers' = [ledgers EXCEPT ![work.job] = work'.ledger] /\ Goto(e, l) /\ self' = self
    BY <1>1, <1>2, RunStep DEF Goto, Saved
  <1>3. CASE Abort(e) /\ ledgers' = ledgers
    <2>1. "finish" \in HasJob /\ Aimed("finish", work')
      BY DEF HasJob, Holding, Aimed, Asking
    <2>2. PICK m \in Selves : m.gone = self[e].gone /\ self' = [self EXCEPT ![e] = m]
      BY <1>1, <1>3, AbortShape
    <2>3. pc' = [pc EXCEPT ![e] = "finish"]
      BY <1>1, <1>3, AbortShape
    <2> QED
      BY <1>3, <2>1, <2>2, <2>3, RunStep
  <1> QED
    BY <1>2, <1>3 DEF Save

\* What the owner of a job knows of the ledger in memory.
LEMMA InMemory ==
    ASSUME Inv, NEW e \in Explorers, pc[e] \in HasJob
    PROVE  /\ captureLock = e /\ work \in Works /\ work.ledger \in Ledgers /\ Shapes
           /\ work.ledger.handoff = "pending" /\ Gapless(work.ledger)
           /\ Aimed(pc[e], work) /\ self[e] \in Selves /\ self \in [Explorers -> Selves]
           /\ self = [self EXCEPT ![e] = self[e]]
           /\ work.job \in DOMAIN ledgers /\ Only(ledgers, work.job)
           /\ ledgers[work.job].handoff = "pending" /\ ledgers \in Seq(Ledgers)
  <1>1. pc[e] \in Holding
    BY DEF HasJob
  <1>2. Memory(pc[e], work, ledgers) /\ captureLock = e /\ work \in Works /\ Shapes
        /\ self[e] \in Selves /\ self = [self EXCEPT ![e] = self[e]]
        /\ Files(ledgers, discovered \cup retired)
    BY <1>1, Owner
  <1>3. self \in [Explorers -> Selves] /\ work.ledger \in Ledgers
    BY <1>2 DEF Inv, Works
  <1> QED
    BY <1>2, <1>3 DEF Memory, Aimed, Files

LEMMA ReconcileStep ==
    ASSUME Inv, NEW e \in Explorers, Reconcile(e)
    PROVE  Inv' /\ Frozen(ledgers, ledgers')
  <1>1. pc[e] = "reconcile" /\ "reconcile" \in HasJob /\ "run" \in HasJob /\ "run" \notin Asking
    BY DEF Reconcile, HasJob, Holding, Asking
  <1>2. /\ work \in Works /\ work.ledger \in Ledgers /\ Gapless(work.ledger) /\ Shapes
        /\ work.ledger.handoff = "pending" /\ self[e] \in Selves
        /\ self = [self EXCEPT ![e] = self[e]]
    BY <1>1, InMemory
  <1>3. self[e].budget \in Budgets
    BY <1>2 DEF Selves
  <1> DEFINE led == Reconciled(work.ledger, self[e].budget)
  <1>4. led \in Ledgers /\ Gapless(led) /\ led.handoff = "pending"
    BY <1>2, <1>3, ReconciledKeeps
  <1>5. work' = [work EXCEPT !.ledger = led]
    BY DEF Reconcile
  <1> HIDE DEF led
  <1>6. work' \in Works /\ work'.job = work.job /\ work'.ledger = led
    BY <1>2, <1>4, <1>5 DEF Works
  <1>7. /\ ledgers' = [ledgers EXCEPT ![work.job] = work'.ledger] /\ pc' = [pc EXCEPT ![e] = "run"]
        /\ self' = self /\ UNCHANGED <<store, aged, locks, pruning>>
    BY DEF Reconcile, Goto
  <1>8. Shapes' /\ captureLock' = captureLock /\ discovered' = discovered /\ retired' = retired
    BY <1>2, <1>6, <1>7 DEF Shapes, store, locks
  <1>9. Aimed("run", work')
    BY <1>1 DEF Aimed
  <1> QED
    BY <1>1, <1>2, <1>4, <1>6, <1>7, <1>8, <1>9, RunStep DEF Saved

LEMMA NextTableStep ==
    ASSUME Inv, NEW e \in Explorers, NextTable(e)
    PROVE  Inv' /\ Frozen(ledgers, ledgers')
  <1>1. pc[e] = "run" /\ "run" \in HasJob /\ "request" \in HasJob
    BY DEF NextTable, HasJob, Holding
  <1>2. /\ work \in Works /\ work.ledger \in Ledgers /\ Gapless(work.ledger) /\ Shapes
        /\ work.ledger.handoff = "pending"
    BY <1>1, InMemory
  <1>3. PICK t \in Pending(work.ledger) : work' = [work EXCEPT !.table = t]
    BY DEF NextTable
  <1>4. t \in Tables /\ work.ledger.slices[t].state = "pending"
    BY <1>3 DEF Pending
  <1>5. work' \in Works /\ work'.job = work.job /\ work'.ledger = work.ledger /\ work'.table = t
    BY <1>2, <1>3, <1>4 DEF Works
  <1>6. work.ledger.status = "open"
    BY <1>2, <1>3 DEF NextTable, Gapless
  <1>7. Save(e, "request") /\ UNCHANGED <<store, aged, locks, pruning>>
    BY DEF NextTable
  <1>8. Shapes' /\ captureLock' = captureLock /\ discovered' = discovered /\ retired' = retired
    BY <1>2, <1>5, <1>7 DEF Shapes, store, locks
  <1>9. Aimed("request", work')
    BY <1>4, <1>5, <1>6 DEF Aimed
  <1>10. Gapless(work'.ledger) /\ work'.ledger.handoff = "pending"
    BY <1>2, <1>5
  <1> QED
    BY <1>1, <1>5, <1>7, <1>8, <1>9, <1>10, SaveStep

\* Steps that only move to another label, or abort.
LEMMA PlainStep ==
    ASSUME Inv, NEW e \in Explorers, pc[e] \in HasJob, NEW l \in HasJob, Aimed(l, work),
           work' = work, ledgers' = ledgers, UNCHANGED <<store, aged, captureLock, pruning>>,
           evidenceLock' \in Explorers \cup {Pruner, NoOne},
           (pc' = [pc EXCEPT ![e] = l] /\ self' = self) \/ (l = "finish" /\ Abort(e))
    PROVE  Inv' /\ Frozen(ledgers, ledgers')
  <1>1. /\ work.ledger.handoff = "pending" /\ Gapless(work.ledger) /\ Shapes
        /\ self[e] \in Selves /\ self \in [Explorers -> Selves]
        /\ self = [self EXCEPT ![e] = self[e]]
    BY InMemory
  <1>2. PICK m \in Selves : m.gone = self[e].gone /\ self' = [self EXCEPT ![e] = m]
    BY <1>1, AbortShape
  <1>3. pc' = [pc EXCEPT ![e] = l]
    BY <1>1, AbortShape
  <1>4. Shapes' /\ discovered' = discovered /\ retired' = retired
    BY <1>1 DEF Shapes, store
  <1> QED
    BY <1>1, <1>2, <1>3, <1>4, RunStep

LEMMA EndRunStep ==
    ASSUME Inv, NEW e \in Explorers, EndRun(e)
    PROVE  Inv' /\ Frozen(ledgers, ledgers')
  <1>1. pc[e] \in HasJob /\ "finish" \in HasJob /\ Aimed("finish", work)
    BY DEF EndRun, HasJob, Holding, Aimed, Asking
  <1>2. evidenceLock \in Explorers \cup {Pruner, NoOne}
    BY DEF Inv, Shapes
  <1> QED
    BY <1>1, <1>2, PlainStep DEF EndRun, Goto, disk, store, locks

LEMMA AnsweredWholeStep ==
    ASSUME Inv, NEW e \in Explorers, AnsweredWhole(e)
    PROVE  Inv' /\ Frozen(ledgers, ledgers')
  <1>1. pc[e] = "request" /\ pc[e] \in HasJob /\ "store" \in HasJob
    BY DEF AnsweredWhole, HasJob, Holding
  <1>2. Aimed("store", work)
    BY <1>1, InMemory DEF Aimed, Asking
  <1>3. evidenceLock \in Explorers \cup {Pruner, NoOne}
    BY DEF Inv, Shapes
  <1> QED
    BY <1>1, <1>2, <1>3, PlainStep DEF AnsweredWhole, Goto, disk, store, locks

LEMMA FatalStep ==
    ASSUME Inv, NEW e \in Explorers, Fatal(e)
    PROVE  Inv' /\ Frozen(ledgers, ledgers')
  <1>1. pc[e] \in HasJob /\ "finish" \in HasJob /\ Aimed("finish", work)
    BY DEF Fatal, HasJob, Holding, Aimed, Asking
  <1>2. evidenceLock \in Explorers \cup {Pruner, NoOne}
    BY DEF Inv, Shapes
  <1> QED
    BY <1>1, <1>2, PlainStep DEF Fatal, disk, store, locks

LEMMA LockEvidenceStep ==
    ASSUME Inv, NEW e \in Explorers, LockEvidence(e)
    PROVE  Inv' /\ Frozen(ledgers, ledgers')
  <1>1. pc[e] = "store" /\ pc[e] \in HasJob /\ "write" \in HasJob /\ "finish" \in HasJob
    BY DEF LockEvidence, HasJob, Holding
  <1>2. Aimed("write", work) /\ Aimed("finish", work)
    BY <1>1, InMemory DEF Aimed, Asking
  <1>3. evidenceLock \in Explorers \cup {Pruner, NoOne}
    BY DEF Inv, Shapes
  <1>4. UNCHANGED <<store, aged, captureLock, pruning>> /\ work' = work /\ ledgers' = ledgers
    BY DEF LockEvidence, disk, store
  <1>5. CASE evidenceLock' = e /\ Goto(e, "write") /\ self' = self
    BY <1>1, <1>2, <1>4, <1>5, PlainStep DEF Goto
  <1>6. CASE Abort(e) /\ evidenceLock' = evidenceLock
    BY <1>1, <1>2, <1>3, <1>4, <1>6, PlainStep
  <1> QED
    BY <1>5, <1>6 DEF LockEvidence

LEMMA AnsweredStep ==
    ASSUME Inv, NEW e \in Explorers, Answered(e)
    PROVE  /\ Inv' /\ Frozen(ledgers, ledgers')
           /\ Left(work'.ledger.slices[work.table]) < Left(Slice)
           /\ \A t \in Tables \ {work.table} : work'.ledger.slices[t] = work.ledger.slices[t]
           /\ work'.job = work.job /\ work'.ledger.handoff = "pending"
           /\ work'.ledger.slices[work.table].state # "complete"
  <1>1. pc[e] = "request" /\ "request" \in HasJob /\ "run" \in HasJob /\ "run" \notin Asking
    BY DEF Answered, HasJob, Holding, Asking
  <1>2. /\ work \in Works /\ work.ledger \in Ledgers /\ Gapless(work.ledger) /\ Shapes
        /\ work.ledger.handoff = "pending" /\ self[e] \in Selves /\ Aimed("request", work)
    BY <1>1, InMemory
  <1>3. /\ work.table \in Tables /\ work.ledger.status = "open" /\ Slice.state = "pending"
        /\ Slice \in Slices /\ self[e].budget \in Budgets
    BY <1>2 DEF Aimed, Asking, Slice, Ledgers, Selves
  <1>4. PICK s \in Outcomes(Slice, self[e].budget) :
            work' = [work EXCEPT !.table = NoOne, !.ledger = WithSlice(s)]
    BY DEF Answered
  <1>5. s \in Slices /\ Left(s) < Left(Slice) /\ s.state # "complete"
    BY <1>3, <1>4, OutcomesShrink
  <1> DEFINE r == WithSlice(s)
  <1>6. /\ r \in Ledgers /\ r.status = "open" /\ r.handoff = "pending"
        /\ r.slices[work.table] = s
        /\ \A u \in Tables \ {work.table} : r.slices[u] = work.ledger.slices[u]
    BY <1>2, <1>3, <1>5, SliceInHand
  <1>7. work' = [work EXCEPT !.table = NoOne, !.ledger = r]
    BY <1>4
  <1> HIDE DEF r
  <1>8. work' \in Works /\ work'.job = work.job /\ work'.ledger = r
    BY <1>2, <1>6, <1>7 DEF Works
  <1>9. Save(e, "run") /\ UNCHANGED <<store, aged, locks, pruning>>
    BY DEF Answered
  <1>10. Shapes' /\ captureLock' = captureLock /\ discovered' = discovered /\ retired' = retired
    BY <1>2, <1>8, <1>9 DEF Shapes, store, locks
  <1>11. Aimed("run", work') /\ Gapless(work'.ledger)
    BY <1>1, <1>6, <1>8 DEF Aimed, Gapless
  <1>12. Inv' /\ Frozen(ledgers, ledgers')
    BY <1>1, <1>6, <1>8, <1>9, <1>10, <1>11, SaveStep
  <1> QED
    BY <1>5, <1>6, <1>8, <1>12

LEMMA StoppedStep ==
    ASSUME Inv, NEW e \in Explorers, Stopped(e)
    PROVE  /\ Inv' /\ Frozen(ledgers, ledgers')
           /\ work'.job = work.job
           /\ \A t \in Tables : \/ work'.ledger.slices[t] = work.ledger.slices[t]
                                \/ t = work.table /\ work'.ledger.slices[t].state # "complete"
  <1>1. pc[e] = "request" /\ "request" \in HasJob /\ "finish" \in HasJob /\ "finish" \notin Asking
    BY DEF Stopped, HasJob, Holding, Asking
  <1>2. /\ work \in Works /\ work.ledger \in Ledgers /\ Gapless(work.ledger) /\ Shapes
        /\ work.ledger.handoff = "pending" /\ self[e] \in Selves /\ Aimed("request", work)
        /\ self = [self EXCEPT ![e] = self[e]]
    BY <1>1, InMemory
  <1>3. /\ work.table \in Tables /\ work.ledger.status = "open" /\ Slice \in Slices
        /\ Slice.state = "pending" /\ self[e].budget \in Budgets
    BY <1>2 DEF Aimed, Asking, Slice, Ledgers, Selves
  <1>4. /\ work' \in Works /\ work'.job = work.job /\ work'.ledger.handoff = "pending"
        /\ Gapless(work'.ledger)
        /\ \A t \in Tables : \/ work'.ledger.slices[t] = work.ledger.slices[t]
                             \/ t = work.table /\ work'.ledger.slices[t].state # "complete"
    <2>1. CASE work' = work
      BY <1>2, <2>1
    <2>2. CASE work' = [work EXCEPT !.ledger.status = "superseded"]
      <3> DEFINE led == [work.ledger EXCEPT !.status = "superseded"]
      <3>1. led \in Ledgers /\ led.status = "superseded" /\ led.handoff = "pending"
            /\ led.slices = work.ledger.slices
        BY <1>2 DEF Ledgers, Finished
      <3>2. work' = [work EXCEPT !.ledger = led]
        BY <2>2
      <3> HIDE DEF led
      <3>3. work' \in Works /\ work'.job = work.job /\ work'.ledger = led
        BY <1>2, <3>1, <3>2 DEF Works
      <3> QED
        BY <3>1, <3>3 DEF Gapless
    <2>3. CASE work' = [work EXCEPT !.ledger = WithSlice(Reduced(Slice, self[e].budget))]
      <3> DEFINE s == Reduced(Slice, self[e].budget)
                 r == WithSlice(s)
      <3>1. s \in Slices /\ s.state # "complete"
        BY <1>3, OutcomesShrink DEF Outcomes
      <3>2. r \in Ledgers /\ r.status = "open" /\ r.handoff = "pending"
            /\ r.slices[work.table] = s
            /\ \A u \in Tables \ {work.table} : r.slices[u] = work.ledger.slices[u]
        <4> HIDE DEF s
        <4> QED
          BY <1>2, <1>3, <3>1, SliceInHand
      <3>3. work' = [work EXCEPT !.ledger = r]
        BY <2>3
      <3> HIDE DEF r, s
      <3>4. work' \in Works /\ work'.job = work.job /\ work'.ledger = r
        BY <1>2, <3>2, <3>3 DEF Works
      <3> QED
        BY <3>1, <3>2, <3>4 DEF Gapless
    <2> QED
      BY <2>1, <2>2, <2>3 DEF Stopped
  <1>5. /\ ledgers' = ledgers /\ pc' = [pc EXCEPT ![e] = "finish"]
        /\ self' = self /\ UNCHANGED <<store, aged, locks, pruning>>
    BY DEF Stopped, Goto, disk, store
  <1>6. Shapes' /\ captureLock' = captureLock /\ discovered' = discovered /\ retired' = retired
    BY <1>2, <1>4, <1>5 DEF Shapes, store, locks
  <1>7. Aimed("finish", work')
    BY <1>1 DEF Aimed
  <1> QED
    BY <1>1, <1>2, <1>4, <1>5, <1>6, <1>7, RunStep

-----------------------------------------------------------------------------
(* Publication *)

LEMMA WriteArtifactStep ==
    ASSUME Inv, NEW e \in Explorers, WriteArtifact(e)
    PROVE  Inv' /\ Frozen(ledgers, ledgers')
  <1>1. pc[e] = "write" /\ pc[e] \in HasJob /\ "link" \in HasJob
    BY DEF WriteArtifact, HasJob, Holding
  <1>2. /\ work \in Works /\ work.ledger \in Ledgers /\ Gapless(work.ledger) /\ Shapes
        /\ work.ledger.handoff = "pending" /\ self[e] \in Selves /\ Aimed("write", work)
        /\ self = [self EXCEPT ![e] = self[e]]
    BY <1>1, InMemory
  <1>3. made + 1 \in Nat /\ 1..made \subseteq 1..(made + 1) /\ made + 1 \in 1..(made + 1)
    BY <1>2 DEF Shapes
  <1>4. work' = [work EXCEPT !.art = made + 1]
    BY DEF WriteArtifact
  <1>5. work' \in Works /\ work'.job = work.job /\ work'.ledger = work.ledger
        /\ work'.table = work.table
    BY <1>2, <1>3, <1>4 DEF Works
  <1>6. /\ made' = made + 1 /\ stored' = stored \cup {made + 1} /\ damaged' = damaged
        /\ old' = old /\ retired' = retired /\ discovered' = discovered /\ aged' = aged
        /\ evidenceLock' = evidenceLock /\ captureLock' = captureLock /\ pruning' = pruning
        /\ ledgers' = ledgers /\ self' = self /\ pc' = [pc EXCEPT ![e] = "link"]
    BY DEF WriteArtifact, locks, Goto
  <1>7. Shapes'
    BY <1>2, <1>3, <1>5, <1>6 DEF Shapes
  <1>8. Aimed("link", work')
    BY <1>2, <1>5 DEF Aimed, Asking
  <1> QED
    BY <1>1, <1>2, <1>5, <1>6, <1>7, <1>8, RunStep

LEMMA LinkArtifactStep ==
    ASSUME Inv, NEW e \in Explorers, LinkArtifact(e)
    PROVE  /\ Inv' /\ Frozen(ledgers, ledgers')
           /\ Left(work'.ledger.slices[work.table]) < Left(Slice)
           /\ \A t \in Tables \ {work.table} : work'.ledger.slices[t] = work.ledger.slices[t]
           /\ work'.job = work.job /\ work'.ledger.handoff = "pending"
           /\ work'.ledger.slices[work.table].art = work.art
  <1>1. pc[e] = "link" /\ "link" \in HasJob /\ "run" \in HasJob /\ "run" \notin Asking
    BY DEF LinkArtifact, HasJob, Holding, Asking
  <1>2. /\ work \in Works /\ work.ledger \in Ledgers /\ Gapless(work.ledger) /\ Shapes
        /\ work.ledger.handoff = "pending" /\ self[e] \in Selves /\ Aimed("link", work)
    BY <1>1, InMemory
  <1>3. /\ work.table \in Tables /\ work.ledger.status = "open" /\ Slice.state = "pending"
        /\ Slice \in Slices /\ work.art \in Nat
    BY <1>2 DEF Aimed, Asking, Slice, Ledgers, Works
  <1> DEFINE s == [NewSlice EXCEPT !.state = "complete", !.art = work.art]
             r == Linked
  <1>4. s \in Slices /\ s.state = "complete" /\ s.art = work.art
    BY <1>3, Constants DEF Slices, SliceStates
  <1>5. Left(s) < Left(Slice)
    <2>1. Slice.cap \in 1..TopCap /\ Slice.failures \in 0..1 /\ TopCap \in Nat
      BY <1>3, CaptureAssumption DEF Slices
    <2> HIDE DEF s
    <2> QED
      BY <1>3, <1>4, <2>1 DEF Left
  <1>6. /\ r \in Ledgers /\ r.status = "open" /\ r.handoff = "pending"
        /\ r.slices[work.table] = s
        /\ \A u \in Tables \ {work.table} : r.slices[u] = work.ledger.slices[u]
    <2>1. r = WithSlice(s)
      BY DEF Linked
    <2> HIDE DEF r, s
    <2> QED
      BY <1>2, <1>3, <1>4, <2>1, SliceInHand
  <1>7. work' = [work EXCEPT !.ledger = r, !.art = 0, !.table = NoOne]
    BY DEF LinkArtifact
  <1> HIDE DEF r, s
  <1>8. work' \in Works /\ work'.job = work.job /\ work'.ledger = r
    BY <1>2, <1>6, <1>7 DEF Works
  <1>9. /\ Save(e, "run") /\ UNCHANGED <<store, aged, captureLock, pruning>>
        /\ evidenceLock' = NoOne
    BY DEF LinkArtifact
  <1>10. Shapes' /\ captureLock' = captureLock /\ discovered' = discovered /\ retired' = retired
    BY <1>2, <1>8, <1>9 DEF Shapes, store
  <1>11. Aimed("run", work') /\ Gapless(work'.ledger)
    BY <1>1, <1>6, <1>8 DEF Aimed, Gapless
  <1>12. Inv' /\ Frozen(ledgers, ledgers')
    BY <1>1, <1>6, <1>8, <1>9, <1>10, <1>11, SaveStep
  <1> QED
    BY <1>4, <1>5, <1>6, <1>8, <1>12

LEMMA FinishStep ==
    ASSUME Inv, NEW e \in Explorers, Finish(e)
    PROVE  Inv' /\ Frozen(ledgers, ledgers')
  <1> DEFINE D == discovered \cup retired
             led == Closing(work.ledger)
  <1>1. pc[e] = "finish" /\ "finish" \in HasJob /\ "finish" \in Holding
    BY DEF Finish, HasJob, Holding
  <1>2. /\ work \in Works /\ work.ledger \in Ledgers /\ Gapless(work.ledger) /\ Shapes
        /\ work.ledger.handoff = "pending" /\ self[e] \in Selves /\ captureLock = e
        /\ work.job \in DOMAIN ledgers /\ Only(ledgers, work.job)
        /\ ledgers[work.job].handoff = "pending" /\ ledgers \in Seq(Ledgers)
    BY <1>1, InMemory
  <1>3. led \in Ledgers /\ Gapless(led) /\ led.handoff = "pending"
    BY <1>2, ClosingKeeps
  <1>4. ledgers' = Saved(ledgers, work.job, led)
    BY DEF Finish, Saved
  <1>5. Files(ledgers, D)
    BY DEF Inv
  <1> HIDE DEF led
  <1>6. Files(ledgers', D) /\ Frozen(ledgers, ledgers')
    BY <1>2, <1>3, <1>4, <1>5, SaveFiles
  <1>7. UNCHANGED <<store, aged, pruning>>
    BY DEF Finish
  <1>8. CASE EndCommand(e)
    BY <1>2, <1>6, <1>7, <1>8, Ended
  <1>9. CASE /\ captureLock' = NoOne /\ work' = NoWork
             /\ self' = [self EXCEPT ![e] = [NoSelf EXCEPT
                   !.need = Captured(work.ledger),
                   !.hand = IF Closing(work.ledger).status = "closed" THEN {work.job} ELSE {}]]
             /\ Goto(e, "refs")
             /\ UNCHANGED evidenceLock
    <2> DEFINE m == [NoSelf EXCEPT
                   !.need = Captured(work.ledger),
                   !.hand = IF Closing(work.ledger).status = "closed" THEN {work.job} ELSE {}]
    <2>1. Captured(work.ledger) \subseteq Nat /\ work.job \in Nat
      <3>1. work.job \in Nat
        BY <1>2 DEF Works
      <3>2. \A t \in Tables : work.ledger.slices[t].art \in Nat
        BY <1>2 DEF Ledgers, Slices
      <3> QED
        BY <3>1, <3>2 DEF Captured
    <2>2. m \in Selves /\ m.gone = {}
      <3>1. PICK hand \in SUBSET Nat :
                hand = IF Closing(work.ledger).status = "closed" THEN {work.job} ELSE {}
        BY <2>1
      <3>2. m = [NoSelf EXCEPT !.need = Captured(work.ledger), !.hand = hand]
        BY <3>1
      <3> HIDE DEF m
      <3> QED
        BY <2>1, <3>2, Constants DEF Selves
    <2>3. self' = [self EXCEPT ![e] = m] /\ pc' = [pc EXCEPT ![e] = "refs"]
      BY <1>9 DEF Goto
    <2> HIDE DEF m
    <2>4. "refs" \in Labels /\ "refs" \notin Holding /\ "refs" \notin HasJob /\ "refs" # "mark"
      BY DEF Labels, Holding, HasJob
    <2>5. Shapes'
      BY <1>2, <1>7, <1>9, Constants DEF Shapes, store
    <2>6. Memory("refs", work', ledgers') /\ Ready("refs", m, discovered', retired')
      BY <2>2, <2>4 DEF Memory, Ready
    <2>7. Holds(e, "refs", captureLock')
      BY <1>9, <2>4, CaptureAssumption DEF Holds
    <2>8. discovered' = discovered /\ retired' = retired /\ (discovered \cup retired)' = D
      BY <1>7 DEF store
    <2>9. captureLock = e /\ captureLock' = NoOne
      BY <1>2, <1>9
    <2> QED
      BY <1>6, <2>2, <2>3, <2>4, <2>5, <2>6, <2>7, <2>8, <2>9, Moved
  <1> QED
    BY <1>6, <1>8, <1>9 DEF Finish

LEMMA WriteFailsStep ==
    ASSUME Inv, NEW e \in Explorers, WriteFails(e)
    PROVE  Inv' /\ Frozen(ledgers, ledgers')
  <1>1. UNCHANGED <<disk, store, aged, pruning>> /\ ledgers' = ledgers
        /\ Files(ledgers', discovered \cup retired)
    BY DEF WriteFails, disk, store, Inv
  <1>2. CASE EndCommand(e)
    BY <1>1, <1>2, Ended, StayFrozen
  <1>3. CASE /\ pc[e] = "write" /\ Abort(e) /\ evidenceLock' = NoOne
             /\ UNCHANGED <<captureLock, work>>
    <2>1. pc[e] \in HasJob /\ "finish" \in HasJob /\ Aimed("finish", work)
      BY <1>3 DEF HasJob, Holding, Aimed, Asking
    <2> QED
      BY <1>1, <1>3, <2>1, PlainStep
  <1> QED
    BY <1>2, <1>3 DEF WriteFails

-----------------------------------------------------------------------------
(* Using what was captured *)

\* A step of a command without the capture lock that changes only its locals.
LEMMA FreeStep ==
    ASSUME Inv, NEW e \in Explorers, pc[e] \notin Holding,
           NEW l \in Labels, l \notin Holding, NEW m \in Selves,
           pc' = [pc EXCEPT ![e] = l], self' = [self EXCEPT ![e] = m],
           UNCHANGED <<ledgers, work, captureLock>>, Shapes',
           discovered \subseteq discovered', retired' = retired,
           Ready(l, m, discovered', retired')
    PROVE  Inv' /\ Frozen(ledgers, ledgers')
  <1>1. Holds(e, l, captureLock') /\ Memory(l, work', ledgers')
    <2>1. Holds(e, pc[e], captureLock)
      BY DEF Inv
    <2> QED
      BY <2>1 DEF Holds, Memory, HasJob
  <1>2. Files(ledgers', (discovered \cup retired)')
    <2>1. Files(ledgers, discovered \cup retired)
      BY DEF Inv
    <2>2. discovered \cup retired \subseteq (discovered \cup retired)'
      OBVIOUS
    <2> QED
      BY <2>1, <2>2 DEF Files, Used
  <1>3. work' = work /\ ledgers' = ledgers /\ captureLock' = captureLock /\ retired \subseteq retired'
    OBVIOUS
  <1>4. Inv'
    BY <1>1, <1>2, <1>3, Moved
  <1> QED
    BY <1>3, <1>4, StayFrozen

\* A command that holds nothing, or everything it needs, ends.
LEMMA EndsUnchanged ==
    ASSUME Inv, NEW e \in Explorers, EndCommand(e), UNCHANGED <<disk, aged, pruning>>
    PROVE  Inv' /\ Frozen(ledgers, ledgers')
  <1>1. UNCHANGED <<store, aged, pruning>> /\ ledgers' = ledgers
        /\ Files(ledgers', discovered \cup retired)
    BY DEF disk, store, Inv
  <1> QED
    BY <1>1, Ended, StayFrozen

LEMMA ReadReferencesStep ==
    ASSUME Inv, NEW e \in Explorers, ReadReferences(e)
    PROVE  Inv' /\ Frozen(ledgers, ledgers')
  <1> DEFINE need == self[e].need \cup UNION {Captured(ledgers[j]) : j \in Waiting}
             gone == need \cap retired \cap stored
             m == [self[e] EXCEPT !.need = need \ gone, !.gone = gone, !.hand = @ \cup Waiting]
  <1>1. pc[e] = "refs" /\ pc[e] \notin Holding /\ "index" \notin Holding /\ "index" \in Labels
    BY DEF ReadReferences, Holding, Labels
  <1>2. UNCHANGED <<disk, aged, pruning>>
    BY DEF ReadReferences
  <1>3. CASE EndCommand(e)
    BY <1>2, <1>3, EndsUnchanged
  <1>4. CASE self' = [self EXCEPT ![e] = m] /\ Goto(e, "index") /\ UNCHANGED <<locks, work>>
    <2>1. self[e] \in Selves /\ ledgers \in Seq(Ledgers)
      BY DEF Inv, Files
    <2>2. \A j \in DOMAIN ledgers : Captured(ledgers[j]) \subseteq Nat
      <3>1. \A led \in Ledgers : Captured(led) \subseteq Nat
        BY DEF Captured, Ledgers, Slices
      <3> QED
        BY <2>1, <3>1
    <2>3. Waiting \subseteq DOMAIN ledgers /\ DOMAIN ledgers \subseteq Nat
      BY <2>1 DEF Waiting, LiveJobs
    <2>4. need \subseteq Nat /\ gone \subseteq retired
      BY <2>1, <2>2, <2>3 DEF Selves
    <2>5. m \in Selves /\ m.gone = gone
      <3> HIDE DEF need, gone
      <3>1. need \ gone \in SUBSET Nat /\ gone \in SUBSET Nat /\ self[e].hand \cup Waiting \in SUBSET Nat
        <4>1. gone \subseteq need
          BY DEF gone
        <4> QED
          BY <4>1, <2>1, <2>3, <2>4 DEF Selves
      <3> QED
        BY <2>1, <3>1 DEF Selves
    <2>6. Shapes' /\ UNCHANGED <<ledgers, work, captureLock, discovered, retired>>
      BY <1>2, <1>4 DEF Shapes, Inv, disk, locks
    <2> HIDE DEF m, gone
    <2>7. Ready("index", m, discovered', retired')
      BY <2>4, <2>5, <2>6 DEF Ready
    <2>8. pc' = [pc EXCEPT ![e] = "index"]
      BY <1>4 DEF Goto
    <2> QED
      BY <1>1, <1>4, <2>5, <2>6, <2>7, <2>8, FreeStep
  <1> QED
    BY <1>3, <1>4 DEF ReadReferences

LEMMA IndexSourcesStep ==
    ASSUME Inv, NEW e \in Explorers, IndexSources(e)
    PROVE  Inv' /\ Frozen(ledgers, ledgers')
  <1>1. pc[e] = "index" /\ pc[e] \notin Holding /\ "publish" \notin Holding /\ "publish" \in Labels
    BY DEF IndexSources, Holding, Labels
  <1>2. UNCHANGED <<disk, aged, pruning>>
    BY DEF IndexSources
  <1>3. CASE EndCommand(e)
    BY <1>2, <1>3, EndsUnchanged
  <1>4. CASE Goto(e, "publish") /\ UNCHANGED <<self, locks, work>>
    <2>1. self[e] \in Selves /\ self' = [self EXCEPT ![e] = self[e]]
          /\ Ready(pc[e], self[e], discovered, retired)
      BY <1>4 DEF Inv
    <2>2. Shapes' /\ UNCHANGED <<ledgers, work, captureLock, discovered, retired>>
      BY <1>2, <1>4 DEF Shapes, Inv, disk, locks
    <2>3. Ready("publish", self[e], discovered', retired')
      BY <2>1, <2>2 DEF Ready
    <2>4. pc' = [pc EXCEPT ![e] = "publish"]
      BY <1>4 DEF Goto
    <2> QED
      BY <1>1, <2>1, <2>2, <2>3, <2>4, FreeStep
  <1> QED
    BY <1>3, <1>4 DEF IndexSources

LEMMA PublishDiscoveryStep ==
    ASSUME Inv, NEW e \in Explorers, PublishDiscovery(e)
    PROVE  Inv' /\ Frozen(ledgers, ledgers')
  <1>1. pc[e] = "publish" /\ pc[e] \notin Holding /\ "mark" \notin Holding /\ "mark" \in Labels
    BY DEF PublishDiscovery, Holding, Labels
  <1>2. UNCHANGED <<ledgers, made, stored, damaged, old, retired, aged, pruning>>
    BY DEF PublishDiscovery
  <1>3. CASE EndCommand(e) /\ discovered' = discovered
    BY <1>2, <1>3, EndsUnchanged DEF disk
  <1>4. CASE /\ discovered' = discovered \cup self[e].need
             /\ Goto(e, "mark") /\ UNCHANGED <<self, locks, work>>
    <2>1. self[e] \in Selves /\ self' = [self EXCEPT ![e] = self[e]]
          /\ Ready(pc[e], self[e], discovered, retired)
      BY <1>4 DEF Inv
    <2>2. Shapes' /\ UNCHANGED <<ledgers, work, captureLock, retired>>
      BY <1>2, <1>4, <2>1 DEF Shapes, Inv, locks, Selves
    <2>3. Ready("mark", self[e], discovered', retired')
      BY <1>4, <2>1, <2>2 DEF Ready
    <2>4. pc' = [pc EXCEPT ![e] = "mark"]
      BY <1>4 DEF Goto
    <2> QED
      BY <1>1, <1>4, <2>1, <2>2, <2>3, <2>4, FreeStep
  <1> QED
    BY <1>3, <1>4 DEF PublishDiscovery

\* Releasing a ledger that Covered allows keeps what holds of the files.
LEMMA ReleaseKeeps ==
    ASSUME NEW L \in Seq(Ledgers), NEW D, Files(L, D), NEW j, NEW N \in SUBSET D,
           j \in DOMAIN L, L[j].status # "open", Captured(L[j]) \subseteq N,
           NEW M, M = [L EXCEPT ![j].handoff = "consumed"]
    PROVE  Files(M, D) /\ Frozen(L, M)
  <1> DEFINE r == [L[j] EXCEPT !.handoff = "consumed"]
  <1>1. L[j] \in Ledgers
    OBVIOUS
  <1>2. /\ r \in Ledgers /\ r.handoff = "consumed" /\ r.status = L[j].status
        /\ r.slices = L[j].slices
    BY <1>1 DEF Ledgers
  <1>3. Captured(r) = Captured(L[j]) /\ Pending(r) = Pending(L[j])
    BY <1>2 DEF Captured, Pending
  <1>4. M = [L EXCEPT ![j] = r]
    OBVIOUS
  <1>5. L[j].handoff = "consumed" => r = L[j]
    BY <1>1 DEF Ledgers
  <1> HIDE DEF r
  <1>6. M \in Seq(Ledgers) /\ DOMAIN M = DOMAIN L
    BY <1>2, <1>4, ExceptSeq
  <1>7. M[j] = r /\ \A i \in DOMAIN L : i # j => M[i] = L[i]
    BY <1>4, <1>6
  <1>8. OneOpen(M)
    BY <1>2, <1>6, <1>7 DEF Files, OneOpen
  <1>9. NoGap(M)
    BY <1>2, <1>3, <1>6, <1>7 DEF Files, NoGap
  <1>10. Used(M, D)
    BY <1>2, <1>3, <1>6, <1>7 DEF Files, Used
  <1>11. Frozen(L, M)
    BY <1>5, <1>6, <1>7 DEF Frozen
  <1> QED
    BY <1>6, <1>8, <1>9, <1>10, <1>11 DEF Files

LEMMA MarkConsumedStep ==
    ASSUME Inv, NEW e \in Explorers, MarkConsumed(e)
    PROVE  Inv' /\ Frozen(ledgers, ledgers')
  <1>1. pc[e] = "mark" /\ pc[e] \notin Holding /\ "mark" \in Labels /\ e # NoOne
    BY CaptureAssumption DEF MarkConsumed, Holding, Labels
  <1>2. UNCHANGED <<store, aged, pruning>>
    BY DEF MarkConsumed
  <1>3. CASE EndCommand(e) /\ ledgers' = ledgers
    BY <1>2, <1>3, EndsUnchanged DEF disk, store
  <1>4. CASE captureLock = NoOne /\ UNCHANGED <<pc, locks, work>>
             /\ ~ (EndCommand(e) /\ ledgers' = ledgers)
    <2> DEFINE j == CHOOSE i \in self[e].hand : \A k \in self[e].hand : i <= k
               m == [self[e] EXCEPT !.hand = @ \ {j}]
               D == discovered \cup retired
               N == self[e].need \cup self[e].gone
    <2>1. ledgers' = IF Covered(e, j) THEN [ledgers EXCEPT ![j].handoff = "consumed"] ELSE ledgers
      BY <1>4 DEF MarkConsumed
    <2>2. self' = [self EXCEPT ![e].hand = @ \ {j}]
      BY <1>4 DEF MarkConsumed
    <2>3. self[e] \in Selves /\ Ready("mark", self[e], discovered, retired)
          /\ Files(ledgers, D) /\ ledgers \in Seq(Ledgers)
      BY <1>1 DEF Inv, Files
    <2>4. N \subseteq D
      BY <2>3 DEF Ready
    <2>5. self' = [self EXCEPT ![e] = m]
      BY <2>2
    <2> HIDE DEF j
    <2>6. m \in Selves /\ m.need = self[e].need /\ m.gone = self[e].gone
      BY <2>3 DEF Selves
    <2> HIDE DEF m
    <2>7. Files(ledgers', D) /\ Frozen(ledgers, ledgers')
      <3>1. CASE ~ Covered(e, j) \/ j \notin DOMAIN ledgers
        <4>1. ledgers' = ledgers
          <5>1. CASE ~ Covered(e, j)
            BY <2>1, <5>1
          <5>2. CASE j \notin DOMAIN ledgers /\ Covered(e, j)
            BY <2>1, <2>3, <5>2
          <5> QED
            BY <3>1, <5>1, <5>2
        <4> QED
          BY <4>1, <2>3, StayFrozen
      <3>2. CASE Covered(e, j) /\ j \in DOMAIN ledgers
        <4>1. ledgers' = [ledgers EXCEPT ![j].handoff = "consumed"]
          BY <2>1, <3>2
        <4>2. ledgers[j].status # "open" /\ Captured(ledgers[j]) \subseteq N
          BY <3>2 DEF Covered
        <4> HIDE DEF D, N
        <4> QED
          BY <2>3, <2>4, <3>2, <4>1, <4>2, ReleaseKeeps
      <3> QED
        BY <3>1, <3>2
    <2>8. Shapes' /\ discovered' = discovered /\ retired' = retired
          /\ (discovered \cup retired)' = D
      BY <1>2, <1>4 DEF Inv, Shapes, store, locks
    <2>9. pc' = [pc EXCEPT ![e] = "mark"]
      BY <1>1, <1>4 DEF Inv
    <2>10. Holds(e, "mark", captureLock') /\ Memory("mark", work', ledgers')
           /\ Ready("mark", m, discovered', retired')
      <3>1. "mark" \notin Holding /\ "mark" \notin HasJob
        BY DEF Holding, HasJob
      <3> QED
        BY <1>1, <1>4, <2>3, <2>6, <2>8, <3>1 DEF Holds, Memory, Ready, locks
    <2>11. captureLock' = captureLock /\ captureLock = NoOne
      BY <1>4 DEF locks
    <2>12. Inv'
      BY <1>1, <2>5, <2>6, <2>7, <2>8, <2>9, <2>10, <2>11, Moved
    <2> QED
      BY <2>7, <2>12
  <1> QED
    BY <1>3, <1>4 DEF MarkConsumed

LEMMA MarkedStep ==
    ASSUME Inv, NEW e \in Explorers, Marked(e)
    PROVE  Inv' /\ Frozen(ledgers, ledgers')
  BY EndsUnchanged DEF Marked

LEMMA CrashStep ==
    ASSUME Inv, NEW e \in Explorers, Crash(e)
    PROVE  Inv' /\ Frozen(ledgers, ledgers')
  BY EndsUnchanged DEF Crash

-----------------------------------------------------------------------------
(* Pruning and the environment *)

\* Steps of others, which retire artifacts but touch no ledger and no command.
LEMMA OutsideStep ==
    ASSUME Inv, UNCHANGED <<ledgers, work, captureLock, pc, self, discovered>>,
           retired \subseteq retired', Shapes'
    PROVE  Inv' /\ Frozen(ledgers, ledgers')
  <1>1. Files(ledgers', (discovered \cup retired)')
    <2>1. discovered \cup retired \subseteq (discovered \cup retired)'
      OBVIOUS
    <2> QED
      BY <2>1 DEF Inv, Files, Used
  <1>2. ASSUME NEW e \in Explorers
        PROVE  Holds(e, pc'[e], captureLock') /\ Memory(pc'[e], work', ledgers')
               /\ Ready(pc'[e], self'[e], discovered', retired')
    <2>1. Holds(e, pc[e], captureLock) /\ Memory(pc[e], work, ledgers)
          /\ Ready(pc[e], self[e], discovered, retired)
      BY DEF Inv
    <2> QED
      BY <2>1 DEF Ready
  <1> QED
    BY <1>1, <1>2, StayFrozen DEF Inv

LEMMA OutsideSteps ==
    ASSUME Inv, PlanPrune \/ PruneStep \/ CrashPrune \/ Damage \/ Day
    PROVE  Inv' /\ Frozen(ledgers, ledgers')
  <1>1. Shapes
    BY DEF Inv
  <1>2. CASE PlanPrune
    <2>1. \A a \in old : a \in Nat
      BY <1>1 DEF Shapes
    <2> DEFINE T == (old \cap stored) \ LiveArtifacts
    <2>2. pruning' = [at |-> "retire", targets |-> T]
      BY <1>2 DEF PlanPrune
    <2>3. T \in SUBSET Nat
      BY <2>1
    <2> HIDE DEF T
    <2>4. pruning' \in [at : {"idle", "retire", "delete"}, targets : SUBSET Nat]
      BY <2>2, <2>3
    <2>5. Shapes'
      BY <1>1, <1>2, <2>4 DEF PlanPrune, Shapes, disk
    <2> QED
      BY <1>2, <2>5, OutsideStep DEF PlanPrune, disk
  <1>3. CASE Retire
    <2>1. Shapes'
      BY <1>1, <1>3 DEF Retire, Shapes, locks
    <2> QED
      BY <1>3, <2>1, OutsideStep DEF Retire, locks
  <1>4. CASE DeleteOne
    <2>1. Shapes'
      BY <1>1, <1>4 DEF DeleteOne, Shapes, locks
    <2> QED
      BY <1>4, <2>1, OutsideStep DEF DeleteOne, locks
  <1>5. CASE FinishPrune
    <2>1. Shapes'
      BY <1>1, <1>5 DEF FinishPrune, EndPrune, Shapes, disk
    <2> QED
      BY <1>5, <2>1, OutsideStep DEF FinishPrune, disk
  <1>6. CASE CrashPrune
    <2>1. Shapes'
      BY <1>1, <1>6 DEF CrashPrune, EndPrune, Shapes, disk
    <2> QED
      BY <1>6, <2>1, OutsideStep DEF CrashPrune, disk
  <1>7. CASE Damage
    <2>1. Shapes'
      BY <1>1, <1>7 DEF Damage, Shapes, Sound, locks
    <2> QED
      BY <1>7, <2>1, OutsideStep DEF Damage, locks
  <1>8. CASE Day
    <2>1. Shapes'
      <3>1. DOMAIN ledgers \subseteq Nat
        BY DEF Inv, Files
      <3> QED
        BY <1>1, <1>8, <3>1 DEF Day, Shapes, locks
    <2> QED
      BY <1>8, <2>1, OutsideStep DEF Day, locks
  <1> QED
    BY <1>2, <1>3, <1>4, <1>5, <1>6, <1>7, <1>8 DEF PruneStep

-----------------------------------------------------------------------------
(* Theorems *)

LEMMA StutterStep ==
    ASSUME Inv, UNCHANGED vars
    PROVE  Inv' /\ Frozen(ledgers, ledgers')
  <1>1. Shapes'
    BY DEF Inv, Shapes, vars, disk, locks
  <1> QED
    BY <1>1, OutsideStep DEF vars, disk, locks

LEMMA InitInv == Init => Inv
  <1> SUFFICES ASSUME Init PROVE Inv
    OBVIOUS
  <1>1. Shapes
    BY Constants DEF Init, Shapes
  <1>2. pc \in [Explorers -> Labels] /\ self \in [Explorers -> Selves]
    BY Constants DEF Init, Labels
  <1>3. Files(ledgers, discovered \cup retired)
    <2>1. ledgers = << >> /\ DOMAIN << >> = {} /\ << >> \in Seq(Ledgers)
      BY DEF Init
    <2> QED
      BY <2>1 DEF Files, OneOpen, NoGap, Used
  <1>4. ASSUME NEW e \in Explorers
        PROVE  /\ Holds(e, pc[e], captureLock) /\ Memory(pc[e], work, ledgers)
               /\ Ready(pc[e], self[e], discovered, retired)
    <2>1. pc[e] = "idle" /\ self[e] = NoSelf /\ captureLock = NoOne /\ e # NoOne
      BY CaptureAssumption DEF Init
    <2> QED
      BY <2>1, Constants DEF Holds, Holding, HasJob, Memory, Ready
  <1>5. captureLock \in Explorers \cup {NoOne}
    BY DEF Init
  <1> QED
    BY <1>1, <1>2, <1>3, <1>4, <1>5 DEF Inv

LEMMA InvNext ==
    ASSUME Inv, [Next]_vars
    PROVE  Inv' /\ Frozen(ledgers, ledgers')
  <1>1. CASE \E e \in Explorers : ExploreStep(e) \/ Explore(e) \/ WriteFails(e) \/ Crash(e)
    <2>1. PICK e \in Explorers : ExploreStep(e) \/ Explore(e) \/ WriteFails(e) \/ Crash(e)
      BY <1>1
    <2>2. CASE ExploreStep(e)
      BY <2>2, CloseStaleStep, OpenJobStep, ReconcileStep, NextTableStep, EndRunStep,
         AnsweredStep, AnsweredWholeStep, StoppedStep, FatalStep, LockEvidenceStep,
         WriteArtifactStep, LinkArtifactStep, FinishStep, ReadReferencesStep,
         IndexSourcesStep, PublishDiscoveryStep, MarkConsumedStep, MarkedStep DEF ExploreStep
    <2>3. CASE Explore(e)
      BY <2>3, ExploreStarts
    <2>4. CASE WriteFails(e)
      BY <2>4, WriteFailsStep
    <2>5. CASE Crash(e)
      BY <2>5, CrashStep
    <2> QED
      BY <2>1, <2>2, <2>3, <2>4, <2>5
  <1>2. CASE PlanPrune \/ PruneStep \/ CrashPrune \/ Damage \/ Day
    BY <1>2, OutsideSteps
  <1>3. CASE UNCHANGED vars
    BY <1>3, StutterStep
  <1> QED
    BY <1>1, <1>2, <1>3 DEF Next

LEMMA InvHolds == Spec => []Inv
  <1>1. Inv /\ [Next]_vars => Inv'
    BY InvNext
  <1> QED
    BY <1>1, InitInv, PTL DEF Spec

\* Every reachable state has the shape of ledgers, locks and results directory.
THEOREM TypeCorrect == Spec => []TypeOK
  <1>1. Inv => TypeOK
    BY DEF Inv, Shapes, TypeOK, Files
  <1> QED
    BY <1>1, InvHolds, PTL

\* For any number of commands, tables and bindings: a job is released only
\* when discovery has used, or pruning retired, everything it captured.
THEOREM ReleasedWasUsed == Spec => []ConsumedIsUsed
  <1>1. Inv => ConsumedIsUsed
    BY DEF Inv, Files, Used, ConsumedIsUsed
  <1> QED
    BY <1>1, InvHolds, PTL

\* At most one job is open, whichever commands ran, failed or crashed.
THEOREM AtMostOneOpen == Spec => []OneOpenJob
  <1>1. Inv => OneOpenJob
    BY DEF Inv, Files, OneOpen, OneOpenJob, Open
  <1> QED
    BY <1>1, InvHolds, PTL

\* A closed job has no pending table.
THEOREM GapsAreRecorded == Spec => []NoSilentGap
  <1>1. Inv => NoSilentGap
    BY DEF Inv, Files, NoGap, NoSilentGap
  <1> QED
    BY <1>1, InvHolds, PTL

\* A released job never changes again.
THEOREM ReleaseIsFinal == Spec => HandoffIsFinal
  <1>1. Inv /\ [Next]_vars => [\A j \in DOMAIN ledgers :
            ledgers[j].handoff = "consumed" => ledgers'[j] = ledgers[j]]_vars
    BY InvNext DEF Frozen
  <1> QED
    BY <1>1, InvHolds, PTL DEF Spec, HandoffIsFinal

\* The only steps that go back to the loop with an answer.
LEMMA BackToTheLoop ==
    ASSUME Inv, [Next]_vars, NEW e \in Explorers, pc[e] \in {"request", "link"}, pc'[e] = "run"
    PROVE  Answered(e) \/ LinkArtifact(e)
  <1>1. pc \in [Explorers -> Labels]
    BY DEF Inv
  <1>2. CASE \E f \in Explorers : ExploreStep(f) \/ Explore(f) \/ WriteFails(f) \/ Crash(f)
    <2>1. PICK f \in Explorers : ExploreStep(f) \/ Explore(f) \/ WriteFails(f) \/ Crash(f)
      BY <1>2
    <2>2. ASSUME f # e PROVE pc'[e] = pc[e]
      <3>1. CASE CloseStale(f) \/ OpenJob(f) \/ Reconcile(f) \/ EndRun(f) \/ Explore(f)
        BY <1>1, <2>2, <3>1 DEF CloseStale, OpenJob, Reconcile, EndRun, Explore, Goto
      <3>2. CASE NextTable(f) \/ Answered(f) \/ LinkArtifact(f)
        BY <1>1, <2>2, <3>2 DEF NextTable, Answered, LinkArtifact, Save, Abort, Goto
      <3>3. CASE AnsweredWhole(f) \/ Stopped(f) \/ Fatal(f) \/ LockEvidence(f) \/ WriteArtifact(f)
        BY <1>1, <2>2, <3>3 DEF AnsweredWhole, Stopped, Fatal, LockEvidence, WriteArtifact,
                                Abort, Goto
      <3>4. CASE Finish(f) \/ ReadReferences(f) \/ IndexSources(f) \/ PublishDiscovery(f)
        BY <1>1, <2>2, <3>4 DEF Finish, ReadReferences, IndexSources, PublishDiscovery,
                                EndCommand, Goto
      <3>5. CASE MarkConsumed(f) \/ Marked(f) \/ WriteFails(f) \/ Crash(f)
        BY <1>1, <2>2, <3>5 DEF MarkConsumed, Marked, WriteFails, Crash, EndCommand, Abort, Goto
      <3> QED
        BY <2>1, <3>1, <3>2, <3>3, <3>4, <3>5 DEF ExploreStep
    <2>3. f = e
      BY <2>2
    <2>4. CASE \/ CloseStale(e) \/ OpenJob(e) \/ Reconcile(e) \/ NextTable(e) \/ EndRun(e)
               \/ Explore(e) \/ LockEvidence(e) \/ WriteArtifact(e) \/ Finish(e)
      BY <2>4 DEF CloseStale, OpenJob, Reconcile, NextTable, EndRun, Explore, LockEvidence,
                  WriteArtifact, Finish
    <2>5. CASE \/ ReadReferences(e) \/ IndexSources(e) \/ PublishDiscovery(e)
               \/ MarkConsumed(e) \/ Marked(e)
      BY <2>5 DEF ReadReferences, IndexSources, PublishDiscovery, MarkConsumed, Marked
    <2>6. CASE AnsweredWhole(e) \/ Stopped(e) \/ Fatal(e)
      BY <1>1, <2>6 DEF AnsweredWhole, Stopped, Fatal, Abort, Goto
    <2>7. CASE WriteFails(e) \/ Crash(e)
      BY <1>1, <2>7 DEF WriteFails, Crash, EndCommand, Abort, Goto
    <2> QED
      BY <2>1, <2>3, <2>4, <2>5, <2>6, <2>7 DEF ExploreStep
  <1>3. CASE PlanPrune \/ PruneStep \/ CrashPrune \/ Damage \/ Day
    BY <1>3 DEF PlanPrune, PruneStep, Retire, DeleteOne, FinishPrune, CrashPrune, Damage, Day
  <1>4. CASE UNCHANGED vars
    BY <1>4 DEF vars
  <1> QED
    BY <1>2, <1>3, <1>4 DEF Next

\* For any size limits and any number of tables: every answer leaves less to
\* try for its table, and leaves the other tables alone.
THEOREM RetriesEnd == Spec => RetriesRunOut
  <1>1. Inv /\ [Next]_vars => [\A e \in Explorers : pc[e] \in {"request", "link"} /\ pc'[e] = "run" =>
          /\ Left(work'.ledger.slices[work.table]) < Left(Slice)
          /\ \A t \in Tables \ {work.table} : work'.ledger.slices[t] = work.ledger.slices[t]]_vars
    BY BackToTheLoop, AnsweredStep, LinkArtifactStep
  <1> QED
    BY <1>1, InvHolds, PTL DEF Spec, RetriesRunOut

-----------------------------------------------------------------------------
(* What a rerun and a pruning leave alone.  The ledger in memory and the   *)
(* one on disk have the same finished tables, except that after a save     *)
(* that failed the memory may have one more, whose artifact is new.  What  *)
(* a pruning deletes is old, and no ledger that is not released refers to  *)
(* it.                                                                     *)

Done(led, t) == led.slices[t].state = "complete"
Alike(led, saved, t) ==
    led.slices[t].state = saved.slices[t].state /\ led.slices[t].art = saved.slices[t].art

\* led still has what saved has; what it has beyond that is not in O.
Carries(led, saved) == \A t \in Tables : Done(saved, t) => Alike(led, saved, t)
Gains(led, saved, O) ==
    \A t \in Tables : Done(led, t) => Alike(led, saved, t) \/ led.slices[t].art \notin O

Tracks(l, w, L, O) ==
    l \in HasJob =>
      /\ Carries(w.ledger, L[w.job])
      /\ Gains(w.ledger, L[w.job], IF l = "finish" THEN O ELSE Nat)
      /\ l = "link" => w.art \notin O

Pins(L, T) == \A j \in DOMAIN L : L[j].handoff = "pending" => Captured(L[j]) \cap T = {}

Kept ==
    /\ pruning.targets \subseteq old
    /\ Pins(ledgers, pruning.targets)
    /\ \A e \in Explorers : Tracks(pc[e], work, ledgers, old)

\* A change of the files that refetches nothing in S.
Resumes(L, M, S) == \A j \in DOMAIN L, t \in Tables :
                        Done(L[j], t) /\ L[j].slices[t].art \in S => Alike(M[j], L[j], t)

\* A change of the files after which no job refers to more of O.
Adds(L, M, O) ==
    \A j \in DOMAIN M : M[j].handoff = "pending" => \A a \in Captured(M[j]) :
        \/ a \notin O
        \/ j \in DOMAIN L /\ L[j].handoff = "pending" /\ a \in Captured(L[j])

LEMMA NothingAdded ==
    ASSUME NEW L, NEW O, NEW S
    PROVE  Adds(L, L, O) /\ Resumes(L, L, S)
  BY DEF Adds, Resumes, Alike

\* What is not added to is pinned as before.
LEMMA PinsStay ==
    ASSUME NEW L, NEW M, NEW O, NEW T \in SUBSET O, Pins(L, T), Adds(L, M, O)
    PROVE  Pins(M, T)
  BY DEF Pins, Adds

\* A step of one explorer that keeps to its own job.
LEMMA KeptMoved ==
    ASSUME Inv, Kept, NEW e \in Explorers, NEW l, pc' = [pc EXCEPT ![e] = l],
           captureLock \in {e, NoOne} \/ (work' = work /\ ledgers' = ledgers),
           old' = old, pruning' = pruning, Adds(ledgers, ledgers', old),
           Tracks(l, work', ledgers', old)
    PROVE  Kept'
  <1>1. pc'[e] = l /\ \A f \in Explorers \ {e} : pc'[f] = pc[f]
    BY DEF Inv
  <1>2. ASSUME NEW f \in Explorers \ {e} PROVE Tracks(pc'[f], work', ledgers', old')
    <2>1. Tracks(pc[f], work, ledgers, old) /\ Holds(f, pc[f], captureLock) /\ f # NoOne
      BY CaptureAssumption DEF Kept, Inv
    <2>2. CASE captureLock \in {e, NoOne}
      BY <1>1, <2>1, <2>2 DEF Holds, HasJob, Tracks
    <2>3. CASE work' = work /\ ledgers' = ledgers
      BY <1>1, <2>1, <2>3
    <2> QED
      BY <2>2, <2>3
  <1>3. Pins(ledgers', pruning'.targets) /\ pruning'.targets \subseteq old'
    BY PinsStay DEF Kept
  <1> QED
    BY <1>1, <1>2, <1>3 DEF Kept

\* A step of a command that has no job, before it or after.
LEMMA KeptFree ==
    ASSUME Inv, Kept, NEW e \in Explorers, NEW l, l \notin HasJob, pc' = [pc EXCEPT ![e] = l],
           captureLock \in {e, NoOne} \/ (work' = work /\ ledgers' = ledgers),
           old' = old, pruning' = pruning, Adds(ledgers, ledgers', old)
    PROVE  Kept'
  BY KeptMoved DEF Tracks

LEMMA KeptEnded ==
    ASSUME Inv, Kept, NEW e \in Explorers, EndCommand(e), old' = old, pruning' = pruning,
           captureLock = e \/ ledgers' = ledgers, Adds(ledgers, ledgers', old)
    PROVE  Kept'
  BY KeptFree DEF EndCommand, Goto, HasJob, Holding

\* Saving a ledger that has what was saved before.
LEMMA SavedKeeps ==
    ASSUME NEW L \in Seq(Ledgers), NEW k \in DOMAIN L, NEW led \in Ledgers, NEW O, NEW S,
           L[k].handoff = "pending", Gains(led, L[k], O),
           \A t \in Tables : Done(L[k], t) /\ L[k].slices[t].art \in S => Alike(led, L[k], t)
    PROVE  /\ Adds(L, Saved(L, k, led), O) /\ Resumes(L, Saved(L, k, led), S)
           /\ Saved(L, k, led)[k] = led
  <1> DEFINE M == Saved(L, k, led)
  <1>1. DOMAIN M = DOMAIN L /\ M[k] = led /\ \A j \in DOMAIN L : j # k => M[j] = L[j]
    BY DEF Saved
  <1> HIDE DEF M
  <1>2. ASSUME NEW a \in Captured(led) PROVE a \notin O \/ a \in Captured(L[k])
    BY DEF Captured, Gains, Done, Alike
  <1>3. Adds(L, M, O)
    BY <1>1, <1>2 DEF Adds
  <1>4. Resumes(L, M, S)
    BY <1>1 DEF Resumes, Alike
  <1> QED
    BY <1>1, <1>3, <1>4 DEF M

LEMMA TracksItself ==
    ASSUME NEW l, NEW w, NEW L, NEW O, w.ledger = L[w.job], l # "link"
    PROVE  Tracks(l, w, L, O)
  BY DEF Tracks, Carries, Gains, Alike

\* Save: the ledger on disk becomes the one in memory, or the run ends.
LEMMA KeptSave ==
    ASSUME Inv, Kept, NEW e \in Explorers, pc[e] \in HasJob, NEW l, l # "link", Save(e, l),
           work' \in Works, work'.job = work.job, old' = old, pruning' = pruning,
           Carries(work'.ledger, ledgers[work.job]),
           Gains(work'.ledger, ledgers[work.job], old)
    PROVE  Kept' /\ Resumes(ledgers, ledgers', Sound)
  <1>1. /\ captureLock = e /\ work.job \in DOMAIN ledgers /\ ledgers \in Seq(Ledgers)
        /\ ledgers[work.job].handoff = "pending" /\ work'.ledger \in Ledgers
    BY InMemory DEF Works
  <1>2. CASE ledgers' = [ledgers EXCEPT ![work.job] = work'.ledger] /\ Goto(e, l)
    <2>1. ledgers' = Saved(ledgers, work.job, work'.ledger)
      BY <1>2 DEF Saved
    <2>2. \A t \in Tables : Done(ledgers[work.job], t) /\ ledgers[work.job].slices[t].art \in Sound
             => Alike(work'.ledger, ledgers[work.job], t)
      BY DEF Carries
    <2>3. /\ Adds(ledgers, ledgers', old) /\ Resumes(ledgers, ledgers', Sound)
          /\ ledgers'[work.job] = work'.ledger
      BY <1>1, <2>1, <2>2, SavedKeeps
    <2>4. Tracks(l, work', ledgers', old)
      BY <2>3, TracksItself
    <2> QED
      BY <1>1, <1>2, <2>3, <2>4, KeptMoved DEF Goto
  <1>3. CASE Abort(e) /\ ledgers' = ledgers
    <2>1. Tracks("finish", work', ledgers', old)
      BY <1>3 DEF Tracks
    <2> QED
      BY <1>1, <1>3, <2>1, NothingAdded, KeptMoved DEF Abort, Goto
  <1> QED
    BY <1>2, <1>3 DEF Save

\* What the owner of a job knows of the ledger on disk.
LEMMA InStep ==
    ASSUME Inv, Kept, NEW e \in Explorers, pc[e] \in HasJob
    PROVE  /\ Carries(work.ledger, ledgers[work.job])
           /\ Gains(work.ledger, ledgers[work.job], IF pc[e] = "finish" THEN old ELSE Nat)
           /\ pc[e] = "link" => work.art \notin old
           /\ old \subseteq Nat
  BY DEF Kept, Tracks, Inv, Shapes

\* Only the table in hand changes, and it was not finished.
LEMMA TableInHand ==
    ASSUME NEW led, NEW new, NEW saved, NEW t \in Tables, NEW O, NEW P, P \subseteq O,
           Carries(led, saved), Gains(led, saved, O), led.slices[t].state = "pending",
           \A u \in Tables \ {t} : new.slices[u] = led.slices[u],
           new.slices[t] = led.slices[t] \/ new.slices[t].state # "complete"
             \/ new.slices[t].art \notin P
    PROVE  Carries(new, saved) /\ Gains(new, saved, P)
  BY DEF Carries, Gains, Done, Alike

\* A new job, or another status or handoff: no slice changes.
LEMMA SameSlices ==
    ASSUME NEW L \in Seq(Ledgers), NEW M, NEW O, NEW S, DOMAIN M = DOMAIN L,
           \A j \in DOMAIN L : /\ M[j].slices = L[j].slices
                               /\ M[j].handoff = "pending" => L[j].handoff = "pending"
    PROVE  Adds(L, M, O) /\ Resumes(L, M, S)
  <1>1. \A j \in DOMAIN L : Captured(M[j]) = Captured(L[j])
    BY DEF Captured
  <1> QED
    BY <1>1 DEF Adds, Resumes, Alike

LEMMA CloseStaleKept ==
    ASSUME Inv, Kept, NEW e \in Explorers, CloseStale(e)
    PROVE  Kept' /\ Resumes(ledgers, ledgers', Sound)
  <1>1. PICK j \in Stale(e) : ledgers' = [ledgers EXCEPT ![j].status =
              IF ledgers[j].key # self[e].key THEN "superseded" ELSE "expired"]
    BY DEF CloseStale
  <1>2. ledgers \in Seq(Ledgers) /\ pc = [pc EXCEPT ![e] = "open"] /\ captureLock = e
    BY Owner DEF CloseStale, Files, Holding
  <1>3. /\ DOMAIN ledgers' = DOMAIN ledgers
        /\ \A i \in DOMAIN ledgers : /\ ledgers'[i].slices = ledgers[i].slices
                                     /\ ledgers'[i].handoff = ledgers[i].handoff
    <2>1. \A i \in DOMAIN ledgers : ledgers[i] \in Ledgers
      BY <1>2
    <2> QED
      BY <1>1, <1>2, <2>1 DEF Ledgers
  <1>4. Adds(ledgers, ledgers', old) /\ Resumes(ledgers, ledgers', Sound)
    BY <1>2, <1>3, SameSlices
  <1> QED
    BY <1>2, <1>4, KeptFree DEF CloseStale, HasJob, Holding, store

LEMMA OpenJobKept ==
    ASSUME Inv, Kept, NEW e \in Explorers, OpenJob(e)
    PROVE  Kept' /\ Resumes(ledgers, ledgers', Sound)
  <1>1. ledgers \in Seq(Ledgers) /\ captureLock = e
    BY Owner DEF OpenJob, Files, Holding
  <1>2. Adds(ledgers, ledgers', old) /\ Resumes(ledgers, ledgers', Sound)
    <2>1. CASE ledgers' = ledgers
      BY <2>1, NothingAdded
    <2>2. CASE ledgers' = Append(ledgers, NewLedger(self[e].key))
      <3> DEFINE led == NewLedger(self[e].key)
      <3>1. Captured(led) = {}
        BY DEF Captured, NewLedger, NewSlice
      <3> HIDE DEF led
      <3>2. /\ \A j \in DOMAIN ledgers' : j = Len(ledgers) + 1 \/ j \in DOMAIN ledgers
            /\ ledgers'[Len(ledgers) + 1] = led
            /\ \A j \in DOMAIN ledgers : ledgers'[j] = ledgers[j]
        <4>1. ledgers' = Append(ledgers, led)
          BY <2>2 DEF led
        <4> QED
          BY <1>1, <4>1
      <3>3. Adds(ledgers, ledgers', old)
        BY <3>1, <3>2 DEF Adds
      <3>4. Resumes(ledgers, ledgers', Sound)
        BY <3>2 DEF Resumes, Alike
      <3> QED
        BY <3>3, <3>4
    <2> QED
      BY <2>1, <2>2 DEF OpenJob
  <1>3. Tracks("reconcile", work', ledgers', old)
    BY OpenJobStep, TracksItself
  <1>4. pc' = [pc EXCEPT ![e] = "reconcile"] /\ old' = old /\ pruning' = pruning
    BY DEF OpenJob, Goto, store
  <1> QED
    BY <1>1, <1>2, <1>3, <1>4, KeptMoved

LEMMA ReconcileKept ==
    ASSUME Inv, Kept, NEW e \in Explorers, Reconcile(e)
    PROVE  Kept' /\ Resumes(ledgers, ledgers', Sound)
  <1>1. pc[e] = "reconcile" /\ pc[e] \in HasJob /\ old' = old /\ pruning' = pruning
        /\ pc' = [pc EXCEPT ![e] = "run"]
    BY DEF Reconcile, HasJob, Holding, store, Goto
  <1>2. /\ work.job \in DOMAIN ledgers /\ ledgers \in Seq(Ledgers) /\ captureLock = e
        /\ ledgers[work.job].handoff = "pending"
        /\ work \in Works /\ work.ledger \in Ledgers /\ self[e].budget \in Budgets
        /\ Gapless(work.ledger)
    BY <1>1, InMemory DEF Selves
  <1>3. /\ Carries(work.ledger, ledgers[work.job]) /\ Gains(work.ledger, ledgers[work.job], Nat)
        /\ old \subseteq Nat
    BY <1>1, InStep
  <1> DEFINE led == Reconciled(work.ledger, self[e].budget)
  <1>4. led \in Ledgers
    BY <1>2, ReconciledKeeps
  <1>5. \A t \in Tables : led.slices[t] = ReconciledSlice(work.ledger.slices[t], self[e].budget)
    BY <1>2 DEF Reconciled, Ledgers
  <1>6. /\ work' = [work EXCEPT !.ledger = led]
        /\ ledgers' = [ledgers EXCEPT ![work.job] = work'.ledger]
    BY DEF Reconcile
  <1> HIDE DEF led
  <1>7. /\ work'.ledger = led /\ work'.job = work.job
        /\ ledgers' = Saved(ledgers, work.job, led)
    BY <1>2, <1>6 DEF Saved, Works
  <1>8. ASSUME NEW t \in Tables
        PROVE  /\ Done(led, t) => Alike(led, work.ledger, t)
               /\ Done(work.ledger, t) /\ work.ledger.slices[t].art \in Sound
                    => Alike(led, work.ledger, t)
    <2> DEFINE sl == work.ledger.slices[t]
    <2>1. sl \in Slices /\ led.slices[t] = ReconciledSlice(sl, self[e].budget)
      BY <1>2, <1>5 DEF Ledgers
    <2> HIDE DEF sl
    <2>2. CASE Reopens(sl, self[e].budget)
      <3>1. led.slices[t] = ReopenedSlice(sl)
        BY <2>1, <2>2 DEF ReconciledSlice
      <3>2. led.slices[t].state = "pending"
        BY <3>1 DEF ReopenedSlice, NewSlice
      <3>3. ~ (sl.state = "complete" /\ sl.art \in Sound)
        BY <2>2 DEF Reopens, Verified
      <3> QED
        BY <3>2, <3>3 DEF Done, sl
    <2>3. CASE ~ Reopens(sl, self[e].budget)
      <3>1. led.slices[t] = [sl EXCEPT !.failures = 0]
        BY <2>1, <2>3 DEF ReconciledSlice
      <3>2. led.slices[t].state = sl.state /\ led.slices[t].art = sl.art
        BY <2>1, <3>1 DEF Slices
      <3> QED
        BY <3>2 DEF Alike, sl
    <2> QED
      BY <2>2, <2>3
  <1>9. \A t \in Tables : work.ledger.slices[t].art \in Nat
    BY <1>2 DEF Ledgers, Slices
  <1>10. Gains(led, ledgers[work.job], old)
    BY <1>3, <1>8, <1>9 DEF Gains, Done, Alike
  <1>11. \A t \in Tables : Done(ledgers[work.job], t) /\ ledgers[work.job].slices[t].art \in Sound
            => Alike(led, ledgers[work.job], t)
    BY <1>3, <1>8 DEF Carries, Done, Alike
  <1>12. /\ Adds(ledgers, ledgers', old) /\ Resumes(ledgers, ledgers', Sound)
         /\ ledgers'[work.job] = led
    BY <1>2, <1>4, <1>7, <1>10, <1>11, SavedKeeps
  <1>13. Tracks("run", work', ledgers', old)
    BY <1>7, <1>12, TracksItself
  <1> QED
    BY <1>1, <1>2, <1>12, <1>13, KeptMoved

LEMMA NextTableKept ==
    ASSUME Inv, Kept, NEW e \in Explorers, NextTable(e)
    PROVE  Kept' /\ Resumes(ledgers, ledgers', Sound)
  <1>1. pc[e] = "run" /\ pc[e] \in HasJob /\ old' = old /\ pruning' = pruning /\ Save(e, "request")
    BY DEF NextTable, HasJob, Holding, store
  <1>2. work \in Works
    BY <1>1, InMemory
  <1>3. PICK t \in Pending(work.ledger) : work' = [work EXCEPT !.table = t]
    BY DEF NextTable
  <1>4. work' \in Works /\ work'.job = work.job /\ work'.ledger = work.ledger
    BY <1>2, <1>3 DEF Works, Pending
  <1>5. Carries(work'.ledger, ledgers[work.job]) /\ Gains(work'.ledger, ledgers[work.job], old)
    BY <1>1, <1>4, InStep DEF Gains
  <1> QED
    BY <1>1, <1>4, <1>5, KeptSave

\* Steps that only move, or abort, with the ledger as it was.
LEMMA KeptPlain ==
    ASSUME Inv, Kept, NEW e \in Explorers, pc[e] \in HasJob \ {"finish"}, NEW l, l # "link",
           pc' = [pc EXCEPT ![e] = l], ledgers' = ledgers, old' = old, pruning' = pruning,
           work'.ledger = work.ledger, work'.job = work.job
    PROVE  Kept' /\ Resumes(ledgers, ledgers', Sound)
  <1>1. captureLock = e
    BY InMemory
  <1>2. Tracks(l, work', ledgers', old)
    BY InStep DEF Tracks, Gains
  <1> QED
    BY <1>1, <1>2, KeptMoved, NothingAdded

LEMMA MovesKept ==
    ASSUME Inv, Kept, NEW e \in Explorers,
           EndRun(e) \/ AnsweredWhole(e) \/ Fatal(e) \/ LockEvidence(e)
    PROVE  Kept' /\ Resumes(ledgers, ledgers', Sound)
  <1>1. /\ pc[e] \in HasJob \ {"finish"}
        /\ work' = work /\ ledgers' = ledgers /\ old' = old /\ pruning' = pruning
        /\ \E l \in {"finish", "store", "write"} : pc' = [pc EXCEPT ![e] = l]
    BY DEF EndRun, AnsweredWhole, Fatal, LockEvidence, HasJob, Holding, Goto, Abort, disk
  <1> QED
    BY <1>1, KeptPlain

LEMMA AnsweredKept ==
    ASSUME Inv, Kept, NEW e \in Explorers, Answered(e)
    PROVE  Kept' /\ Resumes(ledgers, ledgers', Sound)
  <1>1. pc[e] = "request" /\ pc[e] \in HasJob /\ old' = old /\ pruning' = pruning /\ Save(e, "run")
    BY DEF Answered, HasJob, Holding, store
  <1>2. work.table \in Tables /\ work.ledger.slices[work.table].state = "pending"
    BY <1>1, InMemory DEF Aimed, Asking
  <1>3. work' \in Works
    BY AnsweredStep DEF Inv, Shapes
  <1>4. Carries(work'.ledger, ledgers[work.job]) /\ Gains(work'.ledger, ledgers[work.job], old)
    BY <1>1, <1>2, InStep, AnsweredStep, TableInHand
  <1> QED
    BY <1>1, <1>3, <1>4, AnsweredStep, KeptSave

LEMMA StoppedKept ==
    ASSUME Inv, Kept, NEW e \in Explorers, Stopped(e)
    PROVE  Kept' /\ Resumes(ledgers, ledgers', Sound)
  <1>1. /\ pc[e] = "request" /\ pc[e] \in HasJob /\ old' = old /\ pruning' = pruning
        /\ ledgers' = ledgers /\ pc' = [pc EXCEPT ![e] = "finish"]
    BY DEF Stopped, HasJob, Holding, disk, Goto
  <1>2. /\ work.table \in Tables /\ work.ledger.slices[work.table].state = "pending"
        /\ captureLock = e
    BY <1>1, InMemory DEF Aimed, Asking
  <1>3. Carries(work'.ledger, ledgers[work.job]) /\ Gains(work'.ledger, ledgers[work.job], old)
    <2> DEFINE led == work.ledger
               new == work'.ledger
               saved == ledgers[work.job]
               t == work.table
    <2>1. Carries(led, saved) /\ Gains(led, saved, Nat) /\ old \subseteq Nat
      BY <1>1, InStep
    <2>2. /\ \A u \in Tables \ {t} : new.slices[u] = led.slices[u]
          /\ new.slices[t] = led.slices[t] \/ new.slices[t].state # "complete"
               \/ new.slices[t].art \notin old
      BY <1>2, StoppedStep
    <2>3. t \in Tables /\ led.slices[t].state = "pending"
      BY <1>2
    <2> HIDE DEF led, new, saved, t
    <2>4. Carries(new, saved) /\ Gains(new, saved, old)
      BY <2>1, <2>2, <2>3, TableInHand
    <2> QED
      BY <2>4 DEF new, saved
  <1>4. Tracks("finish", work', ledgers', old)
    BY <1>1, <1>3, StoppedStep DEF Tracks
  <1> QED
    BY <1>1, <1>2, <1>4, KeptMoved, NothingAdded

LEMMA WriteArtifactKept ==
    ASSUME Inv, Kept, NEW e \in Explorers, WriteArtifact(e)
    PROVE  Kept' /\ Resumes(ledgers, ledgers', Sound)
  <1>1. /\ pc[e] = "write" /\ pc[e] \in HasJob /\ old' = old /\ pruning' = pruning
        /\ ledgers' = ledgers /\ pc' = [pc EXCEPT ![e] = "link"]
    BY DEF WriteArtifact, HasJob, Holding, Goto
  <1>2. work \in Works /\ Shapes /\ captureLock = e
    BY <1>1, InMemory
  <1>3. work'.ledger = work.ledger /\ work'.job = work.job /\ work'.art = made + 1
    BY <1>2 DEF WriteArtifact, Works
  <1>4. made + 1 \notin old
    BY <1>2 DEF Shapes
  <1>5. Tracks("link", work', ledgers', old)
    BY <1>1, <1>3, <1>4, InStep DEF Tracks
  <1> QED
    BY <1>1, <1>2, <1>5, KeptMoved, NothingAdded

LEMMA LinkArtifactKept ==
    ASSUME Inv, Kept, NEW e \in Explorers, LinkArtifact(e)
    PROVE  Kept' /\ Resumes(ledgers, ledgers', Sound)
  <1>1. pc[e] = "link" /\ pc[e] \in HasJob /\ old' = old /\ pruning' = pruning /\ Save(e, "run")
    BY DEF LinkArtifact, HasJob, Holding, store
  <1>2. work.table \in Tables /\ work.ledger.slices[work.table].state = "pending"
    BY <1>1, InMemory DEF Aimed, Asking
  <1>3. work' \in Works
    BY LinkArtifactStep DEF Inv, Shapes
  <1>4. work.art \notin old
    BY <1>1, InStep
  <1>5. Carries(work'.ledger, ledgers[work.job]) /\ Gains(work'.ledger, ledgers[work.job], old)
    <2>1. /\ Carries(work.ledger, ledgers[work.job]) /\ Gains(work.ledger, ledgers[work.job], Nat)
          /\ old \subseteq Nat
      BY <1>1, InStep
    <2>2. /\ \A u \in Tables \ {work.table} : work'.ledger.slices[u] = work.ledger.slices[u]
          /\ work'.ledger.slices[work.table].art \notin old
      BY <1>4, LinkArtifactStep
    <2> QED
      BY <1>2, <2>1, <2>2, TableInHand
  <1> QED
    BY <1>1, <1>3, <1>5, LinkArtifactStep, KeptSave

LEMMA FinishKept ==
    ASSUME Inv, Kept, NEW e \in Explorers, Finish(e)
    PROVE  Kept' /\ Resumes(ledgers, ledgers', Sound)
  <1> DEFINE led == Closing(work.ledger)
  <1>1. pc[e] = "finish" /\ pc[e] \in HasJob /\ old' = old /\ pruning' = pruning
    BY DEF Finish, HasJob, Holding, store
  <1>2. /\ work.job \in DOMAIN ledgers /\ ledgers \in Seq(Ledgers) /\ captureLock = e
        /\ ledgers[work.job].handoff = "pending" /\ work.ledger \in Ledgers /\ Gapless(work.ledger)
    BY <1>1, InMemory
  <1>3. led \in Ledgers /\ led.slices = work.ledger.slices
    BY <1>2, ClosingKeeps
  <1>4. ledgers' = Saved(ledgers, work.job, led)
    BY DEF Finish, Saved
  <1> HIDE DEF led
  <1>5. Carries(led, ledgers[work.job]) /\ Gains(led, ledgers[work.job], old)
    BY <1>1, <1>3, InStep DEF Carries, Gains, Done, Alike
  <1>6. \A t \in Tables : Done(ledgers[work.job], t) /\ ledgers[work.job].slices[t].art \in Sound
           => Alike(led, ledgers[work.job], t)
    BY <1>5 DEF Carries
  <1>7. Adds(ledgers, ledgers', old) /\ Resumes(ledgers, ledgers', Sound)
    BY <1>2, <1>3, <1>4, <1>5, <1>6, SavedKeeps
  <1>8. \E l \in {"idle", "refs"} : pc' = [pc EXCEPT ![e] = l]
    BY DEF Finish, EndCommand, Goto
  <1> QED
    BY <1>1, <1>2, <1>7, <1>8, KeptFree DEF HasJob, Holding

LEMMA WriteFailsKept ==
    ASSUME Inv, Kept, NEW e \in Explorers, WriteFails(e)
    PROVE  Kept' /\ Resumes(ledgers, ledgers', Sound)
  <1>1. ledgers' = ledgers /\ old' = old /\ pruning' = pruning
    BY DEF WriteFails, disk
  <1>2. CASE EndCommand(e)
    BY <1>1, <1>2, KeptEnded, NothingAdded
  <1>3. CASE pc[e] = "write" /\ Abort(e) /\ UNCHANGED <<captureLock, work>>
    BY <1>1, <1>3, KeptPlain DEF Abort, Goto, HasJob, Holding
  <1> QED
    BY <1>2, <1>3 DEF WriteFails

\* Commands that index and publish leave the ledgers alone.
LEMMA UsersKept ==
    ASSUME Inv, Kept, NEW e \in Explorers,
           \/ Explore(e) \/ ReadReferences(e) \/ IndexSources(e) \/ PublishDiscovery(e)
           \/ Marked(e) \/ Crash(e)
    PROVE  Kept' /\ Resumes(ledgers, ledgers', Sound)
  <1>1. ledgers' = ledgers /\ old' = old /\ pruning' = pruning
    BY DEF Explore, ReadReferences, IndexSources, PublishDiscovery, Marked, Crash, disk
  <1>2. CASE EndCommand(e)
    BY <1>1, <1>2, KeptEnded, NothingAdded
  <1>3. CASE work' = work /\ \E l \in {"open", "index", "publish", "mark"} :
                                 pc' = [pc EXCEPT ![e] = l]
    BY <1>1, <1>3, KeptFree, NothingAdded DEF HasJob, Holding
  <1> QED
    BY <1>2, <1>3 DEF Explore, ReadReferences, IndexSources, PublishDiscovery, Marked, Crash, Goto

LEMMA MarkConsumedKept ==
    ASSUME Inv, Kept, NEW e \in Explorers, MarkConsumed(e)
    PROVE  Kept' /\ Resumes(ledgers, ledgers', Sound)
  <1>1. old' = old /\ pruning' = pruning
    BY DEF MarkConsumed, store
  <1>2. CASE EndCommand(e) /\ ledgers' = ledgers
    BY <1>1, <1>2, KeptEnded, NothingAdded
  <1>3. CASE captureLock = NoOne /\ UNCHANGED <<pc, locks, work>>
             /\ ~ (EndCommand(e) /\ ledgers' = ledgers)
    <2>1. \E j : ledgers' = ledgers \/ ledgers' = [ledgers EXCEPT ![j].handoff = "consumed"]
      BY <1>3 DEF MarkConsumed
    <2>2. ledgers \in Seq(Ledgers)
      BY DEF Inv, Files
    <2>3. /\ DOMAIN ledgers' = DOMAIN ledgers
          /\ \A i \in DOMAIN ledgers : /\ ledgers'[i].slices = ledgers[i].slices
                                       /\ ledgers'[i].handoff = "pending" =>
                                             ledgers[i].handoff = "pending"
      <3>1. \A i \in DOMAIN ledgers : ledgers[i] \in Ledgers
        BY <2>2
      <3> QED
        BY <2>1, <2>2, <3>1 DEF Ledgers
    <2>4. Adds(ledgers, ledgers', old) /\ Resumes(ledgers, ledgers', Sound)
      BY <2>2, <2>3, SameSlices
    <2>5. pc' = [pc EXCEPT ![e] = "mark"]
      BY <1>3 DEF MarkConsumed, Inv
    <2> QED
      BY <1>1, <1>3, <2>4, <2>5, KeptFree DEF HasJob, Holding
  <1> QED
    BY <1>2, <1>3 DEF MarkConsumed

\* Of what changes outside the commands only a new day and a new plan matter.
LEMMA OutsideKept ==
    ASSUME Inv, Kept,
           PlanPrune \/ PruneStep \/ CrashPrune \/ Damage \/ Day \/ UNCHANGED vars
    PROVE  Kept' /\ Resumes(ledgers, ledgers', Sound)
  <1>1. ledgers' = ledgers /\ work' = work /\ pc' = pc
    BY DEF PlanPrune, PruneStep, Retire, DeleteOne, FinishPrune, CrashPrune, Damage, Day, vars, disk
  <1>2. Resumes(ledgers, ledgers', Sound)
    BY <1>1, NothingAdded
  <1>3. \A e \in Explorers : Tracks(pc[e], work, ledgers, old)
    BY DEF Kept
  <1>4. CASE PlanPrune
    <2>1. old' = old /\ pruning'.targets = (old \cap stored) \ LiveArtifacts
      BY <1>4 DEF PlanPrune, disk
    <2>2. Pins(ledgers, pruning'.targets)
      BY <2>1 DEF Pins, LiveArtifacts, LiveJobs, Live
    <2> QED
      BY <1>1, <1>2, <1>3, <2>1, <2>2 DEF Kept
  <1>5. CASE old' = old /\ pruning'.targets \subseteq pruning.targets
    BY <1>1, <1>2, <1>5 DEF Kept, Pins
  <1>6. CASE Day
    <2>1. old \subseteq old' /\ old' \subseteq Nat /\ pruning' = pruning
      BY <1>6 DEF Day, Inv, Shapes
    <2>2. ASSUME NEW e \in Explorers PROVE Tracks(pc[e], work, ledgers, old')
      <3>1. pc[e] # "link" /\ pc[e] # "finish"
        BY <1>6 DEF Day
      <3> QED
        BY <1>3, <3>1 DEF Tracks
    <2> QED
      BY <1>1, <1>2, <2>1, <2>2 DEF Kept
  <1>7. CASE PruneStep \/ CrashPrune \/ Damage \/ UNCHANGED vars
    <2>1. pruning \in [at : {"idle", "retire", "delete"}, targets : SUBSET Nat]
      BY DEF Inv, Shapes
    <2>2. old' = old
      BY <1>7 DEF PruneStep, Retire, DeleteOne, FinishPrune, CrashPrune, Damage, vars, disk
    <2>3. pruning'.targets \subseteq pruning.targets
      <3>1. CASE FinishPrune \/ CrashPrune
        BY <3>1 DEF FinishPrune, CrashPrune, EndPrune
      <3>2. CASE Retire \/ DeleteOne
        BY <2>1, <3>2 DEF Retire, DeleteOne
      <3>3. CASE Damage \/ UNCHANGED vars
        BY <3>3 DEF Damage, vars
      <3> QED
        BY <1>7, <3>1, <3>2, <3>3 DEF PruneStep
    <2> QED
      BY <1>5, <2>2, <2>3
  <1> QED
    BY <1>4, <1>6, <1>7

LEMMA KeptNext ==
    ASSUME Inv, Kept, [Next]_vars
    PROVE  Kept' /\ Resumes(ledgers, ledgers', Sound)
  <1>1. CASE \E e \in Explorers : ExploreStep(e) \/ Explore(e) \/ WriteFails(e) \/ Crash(e)
    <2>1. PICK e \in Explorers : ExploreStep(e) \/ Explore(e) \/ WriteFails(e) \/ Crash(e)
      BY <1>1
    <2> QED
      BY <2>1, CloseStaleKept, OpenJobKept, ReconcileKept, NextTableKept, MovesKept, AnsweredKept,
         StoppedKept, WriteArtifactKept, LinkArtifactKept, FinishKept, WriteFailsKept, UsersKept,
         MarkConsumedKept DEF ExploreStep
  <1>2. CASE PlanPrune \/ PruneStep \/ CrashPrune \/ Damage \/ Day \/ UNCHANGED vars
    BY <1>2, OutsideKept
  <1> QED
    BY <1>1, <1>2 DEF Next

LEMMA KeptHolds == Spec => []Kept
  <1>1. Init => Kept
    <2> SUFFICES ASSUME Init PROVE Kept
      OBVIOUS
    <2>1. \A e \in Explorers : pc[e] = "idle"
      BY DEF Init
    <2> QED
      BY <2>1 DEF Init, Kept, Pins, Tracks, HasJob, Holding
  <1>2. Inv /\ Kept /\ [Next]_vars => Kept'
    BY KeptNext
  <1> QED
    BY <1>1, <1>2, InvHolds, PTL DEF Spec

\* For any number of commands, tables and jobs: a finished table is not
\* fetched again while its artifact is there and sound.
THEOREM FinishedStaysFinished == Spec => CapturedOnce
  <1>1. Inv /\ Kept /\ [Next]_vars =>
          [\A j \in DOMAIN ledgers, t \in Tables :
              LET s == ledgers[j].slices[t]
                  n == ledgers'[j].slices[t]
              IN s.state = "complete" /\ s.art \in Sound =>
                    n.state = s.state /\ n.art = s.art]_vars
    BY KeptNext DEF Resumes, Done, Alike
  <1> QED
    BY <1>1, InvHolds, KeptHolds, PTL DEF Spec, CapturedOnce

\* Only a pruning removes an artifact, and only one of its targets.
LEMMA OnlyTargetsGo ==
    ASSUME Next
    PROVE  stored \subseteq stored' \cup pruning.targets
  <1>1. ASSUME NEW e \in Explorers, ExploreStep(e) \/ Explore(e) \/ WriteFails(e) \/ Crash(e)
        PROVE  stored \subseteq stored'
    BY <1>1 DEF ExploreStep, Explore, WriteFails, Crash, CloseStale, OpenJob, Reconcile, NextTable,
                EndRun, Answered, AnsweredWhole, Stopped, Fatal, LockEvidence, WriteArtifact,
                LinkArtifact, Finish, ReadReferences, IndexSources, PublishDiscovery,
                MarkConsumed, Marked, store, disk
  <1>2. CASE PlanPrune \/ Retire \/ FinishPrune \/ CrashPrune \/ Damage \/ Day
    BY <1>2 DEF PlanPrune, Retire, FinishPrune, CrashPrune, Damage, Day, disk
  <1>3. CASE DeleteOne
    BY <1>3 DEF DeleteOne
  <1> QED
    BY <1>1, <1>2, <1>3 DEF Next, PruneStep

\* A pruning never removes what a job that is not released refers to.
THEOREM PinnedIsKept == Spec => PinnedSurvives
  <1>1. Kept /\ [Next]_vars =>
          [\A j \in DOMAIN ledgers : ledgers[j].handoff = "pending" =>
              Captured(ledgers[j]) \cap stored \subseteq stored']_vars
    BY OnlyTargetsGo DEF Kept, Pins
  <1> QED
    BY <1>1, KeptHolds, PTL DEF Spec, PinnedSurvives
=============================================================================
