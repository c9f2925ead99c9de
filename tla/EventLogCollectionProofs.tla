---------------------- MODULE EventLogCollectionProofs ----------------------
(***************************************************************************)
(* Proofs about EventLogCollection for any number of collections, logs and *)
(* sizes, and every set of faults.                                         *)
(*                                                                         *)
(* The inductive invariant ties the rows a collector has in memory to the  *)
(* manifest on disk and to the jobs of the service, step by step: between  *)
(* two saves they differ in the row being fetched, by one move forward.    *)
(* It rests on the directory's lock and on the manifest never going away:  *)
(* a collector is alone inside, and nobody enters once there is a manifest.*)
(***************************************************************************)
EXTENDS EventLogCollection, TLAPS

Early == {"open", "survey", "create"}
Notes == {"noteRefused", "noteAccepted", "noteFollowed", "noteError"}
Loop == Notes \cup {"next", "send", "follow", "download"}
Inside == Early \cup Loop \cup {"close", "report"}
Unsent == {"planned", "absent", "skipped"}

\* What a status says of a log, and the file and job behind a completed one.
Sound(status, l) ==
    /\ status \in Unsent => sent[l] = 0
    /\ status = "failed" => sent[l] = 0 \/ job[l] = "failed"
    /\ status = "accepted" => sent[l] = 1
    /\ status = "completed" => sent[l] = 1 /\ job[l] = "succeeded" /\ l \in saved

\* One move forward, or none.
Forward(old, new, l) ==
    \/ old = new
    \/ old = "outcome-unknown" /\ (new = "accepted" \/ (new = "failed" /\ sent[l] = 0))
    \/ old = "accepted" /\ new \in {"failed", "completed"}

Behind(me) ==
    /\ Forward(manifest[me.log], me.rows[me.log], me.log)
    /\ \A l \in Logs : l # me.log => manifest[l] = me.rows[l]

Service ==
    /\ \A l \in Logs : sent[l] \in {0, 1} /\ (sent[l] = 0 <=> job[l] = "none")
    /\ manifest = NoFile => saved = {} /\ \A l \in Logs : sent[l] = 0
    /\ manifest # NoFile => \A l \in Logs : Sound(manifest[l], l)

\* A collector inside, against the files and the service.
Fits(me, step) ==
    /\ step \in Early => manifest = NoFile /\ ~me.primary /\ ~me.stopped /\ ~me.failures
    /\ step \in Loop => manifest # NoFile /\ ~me.primary
    /\ step \in {"close", "report"} /\ ~me.primary =>
          manifest # NoFile /\ (~me.failures => manifest = me.rows)
    /\ step = "report" => ~me.primary
    /\ \A l \in Logs : Sound(me.rows[l], l)
    /\ step = "create" => \A l \in Logs : me.rows[l] \in Unsent
    /\ step = "next" /\ (~me.stopped \/ ~me.failures) => manifest = me.rows
    /\ step \in Loop \ {"next"} => me.log \in Logs
    /\ step = "send" => /\ manifest = me.rows /\ me.rows[me.log] = "outcome-unknown"
                        /\ sent[me.log] = 0
    /\ step \in {"follow", "download"} => manifest = me.rows /\ me.rows[me.log] = "accepted"
    /\ step = "download" => job[me.log] = "succeeded"
    /\ step = "noteAccepted" => me.rows[me.log] = "accepted"
    /\ step \in Notes => Behind(me)
    /\ step = "noteError" => me.failures

\* The bytes and the session of a collector.
Account(me, step, tries, bytes, ses, how) ==
    /\ step \in {"new", "claim"} => me = NewCollector /\ ses = "none"
    /\ step \in {"new", "claim"} \cup Early => bytes = 0 /\ me.remaining = MaxTotalBytes
    /\ step \in Loop /\ ~me.stopped => bytes + me.remaining <= MaxTotalBytes
    /\ step \in {"send", "noteAccepted", "follow", "download"} => ~me.stopped
    /\ bytes <= MaxTotalBytes
    /\ step \notin {"report", "done"} => tries = 0
    /\ tries \in {0, 1} /\ (tries = 1 => me.owned)
    /\ step = "report" /\ me.owned => tries = 1
    /\ step = "done" /\ how # "killed" /\ me.owned => tries = 1
    /\ step \in Inside /\ ~me.primary /\ ~me.owned => ses = "none"
    /\ step = "open" => ~me.owned
    /\ step = "close" => me.owned
    /\ step = "report" /\ ~me.failures => ses # "open"
    /\ how = "complete" => ses # "open"
    /\ how # "none" => step = "done"

Reported(q) == result[q] \in {"partial", "complete"}

Frozen(q) ==
    /\ manifest # NoFile /\ \A p \in Collectors : pc[p] \notin Inside
    /\ \A l \in Logs : Sound(self[q].rows[l], l)
    /\ result[q] = "complete" => /\ manifest = self[q].rows
                                 /\ \A l \in Logs : self[q].rows[l] \in Deliberate

Local(q) ==
    /\ pc[q] \in Inside => lock = q /\ Fits(self[q], pc[q])
    /\ Account(self[q], pc[q], attempts[q], spent[q], session[q], result[q])
    /\ Reported(q) => Frozen(q)

IInv == TypeOK /\ Service /\ \A q \in Collectors : Local(q)
-----------------------------------------------------------------------------
(* Records.                                                                *)

LEMMA FailingFacts ==
    ASSUME NEW me \in Collector, NEW stop \in BOOLEAN
    PROVE  /\ Failing(me, stop) \in Collector
           /\ Failing(me, stop).rows = me.rows /\ Failing(me, stop).log = me.log
           /\ Failing(me, stop).remaining = me.remaining
           /\ Failing(me, stop).owned = me.owned /\ Failing(me, stop).primary = me.primary
           /\ Failing(me, stop).failures
           /\ Failing(me, stop).stopped = (me.stopped \/ stop)
  BY DEF Failing, Collector

LEMMA WithFacts ==
    ASSUME NEW me \in Collector, NEW l \in Logs, NEW status \in Status
    PROVE  /\ With(me, l, status) \in Collector
           /\ With(me, l, status).rows = [me.rows EXCEPT ![l] = status]
           /\ With(me, l, status).log = l
           /\ With(me, l, status).remaining = me.remaining
           /\ With(me, l, status).owned = me.owned
           /\ With(me, l, status).primary = me.primary
           /\ With(me, l, status).failures = me.failures
           /\ With(me, l, status).stopped = me.stopped
  BY DEF With, Collector

Kept(me) == [NewCollector EXCEPT !.rows = me.rows, !.owned = me.owned]

LEMMA KeptFacts ==
    ASSUME NEW me \in Collector
    PROVE  /\ Kept(me) \in Collector
           /\ Kept(me).rows = me.rows /\ Kept(me).owned = me.owned
  <1>1. NewCollector \in Collector
    BY CollectionAssumption DEF NewCollector, Collector, Status, Deliberate
  <1> QED BY <1>1 DEF Kept, Collector
-----------------------------------------------------------------------------
(* The steps of one collector leave the others where they are.             *)

Files ==
    /\ manifest \in [Logs -> Status] \cup {NoFile}
    /\ saved \subseteq Logs
    /\ sent \in [Logs -> Nat]
    /\ job \in [Logs -> {"none", "running", "succeeded", "failed"}]
    /\ session \in [Collectors -> {"none", "open", "closed"}]
    /\ attempts \in [Collectors -> Nat] /\ spent \in [Collectors -> Nat]

Same(q) == session'[q] = session[q] /\ attempts'[q] = attempts[q] /\ spent'[q] = spent[q]

LEMMA Outside ==
    ASSUME IInv, NEW p \in Collectors, NEW q \in Collectors, q # p, pc[p] \in Inside
    PROVE  pc[q] \notin Inside /\ ~Reported(q)
  BY DEF IInv, Local, Frozen

LEMMA Quiet ==
    ASSUME IInv, NEW q \in Collectors, pc[q] # "done"
    PROVE  result[q] = "none" /\ ~Reported(q)
  BY DEF IInv, Local, Account, Reported, TypeOK

LEMMA GotoStep ==
    ASSUME IInv, NEW p \in Collectors, pc[p] \in Inside,
           NEW step \in Inside, NEW m \in Collector, Goto(p, step, m),
           Files', Service', \A q \in Collectors : q # p => Same(q),
           Fits(m, step)',
           Account(m, step, attempts'[p], spent'[p], session'[p], "none")
    PROVE  IInv'
  <1>1. TypeOK'
    BY DEF IInv, TypeOK, Goto, Files, Inside, Early, Loop, Notes, Pc, Working
  <1>2. pc'[p] = step /\ self'[p] = m /\ lock' = lock /\ result' = result
    BY DEF IInv, TypeOK, Goto
  <1>3. lock = p
    BY DEF IInv, Local
  <1>4. pc[p] # "done"
    BY DEF Inside, Early, Loop, Notes
  <1>5. Local(p)'
    BY <1>2, <1>3, <1>4, Quiet DEF Local, Reported
  <1>6. ASSUME NEW q \in Collectors, q # p PROVE Local(q)'
    <2>1. pc'[q] = pc[q] /\ self'[q] = self[q] /\ Same(q)
      BY <1>6 DEF IInv, TypeOK, Goto
    <2>2. pc[q] \notin Inside /\ ~Reported(q)
      BY <1>6, Outside
    <2> QED BY <1>2, <2>1, <2>2 DEF IInv, Local, Same, Reported
  <1> QED BY <1>1, <1>5, <1>6 DEF IInv

LEMMA LeaveStep ==
    ASSUME IInv, NEW p \in Collectors, pc[p] \in Inside,
           NEW m \in Collector, NEW how \in {"partial", "complete", "error", "killed"},
           Leave(p, m, how),
           Files', Service', \A q \in Collectors : q # p => Same(q),
           spent'[p] <= MaxTotalBytes, attempts'[p] \in {0, 1},
           attempts'[p] = 1 => m.owned,
           how # "killed" /\ m.owned => attempts'[p] = 1,
           how \in {"partial", "complete"} =>
              /\ manifest' # NoFile /\ \A l \in Logs : Sound(m.rows[l], l)'
              /\ how = "complete" => /\ session'[p] # "open" /\ manifest' = m.rows
                                     /\ \A l \in Logs : m.rows[l] \in Deliberate
    PROVE  IInv'
  <1>0. Leave(p, m, how) /\ Kept(m) \in Collector /\ Kept(m).rows = m.rows /\ Kept(m).owned = m.owned
    BY KeptFacts
  <1>1. TypeOK'
    <2>1. self' = [self EXCEPT ![p] = Kept(m)]
      BY DEF Leave, Kept
    <2>2. lock' \in Collectors \cup {NoOne}
      BY DEF IInv, TypeOK, Leave
    <2>3. /\ pc' = [pc EXCEPT ![p] = "done"] /\ result' = [result EXCEPT ![p] = how]
          /\ pc' \in [Collectors -> Pc]
          /\ result' \in [Collectors -> {"none", "refused", "complete", "partial", "error", "killed"}]
      BY DEF IInv, TypeOK, Leave, Pc
    <2>4. self' \in [Collectors -> Collector]
      BY <1>0, <2>1 DEF IInv, TypeOK
    <2> QED BY <2>2, <2>3, <2>4 DEF TypeOK, Files
  <1>2. pc'[p] = "done" /\ self'[p] = Kept(m) /\ result'[p] = how
    BY DEF IInv, TypeOK, Leave, Kept
  <1>3. ASSUME NEW q \in Collectors, q # p
        PROVE  /\ pc'[q] = pc[q] /\ self'[q] = self[q] /\ result'[q] = result[q] /\ Same(q)
               /\ pc[q] \notin Inside /\ ~Reported(q)
    BY <1>3, Outside DEF IInv, TypeOK, Leave
  <1>4. "done" \notin Inside \cup {"new", "claim"} \cup {"send", "noteAccepted", "follow", "download"}
    BY DEF Inside, Early, Loop, Notes
  <1>5. \A q \in Collectors : pc'[q] \notin Inside
    BY <1>2, <1>3, <1>4
  <1>6. Account(Kept(m), "done", attempts'[p], spent'[p], session'[p], how)
    BY <1>0, <1>4 DEF Account, Inside
  <1>7. Reported(p)' => Frozen(p)'
    BY <1>0, <1>2, <1>5 DEF Reported, Frozen
  <1>8. Local(p)'
    BY <1>2, <1>4, <1>6, <1>7 DEF Local
  <1>9. ASSUME NEW q \in Collectors, q # p PROVE Local(q)'
    BY <1>3, <1>9 DEF IInv, Local, Same, Reported
  <1> QED BY <1>1, <1>8, <1>9 DEF IInv

LEMMA CleanUpStep ==
    ASSUME IInv, NEW p \in Collectors, pc[p] \in Early \cup Loop,
           NEW m \in Collector, CleanUp(p, m),
           Files', Service', \A q \in Collectors : q # p => Same(q),
           UNCHANGED <<attempts, spent>>,
           \A l \in Logs : Sound(m.rows[l], l)',
           ~m.primary => /\ manifest' # NoFile /\ (~m.failures => manifest' = m.rows)
                         /\ ~m.owned => session'[p] = "none"
    PROVE  IInv'
  <1>0. pc[p] \in Inside /\ pc[p] \notin {"report", "done"}
    BY DEF Inside, Early, Loop, Notes
  <1>1. attempts'[p] = 0 /\ spent'[p] <= MaxTotalBytes
    BY <1>0 DEF IInv, Local, Account
  <1>2. \A step \in {"close", "report"} :
          step \notin {"new", "claim", "open", "done", "create", "next", "send", "follow",
                       "download", "noteAccepted"} \cup Early \cup Loop \cup Notes
    BY DEF Early, Loop, Notes
  <1>3. "close" \in Inside /\ "report" \in Inside
    BY DEF Inside
  <1>4. CASE m.owned
    <2>1. Goto(p, "close", m)
      BY <1>4 DEF CleanUp
    <2>2. Fits(m, "close")'
      BY <1>2 DEF Fits
    <2>3. Account(m, "close", attempts'[p], spent'[p], session'[p], "none")
      BY <1>1, <1>2, <1>4 DEF Account
    <2> QED BY <1>0, <1>3, <2>1, <2>2, <2>3, GotoStep
  <1>5. CASE ~m.owned /\ m.primary
    <2>1. Leave(p, m, "error")
      BY <1>5 DEF CleanUp
    <2> QED BY <1>0, <1>1, <1>5, <2>1, LeaveStep
  <1>6. CASE ~m.owned /\ ~m.primary
    <2>1. Goto(p, "report", m)
      BY <1>6 DEF CleanUp
    <2>2. Fits(m, "report")'
      BY <1>2, <1>6 DEF Fits
    <2>3. Account(m, "report", attempts'[p], spent'[p], session'[p], "none")
      BY <1>1, <1>2, <1>6 DEF Account
    <2> QED BY <1>0, <1>3, <2>1, <2>2, <2>3, GotoStep
  <1> QED BY <1>4, <1>5, <1>6
-----------------------------------------------------------------------------
(* What does not touch the files, and what saves the manifest.             *)

LEMMA Known ==
    ASSUME IInv, NEW p \in Collectors, pc[p] \in Inside
    PROVE  /\ self[p] \in Collector /\ Files /\ Service /\ lock = p
           /\ Fits(self[p], pc[p])
           /\ Account(self[p], pc[p], attempts[p], spent[p], session[p], "none")
  <1>1. pc[p] # "done"
    BY DEF Inside, Early, Loop, Notes
  <1> QED BY <1>1, Quiet DEF IInv, TypeOK, Files, Local

LEMMA RaisedFacts ==
    ASSUME NEW me \in Collector
    PROVE  /\ [me EXCEPT !.primary = TRUE] \in Collector
           /\ [me EXCEPT !.primary = TRUE].rows = me.rows
           /\ [me EXCEPT !.primary = TRUE].primary
  BY DEF Collector

LEMMA StoppedFacts ==
    ASSUME NEW me \in Collector, NEW stop \in BOOLEAN, NEW fail \in BOOLEAN
    PROVE  LET m == [me EXCEPT !.stopped = stop, !.failures = fail]
           IN  /\ m \in Collector /\ m.rows = me.rows /\ m.log = me.log
               /\ m.remaining = me.remaining /\ m.owned = me.owned
               /\ m.primary = me.primary /\ m.stopped = stop /\ m.failures = fail
  BY DEF Collector

LEMMA Untouched ==
    ASSUME IInv, UNCHANGED <<disk, service, counts>>
    PROVE  /\ Files' /\ Service' /\ manifest' = manifest
           /\ \A q \in Collectors : Same(q)
           /\ \A x \in Status, l \in Logs : Sound(x, l)' <=> Sound(x, l)
           /\ UNCHANGED <<attempts, spent>>
  <1> USE DEF disk, service, counts
  <1>1. Files'
    BY DEF IInv, TypeOK, Files
  <1>2. Service'
    BY DEF IInv, Service, Sound
  <1> QED BY <1>1, <1>2 DEF Same, Sound

LEMMA RaiseStep ==
    ASSUME IInv, NEW p \in Collectors, pc[p] \in Early \cup Loop,
           Raise(p), UNCHANGED <<disk, service, counts>>
    PROVE  IInv'
  <1>1. PICK me \in Collector : me = self[p]
    BY Known DEF Inside
  <1>2. CleanUp(p, [me EXCEPT !.primary = TRUE])
    BY <1>1 DEF Raise
  <1>3. \A l \in Logs : Sound(me.rows[l], l) /\ me.rows[l] \in Status
    BY <1>1, Known DEF Fits, Inside, Collector
  <1>4. \A l \in Logs : Sound([me EXCEPT !.primary = TRUE].rows[l], l)'
    BY <1>3, Untouched, RaisedFacts
  <1> QED BY <1>1, <1>2, <1>4, Untouched, RaisedFacts, CleanUpStep

LEMMA Saving ==
    ASSUME IInv, NEW rows \in [Logs -> Status], NEW outcome, Save(rows, outcome),
           UNCHANGED <<saved, service, counts>>,
           \A l \in Logs : Sound(rows[l], l)
    PROVE  /\ Files' /\ Service'
           /\ manifest' \in {manifest, rows} /\ (outcome = "ok" => manifest' = rows)
           /\ rows # NoFile
           /\ \A q \in Collectors : Same(q)
           /\ \A x \in Status, l \in Logs : Sound(x, l)' <=> Sound(x, l)
           /\ UNCHANGED <<attempts, spent>>
  <1> USE DEF service, counts
  <1>1. /\ manifest' \in {manifest, rows} /\ (outcome = "ok" => manifest' = rows)
        /\ rows # NoFile
    BY CollectionAssumption DEF Save
  <1>2. Files'
    BY <1>1 DEF IInv, TypeOK, Files
  <1>3. Service'
    BY <1>1 DEF IInv, Service, Sound
  <1> QED BY <1>1, <1>2, <1>3 DEF Same, Sound
-----------------------------------------------------------------------------
(* Before the first manifest.                                              *)

LEMMA Idle ==
    ASSUME IInv, NEW p \in Collectors, pc[p] \in {"new", "claim"}
    PROVE  /\ pc[p] \notin Inside /\ self[p] = NewCollector /\ session[p] = "none"
           /\ result[p] = "none" /\ attempts[p] = 0 /\ spent[p] = 0
           /\ NewCollector \in Collector
  <1>1. pc[p] \notin Inside \cup {"report", "done"}
    BY DEF Inside, Early, Loop, Notes
  <1>2. result[p] = "none"
    BY <1>1, Quiet
  <1>3. Account(self[p], pc[p], attempts[p], spent[p], session[p], result[p])
    BY DEF IInv, Local
  <1>4. self[p] = NewCollector
    BY <1>3 DEF Account
  <1>5. self[p] \in Collector
    BY DEF IInv, TypeOK
  <1> QED BY <1>1, <1>2, <1>3, <1>4, <1>5 DEF Account

LEMMA RefusedStep ==
    ASSUME IInv, NEW p \in Collectors, pc[p] \in {"new", "claim"},
           NEW how \in {"refused", "error", "killed"}, Leave(p, self[p], how),
           UNCHANGED <<disk, service, counts>>
    PROVE  IInv'
  <1>0. pc[p] \notin Inside /\ self[p] = NewCollector /\ attempts[p] = 0 /\ spent[p] = 0
    BY Idle
  <1>1. NewCollector \in Collector /\ ~NewCollector.owned
    BY Idle DEF NewCollector
  <1>2. Kept(NewCollector) \in Collector /\ ~Kept(NewCollector).owned
    BY <1>1, KeptFacts
  <1>3. self' = [self EXCEPT ![p] = Kept(NewCollector)]
    BY <1>0 DEF Leave, Kept
  <1>4. TypeOK'
    <2>1. Files'
      BY Untouched
    <2>2. self' \in [Collectors -> Collector]
      BY <1>2, <1>3 DEF IInv, TypeOK
    <2>3. /\ pc' \in [Collectors -> Pc] /\ lock' \in Collectors \cup {NoOne}
          /\ result' \in [Collectors -> {"none", "refused", "complete", "partial", "error", "killed"}]
      BY DEF IInv, TypeOK, Leave, Pc
    <2> QED BY <2>1, <2>2, <2>3 DEF TypeOK, Files
  <1>5. "done" \notin Inside \cup {"new", "claim", "open", "report"} \cup Loop \cup Early
           \cup {"send", "noteAccepted", "follow", "download"}
    BY DEF Inside, Early, Loop, Notes
  <1>6. Local(p)'
    <2>1. pc'[p] = "done" /\ self'[p] = Kept(NewCollector) /\ result'[p] = how
      BY <1>3 DEF IInv, TypeOK, Leave
    <2>2. attempts'[p] = 0 /\ spent'[p] = 0
      BY <1>0, Untouched
    <2>3. Account(Kept(NewCollector), "done", 0, 0, session'[p], how)
      BY <1>2, <1>5, CollectionAssumption DEF Account
    <2> QED BY <1>5, <2>1, <2>2, <2>3 DEF Local, Reported
  <1>7. ASSUME NEW q \in Collectors, q # p PROVE Local(q)'
    <2>1. /\ pc'[q] = pc[q] /\ self'[q] = self[q] /\ result'[q] = result[q]
          /\ pc'[p] = "done"
          /\ \A r \in Collectors : r # p => pc'[r] = pc[r]
      BY <1>7 DEF IInv, TypeOK, Leave
    <2>2. Same(q) /\ manifest' = manifest /\ UNCHANGED <<saved, sent, job>>
      BY Untouched DEF disk, service
    <2>3. pc[q] \in Inside => lock' = q
      BY <1>7 DEF IInv, Local, Leave
    <2>4. Fits(self[q], pc[q]) => Fits(self[q], pc[q])'
      BY <2>1, <2>2 DEF Fits, Sound, Behind, Forward
    <2>5. Frozen(q) => Frozen(q)'
      BY <1>5, <2>1, <2>2 DEF Frozen, Sound
    <2> QED BY <2>1, <2>2, <2>3, <2>4, <2>5 DEF IInv, Local, Same, Reported
  <1> QED BY <1>4, <1>6, <1>7, Untouched DEF IInv

LEMMA PrepareStep ==
    ASSUME IInv, NEW p \in Collectors, Prepare(p)
    PROVE  IInv'
  <1>0. pc[p] = "new" /\ UNCHANGED <<disk, service, counts>>
    BY DEF Prepare
  <1>1. CASE Leave(p, self[p], "refused")
    BY <1>0, <1>1, RefusedStep
  <1>2. CASE Goto(p, "claim", self[p])
    <2>1. TypeOK'
      <3>1. self' = self /\ pc' \in [Collectors -> Pc]
        BY <1>2 DEF IInv, TypeOK, Goto, Pc
      <3> QED BY <1>0, <1>2, <3>1, Untouched DEF IInv, TypeOK, Files, Goto
    <2>2. "claim" \notin Inside \cup Early \cup Loop \cup {"report", "done", "open"}
             \cup {"send", "noteAccepted", "follow", "download"}
      BY DEF Inside, Early, Loop, Notes
    <2>3. /\ pc'[p] = "claim" /\ self' = self /\ result' = result /\ lock' = lock
          /\ \A q \in Collectors : q # p => pc'[q] = pc[q]
      BY <1>2 DEF IInv, TypeOK, Goto
    <2>4. manifest' = manifest /\ UNCHANGED <<saved, sent, job>> /\ \A q \in Collectors : Same(q)
      BY <1>0, Untouched DEF disk, service
    <2>5. Local(p)'
      <3>1. self[p] = NewCollector /\ session[p] = "none" /\ result[p] = "none"
            /\ attempts[p] = 0 /\ spent[p] = 0
        BY <1>0, Idle
      <3>2. NewCollector.remaining = MaxTotalBytes
        BY DEF NewCollector
      <3>3. Account(NewCollector, "claim", 0, 0, "none", "none")
        BY <2>2, <3>2, CollectionAssumption DEF Account
      <3> QED BY <2>2, <2>3, <2>4, <3>1, <3>3 DEF Local, Same, Reported
    <2>6. ASSUME NEW q \in Collectors, q # p PROVE Local(q)'
      <3>1. Fits(self[q], pc[q]) => Fits(self[q], pc[q])'
        BY <2>3, <2>4, <2>6 DEF Fits, Sound, Behind, Forward
      <3>2. Frozen(q) => Frozen(q)'
        BY <2>2, <2>3, <2>4 DEF Frozen, Sound
      <3> QED BY <2>3, <2>4, <2>6, <3>1, <3>2 DEF IInv, Local, Same, Reported
    <2> QED BY <1>0, <2>1, <2>5, <2>6, Untouched DEF IInv
  <1> QED BY <1>1, <1>2 DEF Prepare

LEMMA ClaimStep ==
    ASSUME IInv, NEW p \in Collectors, Claim(p)
    PROVE  IInv'
  <1>0. pc[p] = "claim" /\ UNCHANGED <<disk, service, counts>>
    BY DEF Claim
  <1>1. CASE Leave(p, self[p], "refused")
    BY <1>0, <1>1, RefusedStep
  <1>2. CASE lock = NoOne /\ manifest = NoFile /\ Claimed(p)
    <2>0. PICK step \in {"open", "survey"} : pc' = [pc EXCEPT ![p] = step]
      BY <1>2 DEF Claimed
    <2>1. TypeOK'
      <3>1. pc' \in [Collectors -> Pc] /\ lock' = p /\ self' = self /\ result' = result
        BY <1>2, <2>0 DEF IInv, TypeOK, Claimed, Pc, Working
      <3> QED BY <1>0, <3>1, Untouched DEF IInv, TypeOK, Files
    <2>2. /\ pc'[p] = step /\ self' = self /\ result' = result /\ lock' = p
          /\ \A q \in Collectors : q # p => pc'[q] = pc[q]
      BY <1>2, <2>0 DEF IInv, TypeOK, Claimed
    <2>3. /\ manifest' = manifest /\ UNCHANGED <<saved, sent, job>>
          /\ \A q \in Collectors : Same(q)
      BY <1>0, Untouched DEF disk, service
    <2>4. \A q \in Collectors : pc[q] \notin Inside /\ ~Reported(q)
      BY <1>2, CollectionAssumption DEF IInv, Local, Frozen
    <2>5. step \in Early /\ step \notin Loop \cup {"create", "close", "report", "done", "new", "claim",
             "next", "send", "noteAccepted", "follow", "download"} \cup Notes
      BY DEF Inside, Early, Loop, Notes
    <2>6. Local(p)'
      <3>1. self[p] = NewCollector /\ session[p] = "none" /\ result[p] = "none"
            /\ attempts[p] = 0 /\ spent[p] = 0
        BY <1>0, Idle
      <3>2. /\ NewCollector.remaining = MaxTotalBytes /\ ~NewCollector.owned
            /\ ~NewCollector.primary /\ ~NewCollector.stopped /\ ~NewCollector.failures
            /\ \A l \in Logs : NewCollector.rows[l] = "absent"
        BY DEF NewCollector
      <3>3. Account(NewCollector, step, 0, 0, "none", "none")
        BY <2>5, <3>2, CollectionAssumption DEF Account
      <3>4. \A l \in Logs : Sound("absent", l)'
        BY <1>2, <2>3 DEF IInv, Service, Sound, Unsent
      <3>5. Fits(NewCollector, step)'
        BY <1>2, <2>3, <2>5, <3>2, <3>4 DEF Fits
      <3> QED BY <2>2, <2>3, <3>1, <3>3, <3>5 DEF Local, Same, Reported
    <2>7. ASSUME NEW q \in Collectors, q # p PROVE Local(q)'
      BY <2>2, <2>3, <2>4, <2>7 DEF IInv, Local, Same, Reported
    <2> QED BY <1>0, <2>1, <2>6, <2>7, Untouched DEF IInv
  <1> QED BY <1>1, <1>2 DEF Claim

LEMMA OpenStep ==
    ASSUME IInv, NEW p \in Collectors, Open(p)
    PROVE  IInv'
  <1>0. pc[p] = "open" /\ UNCHANGED <<disk, sent, job, counts>>
    BY DEF Open
  <1>1. pc[p] \in Inside /\ pc[p] \in Early
    BY <1>0 DEF Inside, Early
  <1>2. PICK me \in Collector : me = self[p]
    BY <1>1, Known
  <1>3. Fits(me, "open") /\ Account(me, "open", attempts[p], spent[p], session[p], "none")
    BY <1>0, <1>1, <1>2, Known
  <1>4. PICK s \in {"none", "open", "closed"} : session' = [session EXCEPT ![p] = s]
    BY <1>0 DEF Open, IInv, TypeOK
  <1>5. /\ Files' /\ Service' /\ manifest' = manifest
        /\ \A q \in Collectors : q # p => Same(q)
        /\ \A x \in Status, l \in Logs : Sound(x, l)' <=> Sound(x, l)
        /\ UNCHANGED <<attempts, spent>> /\ UNCHANGED <<sent, job, saved>>
    BY <1>0, <1>4 DEF IInv, TypeOK, Files, Service, Sound, Same, disk, counts
  <1>6. \A l \in Logs : Sound(me.rows[l], l) /\ me.rows[l] \in Status
    BY <1>3 DEF Fits, Collector
  <1>7. CASE Goto(p, "survey", [self[p] EXCEPT !.owned = TRUE])
    <2>1. PICK m \in Collector : m = [me EXCEPT !.owned = TRUE]
      BY DEF Collector
    <2>2. /\ m.rows = me.rows /\ m.owned /\ m.primary = me.primary /\ m.stopped = me.stopped
          /\ m.failures = me.failures /\ m.remaining = me.remaining
      BY <2>1 DEF Collector
    <2>3. Goto(p, "survey", m)
      BY <1>2, <1>7, <2>1
    <2>4. Fits(m, "survey")'
      BY <1>3, <1>5, <1>6, <2>2 DEF Fits, Early, Loop, Notes
    <2>5. Account(m, "survey", attempts'[p], spent'[p], session'[p], "none")
      BY <1>3, <1>5, <2>2 DEF Account, Early, Loop, Notes
    <2> QED BY <1>1, <1>5, <2>3, <2>4, <2>5, GotoStep DEF Inside, Early
  <1>8. CASE Raise(p)
    <2>1. CleanUp(p, [me EXCEPT !.primary = TRUE])
      BY <1>2, <1>8 DEF Raise
    <2>2. \A l \in Logs : Sound([me EXCEPT !.primary = TRUE].rows[l], l)'
      BY <1>5, <1>6, RaisedFacts
    <2> QED BY <1>1, <1>5, <2>1, <2>2, RaisedFacts, CleanUpStep
  <1> QED BY <1>7, <1>8 DEF Open

LEMMA SurveyStep ==
    ASSUME IInv, NEW p \in Collectors, Survey(p)
    PROVE  IInv'
  <1>0. pc[p] = "survey" /\ UNCHANGED <<disk, service, counts>>
    BY DEF Survey
  <1>1. pc[p] \in Inside /\ pc[p] \in Early
    BY <1>0 DEF Inside, Early
  <1>2. PICK me \in Collector : me = self[p]
    BY <1>1, Known
  <1>3. Fits(me, "survey") /\ Account(me, "survey", attempts[p], spent[p], session[p], "none")
    BY <1>0, <1>1, <1>2, Known
  <1>4. CASE Raise(p)
    BY <1>0, <1>1, <1>4, RaiseStep
  <1>5. CASE \E listed \in [Logs -> Sizes \cup {Absent}] :
                Goto(p, "create", [self[p] EXCEPT !.rows = Selected(listed), !.listed = listed])
    <2>1. PICK listed \in [Logs -> Sizes \cup {Absent}] :
             Goto(p, "create", [self[p] EXCEPT !.rows = Selected(listed), !.listed = listed])
      BY <1>5
    <2>2. PICK rows \in [Logs -> Status] : rows = Selected(listed)
      BY DEF Selected, Status, Deliberate
    <2>3. \A l \in Logs : rows[l] \in Unsent
      BY <2>2 DEF Selected, Unsent
    <2>4. PICK m \in Collector : m = [me EXCEPT !.rows = rows, !.listed = listed]
      BY DEF Collector
    <2>5. /\ m.rows = rows /\ m.owned = me.owned /\ m.primary = me.primary
          /\ m.stopped = me.stopped /\ m.failures = me.failures /\ m.remaining = me.remaining
      BY <2>4 DEF Collector
    <2>6. Goto(p, "create", m)
      BY <1>2, <2>1, <2>2, <2>4
    <2>7. \A l \in Logs : Sound(rows[l], l)
      <3>1. manifest = NoFile
        BY <1>3 DEF Fits, Early
      <3>2. "failed" \notin Unsent /\ "accepted" \notin Unsent /\ "completed" \notin Unsent
        BY DEF Unsent
      <3> QED BY <2>3, <3>1, <3>2 DEF Sound, IInv, Service
    <2>8. Fits(m, "create")'
      <3>1. \A l \in Logs : Sound(rows[l], l)'
        BY <1>0, <2>7, Untouched
      <3>2. "create" \in Early /\ "create" \notin Loop \cup Notes \cup {"close", "report"}
        BY DEF Early, Loop, Notes
      <3>3. manifest' = manifest
        BY <1>0, Untouched
      <3>4. manifest = NoFile /\ ~me.primary /\ ~me.stopped /\ ~me.failures
        BY <1>3 DEF Fits, Early
      <3> QED BY <2>3, <2>5, <3>1, <3>2, <3>3, <3>4 DEF Fits
    <2>9. Account(m, "create", attempts'[p], spent'[p], session'[p], "none")
      BY <1>0, <1>3, <2>5 DEF Account, Early, Loop, Notes, counts, service, Inside
    <2> QED BY <1>0, <1>1, <2>6, <2>8, <2>9, GotoStep, Untouched DEF Inside, Early
  <1> QED BY <1>4, <1>5 DEF Survey

LEMMA CreateStep ==
    ASSUME IInv, NEW p \in Collectors, NEW outcome \in Outcomes, Create(p, outcome)
    PROVE  IInv'
  <1>0. /\ pc[p] = "create" /\ UNCHANGED <<saved, service, counts>>
        /\ Save(self[p].rows, outcome)
        /\ IF outcome = "ok" THEN Goto(p, "next", self[p]) ELSE Raise(p)
    BY DEF Create
  <1>1. pc[p] \in Inside /\ pc[p] \in Early
    BY <1>0 DEF Inside, Early
  <1>2. PICK me \in Collector : me = self[p]
    BY <1>1, Known
  <1>3. Fits(me, "create") /\ Account(me, "create", attempts[p], spent[p], session[p], "none")
    BY <1>0, <1>1, <1>2, Known
  <1>4. \A l \in Logs : Sound(me.rows[l], l) /\ me.rows[l] \in Status
    BY <1>3 DEF Fits, Collector
  <1>5. me.rows \in [Logs -> Status]
    BY DEF Collector
  <1>6. /\ Files' /\ Service' /\ (outcome = "ok" => manifest' = me.rows)
        /\ me.rows # NoFile
        /\ \A q \in Collectors : Same(q)
        /\ \A x \in Status, l \in Logs : Sound(x, l)' <=> Sound(x, l)
        /\ UNCHANGED <<attempts, spent>>
    BY <1>0, <1>2, <1>4, <1>5, Saving
  <1>7. CASE outcome = "ok"
    <2>1. Goto(p, "next", me)
      BY <1>0, <1>2, <1>7
    <2>2. "next" \notin Early \cup Notes \cup {"close", "report"} /\ "next" \in Loop
      BY DEF Early, Loop, Notes
    <2>3. ~me.primary
      BY <1>3 DEF Fits, Early
    <2>4. Fits(me, "next")'
      BY <1>4, <1>6, <1>7, <2>2, <2>3 DEF Fits
    <2>5. Account(me, "next", attempts'[p], spent'[p], session'[p], "none")
      <3>1. spent'[p] = 0 /\ me.remaining = MaxTotalBytes /\ 0 + MaxTotalBytes <= MaxTotalBytes
        BY <1>3, <1>6, CollectionAssumption DEF Account, Early
      <3> QED BY <1>3, <1>6, <3>1 DEF Account, Early, Loop, Notes, Same, Inside
    <2> QED BY <1>1, <1>6, <2>1, <2>2, <2>4, <2>5, GotoStep DEF Inside
  <1>8. CASE outcome # "ok"
    <2>1. CleanUp(p, [me EXCEPT !.primary = TRUE])
      BY <1>0, <1>2, <1>8 DEF Raise
    <2>2. \A l \in Logs : Sound([me EXCEPT !.primary = TRUE].rows[l], l)'
      BY <1>4, <1>6, RaisedFacts
    <2> QED BY <1>1, <1>6, <2>1, <2>2, RaisedFacts, CleanUpStep
  <1> QED BY <1>7, <1>8
-----------------------------------------------------------------------------
(* One log.  What the account of a collector needs inside the loop.        *)

LEMMA LoopAccount ==
    ASSUME NEW me \in Collector, NEW m \in Collector, NEW old \in Loop, NEW step \in Loop,
           NEW tries, NEW bytes \in Nat, NEW more \in Nat, NEW ses,
           Account(me, old, tries, bytes, ses, "none"),
           m.owned = me.owned, m.primary = me.primary,
           more <= MaxTotalBytes,
           ~m.stopped => more + m.remaining <= MaxTotalBytes,
           step \in {"send", "noteAccepted", "follow", "download"} => ~m.stopped,
           ~me.primary
    PROVE  Account(m, step, tries, more, ses, "none")
  <1>1. /\ old \notin {"new", "claim", "open", "report", "close", "done"} \cup Early
        /\ step \notin {"new", "claim", "open", "report", "close", "done"} \cup Early
        /\ old \in Inside /\ step \in Inside
    BY DEF Early, Loop, Notes, Inside
  <1> QED BY <1>1 DEF Account

\* A collector in the loop.
LEMMA InLoop ==
    ASSUME IInv, NEW p \in Collectors, pc[p] \in Loop, NEW me, me = self[p]
    PROVE  /\ me \in Collector /\ pc[p] \in Inside /\ pc[p] \in Early \cup Loop
           /\ Fits(me, pc[p]) /\ manifest # NoFile /\ ~me.primary
           /\ \A l \in Logs : Sound(me.rows[l], l) /\ me.rows[l] \in Status
           /\ me.rows \in [Logs -> Status]
           /\ Account(me, pc[p], attempts[p], spent[p], session[p], "none")
           /\ spent[p] \in Nat /\ spent[p] <= MaxTotalBytes
           /\ me.remaining \in Nat /\ me.stopped \in BOOLEAN /\ me.failures \in BOOLEAN
  <1>1. pc[p] \in Inside
    BY DEF Inside
  <1>2. /\ me \in Collector /\ Fits(me, pc[p]) /\ Files
        /\ Account(me, pc[p], attempts[p], spent[p], session[p], "none")
    BY <1>1, Known
  <1>3. me.rows \in [Logs -> Status] /\ me.remaining \in Nat
        /\ me.stopped \in BOOLEAN /\ me.failures \in BOOLEAN
    BY <1>2, CollectionAssumption DEF Collector
  <1> QED BY <1>1, <1>2, <1>3 DEF Fits, Account, Files

\* Back to the next row.
LEMMA NextStep ==
    ASSUME IInv, NEW p \in Collectors, pc[p] \in Loop, NEW me, me = self[p],
           NEW m \in Collector, Goto(p, "next", m),
           Files', Service', \A q \in Collectors : q # p => Same(q),
           UNCHANGED <<attempts, session>>, manifest' # NoFile,
           spent'[p] \in Nat, spent'[p] <= MaxTotalBytes,
           m.owned = me.owned, m.primary = me.primary,
           ~m.stopped => spent'[p] + m.remaining <= MaxTotalBytes,
           \A l \in Logs : Sound(m.rows[l], l)',
           ~m.stopped \/ ~m.failures => manifest' = m.rows
    PROVE  IInv'
  <1>1. "next" \notin Early \cup Notes \cup {"close", "report"} /\ "next" \in Loop /\ "next" \in Inside
    BY DEF Early, Loop, Notes, Inside
  <1>2. pc[p] \in Inside /\ ~me.primary /\ spent[p] \in Nat /\ me \in Collector
        /\ Account(me, pc[p], attempts[p], spent[p], session[p], "none")
    BY InLoop
  <1>3. Fits(m, "next")'
    BY <1>1, <1>2 DEF Fits
  <1>4. Account(m, "next", attempts'[p], spent'[p], session'[p], "none")
    BY <1>1, <1>2, LoopAccount
  <1> QED BY <1>1, <1>2, <1>3, <1>4, GotoStep

LEMMA FinishStep ==
    ASSUME IInv, NEW p \in Collectors, Finish(p)
    PROVE  IInv'
  <1>0. pc[p] = "next" /\ pc[p] \in Loop /\ UNCHANGED <<disk, service, counts>>
    BY DEF Finish, Loop
  <1>1. PICK me : me = self[p]
    OBVIOUS
  <1>2. /\ me \in Collector /\ pc[p] \in Early \cup Loop /\ Fits(me, "next")
        /\ Account(me, "next", attempts[p], spent[p], session[p], "none")
        /\ manifest # NoFile /\ ~me.primary
        /\ \A l \in Logs : Sound(me.rows[l], l) /\ me.rows[l] \in Status
    BY <1>0, <1>1, InLoop
  <1>3. PICK m \in Collector : m = [me EXCEPT !.listed = NewCollector.listed, !.log = NoFile]
    BY <1>2 DEF Collector, NewCollector
  <1>4. /\ m.rows = me.rows /\ m.owned = me.owned /\ m.primary = me.primary
        /\ m.failures = me.failures
    BY <1>2, <1>3 DEF Collector
  <1>5. CleanUp(p, m)
    BY <1>1, <1>3 DEF Finish
  <1>6. \A l \in Logs : Sound(m.rows[l], l)'
    BY <1>0, <1>2, <1>4, Untouched
  <1>7. ~me.failures => manifest = me.rows
    BY <1>2 DEF Fits
  <1>8. ~me.owned => session[p] = "none"
    BY <1>2 DEF Account, Inside, Loop
  <1> QED BY <1>0, <1>2, <1>4, <1>5, <1>6, <1>7, <1>8, Untouched, CleanUpStep DEF service

LEMMA OverBudgetStep ==
    ASSUME IInv, NEW p \in Collectors, NEW l \in Logs, NEW outcome \in Outcomes,
           OverBudget(p, l, outcome)
    PROVE  IInv'
  <1>0. pc[p] = "next" /\ pc[p] \in Loop /\ UNCHANGED <<saved, service, counts>>
    BY DEF OverBudget, Loop
  <1>1. PICK me : me = self[p]
    OBVIOUS
  <1>2. /\ me \in Collector /\ me.rows \in [Logs -> Status]
        /\ \A x \in Logs : Sound(me.rows[x], x) /\ me.rows[x] \in Status
        /\ spent[p] \in Nat /\ spent[p] <= MaxTotalBytes /\ me.failures \in BOOLEAN
    BY <1>0, <1>1, InLoop
  <1>3. /\ Files' /\ Service' /\ (outcome = "ok" => manifest' = me.rows) /\ manifest' # NoFile
        /\ \A q \in Collectors : Same(q)
        /\ \A x \in Status, k \in Logs : Sound(x, k)' <=> Sound(x, k)
        /\ UNCHANGED <<attempts, spent>>
    <2>1. manifest # NoFile
      BY <1>0, <1>1, InLoop
    <2> QED BY <1>0, <1>1, <1>2, <2>1, Saving DEF OverBudget
  <1>4. PICK fail \in BOOLEAN : fail = (me.failures \/ outcome # "ok")
    OBVIOUS
  <1>5. PICK m \in Collector : m = [me EXCEPT !.stopped = TRUE, !.failures = fail]
    BY <1>2, StoppedFacts
  <1>6. Goto(p, "next", m)
    BY <1>1, <1>4, <1>5 DEF OverBudget
  <1>7. /\ m.rows = me.rows /\ m.owned = me.owned /\ m.primary = me.primary
        /\ m.stopped /\ m.failures = fail
    BY <1>2, <1>5 DEF Collector
  <1>8. ~m.stopped \/ ~m.failures => manifest' = m.rows
    BY <1>3, <1>4, <1>7
  <1>9. \A x \in Logs : Sound(m.rows[x], x)'
    BY <1>2, <1>3, <1>7
  <1>10. UNCHANGED session
    BY <1>0 DEF service
  <1> QED BY <1>0, <1>1, <1>2, <1>3, <1>6, <1>7, <1>8, <1>9, <1>10, NextStep

LEMMA IntendStep ==
    ASSUME IInv, NEW p \in Collectors, NEW l \in Logs, NEW outcome \in Outcomes,
           Intend(p, l, outcome)
    PROVE  IInv'
  <1>0. /\ pc[p] = "next" /\ pc[p] \in Loop /\ UNCHANGED <<saved, service, counts>>
        /\ ~self[p].stopped /\ self[p].rows[l] = "planned"
    BY DEF Intend, Loop, Planned
  <1>1. PICK me : me = self[p]
    OBVIOUS
  <1>2. /\ me \in Collector /\ me.rows \in [Logs -> Status] /\ ~me.primary
        /\ \A x \in Logs : Sound(me.rows[x], x) /\ me.rows[x] \in Status
        /\ spent[p] \in Nat /\ spent[p] <= MaxTotalBytes
        /\ Account(me, "next", attempts[p], spent[p], session[p], "none")
        /\ manifest # NoFile /\ pc[p] \in Inside
    BY <1>0, <1>1, InLoop
  <1>3. "outcome-unknown" \in Status
    BY DEF Status
  <1>4. PICK m \in Collector : m = With(me, l, "outcome-unknown")
    BY <1>2, <1>3, WithFacts
  <1>5. /\ m.rows = [me.rows EXCEPT ![l] = "outcome-unknown"] /\ m.log = l
        /\ m.remaining = me.remaining /\ m.owned = me.owned /\ m.primary = me.primary
        /\ m.failures = me.failures /\ m.stopped = me.stopped
    BY <1>2, <1>3, <1>4, WithFacts
  <1>6. \A x \in Logs : Sound(m.rows[x], x) /\ m.rows[x] \in Status
    BY <1>2, <1>3, <1>5 DEF Sound, Unsent
  <1>7. m.rows \in [Logs -> Status]
    BY <1>2, <1>3, <1>5
  <1>8. /\ Files' /\ Service' /\ (outcome = "ok" => manifest' = m.rows) /\ manifest' # NoFile
        /\ \A q \in Collectors : Same(q)
        /\ \A x \in Status, k \in Logs : Sound(x, k)' <=> Sound(x, k)
        /\ UNCHANGED <<attempts, spent>>
    BY <1>0, <1>1, <1>2, <1>4, <1>6, <1>7, Saving DEF Intend
  <1>9. \A x \in Logs : Sound(m.rows[x], x)'
    BY <1>6, <1>8
  <1>10. UNCHANGED session /\ UNCHANGED sent
    BY <1>0 DEF service
  <1>11. CASE outcome = "ok"
    <2>1. Goto(p, "send", m)
      BY <1>1, <1>4, <1>11 DEF Intend
    <2>2. "send" \in Loop \ {"next"} /\ "send" \notin Early \cup Notes
      BY DEF Early, Loop, Notes
    <2>3. sent'[l] = 0
      BY <1>0, <1>1, <1>2, <1>10 DEF Sound, Unsent
    <2>4. Fits(m, "send")'
      BY <1>2, <1>5, <1>8, <1>9, <1>11, <2>2, <2>3 DEF Fits
    <2>5. ~m.stopped /\ spent[p] + m.remaining <= MaxTotalBytes
      BY <1>0, <1>1, <1>2, <1>5 DEF Account, Loop
    <2>6. Account(m, "send", attempts'[p], spent'[p], session'[p], "none")
      BY <1>0, <1>2, <1>5, <1>8, <1>10, <2>2, <2>5, LoopAccount
    <2> QED BY <1>2, <1>8, <2>1, <2>2, <2>4, <2>6, GotoStep DEF Inside
  <1>12. CASE outcome # "ok"
    <2>1. PICK n \in Collector : n = Failing(m, TRUE)
      BY FailingFacts
    <2>2. Goto(p, "next", n)
      BY <1>1, <1>4, <1>12, <2>1 DEF Intend
    <2>3. /\ n.rows = m.rows /\ n.owned = me.owned /\ n.primary = me.primary
          /\ n.stopped /\ n.failures
      BY <1>5, <2>1, FailingFacts
    <2> QED BY <1>0, <1>1, <1>2, <1>8, <1>9, <1>10, <2>2, <2>3, NextStep
  <1> QED BY <1>11, <1>12

\* The service answers, or not.
LEMMA Sending ==
    ASSUME IInv, NEW p \in Collectors, pc[p] = "send", NEW me, me = self[p],
           Taken(me.log) \/ NotTaken, UNCHANGED <<disk, session, counts>>
    PROVE  /\ Files' /\ Service' /\ manifest' = manifest
           /\ \A q \in Collectors : Same(q)
           /\ UNCHANGED <<attempts, spent>>
           /\ me.log \in Logs /\ me.rows[me.log] = "outcome-unknown" /\ manifest = me.rows
           /\ NotTaken => sent'[me.log] = 0
           /\ Taken(me.log) => sent'[me.log] = 1
           /\ \A x \in Logs : Sound(me.rows[x], x)'
           /\ \A x \in Logs : x # me.log => (\A st \in Status : Sound(st, x) <=> Sound(st, x)')
  <1> USE DEF disk, counts
  <1>1. pc[p] \in Loop
    BY DEF Loop
  <1>2. "send" \in Loop \ {"next"}
    BY DEF Loop
  <1>3. /\ me \in Collector /\ Fits(me, "send")
        /\ \A x \in Logs : Sound(me.rows[x], x) /\ me.rows[x] \in Status
    BY <1>1, InLoop
  <1>4. me.log \in Logs /\ me.rows[me.log] = "outcome-unknown" /\ manifest = me.rows
        /\ sent[me.log] = 0 /\ manifest # NoFile
    BY <1>1, <1>2, <1>3, InLoop DEF Fits
  <1>5. /\ \A x \in Logs : x # me.log => sent'[x] = sent[x] /\ job'[x] = job[x]
        /\ Taken(me.log) => sent'[me.log] = 1 /\ job'[me.log] = "running"
        /\ NotTaken => sent'[me.log] = 0 /\ job'[me.log] = job[me.log]
    BY <1>4 DEF IInv, TypeOK, Taken, NotTaken
  <1>6. Files'
    BY <1>4 DEF IInv, TypeOK, Files, Taken, NotTaken
  <1>7. \A x \in Logs : x # me.log => (\A st \in Status : Sound(st, x) <=> Sound(st, x)')
    BY <1>5 DEF Sound
  <1>8. \A x \in Logs : Sound(me.rows[x], x)'
    <2>1. Sound("outcome-unknown", me.log)'
      BY DEF Sound, Unsent
    <2> QED BY <1>3, <1>4, <1>7, <2>1
  <1>9. Service'
    <2>1. \A x \in Logs : sent'[x] \in {0, 1} /\ (sent'[x] = 0 <=> job'[x] = "none")
      BY <1>4, <1>5 DEF IInv, Service
    <2> QED BY <1>4, <1>8, <2>1 DEF Service
  <1> QED BY <1>4, <1>5, <1>6, <1>7, <1>8, <1>9 DEF Same

LEMMA SendStep ==
    ASSUME IInv, NEW p \in Collectors, Send(p)
    PROVE  IInv'
  <1>0. pc[p] = "send" /\ pc[p] \in Loop /\ UNCHANGED <<disk, session, counts>>
    BY DEF Send, Loop
  <1>1. PICK me : me = self[p]
    OBVIOUS
  <1>2. /\ me \in Collector /\ me.rows \in [Logs -> Status] /\ ~me.primary
        /\ \A x \in Logs : Sound(me.rows[x], x) /\ me.rows[x] \in Status
        /\ spent[p] \in Nat /\ spent[p] <= MaxTotalBytes /\ me.stopped \in BOOLEAN
        /\ Account(me, "send", attempts[p], spent[p], session[p], "none")
        /\ manifest # NoFile /\ pc[p] \in Inside /\ pc[p] \in Early \cup Loop
    BY <1>0, <1>1, InLoop
  <1>3. ~me.stopped /\ spent[p] + me.remaining <= MaxTotalBytes
    BY <1>2 DEF Account, Loop
  <1>4. Taken(me.log) \/ NotTaken
    BY <1>1 DEF Send
  <1>5. /\ Files' /\ Service' /\ manifest' = manifest
        /\ \A q \in Collectors : Same(q)
        /\ UNCHANGED <<attempts, spent>>
        /\ me.log \in Logs /\ me.rows[me.log] = "outcome-unknown" /\ manifest = me.rows
        /\ NotTaken => sent'[me.log] = 0
        /\ Taken(me.log) => sent'[me.log] = 1
        /\ \A x \in Logs : Sound(me.rows[x], x)'
        /\ \A x \in Logs : x # me.log => (\A st \in Status : Sound(st, x) <=> Sound(st, x)')
    BY <1>0, <1>1, <1>4, Sending
  <1>6. PICK l \in Logs : l = me.log
    BY <1>5
  <1>7. /\ "noteAccepted" \in Loop \ {"next"} /\ "noteAccepted" \in Notes
        /\ "noteRefused" \in Loop \ {"next"} /\ "noteRefused" \in Notes
        /\ "noteAccepted" \notin Early /\ "noteRefused" \notin Early
        /\ "noteAccepted" \in Inside /\ "noteRefused" \in Inside
        /\ "accepted" \in Status /\ "failed" \in Status
    BY DEF Loop, Notes, Early, Inside, Status
  <1>8. CASE Taken(l) /\ Goto(p, "noteAccepted", With(me, l, "accepted"))
    <2>1. PICK m \in Collector : m = With(me, l, "accepted")
      BY <1>2, <1>7, WithFacts
    <2>2. /\ m.rows = [me.rows EXCEPT ![l] = "accepted"] /\ m.log = l
          /\ m.remaining = me.remaining /\ m.owned = me.owned /\ m.primary = me.primary
          /\ m.failures = me.failures /\ m.stopped = me.stopped
      BY <1>2, <1>7, <2>1, WithFacts
    <2>3. \A x \in Logs : Sound(m.rows[x], x)'
      <3>1. Sound("accepted", l)'
        BY <1>5, <1>6, <1>8 DEF Sound, Unsent
      <3>2. \A x \in Logs : x # l => m.rows[x] = me.rows[x]
        BY <1>2, <2>2
      <3>3. m.rows[l] = "accepted"
        BY <1>2, <2>2
      <3> QED BY <1>5, <3>1, <3>2, <3>3
    <2>4. Behind(m)'
      BY <1>2, <1>5, <1>6, <2>2 DEF Behind, Forward
    <2>5. Fits(m, "noteAccepted")'
      BY <1>2, <1>5, <1>6, <1>7, <2>2, <2>3, <2>4 DEF Fits
    <2>6. Account(m, "noteAccepted", attempts'[p], spent'[p], session'[p], "none")
      BY <1>0, <1>2, <1>3, <1>5, <1>7, <2>2, LoopAccount
    <2> QED BY <1>2, <1>5, <1>7, <1>8, <2>1, <2>5, <2>6, GotoStep
  <1>9. ASSUME NEW stop \in BOOLEAN, NotTaken,
               Goto(p, "noteRefused", Failing(With(me, l, "failed"), stop))
        PROVE  IInv'
    <2>1. PICK m \in Collector : m = With(me, l, "failed")
      BY <1>2, <1>7, WithFacts
    <2>2. /\ m.rows = [me.rows EXCEPT ![l] = "failed"] /\ m.log = l
          /\ m.remaining = me.remaining /\ m.owned = me.owned /\ m.primary = me.primary
      BY <1>2, <1>7, <2>1, WithFacts
    <2>3. PICK n \in Collector : n = Failing(m, stop)
      BY FailingFacts
    <2>4. /\ n.rows = m.rows /\ n.log = l /\ n.remaining = me.remaining
          /\ n.owned = me.owned /\ n.primary = me.primary
      BY <2>2, <2>3, FailingFacts
    <2>5. \A x \in Logs : Sound(n.rows[x], x)'
      <3>1. Sound("failed", l)'
        BY <1>5, <1>6, <1>9 DEF Sound, Unsent
      <3>2. \A x \in Logs : x # l => n.rows[x] = me.rows[x]
        BY <1>2, <2>2, <2>4
      <3>3. n.rows[l] = "failed"
        BY <1>2, <2>2, <2>4
      <3> QED BY <1>5, <3>1, <3>2, <3>3
    <2>6. Behind(n)'
      BY <1>2, <1>5, <1>6, <1>9, <2>2, <2>4 DEF Behind, Forward
    <2>7. Fits(n, "noteRefused")'
      BY <1>2, <1>5, <1>6, <1>7, <2>4, <2>5, <2>6 DEF Fits
    <2>8. Account(n, "noteRefused", attempts'[p], spent'[p], session'[p], "none")
      BY <1>0, <1>2, <1>3, <1>5, <1>7, <2>4, LoopAccount
    <2> QED BY <1>2, <1>5, <1>7, <1>9, <2>1, <2>3, <2>7, <2>8, GotoStep
  <1>10. ASSUME NEW stop \in BOOLEAN, Goto(p, "noteRefused", Failing(me, stop))
         PROVE  IInv'
    <2>1. PICK n \in Collector : n = Failing(me, stop)
      BY <1>2, FailingFacts
    <2>2. /\ n.rows = me.rows /\ n.log = me.log /\ n.remaining = me.remaining
          /\ n.owned = me.owned /\ n.primary = me.primary
      BY <1>2, <2>1, FailingFacts
    <2>3. Behind(n)'
      BY <1>5, <2>2 DEF Behind, Forward
    <2>4. Fits(n, "noteRefused")'
      BY <1>2, <1>5, <1>7, <2>2, <2>3 DEF Fits
    <2>5. Account(n, "noteRefused", attempts'[p], spent'[p], session'[p], "none")
      BY <1>0, <1>2, <1>3, <1>5, <1>7, <2>2, LoopAccount
    <2> QED BY <1>2, <1>5, <1>7, <1>10, <2>1, <2>4, <2>5, GotoStep
  <1>11. ASSUME Goto(p, "next", Failing(me, TRUE))
         PROVE  IInv'
    <2>1. PICK n \in Collector : n = Failing(me, TRUE)
      BY <1>2, FailingFacts
    <2>2. n.rows = me.rows /\ n.owned = me.owned /\ n.primary = me.primary /\ n.stopped /\ n.failures
      BY <1>2, <2>1, FailingFacts
    <2> QED BY <1>0, <1>1, <1>2, <1>5, <1>11, <2>1, <2>2, NextStep
  <1>12. CASE Raise(p)
    <2>1. CleanUp(p, [me EXCEPT !.primary = TRUE])
      BY <1>1, <1>12 DEF Raise
    <2>2. \A x \in Logs : Sound([me EXCEPT !.primary = TRUE].rows[x], x)'
      BY <1>2, <1>5, RaisedFacts
    <2> QED BY <1>2, <1>5, <2>1, <2>2, RaisedFacts, CleanUpStep
  <1> QED BY <1>1, <1>6, <1>8, <1>9, <1>10, <1>11, <1>12 DEF Send

\* A save with the manifest at most one move behind.
LEMMA Noting ==
    ASSUME IInv, NEW p \in Collectors, pc[p] \in Notes, NEW me, me = self[p],
           NEW outcome, Save(me.rows, outcome), UNCHANGED <<saved, service, counts>>
    PROVE  /\ Files' /\ Service' /\ manifest' # NoFile
           /\ outcome = "ok" => manifest' = me.rows
           /\ \A q \in Collectors : Same(q)
           /\ UNCHANGED <<attempts, spent, session, sent, job>>
           /\ \A l \in Logs : Sound(me.rows[l], l)'
           /\ me.log \in Logs /\ Behind(me)'
  <1>1. pc[p] \in Loop \ {"next"} /\ pc[p] \in Loop
    BY DEF Notes, Loop
  <1>2. /\ me \in Collector /\ me.rows \in [Logs -> Status] /\ Fits(me, pc[p])
        /\ \A l \in Logs : Sound(me.rows[l], l) /\ me.rows[l] \in Status
        /\ manifest # NoFile
    BY <1>1, InLoop
  <1>3. me.log \in Logs /\ Behind(me)
    BY <1>1, <1>2 DEF Fits
  <1>4. /\ Files' /\ Service' /\ manifest' \in {manifest, me.rows}
        /\ outcome = "ok" => manifest' = me.rows
        /\ me.rows # NoFile
        /\ \A q \in Collectors : Same(q)
        /\ \A x \in Status, l \in Logs : Sound(x, l)' <=> Sound(x, l)
        /\ UNCHANGED <<attempts, spent>>
    BY <1>2, Saving
  <1>5. UNCHANGED <<session, sent, job>>
    BY DEF service
  <1>6. Behind(me)'
    <2>1. CASE manifest' = manifest
      BY <1>3, <1>5, <2>1 DEF Behind, Forward
    <2>2. CASE manifest' = me.rows
      BY <2>2 DEF Behind, Forward
    <2> QED BY <1>4, <2>1, <2>2
  <1> QED BY <1>2, <1>3, <1>4, <1>5, <1>6

\* The ends of the three steps that note something.
LEMMA NotedStep ==
    ASSUME IInv, NEW p \in Collectors, pc[p] \in Notes, NEW me, me = self[p],
           NEW outcome, Save(me.rows, outcome), UNCHANGED <<saved, service, counts>>,
           \/ outcome = "ok" /\ Goto(p, "next", me)
           \/ Goto(p, "next", Failing(me, TRUE))
           \/ Goto(p, "noteError", Failing(me, TRUE))
    PROVE  IInv'
  <1>1. pc[p] \in Loop
    BY DEF Notes, Loop
  <1>2. /\ me \in Collector /\ ~me.primary /\ pc[p] \in Inside
        /\ spent[p] \in Nat /\ spent[p] <= MaxTotalBytes
        /\ Account(me, pc[p], attempts[p], spent[p], session[p], "none")
    BY <1>1, InLoop
  <1>3. /\ Files' /\ Service' /\ manifest' # NoFile
        /\ outcome = "ok" => manifest' = me.rows
        /\ \A q \in Collectors : Same(q)
        /\ UNCHANGED <<attempts, spent, session, sent, job>>
        /\ \A l \in Logs : Sound(me.rows[l], l)'
        /\ me.log \in Logs /\ Behind(me)'
    BY Noting
  <1>4. ~me.stopped => spent[p] + me.remaining <= MaxTotalBytes
    BY <1>1, <1>2 DEF Account
  <1>5. PICK m \in Collector : m = Failing(me, TRUE)
    BY <1>2, FailingFacts
  <1>6. /\ m.rows = me.rows /\ m.log = me.log /\ m.owned = me.owned /\ m.primary = me.primary
        /\ m.stopped /\ m.failures
    BY <1>2, <1>5, FailingFacts
  <1>7. CASE outcome = "ok" /\ Goto(p, "next", me)
    BY <1>1, <1>2, <1>3, <1>4, <1>7, NextStep
  <1>8. CASE Goto(p, "next", m)
    BY <1>1, <1>2, <1>3, <1>6, <1>8, NextStep
  <1>9. CASE Goto(p, "noteError", m)
    <2>1. /\ "noteError" \in Loop \ {"next"} /\ "noteError" \in Notes /\ "noteError" \notin Early
          /\ "noteError" \in Inside
      BY DEF Loop, Notes, Early, Inside
    <2>2. Behind(m)'
      BY <1>3, <1>6 DEF Behind
    <2>3. Fits(m, "noteError")'
      BY <1>2, <1>3, <1>6, <2>1, <2>2 DEF Fits
    <2>4. Account(m, "noteError", attempts'[p], spent'[p], session'[p], "none")
      BY <1>1, <1>2, <1>3, <1>6, <2>1, LoopAccount
    <2> QED BY <1>2, <1>3, <1>9, <2>1, <2>3, <2>4, GotoStep
  <1> QED BY <1>5, <1>7, <1>8, <1>9

LEMMA NoteRefusedStep ==
    ASSUME IInv, NEW p \in Collectors, NEW outcome \in Outcomes, NoteRefused(p, outcome)
    PROVE  IInv'
  <1>1. pc[p] \in Notes
    BY DEF NoteRefused, Notes
  <1>2. \/ outcome = "ok" /\ Goto(p, "next", self[p])
        \/ Goto(p, "next", Failing(self[p], TRUE))
    BY DEF NoteRefused
  <1> QED BY <1>1, <1>2, NotedStep DEF NoteRefused

LEMMA NoteFollowedStep ==
    ASSUME IInv, NEW p \in Collectors, NEW outcome \in Outcomes, NoteFollowed(p, outcome)
    PROVE  IInv'
  <1>1. pc[p] \in Notes
    BY DEF NoteFollowed, Notes
  <1>2. \/ outcome = "ok" /\ Goto(p, "next", self[p])
        \/ Goto(p, "noteError", Failing(self[p], TRUE))
    BY DEF NoteFollowed
  <1> QED BY <1>1, <1>2, NotedStep DEF NoteFollowed

LEMMA NoteAcceptedStep ==
    ASSUME IInv, NEW p \in Collectors, NEW outcome \in Outcomes, NoteAccepted(p, outcome)
    PROVE  IInv'
  <1>1. pc[p] = "noteAccepted" /\ pc[p] \in Notes /\ pc[p] \in Loop
    BY DEF NoteAccepted, Notes, Loop
  <1>2. CASE outcome # "ok"
    BY <1>1, <1>2, NotedStep DEF NoteAccepted
  <1>3. CASE outcome = "ok"
    <2>1. PICK me : me = self[p]
      OBVIOUS
    <2>2. /\ me \in Collector /\ ~me.primary /\ pc[p] \in Inside
          /\ spent[p] \in Nat /\ spent[p] <= MaxTotalBytes
          /\ Fits(me, "noteAccepted")
          /\ Account(me, "noteAccepted", attempts[p], spent[p], session[p], "none")
      BY <1>1, <2>1, InLoop
    <2>3. /\ Files' /\ Service' /\ manifest' # NoFile /\ manifest' = me.rows
          /\ \A q \in Collectors : Same(q)
          /\ UNCHANGED <<attempts, spent, session, sent, job>>
          /\ \A l \in Logs : Sound(me.rows[l], l)'
          /\ me.log \in Logs
      BY <1>1, <1>3, <2>1, Noting DEF NoteAccepted
    <2>4. Goto(p, "follow", me)
      BY <1>3, <2>1 DEF NoteAccepted
    <2>5. "follow" \in Loop \ {"next"} /\ "follow" \notin Early \cup Notes /\ "follow" \in Inside
      BY DEF Loop, Notes, Early, Inside
    <2>6. Fits(me, "follow")'
      BY <2>2, <2>3, <2>5 DEF Fits
    <2>7. ~me.stopped /\ spent[p] + me.remaining <= MaxTotalBytes
      BY <1>1, <2>2 DEF Account
    <2>8. Account(me, "follow", attempts'[p], spent'[p], session'[p], "none")
      BY <1>1, <2>2, <2>3, <2>5, <2>7, LoopAccount
    <2> QED BY <2>2, <2>3, <2>4, <2>5, <2>6, <2>8, GotoStep
  <1> QED BY <1>2, <1>3

LEMMA NoteErrorStep ==
    ASSUME IInv, NEW p \in Collectors, NEW outcome \in Outcomes, NoteError(p, outcome)
    PROVE  IInv'
  <1>1. pc[p] \in Notes /\ pc[p] \in Loop
    BY DEF NoteError, Notes, Loop
  <1>2. PICK me : me = self[p]
    OBVIOUS
  <1>3. /\ me \in Collector /\ ~me.primary /\ pc[p] \in Inside
        /\ spent[p] \in Nat /\ spent[p] <= MaxTotalBytes
        /\ Account(me, pc[p], attempts[p], spent[p], session[p], "none")
        /\ me.stopped \in BOOLEAN /\ me.failures
    <2>1. Fits(me, "noteError")
      BY <1>1, <1>2, InLoop DEF NoteError
    <2> QED BY <1>1, <1>2, <2>1, InLoop DEF Fits
  <1>4. /\ Files' /\ Service' /\ manifest' # NoFile
        /\ outcome = "ok" => manifest' = me.rows
        /\ \A q \in Collectors : Same(q)
        /\ UNCHANGED <<attempts, spent, session, sent, job>>
        /\ \A l \in Logs : Sound(me.rows[l], l)'
    BY <1>1, <1>2, Noting DEF NoteError
  <1>5. PICK stop \in BOOLEAN : stop = (me.stopped \/ outcome # "ok")
    OBVIOUS
  <1>6. PICK m \in Collector : m = [me EXCEPT !.stopped = stop]
    BY <1>3 DEF Collector
  <1>7. /\ m.rows = me.rows /\ m.owned = me.owned /\ m.primary = me.primary
        /\ m.stopped = stop /\ m.remaining = me.remaining /\ m.failures
    BY <1>3, <1>6 DEF Collector
  <1>8. Goto(p, "next", m)
    BY <1>2, <1>3, <1>5, <1>6 DEF NoteError
  <1>9. ~me.stopped => spent[p] + me.remaining <= MaxTotalBytes
    BY <1>1, <1>3 DEF Account
  <1> QED BY <1>1, <1>2, <1>3, <1>4, <1>5, <1>7, <1>8, <1>9, NextStep

LEMMA FollowStep ==
    ASSUME IInv, NEW p \in Collectors, Follow(p)
    PROVE  IInv'
  <1>0. pc[p] = "follow" /\ pc[p] \in Loop /\ UNCHANGED <<disk, service, counts>>
    BY DEF Follow, Loop
  <1>1. PICK me : me = self[p]
    OBVIOUS
  <1>2. /\ me \in Collector /\ me.rows \in [Logs -> Status] /\ ~me.primary
        /\ \A x \in Logs : Sound(me.rows[x], x) /\ me.rows[x] \in Status
        /\ spent[p] \in Nat /\ spent[p] <= MaxTotalBytes
        /\ Account(me, "follow", attempts[p], spent[p], session[p], "none")
        /\ manifest # NoFile /\ pc[p] \in Inside /\ Fits(me, "follow")
    BY <1>0, <1>1, InLoop
  <1>3. ~me.stopped /\ spent[p] + me.remaining <= MaxTotalBytes
    BY <1>2 DEF Account, Loop
  <1>4. me.log \in Logs /\ manifest = me.rows /\ me.rows[me.log] = "accepted"
    BY <1>2 DEF Fits, Loop, Notes
  <1>5. /\ Files' /\ Service' /\ manifest' = manifest
        /\ \A q \in Collectors : Same(q)
        /\ UNCHANGED <<attempts, spent, session, sent, job, saved>>
        /\ \A x \in Status, l \in Logs : Sound(x, l)' <=> Sound(x, l)
    BY <1>0, Untouched DEF disk, service
  <1>6. \A x \in Logs : Sound(me.rows[x], x)'
    BY <1>2, <1>5
  <1>7. \A step \in {"noteFollowed", "noteError"} :
           step \in Loop \ {"next"} /\ step \in Notes /\ step \notin Early /\ step \in Inside
           /\ step \notin {"create", "close", "report", "send", "follow", "download", "noteAccepted"}
    BY DEF Loop, Notes, Early, Inside
  <1>8. ASSUME NEW stop \in BOOLEAN, NEW step \in {"noteFollowed", "noteError"},
               Goto(p, step, Failing(me, stop))
        PROVE  IInv'
    <2>1. PICK n \in Collector : n = Failing(me, stop)
      BY <1>2, FailingFacts
    <2>2. /\ n.rows = me.rows /\ n.log = me.log /\ n.remaining = me.remaining
          /\ n.owned = me.owned /\ n.primary = me.primary /\ n.failures
      BY <1>2, <2>1, FailingFacts
    <2>3. Behind(n)'
      BY <1>4, <1>5, <2>2 DEF Behind, Forward
    <2>4. Fits(n, step)'
      BY <1>2, <1>4, <1>5, <1>6, <1>7, <2>2, <2>3 DEF Fits
    <2>5. Account(n, step, attempts'[p], spent'[p], session'[p], "none")
      BY <1>0, <1>2, <1>3, <1>5, <1>7, <2>2, LoopAccount
    <2> QED BY <1>2, <1>5, <1>7, <1>8, <2>1, <2>4, <2>5, GotoStep
  <1>9. CASE /\ job[me.log] = "failed"
             /\ Goto(p, "noteFollowed", Failing(With(me, me.log, "failed"), FALSE))
    <2>0. PICK l \in Logs : l = me.log
      BY <1>4
    <2>1. "failed" \in Status
      BY DEF Status
    <2>2. PICK m \in Collector : m = With(me, l, "failed")
      BY <1>2, <2>1, WithFacts
    <2>3. /\ m.rows = [me.rows EXCEPT ![l] = "failed"] /\ m.log = l
          /\ m.remaining = me.remaining /\ m.owned = me.owned /\ m.primary = me.primary
      BY <1>2, <2>1, <2>2, WithFacts
    <2>4. PICK n \in Collector : n = Failing(m, FALSE)
      BY FailingFacts
    <2>5. /\ n.rows = m.rows /\ n.log = l /\ n.remaining = me.remaining
          /\ n.owned = me.owned /\ n.primary = me.primary
      BY <2>3, <2>4, FailingFacts
    <2>6. \A x \in Logs : Sound(n.rows[x], x)'
      <3>1. Sound("failed", l)'
        BY <1>5, <1>9, <2>0 DEF Sound, Unsent
      <3>2. \A x \in Logs : x # l => n.rows[x] = me.rows[x]
        BY <1>2, <2>3, <2>5
      <3>3. n.rows[l] = "failed"
        BY <1>2, <2>3, <2>5
      <3> QED BY <1>6, <3>1, <3>2, <3>3
    <2>7. Behind(n)'
      BY <1>2, <1>4, <1>5, <2>0, <2>3, <2>5 DEF Behind, Forward
    <2>8. Fits(n, "noteFollowed")'
      BY <1>2, <1>5, <1>7, <2>0, <2>5, <2>6, <2>7 DEF Fits
    <2>9. Account(n, "noteFollowed", attempts'[p], spent'[p], session'[p], "none")
      BY <1>0, <1>2, <1>3, <1>5, <1>7, <2>5, LoopAccount
    <2>10. Goto(p, "noteFollowed", n)
      BY <1>9, <2>0, <2>2, <2>4
    <2> QED BY <1>2, <1>5, <1>7, <2>8, <2>9, <2>10, GotoStep
  <1>10. CASE job[me.log] = "succeeded" /\ Goto(p, "download", me)
    <2>1. "download" \in Loop \ {"next"} /\ "download" \notin Early \cup Notes /\ "download" \in Inside
      BY DEF Loop, Notes, Early, Inside
    <2>2. Fits(me, "download")'
      BY <1>2, <1>4, <1>5, <1>6, <1>10, <2>1 DEF Fits
    <2>3. Account(me, "download", attempts'[p], spent'[p], session'[p], "none")
      BY <1>0, <1>2, <1>3, <1>5, <2>1, LoopAccount
    <2> QED BY <1>2, <1>5, <1>10, <2>1, <2>2, <2>3, GotoStep
  <1>11. CASE Goto(p, "next", Failing(me, TRUE))
    <2>1. PICK n \in Collector : n = Failing(me, TRUE)
      BY <1>2, FailingFacts
    <2>2. n.rows = me.rows /\ n.owned = me.owned /\ n.primary = me.primary /\ n.stopped /\ n.failures
      BY <1>2, <2>1, FailingFacts
    <2> QED BY <1>0, <1>1, <1>2, <1>5, <1>6, <1>11, <2>1, <2>2, NextStep
  <1> QED BY <1>1, <1>8, <1>9, <1>10, <1>11 DEF Follow

LEMMA CapFacts ==
    ASSUME NEW p \in Collectors, NEW me, me = self[p], me.remaining \in Nat, NEW n \in 0..Cap(p)
    PROVE  n \in Nat /\ n <= me.remaining
  <1>1. Smaller(MaxBytes, me.remaining) \in Nat /\ Smaller(MaxBytes, me.remaining) <= me.remaining
    BY CollectionAssumption DEF Smaller
  <1>2. Cap(p) = Smaller(MaxBytes, me.remaining)
    BY DEF Cap
  <1> QED BY <1>1, <1>2

LEMMA DownloadStep ==
    ASSUME IInv, NEW p \in Collectors, Download(p)
    PROVE  IInv'
  <1>0. pc[p] = "download" /\ pc[p] \in Loop /\ UNCHANGED <<manifest, service, attempts>>
    BY DEF Download, Loop
  <1>1. PICK me : me = self[p]
    OBVIOUS
  <1>2. /\ me \in Collector /\ me.rows \in [Logs -> Status] /\ ~me.primary
        /\ \A x \in Logs : Sound(me.rows[x], x) /\ me.rows[x] \in Status
        /\ spent[p] \in Nat /\ spent[p] <= MaxTotalBytes /\ me.remaining \in Nat
        /\ Account(me, "download", attempts[p], spent[p], session[p], "none")
        /\ manifest # NoFile /\ pc[p] \in Inside /\ Fits(me, "download")
    BY <1>0, <1>1, InLoop
  <1>3. ~me.stopped /\ spent[p] + me.remaining <= MaxTotalBytes
    BY <1>2 DEF Account, Loop
  <1>4. /\ me.log \in Logs /\ manifest = me.rows /\ me.rows[me.log] = "accepted"
        /\ job[me.log] = "succeeded"
    BY <1>2 DEF Fits, Loop, Notes
  <1>5. PICK n \in 0..Cap(p) :
          /\ spent' = [spent EXCEPT ![p] = @ + n]
          /\ \/ /\ saved' = saved \cup {me.log}
                /\ Goto(p, "noteFollowed",
                        [With(me, me.log, "completed") EXCEPT !.remaining = @ - n])
             \/ Goto(p, "noteError", Failing(me, TRUE)) /\ UNCHANGED saved
             \/ Goto(p, "next", Failing(me, TRUE)) /\ UNCHANGED saved
    BY <1>1 DEF Download
  <1>6. n \in Nat /\ n <= me.remaining
    BY <1>1, <1>2, CapFacts
  <1>7. /\ spent'[p] = spent[p] + n /\ spent'[p] \in Nat /\ spent'[p] <= MaxTotalBytes
        /\ spent'[p] + (me.remaining - n) <= MaxTotalBytes
        /\ me.remaining - n \in 0..MaxTotalBytes
    <2>1. spent'[p] = spent[p] + n
      BY <1>5 DEF IInv, TypeOK
    <2>2. MaxTotalBytes \in Nat
      BY CollectionAssumption
    <2> QED BY <1>2, <1>3, <1>6, <2>1, <2>2
  <1>8. /\ Files' /\ \A q \in Collectors : q # p => Same(q)
        /\ UNCHANGED <<manifest, sent, job, session, attempts>>
        /\ saved \subseteq saved'
    <2>1. \A q \in Collectors : q # p => spent'[q] = spent[q]
      BY <1>5 DEF IInv, TypeOK
    <2>2. spent' \in [Collectors -> Nat]
      BY <1>5, <1>6 DEF IInv, TypeOK
    <2>3. saved' \subseteq Logs /\ saved \subseteq saved'
      BY <1>4, <1>5 DEF IInv, TypeOK
    <2> QED BY <1>0, <2>1, <2>2, <2>3 DEF IInv, TypeOK, Files, Same, service
  <1>9. \A x \in Logs, st \in Status : Sound(st, x) => Sound(st, x)'
    BY <1>8 DEF Sound
  <1>10. Service'
    <2>1. \A x \in Logs : Sound(manifest[x], x)'
      BY <1>2, <1>4, <1>8, <1>9
    <2> QED BY <1>2, <1>8, <2>1 DEF IInv, Service
  <1>11. \A x \in Logs : Sound(me.rows[x], x)'
    BY <1>2, <1>9
  <1>12. \A step \in {"noteFollowed", "noteError"} :
           step \in Loop \ {"next"} /\ step \in Notes /\ step \notin Early /\ step \in Inside
           /\ step \notin {"create", "close", "report", "send", "follow", "download", "noteAccepted"}
    BY DEF Loop, Notes, Early, Inside
  <1>13. CASE /\ saved' = saved \cup {me.log}
              /\ Goto(p, "noteFollowed",
                      [With(me, me.log, "completed") EXCEPT !.remaining = @ - n])
    <2>0. PICK l \in Logs : l = me.log
      BY <1>4
    <2>1. "completed" \in Status
      BY DEF Status, Deliberate
    <2>2. PICK w \in Collector : w = With(me, l, "completed")
      BY <1>2, <2>1, WithFacts
    <2>3. /\ w.rows = [me.rows EXCEPT ![l] = "completed"] /\ w.log = l
          /\ w.remaining = me.remaining /\ w.owned = me.owned /\ w.primary = me.primary
      BY <1>2, <2>1, <2>2, WithFacts
    <2>4. PICK m \in Collector : m = [w EXCEPT !.remaining = me.remaining - n]
      BY <1>7 DEF Collector
    <2>5. /\ m.rows = w.rows /\ m.log = l /\ m.remaining = me.remaining - n
          /\ m.owned = me.owned /\ m.primary = me.primary
      BY <2>3, <2>4 DEF Collector
    <2>6. \A x \in Logs : Sound(m.rows[x], x)'
      <3>1. Sound("completed", l)'
        <4>1. sent[l] = 1
          BY <1>2, <1>4, <2>0 DEF Sound, Unsent
        <4> QED BY <1>4, <1>8, <1>13, <2>0, <4>1 DEF Sound, Unsent
      <3>2. \A x \in Logs : x # l => m.rows[x] = me.rows[x]
        BY <1>2, <2>3, <2>5
      <3>3. m.rows[l] = "completed"
        BY <1>2, <2>3, <2>5
      <3> QED BY <1>11, <3>1, <3>2, <3>3
    <2>7. Behind(m)'
      BY <1>2, <1>4, <1>8, <2>0, <2>3, <2>5 DEF Behind, Forward
    <2>8. Fits(m, "noteFollowed")'
      BY <1>2, <1>8, <1>12, <2>0, <2>5, <2>6, <2>7 DEF Fits
    <2>9. Account(m, "noteFollowed", attempts'[p], spent'[p], session'[p], "none")
      BY <1>0, <1>2, <1>7, <1>8, <1>12, <2>5, LoopAccount
    <2>10. Goto(p, "noteFollowed", m)
      <3>1. [w EXCEPT !.remaining = @ - n] = m
        BY <2>3, <2>4 DEF Collector
      <3> QED BY <1>13, <2>0, <2>2, <3>1
    <2> QED BY <1>2, <1>8, <1>10, <1>12, <2>8, <2>9, <2>10, GotoStep
  <1>14. PICK f \in Collector : f = Failing(me, TRUE)
    BY <1>2, FailingFacts
  <1>15. /\ f.rows = me.rows /\ f.log = me.log /\ f.owned = me.owned /\ f.primary = me.primary
         /\ f.stopped /\ f.failures
    BY <1>2, <1>14, FailingFacts
  <1>16. CASE Goto(p, "noteError", f)
    <2>1. Behind(f)'
      BY <1>4, <1>8, <1>15 DEF Behind, Forward
    <2>2. Fits(f, "noteError")'
      BY <1>2, <1>4, <1>8, <1>11, <1>12, <1>15, <2>1 DEF Fits
    <2>3. Account(f, "noteError", attempts'[p], spent'[p], session'[p], "none")
      BY <1>0, <1>2, <1>7, <1>8, <1>12, <1>15, LoopAccount
    <2> QED BY <1>2, <1>8, <1>10, <1>12, <1>16, <2>2, <2>3, GotoStep
  <1>17. CASE Goto(p, "next", f)
    BY <1>0, <1>1, <1>2, <1>7, <1>8, <1>10, <1>11, <1>15, <1>17, NextStep
  <1> QED BY <1>5, <1>13, <1>14, <1>16, <1>17
-----------------------------------------------------------------------------
(* The end of a run, and the device.                                       *)

\* A run that ends early: the session was closed, or is not owned, or nobody is left to.
LEMMA EndedStep ==
    ASSUME IInv, NEW p \in Collectors, pc[p] \in Inside,
           NEW how \in {"error", "killed"}, Leave(p, self[p], how),
           how = "error" => pc[p] = "report",
           UNCHANGED <<disk, service, counts>>
    PROVE  IInv'
  <1>1. PICK me \in Collector : me = self[p]
    BY Known
  <1>2. Account(me, pc[p], attempts[p], spent[p], session[p], "none")
    BY <1>1, Known
  <1>3. /\ attempts'[p] = attempts[p] /\ spent'[p] <= MaxTotalBytes /\ attempts'[p] \in {0, 1}
        /\ attempts'[p] = 1 => me.owned
        /\ how # "killed" /\ me.owned => attempts'[p] = 1
    BY <1>2, Untouched DEF Account, counts
  <1>4. Leave(p, me, how)
    BY <1>1
  <1> QED BY <1>1, <1>3, <1>4, Untouched, LeaveStep

LEMMA CloseStep ==
    ASSUME IInv, NEW p \in Collectors, Close(p)
    PROVE  IInv'
  <1>0. pc[p] = "close" /\ pc[p] \in Inside /\ UNCHANGED <<disk, sent, job, spent>>
    BY DEF Close, Inside
  <1>1. PICK me \in Collector : me = self[p]
    BY <1>0, Known
  <1>2. /\ Account(me, "close", attempts[p], spent[p], session[p], "none") /\ Fits(me, "close")
        /\ Files
    BY <1>0, <1>1, Known
  <1>3. attempts'[p] = 1 /\ attempts' \in [Collectors -> Nat]
        /\ \A q \in Collectors : q # p => attempts'[q] = attempts[q]
    BY <1>0, <1>2 DEF Close, Account, Files, Inside, Early, Loop, Notes
  <1>4. PICK s \in {"none", "open", "closed"} : session' = [session EXCEPT ![p] = s]
    BY <1>0 DEF Close, IInv, TypeOK
  <1>5. /\ Files' /\ Service' /\ manifest' = manifest
        /\ \A q \in Collectors : q # p => Same(q)
        /\ \A x \in Status, l \in Logs : Sound(x, l)' <=> Sound(x, l)
    BY <1>0, <1>3, <1>4 DEF IInv, TypeOK, Files, Service, Sound, Same, disk
  <1>6. \A l \in Logs : Sound(me.rows[l], l)'
    BY <1>2, <1>5 DEF Fits, Collector
  <1>7. me.owned /\ spent'[p] = spent[p] /\ spent[p] \in Nat /\ spent[p] <= MaxTotalBytes
    BY <1>0, <1>2 DEF Account, Files
  <1>8. "report" \notin Early \cup Loop \cup Notes /\ "report" \in Inside
    BY DEF Early, Loop, Notes, Inside
  <1>9. ASSUME NEW m \in Collector, m.rows = me.rows, m.owned = me.owned, m.primary = me.primary,
               m.failures = me.failures \/ m.failures,
               m.failures \/ session'[p] = "closed",
               me.failures => m.failures,
               IF m.primary THEN Leave(p, m, "error") ELSE Goto(p, "report", m)
        PROVE  IInv'
    <2>1. CASE m.primary
      <3>1. Leave(p, m, "error")
        BY <1>9, <2>1
      <3> QED BY <1>0, <1>3, <1>5, <1>7, <1>9, <3>1, LeaveStep
    <2>2. CASE ~m.primary
      <3>1. Goto(p, "report", m)
        BY <1>9, <2>2
      <3>2. manifest # NoFile /\ (~me.failures => manifest = me.rows)
        BY <1>2, <1>9, <2>2 DEF Fits
      <3>3. \A l \in Logs : Sound(m.rows[l], l)'
        BY <1>6, <1>9
      <3>4. Fits(m, "report")'
        BY <1>5, <1>8, <1>9, <2>2, <3>2, <3>3 DEF Fits
      <3>5. Account(m, "report", attempts'[p], spent'[p], session'[p], "none")
        BY <1>3, <1>7, <1>8, <1>9 DEF Account
      <3> QED BY <1>0, <1>5, <1>8, <1>9, <3>1, <3>4, <3>5, GotoStep
    <2> QED BY <2>1, <2>2
  <1>10. CASE /\ session' = [session EXCEPT ![p] = "closed"]
              /\ IF me.primary THEN Leave(p, me, "error") ELSE Goto(p, "report", me)
    <2>1. session'[p] = "closed"
      BY <1>2, <1>10 DEF Files
    <2> QED BY <1>9, <1>10, <2>1
  <1>11. PICK f \in Collector : f = Failing(me, FALSE)
    BY FailingFacts
  <1>12. f.rows = me.rows /\ f.owned = me.owned /\ f.primary = me.primary /\ f.failures
    BY <1>11, FailingFacts
  <1>13. CASE IF f.primary THEN Leave(p, f, "error") ELSE Goto(p, "report", f)
    BY <1>9, <1>12, <1>13
  <1>14. CASE Leave(p, me, "error")
    BY <1>0, <1>3, <1>5, <1>7, <1>14, LeaveStep
  <1> QED BY <1>1, <1>10, <1>11, <1>13, <1>14 DEF Close

LEMMA ReportStep ==
    ASSUME IInv, NEW p \in Collectors, Report(p)
    PROVE  IInv'
  <1>0. pc[p] = "report" /\ pc[p] \in Inside /\ UNCHANGED <<disk, service, counts>>
    BY DEF Report, Inside
  <1>1. PICK me \in Collector : me = self[p]
    BY <1>0, Known
  <1>2. /\ Account(me, "report", attempts[p], spent[p], session[p], "none") /\ Fits(me, "report")
    BY <1>0, <1>1, Known
  <1>3. CASE Leave(p, self[p], "error")
    BY <1>0, <1>3, EndedStep
  <1>4. ASSUME NEW how \in {"partial", "complete"}, Leave(p, me, how),
               how = "complete" => ~me.failures /\ \A l \in Logs : me.rows[l] \in Deliberate
        PROVE  IInv'
    <2>1. /\ attempts'[p] = attempts[p] /\ spent'[p] <= MaxTotalBytes /\ attempts'[p] \in {0, 1}
          /\ attempts'[p] = 1 => me.owned
          /\ me.owned => attempts'[p] = 1
          /\ ~me.failures => session'[p] # "open"
      BY <1>0, <1>2, Untouched DEF Account, counts, service
    <2>2. manifest # NoFile /\ (~me.failures => manifest = me.rows)
      BY <1>2 DEF Fits
    <2>3. \A l \in Logs : Sound(me.rows[l], l)'
      BY <1>0, <1>2, Untouched DEF Fits, Collector
    <2> QED BY <1>0, <1>4, <2>1, <2>2, <2>3, Untouched, LeaveStep
  <1>5. CASE Leave(p, me, IF (\E l \in Logs : me.rows[l] \notin Deliberate) \/ me.failures
                          THEN "partial" ELSE "complete")
    <2>1. CASE (\E l \in Logs : me.rows[l] \notin Deliberate) \/ me.failures
      BY <1>4, <1>5, <2>1
    <2>2. CASE ~((\E l \in Logs : me.rows[l] \notin Deliberate) \/ me.failures)
      BY <1>4, <1>5, <2>2
    <2> QED BY <2>1, <2>2
  <1> QED BY <1>1, <1>3, <1>5 DEF Report

LEMMA InterruptStep ==
    ASSUME IInv, NEW p \in Collectors, Interrupt(p)
    PROVE  IInv'
  <1>1. CASE pc[p] \in Working /\ Raise(p)
    <2>1. pc[p] \in Early \cup Loop
      BY <1>1 DEF Working, Early, Loop, Notes
    <2> QED BY <1>1, <2>1, RaiseStep DEF Interrupt
  <1>2. CASE pc[p] = "claim" /\ Leave(p, self[p], "error")
    BY <1>2, RefusedStep DEF Interrupt
  <1>3. CASE pc[p] = "report" /\ Leave(p, self[p], "error")
    BY <1>3, EndedStep DEF Interrupt, Inside
  <1> QED BY <1>1, <1>2, <1>3 DEF Interrupt

LEMMA CrashStep ==
    ASSUME IInv, NEW p \in Collectors, Crash(p)
    PROVE  IInv'
  <1>1. pc[p] = "claim" \/ pc[p] \in Inside
    BY DEF Crash, IInv, TypeOK, Pc, Working, Inside, Early, Loop, Notes
  <1>2. Leave(p, self[p], "killed") /\ UNCHANGED <<disk, service, counts>>
    BY DEF Crash
  <1> QED BY <1>1, <1>2, RefusedStep, EndedStep

LEMMA JobEndsStep ==
    ASSUME IInv, NEW l \in Logs, JobEnds(l)
    PROVE  IInv'
  <1>1. PICK how \in {"succeeded", "failed"} : job' = [job EXCEPT ![l] = how]
    BY DEF JobEnds
  <1>2. /\ UNCHANGED <<lock, manifest, saved, sent, session, pc, self, attempts, spent, result>>
        /\ job[l] = "running"
    BY DEF JobEnds, disk, counts
  <1>3. TypeOK'
    BY <1>1, <1>2 DEF IInv, TypeOK
  <1>4. /\ \A x \in Logs : x # l => job'[x] = job[x]
        /\ job'[l] = how
    BY <1>1 DEF IInv, TypeOK
  <1>5. \A x \in Logs : \A st : Sound(st, x) => Sound(st, x)'
    BY <1>2, <1>4 DEF Sound
  <1>6. Service'
    BY <1>2, <1>4, <1>5 DEF IInv, Service
  <1>7. ASSUME NEW q \in Collectors PROVE Local(q)'
    <2>1. Fits(self[q], pc[q]) => Fits(self[q], pc[q])'
      <3>1. ASSUME pc[q] = "download", Fits(self[q], pc[q]), self[q].log \in Logs
            PROVE  job'[self[q].log] = job[self[q].log]
        BY <1>2, <1>4, <3>1 DEF Fits
      <3>2. pc[q] = "download" => pc[q] \in Loop \ {"next"}
        BY DEF Loop
      <3>3. Behind(self[q]) => Behind(self[q])'
        BY <1>2 DEF Behind, Forward
      <3> QED BY <1>2, <1>5, <3>1, <3>2, <3>3 DEF Fits
    <2>2. Frozen(q) => Frozen(q)'
      BY <1>2, <1>5 DEF Frozen
    <2> QED BY <1>2, <2>1, <2>2 DEF IInv, Local, Reported
  <1> QED BY <1>3, <1>6, <1>7 DEF IInv
-----------------------------------------------------------------------------
LEMMA InitIInv ==
    ASSUME Init
    PROVE  IInv
  <1>1. NewCollector \in Collector
    BY CollectionAssumption DEF NewCollector, Collector, Status, Deliberate
  <1>2. TypeOK
    BY <1>1 DEF Init, TypeOK, Pc
  <1>3. Service
    BY DEF Init, Service
  <1>4. ASSUME NEW q \in Collectors PROVE Local(q)
    <2>1. "new" \notin Inside \cup Early \cup Loop \cup {"send", "noteAccepted", "follow", "download"}
      BY DEF Inside, Early, Loop, Notes
    <2>2. /\ pc[q] = "new" /\ self[q] = NewCollector /\ result[q] = "none"
          /\ attempts[q] = 0 /\ spent[q] = 0 /\ session[q] = "none"
      BY DEF Init
    <2>3. NewCollector.remaining = MaxTotalBytes
      BY DEF NewCollector
    <2>4. Account(NewCollector, "new", 0, 0, "none", "none")
      BY <2>1, <2>3, CollectionAssumption DEF Account
    <2> QED BY <2>1, <2>2, <2>4 DEF Local, Reported
  <1> QED BY <1>2, <1>3, <1>4 DEF IInv

LEMMA StutterStep ==
    ASSUME IInv, UNCHANGED vars
    PROVE  IInv'
  BY DEF IInv, vars, TypeOK, Service, Sound, Local, Fits, Behind, Forward, Reported, Frozen

LEMMA StepIInv ==
    ASSUME IInv, [Next]_vars
    PROVE  IInv'
  <1>1. ASSUME NEW p \in Collectors, Step(p) PROVE IInv'
    BY <1>1, ClaimStep, OpenStep, SurveyStep, FinishStep, SendStep, FollowStep, DownloadStep,
       CloseStep, ReportStep, CreateStep, NoteRefusedStep, NoteAcceptedStep, NoteFollowedStep,
       NoteErrorStep, OverBudgetStep, IntendStep DEF Step
  <1>2. CASE Next
    BY <1>1, <1>2, PrepareStep, InterruptStep, CrashStep, JobEndsStep DEF Next
  <1> QED BY <1>2, StutterStep

\* The inductive invariant, in every behaviour.
THEOREM Invariance == Spec => []IInv
  BY InitIInv, StepIInv, PTL DEF Spec

\* Type correctness.
THEOREM TypeCorrect == Spec => []TypeOK
  <1>1. IInv => TypeOK
    BY DEF IInv
  <1> QED BY Invariance, <1>1, PTL

\* What the manifest and the receipt say of a log is true.
THEOREM RecordsTrue == Spec => []RecordsAreTrue
  <1>1. ASSUME IInv PROVE RecordsAreTrue
    <2>1. \A status, l : Sound(status, l) => Truthful(status, l)
      BY DEF Sound, Truthful, Unsent
    <2>2. manifest # NoFile => \A l \in Logs : Truthful(manifest[l], l)
      BY <1>1, <2>1 DEF IInv, Service
    <2>3. ASSUME NEW p \in Collectors, Reported(p)
          PROVE  \A l \in Logs : Truthful(self[p].rows[l], l)
      BY <1>1, <2>1, <2>3 DEF IInv, Local, Frozen
    <2> QED BY <2>2, <2>3 DEF RecordsAreTrue, Reported
  <1> QED BY Invariance, <1>1, PTL

\* The byte budget covers abandoned downloads.
THEOREM BudgetHolds == Spec => []BudgetKept
  <1>1. IInv => BudgetKept
    BY DEF IInv, Local, Account, BudgetKept
  <1> QED BY Invariance, <1>1, PTL

\* One close request for a session known to be the command's own.
THEOREM ClosedOnce == Spec => []OwnedClosedOnce
  <1>1. IInv => OwnedClosedOnce
    BY DEF IInv, Local, Account, OwnedClosedOnce
  <1> QED BY Invariance, <1>1, PTL

\* Exit code 0 is never wrong.
THEOREM CompleteHolds == Spec => []CompleteMeansComplete
  <1>1. ASSUME IInv, NEW p \in Collectors, result[p] = "complete"
        PROVE  /\ manifest = self[p].rows
               /\ \A l \in Logs : manifest[l] \in Deliberate /\ (sent[l] > 0 => l \in saved)
               /\ session[p] # "open"
    <2>1. Frozen(p) /\ session[p] # "open"
      BY <1>1 DEF IInv, Local, Account, Reported
    <2>2. manifest = self[p].rows /\ \A l \in Logs : manifest[l] \in Deliberate
      BY <1>1, <2>1 DEF Frozen
    <2>3. ASSUME NEW l \in Logs, sent[l] > 0 PROVE l \in saved
      <3>1. Sound(manifest[l], l) /\ sent[l] # 0
        BY <1>1, <2>1, <2>3 DEF IInv, Service, Frozen
      <3>2. manifest[l] = "completed"
        BY <2>2, <3>1 DEF Sound, Unsent, Deliberate
      <3> QED BY <3>1, <3>2 DEF Sound
    <2> QED BY <2>1, <2>2, <2>3
  <1>2. IInv => CompleteMeansComplete
    BY <1>1 DEF CompleteMeansComplete
  <1> QED BY Invariance, <1>2, PTL
-----------------------------------------------------------------------------
(* The manifest implements SubmissionRecord.                               *)

\* A save that moves one entry forward.
LEMMA MoveForward ==
    ASSUME IInv, NEW rows \in [Logs -> Status], NEW l \in Logs, manifest # NoFile,
           manifest' = rows, UNCHANGED <<sent, job>>, rows # NoFile,
           \A x \in Logs : x # l => manifest[x] = rows[x],
           Sound(rows[l], l), Forward(manifest[l], rows[l], l)
    PROVE  [S!Next]_<<Entries, sent, Over>>
  <1>1. Over' = Over
    BY DEF Over
  <1>2. CASE manifest[l] = rows[l]
    <2>1. Entries' = Entries
      BY <1>2 DEF Entries
    <2> QED BY <1>1, <2>1
  <1>3. Sound(manifest[l], l) /\ sent[l] \in {0, 1}
    BY DEF IInv, Service
  <1>4. Entries[l] = Entry(manifest[l]) /\ Over[l] = IF job[l] \in {"succeeded", "failed"} THEN job[l] ELSE "no"
    BY DEF Entries, Over
  <1>5. Entries' = [Entries EXCEPT ![l] = Entry(rows[l])]
    BY DEF Entries
  <1>6. CASE manifest[l] = "outcome-unknown" /\ rows[l] = "accepted"
    <2>1. Entries[l] = "intended" /\ Entry(rows[l]) = "accepted" /\ sent[l] = 1
      BY <1>4, <1>6 DEF Entry, Sound
    <2>2. S!Accepted(l)
      BY <1>1, <1>5, <2>1 DEF S!Accepted, S!Record
    <2> QED BY <2>2 DEF S!Next
  <1>7. CASE manifest[l] = "outcome-unknown" /\ rows[l] = "failed" /\ sent[l] = 0
    <2>1. Entries[l] = "intended" /\ Entry(rows[l]) = "failed"
      BY <1>4, <1>7 DEF Entry
    <2>2. S!Rejected(l)
      BY <1>1, <1>5, <1>7, <2>1 DEF S!Rejected, S!Record
    <2> QED BY <2>2 DEF S!Next
  <1>8. CASE manifest[l] = "accepted" /\ rows[l] = "failed"
    <2>1. Entries[l] = "accepted" /\ Entry(rows[l]) = "failed" /\ Over[l] = "failed"
      BY <1>3, <1>4, <1>8 DEF Entry, Sound
    <2>2. S!Failed(l)
      BY <1>1, <1>5, <2>1 DEF S!Failed, S!Record
    <2> QED BY <2>2 DEF S!Next
  <1>9. CASE manifest[l] = "accepted" /\ rows[l] = "completed"
    <2>1. Entries[l] = "accepted" /\ Entry(rows[l]) = "completed" /\ Over[l] = "succeeded"
      BY <1>3, <1>4, <1>9 DEF Entry, Sound
    <2>2. S!Completed(l)
      BY <1>1, <1>5, <2>1 DEF S!Completed, S!Record
    <2> QED BY <2>2 DEF S!Next
  <1> QED BY <1>2, <1>6, <1>7, <1>8, <1>9 DEF Forward

LEMMA NoMove ==
    ASSUME UNCHANGED <<manifest, sent, job>>
    PROVE  [S!Next]_<<Entries, sent, Over>>
  BY DEF Entries, Over

\* The saves of the three notes.
LEMMA NoteMove ==
    ASSUME IInv, NEW p \in Collectors, pc[p] \in Notes, NEW outcome,
           Save(self[p].rows, outcome), UNCHANGED <<saved, service, counts>>
    PROVE  [S!Next]_<<Entries, sent, Over>>
  <1>1. PICK me : me = self[p]
    OBVIOUS
  <1>2. pc[p] \in Loop \ {"next"} /\ pc[p] \in Loop
    BY DEF Notes, Loop
  <1>3. /\ me.rows \in [Logs -> Status] /\ manifest # NoFile
        /\ \A l \in Logs : Sound(me.rows[l], l)
        /\ me.log \in Logs /\ Behind(me)
    BY <1>1, <1>2, InLoop DEF Fits
  <1>4. UNCHANGED <<sent, job>> /\ manifest' \in {manifest, me.rows} /\ me.rows # NoFile
    BY <1>1, <1>3, CollectionAssumption DEF Save, service
  <1>5. PICK l \in Logs : l = me.log
    BY <1>3
  <1>6. CASE manifest' = manifest
    BY <1>4, <1>6, NoMove
  <1>7. CASE manifest' = me.rows
    BY <1>3, <1>4, <1>5, <1>7, MoveForward DEF Behind
  <1> QED BY <1>4, <1>6, <1>7

LEMMA CreateMove ==
    ASSUME IInv, NEW p \in Collectors, NEW outcome, Create(p, outcome)
    PROVE  [S!Next]_<<Entries, sent, Over>>
  <1>1. pc[p] = "create" /\ pc[p] \in Inside
    BY DEF Create, Inside, Early
  <1>2. Fits(self[p], "create")
    BY <1>1, Known
  <1>3. manifest = NoFile /\ \A l \in Logs : self[p].rows[l] \in Unsent
    BY <1>2 DEF Fits, Early
  <1>4. UNCHANGED <<sent, job>> /\ manifest' \in {manifest, self[p].rows}
    BY DEF Create, Save, service
  <1>5. Entries = [l \in Logs |-> "none"]
    BY <1>3 DEF Entries
  <1>6. Entries' = [l \in Logs |-> "none"]
    BY <1>3, <1>4 DEF Entries, Entry, Unsent
  <1> QED BY <1>4, <1>5, <1>6 DEF Over

LEMMA IntendMove ==
    ASSUME IInv, NEW p \in Collectors, NEW l \in Logs, NEW outcome, Intend(p, l, outcome)
    PROVE  [S!Next]_<<Entries, sent, Over>>
  <1>1. PICK me : me = self[p]
    OBVIOUS
  <1>2. pc[p] = "next" /\ pc[p] \in Loop /\ ~me.stopped /\ me.rows[l] = "planned"
    BY <1>1 DEF Intend, Loop, Planned
  <1>3. me \in Collector /\ me.rows \in [Logs -> Status] /\ manifest = me.rows /\ Sound(me.rows[l], l)
        /\ manifest # NoFile
    BY <1>1, <1>2, InLoop DEF Fits
  <1>4. PICK rows \in [Logs -> Status] : rows = [me.rows EXCEPT ![l] = "outcome-unknown"]
    BY <1>3 DEF Status
  <1>5. With(me, l, "outcome-unknown").rows = rows
    <2>1. "outcome-unknown" \in Status
      BY DEF Status
    <2> QED
      BY <1>3, <1>4, <2>1, WithFacts
  <1>6. UNCHANGED <<sent, job>> /\ manifest' \in {manifest, rows} /\ rows # NoFile
    <2>1. Save(With(me, l, "outcome-unknown").rows, outcome) /\ UNCHANGED <<sent, job>>
      BY <1>1 DEF Intend, service
    <2>2. rows # NoFile
      BY <1>4, CollectionAssumption
    <2> QED
      BY <1>5, <2>1, <2>2 DEF Save
  <1>7. CASE manifest' = manifest
    BY <1>6, <1>7, NoMove
  <1>8. CASE manifest' = rows
    <2>1. Entries[l] = "none" /\ sent[l] = 0
      BY <1>2, <1>3 DEF Entries, Entry, Sound, Unsent
    <2>2. Entries' = [Entries EXCEPT ![l] = "intended"]
      BY <1>3, <1>4, <1>6, <1>8 DEF Entries, Entry
    <2>3. S!Intend(l)
      BY <1>6, <2>1, <2>2 DEF S!Intend, S!Record, Over
    <2> QED BY <2>3 DEF S!Next
  <1> QED BY <1>6, <1>7, <1>8

LEMMA OverBudgetMove ==
    ASSUME IInv, NEW p \in Collectors, NEW l \in Logs, NEW outcome, OverBudget(p, l, outcome)
    PROVE  [S!Next]_<<Entries, sent, Over>>
  <1>1. pc[p] = "next" /\ pc[p] \in Loop /\ ~self[p].stopped
    BY DEF OverBudget, Loop
  <1>2. manifest = self[p].rows
    BY <1>1, InLoop DEF Fits
  <1> QED BY <1>2, NoMove DEF OverBudget, Save, service

LEMMA SendMove ==
    ASSUME IInv, NEW p \in Collectors, Send(p)
    PROVE  [S!Next]_<<Entries, sent, Over>>
  <1>1. PICK me : me = self[p]
    OBVIOUS
  <1>2. pc[p] = "send" /\ pc[p] \in Loop /\ "send" \in Loop \ {"next"} /\ UNCHANGED manifest
    BY DEF Send, Loop, disk
  <1>3. /\ me.log \in Logs /\ manifest = me.rows /\ me.rows[me.log] = "outcome-unknown"
        /\ sent[me.log] = 0 /\ manifest # NoFile
    BY <1>1, <1>2, InLoop DEF Fits
  <1>4. PICK l \in Logs : l = me.log
    BY <1>3
  <1>5. CASE NotTaken
    BY <1>2, <1>5, NoMove DEF NotTaken
  <1>6. CASE Taken(l)
    <2>1. Entries[l] = "intended" /\ sent[l] = 0 /\ job[l] = "none"
      BY <1>3, <1>4 DEF Entries, Entry, IInv, Service
    <2>2. Entries' = Entries /\ sent' = [sent EXCEPT ![l] = 1]
      BY <1>2, <1>6, <2>1 DEF Entries, Taken
    <2>3. Over' = Over
      BY <1>6, <2>1 DEF Over, Taken, IInv, TypeOK
    <2>4. S!Submit(l)
      BY <2>1, <2>2, <2>3 DEF S!Submit
    <2> QED BY <2>4 DEF S!Next
  <1> QED BY <1>1, <1>4, <1>5, <1>6 DEF Send

LEMMA JobEndsMove ==
    ASSUME IInv, NEW l \in Logs, JobEnds(l)
    PROVE  [S!Next]_<<Entries, sent, Over>>
  <1>1. PICK how \in {"succeeded", "failed"} : job' = [job EXCEPT ![l] = how]
    BY DEF JobEnds
  <1>2. sent[l] = 1 /\ Over[l] = "no" /\ UNCHANGED <<manifest, sent>>
    BY DEF JobEnds, Over, IInv, Service, disk
  <1>3. Entries' = Entries
    BY <1>2 DEF Entries
  <1>4. Over' = [Over EXCEPT ![l] = how]
    BY <1>1 DEF Over, IInv, TypeOK
  <1>5. S!JobEnds(l, how)
    BY <1>2, <1>3, <1>4 DEF S!JobEnds
  <1> QED BY <1>1, <1>5 DEF S!Next

\* Every step of the collections is a step of the record, or leaves it alone.
LEMMA StepMoves ==
    ASSUME IInv, [Next]_vars
    PROVE  [S!Next]_<<Entries, sent, Over>>
  <1>1. ASSUME NEW p \in Collectors, NEW outcome,
               \/ NoteRefused(p, outcome) \/ NoteAccepted(p, outcome)
               \/ NoteFollowed(p, outcome) \/ NoteError(p, outcome)
        PROVE  [S!Next]_<<Entries, sent, Over>>
    <2>1. /\ pc[p] \in Notes /\ Save(self[p].rows, outcome)
          /\ UNCHANGED <<saved, service, counts>>
      BY <1>1 DEF NoteRefused, NoteAccepted, NoteFollowed, NoteError, Notes
    <2> QED BY <2>1, NoteMove
  <1>2. ASSUME NEW p \in Collectors,
               \/ Prepare(p) \/ Claim(p) \/ Open(p) \/ Survey(p) \/ Finish(p) \/ Follow(p)
               \/ Download(p) \/ Close(p) \/ Report(p) \/ Interrupt(p) \/ Crash(p)
        PROVE  [S!Next]_<<Entries, sent, Over>>
    <2>1. UNCHANGED <<manifest, sent, job>>
      BY <1>2 DEF Prepare, Claim, Open, Survey, Finish, Follow, Download, Close, Report,
                  Interrupt, Crash, disk, service
    <2> QED BY <2>1, NoMove
  <1>3. CASE UNCHANGED vars
    BY <1>3, NoMove DEF vars
  <1> QED BY <1>1, <1>2, <1>3, CreateMove, IntendMove, OverBudgetMove, SendMove, JobEndsMove
          DEF Next, Step

\* The collections into a directory implement the record of their submissions.
THEOREM RecordImplemented == Spec => ImplementsRecord
  <1>1. Init => S!Init
    BY DEF Init, S!Init, Entries, Over
  <1> QED BY Invariance, <1>1, StepMoves, PTL DEF Spec, ImplementsRecord, S!Spec
=============================================================================
