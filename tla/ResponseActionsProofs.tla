------------------------ MODULE ResponseActionsProofs ------------------------
(***************************************************************************)
(* Theorems about ResponseActions, for every number of processes, devices, *)
(* tags, requests and edits, and every choice of faults.                   *)
(***************************************************************************)
EXTENDS ResponseActions, TLAPS

-----------------------------------------------------------------------------
(* The inductive invariant.                                                *)

TagOps == {"set", "add", "remove"}

\* Which commands come to which label.
Doing(l, op) ==
    /\ l \in {"current", "fresh", "verify"} => op \in TagOps
    /\ l = "context" => op \in {"submit", "investigate"}
    /\ l \in {"device", "latest"} => op = "submit"
    /\ l \in {"before", "after"} => op = "cancel"
    /\ l = "status" => op = "status"
    /\ l = "note" => op \in {"submit", "cancel", "status"}
    /\ l = "write" => op \notin {"none", "status", "incident"}
    /\ l \in {"patch", "get", "comment"} <=> op = "incident" /\ l # "idle"

\* Before the first request that changes something.
Harmless == {"current", "fresh", "context", "device", "latest", "before", "write", "status",
             "patch", "get"}

\* What the service has done for a command that is under way.
Progressed(l, t) ==
    /\ l # "idle" => t.says = "-"
    /\ l \in Harmless => t.done = {}
    /\ l \in {"verify", "after"} => t.done = {"write"}
    /\ l = "note" => IF t.op # "status" /\ t.then = "accepted" THEN t.done = {"write"}
                     ELSE t.done = {} /\ t.op # "submit"
    /\ l = "comment" => "comment" \in t.parts /\ t.done = t.parts \ {"comment"}
    /\ l = "patch" => "write" \in t.parts
    /\ l = "get" => t.parts = {"comment"}
    /\ l # "idle" /\ t.op # "incident" => t.parts = {"write"}

\* The action a command is about, which exists, and whose device is known once it is noted.
Named(rows, l, t) ==
    /\ l # "idle" /\ t.op = "submit" => t.dev \in Devices /\ t.kind \in AllKinds
    /\ l \in {"before", "after", "status", "note"} \/ (l = "write" /\ t.op = "cancel") =>
          t.id \in 1..Len(rows)
    /\ l = "note" => /\ rows[t.id].dev = t.dev
                     /\ t.then \in {"write", "nothing", "accepted"}
                     /\ t.then = "write" => t.op = "cancel"

\* The tags replaced are those expected.
Compared(l, t) == l = "write" /\ t.op \in TagOps /\ ~t.official => t.fresh = t.base

\* What ClaimsAreTrue says of one command.
Truthful(t, says) ==
    /\ says = "nothing" => t.done = {}
    /\ says = "accepted" /\ t.op # "status" => t.parts \subseteq t.done
    /\ says = "partial" => "write" \in t.done
    /\ says = "retry" => /\ "comment" \notin t.done
                         /\ Creating(t) => t.done = {} \/ OfficialAction(t)

Sound(p) ==
    /\ Doing(pc[p], task[p].op)
    /\ Progressed(pc[p], task[p])
    /\ Named(requests, pc[p], task[p])
    /\ Compared(pc[p], task[p])
    /\ Truthful(task[p], task[p].says)

Inv ==
    /\ TypeOK
    /\ AssociationIsTrue
    /\ \A p \in Procs : Sound(p)

-----------------------------------------------------------------------------
(* Types.                                                                  *)

LEMMA NoTaskTyped == NoTask \in Tasks
  BY DEF NoTask, Tasks, Ops, Says

LEMMA EndedTyped == \A t \in Tasks, says \in Says : Ended(t, says) \in Tasks
  <1> SUFFICES ASSUME NEW t \in Tasks, NEW says \in Says
               PROVE  Ended(t, says) \in Tasks
    OBVIOUS
  <1>1. t.op \in Ops /\ t.official \in BOOLEAN /\ t.parts \in SUBSET {"write", "comment"}
        /\ t.done \in SUBSET {"write", "comment"}
    BY DEF Tasks
  <1> QED
    BY <1>1, NoTaskTyped DEF Ended, Tasks

LEMMA DoneTyped == \A t \in Tasks : Done(t) \in Tasks
  BY DEF Done, Tasks

LEMMA InitTyped == Init => TypeOK
  BY ActionAssumption, NoTaskTyped DEF Init, TypeOK, Labels

-----------------------------------------------------------------------------
(* Steps.                                                                  *)

\* Actions are added, and keep their devices.
Grows ==
    /\ requests' \in Seq(Requests) /\ Len(requests') <= MaxRequests
    /\ Len(requests) <= Len(requests')
    /\ \A i \in 1..Len(requests) : requests'[i].dev = requests[i].dev

\* What a step leaves true of everything but the processes.
Framed ==
    /\ tags' \subseteq Tags /\ Grows
    /\ association' \in [Ids -> Devices \cup {None}] /\ AssociationIsTrue'
    /\ ops' \in 0..MaxOps /\ edits' \in 0..MaxEdits

LEMMA GrowsFramed ==
    ASSUME Inv, tags' \subseteq Tags, Grows, association' = association,
           ops' \in 0..MaxOps, edits' \in 0..MaxEdits
    PROVE  Framed
  BY DEF Inv, TypeOK, AssociationIsTrue, Grows, Framed, Ids

LEMMA StaysFramed ==
    ASSUME Inv, UNCHANGED <<service, association>>, ops' \in 0..MaxOps, edits' \in 0..MaxEdits
    PROVE  Framed
  <1>1. Grows
    BY DEF Inv, TypeOK, Grows, service
  <1> QED
    BY <1>1, GrowsFramed DEF Inv, TypeOK, service

LEMMA UnchangedFramed == Inv /\ Unchanged => Framed
  BY StaysFramed DEF Inv, TypeOK, Unchanged, bounds

\* A process moves alone.
LEMMA OneMoves ==
    ASSUME Inv, NEW p \in Procs, NEW l \in Labels, NEW t \in Tasks, Goto(p, l, t), Framed,
           Doing(l, t.op), Progressed(l, t), Named(requests', l, t), Compared(l, t),
           Truthful(t, t.says)
    PROVE  Inv'
  <1>1. /\ pc' \in [Procs -> Labels] /\ task' \in [Procs -> Tasks]
        /\ pc' = [pc EXCEPT ![p] = l] /\ task' = [task EXCEPT ![p] = t]
    BY DEF Inv, TypeOK, Goto
  <1>2. TypeOK' /\ AssociationIsTrue'
    BY <1>1 DEF Framed, Grows, TypeOK
  <1>3. Sound(p)'
    BY <1>1 DEF Inv, TypeOK, Sound, Named, Progressed, Compared, Truthful, Doing, Creating,
                OfficialAction
  <1>4. ASSUME NEW q \in Procs, q # p PROVE Sound(q)'
    <2>1. pc'[q] = pc[q] /\ task'[q] = task[q] /\ Sound(q) /\ requests \in Seq(Requests)
      BY <1>1, <1>4 DEF Inv, TypeOK
    <2>2. Named(requests', pc[q], task[q])
      BY <2>1 DEF Sound, Named, Framed, Grows
    <2> QED
      BY <2>1, <2>2 DEF Sound, Named, Progressed, Compared, Truthful, Doing, Creating,
                        OfficialAction
  <1> QED
    BY <1>2, <1>3, <1>4 DEF Inv

\* A process is done with a command.
LEMMA OneEnds ==
    ASSUME Inv, NEW p \in Procs, NEW t \in Tasks, NEW says \in Says, End(p, t, says), Framed,
           Truthful(t, says)
    PROVE  Inv'
  <1>1. /\ Ended(t, says) \in Tasks /\ Ended(t, says).says = says /\ Ended(t, says).op = t.op
        /\ Ended(t, says).done = t.done /\ Ended(t, says).parts = t.parts
        /\ Ended(t, says).official = t.official
    BY EndedTyped DEF Ended, NoTask
  <1>2. Truthful(Ended(t, says), Ended(t, says).says)
    BY <1>1 DEF Truthful, Creating, OfficialAction
  <1>3. "idle" \in Labels /\ Goto(p, "idle", Ended(t, says))
    BY DEF Labels, End
  <1>4. /\ Doing("idle", Ended(t, says).op) /\ Progressed("idle", Ended(t, says))
        /\ Named(requests', "idle", Ended(t, says)) /\ Compared("idle", Ended(t, says))
    BY DEF Doing, Progressed, Named, Compared, Harmless
  <1> QED
    BY <1>1, <1>2, <1>3, <1>4, OneMoves

\* A command begins.
LEMMA OneStarts ==
    ASSUME Inv, NEW p \in Procs, NEW l \in Labels, NEW t \in Tasks, Start(p, l, t),
           t.done = {}, t.says = "-", t.op # "incident" => t.parts = {"write"},
           l \in Harmless, Doing(l, t.op), Progressed(l, t), Named(requests, l, t), Compared(l, t)
    PROVE  Inv'
  <1>1. ops' \in 0..MaxOps /\ edits' \in 0..MaxEdits /\ requests' = requests /\ Goto(p, l, t)
    BY ActionAssumption DEF Start, Inv, TypeOK, service
  <1>2. Framed
    BY <1>1, StaysFramed DEF Start
  <1>3. Truthful(t, t.says)
    BY DEF Truthful
  <1> QED
    BY <1>1, <1>2, <1>3, OneMoves

LEMMA CommandStep ==
    ASSUME Inv, NEW p \in Procs, Command(p)
    PROVE  Inv'
  <1> USE DEF Labels, Harmless, Doing, Progressed, Named, Compared, TagOps
  <1>1. CASE SetTags(p)
    <2>1. PICK want \in SUBSET Tags, base \in SUBSET Tags :
             Start(p, "fresh", [NoTask EXCEPT !.op = "set", !.want = want, !.base = base])
      BY <1>1 DEF SetTags
    <2> DEFINE t == [NoTask EXCEPT !.op = "set", !.want = want, !.base = base]
    <2>2. t \in Tasks
      BY NoTaskTyped DEF NoTask, Tasks, Ops
    <2>3. t.op = "set" /\ t.done = {} /\ t.says = "-" /\ t.parts = {"write"}
      BY DEF NoTask
    <2> QED
      BY <2>1, <2>2, <2>3, OneStarts
  <1>2. CASE UpdateTag(p)
    <2>1. PICK op \in {"add", "remove"}, tag \in Tags, official \in BOOLEAN :
             Start(p, IF official THEN "write" ELSE "current",
                   [NoTask EXCEPT !.op = op, !.want = {tag}, !.official = official])
      BY <1>2 DEF UpdateTag
    <2> DEFINE t == [NoTask EXCEPT !.op = op, !.want = {tag}, !.official = official]
    <2>2. t \in Tasks
      BY NoTaskTyped DEF NoTask, Tasks, Ops
    <2>3. t.op = op /\ t.done = {} /\ t.says = "-" /\ t.parts = {"write"} /\ t.official = official
      BY DEF NoTask
    <2> HIDE DEF t
    <2> QED
      BY <2>1, <2>2, <2>3, OneStarts DEF t
  <1>3. CASE Submit(p)
    <2>1. PICK kind \in Kinds, dev \in Devices, official \in BOOLEAN :
             Start(p, IF official THEN "write" ELSE IF kind = "logs" THEN "context" ELSE "device",
                   [NoTask EXCEPT !.op = "submit", !.kind = kind, !.dev = dev,
                                  !.official = official])
      BY <1>3 DEF Submit
    <2> DEFINE t == [NoTask EXCEPT !.op = "submit", !.kind = kind, !.dev = dev,
                                   !.official = official]
    <2>2. kind \in AllKinds
      BY ActionAssumption
    <2>3. t \in Tasks
      BY <2>2, NoTaskTyped DEF NoTask, Tasks, Ops
    <2>4. t.op = "submit" /\ t.done = {} /\ t.says = "-" /\ t.parts = {"write"}
          /\ t.dev = dev /\ t.kind = kind
      BY DEF NoTask
    <2> QED
      BY <2>1, <2>2, <2>3, <2>4, OneStarts
  <1>4. CASE Cancel(p)
    <2>1. PICK id \in DOMAIN requests, dev \in Devices :
             Start(p, "before", [NoTask EXCEPT !.op = "cancel", !.id = id, !.dev = dev])
      BY <1>4 DEF Cancel
    <2> DEFINE t == [NoTask EXCEPT !.op = "cancel", !.id = id, !.dev = dev]
    <2>2. id \in 1..Len(requests) /\ id \in Nat
      BY DEF Inv, TypeOK
    <2>3. t \in Tasks
      BY <2>2, NoTaskTyped DEF NoTask, Tasks, Ops
    <2>4. t.op = "cancel" /\ t.done = {} /\ t.says = "-" /\ t.parts = {"write"} /\ t.id = id
      BY DEF NoTask
    <2> QED
      BY <2>1, <2>2, <2>3, <2>4, OneStarts
  <1>5. CASE AskStatus(p)
    <2>1. PICK id \in DOMAIN requests, dev \in Devices \cup {None} :
             Start(p, "status", [NoTask EXCEPT !.op = "status", !.id = id,
                                 !.dev = IF dev = None THEN association[id] ELSE dev])
      BY <1>5 DEF AskStatus
    <2>2. id \in 1..Len(requests) /\ id \in Nat /\ id \in Ids
      BY ActionAssumption DEF Inv, TypeOK, Ids
    <2>3. PICK d \in Devices \cup {None} : d = IF dev = None THEN association[id] ELSE dev
      BY <2>2 DEF Inv, TypeOK
    <2> DEFINE t == [NoTask EXCEPT !.op = "status", !.id = id, !.dev = d]
    <2>4. t \in Tasks
      BY <2>2, NoTaskTyped DEF NoTask, Tasks, Ops
    <2>5. t.op = "status" /\ t.done = {} /\ t.says = "-" /\ t.parts = {"write"} /\ t.id = id
      BY DEF NoTask
    <2>6. Start(p, "status", t)
      BY <2>1, <2>3
    <2> QED
      BY <2>2, <2>4, <2>5, <2>6, OneStarts
  <1>6. CASE Investigate(p)
    <2>1. PICK official \in BOOLEAN :
             Start(p, IF official THEN "write" ELSE "context",
                   [NoTask EXCEPT !.op = "investigate", !.official = official])
      BY <1>6 DEF Investigate
    <2> DEFINE t == [NoTask EXCEPT !.op = "investigate", !.official = official]
    <2>2. t \in Tasks
      BY NoTaskTyped DEF NoTask, Tasks, Ops
    <2>3. t.op = "investigate" /\ t.done = {} /\ t.says = "-" /\ t.parts = {"write"}
      BY DEF NoTask
    <2> QED
      BY <2>1, <2>2, <2>3, OneStarts
  <1>7. CASE UpdateIncident(p)
    <2>1. PICK parts \in (SUBSET {"write", "comment"}) \ {{}}, official \in BOOLEAN :
             Start(p, IF "write" \in parts THEN "patch" ELSE "get",
                   [NoTask EXCEPT !.op = "incident", !.parts = parts, !.official = official])
      BY <1>7 DEF UpdateIncident
    <2> DEFINE t == [NoTask EXCEPT !.op = "incident", !.parts = parts, !.official = official]
    <2>2. t \in Tasks
      BY NoTaskTyped DEF NoTask, Tasks, Ops
    <2>3. t.op = "incident" /\ t.done = {} /\ t.says = "-" /\ t.parts = parts
      BY DEF NoTask
    <2>4. "write" \notin parts => parts = {"comment"}
      <3>1. parts # {} /\ parts \subseteq {"write", "comment"}
        OBVIOUS
      <3>2. PICK x : x \in parts
        BY <3>1
      <3> QED
        BY <3>1, <3>2
    <2> QED
      BY <2>1, <2>2, <2>3, <2>4, OneStarts
  <1> QED
    BY <1>1, <1>2, <1>3, <1>4, <1>5, <1>6, <1>7 DEF Command

\* What is known of the command a process is at.
LEMMA Here ==
    ASSUME Inv, NEW p \in Procs
    PROVE  /\ task[p] \in Tasks /\ pc[p] \in Labels /\ Sound(p) /\ tags \subseteq Tags
           /\ requests \in Seq(Requests)
  BY DEF Inv, TypeOK

\* A reading that fails, or ends the command.
LEMMA ReadingEnds ==
    ASSUME Inv, NEW p \in Procs, NEW t \in Tasks, NEW says \in Says, End(p, t, says), Unchanged,
           Truthful(t, says)
    PROVE  Inv'
  BY UnchangedFramed, OneEnds

LEMMA ReadingGoesOn ==
    ASSUME Inv, NEW p \in Procs, NEW l \in Labels, NEW t \in Tasks, Goto(p, l, t), Unchanged,
           Doing(l, t.op), Progressed(l, t), Named(requests, l, t), Compared(l, t), t.says = "-"
    PROVE  Inv'
  <1>1. requests' = requests /\ Truthful(t, t.says)
    BY DEF Unchanged, service, Truthful
  <1> QED
    BY <1>1, UnchangedFramed, OneMoves

LEMMA ReadStep ==
    ASSUME Inv, NEW p \in Procs,
           ReadCurrent(p) \/ ReadFresh(p) \/ ReadContext(p) \/ ReadDevice(p) \/ ReadLatest(p)
             \/ Verify(p) \/ Get(p) \/ ReadFails(p)
    PROVE  Inv'
  <1> DEFINE t == task[p]
  <1>1. t \in Tasks /\ Sound(p) /\ tags \subseteq Tags
    BY Here
  <1>2. CASE ReadCurrent(p)
    <2>1. PICK want \in SUBSET Tags : Goto(p, "fresh", [t EXCEPT !.want = want, !.base = tags])
      BY <1>1, <1>2 DEF ReadCurrent, Tasks
    <2> DEFINE u == [t EXCEPT !.want = want, !.base = tags]
    <2>2. u \in Tasks
      BY <1>1 DEF Tasks
    <2>3. u.op = t.op /\ u.done = t.done /\ u.says = t.says /\ u.parts = t.parts
      BY <1>1 DEF Tasks
    <2>4. pc[p] = "current" /\ Unchanged
      BY <1>2 DEF ReadCurrent, At
    <2> HIDE DEF u
    <2>5. Goto(p, "fresh", u)
      BY <2>1 DEF u
    <2> QED
      BY <1>1, <2>2, <2>3, <2>4, <2>5, ReadingGoesOn
      DEF Sound, Labels, Doing, Progressed, Named, Compared, Harmless, TagOps
  <1>3. CASE ReadFresh(p)
    <2> DEFINE u == [t EXCEPT !.fresh = tags]
    <2>1. /\ u \in Tasks /\ u.fresh = tags /\ u.base = t.base /\ u.op = t.op /\ u.done = t.done
          /\ u.says = t.says /\ u.parts = t.parts /\ u.official = t.official
      BY <1>1 DEF Tasks
    <2>2. pc[p] = "fresh" /\ Unchanged
      BY <1>3 DEF ReadFresh, At
    <2>3. End(p, u, "nothing") \/ (tags = t.base /\ Goto(p, "write", u))
      BY <1>3 DEF ReadFresh
    <2> HIDE DEF u
    <2>4. CASE End(p, u, "nothing")
      <3>1. Truthful(u, "nothing") /\ "nothing" \in Says
        BY <1>1, <2>1, <2>2 DEF Sound, Progressed, Harmless, Truthful, Says
      <3> QED
        BY <2>1, <2>2, <2>4, <3>1, ReadingEnds
    <2>5. CASE tags = t.base /\ Goto(p, "write", u)
      BY <1>1, <2>1, <2>2, <2>5, ReadingGoesOn
      DEF Sound, Labels, Doing, Progressed, Named, Compared, Harmless, TagOps
    <2> QED
      BY <2>3, <2>4, <2>5
  <1>4. CASE ReadContext(p) \/ ReadDevice(p) \/ ReadLatest(p)
    <2>1. pc[p] \in {"context", "device", "latest"} /\ Unchanged
      BY <1>4 DEF ReadContext, ReadDevice, ReadLatest, At
    <2>2. \/ End(p, t, "nothing")
          \/ pc[p] = "context" /\ t.op # "investigate" /\ Goto(p, "device", t)
          \/ pc[p] = "device" /\ Goto(p, "latest", t)
          \/ Goto(p, "write", t)
      BY <1>4 DEF ReadContext, ReadDevice, ReadLatest, At
    <2>3. CASE End(p, t, "nothing")
      <3>1. Truthful(t, "nothing") /\ "nothing" \in Says
        BY <1>1, <2>1 DEF Sound, Progressed, Harmless, Truthful, Says
      <3> QED
        BY <1>1, <2>1, <2>3, <3>1, ReadingEnds
    <2>4. CASE \E l \in {"device", "latest", "write"} :
                  Goto(p, l, t) /\ (l = "device" => t.op # "investigate")
                               /\ (l = "latest" => pc[p] = "device")
      BY <1>1, <2>1, <2>4, ReadingGoesOn
      DEF Sound, Labels, Doing, Progressed, Named, Compared, Harmless, TagOps
    <2> QED
      BY <2>2, <2>3, <2>4
  <1>5. CASE Verify(p)
    <2>1. PICK says \in {"accepted", "error"} : End(p, t, says)
      BY <1>5 DEF Verify
    <2>2. pc[p] = "verify" /\ Unchanged
      BY <1>5 DEF Verify, At
    <2>3. Truthful(t, says) /\ says \in Says
      BY <1>1, <2>2 DEF Sound, Doing, Progressed, Truthful, Says, TagOps
    <2> QED
      BY <1>1, <2>1, <2>2, <2>3, ReadingEnds
  <1>6. CASE Get(p)
    <2>1. pc[p] = "get" /\ Unchanged /\ Goto(p, "comment", t)
      BY <1>1, <1>6 DEF Get, At, AfterFields, Sound, Progressed
    <2> QED
      BY <1>1, <2>1, ReadingGoesOn
      DEF Sound, Labels, Doing, Progressed, Named, Compared, Harmless, TagOps
  <1>7. CASE ReadFails(p)
    <2>1. PICK says \in {"retry", "error"} : End(p, t, says)
      BY <1>7 DEF ReadFails
    <2>2. pc[p] \in Reading /\ Unchanged
      BY <1>7 DEF ReadFails, Unchanged
    <2>3. Truthful(t, says) /\ says \in Says
      BY <1>1, <2>2 DEF Sound, Doing, Progressed, Harmless, Reading, Truthful, Creating,
                        OfficialAction, Says, TagOps
    <2> QED
      BY <1>1, <2>1, <2>2, <2>3, ReadingEnds
  <1> QED
    BY <1>2, <1>3, <1>4, <1>5, <1>6, <1>7

LEMMA StatusStep ==
    ASSUME Inv, NEW p \in Procs, ReadBefore(p) \/ ReadAfter(p) \/ ShowStatus(p)
    PROVE  Inv'
  <1> DEFINE t == task[p]
  <1>1. t \in Tasks /\ Sound(p) /\ requests \in Seq(Requests)
    BY Here
  <1>2. PICK then \in {"write", "nothing", "accepted"} :
           /\ \/ pc[p] = "before" /\ then # "accepted"
              \/ pc[p] \in {"after", "status"} /\ then = "accepted"
           /\ (Matches(t.id, t.dev) /\ Remember(p, t, then)) \/ End(p, t, "error")
           /\ Unchanged
    BY DEF ReadBefore, ReadAfter, ShowStatus, ReadStatus, At
  <1>3. t.id \in 1..Len(requests) /\ t.id \in Ids
    BY <1>1, <1>2, ActionAssumption DEF Sound, Named, Inv, TypeOK, Ids
  <1>4. CASE End(p, t, "error")
    <2>1. Truthful(t, "error") /\ "error" \in Says
      BY DEF Truthful, Says
    <2> QED
      BY <1>1, <1>2, <1>4, <2>1, ReadingEnds
  <1>5. CASE Matches(t.id, t.dev) /\ Remember(p, t, then)
    <2>1. PICK seen \in Devices \cup {None} : seen = association[t.id]
      BY <1>3 DEF Inv, TypeOK
    <2> DEFINE u == [t EXCEPT !.seen = seen, !.then = then]
    <2>2. /\ u \in Tasks /\ u.then = then /\ u.op = t.op /\ u.done = t.done /\ u.says = t.says
          /\ u.parts = t.parts /\ u.id = t.id /\ u.dev = t.dev
      <3>1. u = [t EXCEPT !.seen = seen, !.then = then]
        OBVIOUS
      <3>2. then \in {"-", "write"} \cup Says
        BY DEF Says
      <3> HIDE DEF u, t
      <3> QED
        BY <1>1, <2>1, <3>1, <3>2 DEF Tasks
    <2>3. Goto(p, "note", u) /\ requests[t.id].dev = t.dev
      BY <1>5, <2>1 DEF Remember, Matches
    <2> HIDE DEF u
    <2> QED
      BY <1>1, <1>2, <1>3, <2>2, <2>3, ReadingGoesOn
      DEF Sound, Labels, Doing, Progressed, Named, Compared, Harmless, TagOps
  <1> QED
    BY <1>2, <1>4, <1>5

\* The file may get the device, of which the action is.
LEMMA NoteStep ==
    ASSUME Inv, NEW p \in Procs, WriteAssociation(p)
    PROVE  Inv'
  <1> DEFINE t == task[p]
  <1>1. t \in Tasks /\ Sound(p) /\ requests \in Seq(Requests) /\ pc[p] = "note"
    BY Here DEF WriteAssociation, At
  <1>2. t.id \in 1..Len(requests) /\ t.id \in Ids /\ requests[t.id].dev = t.dev /\ t.dev \in Devices
    <2>1. t.id \in 1..Len(requests) /\ requests[t.id].dev = t.dev
      BY <1>1 DEF Sound, Named
    <2>2. Len(requests) <= MaxRequests /\ requests[t.id] \in Requests
      BY <1>1, <2>1 DEF Inv, TypeOK
    <2> QED
      BY <1>1, <2>1, <2>2, ActionAssumption DEF Ids, Requests
  <1>3. /\ UNCHANGED <<tags, requests, ops, edits>>
        /\ association' = association \/ association' = [association EXCEPT ![t.id] = t.dev]
    BY DEF WriteAssociation, service, bounds
  <1>4. association' \in [Ids -> Devices \cup {None}] /\ AssociationIsTrue'
    BY <1>2, <1>3 DEF Inv, TypeOK, AssociationIsTrue
  <1>5. Framed
    BY <1>1, <1>3, <1>4 DEF Framed, Grows, Inv, TypeOK
  <1>6. CASE t.then = "write"
    <2>1. Goto(p, "write", t)
      BY <1>6 DEF WriteAssociation
    <2>2. /\ Doing("write", t.op) /\ Progressed("write", t) /\ Named(requests', "write", t)
          /\ Compared("write", t) /\ Truthful(t, t.says)
      BY <1>1, <1>3, <1>6
      DEF Sound, Doing, Progressed, Named, Compared, Harmless, TagOps
    <2> QED
      BY <1>1, <1>5, <2>1, <2>2, OneMoves DEF Labels
  <1>7. CASE t.then # "write"
    <2>1. End(p, t, t.then) /\ t.then \in Says
      BY <1>1, <1>7 DEF WriteAssociation, Sound, Named, Says
    <2>2. Truthful(t, t.then)
      BY <1>1, <1>7 DEF Sound, Doing, Progressed, Named, Truthful
    <2> QED
      BY <1>1, <1>5, <2>1, <2>2, OneEnds
  <1> QED
    BY <1>6, <1>7

\* The state of an action changes, and nothing else of it.
LEMMA StatusChanges ==
    ASSUME requests \in Seq(Requests), NEW i,
           NEW status \in {"Pending", "Succeeded", "Failed", "Cancelled", "Expired"}
    PROVE  /\ WithStatus(i, status) \in Seq(Requests)
           /\ Len(WithStatus(i, status)) = Len(requests)
           /\ \A k \in 1..Len(requests) : WithStatus(i, status)[k].dev = requests[k].dev
  <1> DEFINE new == WithStatus(i, status)
  <1>1. \A k \in 1..Len(requests) : requests[k] \in Requests
    OBVIOUS
  <1>2. \A k \in 1..Len(requests) :
           new[k] = IF k = i THEN [requests[k] EXCEPT !.status = status] ELSE requests[k]
    BY DEF WithStatus
  <1>3. \A k \in 1..Len(requests) : new[k].dev = requests[k].dev
    BY <1>1, <1>2 DEF Requests
  <1>4. requests \in [1..Len(requests) -> Requests] /\ Len(requests) \in Nat
    OBVIOUS
  <1>5. new \in [1..Len(requests) -> Requests]
    <2>1. i \in 1..Len(requests) => [requests[i] EXCEPT !.status = status] \in Requests
      BY <1>1 DEF Requests
    <2> QED
      BY <1>4, <2>1 DEF WithStatus
  <1> HIDE DEF new
  <1>6. new \in Seq(Requests) /\ Len(new) = Len(requests)
    BY <1>4, <1>5
  <1> QED
    BY <1>3, <1>6 DEF new

\* What a request does at the service leaves all actions there and their devices.
LEMMA TakeGrows ==
    ASSUME Inv, NEW p \in Procs, At(p, "write"), Take(task[p]) \/ UNCHANGED service
    PROVE  /\ tags' \subseteq Tags /\ Grows
           /\ Take(task[p]) /\ task[p].op = "submit" =>
                 /\ Len(requests') = New /\ requests'[New].dev = task[p].dev
  <1> DEFINE t == task[p]
  <1>1. /\ t \in Tasks /\ Sound(p) /\ tags \subseteq Tags /\ requests \in Seq(Requests)
        /\ Len(requests) <= MaxRequests /\ pc[p] = "write"
    BY Here DEF At, Inv, TypeOK
  <1>2. t.want \subseteq Tags /\ t.op \in Ops
    BY <1>1 DEF Tasks
  <1>3. CASE UNCHANGED requests /\ t.op # "submit" /\ Take(t)
    <2>1. tags' \subseteq Tags
      BY <1>1, <1>2, <1>3 DEF Take, service
    <2> QED
      BY <1>1, <1>3, <2>1 DEF Grows
  <1>4. CASE UNCHANGED service
    BY <1>1, <1>4 DEF service, Grows, Take
  <1>5. CASE t.op = "submit" /\ Take(t)
    <2>1. /\ Len(requests) < MaxRequests /\ UNCHANGED tags
          /\ requests' = Append(requests, [dev |-> t.dev, kind |-> t.kind, status |-> "Pending"])
      BY <1>5 DEF Take
    <2>2. [dev |-> t.dev, kind |-> t.kind, status |-> "Pending"] \in Requests
      BY <1>1, <1>5 DEF Sound, Named, Requests
    <2> QED
      BY <1>1, <2>1, <2>2, ActionAssumption DEF Grows, New
  <1>6. CASE t.op = "cancel" /\ Take(t)
    <2>1. /\ UNCHANGED tags
          /\ requests' = requests \/ requests' = WithStatus(t.id, "Cancelled")
      BY <1>6 DEF Take
    <2>2. CASE requests' = requests
      BY <1>1, <1>6, <2>1, <2>2 DEF Grows
    <2>3. CASE requests' = WithStatus(t.id, "Cancelled")
      <3>1. requests' \in Seq(Requests) /\ Len(requests') = Len(requests)
            /\ \A k \in 1..Len(requests) : requests'[k].dev = requests[k].dev
        BY <1>1, <2>3, StatusChanges
      <3> QED
        BY <1>1, <1>6, <2>1, <3>1 DEF Grows
    <2> QED
      BY <2>1, <2>2, <2>3
  <1>7. Take(t) => UNCHANGED requests \/ t.op \in {"submit", "cancel"}
    BY DEF Take, service
  <1> QED
    BY <1>3, <1>4, <1>5, <1>6, <1>7

\* What the command is once the service has taken its request.
LEMMA DoneIs ==
    ASSUME NEW t \in Tasks
    PROVE  /\ Done(t) \in Tasks /\ Done(t).done = t.done \cup {"write"}
           /\ Done(t).op = t.op /\ Done(t).says = t.says /\ Done(t).parts = t.parts
           /\ Done(t).official = t.official /\ Done(t).id = t.id /\ Done(t).dev = t.dev
           /\ Done(t).kind = t.kind
  BY DEF Done, Tasks

\* The request that changes something, whatever becomes of its answer.
LEMMA RequestStep ==
    ASSUME Inv, NEW p \in Procs, Write(p) \/ Refused(p) \/ Lost(p) \/ Garbled(p)
    PROVE  Inv'
  <1> DEFINE t == task[p]
             d == Done(t)
  <1>1. /\ t \in Tasks /\ d \in Tasks /\ Sound(p) /\ pc[p] = "write" /\ At(p, "write")
        /\ t.done = {} /\ t.says = "-"
    BY Here, DoneTyped DEF Write, Refused, Lost, Garbled, At, Sound, Progressed, Harmless
  <1>2. /\ d.done = {"write"} /\ d.says = "-" /\ d.op = t.op /\ d.parts = t.parts
        /\ d.official = t.official /\ d.id = t.id /\ d.dev = t.dev /\ d.kind = t.kind
    BY <1>1, DoneIs
  <1>3. t.op \notin {"none", "status", "incident"} /\ t.parts = {"write"}
    BY <1>1 DEF Sound, Doing, Progressed
  <1>4. UNCHANGED <<association, bounds>> /\ (Take(t) \/ UNCHANGED service)
    BY DEF Write, Refused, Lost, Garbled, Either, Unchanged
  <1>5. Framed /\ Grows
    BY <1>1, <1>4, TakeGrows, GrowsFramed DEF bounds, Inv, TypeOK
  <1> HIDE DEF d
  <1>6. CASE Write(p)
    <2>1. Take(t)
      BY <1>6 DEF Write
    <2>2. CASE t.op \in TagOps /\ ~t.official
      <3>1. Goto(p, "verify", d)
        BY <1>2, <1>6, <2>2 DEF Write, d, TagOps
      <3>2. /\ Doing("verify", d.op) /\ Progressed("verify", d) /\ Named(requests', "verify", d)
            /\ Compared("verify", d) /\ Truthful(d, d.says)
        BY <1>2, <1>3, <2>2 DEF Doing, Progressed, Named, Compared, Truthful, Harmless, TagOps
      <3> QED
        BY <1>1, <1>5, <3>1, <3>2, OneMoves DEF Labels
    <2>3. CASE t.op = "cancel"
      <3>1. Goto(p, "after", d)
        BY <1>2, <1>6, <2>3 DEF Write, d
      <3>2. d.id \in 1..Len(requests')
        BY <1>1, <1>2, <1>5, <2>3, Here DEF Sound, Named, Grows
      <3>3. /\ Doing("after", d.op) /\ Progressed("after", d) /\ Named(requests', "after", d)
            /\ Compared("after", d) /\ Truthful(d, d.says)
        BY <1>2, <1>3, <2>3, <3>2 DEF Doing, Progressed, Named, Compared, Truthful, Harmless, TagOps
      <3> QED
        BY <1>1, <1>5, <3>1, <3>3, OneMoves DEF Labels
    <2>4. CASE t.op = "submit" /\ ~t.official
      <3>1. Len(requests') = New /\ requests'[New].dev = t.dev
        BY <1>1, <2>1, <2>4, TakeGrows
      <3>2. New \in 1..Len(requests') /\ New \in Ids
        BY <1>5, <3>1, Here, ActionAssumption DEF New, Grows, Ids
      <3>3. PICK seen \in Devices \cup {None} : seen = association[New]
        BY <3>2 DEF Inv, TypeOK
      <3> DEFINE u == [d EXCEPT !.id = New, !.seen = seen, !.then = "accepted"]
      <3>4. PICK n \in Nat : n = New
        BY <3>2
      <3>5. /\ u \in Tasks /\ u.op = d.op /\ u.done = d.done /\ u.says = d.says
            /\ u.parts = d.parts /\ u.id = New /\ u.dev = d.dev /\ u.kind = d.kind
            /\ u.then = "accepted"
        <4>1. u = [d EXCEPT !.id = n, !.seen = seen, !.then = "accepted"]
          BY <3>4
        <4>2. "accepted" \in Says
          BY DEF Says
        <4> HIDE DEF u
        <4> QED
          BY <1>1, <3>3, <3>4, <4>1, <4>2 DEF Tasks
      <3>6. Goto(p, "note", u)
        <4>1. Remember(p, [d EXCEPT !.id = New], "accepted")
          BY <1>2, <1>6, <2>4 DEF Write, d, TagOps
        <4>2. [d EXCEPT !.id = New].id = New
          BY <1>1 DEF Tasks
        <4> QED
          BY <3>3, <4>1, <4>2 DEF Remember
      <3> HIDE DEF u
      <3>7. /\ Doing("note", u.op) /\ Progressed("note", u) /\ Named(requests', "note", u)
            /\ Compared("note", u) /\ Truthful(u, u.says)
        BY <1>1, <1>2, <1>3, <2>4, <3>1, <3>2, <3>5
        DEF Sound, Doing, Progressed, Named, Compared, Truthful, Harmless, TagOps
      <3> QED
        BY <1>5, <3>5, <3>6, <3>7, OneMoves DEF Labels
    <2>5. CASE End(p, d, "accepted")
      <3>1. Truthful(d, "accepted")
        BY <1>2, <1>3 DEF Truthful
      <3> QED
        BY <1>1, <1>5, <2>5, <3>1, OneEnds DEF Says
    <2> QED
      BY <1>2, <1>6, <2>2, <2>3, <2>4, <2>5 DEF Write, d, TagOps
  <1>7. CASE ~Write(p)
    <2>1. PICK says \in Says, u \in {t, d} :
             /\ End(p, u, says) /\ says \in {"error", "retry", "nothing", "unknown"}
             /\ u = d => /\ says \in {"error", "retry", "unknown"}
                         /\ says = "retry" => t.op = "submit" /\ t.official
      BY <1>1, <1>2, <1>7 DEF Refused, Lost, Garbled, Either, LostVerdict, OfficialAction, Says, d
    <2>2. Truthful(u, says)
      BY <1>1, <1>2, <2>1 DEF Truthful, Creating, OfficialAction
    <2> QED
      BY <1>1, <1>5, <2>1, <2>2, OneEnds
  <1> QED
    BY <1>6, <1>7

\* Fields and comment of an incident.
LEMMA IncidentStep ==
    ASSUME Inv, NEW p \in Procs, Patch(p) \/ Comment(p)
    PROVE  Inv'
  <1> DEFINE t == task[p]
             d == Done(t)
  <1>1. t \in Tasks /\ Sound(p) /\ Unchanged /\ t.parts \in SUBSET {"write", "comment"}
    BY Here DEF Patch, Comment, Unchanged, Tasks
  <1>2. /\ d \in Tasks /\ d.done = t.done \cup {"write"} /\ d.op = t.op /\ d.says = t.says
        /\ d.parts = t.parts
    BY <1>1, DoneIs
  <1> HIDE DEF d
  <1>3. CASE Patch(p)
    <2>1. pc[p] = "patch" /\ t.done = {} /\ "write" \in t.parts /\ t.says = "-" /\ t.op = "incident"
      BY <1>1, <1>3 DEF Patch, At, Sound, Doing, Progressed, Harmless
    <2>2. \/ "comment" \in t.parts /\ Goto(p, "comment", d)
          \/ "comment" \notin t.parts /\ End(p, d, "accepted")
          \/ \E says \in {"error", "retry", "unknown"} : End(p, t, says) \/ End(p, d, says)
      BY <1>2, <1>3 DEF Patch, AfterFields, d
    <2>3. CASE "comment" \in t.parts /\ Goto(p, "comment", d)
      <3>1. d.done = {"write"} /\ d.parts = {"write", "comment"}
        BY <1>1, <1>2, <2>1, <2>3
      <3>2. /\ Doing("comment", d.op) /\ Progressed("comment", d) /\ Named(requests, "comment", d)
            /\ Compared("comment", d)
        BY <1>2, <2>1, <3>1 DEF Doing, Progressed, Named, Compared, Harmless, TagOps
      <3> QED
        BY <1>1, <1>2, <2>1, <2>3, <3>2, ReadingGoesOn DEF Labels
    <2>4. CASE "comment" \notin t.parts /\ End(p, d, "accepted")
      <3>1. Truthful(d, "accepted")
        BY <1>1, <1>2, <2>1, <2>4 DEF Truthful
      <3> QED
        BY <1>1, <1>2, <2>4, <3>1, ReadingEnds DEF Says
    <2>5. ASSUME NEW says \in {"error", "retry", "unknown"}, NEW u \in {t, d}, End(p, u, says)
          PROVE  Inv'
      <3>1. Truthful(u, says) /\ says \in Says
        BY <1>2, <2>1, <2>5 DEF Truthful, Creating, OfficialAction, Says
      <3> QED
        BY <1>1, <1>2, <2>5, <3>1, ReadingEnds
    <2> QED
      BY <2>2, <2>3, <2>4, <2>5
  <1>4. CASE Comment(p)
    <2> DEFINE c == [t EXCEPT !.done = @ \cup {"comment"}]
    <2>1. "comment" \in t.parts /\ t.done = t.parts \ {"comment"} /\ t.op = "incident"
      BY <1>1, <1>4 DEF Comment, At, Sound, Doing, Progressed, Harmless
    <2>2. c \in Tasks /\ c.done = t.done \cup {"comment"} /\ c.parts = t.parts /\ c.op = t.op
      BY <1>1 DEF Tasks
    <2> HIDE DEF c
    <2>3. PICK u \in {t, c}, says \in {"accepted", "partial", "unknown"} :
             /\ End(p, u, says)
             /\ says = "accepted" => u = c
             /\ says = "partial" => "write" \in t.parts
      BY <1>4 DEF Comment, CommentVerdict, c
    <2>4. Truthful(u, says) /\ says \in Says
      BY <1>1, <2>1, <2>2, <2>3 DEF Truthful, Says
    <2> QED
      BY <1>1, <2>2, <2>3, <2>4, ReadingEnds
  <1> QED
    BY <1>3, <1>4

\* A process that dies says nothing.
LEMMA CrashStep ==
    ASSUME Inv, NEW p \in Procs, Crash(p)
    PROVE  Inv'
  <1>1. NoTask.op = "none" /\ NoTask.done = {} /\ NoTask.says = "-"
    BY DEF NoTask
  <1>2. Goto(p, "idle", NoTask) /\ Unchanged
    BY DEF Crash
  <1>3. /\ Doing("idle", NoTask.op) /\ Progressed("idle", NoTask) /\ Named(requests, "idle", NoTask)
        /\ Compared("idle", NoTask)
    BY <1>1 DEF Doing, Progressed, Named, Compared, Harmless
  <1> QED
    BY <1>1, <1>2, <1>3, NoTaskTyped, ReadingGoesOn DEF Labels

\* The service and others leave the processes where they are.
LEMMA OthersStep ==
    ASSUME Inv, Progress \/ Edit
    PROVE  Inv'
  <1>1. UNCHANGED <<association, pc, task>> /\ ops' = ops
    BY DEF Progress, Edit, bounds
  <1>2. tags' \subseteq Tags /\ edits' \in 0..MaxEdits
    BY ActionAssumption DEF Progress, Edit, bounds, Inv, TypeOK
  <1>3. Grows
    <2>1. CASE Edit
      BY <2>1 DEF Edit, Grows, Inv, TypeOK
    <2>2. CASE Progress
      <3>1. PICK i \in DOMAIN requests, status \in {"Succeeded", "Failed", "Expired"} :
               requests' = WithStatus(i, status)
        BY <2>2 DEF Progress
      <3> QED
        BY <3>1, StatusChanges DEF Grows, Inv, TypeOK
    <2> QED
      BY <2>1, <2>2
  <1>4. Framed
    BY <1>1, <1>2, <1>3, GrowsFramed DEF Inv, TypeOK
  <1>5. ASSUME NEW p \in Procs PROVE Sound(p)'
    <2>1. Sound(p) /\ Named(requests', pc[p], task[p])
      BY <1>3, Here DEF Sound, Named, Grows
    <2> QED
      BY <1>1, <2>1 DEF Sound
  <1> QED
    BY <1>1, <1>4, <1>5 DEF Inv, TypeOK, Framed, Grows

LEMMA InitInv == Init => Inv
  <1> SUFFICES ASSUME Init PROVE Inv
    OBVIOUS
  <1>1. TypeOK /\ AssociationIsTrue
    BY InitTyped DEF Init, AssociationIsTrue
  <1>2. ASSUME NEW p \in Procs PROVE Sound(p)
    <2>1. pc[p] = "idle" /\ task[p] = NoTask
      BY DEF Init
    <2>2. NoTask.op = "none" /\ NoTask.done = {} /\ NoTask.says = "-"
      BY DEF NoTask
    <2> QED
      BY <2>1, <2>2 DEF Sound, Doing, Progressed, Named, Compared, Truthful, Harmless
  <1> QED
    BY <1>1, <1>2 DEF Inv

LEMMA InvStep == Inv /\ [Next]_vars => Inv'
  <1> SUFFICES ASSUME Inv, [Next]_vars PROVE Inv'
    OBVIOUS
  <1>1. CASE UNCHANGED vars
    BY <1>1 DEF vars, service, bounds, Inv, TypeOK, AssociationIsTrue, Sound
  <1>2. ASSUME NEW p \in Procs, Command(p) \/ Read(p) \/ Change(p) \/ Crash(p) PROVE Inv'
    BY <1>2, CommandStep, ReadStep, StatusStep, NoteStep, RequestStep, IncidentStep, CrashStep
    DEF Read, Change
  <1> QED
    BY <1>1, <1>2, OthersStep DEF Next

LEMMA InvHolds == Spec => []Inv
  BY InitInv, InvStep, PTL DEF Spec

-----------------------------------------------------------------------------
(* Theorems.                                                               *)

\* Variables keep their types.
THEOREM TypeCorrect == Spec => []TypeOK
  <1>1. Inv => TypeOK
    BY DEF Inv
  <1> QED
    BY InvHolds, <1>1, PTL

\* "Nothing was sent", "accepted" and "the fields are updated" are so, for any interleaving
\* of any number of commands and whatever requests and answers are lost; of a command that
\* is reported as retryable no comment has been posted, and neither a portal action nor an
\* investigation has been started.  An official action that is reported so may have been
\* (_dm_request, submit_device_action, _update, XDRClient._request).
THEOREM ClaimsStayTrue == Spec => []ClaimsAreTrue
  <1>1. Inv => ClaimsAreTrue
    BY DEF Inv, Sound, Truthful, ClaimsAreTrue
  <1> QED
    BY InvHolds, <1>1, PTL

\* A remembered device is the device of the action (remember_action_device), although the
\* file is read and written without a lock: nobody writes another device.
THEOREM AssociationStaysTrue == Spec => []AssociationIsTrue
  <1>1. Inv => AssociationIsTrue
    BY DEF Inv
  <1> QED
    BY InvHolds, <1>1, PTL

\* A replacement of all tags only takes away what the command means to, or what was put there
\* after the last look (set_device_tags).
THEOREM EditsSeenSurvive == Spec => NothingSeenIsOverwritten
  <1>1. ASSUME Inv, [Next]_vars, edits' = edits, NEW tag \in tags \ tags'
        PROVE  \E p \in Procs : At(p, "write") /\ (tag \in Meant(task[p]) \/ tag \notin task[p].fresh)
    <2>1. ASSUME NEW p \in Procs, At(p, "write"), Take(task[p]) \/ UNCHANGED service
          PROVE  tag \in Meant(task[p]) \/ tag \notin task[p].fresh
      <3> DEFINE t == task[p]
      <3>1. t \in Tasks /\ Compared("write", t)
        BY <1>1, <2>1, Here DEF At, Sound
      <3>2. CASE t.op \in {"add", "remove"} /\ t.official
        BY <1>1, <2>1, <3>2 DEF Take, service, Meant
      <3>3. CASE t.op \in TagOps /\ ~t.official
        BY <1>1, <2>1, <3>1, <3>3 DEF Take, service, Meant, Compared, TagOps
      <3>4. CASE ~(t.op \in {"add", "remove"} /\ t.official) /\ ~(t.op \in TagOps /\ ~t.official)
        BY <1>1, <2>1, <3>4 DEF Take, service, TagOps
      <3> QED
        BY <3>2, <3>3, <3>4
    <2>2. ASSUME NEW p \in Procs, Command(p) \/ Read(p) \/ Change(p) \/ Crash(p)
          PROVE  At(p, "write") /\ (Take(task[p]) \/ UNCHANGED service)
      <3>1. CASE Command(p)
        BY <1>1, <3>1 DEF Command, SetTags, UpdateTag, Submit, Cancel, AskStatus, Investigate,
           UpdateIncident, Start, service
      <3>2. CASE Read(p)
        BY <1>1, <3>2 DEF Read, ReadCurrent, ReadFresh, ReadContext, ReadDevice, ReadLatest,
           ReadBefore, ReadAfter, ShowStatus, ReadStatus, WriteAssociation, Verify, Get, ReadFails,
           Unchanged, service
      <3>3. CASE Change(p) \/ Crash(p)
        BY <1>1, <3>3 DEF Change, Write, Refused, Lost, Garbled, Either, Patch, Comment, Crash,
           Unchanged, service
      <3> QED
        BY <2>2, <3>1, <3>2, <3>3
    <2>3. ~(Edit \/ Progress \/ UNCHANGED vars)
      BY <1>1, ActionAssumption DEF Edit, Progress, vars, service, Inv, TypeOK
    <2> QED
      BY <1>1, <2>1, <2>2, <2>3 DEF Next
  <1>2. Inv /\ [Next]_vars =>
           [edits' = edits =>
              \A tag \in tags \ tags' :
                 \E p \in Procs : At(p, "write") /\ (tag \in Meant(task[p]) \/ tag \notin task[p].fresh)]_vars
    BY <1>1
  <1> QED
    BY InvHolds, <1>2, PTL DEF Spec, NothingSeenIsOverwritten

=============================================================================
