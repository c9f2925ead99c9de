--------------------------- MODULE ResponseActions ---------------------------
(***************************************************************************)
(* Commands that change something at the service: device tags, response    *)
(* actions and their cancellation, troubleshooting, investigations and     *)
(* incident updates (device_management.py, device_diagnostics.py,          *)
(* backends.py, official_backend.py, device_cmd.py, device_manage_cmd.py,  *)
(* incidents_cmd.py), with the local file that remembers the device of an  *)
(* action (action_associations.py).                                        *)
(*                                                                         *)
(* A step is one request with its answer.  The service takes a request or  *)
(* not, and its answer may be lost or useless; what the command then tells *)
(* the user is modelled, since the user decides by it whether to repeat    *)
(* the command.  The tags are those of one device.                         *)
(***************************************************************************)
EXTENDS Naturals, Sequences, FiniteSets

CONSTANTS
    Procs, Devices,
    Unmanaged,      \* devices that Defender reports as unmanaged
    Tags,           \* names of tags
    Kinds,          \* kinds of response actions that commands ask for
    Faults,         \* which of "lost", "garbled", "rate", "write" and "crash" may happen
    None,           \* no device
    MaxRequests, MaxOps, MaxEdits   \* bounds

AllKinds == {"scan", "isolate", "unisolate", "contain", "uncontain", "logs", "on", "off"}
Isolating == {"isolate", "unisolate", "contain", "uncontain"}
Troubleshooting == {"on", "off"}

ASSUME ActionAssumption ==
    /\ Unmanaged \subseteq Devices /\ None \notin Devices
    /\ Kinds \subseteq AllKinds
    /\ MaxRequests \in Nat /\ MaxOps \in Nat /\ MaxEdits \in Nat

VARIABLES
    tags,           \* the manual tags of the device
    requests,       \* the response actions the service has taken, with their state
    association,    \* the device that action_associations/ has for each of them
    pc, task,       \* where each process is, and its local variables
    ops, edits      \* commands and edits by others still to come

service == <<tags, requests>>
bounds == <<ops, edits>>
vars == <<service, association, pc, task, bounds>>

Ids == 1..MaxRequests
Requests == [dev : Devices, kind : AllKinds,
             status : {"Pending", "Succeeded", "Failed", "Cancelled", "Expired"}]

\* want, base: tags asked for, and those expected; fresh: those read last before
\* the replacement.  done: what the service did for this command, and says: what
\* the user is told: that nothing was sent, that it is accepted, that it is unknown,
\* that the command may be repeated, that half is done, or only that it failed.
\* seen: what the association was when it was read, and then: what follows it.
Ops == {"none", "set", "add", "remove", "submit", "cancel", "status", "investigate", "incident"}
Says == {"-", "nothing", "accepted", "unknown", "retry", "partial", "error"}
Tasks == [op : Ops, kind : AllKinds \cup {"-"}, official : BOOLEAN, dev : Devices \cup {None},
          id : Nat, want : SUBSET Tags, base : SUBSET Tags, fresh : SUBSET Tags,
          parts : SUBSET {"write", "comment"}, done : SUBSET {"write", "comment"},
          seen : Devices \cup {None}, then : {"-", "write"} \cup Says, says : Says]

NoTask == [op |-> "none", kind |-> "-", official |-> FALSE, dev |-> None, id |-> 0,
           want |-> {}, base |-> {}, fresh |-> {}, parts |-> {"write"}, done |-> {},
           seen |-> None, then |-> "-", says |-> "-"]

Labels == {"idle", "current", "fresh", "context", "device", "latest", "before", "write",
           "verify", "after", "status", "note", "patch", "get", "comment"}

Init ==
    /\ tags \in SUBSET Tags
    /\ requests = << >> /\ association = [i \in Ids |-> None]
    /\ pc = [p \in Procs |-> "idle"] /\ task = [p \in Procs |-> NoTask]
    /\ ops = MaxOps /\ edits = MaxEdits

At(p, label) == pc[p] = label
Goto(p, label, t) == pc' = [pc EXCEPT ![p] = label] /\ task' = [task EXCEPT ![p] = t]

\* What is left of a command that is over.
Ended(t, says) == [NoTask EXCEPT !.op = t.op, !.official = t.official, !.parts = t.parts,
                                 !.done = t.done, !.says = says]
End(p, t, says) == Goto(p, "idle", Ended(t, says))

Start(p, label, t) ==
    /\ At(p, "idle") /\ ops > 0
    /\ ops' = ops - 1
    /\ Goto(p, label, t)
    /\ UNCHANGED <<service, association, edits>>

-----------------------------------------------------------------------------
(* The commands.                                                           *)

\* tags set, with the tags the user expects.
SetTags(p) == \E want, base \in SUBSET Tags :
                 Start(p, "fresh", [NoTask EXCEPT !.op = "set", !.want = want, !.base = base])

\* tags add and remove; the official operation is one request.
UpdateTag(p) == \E op \in {"add", "remove"}, tag \in Tags, official \in BOOLEAN :
                   Start(p, IF official THEN "write" ELSE "current",
                         [NoTask EXCEPT !.op = op, !.want = {tag}, !.official = official])

\* isolate, scan, contain, collect-support-logs, troubleshoot and the like.
Submit(p) ==
    \E kind \in Kinds, dev \in Devices, official \in BOOLEAN :
       /\ official => kind \in AllKinds \ {"contain", "uncontain", "logs", "on", "off"}
       /\ Start(p, IF official THEN "write" ELSE IF kind = "logs" THEN "context" ELSE "device",
                [NoTask EXCEPT !.op = "submit", !.kind = kind, !.dev = dev,
                               !.official = official])

Cancel(p) == \E id \in DOMAIN requests, dev \in Devices :
                Start(p, "before", [NoTask EXCEPT !.op = "cancel", !.id = id, !.dev = dev])

\* action-status, with the device given or remembered.
AskStatus(p) ==
    \E id \in DOMAIN requests, dev \in Devices \cup {None} :
       /\ dev # None \/ association[id] # None
       /\ Start(p, "status", [NoTask EXCEPT !.op = "status", !.id = id,
                              !.dev = IF dev = None THEN association[id] ELSE dev])

Investigate(p) == \E official \in BOOLEAN :
                     Start(p, IF official THEN "write" ELSE "context",
                           [NoTask EXCEPT !.op = "investigate", !.official = official])

\* incidents update: fields, a comment or both.
UpdateIncident(p) ==
    \E parts \in (SUBSET {"write", "comment"}) \ {{}}, official \in BOOLEAN :
       Start(p, IF "write" \in parts THEN "patch" ELSE "get",
             [NoTask EXCEPT !.op = "incident", !.parts = parts, !.official = official])

-----------------------------------------------------------------------------
(* Requests that read.                                                     *)

Reading == {"current", "fresh", "context", "device", "latest", "before", "verify", "after",
            "status", "get"}

\* No answer or a 429, which are marked as retryable, or another error.
ReadFails(p) ==
    /\ pc[p] \in Reading
    /\ \/ Faults \cap {"lost", "rate"} # {} /\ End(p, task[p], "retry")
       \/ "garbled" \in Faults /\ End(p, task[p], "error")
    /\ UNCHANGED <<service, association, bounds>>

Unchanged == UNCHANGED <<service, association, bounds>>

\* update_device_tag.
ReadCurrent(p) ==
    /\ At(p, "current")
    /\ LET t == task[p]
           desired == IF t.op = "add" THEN tags \cup t.want ELSE tags \ t.want
       IN Goto(p, "fresh", [t EXCEPT !.want = desired, !.base = tags])
    /\ Unchanged

\* Variant: what was read at first is not compared.
ReadFreshUnchecked(p) ==
    /\ At(p, "fresh")
    /\ Goto(p, "write", [task[p] EXCEPT !.fresh = tags])
    /\ Unchanged

\* set_device_tags reads again and compares.
ReadFresh(p) ==
    /\ At(p, "fresh")
    /\ LET t == [task[p] EXCEPT !.fresh = tags] IN
       IF tags # t.base THEN End(p, t, "nothing")
       ELSE IF t.want = tags THEN End(p, t, "nothing")
       ELSE Goto(p, "write", t)
    /\ Unchanged

\* The tenant's features: the operation is off, on, or under a protocol of its own.
ReadContext(p) ==
    /\ At(p, "context")
    /\ \/ End(p, task[p], "nothing")
       \/ Goto(p, IF task[p].op = "investigate" THEN "write" ELSE "device", task[p])
    /\ Unchanged

\* The device: it may lack what the request needs, and only an unmanaged one is contained.
ReadDevice(p) ==
    /\ At(p, "device")
    /\ LET t == task[p] IN
       \/ t.kind \notin {"contain", "uncontain"} /\ End(p, t, "nothing")
       \/ t.kind \in {"contain", "uncontain"} /\ t.dev \notin Unmanaged /\ End(p, t, "nothing")
       \/ /\ t.kind \in {"contain", "uncontain"} => t.dev \in Unmanaged
          /\ Goto(p, IF t.kind \in {"uncontain"} \cup Troubleshooting THEN "latest" ELSE "write",
                  t)
    /\ Unchanged

\* What the service may report of the device, its history being limited.
Latest(dev, kinds) ==
    SUBSET {i \in DOMAIN requests : requests[i].dev = dev /\ requests[i].kind \in kinds}

Contained(rows) ==
    \E i \in rows : rows = {i} /\ requests[i].kind = "contain"
                    /\ requests[i].status = "Succeeded"

Windows(rows) == {i \in rows : requests[i].kind = "on" /\ requests[i].status = "Succeeded"}

\* Release needs one containment; a window is opened if there is none and closed if
\* there is one, unless a change is pending.
Allowed(kind, rows) ==
    CASE kind = "uncontain" -> Contained(rows)
      [] kind = "on" -> /\ \A i \in rows : requests[i].status # "Pending"
                        /\ Windows(rows) = {}
      [] kind = "off" -> /\ \A i \in rows : requests[i].status # "Pending"
                         /\ Cardinality(Windows(rows)) = 1

ReadLatest(p) ==
    /\ At(p, "latest")
    /\ LET t == task[p]
           kinds == IF t.kind = "uncontain" THEN Isolating ELSE Troubleshooting
       IN \E rows \in Latest(t.dev, kinds) :
             IF Allowed(t.kind, rows) THEN Goto(p, "write", t) ELSE End(p, t, "nothing")
    /\ Unchanged

-----------------------------------------------------------------------------
(* The state of one action.                                                *)

\* Variant: the answer is taken for the device that was asked about.
MatchesAny(id, dev) == TRUE

\* The row of the action must name the device.
Matches(id, dev) == requests[id].dev = dev

\* remember_action_device reads the file, and writes it a step later, without a lock.
Remember(p, t, then) ==
    Goto(p, "note", [t EXCEPT !.seen = association[t.id], !.then = then])

\* get_action_status, and what its caller makes of the answer.
ReadStatus(p, label, then) ==
    /\ At(p, label)
    /\ LET t == task[p] IN
       \/ Matches(t.id, t.dev) /\ Remember(p, t, then)
       \/ End(p, t, "error")
    /\ Unchanged

\* Best effort, and never over another device.
WriteAssociation(p) ==
    /\ At(p, "note")
    /\ LET t == task[p] IN
       /\ \/ t.seen \in {None, t.dev} /\ association' = [association EXCEPT ![t.id] = t.dev]
          \/ (t.seen \notin {None, t.dev} \/ "write" \in Faults) /\ UNCHANGED association
       /\ IF t.then = "write" THEN Goto(p, "write", t) ELSE End(p, t, t.then)
    /\ UNCHANGED <<service, bounds>>

Cancellable(id) == requests[id].kind \notin Troubleshooting /\ requests[id].status = "Pending"

ReadBefore(p) ==
    ReadStatus(p, "before", IF Cancellable(task[p].id) THEN "write" ELSE "nothing")
ReadAfter(p) == ReadStatus(p, "after", "accepted")
ShowStatus(p) == ReadStatus(p, "status", "accepted")

-----------------------------------------------------------------------------
(* Requests that change something.                                         *)

New == Len(requests) + 1
WithStatus(id, status) == [requests EXCEPT ![id].status = status]

\* What the request does at the service.
Take(t) ==
    CASE t.op \in {"add", "remove"} /\ t.official ->
           /\ tags' = IF t.op = "add" THEN tags \cup t.want ELSE tags \ t.want
           /\ UNCHANGED requests
      [] t.op \in {"set", "add", "remove"} /\ ~t.official ->
           tags' = t.want /\ UNCHANGED requests
      [] t.op = "submit" ->
           /\ Len(requests) < MaxRequests
           /\ requests' = Append(requests, [dev |-> t.dev, kind |-> t.kind, status |-> "Pending"])
           /\ UNCHANGED tags
      [] t.op = "cancel" ->
           /\ requests' = IF requests[t.id].status = "Pending"
                          THEN WithStatus(t.id, "Cancelled") ELSE requests
           /\ UNCHANGED tags
      [] OTHER -> UNCHANGED service

Done(t) == [t EXCEPT !.done = @ \cup {"write"}]

\* Taken, and the answer says so: what follows.
Write(p) ==
    /\ At(p, "write")
    /\ Take(task[p])
    /\ LET t == Done(task[p]) IN
          CASE t.op \in {"set", "add", "remove"} /\ ~t.official -> Goto(p, "verify", t)
            [] t.op = "cancel" -> Goto(p, "after", t)
            [] t.op = "submit" /\ ~t.official -> Remember(p, [t EXCEPT !.id = New], "accepted")
            [] OTHER -> End(p, t, "accepted")
    /\ UNCHANGED <<association, bounds>>

\* Refused, with a retryable error for a 429.
Refused(p) ==
    /\ At(p, "write")
    /\ \/ End(p, task[p], "error")
       \/ "rate" \in Faults /\ End(p, task[p], "retry")
       \/ task[p].op = "investigate" /\ End(p, task[p], "nothing")
    /\ Unchanged

\* Variant: a timeout may always be repeated.
LostVerdictRetry(t) == "retry"

\* The official client's actions, whose timeout is an ordinary error, marked as retryable.
OfficialAction(t) == t.op = "submit" /\ t.official

\* No answer in time: it is unknown what became of every other request.
LostVerdict(t) == IF OfficialAction(t) THEN "retry" ELSE "unknown"

\* The service may have taken the request or not.
Either(p, says) ==
    \/ Take(task[p]) /\ End(p, Done(task[p]), says)
    \/ UNCHANGED service /\ End(p, task[p], says)

Lost(p) ==
    /\ At(p, "write") /\ "lost" \in Faults
    /\ Either(p, LostVerdict(task[p]))
    /\ UNCHANGED <<association, bounds>>

\* A server error, or an answer that cannot be read or is of another request.
Garbled(p) ==
    /\ At(p, "write") /\ "garbled" \in Faults
    /\ \E says \in {"error", "unknown"} : Either(p, says)
    /\ UNCHANGED <<association, bounds>>

\* The tags are read back.
Verify(p) ==
    /\ At(p, "verify")
    /\ End(p, task[p], IF tags = task[p].want THEN "accepted" ELSE "error")
    /\ Unchanged

-----------------------------------------------------------------------------
(* incidents update.                                                       *)

AfterFields(p, t) ==
    IF "comment" \in t.parts THEN Goto(p, "comment", t) ELSE End(p, t, "accepted")

Get(p) == At(p, "get") /\ AfterFields(p, task[p]) /\ Unchanged

\* Of the portal's client a timeout is unknown, of the official one retryable; the
\* portal's client first looks whose tenant it is.
Patch(p) ==
    /\ At(p, "patch")
    /\ LET t == task[p]  lost == IF t.official THEN "retry" ELSE "unknown" IN
       \/ AfterFields(p, Done(t))
       \/ End(p, t, "error") \/ ("rate" \in Faults /\ End(p, t, "retry"))
       \/ "lost" \in Faults /\ (End(p, t, "retry") \/ End(p, t, lost) \/ End(p, Done(t), lost))
       \/ "garbled" \in Faults /\ End(p, Done(t), "error")
    /\ Unchanged

CommentVerdict(t) == IF "write" \in t.parts THEN "partial" ELSE "unknown"

\* Whatever the error, the command must not be repeated.
Comment(p) ==
    /\ At(p, "comment")
    /\ LET t == task[p]  posted == [t EXCEPT !.done = @ \cup {"comment"}] IN
       \/ End(p, posted, "accepted")
       \/ End(p, t, CommentVerdict(t))
       \/ Faults \cap {"lost", "garbled"} # {} /\ End(p, posted, CommentVerdict(t))
    /\ Unchanged

-----------------------------------------------------------------------------
(* The service and others.                                                 *)

\* An action goes on, and a troubleshooting window ends.
Progress ==
    /\ \E i \in DOMAIN requests :
         \/ /\ requests[i].status = "Pending"
            /\ \E s \in {"Succeeded", "Failed"} : requests' = WithStatus(i, s)
         \/ /\ requests[i].kind = "on" /\ requests[i].status = "Succeeded"
            /\ requests' = WithStatus(i, "Expired")
    /\ UNCHANGED <<tags, association, pc, task, bounds>>

\* Somebody changes a tag in the portal.
Edit ==
    /\ edits > 0 /\ edits' = edits - 1
    /\ \E tag \in Tags : tags' = IF tag \in tags THEN tags \ {tag} ELSE tags \cup {tag}
    /\ UNCHANGED <<requests, association, pc, task, ops>>

\* The process dies, and nobody is told anything.
Crash(p) ==
    /\ "crash" \in Faults /\ ~At(p, "idle")
    /\ Goto(p, "idle", NoTask)
    /\ Unchanged

Command(p) ==
    \/ SetTags(p) \/ UpdateTag(p) \/ Submit(p) \/ Cancel(p) \/ AskStatus(p)
    \/ Investigate(p) \/ UpdateIncident(p)

Read(p) ==
    \/ ReadCurrent(p) \/ ReadFresh(p) \/ ReadContext(p) \/ ReadDevice(p) \/ ReadLatest(p)
    \/ ReadBefore(p) \/ ReadAfter(p) \/ ShowStatus(p) \/ WriteAssociation(p) \/ Verify(p) \/ Get(p) \/ ReadFails(p)

Change(p) == Write(p) \/ Refused(p) \/ Lost(p) \/ Garbled(p) \/ Patch(p) \/ Comment(p)

Next ==
    \/ \E p \in Procs : Command(p) \/ Read(p) \/ Change(p) \/ Crash(p)
    \/ Progress \/ Edit

Spec == Init /\ [][Next]_vars

-----------------------------------------------------------------------------
(* Properties.                                                             *)

\* Variables keep their types.
TypeOK ==
    /\ tags \subseteq Tags
    /\ requests \in Seq(Requests)
    /\ Len(requests) <= MaxRequests
    /\ association \in [Ids -> Devices \cup {None}]
    /\ pc \in [Procs -> Labels] /\ task \in [Procs -> Tasks]
    /\ ops \in 0..MaxOps /\ edits \in 0..MaxEdits

\* Requests that make something new each time.
Creating(t) == t.op \in {"investigate", "submit"}

\* What a command says of its outcome is true, whichever of its requests failed and
\* however: "nothing was sent" and "accepted" are so, "the fields are updated" too.  One
\* that is reported as retryable has posted no comment and made nothing new, with the
\* exception of an official action that timed out, which may have been taken
\* (_dm_request, submit_device_action, _update; client.py:217 for the exception).  What a
\* repetition only sets again, tags, fields or a cancellation, may have been done.
ClaimsAreTrue ==
    \A p \in Procs :
        LET t == task[p] IN
        /\ t.says = "nothing" => t.done = {}
        /\ t.says = "accepted" /\ t.op # "status" => t.parts \subseteq t.done
        /\ t.says = "partial" => "write" \in t.done
        /\ t.says = "retry" => /\ "comment" \notin t.done
                               /\ Creating(t) => t.done = {} \/ OfficialAction(t)

\* Tags the command means to remove.
Meant(t) == IF t.op = "remove" /\ t.official THEN t.want ELSE t.base \ t.want

\* The replacement of all tags does not undo an edit that was made before the last
\* look at them, by whomever (set_device_tags, update_device_tag).
NothingSeenIsOverwritten ==
    [][edits' = edits =>
         \A tag \in tags \ tags' :
            \E p \in Procs : At(p, "write") /\ (tag \in Meant(task[p]) \/ tag \notin task[p].fresh)]_vars

\* A remembered device is the device of the action, although any device may be given
\* on the command line and the file is written without a lock
\* (get_action_status, remember_action_device).
AssociationIsTrue ==
    \A i \in Ids : association[i] # None => i <= Len(requests) /\ association[i] = requests[i].dev

=============================================================================
