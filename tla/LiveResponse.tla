---------------------------- MODULE LiveResponse ----------------------------
(***************************************************************************)
(* The Live Response commands of one device: portal.py and official.py     *)
(* below, live_response_cmd.py above, and the working directory that       *)
(* handles.py keeps for the session.  Several processes each run one       *)
(* command; the service and the device are external.                       *)
(*                                                                         *)
(* A request that changes something has three outcomes for the program:    *)
(* answered, refused, and lost, where lost is every failure after which    *)
(* the service may have acted or not: a timeout, a broken connection, a    *)
(* status of 500 and above, a sign-in page, an answer that is too long or  *)
(* cannot be interpreted.                                                  *)
(***************************************************************************)
EXTENDS Naturals, Sequences

CONSTANTS
    Processes,      \* processes that run a command
    MaxCommands,    \* bound: remote commands the service creates
    MaxCalls,       \* bound: invocations of the program
    MaxWait,        \* bound: polls that --wait allows
    Faults          \* which of "net", "write", "crash" may happen

ASSUME SizesAssumption == {MaxCommands, MaxCalls, MaxWait} \subseteq Nat

VARIABLES
    session,        \* the remote session
    command,        \* the remote commands, in the order the service created them
    handle,         \* the local handle file: working directory and pending cd
    file,           \* the local output file: the command it is from, 0 for none
    pc, self,       \* where a process is, and its local variables
    calls           \* invocations so far (a bound)

service == <<session, command>>
local == <<handle, file>>
vars == <<session, command, handle, file, pc, self, calls>>

-----------------------------------------------------------------------------
Reading == {"status"}
Mutating == {"connect", "exec", "cancel", "disconnect", "batch", "library"}
Ops == Reading \cup Mutating

SessionStates == {"none", "pending", "running", "closed"}
Verbs == {"cd", "run", "batch"}

\* "other" is a native state that _COMMAND_STATES does not know.
CommandStates == {"running", "completed", "failed", "other"}

\* What an invocation told its user when it ended.
Words == {"none", "failed", "unknown", "accepted", "done", "silent"}

Labels == {"idle", "inspect", "bind", "check", "send", "mark", "apply",
           "fetch", "observe", "save"}

\* at: created_time, which two commands may share and no command has at 0.
Commands == [verb : Verbs, state : CommandStates, at : Nat \ {0}]

\* cwd: the cd the saved directory is the result of; pending: the cd whose
\* result may be saved; stamp: created_time of the last such cd.
Handles == [known : BOOLEAN, cwd : Nat, pending : Nat, stamp : Nat]

\* applied is what the service did, which the process does not see.
Locals == [op : Ops, verb : Verbs, cmd : Nat, state : CommandStates \cup SessionStates,
           wait : Nat, sink : BOOLEAN, force : BOOLEAN, asked : BOOLEAN,
           tracked : BOOLEAN, applied : BOOLEAN, says : Words]

Blank == [op |-> "status", verb |-> "run", cmd |-> 0, state |-> "none", wait |-> 0,
          sink |-> FALSE, force |-> FALSE, asked |-> FALSE, tracked |-> TRUE,
          applied |-> FALSE, says |-> "none"]

Unbound == [known |-> FALSE, cwd |-> 0, pending |-> 0, stamp |-> 0]

Time(c) == IF c \in DOMAIN command THEN command[c].at ELSE 0

Init ==
    /\ \/ session = "none" /\ handle = Unbound
       \/ session = "running" /\ handle = [Unbound EXCEPT !.known = TRUE]
    /\ command = <<>>
    /\ file = 0
    /\ pc = [p \in Processes |-> "idle"]
    /\ self = [p \in Processes |-> Blank]
    /\ calls = 0

-----------------------------------------------------------------------------
(* Steps of a process *)

Go(p, label, me) ==
    /\ pc' = [pc EXCEPT ![p] = label]
    /\ self' = [self EXCEPT ![p] = me]

\* The command ends with what it prints or the error it raises.  Of its local
\* variables only what it reported remains.
End(p, me, word) ==
    Go(p, "idle",
       IF word = "done" /\ me.op = "exec" /\ me.verb = "cd"
       THEN [Blank EXCEPT !.op = "exec", !.applied = me.applied, !.says = word,
                          !.verb = "cd", !.cmd = me.cmd, !.state = me.state,
                          !.tracked = me.tracked]
       ELSE [Blank EXCEPT !.op = me.op, !.applied = me.applied, !.says = word])

\* Variant: what follows a submission fails like any other command.
ExcuseNothing(me) == "failed"

\* How an error reads after the request was answered: _accepted wraps what
\* follows a submission, lr_close_session and lr_cancel cannot tell.
Excuse(me) == IF ~me.asked THEN "failed"
              ELSE IF me.op \in {"cancel", "disconnect"} THEN "unknown"
              ELSE "accepted"

\* _poll: only a state known not to be final is waited for.  A completed
\* command's output is then saved where that was asked for.
Settle(p, me) ==
    IF me.state = "running" /\ me.wait > 0
    THEN Go(p, "fetch", [me EXCEPT !.wait = me.wait - 1])
    ELSE IF me.sink /\ me.state = "completed" THEN Go(p, "save", me)
    ELSE End(p, me, "done")

Begin(p) ==
    /\ pc[p] = "idle" /\ calls < MaxCalls
    /\ calls' = calls + 1
    /\ \/ \E op \in {"library", "disconnect"} :
             Go(p, "send", [Blank EXCEPT !.op = op])
       \/ \E c \in DOMAIN command :
             Go(p, "fetch", [Blank EXCEPT !.op = "cancel", !.cmd = c, !.verb = command[c].verb])
       \/ \E wait \in 0..MaxWait :
          \/ \E op \in {"connect", "batch"} :
                Go(p, "send", [Blank EXCEPT !.op = op, !.wait = wait, !.verb = "batch"])
          \/ \E verb \in {"cd", "run"}, sink \in BOOLEAN, force \in BOOLEAN :
                /\ sink => verb = "run"
                /\ force => sink
                /\ Go(p, "inspect", [Blank EXCEPT !.op = "exec", !.wait = wait, !.verb = verb,
                                                  !.sink = sink, !.force = force])
          \/ \E c \in DOMAIN command :
                Go(p, "fetch", [Blank EXCEPT !.op = "status", !.wait = wait, !.cmd = c,
                                             !.verb = command[c].verb])
    /\ UNCHANGED <<service, local>>

\* lr_get_session; a session found is remembered, where an OSError is passed over.
Inspect(p) ==
    LET me == self[p] IN
    /\ pc[p] = "inspect" /\ session # "none"
    /\ \E saved \in BOOLEAN :
          /\ "write" \notin Faults => saved
          /\ handle' = [handle EXCEPT !.known = handle.known \/ saved]
    /\ CASE me.op = "exec" -> Go(p, "check", me)
         [] me.op = "connect" /\ session = "pending" /\ me.wait > 0 ->
               Go(p, "inspect", [me EXCEPT !.wait = me.wait - 1])
         [] OTHER -> End(p, me, "done")
    /\ UNCHANGED <<service, file, calls>>

\* The service does not know the session (its handle is marked), the request
\* fails, or the handle directory is unusable.
InspectFails(p) ==
    /\ pc[p] = "inspect"
    /\ session \in {"none", "closed"} \/ Faults \cap {"net", "write"} # {}
    /\ End(p, self[p], Excuse(self[p]))
    /\ UNCHANGED <<service, local, calls>>

\* _submit looks at the output file, lr_submit at the handle and once more at
\* the session and its definitions.
Check(p) ==
    LET me == self[p] IN
    /\ pc[p] = "check"
    /\ IF (me.sink /\ ~me.force => file = 0) /\ handle.known /\ session = "running"
       THEN Go(p, "send", me)
       ELSE End(p, me, "failed")
    /\ UNCHANGED <<service, local, calls>>

CheckFails(p) ==
    /\ pc[p] = "check" /\ "net" \in Faults
    /\ End(p, self[p], "failed")
    /\ UNCHANGED <<service, local, calls>>

-----------------------------------------------------------------------------
(* The one request of an invocation that changes something *)

\* What the service does when it takes the request.
Effect(me) ==
    \/ /\ me.op = "connect" /\ session = "none"
       /\ session' \in {"pending", "running"}
       /\ UNCHANGED command
    \/ /\ me.op \in {"exec", "batch"} /\ Len(command) < MaxCommands
       /\ me.op = "exec" => session = "running"
       /\ \E st \in {"running", "completed"}, later \in {0, 1} :
             /\ Len(command) = 0 => later = 1
             /\ command' = Append(command, [verb |-> me.verb, state |-> st,
                                            at |-> Time(Len(command)) + later])
       /\ UNCHANGED session
    \/ /\ me.op = "cancel"
       /\ \/ UNCHANGED command
          \/ /\ command[me.cmd].state = "running"
             /\ command' = [command EXCEPT ![me.cmd].state = "failed"]
       /\ UNCHANGED session
    \/ /\ me.op = "disconnect" /\ session # "none"
       /\ session' = "closed"
       /\ UNCHANGED command
    \/ /\ me.op = "library"
       /\ UNCHANGED service

\* disconnect and cancel need a handle (_lr_known) before they send.
MaySend(p) == pc[p] = "send" /\ (self[p].op = "disconnect" => handle.known)

\* What follows an answer.  A new command has its identifier and state; only a
\* cd goes on to the handle.
AfterSubmission(p, me) ==
    LET new == [me EXCEPT !.cmd = Len(command'), !.state = command'[Len(command')].state]
    IN  IF me.op = "exec" /\ me.verb = "cd" THEN Go(p, "mark", new) ELSE Settle(p, new)

\* The portal is asked for the command's state, the official service answers with it.
AfterCancel(p, me) == IF me.verb = "batch" THEN End(p, me, "done") ELSE Go(p, "fetch", me)

AfterClose(p, me) == Go(p, "inspect", me)

AfterOpen(p, me) == Go(p, "bind", [me EXCEPT !.state = session'])

AfterLibrary(p, me) == End(p, me, "done")

SendAnswered(p) ==
    LET me == [self[p] EXCEPT !.asked = TRUE, !.applied = TRUE] IN
    /\ MaySend(p)
    /\ Effect(me)
    /\ CASE me.op = "connect" -> AfterOpen(p, me)
         [] me.op \in {"exec", "batch"} -> AfterSubmission(p, me)
         [] me.op = "cancel" -> AfterCancel(p, me)
         [] me.op = "disconnect" -> AfterClose(p, me)
         [] me.op = "library" -> AfterLibrary(p, me)
    /\ UNCHANGED <<local, calls>>

\* _lr_uncertain: the service acted, or it did not.
SendLost(p) ==
    /\ MaySend(p) /\ "net" \in Faults
    /\ \/ Effect(self[p]) /\ End(p, [self[p] EXCEPT !.applied = TRUE], "unknown")
       \/ UNCHANGED service /\ End(p, self[p], "unknown")
    /\ UNCHANGED <<local, calls>>

\* 401, 403, 404, 409, 429 and the other statuses below 500, or no handle.
SendRefused(p) ==
    /\ pc[p] = "send"
    /\ End(p, self[p], "failed")
    /\ UNCHANGED <<service, local, calls>>

\* lr_open_session: the new session is remembered, after which connect waits.
Bind(p) ==
    LET me == self[p] IN
    /\ pc[p] = "bind"
    /\ \E saved \in BOOLEAN :
          /\ "write" \notin Faults => saved
          /\ handle' = [handle EXCEPT !.known = handle.known \/ saved]
    /\ IF me.state = "pending" /\ me.wait > 0
       THEN Go(p, "inspect", [me EXCEPT !.wait = me.wait - 1])
       ELSE End(p, me, "done")
    /\ UNCHANGED <<service, file, calls>>

BindFails(p) ==
    /\ pc[p] = "bind" /\ "write" \in Faults
    /\ End(p, self[p], "unknown")
    /\ UNCHANGED <<service, local, calls>>

-----------------------------------------------------------------------------
(* The working directory *)

\* Variant: a cd is waited for unless one is already.
MarkedFirst(h, c) == IF h.pending = 0 THEN [h EXCEPT !.pending = c, !.stamp = Time(c)] ELSE h

\* mark_directory_submission: only a later cd replaces the one waited for.
Marked(h, c) == IF Time(c) > h.stamp THEN [h EXCEPT !.pending = c, !.stamp = Time(c)] ELSE h

\* Variant: every result that arrives is saved.
MovedAlways(h, c) == [h EXCEPT !.cwd = c, !.pending = 0]

\* apply_directory_completion: only the cd waited for may be saved.
Moved(h, c) == IF h.pending = c THEN [h EXCEPT !.cwd = c, !.pending = 0] ELSE h

\* _lr_apply_directory does something.
Completes(me) == me.verb = "cd" /\ me.state = "completed"

\* The handle is replaced under its lock: written; or not written, or written
\* and an error reported all the same.
Write(h) == handle' = h
WriteFails(h) == "write" \in Faults /\ handle' \in {handle, h}

Mark(p) ==
    LET me == self[p] IN
    /\ pc[p] = "mark"
    /\ \/ Write(Marked(handle, me.cmd)) /\ Go(p, "apply", me)
       \/ WriteFails(Marked(handle, me.cmd)) /\ End(p, me, "accepted")
    /\ UNCHANGED <<service, file, calls>>

\* The answer to the submission may already be the result.
Apply(p) ==
    LET me == self[p] IN
    /\ pc[p] = "apply"
    /\ IF Completes(me)
       THEN \/ Write(Moved(handle, me.cmd)) /\ Settle(p, me)
            \/ WriteFails(Moved(handle, me.cmd)) /\ End(p, me, "accepted")
       ELSE UNCHANGED handle /\ Settle(p, me)
    /\ UNCHANGED <<service, file, calls>>

\* lr_get_command: cancel reads the command before and after its request.
AfterFetch(p, me) ==
    IF me.op # "cancel" THEN Settle(p, me)
    ELSE IF me.asked THEN End(p, me, "done")
    ELSE Go(p, "send", me)

Fetch(p) ==
    LET me == self[p] IN
    /\ pc[p] = "fetch"
    /\ me.verb # "batch" => handle.known
    /\ Go(p, "observe", [me EXCEPT !.state = command[me.cmd].state])
    /\ UNCHANGED <<service, local, calls>>

FetchFails(p) ==
    /\ pc[p] = "fetch"
    /\ "net" \in Faults \/ (self[p].verb # "batch" /\ ~handle.known)
    /\ End(p, self[p], Excuse(self[p]))
    /\ UNCHANGED <<service, local, calls>>

\* A failure to save the directory is only reported in the result.
Observe(p) ==
    LET me == self[p] IN
    /\ pc[p] = "observe"
    /\ IF Completes(me)
       THEN \/ Write(Moved(handle, me.cmd)) /\ AfterFetch(p, me)
            \/ /\ WriteFails(Moved(handle, me.cmd))
               /\ AfterFetch(p, [me EXCEPT !.tracked = FALSE])
       ELSE UNCHANGED handle /\ AfterFetch(p, me)
    /\ UNCHANGED <<service, file, calls>>

-----------------------------------------------------------------------------
(* The local output *)

\* Variant: the file was looked at before the command was sent.
PublishOver(me) == file' = me.cmd

\* _write_local_output, or the publication of a getfile: without --force a
\* file that appeared meanwhile is not replaced.
Publish(me) == (me.force \/ file = 0) /\ file' = me.cmd

Save(p) ==
    /\ pc[p] = "save"
    /\ Publish(self[p])
    /\ End(p, self[p], "done")
    /\ UNCHANGED <<service, handle, calls>>

SaveFails(p) ==
    /\ pc[p] = "save"
    /\ \/ UNCHANGED file /\ (Faults \cap {"net", "write"} # {} \/ (~self[p].force /\ file # 0))
       \/ Publish(self[p]) /\ "write" \in Faults
    /\ End(p, self[p], "accepted")
    /\ UNCHANGED <<service, handle, calls>>

\* The process is killed or interrupted.
Crash(p) ==
    /\ pc[p] # "idle" /\ "crash" \in Faults
    /\ End(p, self[p], "silent")
    /\ UNCHANGED <<service, local, calls>>

-----------------------------------------------------------------------------
(* The service and the device *)

Progress(c) ==
    /\ c \in DOMAIN command
    /\ \/ command[c].state = "running"
          /\ \E st \in {"completed", "failed", "other"} :
                command' = [command EXCEPT ![c].state = st]
       \/ command[c].state = "other"
          /\ \E st \in {"completed", "failed"} :
                command' = [command EXCEPT ![c].state = st]
    /\ UNCHANGED <<session, handle, file, pc, self, calls>>

Connected ==
    /\ session = "pending"
    /\ session' = "running"
    /\ UNCHANGED <<command, handle, file, pc, self, calls>>

Expires ==
    /\ session \in {"pending", "running"}
    /\ session' = "closed"
    /\ UNCHANGED <<command, handle, file, pc, self, calls>>

Next ==
    \/ \E p \in Processes :
          \/ Begin(p)
          \/ Inspect(p) \/ InspectFails(p) \/ Check(p) \/ CheckFails(p)
          \/ SendAnswered(p) \/ SendLost(p) \/ SendRefused(p)
          \/ Bind(p) \/ BindFails(p) \/ Mark(p) \/ Apply(p)
          \/ Fetch(p) \/ FetchFails(p) \/ Observe(p)
          \/ Save(p) \/ SaveFails(p) \/ Crash(p)
    \/ \E c \in 1..MaxCommands : Progress(c)
    \/ Connected \/ Expires

Spec == Init /\ [][Next]_vars

-----------------------------------------------------------------------------
(* Properties *)

\* Shapes of the variables; the commands a process or the handle names exist.
TypeOK ==
    /\ session \in SessionStates
    /\ command \in Seq(Commands)
    /\ handle \in Handles
    /\ file \in Nat
    /\ pc \in [Processes -> Labels]
    /\ self \in [Processes -> Locals]
    /\ calls \in Nat

\* What an invocation says of its request is true, whatever failed when: an
\* error that leaves the user free to repeat it means that the service did not
\* act, and "accepted" or a normal result means that it did
\* (_lr_uncertain, _lr_local_directory_failure, _accepted).
VerdictsAreTrue ==
    \A p \in Processes :
        LET me == self[p] IN
        pc[p] = "idle" /\ me.op \in Mutating =>
            /\ me.says = "failed" => ~me.applied
            /\ me.says \in {"accepted", "done"} => me.applied

\* The saved directory never goes back to the result of an older cd, in
\* whatever order submissions are marked and results arrive
\* (mark_directory_submission, apply_directory_completion).
CwdNeverRewinds == [][Time(handle'.cwd) >= Time(handle.cwd)]_vars

\* An exec of cd that reports completion has its directory saved, or a cd that
\* the service did not create earlier has taken its place.
CompletedIsSaved ==
    \A p \in Processes :
        LET me == self[p] IN
        pc[p] = "idle" /\ me.op = "exec" /\ me.says = "done" /\ me.tracked /\ Completes(me) =>
            \/ handle.cwd = me.cmd
            \/ \E c \in DOMAIN command : /\ c # me.cmd /\ command[c].verb = "cd"
                                         /\ Time(c) >= Time(me.cmd) /\ handle.stamp = Time(c)

\* A saved output is only replaced by a process that was told to (--force),
\* although the destination is looked at long before it is written.
OutputIsKept ==
    [][file # 0 => file' = file \/ \E p \in Processes : pc[p] = "save" /\ self[p].force]_vars
=============================================================================
