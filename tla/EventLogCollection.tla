------------------------- MODULE EventLogCollection -------------------------
(***************************************************************************)
(* commands/live_response_collect_cmd.py: `collect-event-logs` into one    *)
(* output directory.  Every collector is one run of the command; several   *)
(* may be given the same directory, at once or after one died.  A          *)
(* collector lists the logs once, then submits one getfile per selected    *)
(* log, follows it and downloads the result; the manifest in the directory *)
(* is saved between all of these steps.                                    *)
(*                                                                         *)
(* The service, the network and the device are the outcomes of the calls:  *)
(* refused, accepted, or accepted with the answer lost.  Sizes are in an   *)
(* arbitrary unit.                                                         *)
(*                                                                         *)
(* A definition introduced as a variant of another is that definition with *)
(* one mistake; nothing uses it.                                           *)
(***************************************************************************)
EXTENDS Integers, FiniteSets, Functions

CONSTANTS
    Collectors,     \* runs of the command
    Logs,
    MaxSize,        \* bound on the sizes of logs
    MinBytes, MaxBytes, MaxTotalBytes,  \* the options of these names
    Faults,         \* which of "write", "service", "interrupt" and "crash" may happen
    NoOne, NoFile, Absent

Sizes == 0..MaxSize
Deliberate == {"completed", "absent", "skipped"}
Status == Deliberate \cup {"planned", "outcome-unknown", "accepted", "failed"}
Smaller(x, y) == IF x < y THEN x ELSE y

ASSUME CollectionAssumption ==
    /\ MaxSize \in Nat /\ MinBytes \in Nat
    /\ MaxBytes \in Nat \ {0} /\ MaxTotalBytes \in Nat \ {0}
    /\ NoOne \notin Collectors
    /\ NoFile \notin [Logs -> Status]
    /\ Absent \notin Sizes

VARIABLES
    lock,      \* holder of manifest.json.lock
    manifest,  \* manifest.json: the status of each log
    saved,     \* logs whose file is in the directory
    sent,      \* service: how many getfile jobs it accepted for each log
    job,       \* service: the state of the log's job
    session,   \* service: the session that each collector opened
    pc, self,  \* where each collector is, and its attributes
    attempts,  \* how often each collector tried to close its session
    spent,     \* what each collector wrote to disk, abandoned downloads included
    result     \* how the run of each collector ended

disk == <<manifest, saved>>
service == <<sent, job, session>>
counts == <<attempts, spent>>
vars == <<lock, manifest, saved, sent, job, session, pc, self, attempts, spent, result>>

Working == {"open", "survey", "create", "next", "send", "noteRefused", "noteAccepted",
            "follow", "download", "noteFollowed", "noteError"}
Pc == Working \cup {"new", "claim", "close", "report", "done"}

Collector == [rows: [Logs -> Status], listed: [Logs -> Sizes \cup {Absent}],
              log: Logs \cup {NoFile},       \* the row being fetched
              remaining: 0..MaxTotalBytes,
              owned: BOOLEAN, stopped: BOOLEAN,
              failures: BOOLEAN,             \* whether the list is not empty
              primary: BOOLEAN]              \* an error is on its way out

NewCollector == [rows |-> [l \in Logs |-> "absent"], listed |-> [l \in Logs |-> Absent],
                 log |-> NoFile, remaining |-> MaxTotalBytes,
                 owned |-> FALSE, stopped |-> FALSE, failures |-> FALSE,
                 primary |-> FALSE]

TypeOK ==
    /\ lock \in Collectors \cup {NoOne}
    /\ manifest \in [Logs -> Status] \cup {NoFile}
    /\ saved \subseteq Logs
    /\ sent \in [Logs -> Nat]
    /\ job \in [Logs -> {"none", "running", "succeeded", "failed"}]
    /\ session \in [Collectors -> {"none", "open", "closed"}]
    /\ pc \in [Collectors -> Pc]
    /\ self \in [Collectors -> Collector]
    /\ attempts \in [Collectors -> Nat] /\ spent \in [Collectors -> Nat]
    /\ result \in [Collectors -> {"none", "refused", "complete", "partial", "error", "killed"}]

Init ==
    /\ lock = NoOne /\ manifest = NoFile /\ saved = {}
    /\ sent = [l \in Logs |-> 0] /\ job = [l \in Logs |-> "none"]
    /\ session = [p \in Collectors |-> "none"]
    /\ pc = [p \in Collectors |-> "new"]
    /\ self = [p \in Collectors |-> NewCollector]
    /\ attempts = [p \in Collectors |-> 0] /\ spent = [p \in Collectors |-> 0]
    /\ result = [p \in Collectors |-> "none"]
-----------------------------------------------------------------------------
(* Going on, and the end of a run.                                         *)

\* On to a step, with attributes me.
Goto(p, step, me) ==
    /\ pc' = [pc EXCEPT ![p] = step]
    /\ self' = [self EXCEPT ![p] = me]
    /\ UNCHANGED <<lock, result>>

\* The end of the command, out of the `with exclusive_lock` block.  Only the rows, which
\* the receipt has, and whether there was a session to close are kept.
Leave(p, me, how) ==
    /\ pc' = [pc EXCEPT ![p] = "done"]
    /\ self' = [self EXCEPT ![p] = [NewCollector EXCEPT !.rows = me.rows, !.owned = me.owned]]
    /\ lock' = IF lock = p THEN NoOne ELSE lock
    /\ result' = [result EXCEPT ![p] = how]

\* Variant: the session is closed only after an orderly collection.
CleanUpAfterSuccess(p, me) ==
    IF me.primary THEN Leave(p, me, "error")
    ELSE Goto(p, IF me.owned THEN "close" ELSE "report", me)

\* The finally clause of run(): close what is owned, then report or raise.
CleanUp(p, me) ==
    IF me.owned THEN Goto(p, "close", me)
    ELSE IF me.primary THEN Leave(p, me, "error")
    ELSE Goto(p, "report", me)

Raise(p) == CleanUp(p, [self[p] EXCEPT !.primary = TRUE])

\* _fail: every failure is kept, some stop the run.
Failing(me, stop) == [me EXCEPT !.failures = TRUE, !.stopped = me.stopped \/ stop]

\* How saving the manifest ends: done, not done, or done but reported as failed.
Outcomes == {"ok"} \cup IF "write" \in Faults THEN {"failed", "unsure"} ELSE {}

Save(rows, outcome) ==
    /\ outcome \in Outcomes
    /\ manifest' = IF outcome = "failed" THEN manifest ELSE rows
-----------------------------------------------------------------------------
(* Taking the directory and opening the session.                           *)

\* _prepare_output_dir: the directory must be empty.
Prepare(p) ==
    /\ pc[p] = "new"
    /\ IF manifest # NoFile \/ saved # {}
       THEN Leave(p, self[p], "refused")
       ELSE Goto(p, "claim", self[p])
    /\ UNCHANGED <<disk, service, counts>>

\* A device gets a session of its own; a session that was named is looked up.
Claimed(p) ==
    /\ \E step \in {"open", "survey"} : pc' = [pc EXCEPT ![p] = step]
    /\ lock' = p
    /\ UNCHANGED <<self, result>>

\* Variant: the directory is not looked at again under its lock.
ClaimUnchecked(p) ==
    /\ pc[p] = "claim"
    /\ IF lock # NoOne THEN Leave(p, self[p], "refused") ELSE Claimed(p)
    /\ UNCHANGED <<disk, service, counts>>

\* The directory's lock, without waiting, and the directory is still empty.
Claim(p) ==
    /\ pc[p] = "claim"
    /\ IF lock # NoOne \/ manifest # NoFile \/ saved # {}
       THEN Leave(p, self[p], "refused")
       ELSE Claimed(p)
    /\ UNCHANGED <<disk, service, counts>>

\* lr_open_session.  The session may exist although the call fails: the answer was
\* lost, or the local handle of the session could not be saved.
Open(p) ==
    /\ pc[p] = "open"
    /\ \/ /\ session' = [session EXCEPT ![p] = "open"]
          /\ Goto(p, "survey", [self[p] EXCEPT !.owned = TRUE])
       \/ /\ Faults \cap {"service", "write", "interrupt"} # {}
          /\ session' \in {session, [session EXCEPT ![p] = "open"]}
          /\ Raise(p)
    /\ UNCHANGED <<disk, sent, job, counts>>

\* evtx.select
Selected(listed) ==
    [l \in Logs |-> IF listed[l] = Absent THEN "absent"
                    ELSE IF listed[l] < MinBytes \/ listed[l] > MaxBytes THEN "skipped"
                    ELSE "planned"]

\* Waiting for the session, its definitions, the one dir of the folder, and the
\* selection with the check of the listed total.
Survey(p) ==
    /\ pc[p] = "survey"
    /\ \/ \E listed \in [Logs -> Sizes \cup {Absent}] :
             LET rows == Selected(listed)
                 Planned == {l \in Logs : rows[l] = "planned"}
             IN  IF FoldFunctionOnSet(+, 0, listed, Planned) > MaxTotalBytes
                 THEN Raise(p)
                 ELSE Goto(p, "create", [self[p] EXCEPT !.rows = rows, !.listed = listed])
       \/ "service" \in Faults /\ Raise(p)
    /\ UNCHANGED <<disk, service, counts>>

\* The first manifest.
Create(p, outcome) ==
    /\ pc[p] = "create"
    /\ Save(self[p].rows, outcome)
    /\ IF outcome = "ok" THEN Goto(p, "next", self[p]) ELSE Raise(p)
    /\ UNCHANGED <<saved, service, counts>>
-----------------------------------------------------------------------------
(* One log: _fetch and _follow.                                            *)

Planned(p) == {l \in Logs : self[p].rows[l] = "planned"}

With(me, l, status) == [me EXCEPT !.rows[l] = status, !.log = l]

\* The loop over the rows is over.
Finish(p) ==
    /\ pc[p] = "next" /\ (self[p].stopped \/ Planned(p) = {})
    /\ CleanUp(p, [self[p] EXCEPT !.listed = NewCollector.listed, !.log = NoFile])
    /\ UNCHANGED <<disk, service, counts>>

Affordable(p, l) == self[p].remaining > 0 /\ self[p].listed[l] <= self[p].remaining

OverBudget(p, l, outcome) ==
    /\ pc[p] = "next" /\ ~self[p].stopped /\ l \in Planned(p)
    /\ ~Affordable(p, l)
    /\ Save(self[p].rows, outcome)
    /\ Goto(p, "next", [self[p] EXCEPT !.stopped = TRUE,
                                       !.failures = self[p].failures \/ outcome # "ok"])
    /\ UNCHANGED <<saved, service, counts>>

\* The row becomes outcome-unknown on disk before anything is sent.
Intend(p, l, outcome) ==
    /\ pc[p] = "next" /\ ~self[p].stopped /\ l \in Planned(p)
    /\ Affordable(p, l)
    /\ LET me == With(self[p], l, "outcome-unknown")
       IN  /\ Save(me.rows, outcome)
           /\ IF outcome = "ok" THEN Goto(p, "send", me)
              ELSE Goto(p, "next", Failing(me, TRUE))
    /\ UNCHANGED <<saved, service, counts>>

\* The service takes the job, or not.
Taken(l) ==
    /\ sent' = [sent EXCEPT ![l] = @ + 1]
    /\ job' = [job EXCEPT ![l] = "running"]
NotTaken == UNCHANGED <<sent, job>>

\* Variant: a submission that failed without an answer is recorded as failed.
SendForgetful(p) ==
    /\ pc[p] = "send"
    /\ LET me == self[p]
           l == self[p].log
       IN  \/ Taken(l) /\ Goto(p, "noteAccepted", With(me, l, "accepted"))
           \/ /\ "service" \in Faults /\ (Taken(l) \/ NotTaken)
              /\ \E stop \in BOOLEAN :
                    Goto(p, "noteRefused", Failing(With(me, l, "failed"), stop))
    /\ UNCHANGED <<disk, session, counts>>

\* lr_submit: accepted; refused; no answer (OUTCOME_UNKNOWN); any other exception,
\* which ends up in _collect; or an interrupt while it is under way.
Send(p) ==
    /\ pc[p] = "send"
    /\ LET me == self[p]
           l == self[p].log
       IN  \/ Taken(l) /\ Goto(p, "noteAccepted", With(me, l, "accepted"))
           \/ /\ "service" \in Faults /\ NotTaken
              /\ \E stop \in BOOLEAN :
                    Goto(p, "noteRefused", Failing(With(me, l, "failed"), stop))
           \/ /\ "service" \in Faults /\ (Taken(l) \/ NotTaken)
              /\ \/ \E stop \in BOOLEAN : Goto(p, "noteRefused", Failing(me, stop))
                 \/ Goto(p, "next", Failing(me, TRUE))
           \/ "interrupt" \in Faults /\ Taken(l) /\ Raise(p)
    /\ UNCHANGED <<disk, session, counts>>

\* Saving after a failed submission.
NoteRefused(p, outcome) ==
    /\ pc[p] = "noteRefused"
    /\ Save(self[p].rows, outcome)
    /\ Goto(p, "next", IF outcome = "ok" THEN self[p] ELSE Failing(self[p], TRUE))
    /\ UNCHANGED <<saved, service, counts>>

\* Saving inside _accepted: a failure is one more error of the row.
NoteAccepted(p, outcome) ==
    /\ pc[p] = "noteAccepted"
    /\ Save(self[p].rows, outcome)
    /\ IF outcome = "ok" THEN Goto(p, "follow", self[p])
       ELSE Goto(p, "noteError", Failing(self[p], TRUE))
    /\ UNCHANGED <<saved, service, counts>>

\* _poll: the job has not ended in time (or reports a state that is not known), has
\* failed, or has succeeded; or an error.
Follow(p) ==
    /\ pc[p] = "follow"
    /\ LET me == self[p]
       IN  \/ /\ job[me.log] = "running" \/ "service" \in Faults
              /\ Goto(p, "noteFollowed", Failing(me, FALSE))
           \/ /\ job[me.log] = "failed"
              /\ Goto(p, "noteFollowed", Failing(With(me, me.log, "failed"), FALSE))
           \/ job[me.log] = "succeeded" /\ Goto(p, "download", me)
           \/ /\ "service" \in Faults
              /\ \/ \E stop \in BOOLEAN : Goto(p, "noteError", Failing(me, stop))
                 \/ Goto(p, "next", Failing(me, TRUE))
    /\ UNCHANGED <<disk, service, counts>>

Cap(p) == Smaller(MaxBytes, self[p].remaining)

\* Variant: the run goes on after a failed download.
DownloadGoesOn(p) ==
    /\ pc[p] = "download"
    /\ \E n \in 0..Cap(p) :
          /\ spent' = [spent EXCEPT ![p] = @ + n]
          /\ \/ /\ saved' = saved \cup {self[p].log}
                /\ Goto(p, "noteFollowed",
                        [With(self[p], self[p].log, "completed") EXCEPT !.remaining = @ - n])
             \/ Goto(p, "noteError", Failing(self[p], FALSE)) /\ UNCHANGED saved
    /\ UNCHANGED <<manifest, service, attempts>>

\* download_transfer publishes the whole file, or nothing after having written some of
\* it.  Logs grow: the size is not the one listed.  Any failure stops the run.
Download(p) ==
    /\ pc[p] = "download"
    /\ \E n \in 0..Cap(p) :
          /\ spent' = [spent EXCEPT ![p] = @ + n]
          /\ \/ /\ saved' = saved \cup {self[p].log}
                /\ Goto(p, "noteFollowed",
                        [With(self[p], self[p].log, "completed") EXCEPT !.remaining = @ - n])
             \/ Goto(p, "noteError", Failing(self[p], TRUE)) /\ UNCHANGED saved
             \/ Goto(p, "next", Failing(self[p], TRUE)) /\ UNCHANGED saved
    /\ UNCHANGED <<manifest, service, attempts>>

NoteFollowed(p, outcome) ==
    /\ pc[p] = "noteFollowed"
    /\ Save(self[p].rows, outcome)
    /\ IF outcome = "ok" THEN Goto(p, "next", self[p])
       ELSE Goto(p, "noteError", Failing(self[p], TRUE))
    /\ UNCHANGED <<saved, service, counts>>

\* Saving in the handler of an error of an accepted job.
NoteError(p, outcome) ==
    /\ pc[p] = "noteError"
    /\ Save(self[p].rows, outcome)
    /\ Goto(p, "next", [self[p] EXCEPT !.stopped = @ \/ outcome # "ok"])
    /\ UNCHANGED <<saved, service, counts>>
-----------------------------------------------------------------------------
(* Closing and reporting.                                                  *)

\* _close in the finally clause: confirmed, unconfirmed, or an exception, which must
\* not hide an earlier one.
Close(p) ==
    /\ pc[p] = "close"
    /\ attempts' = [attempts EXCEPT ![p] = @ + 1]
    /\ LET me == self[p]
           End(m) == IF m.primary THEN Leave(p, m, "error") ELSE Goto(p, "report", m)
       IN  \/ /\ session' = [session EXCEPT ![p] = "closed"]
              /\ End(me)
           \/ /\ session' \in {session, [session EXCEPT ![p] = "closed"]}
              /\ "service" \in Faults /\ End(Failing(me, FALSE))
           \/ /\ session' \in {session, [session EXCEPT ![p] = "closed"]}
              /\ Faults \cap {"service", "interrupt"} # {} /\ Leave(p, me, "error")
    /\ UNCHANGED <<disk, sent, job, spent>>

\* Variant: only failures make a result partial.
ReportFailures(p) ==
    /\ pc[p] = "report"
    /\ Leave(p, self[p], IF self[p].failures THEN "partial" ELSE "complete")
    /\ UNCHANGED <<disk, service, counts>>

\* _report: the receipt artifact, and PartialSuccessError unless all went well.
Report(p) ==
    /\ pc[p] = "report"
    /\ LET incomplete == \E l \in Logs : self[p].rows[l] \notin Deliberate
       IN  \/ Leave(p, self[p], IF incomplete \/ self[p].failures THEN "partial" ELSE "complete")
           \/ "write" \in Faults /\ Leave(p, self[p], "error")
    /\ UNCHANGED <<disk, service, counts>>

\* Ctrl-C.
Interrupt(p) ==
    /\ "interrupt" \in Faults
    /\ \/ pc[p] \in Working /\ Raise(p)
       \/ pc[p] \in {"claim", "report"} /\ Leave(p, self[p], "error")
    /\ UNCHANGED <<disk, service, counts>>

\* The process is killed.
Crash(p) ==
    /\ "crash" \in Faults /\ pc[p] \notin {"new", "done"}
    /\ Leave(p, self[p], "killed")
    /\ UNCHANGED <<disk, service, counts>>

\* The device finishes a job.
JobEnds(l) ==
    /\ job[l] = "running"
    /\ \E how \in {"succeeded", "failed"} : job' = [job EXCEPT ![l] = how]
    /\ UNCHANGED <<lock, disk, sent, session, pc, self, counts, result>>
-----------------------------------------------------------------------------
Step(p) ==
    \/ Claim(p) \/ Open(p) \/ Survey(p) \/ Finish(p) \/ Send(p) \/ Follow(p) \/ Download(p)
    \/ Close(p) \/ Report(p)
    \/ \E outcome \in Outcomes :
          \/ Create(p, outcome) \/ NoteRefused(p, outcome) \/ NoteAccepted(p, outcome)
          \/ NoteFollowed(p, outcome) \/ NoteError(p, outcome)
          \/ \E l \in Logs : OverBudget(p, l, outcome) \/ Intend(p, l, outcome)

Next ==
    \/ \E p \in Collectors :
          \/ Prepare(p) \/ Step(p) \/ Interrupt(p) \/ Crash(p)
    \/ \E l \in Logs : JobEnds(l)

Spec == Init /\ [][Next]_vars
-----------------------------------------------------------------------------
(* Properties.                                                             *)

\* The manifest implements SubmissionRecord: an intent on disk before each submission,
\* one submission per log for all the collections into the directory, and entries that
\* only go forward.
Entry(status) ==
    CASE status \in {"planned", "absent", "skipped"} -> "none"
      [] status = "outcome-unknown" -> "intended"
      [] OTHER -> status
Entries == [l \in Logs |-> IF manifest = NoFile THEN "none" ELSE Entry(manifest[l])]
Over == [l \in Logs |-> IF job[l] \in {"succeeded", "failed"} THEN job[l] ELSE "no"]

S == INSTANCE SubmissionRecord WITH entry <- Entries, over <- Over
ImplementsRecord == S!Spec

\* What the receipt and the manifest of a collection say of a log is true: not sent if
\* it says so, a failed row has no job that could still produce the file, a completed
\* one has its file.
Truthful(status, l) ==
    /\ status \in {"planned", "absent", "skipped"} => sent[l] = 0
    /\ status = "failed" => sent[l] = 0 \/ job[l] = "failed"
    /\ status = "accepted" => sent[l] = 1
    /\ status = "completed" => l \in saved

RecordsAreTrue ==
    /\ manifest # NoFile => \A l \in Logs : Truthful(manifest[l], l)
    /\ \A p \in Collectors : result[p] \in {"partial", "complete"} =>
          \A l \in Logs : Truthful(self[p].rows[l], l)

\* No collection writes more than --max-total-bytes, what it wrote of abandoned
\* downloads included: the reason why any failed download stops the run.
BudgetKept == \A p \in Collectors : spent[p] <= MaxTotalBytes

\* A session that the command knows it opened gets exactly one close request before the
\* command ends, whatever ended it short of the process being killed.
OwnedClosedOnce ==
    \A p \in Collectors :
        /\ attempts[p] <= 1
        /\ attempts[p] = 1 => self[p].owned
        /\ pc[p] = "done" /\ result[p] # "killed" /\ self[p].owned => attempts[p] = 1

\* Exit code 0 means everything selected is on disk and recorded so, and the session
\* that was opened is closed.
CompleteMeansComplete ==
    \A p \in Collectors : result[p] = "complete" =>
        /\ manifest = self[p].rows
        /\ \A l \in Logs : manifest[l] \in Deliberate /\ (sent[l] > 0 => l \in saved)
        /\ session[p] # "open"

=============================================================================
