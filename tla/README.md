# Verification of m365-xdr-cli

TLA+ models of `xdr`, a command-line client for Microsoft Defender XDR, with TLC
runs and TLAPS proofs. `xdr` is a Python program of short-lived processes. Nothing
runs in the background: all concurrency is between operating-system processes (an
analyst's terminals, agents that run one process per command) that share files under
`~/.xdr-cli/`, and between those processes and the remote service. Failures are
processes that die, `OSError` from the file system, lock timeouts (5 seconds,
`_lock.py`) and HTTP errors.

Source paths below are relative to `src/src/xdr_cli/`.

## 1. Inventory

| Component | State it keeps | Operations | What is hard | What makes it correct |
|---|---|---|---|---|
| Sessions (`sessions.py`, `commands/session_cmd.py`, `commands/annotate_cmd.py`) | id counter, active markers, a journal per session with a seq counter and a feedback counter | resolve, create, touch, rotate, retire, start, end, resume, annotate, feedback, flush | a command resolves its session when it starts and records itself when it ends; several processes end one session; marker and journal are two files | closed once, nothing recorded after the end, tally final, seqs increasing, annotations have targets, a live session keeps its marker |
| Locks (`_lock.py`) | one lock file per path | acquire with timeout, release | lock order, owner dies | nobody waits for ever |
| Dispatch and gates (`main.py`) | `Recorder` of the process | callback, leaf hook, body, flush in `finally`, learning gate, redaction, audit log | which error leaves which stage; the gate reads state again | telemetry does not block; gate blocks exactly unannotated work |
| Live Response aliases, handles (`live_response/session_aliases.py`, `handles.py`) | alias registry, loss marker, a handle per session with working directory | assign, resolve, remember, mark missing, cd submission and completion | two-file initialisation, crash between handle and registry, completions out of order | an alias never names another session; the directory never goes back |
| Event-log collection (`commands/live_response_collect_cmd.py`, `live_response/event_logs.py`, `transfer.py`) | manifest, remaining byte budget, owned session | open, list, fetch, follow, close, report | unknown outcome of a submission, failed transfers of unknown size, cleanup under any error | no getfile is sent twice; the manifest never says less than what was sent; budget kept; owned session closed once |
| Live Response protocol (`live_response/portal.py`, `official.py`, `commands/live_response_cmd.py`) | remote sessions and commands | open, submit, poll, cancel, close, download | mutation with unknown outcome, polling deadline | mutations are not replayed |
| Result artifacts (`results.py`, `commands/results_cmd.py`) | data and metadata files, prune records | write, read, prune | two renames, prune against reader | metadata implies its data |
| Capture engine (`schema_graph/capture_*.py`, `capture_orchestration.py`) | a ledger per job with one slice per table | open or resume job, fetch, reduce, store, reconcile, hand off | crash between any two steps, retries inside budgets, prune | no captured slice is fetched again, none is lost, pins released only when indexed |
| Retention, local discovery, overlay (`schema_graph/retention.py`, `local_*.py`, `overlay.py`) | evidence, indexes, the evidence lock | prune, index, retire | lock order, pins read without lock | live evidence is not pruned |
| Schema maintenance (`session_maintenance.py`, `schema_graph/maintenance.py`) | state file, lock | run at session end, deadline | deadline against lock and child processes | bounded time |
| Authentication (`auth.py`, `portal_auth.py`, `secret_files.py`) | token cache, portal credentials | login, silent token, logout | a manager older than logout | logout is not undone |
| API clients (`client.py`, `portal_client.py`, `backends.py`, `api/timeline.py`, ...) | access token in memory | request, page, continue | one re-authentication, partial pages | no silent loss of rows |
| Device management (`device_management.py`) | none locally | tags, history, cancel, investigate | no compare-and-swap upstream; paging a changing list | completeness claimed only when true |
| Schema graph (`schema_graph/model.py`, `traversal.py`, ...) | in-memory graph | build, merge, query | none concurrent | pure functions |
| Reference documents (`schema_graph/reference_*.py`) | ledgers of validated routes, two kinds of pointers, artifacts | init, read, collect obsolete ledgers | readers without a lock, two writers, prune | what the ledger claims can be shown |
| Hunting library, other commands | downloaded data, text | look up, render | little | not modelled |

Interactions: every command goes through dispatch, which resolves a session before the
body and flushes a record after it; the bodies write result artifacts that carry the
session's id; capture and retention meet in the evidence lock; Live Response commands
share handles and aliases with the event-log collector.

`PROJECT.json` lists every component with its status, and every hazard at its line
with the properties that cover it or the reason why none does yet.

## 2. Plan

1. **Sessions** (`SessionRecords`, `SessionJournal`, `SessionStore`): done, section 3.
2. **Live Response aliases** (`AliasBook`, `LiveResponseAliases`): done, section 4.
3. **Event-log collector** (`SubmissionRecord`, `EventLogCollection`): done, section 5.
4. **Live Response commands** and the working directory (`LiveResponse`): done, section 6.
5. **Capture engine** with retention and handoff (`Capture`): done, section 7.
6. **Semantic overlay**, results prune (`Overlay`): done, section 8.
7. **Paths through the schema** (`SchemaPath`): done, section 9.
8. **Reference documents** (`ReferenceLedger`): done, section 10.
9. **Token cache and session-end maintenance** (`TokenCache`, `SchemaMaintenance`): done,
   section 11.
10. **Response actions, tags, incidents** (`ResponseActions`): done, section 12.
11. Left: paged readings (the action history's `complete`, timelines, continuation links),
    the learning gate of `main.py` on top of the journals, torn journal lines, alert
    anchors, candidate review and bundles of the schema graph.

No module with theorems uses a recursive operator.

## 3. The session model

### Modules

* `SessionRecords`: the lines of a journal and the functions that read one
  (`_already_ended_unlocked`, `_hydrate_from_jsonl`, `_invocation_seq_exists`), and what
  `write_session_end_record` appends.
* `SessionJournal`: the abstract specification. A journal only grows: a header, an
  invocation into a journal that can be loaded and is not closed, the closing pair with
  the right tally, a remark on an invocation of the same journal, an assessment.
* `SessionStore`: the code. Several processes, each at a program counter `pc[p]` with
  locals `loc[p]`, over shared files.
* `MCSessionStore`: the command lines of the TLC runs.
* `SessionStoreProofs`: theorems.

### State

| Variable | In the program |
|---|---|
| `counter` | `.counter-<initials>`; one operator |
| `log[s]` | `sessions/<id>.jsonl` |
| `seqf[s]`, `fbseq[s]` | `.seq-<id>`, `.feedback-seq-<id>` |
| `marker[s]` | `active_sessions/<id>`, the Session in it or `None` |
| `lock[s]` | who holds `<id>.jsonl.lock` |
| `seqlock[s]`, `fblock[s]` | who holds `.seq-<id>.lock`, `.feedback-seq-<id>.lock` |
| `now` | the clock, as far as idle timeouts need it |
| `pc[p]`, `loc[p]` | the process; `Fresh` when none runs |
| `left` | commands still to be run (a bound) |

Of a Session the model keeps the id, whether the CLI made it, the incident anchor and
the time of last activity: what resolution depends on.

### Actions

A step is what happens between two points at which another process can interfere: a
section under a lock, or one unlocked read or unlink. The scan of the markers is one
step per marker to look at the journal and one to read marker and header, because a
session may end in between. `create_session` is three steps (id, marker, header). The
life of a process:

    Begin -> scan (callback) -> scan (leaf hook) -> attach | rotate | create | nothing
          -> body of the command -> flush

`_do_flush` and `append_session_feedback` take the journal's lock and inside it the
counter's, so that a process holds two at once; both locks are variables, and each of the
two functions is several steps:

    FlushEnter (journal lock) -> FlushNumber (counter lock) -> FlushBump (counter freed)
          -> FlushHeader -> FlushAppend (journal freed)
    FeedbackEnter -> FeedbackNumber -> FeedbackBump -> WriteFeedback

The locks of a marker and of the id counter are taken alone and cover one step each.

Faults: `Fail` (an `OSError`, a lock timeout among them, at any step that touches a file;
what follows depends on the stage, as in `run`), `Crash` (the process dies, and the kernel
frees every lock it holds), `TornCounter`, `TornSeq` and `TornFeedback` (`_bump_counter`
truncates before it writes, and an empty counter reads as 0). `Faults` selects which.
An unlink whose error the code suppresses may fail to happen (`TryUnlink`).

Definitions introduced as variants are `SessionStore` operators with one mistake in
them, such as a missing check. No action uses them: replacing the operator by its variant
shows that a property would notice.

### Runs

Two processes in each run: every race listed in the hazards is between two. `Budget`
bounds the commands, `MaxSid` the ids, `MaxNow` the clock; `IdleLimit` is the idle timeout.

| Run | Bounds | Shows |
|---|---|---|
| `SessionLifecycle` | 3 commands of hunt on two incidents, end, annotate, resume, feedback; 2 sessions; one idle timeout; errors, crashes, a torn id counter | the closing record counts all that came before it, seqs increase, a marker goes only after the end of its session; implements `SessionJournal` |
| `SessionProgress` | 3 commands of start, concurrent start, end, one in `XDR_SESSION`, feedback; 3 sessions; torn session counters; weak fairness | every command ends although locks are taken inside locks, and stale markers are gone when all processes have exited |

Three commands are what the races need: one to create a session, two to meet in it;
`end` by one process while the other is between its resolution and its flush happens in
every run. Deadlock checking is off because a run stops when `left` is 0.

The model also shows, without a run of their own:

* The marker of a new session is published before its header, so another command's
  invocation record can make up the header of the journal before the creator does.
* A touch that lost the race with `end` writes the marker of an ended session back
  (`docs/sessions.md:135` says that it is durably removed); it stays until the toucher's
  flush or the next scan, which is what `NoStaleMarkerAtRest` is about.
* An `OSError`, or a lock that is not free in five seconds, in the hook's resolution ends
  the command before its body (`docs/sessions.md:4` says that telemetry never blocks).
* An error between the seq counter and the record leaves a gap in the seqs, so that "seq
  counter == count of written invocation records" (`sessions.py:1103`) holds only until an
  append fails; a torn counter starts again at 1; resume of a live session puts the header's time back into
  the marker, which may then be retired as idle.

### Fairness

`FairSpec` adds weak fairness of each process's own steps: the operating system runs
every process, and no step waits for anything but a lock. It assumes nothing of users
(`Begin`), faults or the clock. `EveryCommandReturns` then says that a lock always
becomes free without its timeout being needed. That is the code's own claim: "no other
writer takes seq-then-JSONL, so no deadlock" (`sessions.py:1104`). A flush that took the
counter's lock first would wait for ever on another that holds the journal's.

### Proofs

For any number of processes, sessions, commands, anchors, and every set of faults:

* `TypeCorrect`: `Spec => []TypeOK`. `TypeOK` is not inductive: `loc[p].sess` may be
  `None` in general and an action that uses `loc[p].sess.id` needs it not to be. `Typed`
  adds, for each label, what a process there holds (`LocalOK`).
* `KeepsThePromise`: `Spec => JournalPromise`, the refinement of `SessionJournal`. The
  invariant is `Promised`: every journal is empty, loadable or ended (`Sound`), and each
  process may rely on what it found before (`ReliesOn`): the journal it has locked is not
  ended, the target it chose for an annotation is in the journal, the session whose
  feedback it writes can be loaded, the session whose marker it is about to remove is
  ended. These survive the steps of others because journals only grow (`Extensions`) and
  a locked journal does not change (`OnlyHolderWrites`).
* `EndedOnce`, `EndIsFinal`, `TallyIsRight`, `AnnotationsAreTargeted`,
  `RecordsAreLoadable` follow from the steps of `SessionJournal` alone, by an invariant
  over the abstract specification (`AllGood`).
* `LiveMarkersStay`: `Spec => MarkerGoesOnlyAfterEnd`.
* `SeqsGoUp`: `Spec => []SeqsIncrease`, on the condition that no counter of a session is
  torn, which is what breaks it. The invariant is `Seqs`: the counter is not behind the journal,
  and a process inside the locked section has a seq beyond those in the journal.
* `IdsAreNew`: `Spec => []NewIdsAreNew`, unless the id counter is torn: the id that
  `create_session` is about to publish has no marker and no journal, no other process is
  creating it, and none has it as its recorder's session or among those it found. The
  invariant is `Ids`: what is shown in a file or mentioned by a process has an id that was
  taken and published before, and markers and headers carry the id they are filed under.
* `NoStaleLeft`: `Spec => []NoStaleMarkerAtRest`, on two conditions. Without errors and
  crashes (torn session counters are allowed), because a command that fails or dies when it
  has ended or touched a session, and before it clears or flushes, leaves the marker; and
  without `session resume` (`NoResume`), because it writes a marker from a header it read
  before, and another process may have ended the session meanwhile. TLC finds both
  counterexamples at once; the next scan removes either marker. Under the conditions the
  invariant is `Paid`: each marker of an ended session is owed by a process that will clear
  it, because it ended the session, or because it touched it and its flush or its scan of
  the markers is still to come (`Owes`). `Calm` says where a process may skip its flush: only
  when its scan has looked at every marker, or at the one of `XDR_SESSION`.

Assumptions on the constants are named (`SizesAssumption`, `NoneAssumption`,
`StoreAssumption`, `CommandAssumption`) and evaluated by TLC in every run.

Only model-checked: liveness, which is beyond the prover, as is anything about `ENABLED`.

### Not in the session model

Names, labels, owners and learning mode of a session; the contents of records beyond
what is read back; lines torn by a crash; alert anchors (`alerts_cmd.py` resolves its
session late); the anchor that `incidents update` sets before its own work; more than one
operator's counter; file permissions; the notices on the terminal. `session list` and the review report only read. Retirement by the clock is
kept to one timeout value.


## 4. The alias model

### Modules

* `AliasBook`: the abstract specification: a set of bindings that only grows, each new
  one with an alias and a session that no binding had.
* `LiveResponseAliases`: `session_aliases.py` and the alias half of `handles.py`.
* `LiveResponseProofs`: its theorems too, beside those about the other half of `handles.py`
  (section 6). It extends both modules; what the two have by the same name is called
  differently here (`Peers`, `phase`, `handles`, `AliasSpec`, `BeginOperation`, ...).

### State

| Variable | In the program |
|---|---|
| `registry` | `aliases.json`, its counter and bindings, or `NoFile` |
| `marker` | whether `aliases.initialized` exists |
| `handles[s]` | the handle file of session `s`: its device and its alias |
| `sessionLock[s]`, `registryLock` | who holds the lock files, over several steps |
| `phase[p]`, `task[p]` | a process in an operation and its local variables |
| `issued`, `told`, `resolved` | history: bindings written, aliases shown, aliases resolved |
| `ops`, `lost` | bounds |

### Actions

`remember_session`, `load_session` (listing, and what other commands call) and
`resolve_session_id` are the operations. A step is one file operation between two points
at which another process may run; the locks are variables because an operation holds the
session's lock over all of `_alias` and the registry's over all of `assign`:

    Remember ----------------> Assign -> EnsureMarker -> PublishRegistry -> Verify -> SaveSession -> Load
    Show -> Load -> LockAlias -> Read | Adopt -> [Assign ...] -> SaveAlias
    Resolve -> Read | Adopt -> Load -> LockAlias -> Read | Adopt -> ...

A write ends in one of three ways: done, not done, or done although an error is
reported (`os.replace` succeeded, something after it did not). What the error does
depends on the operation: `remember_session` goes on without an alias, `_alias` gives
up. `Timeout` is a lock that is not free within five seconds, `Die` a process that
dies. `LoseRegistry`, `LoseMarker` and `LoseHandle` are somebody deleting files, the
case for which the marker and the scan of the handles exist. `Losses` and
`AliasFaults` select which may happen.

A reader looks at registry and marker in one step; the code reads the one right after
the other.

### Runs

Two processes, two sessions, two devices: two sessions are what an alias needs to be given
twice, two devices what a session needs to come back as another one.

| Run | Bounds | Shows |
|---|---|---|
| `Aliases` | no registry at first, handles as they may be; 2 operations at once or in turn; aliases up to 2; registry, marker or a handle lost once; failing writes, crashes, lock timeouts; weak fairness | an alias names one session of one device; a handle keeps its device and its alias; implements `AliasBook`; every operation ends |

A registry whose marker was lost is adopted as one from before there was a marker is.
Two operations are enough for each of the races and losses; that the safety properties
hold for more is proved below.

The model also shows that `docs/live_response.md:42`, "aliases the first time they are
listed", has an exception without any fault: of two first listings that race, one can see
the marker of the other before its registry, and then lists the session without an alias.

`AliasFairSpec` is weak fairness of each process's own steps, without the lock timeouts:
`OperationsEnd` then says that the lock order alone, session before registry, excludes
waiting for ever.

### Proofs

Under `LossSafe` (the registry is never lost, or neither is the marker and there was no
registry from before the marker), for any number of processes, sessions, devices and
operations, and every set of faults: `AliasTypeCorrect`, `AliasesAreSafe`, `NothingRecycled`,
`LossesNoticed`, `ImplementsTheBook` and `HandlesAreStable`.

`RegistryKeepsAll` is not inductive: between `Assign` and `PublishRegistry` the holder of the
lock works on a copy. `IInv` says that the copy is all that was issued (`Local`), that
only a holder is between those steps, and that a registry may be missing without notice
only when nothing was issued (`MissingIsEmpty`, `LossIsNoticed`). `HandlesAreStable`
needs a second one, `HInv`: a process that holds a session's lock has read the handle it
is about to replace.

Only model-checked: liveness. Losses of registry and marker together, where safety rests
on the handles alone, are outside `LossSafe` and in no run.

### Not in the alias model

The validation of file contents and permissions (an invalid file raises as a missing one
does), the remote state of a session in its handle and its working directory, which section 6
models.

## 5. The event-log collection

### Modules

* `SubmissionRecord`: the abstract specification, "Nothing is ever resubmitted"
  (`docs/live_response.md`): per log, the record announces a submission before it is made,
  there is one at most, and the record only moves forward and only to what is true.
* `EventLogCollection`: `live_response_collect_cmd.py` with `event_logs.py` and the
  bounded download of `transfer.py`.
* `MCEventLogCollection`: symmetry for TLC.
* `EventLogCollectionProofs`: theorems.

### State

| Variable | In the program |
|---|---|
| `lock` | holder of `manifest.json.lock` in the output directory |
| `manifest`, `saved` | `manifest.json` (the status of each log), the downloaded files |
| `sent[l]`, `job[l]`, `session[p]` | the service: accepted getfile jobs of a log, their state, the session opened for a collector |
| `pc[p]`, `self[p]` | a `_Collector`: its rows, sizes as listed, remaining bytes, whether it owns the session, has to stop, has failures; `primary` is an exception on its way through `finally` |
| `attempts[p]`, `spent[p]`, `result[p]` | history: close requests, bytes written to disk, how the run ended |

A collector is one run of the command. Several may be started with the same directory,
at once or after one died. The service, the device and the network are the outcomes of
the calls; a log can be larger when it is fetched than it was when it was listed.

### Actions

    Prepare -> Claim -> [Open] -> Survey -> Create
            -> next: Intend -> Send -> NoteAccepted -> Follow -> Download -> NoteFollowed -> next
                     Send -> NoteRefused -> next;  error of an accepted job -> NoteError -> next
                     OverBudget, Finish
            -> [Close] -> Report

Each step is one call to the service or one file operation, because a crash, Ctrl-C or
another collector may come between any two. `Send` has all endings of `lr_submit`:
accepted; refused; no answer, with the job taken or not; another exception, likewise.
Saving has three endings, as in section 4. `Raise` and `CleanUp` are the `finally` of
`run`; `Close` has the endings confirmed, unconfirmed and exception, each of which must
not hide an earlier error. `Interrupt` is Ctrl-C, `Crash` the death of the process.
The rows are fetched in any order, since the properties do not depend on it.

### Runs

| Run | Bounds | Shows |
|---|---|---|
| `Collection` | 2 collectors, 2 logs, sizes 0 to 2, at least 1 and at most 2 bytes per log, 3 in all; failing saves, lost answers, interrupts, crashes | all properties below; implements `SubmissionRecord` |

Two collectors are needed for the race between looking at the directory and taking its
lock, and for a directory that a dead collector left behind. Two logs and a total below
twice the limit of one make the budget bind: after an abandoned download of one log there
may not be enough for the other. A size below and above the limits is skipped.

`RecordsAreTrue`: what manifest and receipt say is true whatever went wrong in between.
`BudgetKept`: abandoned downloads count, although their size is unknown to the command.
`OwnedClosedOnce`: one close request for a session known to be owned. `CompleteMeansComplete`:
exit code 0 is never wrong. The model also shows that a session that was accepted is not
closed when its local handle cannot be saved, although `docs/live_response.md:209`
promises an attempt after any failure: ownership is noted after the save. No liveness is stated: the command waits for a device that
need not answer and stops by its own deadlines, and its loops are bounded by the rows.

### Proofs

For any number of collectors and logs, any sizes and limits, and every set of faults:
`TypeCorrect`, `RecordsTrue`, `BudgetHolds`, `ClosedOnce`, `CompleteHolds` and
`RecordImplemented`. The assumptions are those of `CollectionAssumption`.

None of the properties is inductive. `IInv` relates, at each point of a collector, its
rows in memory to the manifest and the service (`Fits`): equal where the code has just
saved, otherwise apart by one move forward in the row being fetched (`Behind`), with
every row true of the service (`Sound`); it does the accounts of bytes and of the session
(`Account`); and it says why others do not disturb this: a collector inside holds the
lock, there is no manifest before its own, and once a run has reported nobody is inside
again, because nobody enters a directory with a manifest (`Frozen`). One lemma for each
way to end a step (`GotoStep`, `LeaveStep`, `CleanUpStep`) does what is common to all
actions; each action then has a lemma of its own.

### Not in the collector model

Hashes and file names, the recovery commands printed for an unknown outcome, permissions
of the directory, the decoding of the directory listing, a command line that cannot be
built (`live_response_collect_cmd.py:366`: before the intent is recorded, so that it ends
like any other exception there). The protocol below (`lr_submit`
and its classification of errors) is modelled by its outcomes only.


## 6. Live Response commands and the working directory

`LiveResponse` is `live_response_cmd.py` over both backends (`portal.py`, `official.py`)
and the directory half of `handles.py`; `MCLiveResponse` adds symmetry,
`LiveResponseProofs` the theorems.

`session` and `command` are the service: the state of the remote session and of its
commands, in the order in which the service created them. `handle` is the local file with
the working directory (`cwd`), the time it is from and a pending `cd`; `file` is an
output file. Each process runs one of exec, open, close, cancel, get.

The service is external. A call is answered, refused, or its answer is lost, in which
case the service may or may not have acted. The official backend answers cancellation by
itself; the portal backend reads the state again. An exec is

    check -> submit -> mark (pending directory) -> poll ... -> apply (directory) -> save output

with one step per call or file operation, an error path from each, and the verdicts the
code prints: `failed`, `accepted`, `unknown`, `done`.

Bounds: two processes, two remote commands, three invocations, one waiting poll; lost
answers, failing writes, crashes. Two commands are what an order can be wrong with, and
the third invocation is the one that reads what they left. Deadlock checking is off
because invocations are bounded.

| Property | Shows |
|---|---|
| `VerdictsAreTrue` | an error that lets the user repeat the request means that the service did nothing |
| `CompletedIsSaved` | an exec of `cd` that reports completion has its directory saved, or a later one has taken its place |
| `CwdNeverRewinds` | results in any order never take the directory back |
| `OutputIsKept` | a saved output goes only with `--force`, although the look and the write are apart |

Proved for any number of processes, commands and calls and all faults: `TypeCorrect`,
`VerdictsTrue`, `CompletedSaved`, `NoRewind`, `OutputStays`. Not modelled: parsing of
commands and output, the upload library, paging of session lists.

## 7. Capture, retention and handoff

`Capture` is `capture_engine.py`, `capture_orchestration.py`, `capture_artifacts.py`
and `retention.py`: explorers that fetch one slice per table into a job that survives
them, and a pruning that deletes what is old and not pinned. `ledgers` are the job files,
`work` the ledger in the memory of the owner of the capture lock; `stored`, `damaged`,
`old`, `retired`, `discovered` are sets of artifacts.

    open | resume job -> run -> request -> reduce | link (store) -> ... -> reconcile -> finish
    pruning: retire (publish the cutoff) -> delete one by one

Bounds: two explorers, one table, two bindings, caps of 1 and 2 rows, two calls, one
pruning, one day, one fault (crash, failing write, damaged artifact). A job of one binding
closed by a command with another, a pruning between the two locks, and a resume after a
crash all happen. One assumption is in a guard: no day passes while a command is between
its two locks (`Day`), which take seconds. The order of the pending tables is arbitrary;
`resume_after` and the surface of a job are left out, and so is all waiting: the deadline
and the total-wait budget, which several retries share, are numbers of seconds, and
`RetriesRunOut` counts attempts only. A collection that has no cache or no query left when
it starts goes to the references without a job (`capture_orchestration.py:228`); a run
stopped at its first request comes to the same, except for the job. A job superseded
without pending tables (497) does not occur. `ReadReferences` makes one step of two
readings without a lock. Of `results prune` only the second, locked plan is modelled.

| Property | Shows |
|---|---|
| `PinnedSurvives` | pruning never removes an artifact of a job that is not released |
| `ConsumedIsUsed` | a job is released only when a published discovery used all of it, or pruning retired it |
| `CapturedOnce` | a finished table is not fetched again while its artifact is sound |
| `RetriesRunOut` | a run goes back to its loop only with less left to try |

Proved: `TypeCorrect`, `ReleasedWasUsed`, `AtMostOneOpen`, `GapsAreRecorded`,
`ReleaseIsFinal`, `RetriesEnd`, `FinishedStaysFinished`, `PinnedIsKept`. The last two need
an invariant of their own, `Kept`: the ledger in memory and the one on disk have the same
finished tables, except for one whose save has just failed; and what a pruning is about to
delete is old and no unreleased job refers to it. The model also shows that a save that fails inside the evidence lock lets `_finish`
publish the artifact reference outside that lock (`capture_engine.py:989`; the comment
at 901 says that both are inside).

## 8. The semantic overlay

`Overlay` is `overlay.py` with the commands that publish: `schema collect` (its mining
and its probes), `schema observe`, `schema prune-evidence`, `results prune` and
`schema repair-overlay`. `gens` are generations, each a data and a metadata file,
`manifest` the current one, `results` the artifacts that observations rest on. A
publication checks, merges, then renames three times; retention follows it.

Bounds: two processes, three commands, one artifact each of a hunt, a probe and an
observation, the hunt's kept by a proposal, two days, five generations of which two are
kept; commands that stop anywhere, one damaged generation, an upgrade of the contract.
With two kept, the third publication deletes one. Generations are ordered by creation; a
clock that goes back is not modelled, nor is the refusal of `repair-overlay` when a
generation is from an incompatible contract (`overlay.py:498`), which changes nothing. The
tenant's lock is always inside the evidence lock, so only that one is a variable.

| Property | Shows |
|---|---|
| `CommittedIsReadable` | what the manifest names is never half-written or deleted |
| `ObservationsHaveEvidence` | no pruning deletes what a current observation rests on |
| `NothingUnseenIsDropped` | a replacement loses nothing published since it read |
| `RetiredStaysOut` | a collection that mined an artifact earlier does not publish it when a pruning has retired it, by the cutoff in force at the publication |
| `RetiredIsNotMined` | what any cutoff ever published retired is not mined again: violated, run `OverlayCutoff` |

Proved in `SchemaProofs`, which is about this module and the next section's: `TypeCorrect`,
`CommitIsWhole`, `EvidenceStays`, `NothingUnseenDropped`, `RetiredStaysRetired`, from an
invariant about the files of generations (`Files`, `GoodGens`) and what each process may rely on (`Process`).

The first four properties are those of the run `Overlay`. `OverlayCutoff` is a run that
must fail: `docs/schema_graph.md:974` promises that "a persistent tenant cutoff prevents
subsequent collection from mining retired artifacts again", and a repair that migrates a
generation writes its metadata without the cutoff (`overlay.py:388`). TLC finds upgrade,
prune-evidence, repair-overlay and collect, the last of which mines the retired hunt. The
run needs four commands, and allows no stops and no damage, so that nothing but the
migration is to blame; without the upgrade the property holds. `RetiredStaysOut` is about
the other half of the promise, a collection that mined before the pruning and publishes
after it, and speaks of the cutoff then in force only.

## 9. Paths through the schema

`SchemaPath` is `schema path` and `table_paths` (`traversal.py`): a best-first search
with bounds on hops, results and states generated, run without and with unverified
candidates. Each expansion is a step, so the queue can be seen in between.
`RoutesAreBest` compares what was returned with `Routes`, the set of all simple routes by
definition; `ReportIsTrue` says that "complete" and "disconnected" are claimed only if
so. `MCSchemaPath` has five relationships in variants (kinds, statuses, availability),
depths 1 to 3, one or two results, 3 or 100 expansions: cycles, ties, dead ends and a
search that runs out all occur. Without `--include-candidates`, tables may be reported
"disconnected" although the pass over candidates was cut short before it found the route
that would have made them "candidate-only"; the output does not show it, for `path_search`
in it is the reviewed pass's (`schema_cmd.py:5273`, `5330`). The property takes
"disconnected" as said of reviewed routes, and is not broken by it.

### Proofs

`BestRoutes` and `ReportTrue` prove both properties for every finite graph, every
availability, every limit and every way the two tables are given. `PathInvariant` is the
invariant behind them (`PathInv`, in `SchemaProofs`):

* `PathsAreTrails`, `FoundArrive`: what is queued or found is known by its steps, which are
  usable, connected and never come back, and reach the target table only at the end;
* `NothingLost`: unless states were left out, a route is found or goes on from a queued path;
* `FoundFirst`, `LastFound`: what was found comes before everything queued, and one of the
  found comes after the others;
* `FoundAreFew`: at most one route more than asked for;
* `ReportsHold`: what a search that is over has reported is so (`GoodReport`).

The code's comment that "path rank is monotone as hops are appended" is the lemma
`AddedIsLater`, and `BeginningFirst` its consequence: a path comes before every route it
can become, so that a route not yet found comes after the one the search stops at. What
holds of paths of every length is shown by the least exception to it: `LeastOne` says that
a set of numbers has a least one, from the library's theorem that `<` is well-founded on
the naturals. That needs no induction theorem, and it is enough for the one recursive
function, the ranks of a path (`RanksAre`, `RanksRanked`, `RanksGrow`). That routes are
finitely many (`FewRoutes`) rests on the assumption that graphs are finite.

The proof does not use the order in which the steps from one path are tried (`Turn`): it
matters only for which states are left out. That a search ends is not stated.

## 10. Reference documents of a tenant

`ReferenceLedger` is `schema init` and `schema reference` over `reference_state.py` and
`reference_validation.py`: two runs of init that answer routes with validation queries,
store each answer as an artifact, save a ledger and move two pointers; readings that
resolve the pointers without a lock; `results prune`. Bounds: two processes, two routes,
two option sets (init of the second with `--revalidate --max-queries 0`), two reference
snapshots, one run each, one day, three commands, one fault (crash, failing write, lock
timeout).

| Property | Shows |
|---|---|
| `EvidenceUnlessStale` | a validated route of the current ledger has its artifact, unless two writers overlapped |
| `ReadingSurvivesReplacement` | a reading that meets a replacement is repeated, not answered wrong |
| `PruneSparesEvidence` | pruning, and a write of a result that fails, spares what the ledgers in use claim |

The model also shows: a first save that dies between file and pointer makes prune refuse
until the next init; a pointer that goes away and comes back fails a reading without a
retry; two overlapping inits overwrite each other's records. Not modelled: the collection
limit of 64 files, changes of the physical schema, routes that do not compile.

### Proofs

`ReferenceLedgerProofs` proves the three properties, `TypeOK` and that no pointer ever names
a ledger that is gone (`PointersAlwaysResolve`), for any number of processes, routes,
snapshots, runs and days, every set of commands and every number of faults, from
`LedgerAssumption` alone. None of the properties is inductive. The invariant has four parts:

* `Exclusive`: a process is at a label between lock and unlock exactly when it has the lock.
  Everything that writes is there (`WritersHold`).
* `Grounded`: the claims among the records of a command were read in the ledger it started
  from, or are the one answer being published (`Carried`). This has to be said of each
  route: a publication that fails puts its own route back to pending and leaves the others
  as they are. What a ledger claims was saved before (`Older`), so that the run of a new
  answer is in nobody's way.
* `Relies`: what the holder of the lock has written so far: the artifact is whole when the
  ledger that claims it is published, the ledger's file is there when the pointer moves, and
  it started from a ledger that is still in use unless `stale` says that writers
  overlapped; a prune has doomed nothing that is claimed.
* `Follows`: a reader that fewer than two publications have met holds a ledger that is there
  until the publication ends, and then has a try left.

One step changes one process (`OneMoves`, `BystanderStays`), so that each action has a lemma
that secures the invariant for the process that takes it (`...Secures`), and for readers
`ReaderFollows` and `MoverFollows` divide the steps into the reader's own and the others'.

## 11. Tokens and session-end maintenance

`TokenCache` is `auth.py` over `secret_files.py`; `SchemaMaintenance` extends it with
`session_maintenance.py`, `cache.py`, `schema refresh` and `maintenance.py`, whose tokens
are acquired by a child process that is stopped at the deadline. Bounds: two processes,
two tokens, three cache generations, three commands, one fault (crash, failing write).

| Property | Shows |
|---|---|
| `LogoutHolds` | a token deleted by a logout never comes back, though managers loaded the cache before it |
| `NothingLost` | a token in the cache goes only by logout |
| `NoOrphanWriter` | no child is left that can still write after its parent moved on |
| `MarkedIsFresh` | collection is marked complete only on a schema that was fresh |
| `MaintenanceEnds` | the cycle ends, whatever the service does |

`FairSpec` assumes weak fairness of the passing of time and of local steps only, none of
the network's answers or of a person at the sign-in dialog. A manual refresh is not
serialised with the cycle, so an older listing may be published after a newer one; no
property forbids it.

### Proofs

`SchemaMaintenanceProofs` proves everything in the table except `MaintenanceEnds`, which is
liveness, for any number of processes, tokens, generations, commands and faults. Assumed
are `AgentAssumption`, `TokenAssumption` and `MaintenanceAssumption`: `NoOne` is neither a
process nor an agent, and the bounds are numbers.

*Tokens.* `TokenInv`: an agent is at a label inside the transaction exactly while it holds
the lock of the cache; there its memory contains the file, and nothing deleted. Without the
second half the invariant is not inductive: an agent that saves would bring back what a
logout deleted. The steps are those of `TokenNext` or use up a fault (`StepOfTokens`), so
the argument is made once (`TokenStep`), for `TokenSpec` and for the cycle. `SaveKeeps` is
the argument for `NothingLost`: only a holder replaces the file.

*Generations.* `CacheInv`: who is writing a generation holds the refresh lock, the
generation is the latest made, later than the current one and than the one found stale, and
its files are there by the time it points to it; after the publication the current
generation is later than the stale one; so is what the cycle plans with. Two lemmas about a
command that moves alone (`OneMoves`, `OneGoesOn`) leave one step per action. With it,
`CurrentIsWhole` is proved too, which no run needs any more.

## 12. Response actions, tags and incidents

`ResponseActions` is the commands that change something at the service:
`device_manage_cmd.py`, the actions of `device_cmd.py`, `incidents update`, over
`device_management.py`, `device_diagnostics.py`, `backends.py` and `official_backend.py`,
with the local file that remembers the device of an action (`action_associations.py`). A
step is one request with its answer, and the service may take a request whose answer is
lost or useless; `task[p].done` is what it took, `task[p].says` what the user is told.
Bounds of the run `Actions`: two processes, two devices of which one is unmanaged, two
tags, two actions at the service, two commands, one edit by somebody else; answers lost,
useless or 429, failing writes, crashes.

| Property | Shows |
|---|---|
| `ClaimsAreTrue` | "nothing was sent", "accepted" and "fields updated, comment unknown" are so; what is marked retryable posted no comment and, unless it was an official action, started none |
| `AssociationIsTrue` | a remembered device is the device of the action, though any may be typed and the file is written without a lock |
| `NothingSeenIsOverwritten` | replacing all tags undoes no edit made before the last look at them |

The exception in `ClaimsAreTrue` is what the code does: an action of the official backend
that times out is marked retryable (`client.py:217`), although it may have been taken, and
repeating it makes a second one. The documents promise otherwise for portal mutations only
(`docs/portal_cookie.md:199`), for which it holds. The model also shows what the properties
leave out on purpose. A tag replacement or a cancellation that was accepted is reported retryable when the
reading that verifies it fails. Two writers of different tags can both be told "verified"
while one tag is lost: the service has no conditional write, and the result says so
(`atomic_compare_and_swap`). Two troubleshooting windows can be opened at once, after which
`--off` refuses both. Not modelled: collecting and downloading packages, which only reads,
and the permissions that are listed before.

### Proofs

`ResponseActionsProofs` proves the three properties and `TypeOK` for any processes, devices,
tags and bounds and every choice of `Faults`, from `ActionAssumption` alone. `Inv` says, of
every process by its label: which commands can be there (`Doing`); what the service has done
for it so far (`Progressed`: nothing before the first request that changes something,
"write" after it); that the action it is about exists, and has the device that is about to
be noted (`Named`); and that tags are replaced when those read last are those expected
(`Compared`). `TakeGrows` is the lemma the others rest on: whatever a request does, the
actions at the service are only added to and keep their devices, so what one process knows
of an action is not disturbed by another. `AssociationIsTrue` needs no lock for that reason:
all who write the file write the same device.
