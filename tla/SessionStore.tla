---------------------------- MODULE SessionStore ----------------------------
(***************************************************************************)
(* sessions.py as several xdr processes run it at once over the files      *)
(* under ~/.xdr-cli: the operator's id counter, the active-session         *)
(* markers, and for each session its journal with its two sequence         *)
(* counters.                                                               *)
(*                                                                         *)
(* A process runs one command at a time.  Each action is what the code     *)
(* does between two points where another process can get in: one locked    *)
(* section, or one unlocked read or unlink.  The locks of a journal and of *)
(* its two counters are variables: _do_flush and append_session_feedback   *)
(* make several steps under the first and take the others inside it.  The  *)
(* locks of a marker and of the id counter are taken alone, and each       *)
(* covers a single action.                                                 *)
(*                                                                         *)
(* A definition introduced as a variant of another is that definition with *)
(* one mistake; nothing uses it.  Put in the other's place it shows that a *)
(* property notices the mistake.                                           *)
(***************************************************************************)
EXTENDS SessionRecords

CONSTANTS
    Proc,       \* the xdr processes
    Commands,   \* the command lines they may run
    Budget,     \* how many commands are run in all
    IdleLimit,  \* timeout_seconds of every session
    Faults      \* which of "fail", "crash", "torn" (id counter) and "tornSeq" (the
                \* counters of a session) may happen

ASSUME StoreAssumption ==
    /\ None \notin Proc
    /\ Budget \in Nat /\ IdleLimit \in Nat \ {0}
    /\ Faults \subseteq {"fail", "crash", "torn", "tornSeq"}

VARIABLES
    now,      \* the clock
    counter,  \* .counter-<initials>
    log,      \* sessions/<id>.jsonl
    seqf,     \* .seq-<id>
    fbseq,    \* .feedback-seq-<id>
    marker,   \* active_sessions/<id>: the Session in it, None if no such file
    lock,     \* holder of <id>.jsonl.lock
    seqlock,  \* holder of .seq-<id>.lock
    fblock,   \* holder of .feedback-seq-<id>.lock
    pc,       \* where each process is
    loc,      \* its local variables
    left      \* commands still to be run

files == <<counter, log, seqf, fbseq, marker>>
locks == <<lock, seqlock, fblock>>
vars == <<now, counter, log, seqf, fbseq, marker, lock, seqlock, fblock, pc, loc, left>>

\* Commands by what they do to sessions: "hunt" stands for _AUTO_SESSION_COMMANDS
\* (with an anchor: `incidents show <anchor>`), "browse" for every other command
\* that only records itself.
Op == {"hunt", "browse", "start", "end", "resume", "annotate", "feedback"}
Command == [op: Op,
            env: {0} \cup Sid,              \* XDR_SESSION, 0 when unset
            sid: {0} \cup Sid,              \* the SESSION_ID argument
            anchor: Anchor \cup {None},     \* the incident on the command line
            concurrent: BOOLEAN]            \* --concurrent

ASSUME CommandAssumption ==
    /\ Commands \subseteq Command /\ None \notin Commands
    /\ \A c \in Commands : c.anchor # None => c.op = "hunt"
    /\ \A c \in Commands : c.op \in {"resume", "feedback"} => c.sid # 0

\* Where a process is inside find_active_sessions, by its caller.
ScanPc == {"callback", "hook", "startCurrent", "startAll", "endCurrent", "noteCurrent"}
\* Inside resolve_session_for_invocation, after its scan.
HookPc == {"touch", "rotateEnd", "rotateClear"}
\* Inside create_session.
CreatePc == {"allocate", "publish", "header"}
BodyPc == {"body", "retirePrior", "clearPrior", "end", "endClear",
           "note", "resume", "feedback", "setAnchor"}
\* Inside append_session_feedback and inside _do_flush, holding the journal lock.
FeedbackPc == {"fbNumber", "fbBump", "fbAppend"}
LockedPc == {"number", "bump", "synth", "append"}
Pc == {"idle", "retire", "unlink", "flush"}
        \cup ScanPc \cup HookPc \cup CreatePc \cup BodyPc \cup FeedbackPc \cup LockedPc

Local == [cmd: Commands \cup {None},
          todo: SUBSET Sid,             \* markers still to scan
          seen: {0} \cup Sid,           \* the marker being scanned, once found live
          found: SUBSET Session,        \* active sessions found, or to rotate
          sess: Session \cup {None},    \* the session being worked on
          rec: {0} \cup Sid,            \* Recorder.session
          skip: BOOLEAN,                \* Recorder._skip
          seq: Nat,                     \* a seq held across steps
          ret: ScanPc]                  \* the scan a retirement returns to

Fresh == [cmd |-> None, todo |-> {}, seen |-> 0, found |-> {}, sess |-> None, rec |-> 0,
          skip |-> FALSE, seq |-> 0, ret |-> "callback"]

TypeOK ==
    /\ now \in Time
    /\ counter \in 0..MaxSid
    /\ log \in [Sid -> Journal]
    /\ seqf \in [Sid -> Nat]
    /\ fbseq \in [Sid -> Nat]
    /\ marker \in [Sid -> Session \cup {None}]
    /\ lock \in [Sid -> Proc \cup {None}]
    /\ seqlock \in [Sid -> Proc \cup {None}]
    /\ fblock \in [Sid -> Proc \cup {None}]
    /\ pc \in [Proc -> Pc]
    /\ loc \in [Proc -> Local]
    /\ left \in 0..Budget

Init ==
    /\ now = 0
    /\ counter = 0
    /\ log = [s \in Sid |-> <<>>]
    /\ seqf = [s \in Sid |-> 0]
    /\ fbseq = [s \in Sid |-> 0]
    /\ marker = [s \in Sid |-> None]
    /\ lock = [s \in Sid |-> None]
    /\ seqlock = [s \in Sid |-> None]
    /\ fblock = [s \in Sid |-> None]
    /\ pc = [p \in Proc |-> "idle"]
    /\ loc = [p \in Proc |-> Fresh]
    /\ left = Budget

-----------------------------------------------------------------------------
(* Steps shared by the commands.                                           *)

\* p goes to label l with local variables r.
Goto(p, l, r) ==
    /\ pc' = [pc EXCEPT ![p] = l]
    /\ loc' = [loc EXCEPT ![p] = r]

\* The process exits; nothing of it but its files survives.
Exit(p) == Goto(p, "idle", Fresh)

\* p goes on to the flush in run()'s finally block, remembering only what it needs.
ToFlush(p) ==
    Goto(p, "flush", [Fresh EXCEPT !.cmd = loc[p].cmd, !.rec = loc[p].rec,
                                   !.skip = loc[p].skip])

At(p, l) == pc[p] = l
Id(p) == loc[p].sess.id
Sole(S) == CHOOSE m \in S : TRUE

\* The Session another process sees for s: the marker is the mutable side, the
\* journal header the fallback.
Visible(s) ==
    IF marker[s] # None THEN marker[s]
    ELSE IF Hydrates(log[s]) THEN Header(log[s]) ELSE None

\* current_session with XDR_SESSION = s, as a set of at most one session.
EnvSession(s) ==
    IF Ended(log[s]) \/ ~Hydrates(log[s]) THEN {} ELSE {Visible(s)}

\* Enter find_active_sessions, or current_session if env is set, at label l.
StartScan(p, l, env, r) ==
    Goto(p, l, IF env = 0
               THEN [r EXCEPT !.todo = {s \in Sid : marker[s] # None}, !.found = {}]
               ELSE [r EXCEPT !.todo = {}, !.found = EnvSession(env)])

\* Variant: the seq counter is taken for the tally.
WriteEndCountingSeqs(s) ==
    /\ lock[s] = None
    /\ log' = IF Ended(log[s]) THEN log
              ELSE [log EXCEPT ![s] = Append(Append(@, Summary(seqf[s], seqf[s])),
                                             EndMark(seqf[s]))]

\* write_session_end_record: nothing if the journal is already ended.
WriteEnd(s) ==
    /\ lock[s] = None
    /\ log' = IF Ended(log[s]) THEN log ELSE [log EXCEPT ![s] = Closed(@, seqf[s])]

Unlink(s) == marker' = [marker EXCEPT ![s] = None]

\* An unlink whose OSError is suppressed: the marker may stay.
TryUnlink(s) == Unlink(s) \/ ("fail" \in Faults /\ marker' = marker)

\* _append_jsonl, and every other single-record append under the journal lock.
AppendRecord(s, r) ==
    /\ lock[s] = None
    /\ log' = [log EXCEPT ![s] = Append(@, r)]

-----------------------------------------------------------------------------
(* Starting a command, and find_active_sessions.                           *)

\* The app callback of main.py: Recorder(session = current_session()).
Begin(p) ==
    /\ At(p, "idle")
    /\ left > 0
    /\ left' = left - 1
    /\ \E c \in Commands : StartScan(p, "callback", c.env, [Fresh EXCEPT !.cmd = c])
    /\ UNCHANGED <<now, files, locks>>

\* The marker the scan of p is at: the names are sorted.
Scanning(p, s) ==
    /\ pc[p] \in ScanPc
    /\ s \in loc[p].todo
    /\ \A other \in loc[p].todo : s <= other
    /\ loc[p].seen = 0
Past(p, s) == [loc[p] EXCEPT !.todo = @ \ {s}, !.seen = 0]

\* The file has gone since the directory was listed.
ScanGone(p, s) ==
    /\ Scanning(p, s)
    /\ marker[s] = None
    /\ Goto(p, pc[p], Past(p, s))
    /\ UNCHANGED <<now, files, locks, left>>

\* A variant of ScanHeal: a marker without a journal is stale too.
ScanHealUnloadable(p, s) ==
    /\ Scanning(p, s)
    /\ marker[s] # None
    /\ Ended(log[s]) \/ ~Hydrates(log[s])
    /\ Unlink(s)
    /\ Goto(p, pc[p], Past(p, s))
    /\ UNCHANGED <<now, counter, log, seqf, fbseq, locks, left>>

\* The marker of an ended session: removed without the marker lock.
ScanHeal(p, s) ==
    /\ Scanning(p, s)
    /\ marker[s] # None
    /\ Ended(log[s])
    /\ TryUnlink(s)
    /\ Goto(p, pc[p], Past(p, s))
    /\ UNCHANGED <<now, counter, log, seqf, fbseq, locks, left>>

\* The journal is not ended: the marker and the header are read next.  Meanwhile the
\* session may end and its marker go.
ScanLive(p, s) ==
    /\ Scanning(p, s)
    /\ marker[s] # None
    /\ ~Ended(log[s])
    /\ Goto(p, pc[p], [loc[p] EXCEPT !.seen = s])
    /\ UNCHANGED <<now, files, locks, left>>

Reading(p, s) == pc[p] \in ScanPc /\ loc[p].seen = s

\* Neither marker nor header can be read any more.
ScanNothing(p, s) ==
    /\ Reading(p, s)
    /\ Visible(s) = None
    /\ Goto(p, pc[p], Past(p, s))
    /\ UNCHANGED <<now, files, locks, left>>

\* Past its idle timeout: the session is going to be retired.
ScanExpired(p, s) ==
    /\ Reading(p, s)
    /\ Visible(s) # None
    /\ Expired(Visible(s), now, IdleLimit)
    /\ Goto(p, "retire", [Past(p, s) EXCEPT !.sess = Visible(s), !.ret = pc[p]])
    /\ UNCHANGED <<now, files, locks, left>>

ScanActive(p, s) ==
    /\ Reading(p, s)
    /\ Visible(s) # None
    /\ ~Expired(Visible(s), now, IdleLimit)
    /\ Goto(p, pc[p], [Past(p, s) EXCEPT !.found = @ \cup {Visible(s)}])
    /\ UNCHANGED <<now, files, locks, left>>

\* write_session_end_record(s, end_reason="idle-timeout")
Retire(p) ==
    /\ At(p, "retire")
    /\ WriteEnd(Id(p))
    /\ Goto(p, "unlink", loc[p])
    /\ UNCHANGED <<now, counter, seqf, fbseq, marker, locks, left>>

RetireUnlink(p) ==
    /\ At(p, "unlink")
    /\ TryUnlink(Id(p))
    /\ Goto(p, loc[p].ret, [loc[p] EXCEPT !.sess = None, !.ret = "callback"])
    /\ UNCHANGED <<now, counter, log, seqf, fbseq, locks, left>>

\* The scan at label l is complete; what it found.
Scanned(p, l) == At(p, l) /\ loc[p].todo = {}
Active(p) == loc[p].found

\* current_session: the session found, if it is the only one.
CurrentIs(p, m) == Active(p) = {m}
NoCurrent(p) == ~\E m \in Active(p) : CurrentIs(p, m)
RecOf(S) == IF \E m \in S : S = {m} THEN Sole(S).id ELSE 0

\* The callback has its Recorder.  Click may then reject the command line, which
\* leaves only the flush; otherwise the leaf hook starts its own resolution.
CallbackDone(p) ==
    /\ Scanned(p, "callback")
    /\ LET r == [loc[p] EXCEPT !.rec = RecOf(Active(p)), !.found = {}] IN
         \/ StartScan(p, "hook", loc[p].cmd.env, r)
         \/ Goto(p, "flush", r)
    /\ UNCHANGED <<now, files, locks, left>>

-----------------------------------------------------------------------------
(* resolve_session_for_invocation, called by the leaf hook.                *)

Wanted(p) == loc[p].cmd.anchor
Matches(p) == {m \in Active(p) : Wanted(p) # None /\ m.anchor = Wanted(p)}

\* The anchors of the sole active session and of this command are at odds, and
\* the session is one the CLI created by itself.
Conflicts(p, m) ==
    /\ m.auto
    /\ Wanted(p) # None /\ m.anchor # None
    /\ m.anchor # Wanted(p)

\* Attach to m, which touch_session is going to refresh.
Attach(p, m) == Goto(p, "touch", [loc[p] EXCEPT !.sess = m, !.found = {}])

\* XDR_SESSION names a live session.
AttachExplicit(p) ==
    /\ Scanned(p, "hook")
    /\ loc[p].cmd.env # 0
    /\ \E m \in Active(p) : Attach(p, m)
    /\ UNCHANGED <<now, files, locks, left>>

\* Exactly one active session is anchored to the command's incident.
AttachMatch(p) ==
    /\ Scanned(p, "hook")
    /\ loc[p].cmd.env = 0
    /\ \E m \in Active(p) : Matches(p) = {m} /\ Attach(p, m)
    /\ UNCHANGED <<now, files, locks, left>>

\* The sole active session, which adopts the command's anchor if it has none.
AttachSole(p) ==
    /\ Scanned(p, "hook")
    /\ loc[p].cmd.env = 0
    /\ Matches(p) = {}
    /\ \E m \in Active(p) :
         /\ CurrentIs(p, m)
         /\ ~Conflicts(p, m)
         /\ Attach(p, IF m.anchor = None THEN [m EXCEPT !.anchor = Wanted(p)] ELSE m)
    /\ UNCHANGED <<now, files, locks, left>>

\* The sole active session is automatic and about another incident.
StartRotation(p) ==
    /\ Scanned(p, "hook")
    /\ loc[p].cmd.env = 0
    /\ \E m \in Active(p) :
         /\ CurrentIs(p, m)
         /\ Conflicts(p, m)
         /\ Goto(p, "rotateEnd", [loc[p] EXCEPT !.sess = m, !.found = {}])
    /\ UNCHANGED <<now, files, locks, left>>

\* No active session, and the command is one that creates its own.
StartAutomatic(p) ==
    /\ Scanned(p, "hook")
    /\ loc[p].cmd.env = 0
    /\ Active(p) = {}
    /\ loc[p].cmd.op = "hunt"
    /\ Goto(p, "allocate", loc[p])
    /\ UNCHANGED <<now, files, locks, left>>

\* ended-env, invalid-env, ambiguous-unattached and unattached.
Unattached(p) ==
    /\ Scanned(p, "hook")
    /\ \/ loc[p].cmd.env # 0 /\ Active(p) = {}
       \/ /\ loc[p].cmd.env = 0
          /\ Active(p) = {} /\ loc[p].cmd.op # "hunt"
       \/ /\ loc[p].cmd.env = 0
          /\ Active(p) # {} /\ NoCurrent(p)
          /\ ~\E m \in Active(p) : Matches(p) = {m}
    /\ Goto(p, "body", [loc[p] EXCEPT !.rec = 0, !.found = {}])
    /\ UNCHANGED <<now, files, locks, left>>

\* touch_session: under the marker lock, re-read the marker (or fall back on the
\* session resolved), keep its anchor if it has one, and refresh its activity.
Touch(p) ==
    /\ At(p, "touch")
    /\ LET m == loc[p].sess
           current == IF marker[m.id] # None THEN marker[m.id] ELSE m
           touched == [current EXCEPT
                         !.anchor = IF @ # None THEN @ ELSE m.anchor,
                         !.last = IF @ > now THEN @ ELSE now]
       IN /\ marker' = [marker EXCEPT ![m.id] = touched]
          /\ Goto(p, "body", [loc[p] EXCEPT !.sess = None, !.rec = m.id])
    /\ UNCHANGED <<now, counter, log, seqf, fbseq, locks, left>>

\* write_session_end_record(sole, end_reason="automatic-rotation")
RotateEnd(p) ==
    /\ At(p, "rotateEnd")
    /\ WriteEnd(Id(p))
    /\ Goto(p, "rotateClear", loc[p])
    /\ UNCHANGED <<now, counter, seqf, fbseq, marker, locks, left>>

RotateClear(p) ==
    /\ At(p, "rotateClear")
    /\ Unlink(Id(p))
    /\ Goto(p, "allocate", [loc[p] EXCEPT !.sess = None])
    /\ UNCHANGED <<now, counter, log, seqf, fbseq, locks, left>>

-----------------------------------------------------------------------------
(* create_session: allocate the id, publish the marker, write the header.  *)

\* The session a process creates: `session start` makes a manual one, the hook an
\* automatic one anchored to the command's incident.
NewSession(p, s) ==
    [id |-> s, auto |-> loc[p].cmd.op # "start", anchor |-> Wanted(p), last |-> now]

Allocate(p) ==
    /\ At(p, "allocate")
    /\ counter < MaxSid
    /\ counter' = counter + 1
    /\ Goto(p, "publish", [loc[p] EXCEPT !.sess = NewSession(p, counter + 1)])
    /\ UNCHANGED <<now, log, seqf, fbseq, marker, locks, left>>

\* set_current_session
Publish(p) ==
    /\ At(p, "publish")
    /\ marker' = [marker EXCEPT ![Id(p)] = loc[p].sess]
    /\ Goto(p, "header", loc[p])
    /\ UNCHANGED <<now, counter, log, seqf, fbseq, locks, left>>

\* write_session_start_record; the hook then attaches the command to the session.
WriteHeader(p) ==
    /\ At(p, "header")
    /\ AppendRecord(Id(p), Started(loc[p].sess))
    /\ IF loc[p].cmd.op = "start"
       THEN ToFlush(p)
       ELSE Goto(p, "body", [loc[p] EXCEPT !.sess = None, !.rec = Id(p)])
    /\ UNCHANGED <<now, counter, seqf, fbseq, marker, locks, left>>

-----------------------------------------------------------------------------
(* The command bodies.                                                     *)

Body(p, op) == At(p, "body") /\ loc[p].cmd.op = op

\* The command runs.  `incidents show`, when it succeeds, goes on to move the anchor
\* of the session it is attached to, and `incidents update` does so before it runs: what
\* runs between does nothing to sessions.
RunCommand(p) ==
    /\ Body(p, "hunt") \/ Body(p, "browse")
    /\ \/ ToFlush(p)
       \/ Wanted(p) # None /\ loc[p].rec # 0 /\ Goto(p, "setAnchor", loc[p])
    /\ UNCHANGED <<now, files, locks, left>>

\* set_session_anchor_incident: under the marker lock, only if there is a marker.
SetAnchor(p) ==
    /\ At(p, "setAnchor")
    /\ LET s == loc[p].rec IN
         marker' = IF marker[s] = None THEN marker
                   ELSE [marker EXCEPT ![s].anchor = Wanted(p)]
    /\ ToFlush(p)
    /\ UNCHANGED <<now, counter, log, seqf, fbseq, locks, left>>

\* session_start, which an operator without an identity is refused.
StartCommand(p) ==
    /\ Body(p, "start")
    /\ \/ loc[p].cmd.concurrent /\ Goto(p, "allocate", loc[p])
       \/ ~loc[p].cmd.concurrent /\ StartScan(p, "startCurrent", loc[p].cmd.env, loc[p])
       \/ ToFlush(p)
    /\ UNCHANGED <<now, files, locks, left>>

\* The first of the sessions to rotate calls skip_record.
ToRotate(p) == Goto(p, "retirePrior", [loc[p] EXCEPT !.skip = Active(p) # {}])

\* Rotate the current session if there is one, otherwise every active one.
StartCurrentDone(p) ==
    /\ Scanned(p, "startCurrent")
    /\ IF NoCurrent(p) THEN StartScan(p, "startAll", 0, loc[p]) ELSE ToRotate(p)
    /\ UNCHANGED <<now, files, locks, left>>

StartAllDone(p) ==
    /\ Scanned(p, "startAll")
    /\ ToRotate(p)
    /\ UNCHANGED <<now, files, locks, left>>

\* write_session_end_record(prior, end_reason="manual-rotation")
RetirePrior(p) ==
    /\ At(p, "retirePrior")
    /\ \E m \in Active(p) :
         /\ \A other \in Active(p) : m.id <= other.id
         /\ WriteEnd(m.id)
         /\ Goto(p, "clearPrior", [loc[p] EXCEPT !.found = @ \ {m}, !.sess = m])
    /\ UNCHANGED <<now, counter, seqf, fbseq, marker, locks, left>>

ClearPrior(p) ==
    /\ At(p, "clearPrior")
    /\ Unlink(Id(p))
    /\ Goto(p, "retirePrior", [loc[p] EXCEPT !.sess = None])
    /\ UNCHANGED <<now, counter, log, seqf, fbseq, locks, left>>

AllRetired(p) ==
    /\ At(p, "retirePrior")
    /\ Active(p) = {}
    /\ Goto(p, "allocate", loc[p])
    /\ UNCHANGED <<now, files, locks, left>>

\* session_end, up to its pre-check: no current session, an actor that may not end
\* it, and a session found ended are all just recorded.
EndCommand(p) ==
    /\ Body(p, "end")
    /\ StartScan(p, "endCurrent", loc[p].cmd.env, loc[p])
    /\ UNCHANGED <<now, files, locks, left>>

EndRefused(p) ==
    /\ Scanned(p, "endCurrent")
    /\ ToFlush(p)
    /\ UNCHANGED <<now, files, locks, left>>

EndAccepted(p) ==
    /\ Scanned(p, "endCurrent")
    /\ \E m \in Active(p) :
         /\ CurrentIs(p, m)
         /\ ~Ended(log[m.id])
         /\ Goto(p, "end", [loc[p] EXCEPT !.sess = m, !.found = {}, !.skip = TRUE])
    /\ UNCHANGED <<now, files, locks, left>>

\* Variant: the final seq is read under the counter's lock, which is taken first.
EndSessionCounterFirst(p) ==
    /\ At(p, "end")
    /\ \/ /\ seqlock[Id(p)] = None
          /\ seqlock' = [seqlock EXCEPT ![Id(p)] = p]
          /\ Goto(p, "end", loc[p])
          /\ UNCHANGED log
       \/ /\ seqlock[Id(p)] = p
          /\ WriteEnd(Id(p))
          /\ seqlock' = [seqlock EXCEPT ![Id(p)] = None]
          /\ IF Ended(log[Id(p)]) THEN ToFlush(p) ELSE Goto(p, "endClear", loc[p])
    /\ UNCHANGED <<now, counter, seqf, fbseq, marker, lock, fblock, left>>

\* write_session_end_record(s): losing the race is a conflict error, and the marker
\* is left to the winner.
EndSession(p) ==
    /\ At(p, "end")
    /\ WriteEnd(Id(p))
    /\ IF Ended(log[Id(p)]) THEN ToFlush(p) ELSE Goto(p, "endClear", loc[p])
    /\ UNCHANGED <<now, counter, seqf, fbseq, marker, locks, left>>

\* clear_current_session
EndClear(p) ==
    /\ At(p, "endClear")
    /\ Unlink(Id(p))
    /\ ToFlush(p)
    /\ UNCHANGED <<now, counter, log, seqf, fbseq, locks, left>>

\* session_resume: the journal's header becomes the marker again.
ResumeCommand(p) ==
    /\ Body(p, "resume")
    /\ LET s == loc[p].cmd.sid IN
         IF Hydrates(log[s]) /\ ~Ended(log[s])
         THEN Goto(p, "resume", [loc[p] EXCEPT !.sess = Header(log[s])])
         ELSE ToFlush(p)
    /\ UNCHANGED <<now, files, locks, left>>

Resume(p) ==
    /\ At(p, "resume")
    /\ marker' = [marker EXCEPT ![Id(p)] = loc[p].sess]
    /\ ToFlush(p)
    /\ UNCHANGED <<now, counter, log, seqf, fbseq, locks, left>>

\* annotate: pick the invocation referred to, without the lock.
AnnotateCommand(p) ==
    /\ Body(p, "annotate")
    /\ StartScan(p, "noteCurrent", loc[p].cmd.env, loc[p])
    /\ UNCHANGED <<now, files, locks, left>>

\* No current session is a recorded conflict; a session with nothing to annotate is
\* an error that records nothing.
AnnotateRefused(p) ==
    /\ Scanned(p, "noteCurrent")
    /\ IF NoCurrent(p) THEN ToFlush(p) ELSE Exit(p)
    /\ UNCHANGED <<now, files, locks, left>>

\* A variant of AnnotateTarget: any seq the counter has given out will do.
AnnotateCounted(p) ==
    /\ Scanned(p, "noteCurrent")
    /\ \E m \in Active(p) :
         /\ CurrentIs(p, m)
         /\ \E n \in 1..seqf[m.id] :
              Goto(p, "note", [loc[p] EXCEPT !.sess = m, !.found = {}, !.seq = n])
    /\ UNCHANGED <<now, files, locks, left>>

AnnotateTarget(p) ==
    /\ Scanned(p, "noteCurrent")
    /\ \E m \in Active(p) :
         /\ CurrentIs(p, m)
         /\ \E n \in InvocationSeqs(log[m.id]) :
              Goto(p, "note", [loc[p] EXCEPT !.sess = m, !.found = {}, !.seq = n])
    /\ UNCHANGED <<now, files, locks, left>>

\* write_annotation, after its target is resolved.
WriteAnnotation(p) ==
    /\ At(p, "note")
    /\ AppendRecord(Id(p), Annotation(loc[p].seq))
    /\ ToFlush(p)
    /\ UNCHANGED <<now, counter, seqf, fbseq, marker, locks, left>>

\* append_session_feedback: needs a header, takes ended sessions too.
FeedbackCommand(p) ==
    /\ Body(p, "feedback")
    /\ IF Hydrates(log[loc[p].cmd.sid]) THEN Goto(p, "feedback", loc[p]) ELSE ToFlush(p)
    /\ UNCHANGED <<now, files, locks, left>>

\* The journal's lock first, then the counter's: a number, and the line with it.
FeedbackEnter(p) ==
    /\ At(p, "feedback")
    /\ LET s == loc[p].cmd.sid IN
         /\ lock[s] = None
         /\ lock' = [lock EXCEPT ![s] = p]
    /\ Goto(p, "fbNumber", loc[p])
    /\ UNCHANGED <<now, files, seqlock, fblock, left>>

FeedbackNumber(p) ==
    /\ At(p, "fbNumber")
    /\ LET s == loc[p].cmd.sid IN
         /\ fblock[s] = None
         /\ fblock' = [fblock EXCEPT ![s] = p]
    /\ Goto(p, "fbBump", loc[p])
    /\ UNCHANGED <<now, files, lock, seqlock, left>>

FeedbackBump(p) ==
    /\ At(p, "fbBump")
    /\ LET s == loc[p].cmd.sid IN
         /\ fbseq' = [fbseq EXCEPT ![s] = @ + 1]
         /\ fblock' = [fblock EXCEPT ![s] = None]
         /\ Goto(p, "fbAppend", [loc[p] EXCEPT !.seq = fbseq[s] + 1])
    /\ UNCHANGED <<now, counter, log, seqf, marker, lock, seqlock, left>>

WriteFeedback(p) ==
    /\ At(p, "fbAppend")
    /\ LET s == loc[p].cmd.sid IN
         /\ log' = [log EXCEPT ![s] = Append(@, Feedback(loc[p].seq))]
         /\ lock' = [lock EXCEPT ![s] = None]
    /\ ToFlush(p)
    /\ UNCHANGED <<now, counter, seqf, fbseq, marker, seqlock, fblock, left>>

-----------------------------------------------------------------------------
(* Recorder.flush, in run()'s finally block.                               *)

FlushNothing(p) ==
    /\ At(p, "flush")
    /\ loc[p].skip \/ loc[p].rec = 0
    /\ Exit(p)
    /\ UNCHANGED <<now, files, locks, left>>

Flushing(p) ==
    /\ At(p, "flush")
    /\ ~loc[p].skip /\ loc[p].rec # 0
    /\ lock[loc[p].rec] = None

\* A variant of FlushDrop: the record is dropped, the marker stays.
FlushDropOnly(p) ==
    /\ Flushing(p)
    /\ Ended(log[loc[p].rec])
    /\ Exit(p)
    /\ UNCHANGED <<now, files, locks, left>>

\* The session has ended: the record is dropped and a stale marker removed.
FlushDrop(p) ==
    /\ Flushing(p)
    /\ Ended(log[loc[p].rec])
    /\ TryUnlink(loc[p].rec)
    /\ Exit(p)
    /\ UNCHANGED <<now, counter, log, seqf, fbseq, locks, left>>

\* The journal's lock, and under it the ended check.
FlushEnter(p) ==
    /\ Flushing(p)
    /\ ~Ended(log[loc[p].rec])
    /\ lock' = [lock EXCEPT ![loc[p].rec] = p]
    /\ Goto(p, "number", loc[p])
    /\ UNCHANGED <<now, files, seqlock, fblock, left>>

\* _next_seq: the counter's lock inside the journal's.
FlushNumber(p) ==
    /\ At(p, "number")
    /\ seqlock[loc[p].rec] = None
    /\ seqlock' = [seqlock EXCEPT ![loc[p].rec] = p]
    /\ Goto(p, "bump", loc[p])
    /\ UNCHANGED <<now, files, lock, fblock, left>>

\* A variant of FlushBump: the journal's lock is let go with the counter's.
FlushBumpUnlocked(p) ==
    /\ At(p, "bump")
    /\ LET s == loc[p].rec IN
         /\ seqf' = [seqf EXCEPT ![s] = @ + 1]
         /\ seqlock' = [seqlock EXCEPT ![s] = None]
         /\ lock' = [lock EXCEPT ![s] = None]
         /\ Goto(p, "synth", [loc[p] EXCEPT !.seq = seqf[s] + 1])
    /\ UNCHANGED <<now, counter, log, fbseq, marker, fblock, left>>

FlushBump(p) ==
    /\ At(p, "bump")
    /\ LET s == loc[p].rec IN
         /\ seqf' = [seqf EXCEPT ![s] = @ + 1]
         /\ seqlock' = [seqlock EXCEPT ![s] = None]
         /\ Goto(p, "synth", [loc[p] EXCEPT !.seq = seqf[s] + 1])
    /\ UNCHANGED <<now, counter, log, fbseq, marker, lock, fblock, left>>

\* The header synthesised for an empty journal carries no anchor and no origin.
SynthHeader(s) == Started([id |-> s, auto |-> FALSE, anchor |-> None, last |-> now])

FlushHeader(p) ==
    /\ At(p, "synth")
    /\ LET s == loc[p].rec IN
         log' = IF log[s] = <<>> THEN [log EXCEPT ![s] = Append(@, SynthHeader(s))] ELSE log
    /\ Goto(p, "append", loc[p])
    /\ UNCHANGED <<now, counter, seqf, fbseq, marker, locks, left>>

FlushAppend(p) ==
    /\ At(p, "append")
    /\ LET s == loc[p].rec IN
         /\ log' = [log EXCEPT ![s] = Append(@, Invocation(loc[p].seq))]
         /\ lock' = [lock EXCEPT ![s] = None]
    /\ Exit(p)
    /\ UNCHANGED <<now, counter, seqf, fbseq, marker, seqlock, fblock, left>>

-----------------------------------------------------------------------------
(* Faults and time.                                                        *)

\* The kernel, or the context managers on the way out, release what p holds.
Freed(held, p) == [s \in Sid |-> IF held[s] = p THEN None ELSE held[s]]
Release(p) == /\ lock' = Freed(lock, p)
              /\ seqlock' = Freed(seqlock, p) /\ fblock' = Freed(fblock, p)

\* Steps that open, lock or write a file and may raise OSError (Timeout is one).
Fallible == {"retire"} \cup HookPc \cup CreatePc \cup {"flush"} \cup LockedPc
              \cup (BodyPc \ {"body"}) \cup FeedbackPc

\* The error ends the command.  It is recorded, unless the Recorder does not exist
\* yet or it is the recording that fails.
Fail(p) ==
    /\ "fail" \in Faults
    /\ pc[p] \in Fallible
    /\ IF \/ pc[p] \in LockedPc \cup {"flush"}
          \/ pc[p] = "retire" /\ loc[p].ret = "callback"
       THEN Exit(p) ELSE ToFlush(p)
    /\ Release(p)
    /\ UNCHANGED <<now, files, left>>

Crash(p) ==
    /\ "crash" \in Faults
    /\ ~At(p, "idle")
    /\ Exit(p)
    /\ Release(p)
    /\ UNCHANGED <<now, files, left>>

\* _bump_counter truncates the file it rewrites: a full disk or a crash between the
\* two leaves it empty, which _read_int reads as 0.
Torn(p) == ToFlush(p) \/ ("crash" \in Faults /\ Exit(p))

TornCounter(p) ==
    /\ "torn" \in Faults
    /\ At(p, "allocate")
    /\ counter' = 0
    /\ Torn(p)
    /\ UNCHANGED <<now, log, seqf, fbseq, marker, locks, left>>

TornSeq(p) ==
    /\ "tornSeq" \in Faults
    /\ At(p, "bump")
    /\ seqf' = [seqf EXCEPT ![loc[p].rec] = 0]
    /\ Exit(p)
    /\ Release(p)
    /\ UNCHANGED <<now, counter, log, fbseq, marker, left>>

TornFeedback(p) ==
    /\ "tornSeq" \in Faults
    /\ At(p, "fbBump")
    /\ fbseq' = [fbseq EXCEPT ![loc[p].cmd.sid] = 0]
    /\ Torn(p)
    /\ Release(p)
    /\ UNCHANGED <<now, counter, log, seqf, marker, left>>

Tick ==
    /\ now < MaxNow
    /\ now' = now + 1
    /\ UNCHANGED <<files, locks, pc, loc, left>>

-----------------------------------------------------------------------------

Scan(p) ==
    (\E s \in Sid : ScanGone(p, s) \/ ScanHeal(p, s) \/ ScanLive(p, s) \/ ScanNothing(p, s)
                     \/ ScanExpired(p, s) \/ ScanActive(p, s))
      \/ Retire(p) \/ RetireUnlink(p) \/ CallbackDone(p)

Resolve(p) ==
    AttachExplicit(p) \/ AttachMatch(p) \/ AttachSole(p) \/ StartRotation(p)
      \/ StartAutomatic(p) \/ Unattached(p) \/ Touch(p) \/ RotateEnd(p) \/ RotateClear(p)

Create(p) == Allocate(p) \/ Publish(p) \/ WriteHeader(p)

Rotate(p) ==
    StartCommand(p) \/ StartCurrentDone(p) \/ StartAllDone(p)
      \/ RetirePrior(p) \/ ClearPrior(p) \/ AllRetired(p)

End(p) ==
    EndCommand(p) \/ EndRefused(p) \/ EndAccepted(p) \/ EndSession(p) \/ EndClear(p)

Others(p) ==
    RunCommand(p) \/ SetAnchor(p) \/ ResumeCommand(p) \/ Resume(p)
      \/ AnnotateCommand(p) \/ AnnotateRefused(p) \/ AnnotateTarget(p) \/ WriteAnnotation(p)
      \/ FeedbackCommand(p) \/ FeedbackEnter(p) \/ FeedbackNumber(p) \/ FeedbackBump(p)
      \/ WriteFeedback(p)

Flush(p) ==
    FlushNothing(p) \/ FlushDrop(p) \/ FlushEnter(p) \/ FlushNumber(p) \/ FlushBump(p)
      \/ FlushHeader(p) \/ FlushAppend(p)

\* A command that has begun goes on by itself; faults and time are the environment.
Step(p) == Scan(p) \/ Resolve(p) \/ Create(p) \/ Rotate(p) \/ End(p) \/ Others(p) \/ Flush(p)
Fault(p) == Fail(p) \/ Crash(p) \/ TornCounter(p) \/ TornSeq(p) \/ TornFeedback(p)

Next == (\E p \in Proc : Begin(p) \/ Step(p) \/ Fault(p)) \/ Tick

Spec == Init /\ [][Next]_vars
FairSpec == Spec /\ \A p \in Proc : WF_vars(Step(p))

-----------------------------------------------------------------------------
(* Properties.                                                             *)

EndedAt(s, i) == log[s][i].kind = "session_ended"

\* A session is ended once, whichever of `session end`, rotation and idle retirement
\* by however many processes get there together: write_session_end_record looks
\* again under the journal lock.
AtMostOneEnd ==
    \A s \in Sid : \A i, j \in DOMAIN log[s] : EndedAt(s, i) /\ EndedAt(s, j) => i = j

\* No invocation is recorded behind the session_ended record, although a command
\* resolves its session long before it flushes: Recorder._do_flush checks under the
\* lock it appends under.
NothingRecordedAfterEnd ==
    \A s \in Sid : \A i, j \in DOMAIN log[s] :
        EndedAt(s, i) /\ i < j => log[s][j].kind # "invocation"

\* The tally of the session_summary stays the number of invocations of the journal:
\* what the end record counts is all there will ever be.
SummaryIsFinal ==
    \A s \in Sid : \A i \in DOMAIN log[s] :
        log[s][i].kind = "session_summary" =>
            log[s][i].count = Cardinality(Invocations(log[s]))

\* The invocations of a journal carry increasing seqs, so a seq names one invocation,
\* whichever processes wrote them and in whatever order they began.
SeqsIncrease ==
    \A s \in Sid : \A i, j \in Invocations(log[s]) : i < j => log[s][i].seq < log[s][j].seq

\* An annotation refers to an invocation that comes before it in the same journal,
\* although the target is looked up before the lock is taken.
AnnotationsHaveTargets ==
    \A s \in Sid : \A i \in DOMAIN log[s] :
        log[s][i].kind = "annotation" =>
            \E j \in Invocations(log[s]) : j < i /\ log[s][j].seq = log[s][i].refers

\* A journal that records an invocation can be loaded: its first line is a header,
\* the creator's or the one the flush made up.
RecordedIsLoadable ==
    \A s \in Sid : Invocations(log[s]) # {} => Hydrates(log[s])

\* No process takes a live session's marker away: it goes only once the journal says
\* the session has ended (the unlocked unlinks of the scan and of the flush, and
\* clear_current_session).
MarkerGoesOnlyAfterEnd ==
    [][\A s \in Sid : marker[s] # None /\ marker'[s] = None => Ended(log[s])]_vars

\* When every command has run to its end, no marker of an ended session is left
\* behind, whatever was resurrected meanwhile.
NoStaleMarkerAtRest ==
    (\A p \in Proc : At(p, "idle")) => \A s \in Sid : marker[s] # None => ~Ended(log[s])

\* No processes wait for each other in a ring: a command that has begun comes to an end
\* without any lock timing out, although a flush and a feedback hold the lock of a
\* journal while they wait for that of a counter (_do_flush, append_session_feedback).
EveryCommandReturns == \A p \in Proc : ~At(p, "idle") ~> At(p, "idle")

\* The journals these processes write between them are the journals SessionJournal
\* promises: closed once, nothing recorded after, tallies right.
J == INSTANCE SessionJournal
JournalPromise == J!Spec

=============================================================================
