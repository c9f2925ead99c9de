------------------------- MODULE SessionStoreProofs -------------------------
(***************************************************************************)
(* What SessionStore guarantees for every number of processes, commands,   *)
(* sessions and faults: its types, that it implements SessionJournal, and  *)
(* the safety properties.  Those about a journal alone follow from         *)
(* SessionJournal: they are proved of its steps, and KeepsThePromise       *)
(* carries them over.                                                      *)
(***************************************************************************)
EXTENDS SessionStore, FiniteSetTheorems, TLAPS

\* The tuple of the lock variables, in every UNCHANGED.
USE DEF locks

-----------------------------------------------------------------------------
(* Facts about the operators.                                              *)

\* The records the writers build are records.
LEMMA RecordsAreRecords ==
    /\ \A m \in Session : Started(m) \in Record
    /\ \A n \in Nat : /\ Invocation(n) \in Record /\ EndMark(n) \in Record
                      /\ Annotation(n) \in Record /\ Feedback(n) \in Record
    /\ \A c, n \in Nat : Summary(c, n) \in Record
  BY DEF Record, Started, Invocation, EndMark, Annotation, Feedback, Summary

\* The header of a journal that has one is a session.
LEMMA HeaderIsSession ==
    ASSUME NEW j \in Journal, Hydrates(j)
    PROVE  Header(j) \in Session
  <1>1. j[1] \in Record
    BY DEF Journal, Hydrates
  <1>2. QED
    BY <1>1 DEF Hydrates, Header, Record

-----------------------------------------------------------------------------
(* Type correctness.  What a process holds depends on where it is: the     *)
(* invariant says so, because a type alone does not make a step defined.   *)

\* Where a process is working on a session, and where on its recorder's session.
SessPc == {"retire", "unlink", "publish", "header", "clearPrior", "end", "endClear",
           "note", "resume"} \cup HookPc
RecPc == {"setAnchor"} \cup LockedPc

LocalOK(l, r) ==
    /\ l \in Pc /\ r \in Local
    /\ l # "idle" => r.cmd # None
    /\ l \in SessPc => r.sess # None
    /\ l \in RecPc => r.rec # 0
    /\ l \in {"feedback"} \cup FeedbackPc => r.cmd.sid # 0

LocalsOK ==
    /\ pc \in [Proc -> Pc] /\ loc \in [Proc -> Local]
    /\ \A p \in Proc : LocalOK(pc[p], loc[p])

FilesOK ==
    /\ now \in Time
    /\ counter \in 0..MaxSid
    /\ log \in [Sid -> Journal]
    /\ seqf \in [Sid -> Nat]
    /\ fbseq \in [Sid -> Nat]
    /\ marker \in [Sid -> Session \cup {None}]
    /\ lock \in [Sid -> Proc \cup {None}]
    /\ seqlock \in [Sid -> Proc \cup {None}]
    /\ fblock \in [Sid -> Proc \cup {None}]
    /\ left \in 0..Budget

Typed == FilesOK /\ LocalsOK

\* A process that goes where its locals fit leaves everybody's locals fitting.
LEMMA GotoKeepsLocals ==
    ASSUME LocalsOK, NEW p \in Proc, NEW l, NEW r, LocalOK(l, r), Goto(p, l, r)
    PROVE  LocalsOK'
  BY DEF LocalsOK, LocalOK, Goto

LEMMA FreshOK == LocalOK("idle", Fresh)
  BY SizesAssumption DEF LocalOK, Fresh, Local, Pc, ScanPc, SessPc, RecPc, HookPc, LockedPc,
         FeedbackPc

LEMMA ExitKeepsLocals ==
    ASSUME LocalsOK, NEW p \in Proc, Exit(p)
    PROVE  LocalsOK'
  BY FreshOK, GotoKeepsLocals DEF Exit

LEMMA ToFlushKeepsLocals ==
    ASSUME LocalsOK, NEW p \in Proc, ~At(p, "idle"), ToFlush(p)
    PROVE  LocalsOK'
  <1> DEFINE r == [Fresh EXCEPT !.cmd = loc[p].cmd, !.rec = loc[p].rec, !.skip = loc[p].skip]
  <1>1. LocalOK("flush", r)
    BY DEF LocalsOK, LocalOK, Fresh, Local, Pc, ScanPc, SessPc, RecPc, HookPc, LockedPc,
           FeedbackPc, At
  <1>2. QED
    BY <1>1, GotoKeepsLocals DEF ToFlush

\* What current_session finds is a set of sessions.
LEMMA EnvSessionIsSession ==
    ASSUME FilesOK, NEW s \in Sid
    PROVE  EnvSession(s) \subseteq Session
  BY HeaderIsSession DEF FilesOK, EnvSession, Visible

LEMMA ScanKeepsLocals ==
    ASSUME FilesOK, LocalsOK, NEW p \in Proc, NEW l \in ScanPc, NEW env \in {0} \cup Sid,
           NEW r \in Local, r.cmd # None, StartScan(p, l, env, r)
    PROVE  LocalsOK'
  <1> DEFINE t == IF env = 0
                  THEN [r EXCEPT !.todo = {s \in Sid : marker[s] # None}, !.found = {}]
                  ELSE [r EXCEPT !.todo = {}, !.found = EnvSession(env)]
  <1>1. env # 0 => EnvSession(env) \subseteq Session
    BY EnvSessionIsSession
  <1>2. t \in Local /\ t.cmd = r.cmd
    BY <1>1 DEF Local
  <1>3. LocalOK(l, t)
    BY <1>2 DEF LocalOK, Pc, ScanPc, SessPc, RecPc, HookPc, LockedPc,
         FeedbackPc
  <1>4. QED
    BY <1>3, GotoKeepsLocals DEF StartScan

\* Where a process is says what it holds.
LEMMA Held ==
    ASSUME LocalsOK, NEW p \in Proc
    PROVE  /\ pc[p] \in Pc /\ loc[p] \in Local
           /\ ~At(p, "idle") => loc[p].cmd \in Command /\ loc[p].cmd \in Commands
           /\ pc[p] \in SessPc => loc[p].sess \in Session /\ Id(p) \in Sid
           /\ pc[p] \in RecPc => loc[p].rec \in Sid
           /\ pc[p] \in {"feedback"} \cup FeedbackPc => loc[p].cmd.sid \in Sid
  <1>1. LocalOK(pc[p], loc[p])
    BY DEF LocalsOK
  <1>2. ~At(p, "idle") => loc[p].cmd \in Command /\ loc[p].cmd \in Commands
    BY <1>1, CommandAssumption DEF LocalOK, Local, At
  <1>3. pc[p] \in SessPc => loc[p].sess \in Session /\ Id(p) \in Sid
    BY <1>1 DEF LocalOK, Local, Session, Id
  <1>4. pc[p] \in RecPc => loc[p].rec \in Sid
    BY <1>1 DEF LocalOK, Local
  <1>5. pc[p] \in {"feedback"} \cup FeedbackPc => loc[p].cmd.sid \in Sid
    BY <1>1, <1>2 DEF LocalOK, Local, Command, FeedbackPc, At
  <1>6. QED
    BY <1>1, <1>2, <1>3, <1>4, <1>5 DEF LocalOK

\* The labels of the steps are labels, and tell the groups apart.
LEMMA Labels ==
    /\ Pc = {"idle", "retire", "unlink", "flush"}
              \cup ScanPc \cup HookPc \cup CreatePc \cup BodyPc \cup FeedbackPc \cup LockedPc
    /\ ScanPc = {"callback", "hook", "startCurrent", "startAll", "endCurrent", "noteCurrent"}
    /\ HookPc = {"touch", "rotateEnd", "rotateClear"}
    /\ CreatePc = {"allocate", "publish", "header"}
    /\ BodyPc = {"body", "retirePrior", "clearPrior", "end", "endClear",
                 "note", "resume", "feedback", "setAnchor"}
    /\ FeedbackPc = {"fbNumber", "fbBump", "fbAppend"}
    /\ LockedPc = {"number", "bump", "synth", "append"}
    /\ SessPc = {"retire", "unlink", "publish", "header", "clearPrior", "end", "endClear",
                 "note", "resume", "touch", "rotateEnd", "rotateClear"}
    /\ RecPc = {"setAnchor", "number", "bump", "synth", "append"}
  BY DEF Pc, ScanPc, HookPc, CreatePc, BodyPc, FeedbackPc, LockedPc, SessPc, RecPc

\* The two ways a journal is written keep it a journal.
LEMMA WritesKeepJournals ==
    ASSUME FilesOK, NEW s \in Sid
    PROVE  /\ WriteEnd(s) => log' \in [Sid -> Journal]
           /\ \A r \in Record : AppendRecord(s, r) => log' \in [Sid -> Journal]
  <1>1. ASSUME NEW j \in Journal, NEW n \in Nat, IsFiniteSet(Invocations(j))
        PROVE  Closed(j, n) \in Journal
    <2>1. Cardinality(Invocations(j)) \in Nat
      BY <1>1, FS_CardinalityType
    <2>2. QED
      BY <2>1, RecordsAreRecords DEF Closed, Journal
  <1>2. ASSUME NEW j \in Journal
        PROVE  IsFiniteSet(Invocations(j))
    <2>1. Len(j) \in Nat /\ DOMAIN j = 1..Len(j)
      BY DEF Journal
    <2>2. IsFiniteSet(1..Len(j))
      BY <2>1, FS_Interval
    <2>3. Invocations(j) \subseteq 1..Len(j)
      BY <2>1 DEF Invocations
    <2>4. QED
      BY <2>2, <2>3, FS_Subset
  <1>3. WriteEnd(s) => log' \in [Sid -> Journal]
    BY <1>1, <1>2 DEF FilesOK, WriteEnd
  <1>4. ASSUME NEW r \in Record
        PROVE  AppendRecord(s, r) => log' \in [Sid -> Journal]
    BY DEF FilesOK, AppendRecord, Journal
  <1>5. QED
    BY <1>3, <1>4

LEMMA BeginTyped ==
    ASSUME Typed, NEW p \in Proc, Begin(p)
    PROVE  Typed'
  <1>1. PICK c \in Commands : StartScan(p, "callback", c.env, [Fresh EXCEPT !.cmd = c])
    BY DEF Begin
  <1> DEFINE r == [Fresh EXCEPT !.cmd = c]
  <1>2. c # None /\ c.env \in {0} \cup Sid
    BY CommandAssumption, <1>1 DEF Command
  <1>3. r \in Local /\ r.cmd # None
    BY <1>2, FreshOK DEF LocalOK, Local
  <1>4. LocalsOK'
    BY <1>1, <1>2, <1>3, ScanKeepsLocals, Labels DEF Typed
  <1>5. FilesOK'
    BY StoreAssumption DEF Typed, FilesOK, Begin, files
  <1>6. QED
    BY <1>4, <1>5 DEF Typed

LEMMA ScanTyped ==
    ASSUME Typed, NEW p \in Proc, Scan(p)
    PROVE  Typed'
  <1> USE DEF Typed
  <1>0. LocalOK(pc[p], loc[p])
    BY DEF LocalsOK
  <1>1. ASSUME NEW s \in Sid, Scanning(p, s)
        PROVE  LocalOK(pc[p], Past(p, s)) /\ ~At(p, "idle")
    BY <1>0, <1>1, Labels DEF Scanning, Past, LocalOK, Local, At
  <1>2. ASSUME NEW s \in Sid, ScanGone(p, s)
        PROVE  Typed'
    <2>1. LocalsOK'
      BY <1>1, <1>2, GotoKeepsLocals DEF ScanGone
    <2>2. QED
      BY <1>2, <2>1 DEF ScanGone, FilesOK, files
  <1>3. ASSUME NEW s \in Sid, ScanHeal(p, s)
        PROVE  Typed'
    <2>1. LocalsOK'
      BY <1>1, <1>3, GotoKeepsLocals DEF ScanHeal
    <2>2. QED
      BY <1>3, <2>1 DEF ScanHeal, TryUnlink, Unlink, FilesOK
  <1>a. ASSUME NEW s \in Sid, ScanLive(p, s)
        PROVE  Typed'
    <2>1. LocalOK(pc[p], [loc[p] EXCEPT !.seen = s])
      BY <1>0, <1>a, Labels DEF ScanLive, Scanning, LocalOK, Local, At
    <2>2. LocalsOK'
      BY <1>a, <2>1, GotoKeepsLocals DEF ScanLive
    <2>3. QED
      BY <1>a, <2>2 DEF ScanLive, FilesOK, files
  <1>b. ASSUME NEW s \in Sid, Reading(p, s)
        PROVE  /\ LocalOK(pc[p], Past(p, s)) /\ ~At(p, "idle")
               /\ pc[p] \in ScanPc
               /\ Visible(s) # None => Visible(s) \in Session
    <2>1. LocalOK(pc[p], Past(p, s)) /\ ~At(p, "idle") /\ pc[p] \in ScanPc
      BY <1>0, <1>b, Labels DEF Reading, Past, LocalOK, Local, At
    <2>2. Visible(s) # None => Visible(s) \in Session
      BY HeaderIsSession DEF Visible, FilesOK
    <2>3. QED
      BY <2>1, <2>2
  <1>c. ASSUME NEW s \in Sid, ScanNothing(p, s)
        PROVE  Typed'
    <2>1. LocalsOK'
      BY <1>b, <1>c, GotoKeepsLocals DEF ScanNothing
    <2>2. QED
      BY <1>c, <2>1 DEF ScanNothing, FilesOK, files
  <1>4. ASSUME NEW s \in Sid, ScanExpired(p, s)
        PROVE  Typed'
    <2> DEFINE r == [Past(p, s) EXCEPT !.sess = Visible(s), !.ret = pc[p]]
    <2>1. Visible(s) \in Session /\ pc[p] \in ScanPc /\ LocalOK(pc[p], Past(p, s))
      BY <1>4, <1>b DEF ScanExpired
    <2>2. LocalOK("retire", r)
      BY <2>1, NoneAssumption, Labels DEF LocalOK, Local
    <2>3. LocalsOK'
      BY <1>4, <2>2, GotoKeepsLocals DEF ScanExpired
    <2>4. QED
      BY <1>4, <2>3 DEF ScanExpired, FilesOK, files
  <1>5. ASSUME NEW s \in Sid, ScanActive(p, s)
        PROVE  Typed'
    <2> DEFINE r == [Past(p, s) EXCEPT !.found = @ \cup {Visible(s)}]
    <2>1. Visible(s) \in Session /\ pc[p] \in ScanPc /\ LocalOK(pc[p], Past(p, s))
      BY <1>5, <1>b DEF ScanActive
    <2>2. LocalOK(pc[p], r)
      BY <2>1, Labels DEF LocalOK, Local
    <2>3. LocalsOK'
      BY <1>5, <2>2, GotoKeepsLocals DEF ScanActive
    <2>4. QED
      BY <1>5, <2>3 DEF ScanActive, FilesOK, files
  <1>6. ASSUME Retire(p)
        PROVE  Typed'
    <2>1. LocalOK("unlink", loc[p]) /\ Id(p) \in Sid
      BY <1>0, <1>6, Held, Labels DEF Retire, LocalOK, At
    <2>2. LocalsOK'
      BY <1>6, <2>1, GotoKeepsLocals DEF Retire
    <2>3. log' \in [Sid -> Journal]
      BY <1>6, <2>1, WritesKeepJournals DEF Retire
    <2>4. QED
      BY <1>6, <2>2, <2>3 DEF Retire, FilesOK
  <1>7. ASSUME RetireUnlink(p)
        PROVE  Typed'
    <2> DEFINE r == [loc[p] EXCEPT !.sess = None, !.ret = "callback"]
    <2>1. LocalOK(loc[p].ret, r)
      BY <1>0, <1>7, Labels DEF RetireUnlink, LocalOK, Local, At
    <2>2. LocalsOK'
      BY <1>7, <2>1, GotoKeepsLocals DEF RetireUnlink
    <2>3. QED
      BY <1>7, <2>2 DEF RetireUnlink, TryUnlink, Unlink, FilesOK
  <1>8. ASSUME CallbackDone(p)
        PROVE  Typed'
    <2> DEFINE r == [loc[p] EXCEPT !.rec = RecOf(Active(p)), !.found = {}]
    <2>1. RecOf(Active(p)) \in {0} \cup Sid
      BY <1>0 DEF RecOf, Active, Sole, LocalOK, Local, Session
    <2>2. LocalOK("flush", r) /\ LocalOK("hook", r)
      BY <1>0, <1>8, <2>1, Labels DEF CallbackDone, Scanned, LocalOK, Local, At
    <2>3. loc[p].cmd.env \in {0} \cup Sid
      BY <1>8, Held, Labels DEF CallbackDone, Scanned, Command, At
    <2>4. LocalsOK'
      BY <1>8, <2>2, <2>3, GotoKeepsLocals, ScanKeepsLocals, Labels DEF CallbackDone, LocalOK
    <2>5. QED
      BY <1>8, <2>4 DEF CallbackDone, FilesOK, files
  <1>9. QED
    BY <1>2, <1>3, <1>a, <1>c, <1>4, <1>5, <1>6, <1>7, <1>8 DEF Scan

LEMMA ResolveTyped ==
    ASSUME Typed, NEW p \in Proc, Resolve(p)
    PROVE  Typed'
  <1> USE DEF Typed
  <1>0. LocalOK(pc[p], loc[p])
    BY DEF LocalsOK
  <1>a. ~At(p, "idle") => /\ Wanted(p) \in Anchor \cup {None}
                          /\ Active(p) \subseteq Session
    BY <1>0, Held DEF Wanted, Active, LocalOK, Local, Command
  \* Attaching to any session found, with its own anchor or the command's.
  <1>b. ASSUME At(p, "hook"), NEW m \in Session, Attach(p, m)
        PROVE  LocalsOK'
    <2>1. LocalOK("touch", [loc[p] EXCEPT !.sess = m, !.found = {}])
      BY <1>0, <1>b, NoneAssumption, Labels DEF LocalOK, Local, At
    <2>2. QED
      BY <1>b, <2>1, GotoKeepsLocals DEF Attach
  <1>1. ASSUME AttachExplicit(p) \/ AttachMatch(p) \/ AttachSole(p)
        PROVE  Typed'
    <2>1. At(p, "hook") /\ ~At(p, "idle")
      BY <1>1 DEF AttachExplicit, AttachMatch, AttachSole, Scanned, At
    <2>2. \A m \in Active(p) :
             m \in Session /\ (m.anchor = None => [m EXCEPT !.anchor = Wanted(p)] \in Session)
      BY <1>a, <2>1 DEF Session
    <2>3. LocalsOK'
      BY <1>1, <1>b, <2>1, <2>2 DEF AttachExplicit, AttachMatch, AttachSole
    <2>4. QED
      BY <1>1, <2>3 DEF AttachExplicit, AttachMatch, AttachSole, FilesOK, files
  <1>2. ASSUME StartRotation(p)
        PROVE  Typed'
    <2>1. PICK m \in Active(p) :
             Goto(p, "rotateEnd", [loc[p] EXCEPT !.sess = m, !.found = {}])
      BY <1>2 DEF StartRotation
    <2>2. At(p, "hook") /\ ~At(p, "idle") /\ m \in Session
      BY <1>2, <1>a DEF StartRotation, Scanned, At
    <2>3. LocalOK("rotateEnd", [loc[p] EXCEPT !.sess = m, !.found = {}])
      BY <1>0, <2>2, NoneAssumption, Labels DEF LocalOK, Local, At
    <2>4. LocalsOK'
      BY <2>1, <2>3, GotoKeepsLocals
    <2>5. QED
      BY <1>2, <2>4 DEF StartRotation, FilesOK, files
  <1>3. ASSUME StartAutomatic(p)
        PROVE  Typed'
    <2>1. LocalOK("allocate", loc[p])
      BY <1>0, <1>3, Labels DEF StartAutomatic, Scanned, LocalOK, At
    <2>2. LocalsOK'
      BY <1>3, <2>1, GotoKeepsLocals DEF StartAutomatic
    <2>3. QED
      BY <1>3, <2>2 DEF StartAutomatic, FilesOK, files
  <1>4. ASSUME Unattached(p)
        PROVE  Typed'
    <2>1. LocalOK("body", [loc[p] EXCEPT !.rec = 0, !.found = {}])
      BY <1>0, <1>4, Labels DEF Unattached, Scanned, LocalOK, Local, At
    <2>2. LocalsOK'
      BY <1>4, <2>1, GotoKeepsLocals DEF Unattached
    <2>3. QED
      BY <1>4, <2>2 DEF Unattached, FilesOK, files
  <1>5. ASSUME Touch(p)
        PROVE  Typed'
    <2> DEFINE m == loc[p].sess
               current == IF marker[m.id] # None THEN marker[m.id] ELSE m
               touched == [current EXCEPT !.anchor = IF @ # None THEN @ ELSE m.anchor,
                                          !.last = IF @ > now THEN @ ELSE now]
    <2>1. m \in Session /\ m.id \in Sid
      BY <1>5, Held, Labels DEF Touch, At, Id
    <2>2. current \in Session
      BY <2>1 DEF FilesOK
    <2>3. touched \in Session
      BY <2>1, <2>2 DEF Session, FilesOK
    <2>4. LocalOK("body", [loc[p] EXCEPT !.sess = None, !.rec = m.id])
      BY <1>0, <1>5, <2>1, Labels DEF Touch, LocalOK, Local, At
    <2>5. LocalsOK'
      BY <1>5, <2>4, GotoKeepsLocals DEF Touch
    <2>6. QED
      BY <1>5, <2>1, <2>3, <2>5 DEF Touch, FilesOK
  <1>6. ASSUME RotateEnd(p)
        PROVE  Typed'
    <2>1. LocalOK("rotateClear", loc[p]) /\ Id(p) \in Sid
      BY <1>0, <1>6, Held, Labels DEF RotateEnd, LocalOK, At
    <2>2. LocalsOK' /\ log' \in [Sid -> Journal]
      BY <1>6, <2>1, GotoKeepsLocals, WritesKeepJournals DEF RotateEnd
    <2>3. QED
      BY <1>6, <2>2 DEF RotateEnd, FilesOK
  <1>7. ASSUME RotateClear(p)
        PROVE  Typed'
    <2>1. LocalOK("allocate", [loc[p] EXCEPT !.sess = None])
      BY <1>0, <1>7, Labels DEF RotateClear, LocalOK, Local, At
    <2>2. LocalsOK'
      BY <1>7, <2>1, GotoKeepsLocals DEF RotateClear
    <2>3. QED
      BY <1>7, <2>2 DEF RotateClear, Unlink, FilesOK
  <1>8. QED
    BY <1>1, <1>2, <1>3, <1>4, <1>5, <1>6, <1>7 DEF Resolve

LEMMA CreateTyped ==
    ASSUME Typed, NEW p \in Proc, Create(p)
    PROVE  Typed'
  <1> USE DEF Typed
  <1>0. LocalOK(pc[p], loc[p])
    BY DEF LocalsOK
  <1>1. ASSUME Allocate(p)
        PROVE  Typed'
    <2>1. NewSession(p, counter + 1) \in Session
      <3>1. counter + 1 \in Sid
        BY <1>1, SizesAssumption DEF Allocate, FilesOK, Sid
      <3>2. Wanted(p) \in Anchor \cup {None}
        BY <1>1, Held DEF Allocate, Wanted, Command, At
      <3>3. QED
        BY <3>1, <3>2 DEF NewSession, Session, FilesOK
    <2>2. LocalOK("publish", [loc[p] EXCEPT !.sess = NewSession(p, counter + 1)])
      BY <1>0, <1>1, <2>1, NoneAssumption, Labels DEF Allocate, LocalOK, Local, At
    <2>3. LocalsOK'
      BY <1>1, <2>2, GotoKeepsLocals DEF Allocate
    <2>4. counter' \in 0..MaxSid
      BY <1>1, SizesAssumption DEF Allocate, FilesOK
    <2>5. QED
      BY <1>1, <2>3, <2>4 DEF Allocate, FilesOK
  <1>2. ASSUME Publish(p)
        PROVE  Typed'
    <2>1. LocalOK("header", loc[p]) /\ Id(p) \in Sid /\ loc[p].sess \in Session
      BY <1>0, <1>2, Held, Labels DEF Publish, LocalOK, At
    <2>2. LocalsOK'
      BY <1>2, <2>1, GotoKeepsLocals DEF Publish
    <2>3. QED
      BY <1>2, <2>1, <2>2 DEF Publish, FilesOK
  <1>3. ASSUME WriteHeader(p)
        PROVE  Typed'
    <2>1. loc[p].sess \in Session /\ Id(p) \in Sid /\ ~At(p, "idle")
      BY <1>3, Held, Labels DEF WriteHeader, At
    <2>2. LocalOK("body", [loc[p] EXCEPT !.sess = None, !.rec = Id(p)])
      BY <1>0, <1>3, <2>1, Labels DEF WriteHeader, LocalOK, Local, At
    <2>3. LocalsOK'
      BY <1>3, <2>1, <2>2, GotoKeepsLocals, ToFlushKeepsLocals DEF WriteHeader
    <2>4. log' \in [Sid -> Journal]
      BY <1>3, <2>1, RecordsAreRecords, WritesKeepJournals DEF WriteHeader
    <2>5. QED
      BY <1>3, <2>3, <2>4 DEF WriteHeader, FilesOK
  <1>4. QED
    BY <1>1, <1>2, <1>3 DEF Create

LEMMA RotateTyped ==
    ASSUME Typed, NEW p \in Proc, Rotate(p)
    PROVE  Typed'
  <1> USE DEF Typed
  <1>0. LocalOK(pc[p], loc[p])
    BY DEF LocalsOK
  <1>a. ~At(p, "idle") => loc[p].cmd.env \in {0} \cup Sid /\ loc[p].cmd # None
    BY <1>0, Held DEF Command, LocalOK, At
  <1>1. ASSUME StartCommand(p) \/ StartCurrentDone(p) \/ StartAllDone(p) \/ AllRetired(p)
        PROVE  Typed'
    <2>1. /\ ~At(p, "idle")
          /\ pc[p] \in {"body", "startCurrent", "startAll", "retirePrior"}
      BY <1>1 DEF StartCommand, StartCurrentDone, StartAllDone, AllRetired, Scanned, Body, At
    <2>2. LocalOK("allocate", loc[p])
      BY <1>0, <2>1, Labels DEF LocalOK, At
    <2>3. ToFlush(p) => LocalsOK'
      BY <2>1, ToFlushKeepsLocals
    <2>a. LocalOK("retirePrior", [loc[p] EXCEPT !.skip = Active(p) # {}])
      BY <1>0, <2>1, Labels DEF LocalOK, Local, At
    <2>4. Goto(p, "allocate", loc[p]) \/ ToRotate(p) => LocalsOK'
      BY <2>2, <2>a, GotoKeepsLocals DEF ToRotate
    <2>5. \A l \in {"startCurrent", "startAll"}, env \in {0, loc[p].cmd.env} :
             StartScan(p, l, env, loc[p]) => LocalsOK'
      BY <1>0, <1>a, <2>1, ScanKeepsLocals, Labels DEF LocalOK
    <2>6. LocalsOK'
      BY <1>1, <2>3, <2>4, <2>5 DEF StartCommand, StartCurrentDone, StartAllDone, AllRetired
    <2>7. QED
      BY <1>1, <2>6 DEF StartCommand, StartCurrentDone, StartAllDone, AllRetired, FilesOK, files
  <1>2. ASSUME RetirePrior(p)
        PROVE  Typed'
    <2>1. PICK m \in Active(p) :
             /\ WriteEnd(m.id)
             /\ Goto(p, "clearPrior", [loc[p] EXCEPT !.found = @ \ {m}, !.sess = m])
      BY <1>2 DEF RetirePrior
    <2>2. m \in Session /\ m.id \in Sid
      BY <1>0 DEF Active, LocalOK, Local, Session
    <2>3. LocalOK("clearPrior", [loc[p] EXCEPT !.found = @ \ {m}, !.sess = m])
      BY <1>0, <1>2, <2>2, NoneAssumption, Labels DEF RetirePrior, LocalOK, Local, At
    <2>4. LocalsOK' /\ log' \in [Sid -> Journal]
      BY <2>1, <2>2, <2>3, GotoKeepsLocals, WritesKeepJournals
    <2>5. QED
      BY <1>2, <2>4 DEF RetirePrior, FilesOK
  <1>3. ASSUME ClearPrior(p)
        PROVE  Typed'
    <2>1. LocalOK("retirePrior", [loc[p] EXCEPT !.sess = None])
      BY <1>0, <1>3, Labels DEF ClearPrior, LocalOK, Local, At
    <2>2. LocalsOK'
      BY <1>3, <2>1, GotoKeepsLocals DEF ClearPrior
    <2>3. QED
      BY <1>3, <2>2 DEF ClearPrior, Unlink, FilesOK
  <1>4. QED
    BY <1>1, <1>2, <1>3 DEF Rotate

LEMMA EndTyped ==
    ASSUME Typed, NEW p \in Proc, End(p)
    PROVE  Typed'
  <1> USE DEF Typed
  <1>0. LocalOK(pc[p], loc[p])
    BY DEF LocalsOK
  <1>1. ASSUME EndCommand(p)
        PROVE  Typed'
    <2>1. loc[p].cmd.env \in {0} \cup Sid /\ loc[p].cmd # None /\ loc[p] \in Local
      BY <1>0, <1>1, Held DEF EndCommand, Body, At, Command, LocalOK
    <2>2. LocalsOK'
      BY <1>1, <2>1, ScanKeepsLocals, Labels DEF EndCommand
    <2>3. QED
      BY <1>1, <2>2 DEF EndCommand, FilesOK, files
  <1>2. ASSUME EndRefused(p)
        PROVE  Typed'
    <2>1. LocalsOK'
      BY <1>2, ToFlushKeepsLocals DEF EndRefused, Scanned, At
    <2>2. QED
      BY <1>2, <2>1 DEF EndRefused, FilesOK, files
  <1>3. ASSUME EndAccepted(p)
        PROVE  Typed'
    <2>1. PICK m \in Active(p) :
             Goto(p, "end", [loc[p] EXCEPT !.sess = m, !.found = {}, !.skip = TRUE])
      BY <1>3 DEF EndAccepted
    <2>2. m \in Session
      BY <1>0 DEF Active, LocalOK, Local
    <2>3. LocalOK("end", [loc[p] EXCEPT !.sess = m, !.found = {}, !.skip = TRUE])
      BY <1>0, <1>3, <2>2, NoneAssumption, Labels DEF EndAccepted, Scanned, LocalOK, Local, At
    <2>4. LocalsOK'
      BY <2>1, <2>3, GotoKeepsLocals
    <2>5. QED
      BY <1>3, <2>4 DEF EndAccepted, FilesOK, files
  <1>4. ASSUME EndSession(p)
        PROVE  Typed'
    <2>1. LocalOK("endClear", loc[p]) /\ Id(p) \in Sid
      BY <1>0, <1>4, Held, Labels DEF EndSession, LocalOK, At
    <2>2. LocalsOK' /\ log' \in [Sid -> Journal]
      BY <1>4, <2>1, GotoKeepsLocals, ToFlushKeepsLocals, WritesKeepJournals DEF EndSession, At
    <2>3. QED
      BY <1>4, <2>2 DEF EndSession, FilesOK
  <1>5. ASSUME EndClear(p)
        PROVE  Typed'
    <2>1. LocalsOK'
      BY <1>5, ToFlushKeepsLocals DEF EndClear, At
    <2>2. QED
      BY <1>5, <2>1 DEF EndClear, Unlink, FilesOK
  <1>6. QED
    BY <1>1, <1>2, <1>3, <1>4, <1>5 DEF End

LEMMA OthersTyped ==
    ASSUME Typed, NEW p \in Proc, Others(p)
    PROVE  Typed'
  <1> USE DEF Typed
  <1>0. LocalOK(pc[p], loc[p])
    BY DEF LocalsOK
  <1>a. ~At(p, "idle") => loc[p].cmd \in Command /\ loc[p].cmd \in Commands
    BY Held
  <1>1. ASSUME RunCommand(p)
        PROVE  Typed'
    <2>1. loc[p].rec # 0 => LocalOK("setAnchor", loc[p])
      BY <1>0, <1>1, Labels DEF RunCommand, Body, LocalOK, At
    <2>2. LocalsOK'
      BY <1>1, <2>1, GotoKeepsLocals, ToFlushKeepsLocals DEF RunCommand, Body, At
    <2>3. QED
      BY <1>1, <2>2 DEF RunCommand, FilesOK, files
  <1>2. ASSUME SetAnchor(p)
        PROVE  Typed'
    <2>1. loc[p].rec \in Sid /\ Wanted(p) \in Anchor \cup {None}
      BY <1>2, <1>a, Held, Labels DEF SetAnchor, At, Wanted, Command
    <2>2. marker' \in [Sid -> Session \cup {None}]
      BY <1>2, <2>1 DEF SetAnchor, FilesOK, Session
    <2>3. LocalsOK'
      BY <1>2, ToFlushKeepsLocals DEF SetAnchor, At
    <2>4. QED
      BY <1>2, <2>2, <2>3 DEF SetAnchor, FilesOK
  <1>3. ASSUME ResumeCommand(p)
        PROVE  Typed'
    <2> DEFINE s == loc[p].cmd.sid
    <2>1. s \in Sid
      BY <1>3, <1>a, CommandAssumption DEF ResumeCommand, Body, At, Command
    <2>2. Hydrates(log[s]) => Header(log[s]) \in Session
      BY <2>1, HeaderIsSession DEF FilesOK
    <2>3. Hydrates(log[s]) => LocalOK("resume", [loc[p] EXCEPT !.sess = Header(log[s])])
      BY <1>0, <1>3, <2>2, NoneAssumption, Labels DEF ResumeCommand, Body, LocalOK, Local, At
    <2>4. LocalsOK'
      BY <1>3, <2>3, GotoKeepsLocals, ToFlushKeepsLocals DEF ResumeCommand, Body, At
    <2>5. QED
      BY <1>3, <2>4 DEF ResumeCommand, FilesOK, files
  <1>4. ASSUME Resume(p)
        PROVE  Typed'
    <2>1. loc[p].sess \in Session
      BY <1>4, Held, Labels DEF Resume, At
    <2>2. LocalsOK'
      BY <1>4, ToFlushKeepsLocals DEF Resume, At
    <2>3. QED
      BY <1>4, <2>1, <2>2 DEF Resume, FilesOK
  <1>5. ASSUME AnnotateCommand(p)
        PROVE  Typed'
    <2>1. loc[p].cmd.env \in {0} \cup Sid /\ loc[p].cmd # None /\ loc[p] \in Local
      BY <1>0, <1>5, <1>a DEF AnnotateCommand, Body, At, Command, LocalOK
    <2>2. LocalsOK'
      BY <1>5, <2>1, ScanKeepsLocals, Labels DEF AnnotateCommand
    <2>3. QED
      BY <1>5, <2>2 DEF AnnotateCommand, FilesOK, files
  <1>6. ASSUME AnnotateRefused(p)
        PROVE  Typed'
    <2>1. LocalsOK'
      BY <1>6, ToFlushKeepsLocals, ExitKeepsLocals DEF AnnotateRefused, Scanned, At
    <2>2. QED
      BY <1>6, <2>1 DEF AnnotateRefused, FilesOK, files
  <1>7. ASSUME AnnotateTarget(p)
        PROVE  Typed'
    <2>1. PICK m \in Active(p) : \E n \in InvocationSeqs(log[m.id]) :
             Goto(p, "note", [loc[p] EXCEPT !.sess = m, !.found = {}, !.seq = n])
      BY <1>7 DEF AnnotateTarget
    <2>2. m \in Session /\ m.id \in Sid
      BY <1>0 DEF Active, LocalOK, Local, Session
    <2>3. PICK n \in InvocationSeqs(log[m.id]) :
             Goto(p, "note", [loc[p] EXCEPT !.sess = m, !.found = {}, !.seq = n])
      BY <2>1
    <2>4. n \in Nat
      <3>1. PICK i \in Invocations(log[m.id]) : n = log[m.id][i].seq
        BY <2>3 DEF InvocationSeqs
      <3>2. log[m.id] \in Journal
        BY <2>2 DEF FilesOK
      <3>3. log[m.id][i] \in Record /\ log[m.id][i].kind = "invocation"
        BY <3>1, <3>2 DEF Invocations, Journal
      <3>4. QED
        BY <3>1, <3>3 DEF Record
    <2>5. LocalOK("note", [loc[p] EXCEPT !.sess = m, !.found = {}, !.seq = n])
      BY <1>0, <1>7, <2>2, <2>4, NoneAssumption, Labels
         DEF AnnotateTarget, Scanned, LocalOK, Local, At
    <2>6. LocalsOK'
      BY <2>3, <2>5, GotoKeepsLocals
    <2>7. QED
      BY <1>7, <2>6 DEF AnnotateTarget, FilesOK, files
  <1>8. ASSUME WriteAnnotation(p)
        PROVE  Typed'
    <2>1. Id(p) \in Sid /\ loc[p].seq \in Nat
      BY <1>0, <1>8, Held, Labels DEF WriteAnnotation, At, LocalOK, Local
    <2>2. LocalsOK' /\ log' \in [Sid -> Journal]
      BY <1>8, <2>1, ToFlushKeepsLocals, WritesKeepJournals, RecordsAreRecords
         DEF WriteAnnotation, At
    <2>3. QED
      BY <1>8, <2>2 DEF WriteAnnotation, FilesOK
  <1>9. ASSUME FeedbackCommand(p)
        PROVE  Typed'
    <2>1. LocalOK("feedback", loc[p])
      BY <1>0, <1>9, <1>a, CommandAssumption, Labels DEF FeedbackCommand, Body, LocalOK, At
    <2>2. LocalsOK'
      BY <1>9, <2>1, GotoKeepsLocals, ToFlushKeepsLocals DEF FeedbackCommand, Body, At
    <2>3. QED
      BY <1>9, <2>2 DEF FeedbackCommand, FilesOK, files
  <1>10. ASSUME FeedbackEnter(p) \/ FeedbackNumber(p)
        PROVE  Typed'
    <2>1. loc[p].cmd.sid \in Sid /\ ~At(p, "idle")
      BY <1>10, Held, Labels DEF FeedbackEnter, FeedbackNumber, At
    <2>2. LocalOK("fbNumber", loc[p]) /\ LocalOK("fbBump", loc[p])
      BY <1>0, <1>10, Labels DEF FeedbackEnter, FeedbackNumber, LocalOK, At
    <2>3. LocalsOK'
      BY <1>10, <2>2, GotoKeepsLocals DEF FeedbackEnter, FeedbackNumber
    <2>4. QED
      BY <1>10, <2>1, <2>3 DEF FeedbackEnter, FeedbackNumber, FilesOK, files
  <1>11. ASSUME FeedbackBump(p)
        PROVE  Typed'
    <2> DEFINE s == loc[p].cmd.sid
    <2>1. s \in Sid /\ fbseq[s] + 1 \in Nat
      BY <1>11, Held, Labels DEF FeedbackBump, FilesOK, At
    <2>2. LocalOK("fbAppend", [loc[p] EXCEPT !.seq = fbseq[s] + 1])
      BY <1>0, <1>11, <2>1, Labels DEF FeedbackBump, LocalOK, Local, At
    <2>3. LocalsOK'
      BY <1>11, <2>2, GotoKeepsLocals DEF FeedbackBump
    <2>4. QED
      BY <1>11, <2>1, <2>3 DEF FeedbackBump, FilesOK
  <1>12. ASSUME WriteFeedback(p)
        PROVE  Typed'
    <2> DEFINE s == loc[p].cmd.sid
    <2>1. s \in Sid /\ Feedback(loc[p].seq) \in Record
      BY <1>0, <1>12, Held, RecordsAreRecords, Labels DEF WriteFeedback, At, LocalOK, Local
    <2>2. LocalsOK'
      BY <1>12, ToFlushKeepsLocals DEF WriteFeedback, At
    <2>3. log' \in [Sid -> Journal]
      BY <1>12, <2>1 DEF WriteFeedback, FilesOK, Journal
    <2>4. QED
      BY <1>12, <2>1, <2>2, <2>3 DEF WriteFeedback, FilesOK
  <1>13. QED
    BY <1>1, <1>2, <1>3, <1>4, <1>5, <1>6, <1>7, <1>8, <1>9, <1>10, <1>11, <1>12 DEF Others

LEMMA FlushTyped ==
    ASSUME Typed, NEW p \in Proc, Flush(p)
    PROVE  Typed'
  <1> USE DEF Typed
  <1> DEFINE s == loc[p].rec
  <1>0. LocalOK(pc[p], loc[p])
    BY DEF LocalsOK
  <1>1. ASSUME FlushNothing(p) \/ FlushDrop(p)
        PROVE  Typed'
    <2>1. LocalsOK'
      BY <1>1, ExitKeepsLocals DEF FlushNothing, FlushDrop
    <2>2. QED
      BY <1>1, <2>1 DEF FlushNothing, FlushDrop, Flushing, TryUnlink, Unlink, FilesOK, files
  <1>2. ASSUME FlushEnter(p) \/ FlushNumber(p)
        PROVE  Typed'
    <2>1. s \in Sid
      BY <1>0, <1>2, Held, Labels
         DEF FlushEnter, FlushNumber, Flushing, LocalOK, Local, At
    <2>2. LocalOK("number", loc[p]) /\ LocalOK("bump", loc[p])
      BY <1>0, <1>2, <2>1, Labels DEF FlushEnter, FlushNumber, Flushing, LocalOK, At
    <2>3. LocalsOK'
      BY <1>2, <2>2, GotoKeepsLocals DEF FlushEnter, FlushNumber
    <2>4. QED
      BY <1>2, <2>1, <2>3 DEF FlushEnter, FlushNumber, FilesOK, files
  <1>a. ASSUME FlushBump(p)
        PROVE  Typed'
    <2>1. s \in Sid /\ seqf[s] + 1 \in Nat
      BY <1>a, Held, Labels DEF FlushBump, FilesOK, At
    <2>2. LocalOK("synth", [loc[p] EXCEPT !.seq = seqf[s] + 1])
      BY <1>0, <1>a, <2>1, Labels DEF FlushBump, LocalOK, Local, At
    <2>3. LocalsOK'
      BY <1>a, <2>2, GotoKeepsLocals DEF FlushBump
    <2>4. QED
      BY <1>a, <2>1, <2>3 DEF FlushBump, FilesOK
  <1>3. ASSUME FlushHeader(p)
        PROVE  Typed'
    <2>1. s \in Sid /\ LocalOK("append", loc[p])
      BY <1>0, <1>3, Held, Labels DEF FlushHeader, LocalOK, At
    <2>2. SynthHeader(s) \in Record
      <3>1. [id |-> s, auto |-> FALSE, anchor |-> None, last |-> now] \in Session
        BY <2>1 DEF Session, FilesOK
      <3>2. QED
        BY <3>1, RecordsAreRecords DEF SynthHeader
    <2>3. LocalsOK'
      BY <1>3, <2>1, GotoKeepsLocals DEF FlushHeader
    <2>4. log' \in [Sid -> Journal]
      BY <1>3, <2>1, <2>2 DEF FlushHeader, FilesOK, Journal
    <2>5. QED
      BY <1>3, <2>3, <2>4 DEF FlushHeader, FilesOK
  <1>4. ASSUME FlushAppend(p)
        PROVE  Typed'
    <2>1. s \in Sid /\ Invocation(loc[p].seq) \in Record
      BY <1>0, <1>4, Held, RecordsAreRecords, Labels DEF FlushAppend, At, LocalOK, Local
    <2>2. LocalsOK'
      BY <1>4, ExitKeepsLocals DEF FlushAppend
    <2>3. log' \in [Sid -> Journal]
      BY <1>4, <2>1 DEF FlushAppend, FilesOK, Journal
    <2>4. QED
      BY <1>4, <2>1, <2>2, <2>3 DEF FlushAppend, FilesOK
  <1>5. QED
    BY <1>1, <1>2, <1>a, <1>3, <1>4 DEF Flush

LEMMA FaultTyped ==
    ASSUME Typed, NEW p \in Proc, Fault(p)
    PROVE  Typed'
  <1> USE DEF Typed
  <1>0. Release(p) => /\ lock' \in [Sid -> Proc \cup {None}]
                      /\ seqlock' \in [Sid -> Proc \cup {None}]
                      /\ fblock' \in [Sid -> Proc \cup {None}]
    BY DEF Release, Freed, FilesOK
  <1>a. ~At(p, "idle") /\ Torn(p) => LocalsOK'
    BY ExitKeepsLocals, ToFlushKeepsLocals DEF Torn
  <1>1. ASSUME Fail(p)
        PROVE  Typed'
    <2>1. ~At(p, "idle")
      BY <1>1, Labels DEF Fail, Fallible, At
    <2>2. LocalsOK'
      BY <1>1, <2>1, ExitKeepsLocals, ToFlushKeepsLocals DEF Fail
    <2>3. QED
      BY <1>0, <1>1, <2>2 DEF Fail, FilesOK, files
  <1>2. ASSUME Crash(p)
        PROVE  Typed'
    <2>1. LocalsOK'
      BY <1>2, ExitKeepsLocals DEF Crash
    <2>2. QED
      BY <1>0, <1>2, <2>1 DEF Crash, FilesOK, files
  <1>3. ASSUME TornCounter(p)
        PROVE  Typed'
    <2>1. LocalsOK'
      BY <1>a, <1>3 DEF TornCounter, At
    <2>2. counter' \in 0..MaxSid
      BY <1>3, SizesAssumption DEF TornCounter
    <2>3. QED
      BY <1>3, <2>1, <2>2 DEF TornCounter, FilesOK
  <1>4. ASSUME TornSeq(p)
        PROVE  Typed'
    <2>1. LocalsOK'
      BY <1>4, ExitKeepsLocals DEF TornSeq
    <2>2. QED
      BY <1>0, <1>4, <2>1 DEF TornSeq, FilesOK
  <1>5. ASSUME TornFeedback(p)
        PROVE  Typed'
    <2>1. LocalsOK'
      BY <1>a, <1>5 DEF TornFeedback, At
    <2>2. QED
      BY <1>0, <1>5, <2>1 DEF TornFeedback, FilesOK
  <1>6. QED
    BY <1>1, <1>2, <1>3, <1>4, <1>5 DEF Fault

LEMMA StepTyped == ASSUME Typed, NEW p \in Proc, Step(p) PROVE Typed'
  BY ScanTyped, ResolveTyped, CreateTyped, RotateTyped, EndTyped, OthersTyped, FlushTyped
     DEF Step

LEMMA TypedInit == Init => Typed
  <1> SUFFICES ASSUME Init PROVE Typed
    OBVIOUS
  <1>1. <<>> \in Journal
    BY DEF Journal
  <1>2. FilesOK
    BY <1>1, SizesAssumption, StoreAssumption DEF Init, FilesOK, Time
  <1>3. LocalsOK
    BY FreshOK DEF Init, LocalsOK, LocalOK
  <1>4. QED
    BY <1>2, <1>3 DEF Typed

LEMMA TypedNext == Typed /\ [Next]_vars => Typed'
  <1> SUFFICES ASSUME Typed, [Next]_vars PROVE Typed'
    OBVIOUS
  <1>1. ASSUME Tick PROVE Typed'
    BY <1>1, SizesAssumption DEF Tick, Typed, FilesOK, LocalsOK, Time, files
  <1>2. ASSUME UNCHANGED vars PROVE Typed'
    BY <1>2 DEF vars, Typed, FilesOK, LocalsOK
  <1>3. QED
    BY <1>1, <1>2, BeginTyped, StepTyped, FaultTyped DEF Next

LEMMA TypedIsInvariant == Spec => []Typed
  BY TypedInit, TypedNext, PTL DEF Spec

\* Every file and every local variable keeps its type, whatever the interleaving and
\* the faults; LocalOK adds that a process which acts on a session has one.
THEOREM TypeCorrect == Spec => []TypeOK
  <1>1. Typed => TypeOK
    BY DEF Typed, FilesOK, LocalsOK, TypeOK
  <1>2. QED
    BY <1>1, TypedIsInvariant, PTL

-----------------------------------------------------------------------------
(* The inductive invariant.                                                *)

\* Labels at which a process is about to remove the marker of a session that it has
\* just ended, or found ended.
ClearPc == {"unlink", "rotateClear", "clearPrior", "endClear"}

\* What a process may rely on where it is: the lock is what keeps the first two lines
\* true, the rest is kept by journals only growing.
ReliesOn(p) ==
    /\ pc[p] \in LockedPc => lock[loc[p].rec] = p /\ ~Ended(log[loc[p].rec])
    /\ pc[p] \in FeedbackPc => lock[loc[p].cmd.sid] = p
    /\ At(p, "append") => Hydrates(log[loc[p].rec])
    /\ At(p, "note") => loc[p].seq \in InvocationSeqs(log[Id(p)])
    /\ pc[p] \in {"feedback"} \cup FeedbackPc => Hydrates(log[loc[p].cmd.sid])
    /\ pc[p] \in ClearPc => Ended(log[Id(p)])

\* A journal with something in it can be loaded, or was ended before its creator wrote
\* the header.
Sound(journal) == journal = <<>> \/ Hydrates(journal) \/ Ended(journal)

Promised ==
    /\ \A s \in Sid : Sound(log[s])
    /\ \A p \in Proc : ReliesOn(p)

-----------------------------------------------------------------------------
(* The writes of the code as steps of SessionJournal.                      *)

\* SessionJournal has its own copy of the operators of SessionRecords.
LEMMA SameOperators ==
    ASSUME NEW s \in Sid
    PROVE  /\ s \in J!Sid
           /\ J!Ended(log[s]) <=> Ended(log[s])
           /\ J!Hydrates(log[s]) <=> Hydrates(log[s])
           /\ J!InvocationSeqs(log[s]) = InvocationSeqs(log[s])
           /\ \A n : J!Closed(log[s], n) = Closed(log[s], n)
  <1>1. J!Invocations(log[s]) = Invocations(log[s])
    BY DEF J!Invocations, Invocations
  <1>2. /\ J!Ended(log[s]) <=> Ended(log[s])
        /\ J!Hydrates(log[s]) <=> Hydrates(log[s])
        /\ J!InvocationSeqs(log[s]) = InvocationSeqs(log[s])
    BY <1>1 DEF J!Ended, Ended, J!Hydrates, Hydrates, J!InvocationSeqs, InvocationSeqs
  <1>3. \A n : J!Closed(log[s], n) = Closed(log[s], n)
    <2>1. \A c, n : J!Summary(c, n) = Summary(c, n) /\ J!EndMark(n) = EndMark(n)
      BY DEF J!Summary, Summary, J!EndMark, EndMark
    <2>2. J!Cardinality(J!Invocations(log[s])) = Cardinality(Invocations(log[s]))
      BY <1>1 DEF J!Cardinality, Cardinality
    <2>3. QED
      BY <2>1, <2>2 DEF J!Closed, Closed
  <1>4. QED
    BY <1>2, <1>3 DEF J!Sid, Sid

\* J's next-state relation over the operators used here.
LEMMA JournalNext ==
    ASSUME NEW s \in Sid,
           \/ J!AddsLine(s, "session_started")
           \/ ~Ended(log[s]) /\ Hydrates(log[s]) /\ J!AddsLine(s, "invocation")
           \/ J!Close(s)
           \/ J!AddsLine(s, "annotation") /\ J!Line(s).refers \in InvocationSeqs(log[s])
           \/ Hydrates(log[s]) /\ J!AddsLine(s, "session_feedback")
    PROVE  J!Next
  <1>1. J!Open(s) \/ J!RecordInvocation(s) \/ J!Close(s) \/ J!Remark(s) \/ J!Assess(s)
    BY SameOperators DEF J!Open, J!RecordInvocation, J!Remark, J!Assess
  <1>2. QED
    BY <1>1, SameOperators DEF J!Next

LEMMA AppendIsStep ==
    ASSUME FilesOK, NEW s \in Sid, NEW r \in Record,
           log' = [log EXCEPT ![s] = Append(@, r)]
    PROVE  J!AddsLine(s, r.kind) /\ J!Line(s) = r
  <1>1. log[s] \in Seq(Record) /\ log'[s] = Append(log[s], r)
    BY DEF FilesOK, Journal
  <1>2. Len(log'[s]) = Len(log[s]) + 1 /\ log'[s][Len(log[s]) + 1] = r
    BY <1>1
  <1>3. QED
    BY <1>2 DEF J!AddsLine, J!Line

LEMMA EndIsStep ==
    ASSUME FilesOK, NEW s \in Sid, WriteEnd(s)
    PROVE  log' = log \/ J!Close(s)
  <1> SUFFICES ASSUME ~Ended(log[s]) PROVE J!Close(s)
    BY DEF WriteEnd
  <1> DEFINE first == Summary(Cardinality(Invocations(log[s])), seqf[s])
  <1>1. log' = [log EXCEPT ![s] = Append(Append(@, first), EndMark(seqf[s]))]
    BY DEF WriteEnd, Closed
  <1>2. log[s] \in Seq(Record) /\ log'[s] = Append(Append(log[s], first), EndMark(seqf[s]))
    BY <1>1 DEF FilesOK, Journal
  <1> HIDE DEF first
  <1>3. Len(log'[s]) = Len(log[s]) + 2 /\ log'[s][Len(log[s]) + 1] = first
    <2>1. Append(log[s], first) \in Seq(Record \cup {first})
      BY <1>2
    <2>2. Len(Append(log[s], first)) = Len(log[s]) + 1
      BY <1>2
    <2>3. QED
      BY <1>2, <2>1, <2>2
  <1>4. J!Line(s).final = seqf[s]
    BY <1>3 DEF J!Line, first, Summary
  <1>5. /\ J!Closed(log[s], seqf[s]) = Closed(log[s], seqf[s])
        /\ J!Ended(log[s]) <=> Ended(log[s])
    BY SameOperators
  <1>6. log' = [log EXCEPT ![s] = J!Closed(@, seqf[s])]
    BY <1>1, <1>5 DEF Closed, first
  <1>7. QED
    BY <1>3, <1>4, <1>5, <1>6 DEF J!Close

\* The steps that write a journal.
Writes(p) ==
    \/ Retire(p) \/ RotateEnd(p) \/ WriteHeader(p) \/ RetirePrior(p) \/ EndSession(p)
    \/ WriteAnnotation(p) \/ WriteFeedback(p) \/ FlushHeader(p) \/ FlushAppend(p)

LEMMA OnlyWritersWrite ==
    ASSUME NEW p \in Proc, Begin(p) \/ Step(p) \/ Fault(p), ~Writes(p)
    PROVE  log' = log
  <1>1. CASE Begin(p) \/ Fault(p)
    BY <1>1 DEF Begin, Fault, Fail, Crash, TornCounter, TornSeq, Torn, TornFeedback, files
  <1>2. CASE Scan(p)
    BY <1>2 DEF Writes, Scan, ScanGone, ScanHeal, ScanLive, ScanNothing, ScanExpired,
                ScanActive, RetireUnlink, CallbackDone, files
  <1>3. CASE Resolve(p)
    BY <1>3 DEF Writes, Resolve, AttachExplicit, AttachMatch, AttachSole, StartRotation,
                StartAutomatic, Unattached, Touch, RotateClear, files
  <1>4. CASE Create(p) \/ Rotate(p)
    BY <1>4 DEF Writes, Create, Allocate, Publish, Rotate, StartCommand, StartCurrentDone,
                StartAllDone, ClearPrior, AllRetired, files
  <1>5. CASE End(p) \/ Flush(p)
    BY <1>5 DEF Writes, End, EndCommand, EndRefused, EndAccepted, EndClear, Flush,
                FlushNothing, FlushDrop, FlushEnter, FlushNumber, FlushBump, files
  <1>6. CASE Others(p)
    BY <1>6 DEF Writes, Others, RunCommand, SetAnchor, ResumeCommand, Resume,
                AnnotateCommand, AnnotateRefused, AnnotateTarget, FeedbackCommand,
                FeedbackEnter, FeedbackNumber, FeedbackBump, files
  <1>7. QED
    BY <1>1, <1>2, <1>3, <1>4, <1>5, <1>6 DEF Step

LEMMA WritesAreSteps ==
    ASSUME Typed, Promised, NEW p \in Proc, Writes(p)
    PROVE  log' = log \/ J!Next
  <1> USE DEF Typed
  <1> DEFINE s == loc[p].rec
  <1>1. ASSUME NEW t \in Sid, WriteEnd(t) PROVE log' = log \/ J!Next
    BY <1>1, EndIsStep, JournalNext
  <1>2. CASE Retire(p) \/ RotateEnd(p) \/ EndSession(p)
    <2>1. Id(p) \in Sid
      BY <1>2, Held, Labels DEF Retire, RotateEnd, EndSession, At
    <2>2. QED
      BY <1>1, <1>2, <2>1 DEF Retire, RotateEnd, EndSession
  <1>3. CASE RetirePrior(p)
    <2>1. PICK m \in Active(p) : WriteEnd(m.id)
      BY <1>3 DEF RetirePrior
    <2>2. m.id \in Sid
      BY Held DEF Active, Local, Session
    <2>3. QED
      BY <1>1, <2>1, <2>2
  <1>4. CASE WriteHeader(p)
    <2>1. Id(p) \in Sid /\ Started(loc[p].sess) \in Record
      BY <1>4, Held, RecordsAreRecords, Labels DEF WriteHeader, At
    <2>2. J!AddsLine(Id(p), "session_started")
      BY <1>4, <2>1, AppendIsStep DEF WriteHeader, AppendRecord, Started
    <2>3. QED
      BY <2>1, <2>2, JournalNext
  <1>5. CASE WriteAnnotation(p)
    <2>1. Id(p) \in Sid /\ Annotation(loc[p].seq) \in Record
      BY <1>5, Held, RecordsAreRecords, Labels DEF WriteAnnotation, At, Local
    <2>2. J!AddsLine(Id(p), "annotation") /\ J!Line(Id(p)).refers = loc[p].seq
      <3>1. /\ J!AddsLine(Id(p), Annotation(loc[p].seq).kind)
            /\ J!Line(Id(p)) = Annotation(loc[p].seq)
        BY <1>5, <2>1, AppendIsStep DEF WriteAnnotation, AppendRecord
      <3>2. QED
        BY <3>1 DEF Annotation
    <2>3. loc[p].seq \in InvocationSeqs(log[Id(p)])
      BY <1>5 DEF WriteAnnotation, Promised, ReliesOn
    <2>4. QED
      BY <2>1, <2>2, <2>3, JournalNext
  <1>6. CASE WriteFeedback(p)
    <2> DEFINE t == loc[p].cmd.sid
    <2>1. t \in Sid /\ Feedback(loc[p].seq) \in Record
      BY <1>6, Held, RecordsAreRecords, Labels DEF WriteFeedback, At, Local
    <2>2. J!AddsLine(t, "session_feedback")
      BY <1>6, <2>1, AppendIsStep DEF WriteFeedback, Feedback
    <2>3. Hydrates(log[t])
      BY <1>6, Labels DEF WriteFeedback, At, Promised, ReliesOn
    <2>4. QED
      BY <2>1, <2>2, <2>3, JournalNext
  <1>7. CASE FlushHeader(p)
    <2>1. s \in Sid
      BY <1>7, Held, Labels DEF FlushHeader, At
    <2>2. SynthHeader(s) \in Record
      <3>1. [id |-> s, auto |-> FALSE, anchor |-> None, last |-> now] \in Session
        BY <2>1 DEF Session, FilesOK
      <3>2. QED
        BY <3>1, RecordsAreRecords DEF SynthHeader
    <2>3. log' = log \/ J!AddsLine(s, "session_started")
      BY <1>7, <2>1, <2>2, AppendIsStep DEF FlushHeader, SynthHeader, Started
    <2>4. QED
      BY <2>1, <2>3, JournalNext
  <1>8. CASE FlushAppend(p)
    <2>1. s \in Sid /\ Invocation(loc[p].seq) \in Record
      BY <1>8, Held, RecordsAreRecords, Labels DEF FlushAppend, At, Local
    <2>2. ~Ended(log[s]) /\ Hydrates(log[s])
      BY <1>8, Labels DEF FlushAppend, At, Promised, ReliesOn
    <2>3. J!AddsLine(s, "invocation")
      BY <1>8, <2>1, AppendIsStep DEF FlushAppend, Invocation
    <2>4. QED
      BY <2>1, <2>2, <2>3, JournalNext
  <1>9. QED
    BY <1>2, <1>3, <1>4, <1>5, <1>6, <1>7, <1>8 DEF Writes

LEMMA StepsAreSteps == Typed /\ Promised /\ [Next]_vars => [J!Next]_log
  <1>1. Tick \/ UNCHANGED vars => log' = log
    BY DEF Tick, vars, files
  <1>2. QED
    BY <1>1, OnlyWritersWrite, WritesAreSteps DEF Next

-----------------------------------------------------------------------------
(* Journals grow, and a lock keeps the others out.                         *)

\* k is j with something behind it, or j itself.
Extends(k, j) ==
    /\ Len(j) <= Len(k)
    /\ \A i \in DOMAIN j : i \in DOMAIN k /\ k[i] = j[i]

LEMMA Extensions ==
    ASSUME NEW j \in Journal, NEW k \in Journal, Extends(k, j)
    PROVE  /\ Ended(j) => Ended(k)
           /\ Hydrates(j) => Hydrates(k)
           /\ InvocationSeqs(j) \subseteq InvocationSeqs(k)
  <1>1. Ended(j) => Ended(k)
    BY DEF Ended, Extends
  <1>2. Hydrates(j) => Hydrates(k)
    BY DEF Hydrates, Extends, Journal
  <1>3. InvocationSeqs(j) \subseteq InvocationSeqs(k)
    <2>1. \A i \in Invocations(j) : i \in Invocations(k) /\ k[i].seq = j[i].seq
      BY DEF Invocations, Extends
    <2>2. QED
      BY <2>1 DEF InvocationSeqs
  <1>4. QED
    BY <1>1, <1>2, <1>3

\* Every way of writing a journal extends it.
LEMMA WritesExtend ==
    ASSUME FilesOK, FilesOK', [J!Next]_log, NEW s \in Sid
    PROVE  Extends(log'[s], log[s])
  <1> USE DEF Journal
  <1>0. log[s] \in Seq(Record) /\ log'[s] \in Seq(Record) /\ J!Sid = Sid
    BY DEF FilesOK, J!Sid, Sid
  <1>1. ASSUME NEW t \in Sid, NEW kind, J!AddsLine(t, kind)
        PROVE  Extends(log'[s], log[s])
    <2>1. log'[s] = log[s] \/ (log'[s] = Append(log[s], J!Line(t)) /\ s = t)
      BY <1>1 DEF J!AddsLine, FilesOK
    <2>2. CASE s = t
      <3>1. J!Line(t) \in Record
        BY <1>0, <1>1, <2>2 DEF J!AddsLine, J!Line
      <3>2. QED
        BY <1>0, <2>1, <3>1 DEF Extends
    <2>3. QED
      BY <1>0, <2>1, <2>2 DEF Extends
  <1>2. ASSUME NEW t \in Sid, J!Close(t)
        PROVE  Extends(log'[s], log[s])
    <2> DEFINE n == J!Line(t).final
               first == Summary(Cardinality(Invocations(log[t])), n)
    <2>1. J!Closed(log[t], n) = Append(Append(log[t], first), EndMark(n))
      BY SameOperators DEF Closed
    <2> HIDE DEF first, n
    <2>2. \/ log'[s] = log[s]
          \/ log'[s] = Append(Append(log[s], first), EndMark(n)) /\ s = t
      BY <1>2, <2>1 DEF J!Close, FilesOK, n
    <2>3. \A x, y : Extends(Append(Append(log[s], x), y), log[s])
      BY <1>0 DEF Extends
    <2>4. QED
      BY <1>0, <2>2, <2>3 DEF Extends
  <1>3. QED
    BY <1>0, <1>1, <1>2 DEF J!Next, J!Open, J!RecordInvocation, J!Remark, J!Assess, Extends

\* A process inside a locked section is the only one to write that journal.
LEMMA OnlyHolderWrites ==
    ASSUME Typed, Promised, NEW p \in Proc, Begin(p) \/ Step(p) \/ Fault(p),
           NEW q \in Proc, q # p, pc[q] \in LockedPc
    PROVE  log'[loc[q].rec] = log[loc[q].rec]
  <1> USE DEF Typed
  <1> DEFINE s == loc[q].rec
  <1>1. s \in Sid /\ lock[s] = q /\ q # None
    BY Held, Labels, StoreAssumption DEF Promised, ReliesOn
  <1>2. ASSUME NEW t \in Sid, WriteEnd(t) PROVE log'[s] = log[s]
    BY <1>1, <1>2 DEF WriteEnd, FilesOK
  <1>3. ASSUME NEW t \in Sid, NEW r, AppendRecord(t, r) PROVE log'[s] = log[s]
    BY <1>1, <1>3 DEF AppendRecord, FilesOK
  <1>4. CASE Retire(p) \/ RotateEnd(p) \/ EndSession(p) \/ WriteHeader(p) \/ WriteAnnotation(p)
    <2>1. Id(p) \in Sid
      BY <1>4, Held, Labels
         DEF Retire, RotateEnd, EndSession, WriteHeader, WriteAnnotation, At
    <2>2. QED
      BY <1>2, <1>3, <1>4, <2>1
         DEF Retire, RotateEnd, EndSession, WriteHeader, WriteAnnotation
  <1>5. CASE RetirePrior(p)
    <2>1. \A m \in Active(p) : m.id \in Sid
      BY Held DEF Active, Local, Session
    <2>2. QED
      BY <1>2, <1>5, <2>1 DEF RetirePrior
  <1>6. CASE WriteFeedback(p)
    <2>1. loc[p].cmd.sid \in Sid /\ loc[p].cmd.sid # s
      BY <1>1, <1>6, Held, Labels DEF WriteFeedback, At, Promised, ReliesOn
    <2>2. QED
      BY <1>1, <1>6, <2>1 DEF WriteFeedback, FilesOK
  <1>7. CASE FlushHeader(p) \/ FlushAppend(p)
    <2>1. loc[p].rec \in Sid /\ loc[p].rec # s
      BY <1>1, <1>7, Held, Labels DEF FlushHeader, FlushAppend, At, Promised, ReliesOn
    <2>2. QED
      BY <1>1, <1>7, <2>1 DEF FlushHeader, FlushAppend, FilesOK
  <1>8. QED
    BY <1>4, <1>5, <1>6, <1>7, OnlyWritersWrite DEF Writes

LEMMA EndEnds ==
    ASSUME FilesOK, NEW s \in Sid, WriteEnd(s)
    PROVE  Ended(log'[s])
  <1> DEFINE first == Summary(Cardinality(Invocations(log[s])), seqf[s])
  <1>1. CASE Ended(log[s])
    BY <1>1 DEF WriteEnd
  <1>2. CASE ~Ended(log[s])
    <2>1. log'[s] = Append(Append(log[s], first), EndMark(seqf[s])) /\ log[s] \in Seq(Record)
      BY <1>2 DEF WriteEnd, Closed, FilesOK, Journal
    <2> HIDE DEF first
    <2>2. \A x, y : /\ Len(log[s]) + 2 \in DOMAIN Append(Append(log[s], x), y)
                   /\ Append(Append(log[s], x), y)[Len(log[s]) + 2] = y
      BY <2>1
    <2>3. QED
      BY <2>1, <2>2 DEF Ended, EndMark
  <1>3. QED
    BY <1>1, <1>2

LEMMA SoundStep ==
    ASSUME FilesOK, FilesOK', [J!Next]_log, NEW s \in Sid, Sound(log[s])
    PROVE  Sound(log'[s])
  <1>0. /\ Extends(log'[s], log[s]) /\ J!Sid = Sid
        /\ log[s] \in Journal /\ log'[s] \in Journal
    BY WritesExtend DEF FilesOK, J!Sid, Sid
  <1>1. CASE log[s] # <<>> \/ log'[s] = log[s]
    BY <1>0, <1>1, Extensions DEF Sound
  <1>2. CASE log[s] = <<>> /\ log'[s] # log[s]
    <2>1. Invocations(<<>>) = {} /\ ~Hydrates(<<>>)
      BY DEF Invocations, Hydrates
    <2>2. InvocationSeqs(log[s]) = {}
      BY <1>2, <2>1 DEF InvocationSeqs
    <2>3. ASSUME J!Open(s) PROVE Sound(log'[s])
      BY <1>2, <2>3 DEF J!Open, J!AddsLine, J!Line, Sound, Hydrates
    <2>4. ASSUME J!Close(s) PROVE Sound(log'[s])
      <3> DEFINE n == J!Line(s).final
                 first == Summary(Cardinality(Invocations(log[s])), n)
      <3>1. log'[s] = Append(Append(log[s], first), EndMark(n))
        BY <2>4, SameOperators DEF J!Close, Closed, FilesOK
      <3> HIDE DEF first, n
      <3>2. Len(log[s]) + 2 \in DOMAIN log'[s] /\ log'[s][Len(log[s]) + 2] = EndMark(n)
        BY <1>0, <3>1 DEF Journal
      <3>3. QED
        BY <3>2 DEF Sound, Ended, EndMark
    <2>5. PICK t \in Sid : \/ J!Open(t) \/ J!RecordInvocation(t) \/ J!Close(t)
                           \/ J!Remark(t) \/ J!Assess(t)
      BY <1>0, <1>2 DEF J!Next
    <2>6. t = s
      BY <1>2, <2>5 DEF J!Open, J!RecordInvocation, J!Close, J!Remark, J!Assess,
                        J!AddsLine, FilesOK
    <2>7. ~J!RecordInvocation(s) /\ ~J!Remark(s) /\ ~J!Assess(s)
      BY <1>2, <2>1, <2>2, SameOperators DEF J!RecordInvocation, J!Remark, J!Assess
    <2>8. QED
      BY <2>3, <2>4, <2>5, <2>6, <2>7
  <1>3. QED
    BY <1>1, <1>2

\* A step of p leaves the others where they are and with what they hold.
LEMMA OthersStay ==
    ASSUME Typed, Promised, NEW p \in Proc, Begin(p) \/ Step(p) \/ Fault(p), NEW q \in Proc, q # p
    PROVE  pc'[q] = pc[q] /\ loc'[q] = loc[q] /\ \A s \in Sid : lock[s] = q => lock'[s] = q
  <1> USE DEF Typed, FilesOK, LocalsOK, Goto
  <1>1. CASE Begin(p) \/ Fault(p)
    BY <1>1 DEF Begin, StartScan, Fault, Fail, Crash, TornCounter, TornSeq, Torn, TornFeedback,
                Release, Freed, Exit, ToFlush
  <1>2. CASE Scan(p)
    BY <1>2 DEF Scan, ScanGone, ScanHeal, ScanLive, ScanNothing, ScanExpired, ScanActive, Retire, RetireUnlink,
                CallbackDone, StartScan
  <1>3. CASE Resolve(p)
    BY <1>3 DEF Resolve, AttachExplicit, AttachMatch, AttachSole, Attach, StartRotation,
                StartAutomatic, Unattached, Touch, RotateEnd, RotateClear
  <1>4. CASE Create(p) \/ Rotate(p)
    BY <1>4 DEF Create, Allocate, Publish, WriteHeader, Rotate, StartCommand,
                StartCurrentDone, StartAllDone, RetirePrior, ClearPrior, AllRetired,
                ToRotate, StartScan, ToFlush
  <1>5. CASE End(p) \/ Flush(p)
    <2>1. CASE FlushAppend(p)
      <3>1. loc[p].rec \in Sid /\ lock[loc[p].rec] = p
        BY <2>1, Held, Labels DEF FlushAppend, At, Promised, ReliesOn
      <3>2. QED
        BY <2>1, <3>1 DEF FlushAppend, Exit
    <2>2. CASE ~FlushAppend(p)
      BY <1>5, <2>2, StoreAssumption
         DEF End, EndCommand, EndRefused, EndAccepted, EndSession, EndClear, Flush,
             FlushNothing, FlushDrop, Flushing, FlushEnter, FlushNumber, FlushBump, FlushHeader, StartScan, ToFlush,
             Exit
    <2>3. QED
      BY <2>1, <2>2
  <1>6. CASE Others(p)
    <2>1. CASE WriteFeedback(p)
      <3>1. loc[p].cmd.sid \in Sid /\ lock[loc[p].cmd.sid] = p
        BY <2>1, Held, Labels DEF WriteFeedback, At, Promised, ReliesOn
      <3>2. QED
        BY <2>1, <3>1 DEF WriteFeedback, ToFlush
    <2>2. CASE FeedbackEnter(p)
      BY <2>2, StoreAssumption DEF FeedbackEnter
    <2>3. CASE ~WriteFeedback(p) /\ ~FeedbackEnter(p)
      BY <1>6, <2>3
         DEF Others, RunCommand, SetAnchor, ResumeCommand, Resume, AnnotateCommand,
             AnnotateRefused, AnnotateTarget, WriteAnnotation, FeedbackCommand,
             FeedbackNumber, FeedbackBump, StartScan, ToFlush, Exit
    <2>4. QED
      BY <2>1, <2>2, <2>3
  <1>7. QED
    BY <1>1, <1>2, <1>3, <1>4, <1>5, <1>6 DEF Step

\* The labels ReliesOn speaks of are entered by few steps.
Watched == LockedPc \cup ClearPc \cup {"note", "feedback"} \cup FeedbackPc

Enters(p) ==
    \/ Retire(p) \/ RotateEnd(p) \/ RetirePrior(p) \/ EndSession(p) \/ AnnotateTarget(p)
    \/ FeedbackCommand(p) \/ FeedbackEnter(p) \/ FeedbackNumber(p) \/ FeedbackBump(p)
    \/ FlushEnter(p) \/ FlushNumber(p) \/ FlushBump(p) \/ FlushHeader(p)

LEMMA OnlyEntersEnter ==
    ASSUME Typed, NEW p \in Proc, Begin(p) \/ Step(p) \/ Fault(p), ~Enters(p)
    PROVE  pc'[p] \notin Watched
  <1> USE DEF Typed, LocalsOK, Goto, Watched, ClearPc
  <1>0. pc[p] \in Pc /\ loc[p].ret \in ScanPc
    BY DEF LocalOK, Local
  <1>1. CASE Begin(p) \/ Fault(p)
    <2>1. CASE Begin(p)
      BY <2>1, Labels DEF Begin, StartScan
    <2>2. CASE Fail(p)
      BY <2>2, Labels DEF Fail, Exit, ToFlush
    <2>3. CASE Crash(p)
      BY <2>3, Labels DEF Crash, Exit
    <2>4. CASE TornCounter(p) \/ TornFeedback(p)
      BY <2>4, Labels DEF TornCounter, TornFeedback, Torn, Exit, ToFlush
    <2>5. CASE TornSeq(p)
      BY <2>5, Labels DEF TornSeq, Exit
    <2> QED
      BY <1>1, <2>1, <2>2, <2>3, <2>4, <2>5 DEF Fault
  <1>2. CASE Scan(p)
    <2>1. ASSUME NEW s \in Sid, ScanGone(p, s) \/ ScanHeal(p, s) \/ ScanLive(p, s)
          PROVE  pc'[p] \notin Watched
      <3>1. CASE ScanGone(p, s)
        BY <1>0, <3>1, Labels DEF ScanGone, Scanning
      <3>2. CASE ScanHeal(p, s)
        BY <1>0, <3>2, Labels DEF ScanHeal, Scanning
      <3>3. CASE ScanLive(p, s)
        BY <1>0, <3>3, Labels DEF ScanLive, Scanning
      <3> QED
        BY <2>1, <3>1, <3>2, <3>3
    <2>2. ASSUME NEW s \in Sid, ScanNothing(p, s) \/ ScanExpired(p, s) \/ ScanActive(p, s)
          PROVE  pc'[p] \notin Watched
      <3>1. CASE ScanNothing(p, s)
        BY <1>0, <3>1, Labels DEF ScanNothing, Reading
      <3>2. CASE ScanExpired(p, s)
        BY <1>0, <3>2, Labels DEF ScanExpired, Reading
      <3>3. CASE ScanActive(p, s)
        BY <1>0, <3>3, Labels DEF ScanActive, Reading
      <3> QED
        BY <2>2, <3>1, <3>2, <3>3
    <2>3. CASE RetireUnlink(p) \/ CallbackDone(p)
      BY <1>0, <2>3, Labels DEF RetireUnlink, CallbackDone, StartScan
    <2> QED
      BY <1>2, <2>1, <2>2, <2>3 DEF Scan, Enters
  <1>3. CASE Resolve(p)
    <2>1. CASE AttachExplicit(p) \/ AttachSole(p)
      BY <2>1, Labels DEF AttachExplicit, AttachSole, Attach
    <2>2. CASE StartAutomatic(p) \/ Unattached(p) \/ Touch(p) \/ RotateClear(p)
      BY <2>2, Labels DEF StartAutomatic, Unattached, Touch, RotateClear
    <2>3. CASE AttachMatch(p)
      BY <2>3, Labels DEF AttachMatch, Attach
    <2>4. CASE StartRotation(p)
      BY <2>4, Labels DEF StartRotation
    <2> QED
      BY <1>3, <2>1, <2>2, <2>3, <2>4 DEF Resolve, Enters
  <1>4. CASE Create(p) \/ Rotate(p)
    BY <1>4, Labels
       DEF Enters, Create, Allocate, Publish, WriteHeader, Rotate, StartCommand,
           StartCurrentDone, StartAllDone, ToRotate, ClearPrior, AllRetired, StartScan, ToFlush
  <1>5. CASE End(p) \/ Flush(p)
    <2>1. CASE FlushNothing(p) \/ FlushDrop(p) \/ FlushAppend(p)
      BY <2>1, Labels DEF FlushNothing, FlushDrop, FlushAppend, Exit
    <2>2. CASE End(p)
      <3>1. CASE EndCommand(p) \/ EndRefused(p)
        BY <3>1, Labels DEF EndCommand, EndRefused, StartScan, ToFlush
      <3>2. CASE EndAccepted(p) \/ EndClear(p)
        BY <3>2, Labels DEF EndAccepted, EndClear, ToFlush
      <3> QED
        BY <2>2, <3>1, <3>2 DEF End, Enters
    <2> QED
      BY <1>5, <2>1, <2>2 DEF Flush, Enters
  <1>6. CASE Others(p)
    BY <1>6, Labels
       DEF Enters, Others, RunCommand, SetAnchor, ResumeCommand, Resume, AnnotateCommand,
           AnnotateRefused, WriteAnnotation, WriteFeedback, StartScan, ToFlush, Exit
  <1>7. QED
    BY <1>1, <1>2, <1>3, <1>4, <1>5, <1>6 DEF Step

LEMMA EntersRightly ==
    ASSUME Typed, Promised, NEW p \in Proc, Enters(p)
    PROVE  ReliesOn(p)'
  <1> USE DEF Typed, Goto, At
  <1>0. pc \in [Proc -> Pc] /\ loc \in [Proc -> Local] /\ loc[p] \in Local
    BY DEF LocalsOK
  <1>1. CASE Retire(p) \/ RotateEnd(p) \/ EndSession(p)
    <2>1. Id(p) \in Sid
      BY <1>1, Held, Labels DEF Retire, RotateEnd, EndSession
    <2>2. Ended(log'[Id(p)])
      BY <1>1, <2>1, EndEnds DEF Retire, RotateEnd, EndSession
    <2>3. pc'[p] = "flush" \/ (pc'[p] \in ClearPc /\ loc'[p] = loc[p])
      BY <1>0, <1>1 DEF Retire, RotateEnd, EndSession, ToFlush, ClearPc
    <2>4. QED
      BY <2>2, <2>3, Labels DEF ReliesOn, ClearPc, Id
  <1>2. CASE RetirePrior(p)
    <2>1. PICK m \in Active(p) :
             /\ WriteEnd(m.id)
             /\ Goto(p, "clearPrior", [loc[p] EXCEPT !.found = @ \ {m}, !.sess = m])
      BY <1>2 DEF RetirePrior
    <2>2. m.id \in Sid
      BY <1>0 DEF Active, Local, Session
    <2>3. pc'[p] = "clearPrior" /\ loc'[p].sess = m
      BY <1>0, <2>1 DEF Local
    <2>4. QED
      BY <2>1, <2>2, <2>3, EndEnds, Labels DEF ReliesOn, Id
  <1>3. CASE AnnotateTarget(p)
    <2>0. PICK m \in Active(p) : \E n \in InvocationSeqs(log[m.id]) :
             Goto(p, "note", [loc[p] EXCEPT !.sess = m, !.found = {}, !.seq = n])
      BY <1>3 DEF AnnotateTarget
    <2>1. PICK n \in InvocationSeqs(log[m.id]) :
             Goto(p, "note", [loc[p] EXCEPT !.sess = m, !.found = {}, !.seq = n])
      BY <2>0
    <2>2. pc'[p] = "note" /\ loc'[p].sess = m /\ loc'[p].seq = n
      BY <1>0, <2>1 DEF Local
    <2>3. log' = log
      BY <1>3 DEF AnnotateTarget, files
    <2>4. QED
      BY <2>2, <2>3, Labels DEF ReliesOn, Id, ClearPc
  <1>4. CASE FeedbackCommand(p)
    <2>1. log' = log
      BY <1>4 DEF FeedbackCommand, files
    <2>2. \/ pc'[p] = "flush"
          \/ pc'[p] = "feedback" /\ loc'[p] = loc[p] /\ Hydrates(log[loc[p].cmd.sid])
      BY <1>0, <1>4 DEF FeedbackCommand, ToFlush
    <2>3. QED
      BY <2>1, <2>2, Labels DEF ReliesOn, ClearPc
  <1>a. CASE FeedbackEnter(p) \/ FeedbackNumber(p) \/ FeedbackBump(p)
    <2> DEFINE s == loc[p].cmd.sid
    <2>1. pc[p] \in {"feedback"} \cup FeedbackPc /\ s \in Sid /\ Hydrates(log[s])
      <3>1. pc[p] \in {"feedback"} \cup FeedbackPc
        BY <1>a, Labels DEF FeedbackEnter, FeedbackNumber, FeedbackBump
      <3>2. QED
        BY <3>1, Held DEF Promised, ReliesOn
    <2>2. pc'[p] \in FeedbackPc /\ loc'[p].cmd = loc[p].cmd /\ log' = log
      BY <1>0, <1>a, Labels DEF FeedbackEnter, FeedbackNumber, FeedbackBump, Local, files
    <2>3. lock'[s] = p
      <3>1. FeedbackNumber(p) \/ FeedbackBump(p) => lock' = lock /\ lock[s] = p
        BY Labels DEF FeedbackNumber, FeedbackBump, Promised, ReliesOn
      <3>2. FeedbackEnter(p) => lock'[s] = p
        BY <2>1 DEF FeedbackEnter, FilesOK
      <3>3. QED
        BY <1>a, <3>1, <3>2
    <2>4. QED
      BY <2>1, <2>2, <2>3, Labels DEF ReliesOn, ClearPc
  <1>5. CASE FlushEnter(p) \/ FlushNumber(p) \/ FlushBump(p)
    <2> DEFINE s == loc[p].rec
    <2>1. pc'[p] \in LockedPc \ {"append"} /\ loc'[p].rec = s /\ log' = log
      BY <1>0, <1>5, Labels DEF FlushEnter, FlushNumber, FlushBump, Local, files
    <2>2. lock'[s] = p /\ ~Ended(log[s])
      <3>1. FlushNumber(p) \/ FlushBump(p) => lock' = lock /\ lock[s] = p /\ ~Ended(log[s])
        BY Labels DEF FlushNumber, FlushBump, Promised, ReliesOn
      <3>2. FlushEnter(p) => s \in Sid /\ lock' = [lock EXCEPT ![s] = p] /\ ~Ended(log[s])
        BY <1>0 DEF FlushEnter, Flushing, Local
      <3>3. QED
        BY <1>5, <3>1, <3>2 DEF FilesOK
    <2>3. QED
      BY <2>1, <2>2, Labels DEF ReliesOn, ClearPc
  <1>6. CASE FlushHeader(p)
    <2> DEFINE s == loc[p].rec
    <2>1. s \in Sid /\ log[s] \in Seq(Record)
      BY <1>6, Held, Labels DEF FlushHeader, FilesOK, Journal
    <2>2. lock[s] = p /\ ~Ended(log[s]) /\ (log[s] # <<>> => Hydrates(log[s]))
      BY <1>6, <2>1, Labels DEF FlushHeader, Promised, ReliesOn, Sound
    <2>3. ~Ended(log'[s]) /\ Hydrates(log'[s])
      <3>1. CASE log[s] # <<>>
        BY <1>6, <2>2, <3>1 DEF FlushHeader
      <3>2. CASE log[s] = <<>>
        <4>1. log'[s] = Append(<<>>, SynthHeader(s))
          BY <1>6, <2>1, <3>2 DEF FlushHeader, FilesOK
        <4>2. Append(<<>>, SynthHeader(s)) = <<SynthHeader(s)>>
          OBVIOUS
        <4>3. QED
          BY <4>1, <4>2 DEF Ended, Hydrates, SynthHeader, Started
      <3>3. QED
        BY <3>1, <3>2
    <2>4. pc'[p] = "append" /\ loc'[p] = loc[p] /\ lock' = lock
      BY <1>0, <1>6 DEF FlushHeader
    <2>5. QED
      BY <2>2, <2>3, <2>4, Labels DEF ReliesOn, ClearPc
  <1>7. QED
    BY <1>1, <1>2, <1>3, <1>4, <1>a, <1>5, <1>6 DEF Enters

-----------------------------------------------------------------------------
(* The invariant is inductive, and SessionStore implements SessionJournal. *)

LEMMA PromisedInit == Init => Promised
  BY Labels DEF Init, Promised, ReliesOn, Sound, ClearPc, At

\* What q relies on survives a step in which q does not move.
LEMMA BystandersRelyOn ==
    ASSUME Typed, Typed', Promised, [J!Next]_log, NEW q \in Proc,
           pc'[q] = pc[q], loc'[q] = loc[q], \A s \in Sid : lock[s] = q => lock'[s] = q,
           pc[q] \in LockedPc => log'[loc[q].rec] = log[loc[q].rec]
    PROVE  ReliesOn(q)'
  <1> USE DEF Typed, At
  <1>1. ReliesOn(q)
    BY DEF Promised
  <1>2. \A s \in Sid : /\ Ended(log[s]) => Ended(log'[s])
                       /\ Hydrates(log[s]) => Hydrates(log'[s])
                       /\ InvocationSeqs(log[s]) \subseteq InvocationSeqs(log'[s])
    BY WritesExtend, Extensions DEF FilesOK
  <1>3. pc[q] \in LockedPc => lock'[loc[q].rec] = q /\ ~Ended(log'[loc[q].rec])
    BY <1>1, Held, Labels DEF ReliesOn
  <1>4. pc[q] = "append" => Hydrates(log'[loc[q].rec])
    BY <1>1, Labels DEF ReliesOn
  <1>5. pc[q] = "note" => loc[q].seq \in InvocationSeqs(log'[loc[q].sess.id])
    BY <1>1, <1>2, Held, Labels DEF ReliesOn, Id
  <1>6. pc[q] \in {"feedback"} \cup FeedbackPc => Hydrates(log'[loc[q].cmd.sid])
    BY <1>1, <1>2, Held DEF ReliesOn
  <1>a. pc[q] \in FeedbackPc => lock'[loc[q].cmd.sid] = q
    BY <1>1, Held, Labels DEF ReliesOn
  <1>7. pc[q] \in ClearPc => Ended(log'[loc[q].sess.id])
    BY <1>1, <1>2, Held, Labels DEF ReliesOn, Id, ClearPc
  <1>8. QED
    BY <1>3, <1>4, <1>5, <1>6, <1>a, <1>7 DEF ReliesOn, Id

LEMMA PromisedNext == Typed /\ Promised /\ [Next]_vars => Promised'
  <1> SUFFICES ASSUME Typed, Promised, [Next]_vars PROVE Promised'
    OBVIOUS
  <1>1. Typed' /\ [J!Next]_log
    BY TypedNext, StepsAreSteps
  <1>2. \A s \in Sid : Sound(log'[s])
    BY <1>1, SoundStep DEF Typed, Promised
  <1>3. ASSUME NEW q \in Proc PROVE ReliesOn(q)'
    <2>1. CASE Tick \/ UNCHANGED vars
      <3>1. pc' = pc /\ loc' = loc /\ lock' = lock /\ log' = log
        BY <2>1 DEF Tick, vars, files
      <3>2. QED
        BY <1>1, <3>1, BystandersRelyOn
    <2>2. ASSUME NEW p \in Proc, Begin(p) \/ Step(p) \/ Fault(p) PROVE ReliesOn(q)'
      <3>1. CASE q # p
        BY <1>1, <2>2, <3>1, OthersStay, OnlyHolderWrites, BystandersRelyOn
      <3>2. CASE q = p /\ Enters(p)
        BY <3>2, EntersRightly
      <3>3. CASE q = p /\ ~Enters(p)
        <4>1. pc'[p] \notin Watched
          BY <2>2, <3>3, OnlyEntersEnter
        <4>2. QED
          BY <3>3, <4>1, Labels DEF Watched, ReliesOn, At
      <3>4. QED
        BY <3>1, <3>2, <3>3
    <2>3. QED
      BY <2>1, <2>2 DEF Next
  <1>4. QED
    BY <1>2, <1>3 DEF Promised

LEMMA Invariants == Spec => [](Typed /\ Promised)
  BY TypedInit, TypedNext, PromisedInit, PromisedNext, PTL DEF Spec

\* Whatever the processes, their commands, their interleaving and the faults: each
\* write to a journal is one that SessionJournal allows.  _do_flush, _already_ended and
\* write_session_end_record take one lock, and that is enough.
THEOREM KeepsThePromise == Spec => JournalPromise
  <1>1. Init => J!Init
    BY DEF Init, J!Init, J!Sid, Sid
  <1>2. QED
    BY <1>1, StepsAreSteps, Invariants, PTL DEF Spec, JournalPromise, J!Spec

-----------------------------------------------------------------------------
(* A good journal, and how one is kept good.                               *)

Kind(j, i) == j[i].kind

EndsOnce(j) ==
    \A i, k \in DOMAIN j : Kind(j, i) = "session_ended" /\ Kind(j, k) = "session_ended" => i = k
Final(j) ==
    \A i, k \in DOMAIN j : Kind(j, i) = "session_ended" /\ i < k => Kind(j, k) # "invocation"
\* Only a closed journal has a summary, so nothing is recorded that it does not count.
Tallied(j) ==
    \A i \in DOMAIN j :
        Kind(j, i) = "session_summary" =>
            Ended(j) /\ j[i].count = Cardinality(Invocations(j))
Targeted(j) ==
    \A i \in DOMAIN j :
        Kind(j, i) = "annotation" =>
            \E k \in Invocations(j) : k < i /\ j[k].seq = j[i].refers
Loadable(j) == Invocations(j) # {} => Hydrates(j)

Good(j) == EndsOnce(j) /\ Final(j) /\ Tallied(j) /\ Targeted(j) /\ Loadable(j)

LEMMA EmptyIsGood == Good(<<>>)
  BY DEF Good, EndsOnce, Final, Tallied, Targeted, Loadable, Invocations

\* The lines of a journal with r behind it.
LEMMA Appended ==
    ASSUME NEW j \in Journal, NEW r
    PROVE  /\ DOMAIN j = 1..Len(j) /\ Len(j) \in Nat
           /\ DOMAIN Append(j, r) = 1..(Len(j) + 1)
           /\ \A i \in DOMAIN j : Append(j, r)[i] = j[i]
           /\ Append(j, r)[Len(j) + 1] = r
  BY DEF Journal

LEMMA AppendKeepsGood ==
    ASSUME NEW j \in Journal, Good(j), NEW r \in Record,
           r.kind \notin {"session_summary", "session_ended"},
           r.kind = "invocation" => ~Ended(j) /\ Hydrates(j),
           r.kind = "annotation" => r.refers \in InvocationSeqs(j)
    PROVE  Good(Append(j, r))
  <1> DEFINE k == Append(j, r)
             last == Len(j) + 1
  <1>1. /\ DOMAIN j = 1..Len(j) /\ Len(j) \in Nat
        /\ DOMAIN k = 1..last
        /\ \A i \in DOMAIN j : k[i] = j[i]
        /\ k[last] = r
    BY Appended
  <1> HIDE DEF k
  <1>2. EndsOnce(k)
    BY <1>1 DEF Good, EndsOnce, Kind
  <1>3. Final(k)
    BY <1>1 DEF Good, Final, Kind, Ended
  <1>4. Invocations(k) = Invocations(j) \cup (IF r.kind = "invocation" THEN {last} ELSE {})
    BY <1>1 DEF Invocations
  <1>5. Tallied(k)
    <2>1. Ended(j) => Ended(k)
      BY <1>1 DEF Ended
    <2>2. CASE r.kind = "invocation"
      BY <1>1, <2>2 DEF Good, Tallied, Kind
    <2>3. CASE r.kind # "invocation"
      BY <1>1, <1>4, <2>1, <2>3 DEF Good, Tallied, Kind
    <2>4. QED
      BY <2>2, <2>3
  <1>6. Targeted(k)
    <2>1. SUFFICES ASSUME NEW i \in DOMAIN k, Kind(k, i) = "annotation"
                   PROVE  \E n \in Invocations(k) : n < i /\ k[n].seq = k[i].refers
      BY DEF Targeted
    <2>2. CASE i = last
      <3>1. PICK n \in Invocations(j) : j[n].seq = r.refers
        BY <1>1, <2>1, <2>2 DEF InvocationSeqs, Kind
      <3>2. n \in DOMAIN j
        BY <3>1 DEF Invocations
      <3>3. QED
        BY <1>1, <1>4, <2>2, <3>1, <3>2
    <2>3. CASE i # last
      <3>1. PICK n \in Invocations(j) : n < i /\ j[n].seq = j[i].refers
        BY <1>1, <2>1, <2>3 DEF Good, Targeted, Kind
      <3>2. n \in DOMAIN j
        BY <3>1 DEF Invocations
      <3>3. QED
        BY <1>1, <1>4, <2>1, <2>3, <3>1, <3>2
    <2>4. QED
      BY <2>2, <2>3
  <1>7. Loadable(k)
    <2>1. Hydrates(j) => Hydrates(k)
      BY <1>1 DEF Hydrates
    <2>2. QED
      BY <1>4, <2>1 DEF Good, Loadable
  <1>8. QED
    BY <1>2, <1>3, <1>5, <1>6, <1>7 DEF Good, k

LEMMA CloseKeepsGood ==
    ASSUME NEW j \in Journal, Good(j), ~Ended(j), NEW n
    PROVE  Good(Closed(j, n))
  <1> DEFINE tally == Cardinality(Invocations(j))
             k == Closed(j, n)
             last == Len(j) + 2
  <1>1. /\ DOMAIN j = 1..Len(j) /\ Len(j) \in Nat
        /\ DOMAIN k = 1..last
        /\ \A i \in DOMAIN j : k[i] = j[i]
        /\ k[last - 1] = Summary(tally, n) /\ k[last] = EndMark(n)
    BY DEF Journal, Closed
  <1>2. /\ k[last - 1].kind = "session_summary" /\ k[last - 1].count = tally
        /\ k[last].kind = "session_ended"
    BY <1>1 DEF Summary, EndMark
  <1> HIDE DEF k, tally
  <1>3. \A i \in DOMAIN j : Kind(j, i) \notin {"session_ended", "session_summary"}
    BY DEF Good, Tallied, Ended, Kind
  <1>4. EndsOnce(k) /\ Final(k)
    BY <1>1, <1>2, <1>3 DEF EndsOnce, Final, Kind
  <1>5. Invocations(k) = Invocations(j)
    BY <1>1, <1>2 DEF Invocations
  <1>6. Ended(k)
    BY <1>1, <1>2 DEF Ended
  <1>7. Tallied(k)
    BY <1>1, <1>2, <1>3, <1>5, <1>6 DEF Tallied, Kind, tally
  <1>8. Targeted(k)
    <2>1. SUFFICES ASSUME NEW i \in DOMAIN k, Kind(k, i) = "annotation"
                   PROVE  \E m \in Invocations(k) : m < i /\ k[m].seq = k[i].refers
      BY DEF Targeted
    <2>2. i \in DOMAIN j
      BY <1>1, <1>2, <2>1 DEF Kind
    <2>3. PICK m \in Invocations(j) : m < i /\ j[m].seq = j[i].refers
      BY <1>1, <2>1, <2>2 DEF Good, Targeted, Kind
    <2>4. m \in DOMAIN j
      BY <2>3 DEF Invocations
    <2>5. QED
      BY <1>1, <1>5, <2>2, <2>3, <2>4
  <1>9. Loadable(k)
    BY <1>1, <1>5 DEF Good, Loadable, Hydrates, Invocations
  <1>10. QED
    BY <1>4, <1>7, <1>8, <1>9 DEF Good, k

-----------------------------------------------------------------------------
(* From journals to SessionStore.                                          *)

AllGood == \A s \in Sid : Good(log[s])

LEMMA GoodInit == Init => AllGood
  BY EmptyIsGood DEF Init, AllGood

LEMMA GoodNext == FilesOK /\ FilesOK' /\ AllGood /\ [J!Next]_log => AllGood'
  <1> SUFFICES ASSUME FilesOK, FilesOK', AllGood, J!Next, NEW s \in Sid
               PROVE  Good(log'[s])
    BY DEF AllGood
  <1>1. log[s] \in Journal /\ log'[s] \in Journal /\ Good(log[s]) /\ J!Sid = Sid
    BY DEF FilesOK, AllGood, J!Sid, Sid
  <1>2. ASSUME NEW t \in Sid, NEW kind, J!AddsLine(t, kind),
               kind \notin {"session_summary", "session_ended"},
               kind = "invocation" => ~Ended(log[t]) /\ Hydrates(log[t]),
               kind = "annotation" => J!Line(t).refers \in InvocationSeqs(log[t])
        PROVE  Good(log'[s])
    <2>1. J!Line(t) \in Record
      <3>1. Len(log[t]) + 1 \in DOMAIN log'[t] /\ log'[t] \in Seq(Record)
        BY <1>2 DEF J!AddsLine, FilesOK, Journal
      <3>2. QED
        BY <3>1 DEF J!Line
    <2>2. Good(Append(log[t], J!Line(t)))
      BY <1>2, <2>1, AppendKeepsGood DEF J!AddsLine, FilesOK, AllGood
    <2>3. QED
      BY <1>1, <1>2, <2>2 DEF J!AddsLine, FilesOK
  <1>3. ASSUME NEW t \in Sid, J!Close(t)
        PROVE  Good(log'[s])
    <2>1. /\ ~Ended(log[t])
          /\ log' = [log EXCEPT ![t] = Closed(@, J!Line(t).final)]
      BY <1>3, SameOperators DEF J!Close
    <2>2. Good(Closed(log[t], J!Line(t).final))
      BY <2>1, CloseKeepsGood DEF FilesOK, AllGood
    <2>3. QED
      BY <1>1, <2>1, <2>2 DEF FilesOK
  <1>4. PICK t \in Sid : \/ J!Open(t) \/ J!RecordInvocation(t) \/ J!Close(t)
                         \/ J!Remark(t) \/ J!Assess(t)
    BY <1>1 DEF J!Next
  <1>5. ASSUME J!RecordInvocation(t) PROVE Good(log'[s])
    BY <1>2, <1>5, SameOperators DEF J!RecordInvocation
  <1>6. ASSUME J!Remark(t) PROVE Good(log'[s])
    BY <1>2, <1>6, SameOperators DEF J!Remark
  <1>7. QED
    BY <1>2, <1>3, <1>4, <1>5, <1>6 DEF J!Open, J!Assess

LEMMA AllGoodIsInvariant == Spec => []AllGood
  <1>1. Typed /\ Typed' /\ AllGood /\ [J!Next]_log => AllGood'
    BY GoodNext DEF Typed
  <1>2. Typed /\ Promised /\ Typed' /\ AllGood /\ [Next]_vars => AllGood'
    BY <1>1, StepsAreSteps
  <1>3. QED
    BY <1>2, GoodInit, Invariants, PTL DEF Spec

\* `session end`, rotation and idle retirement, however many run at once, end a session
\* once.
THEOREM EndedOnce == Spec => []AtMostOneEnd
  <1>1. AllGood => AtMostOneEnd
    BY DEF AllGood, Good, EndsOnce, Kind, AtMostOneEnd, EndedAt
  <1>2. QED
    BY <1>1, AllGoodIsInvariant, PTL

\* A command that flushes after its session has ended leaves no record.
THEOREM EndIsFinal == Spec => []NothingRecordedAfterEnd
  <1>1. AllGood => NothingRecordedAfterEnd
    BY DEF AllGood, Good, Final, Kind, NothingRecordedAfterEnd, EndedAt
  <1>2. QED
    BY <1>1, AllGoodIsInvariant, PTL

\* The number in the summary is the number of invocations anybody will ever read there.
THEOREM TallyIsRight == Spec => []SummaryIsFinal
  <1>1. AllGood => SummaryIsFinal
    BY DEF AllGood, Good, Tallied, Kind, SummaryIsFinal
  <1>2. QED
    BY <1>1, AllGoodIsInvariant, PTL

\* No annotation dangles.
THEOREM AnnotationsAreTargeted == Spec => []AnnotationsHaveTargets
  <1>1. AllGood => AnnotationsHaveTargets
    BY DEF AllGood, Good, Targeted, Kind, AnnotationsHaveTargets
  <1>2. QED
    BY <1>1, AllGoodIsInvariant, PTL

\* What is recorded can be loaded, even if the creator of the session crashed before
\* its header.
THEOREM RecordsAreLoadable == Spec => []RecordedIsLoadable
  <1>1. AllGood => RecordedIsLoadable
    BY DEF AllGood, Good, Loadable, RecordedIsLoadable
  <1>2. QED
    BY <1>1, AllGoodIsInvariant, PTL

-----------------------------------------------------------------------------
(* Markers.                                                                *)

\* A marker is removed by a process that found the session ended, or ended it: the
\* journal can only have grown since.
LEMMA MarkerSteps ==
    ASSUME Typed, Typed', Promised, NEW p \in Proc, Begin(p) \/ Step(p) \/ Fault(p),
           NEW s \in Sid, marker[s] # None, marker'[s] = None
    PROVE  Ended(log[s])
  <1> USE DEF Typed
  <1>0. marker \in [Sid -> Session \cup {None}] /\ marker' \in [Sid -> Session \cup {None}]
    BY DEF FilesOK
  <1>1. CASE Begin(p) \/ Fault(p)
    BY <1>1 DEF Begin, Fault, Fail, Crash, TornCounter, TornSeq, Torn, TornFeedback, files
  <1>2. CASE pc[p] \in ClearPc /\ (RetireUnlink(p) \/ RotateClear(p) \/ ClearPrior(p) \/ EndClear(p))
    <2>1. s = Id(p)
      BY <1>0, <1>2 DEF RetireUnlink, RotateClear, ClearPrior, EndClear, TryUnlink, Unlink
    <2>2. QED
      BY <1>2, <2>1 DEF Promised, ReliesOn
  <1>3. CASE Scan(p) /\ ~RetireUnlink(p)
    BY <1>0, <1>3 DEF Scan, ScanGone, ScanHeal, TryUnlink, Unlink, ScanLive, ScanNothing, ScanExpired, ScanActive, Retire,
                      CallbackDone, files
  <1>4. CASE Resolve(p) /\ ~RotateClear(p)
    <2>1. CASE Touch(p)
      <3>1. marker' = [marker EXCEPT ![Id(p)] = marker'[Id(p)]] /\ Id(p) \in Sid
        BY <1>0, <2>1, Held, Labels DEF Touch, At, Id
      <3>2. marker'[Id(p)] # None
        <4> DEFINE m == loc[p].sess
                   current == IF marker[m.id] # None THEN marker[m.id] ELSE m
                   touched == [current EXCEPT !.anchor = IF @ # None THEN @ ELSE m.anchor,
                                              !.last = IF @ > now THEN @ ELSE now]
        <4>1. m \in Session /\ m.id \in Sid
          BY <2>1, Held, Labels DEF Touch, At, Id
        <4>2. current \in Session
          BY <4>1 DEF FilesOK
        <4>3. touched \in Session
          BY <4>1, <4>2 DEF Session, FilesOK
        <4>4. marker'[Id(p)] = touched
          BY <1>0, <2>1, <4>1 DEF Touch, Id
        <4>5. QED
          BY <4>3, <4>4, NoneAssumption
      <3>3. QED
        BY <1>0, <3>1, <3>2
    <2>2. QED
      BY <1>4, <2>1 DEF Resolve, AttachExplicit, AttachMatch, AttachSole, StartRotation,
                        StartAutomatic, Unattached, RotateEnd, files
  <1>5. CASE Create(p) \/ (Rotate(p) /\ ~ClearPrior(p))
    <2>1. Publish(p) => loc[p].sess # None
      BY Held, NoneAssumption, Labels DEF Publish, At
    <2>2. QED
      BY <1>0, <1>5, <2>1
         DEF Create, Allocate, Publish, WriteHeader, Rotate, StartCommand, StartCurrentDone,
             StartAllDone, ToRotate, RetirePrior, AllRetired, files
  <1>6. CASE (End(p) /\ ~EndClear(p)) \/ Flush(p)
    BY <1>0, <1>6 DEF End, EndCommand, EndRefused, EndAccepted, EndSession, Flush, FlushNothing,
                      FlushDrop, TryUnlink, Unlink, FlushEnter, FlushNumber, FlushBump, FlushHeader, FlushAppend, files
  <1>7. CASE Others(p)
    <2>1. Resume(p) => loc[p].sess # None
      BY Held, NoneAssumption, Labels DEF Resume, At
    <2>2. SetAnchor(p) => marker'[s] # None
      <3>1. ASSUME SetAnchor(p), s = loc[p].rec
            PROVE  marker'[s] = [marker[s] EXCEPT !.anchor = Wanted(p)] /\ marker[s] \in Session
        BY <1>0, <3>1 DEF SetAnchor
      <3>2. ASSUME SetAnchor(p), s # loc[p].rec
            PROVE  marker'[s] = marker[s]
        BY <1>0, <3>2 DEF SetAnchor
      <3>3. ASSUME SetAnchor(p) PROVE Wanted(p) \in Anchor \cup {None}
        BY <3>3, Held DEF SetAnchor, At, Wanted, Command
      <3>4. \A m \in Session, a \in Anchor \cup {None} : [m EXCEPT !.anchor = a] \in Session
        BY DEF Session
      <3>5. QED
        BY <3>1, <3>2, <3>3, <3>4, NoneAssumption
    <2>3. QED
      BY <1>0, <1>7, <2>1, <2>2
         DEF Others, RunCommand, ResumeCommand, Resume, AnnotateCommand, AnnotateRefused,
             AnnotateTarget, WriteAnnotation, FeedbackCommand, FeedbackEnter, FeedbackNumber,
                FeedbackBump, WriteFeedback, files
  <1>8. RetireUnlink(p) \/ RotateClear(p) \/ ClearPrior(p) \/ EndClear(p) => pc[p] \in ClearPc
    BY DEF RetireUnlink, RotateClear, ClearPrior, EndClear, At, ClearPc
  <1>9. QED
    BY <1>1, <1>2, <1>3, <1>4, <1>5, <1>6, <1>7, <1>8 DEF Step

\* No process takes the marker of a live session away, whoever else is at work on it.
THEOREM LiveMarkersStay == Spec => MarkerGoesOnlyAfterEnd
  <1> DEFINE Kept == \A s \in Sid : marker[s] # None /\ marker'[s] = None => Ended(log[s])
  <1>1. Tick => marker' = marker
    BY DEF Tick, files
  <1>2. Typed /\ Promised /\ [Next]_vars => [Kept]_vars
    BY <1>1, TypedNext, MarkerSteps DEF Next
  <1>3. QED
    BY <1>2, Invariants, PTL DEF Spec, MarkerGoesOnlyAfterEnd

-----------------------------------------------------------------------------
(* Seqs.  The counter is never behind the journal, and who is about to     *)
(* write an invocation has a seq beyond those in it.  A torn counter file  *)
(* (TornSeq) does break this, so the theorem is about stores without one.  *)

Below(j, n) == \A i \in Invocations(j) : j[i].seq < n
Rising(j) == \A i, k \in Invocations(j) : i < k => j[i].seq < j[k].seq

Numbered(p) ==
    pc[p] \in {"synth", "append"} =>
        Below(log[loc[p].rec], loc[p].seq) /\ loc[p].seq <= seqf[loc[p].rec]

Seqs ==
    /\ \A s \in Sid : Rising(log[s]) /\ Below(log[s], seqf[s] + 1)
    /\ \A p \in Proc : Numbered(p)

\* The invocations of k are those of j.
SameInvocations(k, j) == \A i \in Invocations(k) : i \in Invocations(j) /\ k[i] = j[i]

LEMMA NoInvocationAdded ==
    ASSUME NEW j \in Journal, NEW r, r.kind # "invocation"
    PROVE  SameInvocations(Append(j, r), j)
  <1>1. \A i \in DOMAIN Append(j, r) : i = Len(j) + 1 \/ i \in DOMAIN j
    BY Appended
  <1> QED
    BY <1>1, Appended DEF SameInvocations, Invocations

LEMMA EndAddsNone ==
    ASSUME FilesOK, NEW s \in Sid, NEW t \in Sid, WriteEnd(t)
    PROVE  SameInvocations(log'[s], log[s])
  <1>1. CASE log'[s] = log[s]
    BY <1>1 DEF SameInvocations
  <1>2. CASE log'[s] # log[s]
    <2> DEFINE a == Summary(Cardinality(Invocations(log[s])), seqf[s])
               b == EndMark(seqf[s])
    <2>1. log'[s] = Append(Append(log[s], a), b) /\ log[s] \in Journal
      BY <1>2 DEF WriteEnd, Closed, FilesOK
    <2>2. a \in Record /\ a.kind # "invocation" /\ b.kind # "invocation"
      <3>1. IsFiniteSet(Invocations(log[s]))
        <4>1. Len(log[s]) \in Nat /\ Invocations(log[s]) \subseteq 1..Len(log[s])
          BY <2>1 DEF Journal, Invocations
        <4>2. IsFiniteSet(1..Len(log[s]))
          BY <4>1, FS_Interval
        <4> QED
          BY <4>1, <4>2, FS_Subset
      <3>2. Cardinality(Invocations(log[s])) \in Nat /\ seqf[s] \in Nat
        BY <3>1, FS_CardinalityType DEF FilesOK
      <3> QED
        BY <3>2, RecordsAreRecords DEF Summary, EndMark
    <2> HIDE DEF a, b
    <2>3. Append(log[s], a) \in Journal
      BY <2>1, <2>2 DEF Journal
    <2>4. /\ SameInvocations(Append(log[s], a), log[s])
          /\ SameInvocations(Append(Append(log[s], a), b), Append(log[s], a))
      BY <2>1, <2>2, <2>3, NoInvocationAdded
    <2> QED
      BY <2>1, <2>4 DEF SameInvocations
  <1> QED
    BY <1>1, <1>2

\* Only FlushAppend adds an invocation to a journal.
LEMMA OnlyFlushRecords ==
    ASSUME Typed, NEW p \in Proc, Begin(p) \/ Step(p) \/ Fault(p), ~FlushAppend(p), NEW s \in Sid
    PROVE  SameInvocations(log'[s], log[s])
  <1> USE DEF Typed
  <1>1. CASE log'[s] = log[s]
    BY <1>1 DEF SameInvocations
  <1>2. ASSUME NEW t, NEW r, r.kind # "invocation", log' = [log EXCEPT ![t] = Append(@, r)]
        PROVE  SameInvocations(log'[s], log[s])
    <2>1. log'[s] = log[s] \/ log'[s] = Append(log[s], r)
      BY <1>2 DEF FilesOK
    <2>2. log[s] \in Journal
      BY DEF FilesOK
    <2> QED
      BY <1>1, <1>2, <2>1, <2>2, NoInvocationAdded
  <1>3. CASE Retire(p) \/ RotateEnd(p) \/ EndSession(p)
    <2>1. Id(p) \in Sid
      BY <1>3, Held, Labels DEF Retire, RotateEnd, EndSession, At
    <2> QED
      BY <1>3, <2>1, EndAddsNone DEF Retire, RotateEnd, EndSession
  <1>4. CASE RetirePrior(p)
    <2>1. \A m \in Active(p) : m.id \in Sid
      BY Held DEF Active, Local, Session
    <2> QED
      BY <1>4, <2>1, EndAddsNone DEF RetirePrior
  <1>5. CASE WriteHeader(p) \/ WriteAnnotation(p) \/ WriteFeedback(p) \/ FlushHeader(p)
    <2>1. \A m, n : /\ Started(m).kind # "invocation" /\ Annotation(n).kind # "invocation"
                    /\ Feedback(n).kind # "invocation"
      BY DEF Started, Annotation, Feedback
    <2>2. CASE WriteHeader(p)
      <3> DEFINE r == Started(loc[p].sess)
      <3>1. log' = [log EXCEPT ![Id(p)] = Append(@, r)] /\ r.kind # "invocation"
        BY <2>1, <2>2 DEF WriteHeader, AppendRecord
      <3> QED
        BY <1>2, <3>1
    <2>3. CASE WriteAnnotation(p)
      <3> DEFINE r == Annotation(loc[p].seq)
      <3>1. log' = [log EXCEPT ![Id(p)] = Append(@, r)] /\ r.kind # "invocation"
        BY <2>1, <2>3 DEF WriteAnnotation, AppendRecord
      <3> QED
        BY <1>2, <3>1
    <2>4. CASE WriteFeedback(p)
      <3> DEFINE r == Feedback(loc[p].seq)
      <3>1. log' = [log EXCEPT ![loc[p].cmd.sid] = Append(@, r)] /\ r.kind # "invocation"
        BY <2>1, <2>4 DEF WriteFeedback
      <3> QED
        BY <1>2, <3>1
    <2>5. CASE FlushHeader(p)
      <3> DEFINE r == SynthHeader(loc[p].rec)
      <3>1. log' = log \/ log' = [log EXCEPT ![loc[p].rec] = Append(@, r)]
        BY <2>5 DEF FlushHeader
      <3>2. r.kind # "invocation"
        BY <2>1 DEF SynthHeader
      <3> QED
        BY <1>1, <1>2, <3>1, <3>2
    <2> QED
      BY <1>5, <2>2, <2>3, <2>4, <2>5
  <1> QED
    BY <1>1, <1>3, <1>4, <1>5, OnlyWritersWrite DEF Writes

\* Only FlushBump moves the counter of a journal, when no counter is torn.
LEMMA OnlyFlushCounts ==
    ASSUME NEW p \in Proc, Begin(p) \/ Step(p) \/ Fault(p), ~FlushBump(p), ~TornSeq(p)
    PROVE  seqf' = seqf
  <1>1. CASE Begin(p) \/ Fault(p)
    BY <1>1 DEF Begin, Fault, Fail, Crash, TornCounter, Torn, TornFeedback, files
  <1>2. CASE Scan(p)
    BY <1>2 DEF Scan, ScanGone, ScanHeal, ScanLive, ScanNothing, ScanExpired, ScanActive, Retire,
                RetireUnlink, CallbackDone, files
  <1>3. CASE Resolve(p)
    BY <1>3 DEF Resolve, AttachExplicit, AttachMatch, AttachSole, StartRotation,
                StartAutomatic, Unattached, Touch, RotateEnd, RotateClear, files
  <1>4. CASE Create(p) \/ Rotate(p)
    BY <1>4 DEF Create, Allocate, Publish, WriteHeader, Rotate, StartCommand, StartCurrentDone,
                StartAllDone, RetirePrior, ClearPrior, AllRetired, files
  <1>5. CASE End(p) \/ Flush(p)
    BY <1>5 DEF End, EndCommand, EndRefused, EndAccepted, EndSession, EndClear, Flush,
                FlushNothing, FlushDrop, FlushEnter, FlushNumber, FlushHeader, FlushAppend, files
  <1>6. CASE Others(p)
    BY <1>6 DEF Others, RunCommand, SetAnchor, ResumeCommand, Resume, AnnotateCommand,
                AnnotateRefused, AnnotateTarget, WriteAnnotation, FeedbackCommand, FeedbackEnter, FeedbackNumber,
                FeedbackBump, WriteFeedback,
                files
  <1> QED
    BY <1>1, <1>2, <1>3, <1>4, <1>5, <1>6 DEF Step

LEMMA SameStaysNumbered ==
    ASSUME NEW j, NEW k, SameInvocations(k, j), NEW n
    PROVE  /\ Rising(j) => Rising(k)
           /\ Below(j, n) => Below(k, n)
  BY DEF SameInvocations, Rising, Below

\* The seq that is taken is beyond those in the journal, and written as the last.
LEMMA BumpSeqs ==
    ASSUME Typed, Promised, Seqs, NEW p \in Proc, FlushBump(p)
    PROVE  Seqs'
  <1> USE DEF Typed
  <1> DEFINE s == loc[p].rec
  <1>1. s \in Sid /\ lock[s] = p /\ log' = log /\ loc[p] \in Local
    BY Held, Labels DEF FlushBump, At, Promised, ReliesOn
  <1>2. seqf \in [Sid -> Nat] /\ seqf' = [seqf EXCEPT ![s] = @ + 1]
    BY DEF FlushBump, FilesOK
  <1>3. \A t \in Sid : \A i \in Invocations(log[t]) : log[t][i].seq \in Nat
    <2>1. \A t \in Sid : \A i \in DOMAIN log[t] : log[t][i] \in Record
      BY DEF FilesOK, Journal
    <2> QED
      BY <2>1 DEF Invocations, Record
  <1>4. ASSUME NEW t \in Sid PROVE Rising(log'[t]) /\ Below(log'[t], seqf'[t] + 1)
    <2>1. seqf'[t] \in Nat /\ seqf[t] \in Nat /\ seqf[t] <= seqf'[t]
      BY <1>1, <1>2
    <2> QED
      BY <1>1, <1>3, <2>1 DEF Seqs, Below
  <1>5. ASSUME NEW q \in Proc PROVE Numbered(q)'
    <2>1. CASE q = p
      <3>1. loc'[p].seq = seqf[s] + 1 /\ loc'[p].rec = s /\ seqf'[s] = seqf[s] + 1
        BY <1>1, <1>2 DEF FlushBump, Goto, LocalsOK, Local
      <3> QED
        BY <1>1, <1>2, <2>1, <3>1 DEF Seqs, Numbered
    <2>2. CASE q # p
      <3>1. pc'[q] = pc[q] /\ loc'[q] = loc[q]
        BY <2>2 DEF FlushBump, Goto, LocalsOK
      <3>2. pc[q] \in LockedPc => loc[q].rec \in Sid /\ loc[q].rec # s
        BY <1>1, <2>2, Held, Labels DEF Promised, ReliesOn
      <3> QED
        BY <1>1, <1>2, <3>1, <3>2, Labels DEF Seqs, Numbered
    <2> QED
      BY <2>1, <2>2
  <1> QED
    BY <1>4, <1>5 DEF Seqs

LEMMA AppendSeqs ==
    ASSUME Typed, Promised, Seqs, NEW p \in Proc, FlushAppend(p)
    PROVE  Seqs'
  <1> USE DEF Typed
  <1> DEFINE s == loc[p].rec
             r == Invocation(loc[p].seq)
  <1>1. /\ pc[p] = "append" /\ pc[p] \in LockedPc /\ s \in Sid /\ loc[p].seq \in Nat
        /\ seqf' = seqf /\ seqf \in [Sid -> Nat]
        /\ lock[s] = p /\ log' = [log EXCEPT ![s] = Append(@, r)]
    BY Held, Labels DEF FlushAppend, At, Promised, ReliesOn, FilesOK, Local
  <1>2. Below(log[s], loc[p].seq) /\ loc[p].seq <= seqf[s] /\ r.seq = loc[p].seq
    BY <1>1 DEF Seqs, Numbered, Invocation
  <1>3. log[s] \in Journal /\ log'[s] = Append(log[s], r)
    BY <1>1 DEF FilesOK
  <1> HIDE DEF r
  <1>4. \A i \in Invocations(log'[s]) :
           \/ i \in Invocations(log[s]) /\ log'[s][i] = log[s][i]
           \/ i = Len(log[s]) + 1 /\ log'[s][i] = r
    <2>1. \A i \in DOMAIN log'[s] : i = Len(log[s]) + 1 \/ i \in DOMAIN log[s]
      BY <1>3, Appended
    <2> QED
      BY <1>3, <2>1, Appended DEF Invocations
  <1>5. \A i \in Invocations(log[s]) : i < Len(log[s]) + 1 /\ i \in Nat /\ log[s][i].seq \in Nat
    <2>1. \A i \in DOMAIN log[s] : log[s][i] \in Record /\ i \in 1..Len(log[s]) /\ Len(log[s]) \in Nat
      BY <1>3 DEF Journal
    <2> QED
      BY <2>1 DEF Invocations, Record
  <1>6. Rising(log'[s]) /\ Below(log'[s], seqf[s] + 1)
    <2>1. Rising(log[s]) /\ Below(log[s], seqf[s] + 1) /\ Len(log[s]) \in Nat /\ seqf[s] \in Nat
      <3>1. \A t \in Sid : Rising(log[t]) /\ Below(log[t], seqf[t] + 1)
        BY DEF Seqs
      <3>2. seqf[s] \in Nat
        BY <1>1
      <3>3. Len(log[s]) \in Nat
        BY <1>3, Appended
      <3> QED
        BY <1>1, <3>1, <3>2, <3>3
    <2>2. Rising(log'[s])
      <3>1. SUFFICES ASSUME NEW i \in Invocations(log'[s]), NEW k \in Invocations(log'[s]), i < k
                     PROVE  log'[s][i].seq < log'[s][k].seq
        BY DEF Rising
      <3>2. i \in Invocations(log[s]) /\ log'[s][i] = log[s][i]
        BY <1>4, <1>5, <2>1, <3>1
      <3>3. CASE k \in Invocations(log[s]) /\ log'[s][k] = log[s][k]
        BY <2>1, <3>1, <3>2, <3>3 DEF Rising
      <3>4. CASE log'[s][k] = r
        BY <1>2, <2>1, <3>2, <3>4 DEF Below
      <3> QED
        BY <1>4, <3>3, <3>4
    <2>3. Below(log'[s], seqf[s] + 1)
      <3>1. r.seq < seqf[s] + 1
        BY <1>1, <1>2, <2>1
      <3> QED
        BY <1>4, <2>1, <3>1 DEF Below
    <2> QED
      BY <2>2, <2>3
  <1>7. ASSUME NEW t \in Sid PROVE Rising(log'[t]) /\ Below(log'[t], seqf'[t] + 1)
    <2>1. CASE t = s
      BY <1>1, <1>6, <2>1
    <2>2. CASE t # s
      BY <1>1, <2>2 DEF Seqs, FilesOK
    <2> QED
      BY <2>1, <2>2
  <1>8. ASSUME NEW q \in Proc PROVE Numbered(q)'
    <2>1. CASE q = p
      BY <2>1, Labels DEF FlushAppend, Exit, Goto, LocalsOK, Numbered
    <2>2. CASE q # p
      <3>1. pc'[q] = pc[q] /\ loc'[q] = loc[q]
        BY <2>2 DEF FlushAppend, Exit, Goto, LocalsOK
      <3>2. pc[q] \in LockedPc => loc[q].rec \in Sid /\ loc[q].rec # s
        BY <1>1, <2>2, Held, Labels DEF Promised, ReliesOn
      <3>3. pc[q] \in LockedPc => log'[loc[q].rec] = log[loc[q].rec]
        BY <1>1, <3>2 DEF FilesOK
      <3> QED
        BY <1>1, <3>1, <3>3, Labels DEF Seqs, Numbered
    <2> QED
      BY <2>1, <2>2
  <1> QED
    BY <1>7, <1>8 DEF Seqs

LEMMA SeqsNext ==
    ASSUME "tornSeq" \notin Faults, Typed, Promised, Seqs, [Next]_vars
    PROVE  Seqs'
  <1>1. CASE Tick \/ UNCHANGED vars
    <2>1. log' = log /\ seqf' = seqf /\ pc' = pc /\ loc' = loc
      BY <1>1 DEF Tick, vars, files
    <2> QED
      BY <2>1 DEF Seqs, Numbered
  <1>2. ASSUME NEW p \in Proc, Begin(p) \/ Step(p) \/ Fault(p), ~FlushBump(p), ~FlushAppend(p)
        PROVE  Seqs'
    <2>1. seqf' = seqf
      BY <1>2, OnlyFlushCounts DEF TornSeq
    <2>2. \A s \in Sid : SameInvocations(log'[s], log[s])
      BY <1>2, OnlyFlushRecords
    <2>3. \A s \in Sid : Rising(log'[s]) /\ Below(log'[s], seqf'[s] + 1)
      BY <2>1, <2>2, SameStaysNumbered DEF Seqs
    <2>4. ASSUME NEW q \in Proc PROVE Numbered(q)'
      <3>1. CASE pc'[q] = pc[q] /\ loc'[q] = loc[q]
        <4>1. pc[q] \in {"synth", "append"} => loc[q].rec \in Sid
          BY Held, Labels DEF Typed
        <4> QED
          BY <2>1, <2>2, <3>1, <4>1, SameStaysNumbered DEF Seqs, Numbered
      <3>2. CASE q = p /\ FlushHeader(p)
        <4>1. /\ pc[p] = "synth" /\ loc[p].rec \in Sid
              /\ loc'[p] = loc[p]
          BY <3>2, Held, Labels DEF FlushHeader, At, Goto, Typed, LocalsOK
        <4> QED
          BY <2>1, <2>2, <3>2, <4>1, SameStaysNumbered DEF Seqs, Numbered
      <3>3. CASE q = p /\ ~FlushHeader(p)
        <4>1. pc'[p] \notin {"synth", "append"}
          <5>1. CASE ~Enters(p)
            BY <1>2, <5>1, OnlyEntersEnter, Labels DEF Watched
          <5>2. CASE Retire(p) \/ RotateEnd(p) \/ RetirePrior(p) \/ EndSession(p)
                     \/ AnnotateTarget(p) \/ FeedbackCommand(p) \/ FeedbackEnter(p)
                     \/ FeedbackNumber(p) \/ FeedbackBump(p) \/ FlushEnter(p) \/ FlushNumber(p)
            BY <5>2 DEF Retire, RotateEnd, RetirePrior, EndSession, AnnotateTarget, FeedbackCommand,
                        FeedbackEnter, FeedbackNumber, FeedbackBump, FlushEnter, FlushNumber,
                        Goto, ToFlush, Typed, LocalsOK
          <5> QED
            BY <1>2, <3>3, <5>1, <5>2 DEF Enters
        <4> QED
          BY <3>3, <4>1 DEF Numbered
      <3> QED
        BY <1>2, <3>1, <3>2, <3>3, OthersStay
    <2> QED
      BY <2>3, <2>4 DEF Seqs
  <1> QED
    BY <1>1, <1>2, BumpSeqs, AppendSeqs DEF Next

\* As long as no counter file is torn, the seqs of a journal increase, whichever
\* processes flush into it and in whatever order: counter and line change under one lock.
THEOREM SeqsGoUp == ASSUME "tornSeq" \notin Faults PROVE Spec => []SeqsIncrease
  <1>1. Init => Seqs
    <2>1. Invocations(<<>>) = {}
      BY DEF Invocations
    <2> QED
      BY <2>1, Labels DEF Init, Seqs, Numbered, Rising, Below
  <1>2. Typed /\ Promised /\ Seqs /\ [Next]_vars => Seqs'
    BY SeqsNext
  <1>3. Seqs => SeqsIncrease
    BY DEF Seqs, Rising, SeqsIncrease
  <1> QED
    BY <1>1, <1>2, <1>3, Invariants, PTL DEF Spec

-----------------------------------------------------------------------------
(* New ids.  As long as the counter is not torn, the id that create_session *)
(* takes is one no file and no process has: a session begins with an empty *)
(* journal and one creator.                                                *)

\* An id taken, whose marker is not yet published, and one nobody has seen.
Making(s) == \E p \in Proc : At(p, "publish") /\ Id(p) = s
Unseen(s) == s > counter \/ Making(s)
Shown(s) == marker[s] # None \/ log[s] # <<>>

\* The sessions a process with locals r at label l knows of.
Names(l, r, s) ==
    \/ r.rec = s
    \/ r.sess # None /\ l # "publish" /\ r.sess.id = s
    \/ \E m \in r.found : m.id = s
Mentions(p, s) == Names(pc[p], loc[p], s)

Ids ==
    /\ \A s \in Sid : Shown(s) => ~Unseen(s)
    /\ \A s \in Sid : marker[s] # None => marker[s].id = s
    /\ \A s \in Sid : Hydrates(log[s]) => Header(log[s]).id = s
    /\ \A p \in Proc, s \in Sid : Mentions(p, s) => ~Unseen(s)
    /\ \A p, q \in Proc : At(p, "publish") /\ At(q, "publish") /\ Id(p) = Id(q) => p = q
    /\ \A p \in Proc : At(p, "publish") => Id(p) <= counter

\* What is read of a session is of that session.
LEMMA VisibleIsShown ==
    ASSUME FilesOK, Ids, NEW s \in Sid
    PROVE  /\ Visible(s) # None => Shown(s) /\ Visible(s).id = s
           /\ \A m \in EnvSession(s) : Shown(s) /\ m.id = s
  <1>1. Hydrates(log[s]) => Shown(s) /\ Header(log[s]).id = s
    BY DEF Ids, Hydrates, Shown
  <1>2. marker[s] # None => Shown(s) /\ marker[s].id = s
    BY DEF Ids, Shown
  <1>3. Visible(s) # None => Shown(s) /\ Visible(s).id = s
    BY <1>1, <1>2 DEF Visible
  <1>4. \A m \in EnvSession(s) : Shown(s) /\ m.id = s
    BY <1>1, <1>2 DEF EnvSession, Visible
  <1> QED
    BY <1>3, <1>4

LEMMA NamesAfter ==
    ASSUME Typed, NEW p \in Proc, NEW l, NEW r, Goto(p, l, r), NEW s
    PROVE  Mentions(p, s)' <=> Names(l, r, s)
  BY DEF Typed, LocalsOK, Goto, Mentions, Names

\* Nobody is named by a process that exits, only the recorder's session by one on its
\* way to the flush.
LEMMA ExitNamesNone ==
    ASSUME Typed, NEW p \in Proc, NEW s \in Sid
    PROVE  /\ Exit(p) => ~Mentions(p, s)'
           /\ ToFlush(p) /\ Mentions(p, s)' => Mentions(p, s)
  <1>1. s # 0
    BY SizesAssumption DEF Sid
  <1>2. ~Names("idle", Fresh, s)
    BY <1>1 DEF Names, Fresh
  <1>3. Exit(p) => ~Mentions(p, s)'
    BY <1>2, NamesAfter DEF Exit
  <1>4. ASSUME ToFlush(p), Mentions(p, s)' PROVE Mentions(p, s)
    <2> DEFINE r == [Fresh EXCEPT !.cmd = loc[p].cmd, !.rec = loc[p].rec, !.skip = loc[p].skip]
    <2>1. Names("flush", r, s)
      BY <1>4, NamesAfter DEF ToFlush
    <2>2. r.rec = loc[p].rec /\ r.sess = None /\ r.found = {}
      BY DEF Fresh
    <2> QED
      BY <2>1, <2>2 DEF Names, Mentions
  <1> QED
    BY <1>3, <1>4

\* A scan begins with what is there.
LEMMA ScanNamesShown ==
    ASSUME Typed, Ids, NEW p \in Proc, NEW l, NEW env \in {0} \cup Sid, NEW r \in Local,
           StartScan(p, l, env, r), NEW s \in Sid, Mentions(p, s)'
    PROVE  Names(l, r, s) \/ Shown(s)
  <1> DEFINE t == IF env = 0
                  THEN [r EXCEPT !.todo = {x \in Sid : marker[x] # None}, !.found = {}]
                  ELSE [r EXCEPT !.todo = {}, !.found = EnvSession(env)]
  <1>1. Names(l, t, s)
    BY NamesAfter DEF StartScan
  <1>2. t.rec = r.rec /\ t.sess = r.sess
    BY DEF Local
  <1>3. t.found = {} \/ (env \in Sid /\ t.found = EnvSession(env))
    BY DEF Local
  <1>4. \A m \in t.found : m.id = s => Shown(s)
    BY <1>3, VisibleIsShown DEF Typed
  <1> HIDE DEF t
  <1> QED
    BY <1>1, <1>2, <1>4 DEF Names

\* Going on with no other session than before names no other session.
LEMMA NoNewNames ==
    ASSUME Typed, NEW p \in Proc, NEW l, NEW r, Goto(p, l, r),
           r.rec \in {0, loc[p].rec}, r.sess \in {None, loc[p].sess}, r.found \subseteq loc[p].found,
           ~At(p, "publish"), NEW s \in Sid, Mentions(p, s)'
    PROVE  Mentions(p, s)
  <1>1. s # 0
    BY SizesAssumption DEF Sid
  <1>2. Names(l, r, s)
    BY NamesAfter
  <1> QED
    BY <1>1, <1>2 DEF Names, Mentions, At

\* The same when a session among those found is picked.
LEMMA PickedWasNamed ==
    ASSUME Typed, NEW p \in Proc, NEW l, NEW r, Goto(p, l, r), NEW m \in loc[p].found,
           r.rec \in {0, loc[p].rec, m.id}, r.sess \in Session \cup {None},
           r.sess # None => r.sess = loc[p].sess \/ r.sess.id = m.id,
           r.found \subseteq loc[p].found,
           ~At(p, "publish"), NEW s \in Sid, Mentions(p, s)'
    PROVE  Mentions(p, s)
  <1>1. s # 0
    BY SizesAssumption DEF Sid
  <1>2. Names(l, r, s)
    BY NamesAfter
  <1> QED
    BY <1>1, <1>2 DEF Names, Mentions, At

LEMMA ScanNames ==
    ASSUME Typed, Ids, NEW p \in Proc, Scan(p), NEW s \in Sid, Mentions(p, s)'
    PROVE  Mentions(p, s) \/ Shown(s)
  <1> USE DEF Typed
  <1>0. loc[p] \in Local
    BY Held
  <1>1. ASSUME NEW t \in Sid, Scanning(p, t) \/ Reading(p, t)
        PROVE  /\ ~At(p, "publish")
               /\ Past(p, t).rec = loc[p].rec /\ Past(p, t).sess = loc[p].sess
               /\ Past(p, t).found = loc[p].found
    BY <1>0, <1>1, Labels DEF Scanning, Reading, Past, Local, At
  <1>2. ASSUME NEW t \in Sid, ScanGone(p, t) \/ ScanHeal(p, t) \/ ScanNothing(p, t)
        PROVE  Mentions(p, s)
    BY <1>1, <1>2, NoNewNames DEF ScanGone, ScanHeal, ScanNothing
  <1>3. ASSUME NEW t \in Sid, ScanLive(p, t)
        PROVE  Mentions(p, s)
    <2> DEFINE r == [loc[p] EXCEPT !.seen = t]
    <2>1. r.rec = loc[p].rec /\ r.sess = loc[p].sess /\ r.found = loc[p].found
      BY <1>0 DEF Local
    <2> HIDE DEF r
    <2>2. Goto(p, pc[p], r) /\ ~At(p, "publish")
      BY <1>1, <1>3 DEF ScanLive, r
    <2> QED
      BY <2>1, <2>2, NoNewNames
  <1>4. ASSUME NEW t \in Sid, ScanExpired(p, t)
        PROVE  Mentions(p, s) \/ Shown(s)
    <2> DEFINE r == [Past(p, t) EXCEPT !.sess = Visible(t), !.ret = pc[p]]
    <2>1. r.rec = loc[p].rec /\ r.sess = Visible(t) /\ r.found = loc[p].found
      BY <1>0, <1>1, <1>4 DEF ScanExpired, Past, Local
    <2>2. Names("retire", r, s)
      BY <1>4, NamesAfter DEF ScanExpired
    <2>3. Visible(t).id = t /\ Shown(t)
      BY <1>4, VisibleIsShown DEF ScanExpired
    <2> QED
      BY <2>1, <2>2, <2>3 DEF Names, Mentions
  <1>5. ASSUME NEW t \in Sid, ScanActive(p, t)
        PROVE  Mentions(p, s) \/ Shown(s)
    <2> DEFINE r == [Past(p, t) EXCEPT !.found = @ \cup {Visible(t)}]
    <2>1. /\ r.rec = loc[p].rec /\ r.sess = loc[p].sess
          /\ r.found = loc[p].found \cup {Visible(t)} /\ ~At(p, "publish")
      BY <1>0, <1>1, <1>5 DEF ScanActive, Past, Local
    <2>2. Names(pc[p], r, s)
      BY <1>5, NamesAfter DEF ScanActive
    <2>3. Visible(t).id = t /\ Shown(t)
      BY <1>5, VisibleIsShown DEF ScanActive
    <2> QED
      BY <2>1, <2>2, <2>3 DEF Names, Mentions, At
  <1>6. CASE Retire(p)
    BY <1>6, NoNewNames DEF Retire, At
  <1>7. CASE RetireUnlink(p)
    <2> DEFINE r == [loc[p] EXCEPT !.sess = None, !.ret = "callback"]
    <2>1. r.rec = loc[p].rec /\ r.sess = None /\ r.found = loc[p].found
      BY <1>0 DEF Local
    <2> HIDE DEF r
    <2> QED
      BY <1>7, <2>1, NoNewNames DEF RetireUnlink, At, r
  <1>8. CASE CallbackDone(p)
    <2> DEFINE r == [loc[p] EXCEPT !.rec = RecOf(Active(p)), !.found = {}]
    <2>1. /\ r \in Local
          /\ r.rec = RecOf(Active(p)) /\ r.sess = loc[p].sess /\ r.found = {}
          /\ loc[p].cmd.env \in {0} \cup Sid /\ ~At(p, "publish")
      <3>1. RecOf(Active(p)) \in {0} \cup Sid
        BY <1>0 DEF RecOf, Active, Sole, Local, Session
      <3> QED
        BY <1>0, <1>8, <3>1, Held DEF CallbackDone, Scanned, Local, Command, At
    <2>2. RecOf(Active(p)) = 0 \/ \E m \in loc[p].found : RecOf(Active(p)) = m.id
      BY DEF RecOf, Active, Sole
    <2>3. \A l : Names(l, r, s) => Mentions(p, s)
      <3>1. s # 0
        BY SizesAssumption DEF Sid
      <3> QED
        BY <2>1, <2>2, <3>1 DEF Names, Mentions, At
    <2> HIDE DEF r
    <2>4. CASE StartScan(p, "hook", loc[p].cmd.env, r)
      BY <2>1, <2>3, <2>4, ScanNamesShown
    <2>5. CASE Goto(p, "flush", r)
      BY <2>3, <2>5, NamesAfter
    <2> QED
      BY <1>8, <2>4, <2>5 DEF CallbackDone, r
  <1> QED
    BY <1>2, <1>3, <1>4, <1>5, <1>6, <1>7, <1>8 DEF Scan

LEMMA ResolveNames ==
    ASSUME Typed, Ids, NEW p \in Proc, Resolve(p), NEW s \in Sid, Mentions(p, s)'
    PROVE  Mentions(p, s)
  <1> USE DEF Typed
  <1>0. loc[p] \in Local /\ loc[p].found \subseteq Session
    BY Held DEF Local
  <1>1. ASSUME ~At(p, "publish"), NEW l, NEW m \in loc[p].found, NEW n \in Session, n.id = m.id,
               Goto(p, l, [loc[p] EXCEPT !.sess = n, !.found = {}])
        PROVE  Mentions(p, s)
    <2> DEFINE r == [loc[p] EXCEPT !.sess = n, !.found = {}]
    <2>1. r.rec = loc[p].rec /\ r.sess = n /\ r.found = {}
      BY <1>0 DEF Local
    <2> HIDE DEF r
    <2> QED
      BY <1>1, <2>1, PickedWasNamed DEF r
  <1>2. CASE AttachExplicit(p) \/ AttachMatch(p) \/ AttachSole(p) \/ StartRotation(p)
    <2>1. ~At(p, "publish") /\ Wanted(p) \in Anchor \cup {None}
      <3>1. At(p, "hook")
        BY <1>2 DEF AttachExplicit, AttachMatch, AttachSole, StartRotation, Scanned
      <3> QED
        BY <3>1, Held DEF At, Wanted, Command
    <2>2. \A m \in loc[p].found : LET n == [m EXCEPT !.anchor = Wanted(p)]
                                  IN  m \in Session /\ n \in Session /\ n.id = m.id
      BY <1>0, <2>1 DEF Session
    <2> QED
      BY <1>1, <1>2, <2>1, <2>2
         DEF AttachExplicit, AttachMatch, AttachSole, StartRotation, Attach, Active
  <1>3. CASE StartAutomatic(p)
    BY <1>3, NoNewNames DEF StartAutomatic, Scanned, At
  <1>4. CASE Unattached(p)
    <2> DEFINE r == [loc[p] EXCEPT !.rec = 0, !.found = {}]
    <2>1. r.rec = 0 /\ r.sess = loc[p].sess /\ r.found = {}
      BY <1>0 DEF Local
    <2> HIDE DEF r
    <2> QED
      BY <1>4, <2>1, NoNewNames DEF Unattached, Scanned, At, r
  <1>5. CASE Touch(p)
    <2> DEFINE r == [loc[p] EXCEPT !.sess = None, !.rec = loc[p].sess.id]
    <2>1. r.rec = loc[p].sess.id /\ r.sess = None /\ r.found = loc[p].found /\ loc[p].sess # None
      BY <1>0, <1>5, Held, Labels, NoneAssumption DEF Touch, At, Local
    <2> HIDE DEF r
    <2>2. Names("body", r, s)
      BY <1>5, NamesAfter DEF Touch, r
    <2> QED
      BY <1>5, <2>1, <2>2 DEF Names, Mentions, Touch, At, Id
  <1>6. CASE RotateEnd(p)
    BY <1>6, NoNewNames DEF RotateEnd, At
  <1>7. CASE RotateClear(p)
    <2> DEFINE r == [loc[p] EXCEPT !.sess = None]
    <2>1. r.rec = loc[p].rec /\ r.sess = None /\ r.found = loc[p].found
      BY <1>0 DEF Local
    <2> HIDE DEF r
    <2> QED
      BY <1>7, <2>1, NoNewNames DEF RotateClear, At, r
  <1> QED
    BY <1>2, <1>3, <1>4, <1>5, <1>6, <1>7 DEF Resolve

\* A new session is named by its creator once it is published.
LEMMA CreateNames ==
    ASSUME Typed, Ids, NEW p \in Proc, Create(p), NEW s \in Sid, Mentions(p, s)'
    PROVE  Mentions(p, s) \/ (Publish(p) /\ Id(p) = s)
  <1> USE DEF Typed
  <1>0. loc[p] \in Local
    BY Held
  <1>1. CASE Allocate(p)
    <2> DEFINE r == [loc[p] EXCEPT !.sess = NewSession(p, counter + 1)]
    <2>1. r.rec = loc[p].rec /\ r.found = loc[p].found
      BY <1>0 DEF Local
    <2>2. Names("publish", r, s)
      BY <1>1, NamesAfter DEF Allocate
    <2> HIDE DEF r
    <2> QED
      BY <2>1, <2>2 DEF Names, Mentions
  <1>2. CASE Publish(p)
    <2>1. Names("header", loc[p], s)
      BY <1>2, NamesAfter DEF Publish
    <2> QED
      BY <1>2, <2>1 DEF Names, Mentions, Id
  <1>3. CASE WriteHeader(p)
    <2> DEFINE r == [loc[p] EXCEPT !.sess = None, !.rec = Id(p)]
    <2>1. r.rec = Id(p) /\ r.sess = None /\ r.found = loc[p].found /\ loc[p].sess # None
      BY <1>0, <1>3, Held, Labels, NoneAssumption DEF WriteHeader, At, Local
    <2> HIDE DEF r
    <2>2. CASE Goto(p, "body", r)
      <3>1. Names("body", r, s)
        BY <2>2, NamesAfter
      <3> QED
        BY <1>3, <2>1, <3>1 DEF Names, Mentions, WriteHeader, At, Id
    <2> QED
      BY <1>3, <2>2, ExitNamesNone DEF WriteHeader, r
  <1> QED
    BY <1>1, <1>2, <1>3 DEF Create

\* The session of the command's environment is among those to come.
LEMMA OwnScanNames ==
    ASSUME Typed, Ids, NEW p \in Proc, ~At(p, "publish"), ~At(p, "idle"), NEW l \in ScanPc,
           NEW env \in {0, loc[p].cmd.env}, StartScan(p, l, env, loc[p]),
           NEW s \in Sid, Mentions(p, s)'
    PROVE  Mentions(p, s) \/ Shown(s)
  <1>1. loc[p] \in Local /\ env \in {0} \cup Sid
    BY Held DEF Typed, Command
  <1>2. Names(l, loc[p], s) \/ Shown(s)
    BY <1>1, ScanNamesShown
  <1> QED
    BY <1>2 DEF Names, Mentions, At

LEMMA BodyNames ==
    ASSUME Typed, Promised, Ids, NEW p \in Proc, Rotate(p) \/ End(p) \/ Others(p), NEW s \in Sid,
           Mentions(p, s)'
    PROVE  Mentions(p, s) \/ Shown(s)
  <1> USE DEF Typed
  <1>0. loc[p] \in Local /\ loc[p].found \subseteq Session
    BY Held DEF Local
  <1>a. ASSUME ToRotate(p), ~At(p, "publish") PROVE Mentions(p, s)
    <2> DEFINE r == [loc[p] EXCEPT !.skip = Active(p) # {}]
    <2>1. r.rec = loc[p].rec /\ r.sess = loc[p].sess /\ r.found = loc[p].found
      BY <1>0 DEF Local
    <2> HIDE DEF r
    <2> QED
      BY <1>a, <2>1, NoNewNames DEF ToRotate, r
  <1>1. CASE StartCommand(p) \/ StartCurrentDone(p) \/ EndCommand(p) \/ AnnotateCommand(p)
    <2>1. ~At(p, "publish") /\ ~At(p, "idle")
      BY <1>1 DEF StartCommand, StartCurrentDone, EndCommand, AnnotateCommand, Body, Scanned, At
    <2>2. Goto(p, "allocate", loc[p]) => Mentions(p, s)
      BY <2>1, NoNewNames
    <2> QED
      BY <1>1, <1>a, <2>1, <2>2, OwnScanNames, ExitNamesNone, Labels
         DEF StartCommand, StartCurrentDone, EndCommand, AnnotateCommand
  <1>2. CASE StartAllDone(p) \/ AllRetired(p)
    BY <1>2, <1>a, NoNewNames DEF StartAllDone, AllRetired, Scanned, At
  <1>3. CASE RetirePrior(p)
    <2>1. PICK m \in loc[p].found :
             Goto(p, "clearPrior", [loc[p] EXCEPT !.found = @ \ {m}, !.sess = m])
      BY <1>3 DEF RetirePrior, Active
    <2> DEFINE r == [loc[p] EXCEPT !.found = @ \ {m}, !.sess = m]
    <2>2. r.rec = loc[p].rec /\ r.sess = m /\ r.found \subseteq loc[p].found /\ m \in Session
      BY <1>0 DEF Local
    <2> HIDE DEF r
    <2> QED
      BY <1>3, <2>1, <2>2, PickedWasNamed DEF RetirePrior, At, r
  <1>4. CASE ClearPrior(p)
    <2> DEFINE r == [loc[p] EXCEPT !.sess = None]
    <2>1. r.rec = loc[p].rec /\ r.sess = None /\ r.found = loc[p].found
      BY <1>0 DEF Local
    <2> HIDE DEF r
    <2> QED
      BY <1>4, <2>1, NoNewNames DEF ClearPrior, At, r
  <1>5. CASE EndAccepted(p)
    <2>1. PICK m \in loc[p].found :
             Goto(p, "end", [loc[p] EXCEPT !.sess = m, !.found = {}, !.skip = TRUE])
      BY <1>5 DEF EndAccepted, Active
    <2> DEFINE r == [loc[p] EXCEPT !.sess = m, !.found = {}, !.skip = TRUE]
    <2>2. r.rec = loc[p].rec /\ r.sess = m /\ r.found = {} /\ m \in Session
      BY <1>0 DEF Local
    <2> HIDE DEF r
    <2> QED
      BY <1>5, <2>1, <2>2, PickedWasNamed DEF EndAccepted, Scanned, At, r
  <1>6. CASE EndSession(p) \/ RunCommand(p) \/ FeedbackCommand(p)
    <2>1. ~At(p, "publish")
      BY <1>6 DEF EndSession, RunCommand, FeedbackCommand, Body, At
    <2>2. ASSUME NEW l, Goto(p, l, loc[p]) PROVE Mentions(p, s)
      BY <2>1, <2>2, NoNewNames
    <2> QED
      BY <1>6, <2>2, ExitNamesNone DEF EndSession, RunCommand, FeedbackCommand
  <1>7. CASE EndRefused(p) \/ EndClear(p) \/ SetAnchor(p) \/ Resume(p) \/ AnnotateRefused(p)
             \/ WriteAnnotation(p) \/ WriteFeedback(p)
    BY <1>7, ExitNamesNone
       DEF EndRefused, EndClear, SetAnchor, Resume, AnnotateRefused, WriteAnnotation, WriteFeedback
  <1>8. CASE ResumeCommand(p)
    <2> DEFINE t == loc[p].cmd.sid
               r == [loc[p] EXCEPT !.sess = Header(log[t])]
    <2>1. CASE ToFlush(p)
      BY <2>1, ExitNamesNone
    <2>2. CASE Goto(p, "resume", r) /\ Hydrates(log[t])
      <3>1. t \in Sid
        BY <1>8, Held, CommandAssumption DEF ResumeCommand, Body, At, Command
      <3>2. Header(log[t]).id = t /\ Shown(t)
        BY <2>2, <3>1 DEF Ids, Shown, Hydrates
      <3>3. r.rec = loc[p].rec /\ r.sess = Header(log[t]) /\ r.found = loc[p].found
        BY <1>0 DEF Local
      <3>4. Names("resume", r, s)
        BY <2>2, NamesAfter
      <3> QED
        BY <3>2, <3>3, <3>4 DEF Names, Mentions
    <2> QED
      BY <1>8, <2>1, <2>2 DEF ResumeCommand
  <1>9. CASE AnnotateTarget(p)
    <2>1. PICK m \in loc[p].found : \E n \in InvocationSeqs(log[m.id]) :
             Goto(p, "note", [loc[p] EXCEPT !.sess = m, !.found = {}, !.seq = n])
      BY <1>9 DEF AnnotateTarget, Active
    <2>2. PICK n : Goto(p, "note", [loc[p] EXCEPT !.sess = m, !.found = {}, !.seq = n])
      BY <2>1
    <2> DEFINE r == [loc[p] EXCEPT !.sess = m, !.found = {}, !.seq = n]
    <2>3. r.rec = loc[p].rec /\ r.sess = m /\ r.found = {} /\ m \in Session
      BY <1>0 DEF Local
    <2> HIDE DEF r
    <2> QED
      BY <1>9, <2>2, <2>3, PickedWasNamed DEF AnnotateTarget, Scanned, At, r
  <1>10. CASE FeedbackEnter(p) \/ FeedbackNumber(p)
    BY <1>10, NoNewNames DEF FeedbackEnter, FeedbackNumber, At
  <1>11. CASE FeedbackBump(p)
    <2>1. PICK n : Goto(p, "fbAppend", [loc[p] EXCEPT !.seq = n])
      BY <1>11 DEF FeedbackBump
    <2> DEFINE r == [loc[p] EXCEPT !.seq = n]
    <2>2. r.rec = loc[p].rec /\ r.sess = loc[p].sess /\ r.found = loc[p].found
      BY <1>0 DEF Local
    <2> HIDE DEF r
    <2> QED
      BY <1>11, <2>1, <2>2, NoNewNames DEF FeedbackBump, At, r
  <1> QED
    BY <1>1, <1>2, <1>3, <1>4, <1>5, <1>6, <1>7, <1>8, <1>9, <1>10, <1>11 DEF Rotate, End, Others

\* A process comes to know only of sessions that are there, or of the one it publishes.
LEMMA NamesStep ==
    ASSUME Typed, Promised, Ids, NEW p \in Proc, Begin(p) \/ Step(p) \/ Fault(p), NEW s \in Sid,
           Mentions(p, s)'
    PROVE  Mentions(p, s) \/ Shown(s) \/ (Publish(p) /\ Id(p) = s)
  <1> USE DEF Typed
  <1>1. CASE Begin(p)
    <2>1. PICK c \in Commands : StartScan(p, "callback", c.env, [Fresh EXCEPT !.cmd = c])
      BY <1>1 DEF Begin
    <2> DEFINE r == [Fresh EXCEPT !.cmd = c]
    <2>2. r \in Local /\ c.env \in {0} \cup Sid
      BY FreshOK, CommandAssumption DEF LocalOK, Local, Command
    <2>3. ~Names("callback", r, s)
      BY SizesAssumption DEF Fresh, Names, Sid
    <2> HIDE DEF r
    <2> QED
      BY <2>1, <2>2, <2>3, ScanNamesShown DEF r
  <1>2. CASE Flush(p)
    <2>1. CASE FlushNothing(p) \/ FlushDrop(p) \/ FlushAppend(p)
      BY <2>1, ExitNamesNone DEF FlushNothing, FlushDrop, FlushAppend
    <2>2. CASE FlushBump(p)
      <3>1. PICK n : Goto(p, "synth", [loc[p] EXCEPT !.seq = n])
        BY <2>2 DEF FlushBump
      <3> DEFINE r == [loc[p] EXCEPT !.seq = n]
      <3>2. r.rec = loc[p].rec /\ r.sess = loc[p].sess /\ r.found = loc[p].found
        BY Held DEF Local
      <3> HIDE DEF r
      <3> QED
        BY <2>2, <3>1, <3>2, NoNewNames DEF FlushBump, At, r
    <2>3. CASE FlushEnter(p) \/ FlushNumber(p) \/ FlushHeader(p)
      BY <2>3, NoNewNames DEF FlushEnter, FlushNumber, FlushHeader, Flushing, At
    <2> QED
      BY <1>2, <2>1, <2>2, <2>3 DEF Flush
  <1>3. CASE Fault(p)
    BY <1>3, ExitNamesNone DEF Fault, Fail, Crash, TornCounter, TornSeq, Torn, TornFeedback
  <1> QED
    BY <1>1, <1>2, <1>3, ScanNames, ResolveNames, CreateNames, BodyNames DEF Step

\* Only Allocate takes an id, and it takes one beyond the counter.
LEMMA OnlyAllocateTakes ==
    ASSUME Typed, NEW p \in Proc, Begin(p) \/ Step(p) \/ Fault(p), "torn" \notin Faults,
           ~Allocate(p)
    PROVE  counter' = counter /\ pc'[p] # "publish"
  <1> USE DEF Typed
  <1>0. /\ loc[p] \in Local /\ loc[p].ret \in ScanPc
        /\ Exit(p) \/ ToFlush(p) => pc'[p] # "publish"
        /\ \A l, r : Goto(p, l, r) => pc'[p] = l
    BY Held DEF Exit, ToFlush, Goto, LocalsOK, Local
  <1>1. CASE Begin(p) \/ Fault(p)
    BY <1>0, <1>1
       DEF Begin, StartScan, Fault, Fail, Crash, TornCounter, TornSeq, Torn, TornFeedback, files
  <1>2. CASE Scan(p)
    <2>1. ASSUME NEW t \in Sid, Scanning(p, t) \/ Reading(p, t) PROVE pc[p] # "publish"
      BY <2>1, Labels DEF Scanning, Reading
    <2> QED
      BY <1>0, <1>2, <2>1, Labels
         DEF Scan, ScanGone, ScanHeal, ScanLive, ScanNothing, ScanExpired, ScanActive,
             Retire, RetireUnlink, CallbackDone, StartScan, files
  <1>3. CASE Resolve(p)
    BY <1>0, <1>3
       DEF Resolve, AttachExplicit, AttachMatch, AttachSole, StartRotation, StartAutomatic,
           Unattached, Touch, RotateEnd, RotateClear, Attach, files
  <1>4. CASE Create(p) \/ Rotate(p)
    BY <1>0, <1>4
       DEF Create, Publish, WriteHeader, Rotate, StartCommand, StartCurrentDone, StartAllDone, ToRotate,
           RetirePrior, ClearPrior, AllRetired, StartScan, files
  <1>5. CASE End(p) \/ Flush(p)
    BY <1>0, <1>5
       DEF End, EndCommand, EndRefused, EndAccepted, EndSession, EndClear, Flush, FlushNothing,
           FlushDrop, FlushEnter, FlushNumber, FlushBump, FlushHeader, FlushAppend, StartScan, files
  <1>6. CASE Others(p)
    BY <1>0, <1>6
       DEF Others, RunCommand, SetAnchor, ResumeCommand, Resume, AnnotateCommand,
           AnnotateRefused, AnnotateTarget, WriteAnnotation, FeedbackCommand, FeedbackEnter, FeedbackNumber,
                FeedbackBump, WriteFeedback,
           StartScan, files
  <1> QED
    BY <1>1, <1>2, <1>3, <1>4, <1>5, <1>6 DEF Step

\* What Allocate takes.
LEMMA TakesTheNext ==
    ASSUME Typed, NEW p \in Proc, Allocate(p)
    PROVE  counter' = counter + 1 /\ At(p, "publish")' /\ Id(p)' = counter + 1
  <1>1. loc[p] \in Local
    BY Held DEF Typed
  <1>2. [loc[p] EXCEPT !.sess = NewSession(p, counter + 1)].sess.id = counter + 1
    BY <1>1 DEF NewSession, Local
  <1> QED
    BY <1>2 DEF Allocate, Goto, At, Id, Typed, LocalsOK

\* Once seen, an id stays seen.
LEMMA SeenStaysSeen ==
    ASSUME Typed, Promised, NEW p \in Proc, Begin(p) \/ Step(p) \/ Fault(p), "torn" \notin Faults,
           NEW s \in Sid, Unseen(s)'
    PROVE  Unseen(s)
  <1>1. counter \in Nat /\ s \in Nat
    BY SizesAssumption DEF Typed, FilesOK, Sid
  <1>2. ASSUME NEW q \in Proc, q # p PROVE pc'[q] = pc[q] /\ loc'[q] = loc[q]
    BY <1>2, OthersStay DEF Typed
  <1>3. CASE Allocate(p)
    BY <1>1, <1>2, <1>3, TakesTheNext DEF Unseen, Making, At, Id
  <1>4. CASE ~Allocate(p)
    BY <1>2, <1>4, OnlyAllocateTakes DEF Unseen, Making, At, Id
  <1> QED
    BY <1>3, <1>4

\* The steps after which there is another marker than before.
LEMMA MarkersArePublished ==
    ASSUME Typed, NEW p \in Proc, Begin(p) \/ Step(p) \/ Fault(p), NEW s \in Sid,
           marker'[s] # None, marker'[s] # marker[s]
    PROVE  Publish(p) \/ Resume(p) \/ Touch(p) \/ SetAnchor(p)
  <1> SUFFICES ASSUME ~Publish(p), ~Resume(p), ~Touch(p), ~SetAnchor(p)
               PROVE  marker' = marker \/ \E t : Unlink(t)
    BY DEF Unlink, Typed, FilesOK
  <1>1. CASE Begin(p) \/ Fault(p)
    BY <1>1 DEF Begin, Fault, Fail, Crash, TornCounter, TornSeq, Torn, TornFeedback, files
  <1>2. CASE Scan(p)
    BY <1>2 DEF TryUnlink, Scan, ScanGone, ScanHeal, ScanLive, ScanNothing, ScanExpired, ScanActive, Retire,
                RetireUnlink, CallbackDone, files
  <1>3. CASE Resolve(p)
    BY <1>3 DEF Resolve, AttachExplicit, AttachMatch, AttachSole, StartRotation, StartAutomatic,
                Unattached, RotateEnd, RotateClear, files
  <1>4. CASE Create(p) \/ Rotate(p)
    BY <1>4 DEF Create, Allocate, WriteHeader, Rotate, StartCommand, StartCurrentDone,
                StartAllDone, RetirePrior, ClearPrior, AllRetired, files
  <1>5. CASE End(p) \/ Flush(p)
    BY <1>5 DEF TryUnlink, End, EndCommand, EndRefused, EndAccepted, EndSession, EndClear, Flush,
                FlushNothing, FlushDrop, FlushEnter, FlushNumber, FlushBump, FlushHeader, FlushAppend, files
  <1>6. CASE Others(p)
    BY <1>6 DEF Others, RunCommand, ResumeCommand, AnnotateCommand, AnnotateRefused,
                AnnotateTarget, WriteAnnotation, FeedbackCommand, FeedbackEnter, FeedbackNumber,
                FeedbackBump, WriteFeedback, files
  <1> QED
    BY <1>1, <1>2, <1>3, <1>4, <1>5, <1>6 DEF Step

\* A file of a session is made by a process that knows of it.
LEMMA ShownByWhoKnows ==
    ASSUME Typed, Promised, Ids, NEW p \in Proc, Begin(p) \/ Step(p) \/ Fault(p), NEW s \in Sid,
           Shown(s)'
    PROVE  Shown(s) \/ Mentions(p, s) \/ (Publish(p) /\ Id(p) = s)
  <1> USE DEF Typed
  <1>0. pc[p] \in SessPc /\ pc[p] # "publish" /\ Id(p) = s => Mentions(p, s)
    BY Held, NoneAssumption DEF Mentions, Names, Id
  <1>1. ASSUME NEW t, NEW r, log' = [log EXCEPT ![t] = r], t # s PROVE log'[s] = log[s]
    BY <1>1 DEF FilesOK
  <1>2. CASE log'[s] # log[s]
    <2>1. Writes(p)
      BY <1>2, OnlyWritersWrite
    <2>2. CASE Retire(p) \/ RotateEnd(p) \/ EndSession(p)
      BY <1>0, <1>1, <1>2, <2>2, Labels DEF Retire, RotateEnd, EndSession, WriteEnd, At
    <2>3. CASE WriteHeader(p) \/ WriteAnnotation(p)
      BY <1>0, <1>1, <1>2, <2>3, Labels DEF WriteHeader, WriteAnnotation, AppendRecord, At
    <2>4. CASE RetirePrior(p)
      <3>1. PICK m \in loc[p].found : WriteEnd(m.id)
        BY <2>4 DEF RetirePrior, Active
      <3> QED
        BY <1>1, <1>2, <3>1 DEF WriteEnd, Mentions, Names
    <2>5. CASE WriteFeedback(p)
      <3>1. loc[p].cmd.sid = s
        BY <1>1, <1>2, <2>5 DEF WriteFeedback
      <3> QED
        BY <2>5, <3>1, Labels DEF WriteFeedback, At, Promised, ReliesOn, Hydrates, Shown
    <2>6. CASE FlushHeader(p) \/ FlushAppend(p)
      BY <1>1, <1>2, <2>6 DEF FlushHeader, FlushAppend, Mentions, Names
    <2> QED
      BY <2>1, <2>2, <2>3, <2>4, <2>5, <2>6 DEF Writes
  <1>3. CASE marker'[s] # None /\ marker'[s] # marker[s]
    <2>1. CASE Publish(p) \/ Resume(p) \/ Touch(p)
      <3>1. Id(p) = s
        BY <1>3, <2>1 DEF Publish, Resume, Touch, Id, FilesOK
      <3> QED
        BY <1>0, <2>1, <3>1, Labels DEF Resume, Touch, At
    <2>2. CASE SetAnchor(p)
      BY <1>3, <2>2 DEF SetAnchor, FilesOK, Mentions, Names
    <2>3. Publish(p) \/ Resume(p) \/ Touch(p) \/ SetAnchor(p)
      BY <1>3, MarkersArePublished
    <2> QED
      BY <2>1, <2>2, <2>3
  <1> QED
    BY <1>2, <1>3 DEF Shown

LEMMA MarkersKeepIds ==
    ASSUME Typed, Ids, NEW p \in Proc, Begin(p) \/ Step(p) \/ Fault(p), NEW s \in Sid,
           marker'[s] # None
    PROVE  marker'[s].id = s
  <1> USE DEF Typed
  <1>0. marker[s] # None => marker[s].id = s /\ marker[s] \in Session
    BY DEF Ids, FilesOK
  <1>1. CASE marker'[s] = marker[s]
    BY <1>0, <1>1
  <1>2. CASE (Publish(p) \/ Resume(p)) /\ marker'[s] # marker[s]
    <2>1. Id(p) = s /\ marker'[s] = loc[p].sess
      BY <1>2 DEF Publish, Resume, FilesOK
    <2> QED
      BY <2>1 DEF Id
  <1>3. CASE Touch(p) /\ marker'[s] # marker[s]
    <2> DEFINE m == loc[p].sess
               current == IF marker[m.id] # None THEN marker[m.id] ELSE m
               touched == [current EXCEPT !.anchor = IF @ # None THEN @ ELSE m.anchor,
                                          !.last = IF @ > now THEN @ ELSE now]
    <2>1. m.id = s /\ m \in Session
      BY <1>3, Held, Labels DEF Touch, At, FilesOK
    <2>2. current \in Session /\ current.id = s
      BY <1>0, <2>1
    <2>3. marker' = [marker EXCEPT ![m.id] = touched]
      BY <1>3 DEF Touch
    <2>4. touched.id = s
      <3> HIDE DEF current, m
      <3> QED
        BY <2>2 DEF Session
    <2> HIDE DEF touched
    <2>5. marker'[s] = touched
      BY <2>1, <2>3 DEF FilesOK
    <2> QED
      BY <2>4, <2>5
  <1>4. CASE SetAnchor(p) /\ marker'[s] # marker[s]
    <2>1. marker[s] # None /\ marker'[s] = [marker[s] EXCEPT !.anchor = Wanted(p)]
      BY <1>4 DEF SetAnchor, FilesOK
    <2> QED
      BY <1>0, <2>1 DEF Session
  <1> QED
    BY <1>1, <1>2, <1>3, <1>4, MarkersArePublished

LEMMA HeadersKeepIds ==
    ASSUME Typed, Typed', Promised, Ids, NEW p \in Proc, Begin(p) \/ Step(p) \/ Fault(p),
           [J!Next]_log, NEW s \in Sid, Hydrates(log'[s])
    PROVE  Header(log'[s]).id = s
  <1> USE DEF Typed
  <1>0. log[s] \in Journal /\ log'[s] \in Journal /\ Extends(log'[s], log[s])
    BY WritesExtend DEF FilesOK
  <1>1. CASE log[s] # <<>>
    <2>1. 1 \in DOMAIN log[s]
      BY <1>0, <1>1 DEF Journal
    <2>2. log'[s][1] = log[s][1]
      BY <1>0, <2>1 DEF Extends
    <2> QED
      BY <1>1, <2>2 DEF Ids, Hydrates, Header
  <1>2. CASE log[s] = <<>>
    <2>1. log'[s] # log[s] /\ Writes(p)
      BY <1>2, OnlyWritersWrite DEF Hydrates
    <2>2. ASSUME NEW t, NEW r, log' = [log EXCEPT ![t] = Append(@, r)]
          PROVE  t = s /\ log'[s][1] = r
      BY <1>2, <2>1, <2>2 DEF FilesOK
    <2>3. ASSUME NEW t, WriteEnd(t)
          PROVE  FALSE
      <3> DEFINE a == Summary(Cardinality(Invocations(log[t])), seqf[t])
                 b == EndMark(seqf[t])
      <3>1. t = s /\ log'[s] = Append(Append(<<>>, a), b)
        BY <1>2, <2>1, <2>3 DEF WriteEnd, Closed, FilesOK
      <3>2. a.kind # "session_started"
        BY DEF Summary
      <3> HIDE DEF a, b
      <3>3. log'[s][1] = a
        BY <3>1
      <3> QED
        BY <3>2, <3>3 DEF Hydrates
    <2>4. CASE Retire(p) \/ RotateEnd(p) \/ EndSession(p) \/ RetirePrior(p)
      BY <2>3, <2>4 DEF Retire, RotateEnd, EndSession, RetirePrior
    <2>5. CASE WriteHeader(p)
      <3>1. Id(p) = s /\ log'[s][1] = Started(loc[p].sess)
        BY <2>2, <2>5 DEF WriteHeader, AppendRecord
      <3> QED
        BY <3>1 DEF Header, Started, Id
    <2>6. CASE WriteAnnotation(p) \/ WriteFeedback(p)
      <3>1. \A n : Annotation(n).kind # "session_started" /\ Feedback(n).kind # "session_started"
        BY DEF Annotation, Feedback
      <3>2. WriteAnnotation(p) => log'[s][1] = Annotation(loc[p].seq)
        BY <2>2 DEF WriteAnnotation, AppendRecord
      <3>3. WriteFeedback(p) => log'[s][1] = Feedback(loc[p].seq)
        <4>1. WriteFeedback(p) => log' = [log EXCEPT ![loc[p].cmd.sid] = Append(@, Feedback(loc[p].seq))]
          BY DEF WriteFeedback
        <4> QED
          BY <2>2, <4>1
      <3> QED
        BY <2>6, <3>1, <3>2, <3>3 DEF Hydrates
    <2>7. CASE FlushHeader(p)
      <3>1. loc[p].rec = s /\ log'[s][1] = SynthHeader(s)
        BY <2>1, <2>2, <2>7 DEF FlushHeader
      <3> QED
        BY <3>1 DEF Header, SynthHeader, Started
    <2>8. CASE FlushAppend(p)
      <3>1. Invocation(loc[p].seq).kind # "session_started"
        BY DEF Invocation
      <3>2. log'[s][1] = Invocation(loc[p].seq)
        BY <2>2, <2>8 DEF FlushAppend
      <3> QED
        BY <3>1, <3>2 DEF Hydrates
    <2> QED
      BY <2>1, <2>4, <2>5, <2>6, <2>7, <2>8 DEF Writes
  <1> QED
    BY <1>1, <1>2

LEMMA IdsStep ==
    ASSUME Typed, Typed', Promised, Ids, NEW p \in Proc, Begin(p) \/ Step(p) \/ Fault(p),
           [J!Next]_log, "torn" \notin Faults
    PROVE  Ids'
  <1> USE DEF Typed
  <1>0. \A q \in Proc : q # p => pc'[q] = pc[q] /\ loc'[q] = loc[q]
    BY OthersStay
  <1>1. counter \in Nat /\ \A q \in Proc : At(q, "publish") => Id(q) \in Nat
    <2>1. \A q \in Proc : At(q, "publish") => Id(q) \in Sid
      BY Held, Labels DEF At
    <2> QED
      BY <2>1, SizesAssumption DEF FilesOK, Sid
  \* What p publishes is seen from then on.
  <1>2. ASSUME Publish(p), NEW s \in Sid, Id(p) = s PROVE ~Unseen(s)'
    <2>1. counter' = counter /\ pc'[p] = "header" /\ s <= counter
      BY <1>2 DEF Publish, Goto, LocalsOK, Ids
    <2>2. \A q \in Proc : At(q, "publish")' => Id(q)' # s
      BY <1>0, <1>2, <2>1 DEF Ids, At, Id, Publish
    <2> QED
      BY <1>1, <2>1, <2>2 DEF Unseen, Making, Sid
  <1>3. ASSUME NEW s \in Sid, Shown(s)' PROVE ~Unseen(s)'
    BY <1>2, <1>3, ShownByWhoKnows, SeenStaysSeen DEF Ids
  <1>4. ASSUME NEW s \in Sid, marker'[s] # None PROVE marker'[s].id = s
    BY <1>4, MarkersKeepIds
  <1>5. ASSUME NEW s \in Sid, Hydrates(log'[s]) PROVE Header(log'[s]).id = s
    BY <1>5, HeadersKeepIds
  <1>6. ASSUME NEW q \in Proc, NEW s \in Sid, Mentions(q, s)' PROVE ~Unseen(s)'
    <2>1. CASE q = p
      BY <1>2, <1>6, <2>1, NamesStep, SeenStaysSeen DEF Ids
    <2>2. CASE q # p
      BY <1>0, <1>6, <2>2, SeenStaysSeen DEF Ids, Mentions
    <2> QED
      BY <2>1, <2>2
  <1>7. CASE Allocate(p)
    <2>1. ASSUME NEW q \in Proc, At(q, "publish")'
          PROVE  \/ q = p /\ Id(q)' = counter + 1
                 \/ q # p /\ At(q, "publish") /\ Id(q)' = Id(q) /\ Id(q) <= counter
      BY <1>0, <1>7, <2>1, TakesTheNext DEF At, Id, Ids
    <2>2. \A q, r \in Proc : At(q, "publish")' /\ At(r, "publish")' /\ Id(q)' = Id(r)' => q = r
      BY <1>1, <2>1 DEF Ids
    <2>3. \A q \in Proc : At(q, "publish")' => Id(q)' <= counter'
      BY <1>1, <1>7, <2>1, TakesTheNext
    <2> QED
      BY <1>3, <1>4, <1>5, <1>6, <2>2, <2>3 DEF Ids
  <1>8. CASE ~Allocate(p)
    <2>1. ASSUME NEW q \in Proc, At(q, "publish")'
          PROVE  At(q, "publish") /\ Id(q)' = Id(q)
      BY <1>0, <1>8, <2>1, OnlyAllocateTakes DEF At, Id
    <2>2. counter' = counter
      BY <1>8, OnlyAllocateTakes
    <2>3. \A q, r \in Proc : At(q, "publish")' /\ At(r, "publish")' /\ Id(q)' = Id(r)' => q = r
      BY <2>1 DEF Ids
    <2>4. \A q \in Proc : At(q, "publish")' => Id(q)' <= counter'
      BY <2>1, <2>2 DEF Ids
    <2> QED
      BY <1>3, <1>4, <1>5, <1>6, <2>3, <2>4 DEF Ids
  <1> QED
    BY <1>7, <1>8

LEMMA IdsInit == Init => Ids
  <1> SUFFICES ASSUME Init PROVE Ids
    OBVIOUS
  <1>1. \A p \in Proc : ~At(p, "publish") /\ loc[p] = Fresh
    BY DEF Init, At
  <1>2. \A p \in Proc, s \in Sid : ~Mentions(p, s)
    BY <1>1, SizesAssumption DEF Fresh, Mentions, Names, Sid
  <1>3. \A s \in Sid : ~Shown(s)
    BY DEF Init, Shown
  <1>4. \A s \in Sid : ~Hydrates(log[s])
    BY <1>3 DEF Shown, Hydrates
  <1> QED
    BY <1>1, <1>2, <1>3, <1>4 DEF Ids, Shown

LEMMA IdsNext ==
    ASSUME "torn" \notin Faults, Typed, Promised, Ids, [Next]_vars
    PROVE  Ids'
  <1>1. Typed' /\ [J!Next]_log
    BY TypedNext, StepsAreSteps
  <1>2. CASE Tick \/ UNCHANGED vars
    <2>1. marker' = marker /\ log' = log /\ counter' = counter /\ pc' = pc /\ loc' = loc
      BY <1>2 DEF Tick, vars, files
    <2> QED
      BY <2>1 DEF Ids, Shown, Unseen, Making, Mentions, At, Id
  <1> QED
    BY <1>1, <1>2, IdsStep DEF Next

\* A process that is about to publish a marker has an id with no marker and no journal,
\* and no other process has the same: allocate_session_id holds the counter's lock.
NewIdsAreNew ==
    \A p \in Proc : At(p, "publish") =>
        /\ marker[Id(p)] = None /\ log[Id(p)] = <<>>
        /\ \A q \in Proc : q # p /\ pc[q] # "publish" => ~Mentions(q, Id(p))
        /\ \A q \in Proc : At(q, "publish") /\ Id(q) = Id(p) => q = p

\* create_session begins a session nobody has heard of, however many processes begin one
\* at once, unless the counter's file is torn.
THEOREM IdsAreNew == ASSUME "torn" \notin Faults PROVE Spec => []NewIdsAreNew
  <1>1. Typed /\ Ids => NewIdsAreNew
    <2> SUFFICES ASSUME Typed, Ids, NEW p \in Proc, At(p, "publish")
                 PROVE  /\ marker[Id(p)] = None /\ log[Id(p)] = <<>>
                        /\ \A q \in Proc : q # p /\ pc[q] # "publish" => ~Mentions(q, Id(p))
                        /\ \A q \in Proc : At(q, "publish") /\ Id(q) = Id(p) => q = p
      BY DEF NewIdsAreNew
    <2>1. Id(p) \in Sid
      BY Held, Labels DEF Typed, At
    <2>2. Unseen(Id(p))
      BY DEF Unseen, Making
    <2> QED
      BY <2>1, <2>2 DEF Ids, Shown
  <1> QED
    BY <1>1, TypedInit, TypedNext, PromisedInit, PromisedNext, IdsInit, IdsNext, PTL DEF Spec

-----------------------------------------------------------------------------
(* Stale markers.  Each marker of an ended session is owed by a process:   *)
(* one about to clear it, or one that will flush into the session.  A      *)
(* command that ends sessions does not flush, but it looks at the markers  *)
(* after it has touched its own, and heals.  An error or a crash lets go   *)
(* of a debt, and so does `session resume`, which writes a marker from a   *)
(* header read before: the theorem is about the rest.  A counter that is   *)
(* torn is no such fault: its command has nothing left to clear.           *)

Stale(s) == marker[s] # None /\ Ended(log[s])

\* The scan that a retirement is part of.
Where(l, r) == IF l \in {"retire", "unlink"} THEN r.ret ELSE l
BodyScans == {"startCurrent", "startAll", "endCurrent", "noteCurrent"}

\* The scan of the body is past s, or has found the session of XDR_SESSION.
Looked(l, r, s) ==
    IF r.cmd.env # 0 /\ Where(l, r) # "startAll" THEN r.found # {}
    ELSE s \notin r.todo \/ r.seen = s

WillFlush(l, r, s) ==
    /\ r.rec = s /\ ~r.skip
    /\ \/ l \in {"body", "setAnchor", "feedback", "flush"} \cup FeedbackPc
       \/ l \in CreatePc /\ r.cmd.op = "start"
       \/ Where(l, r) \in BodyScans /\ ~Looked(l, r, s)
WillClear(l, r, s) == l \in ClearPc /\ r.sess.id = s
Owes(p, s) == WillFlush(pc[p], loc[p], s) \/ WillClear(pc[p], loc[p], s)

\* Where the lists of a scan are filled, and who has resolved to skip the flush; a command
\* with XDR_SESSION set has to do with that session only.
Steady(l, r) ==
    /\ Where(l, r) \notin ScanPc => r.todo = {}
    /\ r.seen # 0 => l \in ScanPc /\ r.seen \in r.todo
    /\ l # "resume"
    /\ Where(l, r) \in {"startCurrent", "startAll", "retirePrior", "clearPrior"} =>
          r.cmd.op = "start"
    /\ r.skip => \/ l \in {"end", "endClear", "retirePrior", "clearPrior", "flush"}
                 \/ l \in CreatePc /\ r.cmd.op = "start"
    /\ l # "idle" /\ r.cmd.env # 0 =>
         /\ r.rec \in {0, r.cmd.env}
         /\ Where(l, r) \in ScanPc \ {"startAll"} =>
               r.todo = {} /\ \A m \in r.found : m.id = r.cmd.env
         /\ l = "touch" => r.sess.id = r.cmd.env
         /\ l \notin {"rotateEnd", "rotateClear"}
         /\ l \in CreatePc => r.cmd.op = "start"

Calm == \A p \in Proc : Steady(pc[p], loc[p])
Paid == \A s \in Sid : Stale(s) => \E p \in Proc : Owes(p, s)

\* After a step of p, it owes what it owed and is still stale.
Settled(p) ==
    /\ Steady(pc'[p], loc'[p])
    /\ \A s \in Sid : Owes(p, s) /\ Stale(s) /\ Stale(s)' => Owes(p, s)'

NoResume == \A c \in Commands : c.op # "resume"

LEMMA GotoSettles ==
    ASSUME Typed, NEW p \in Proc, NEW l, NEW r, Goto(p, l, r), Steady(l, r),
           \A s \in Sid : Owes(p, s) /\ Stale(s) /\ Stale(s)' =>
                             WillFlush(l, r, s) \/ WillClear(l, r, s)
    PROVE  Settled(p)
  <1>1. pc'[p] = l /\ loc'[p] = r
    BY DEF Goto, Typed, LocalsOK
  <1>2. \A s : Owes(p, s)' <=> WillFlush(l, r, s) \/ WillClear(l, r, s)
    BY <1>1 DEF Owes, WillFlush, WillClear, Looked, Where
  <1> QED
    BY <1>1, <1>2 DEF Settled

\* Where nothing is owed.
LEMMA NoDebt ==
    ASSUME NEW p \in Proc,
           pc[p] \in {"idle", "callback", "hook", "touch", "rotateEnd", "retirePrior", "end",
                      "note"} \cup LockedPc
    PROVE  \A s : ~Owes(p, s)
  BY Labels DEF Owes, WillFlush, WillClear, Where, BodyScans, ClearPc

LEMMA ExitSettles ==
    ASSUME Typed, NEW p \in Proc, Exit(p),
           \A s \in Sid : Owes(p, s) /\ Stale(s) => ~Stale(s)'
    PROVE  Settled(p)
  <1>1. Steady("idle", Fresh)
    BY DEF Steady, Fresh, Where, ScanPc, CreatePc
  <1> QED
    BY <1>1, GotoSettles DEF Exit

LEMMA FlushSettles ==
    ASSUME Typed, NEW p \in Proc, ~At(p, "idle"), ToFlush(p), Steady(pc[p], loc[p]),
           \A s \in Sid : WillClear(pc[p], loc[p], s) => ~Stale(s)'
    PROVE  Settled(p)
  <1> DEFINE r == [Fresh EXCEPT !.cmd = loc[p].cmd, !.rec = loc[p].rec, !.skip = loc[p].skip]
  <1>1. /\ r.cmd = loc[p].cmd /\ r.rec = loc[p].rec /\ r.skip = loc[p].skip
        /\ r.todo = {} /\ r.seen = 0 /\ r.found = {}
    BY DEF Fresh
  <1> HIDE DEF r
  <1>2. Goto(p, "flush", r)
    BY DEF ToFlush, r
  <1>3. Steady("flush", r)
    BY <1>1, Labels DEF Steady, Where, At
  <1>4. \A s \in Sid : Owes(p, s) /\ Stale(s) /\ Stale(s)' => WillFlush("flush", r, s)
    BY <1>1 DEF Owes, WillFlush
  <1> QED
    BY <1>2, <1>3, <1>4, GotoSettles

\* A scan of the body begins after the touch: what is stale is among what it will look at.
LEMMA ScanSettles ==
    ASSUME Typed, Ids, NEW p \in Proc, Steady(pc[p], loc[p]), At(p, "body") \/ At(p, "startCurrent"),
           loc[p].todo = {}, NEW l \in BodyScans, NEW env \in {0, loc[p].cmd.env},
           env = 0 => loc[p].cmd.env = 0 \/ l = "startAll", env # 0 => l # "startAll",
           l \in {"startCurrent", "startAll"} => loc[p].cmd.op = "start",
           StartScan(p, l, env, loc[p])
    PROVE  Settled(p)
  <1> USE DEF Typed
  <1> DEFINE t == IF env = 0
                  THEN [loc[p] EXCEPT !.todo = {s \in Sid : marker[s] # None}, !.found = {}]
                  ELSE [loc[p] EXCEPT !.todo = {}, !.found = EnvSession(env)]
  <1>1. /\ t.cmd = loc[p].cmd /\ t.rec = loc[p].rec /\ t.skip = loc[p].skip
        /\ t.seen = loc[p].seen /\ t.sess = loc[p].sess
        /\ t.todo = IF env = 0 THEN {s \in Sid : marker[s] # None} ELSE {}
        /\ t.found = IF env = 0 THEN {} ELSE EnvSession(env)
    BY Held DEF Local
  <1>2. loc[p].seen = 0 /\ ~loc[p].skip
    BY Labels DEF Steady, At
  <1>3. env # 0 => env \in Sid /\ env = loc[p].cmd.env
    BY Held DEF Command, At
  <1>4. env # 0 => \A m \in EnvSession(env) : m.id = env
    BY <1>3, VisibleIsShown
  <1>5. loc[p].cmd.env # 0 => loc[p].rec \in {0, loc[p].cmd.env}
    BY DEF Steady, At
  <1>6. Goto(p, l, t)
    BY DEF StartScan
  <1> HIDE DEF t
  <1>7. Where(l, t) = l
    BY DEF Where, BodyScans
  <1>8. Steady(l, t)
    BY <1>1, <1>2, <1>3, <1>4, <1>5, <1>7, Labels DEF Steady, BodyScans
  <1>9. ASSUME NEW s \in Sid, Owes(p, s), Stale(s) PROVE WillFlush(l, t, s)
    <2>1. loc[p].rec = s /\ s # 0
      BY <1>9, Labels, SizesAssumption DEF Owes, WillFlush, WillClear, ClearPc, At, Sid
    <2>2. ~Looked(l, t, s)
      <3>1. CASE env = 0
        BY <1>1, <1>2, <1>7, <1>9, <2>1, <3>1 DEF Looked, Stale
      <3>2. CASE env # 0
        <4>1. env = s
          BY <1>3, <1>5, <2>1, <3>2
        <4>2. EnvSession(env) = {}
          BY <1>9, <4>1 DEF EnvSession, Stale
        <4> QED
          BY <1>1, <1>3, <1>7, <3>2, <4>2 DEF Looked
      <3> QED
        BY <3>1, <3>2
    <2> QED
      BY <1>1, <1>2, <1>7, <2>1, <2>2 DEF WillFlush
  <1> QED
    BY <1>6, <1>8, <1>9, GotoSettles

LEMMA ScanSteps ==
    ASSUME "fail" \notin Faults, Typed, Ids, NEW p \in Proc, Steady(pc[p], loc[p]), Scan(p)
    PROVE  Settled(p)
  <1> USE DEF Typed
  <1>0. loc[p] \in Local /\ (~At(p, "idle") => loc[p].cmd.env \in {0} \cup Sid)
    BY Held DEF Command
  <1>1. ASSUME NEW t \in Sid, Scanning(p, t) \/ Reading(p, t)
        PROVE  /\ pc[p] \in ScanPc /\ Where(pc[p], loc[p]) = pc[p] /\ ~At(p, "idle")
               /\ t \in loc[p].todo
               /\ loc[p].cmd.env # 0 => At(p, "startAll")
               /\ Reading(p, t) <=> loc[p].seen = t
               /\ t # 0
    BY <1>1, Labels, SizesAssumption DEF Scanning, Reading, Steady, Where, At, Sid
  \* Past a marker that is gone, that is not stale, or that it has looked at.
  <1>2. ASSUME NEW t \in Sid, Scanning(p, t) \/ Reading(p, t), NEW l, NEW r, Goto(p, l, r),
               l = pc[p] \/ (l = "retire" /\ r.ret = pc[p]),
               r.cmd = loc[p].cmd, r.rec = loc[p].rec, r.skip = loc[p].skip,
               r.todo = loc[p].todo \ {t}, r.seen = 0,
               r.found = loc[p].found \/ loc[p].cmd.env = 0 \/ At(p, "startAll"),
               Stale(t) /\ Stale(t)' => Reading(p, t)
        PROVE  Settled(p)
    <2>1. Where(l, r) = pc[p]
      BY <1>1, <1>2, Labels DEF Where
    <2>2. Steady(l, r)
      BY <1>1, <1>2, <2>1, Labels DEF Steady, At
    <2>3. ASSUME NEW s \in Sid, Owes(p, s), Stale(s), Stale(s)' PROVE WillFlush(l, r, s)
      <3>1. WillFlush(pc[p], loc[p], s)
        BY <1>1, <1>2, <2>3, Labels DEF Owes, WillClear, ClearPc
      <3>2. pc[p] \in BodyScans /\ ~Looked(pc[p], loc[p], s)
        BY <1>1, <1>2, <3>1, Labels DEF WillFlush, At
      <3>3. ~(loc[p].cmd.env # 0 /\ pc[p] # "startAll")
        BY <1>1, <1>2 DEF At
      <3>4. s \in loc[p].todo /\ loc[p].seen # s
        BY <1>1, <1>2, <3>2, <3>3 DEF Looked
      <3>5. s # t
        BY <1>1, <1>2, <2>3, <3>4
      <3>6. ~Looked(l, r, s)
        BY <1>2, <2>1, <3>3, <3>4, <3>5, SizesAssumption DEF Looked, Sid
      <3> QED
        BY <1>2, <2>1, <3>1, <3>2, <3>6 DEF WillFlush
    <2> QED
      BY <1>2, <2>2, <2>3, GotoSettles
  <1>3. ASSUME NEW t \in Sid
        PROVE  /\ Past(p, t).cmd = loc[p].cmd /\ Past(p, t).rec = loc[p].rec
               /\ Past(p, t).skip = loc[p].skip /\ Past(p, t).found = loc[p].found
               /\ Past(p, t).todo = loc[p].todo \ {t} /\ Past(p, t).seen = 0
               /\ Past(p, t) \in Local
    BY <1>0 DEF Past, Local
  <1>4. ASSUME NEW t \in Sid, ScanGone(p, t) \/ ScanHeal(p, t) \/ ScanNothing(p, t)
        PROVE  Settled(p)
    <2>1. Stale(t) /\ Stale(t)' => FALSE
      BY <1>4 DEF ScanGone, ScanHeal, ScanNothing, Stale, TryUnlink, Unlink, FilesOK, Visible
    <2> QED
      BY <1>2, <1>3, <1>4, <2>1 DEF ScanGone, ScanHeal, ScanNothing
  <1>5. ASSUME NEW t \in Sid, ScanExpired(p, t)
        PROVE  Settled(p)
    <2> DEFINE r == [Past(p, t) EXCEPT !.sess = Visible(t), !.ret = pc[p]]
    <2>1. /\ r.cmd = loc[p].cmd /\ r.rec = loc[p].rec /\ r.skip = loc[p].skip
          /\ r.found = loc[p].found /\ r.todo = loc[p].todo \ {t} /\ r.seen = 0
          /\ r.ret = pc[p]
      BY <1>3 DEF Local
    <2> HIDE DEF r
    <2>2. Goto(p, "retire", r) /\ Reading(p, t)
      BY <1>5 DEF ScanExpired, r
    <2> QED
      BY <1>2, <2>1, <2>2
  <1>6. ASSUME NEW t \in Sid, ScanActive(p, t)
        PROVE  Settled(p)
    <2> DEFINE r == [Past(p, t) EXCEPT !.found = @ \cup {Visible(t)}]
    <2>1. /\ r.cmd = loc[p].cmd /\ r.rec = loc[p].rec /\ r.skip = loc[p].skip
          /\ r.todo = loc[p].todo \ {t} /\ r.seen = 0
      BY <1>3 DEF Local
    <2> HIDE DEF r
    <2>2. Goto(p, pc[p], r) /\ Reading(p, t)
      BY <1>6 DEF ScanActive, r
    <2>3. loc[p].cmd.env = 0 \/ At(p, "startAll")
      BY <1>1, <2>2
    <2> QED
      BY <1>2, <2>1, <2>2, <2>3
  <1>7. ASSUME NEW t \in Sid, ScanLive(p, t)
        PROVE  Settled(p)
    <2> DEFINE r == [loc[p] EXCEPT !.seen = t]
    <2>1. /\ r.cmd = loc[p].cmd /\ r.rec = loc[p].rec /\ r.skip = loc[p].skip
          /\ r.todo = loc[p].todo /\ r.seen = t /\ r.found = loc[p].found
      BY <1>0 DEF Local
    <2> HIDE DEF r
    <2>2. Goto(p, pc[p], r) /\ Scanning(p, t) /\ ~Stale(t)
      BY <1>7 DEF ScanLive, r, Stale
    <2>3. Where(pc[p], r) = pc[p]
      BY <1>1, <2>2, Labels DEF Where
    <2>4. Steady(pc[p], r)
      BY <1>1, <2>1, <2>2, <2>3, Labels DEF Steady, At
    <2>5. ASSUME NEW s \in Sid, Owes(p, s), Stale(s) PROVE WillFlush(pc[p], r, s)
      <3>1. WillFlush(pc[p], loc[p], s)
        BY <1>1, <2>2, <2>5, Labels DEF Owes, WillClear, ClearPc
      <3> QED
        BY <1>1, <2>1, <2>2, <2>3, <2>5, <3>1 DEF WillFlush, Looked
    <2> QED
      BY <2>2, <2>4, <2>5, GotoSettles
  <1>8. CASE Retire(p)
    <2>1. Goto(p, "unlink", loc[p]) /\ pc[p] = "retire"
      BY <1>8 DEF Retire, At
    <2>2. Where("unlink", loc[p]) = Where(pc[p], loc[p])
      BY <2>1 DEF Where
    <2>3. Steady("unlink", loc[p])
      BY <2>1, <2>2, Labels DEF Steady
    <2>4. \A s \in Sid : Owes(p, s) => WillFlush("unlink", loc[p], s)
      BY <2>1, <2>2, Labels DEF Owes, WillFlush, WillClear, ClearPc, Looked
    <2> QED
      BY <2>1, <2>3, <2>4, GotoSettles
  <1>9. CASE RetireUnlink(p)
    <2> DEFINE r == [loc[p] EXCEPT !.sess = None, !.ret = "callback"]
    <2>1. /\ r.cmd = loc[p].cmd /\ r.rec = loc[p].rec /\ r.skip = loc[p].skip
          /\ r.todo = loc[p].todo /\ r.seen = loc[p].seen /\ r.found = loc[p].found
          /\ loc[p].ret \in ScanPc
      BY <1>0 DEF Local
    <2> HIDE DEF r
    <2>2. Goto(p, loc[p].ret, r) /\ pc[p] = "unlink" /\ Unlink(Id(p)) /\ Id(p) \in Sid
      BY <1>9, Held, Labels DEF RetireUnlink, TryUnlink, At, r
    <2>3. Where(loc[p].ret, r) = Where(pc[p], loc[p])
      BY <2>1, <2>2, Labels DEF Where
    <2>4. Steady(loc[p].ret, r)
      BY <2>1, <2>2, <2>3, Labels DEF Steady, Where
    <2>5. ASSUME NEW s \in Sid, Owes(p, s), Stale(s)' PROVE WillFlush(loc[p].ret, r, s)
      <3>1. WillFlush(pc[p], loc[p], s)
        BY <2>2, <2>5 DEF Owes, WillClear, Unlink, Stale, FilesOK, Id
      <3> QED
        BY <2>1, <2>2, <2>3, <3>1, Labels DEF WillFlush, Looked
    <2> QED
      BY <2>2, <2>4, <2>5, GotoSettles
  <1>10. CASE CallbackDone(p)
    <2> DEFINE n == RecOf(Active(p))
               r == [loc[p] EXCEPT !.rec = n, !.found = {}]
    <2>1. At(p, "callback") /\ loc[p].todo = {} /\ loc[p].seen = 0 /\ ~loc[p].skip
      BY <1>10, Labels DEF CallbackDone, Scanned, At, Steady
    <2>2. n \in {0} \cup Sid /\ (n = 0 \/ \E m \in loc[p].found : n = m.id)
      BY <1>0 DEF RecOf, Active, Sole, Local, Session
    <2> HIDE DEF n
    <2>3. /\ r.cmd = loc[p].cmd /\ r.rec = n /\ r.skip = FALSE /\ r.sess = loc[p].sess
          /\ r.todo = {} /\ r.seen = 0 /\ r.found = {} /\ r \in Local
      BY <1>0, <2>1, <2>2 DEF Local
    <2> HIDE DEF r
    <2>4. loc[p].cmd.env # 0 => n \in {0, loc[p].cmd.env}
      BY <2>1, <2>2, Labels DEF Steady, Where, At
    <2>5. CASE Goto(p, "flush", r)
      <3>1. Steady("flush", r)
        BY <2>3, <2>4, Labels DEF Steady, Where
      <3> QED
        BY <2>1, <2>5, <3>1, NoDebt, GotoSettles DEF At
    <2>6. CASE StartScan(p, "hook", loc[p].cmd.env, r)
      <3> DEFINE env == loc[p].cmd.env
                 t == IF env = 0
                      THEN [r EXCEPT !.todo = {x \in Sid : marker[x] # None}, !.found = {}]
                      ELSE [r EXCEPT !.todo = {}, !.found = EnvSession(env)]
      <3>1. /\ t.cmd = loc[p].cmd /\ t.rec = n /\ t.skip = FALSE /\ t.seen = 0
            /\ env # 0 => t.todo = {} /\ t.found = EnvSession(env)
        BY <2>3 DEF Local
      <3>2. env # 0 => \A m \in EnvSession(env) : m.id = env
        BY <1>0, <2>1, VisibleIsShown DEF At
      <3>3. Goto(p, "hook", t)
        BY <2>6 DEF StartScan
      <3> HIDE DEF t
      <3>4. Steady("hook", t)
        BY <2>4, <3>1, <3>2, Labels DEF Steady, Where
      <3> QED
        BY <2>1, <3>3, <3>4, NoDebt, GotoSettles DEF At
    <2> QED
      BY <1>10, <2>5, <2>6 DEF CallbackDone, r, n
  <1> QED
    BY <1>4, <1>5, <1>6, <1>7, <1>8, <1>9, <1>10 DEF Scan

LEMMA ResolveSteps ==
    ASSUME Typed, Ids, NEW p \in Proc, Steady(pc[p], loc[p]), Resolve(p)
    PROVE  Settled(p)
  <1> USE DEF Typed
  <1>0. loc[p] \in Local /\ (~At(p, "idle") => loc[p].cmd.env \in {0} \cup Sid)
    BY Held DEF Command
  <1>1. At(p, "hook") =>
           /\ ~loc[p].skip /\ loc[p].seen # 0 => loc[p].seen \in loc[p].todo
           /\ loc[p].cmd.env # 0 => loc[p].rec \in {0, loc[p].cmd.env}
                                    /\ \A m \in loc[p].found : m.id = loc[p].cmd.env
    BY Labels DEF Steady, Where, At
  <1>2. ASSUME Scanned(p, "hook"), NEW m \in loc[p].found, NEW n, n.id = m.id,
               NEW l \in {"touch", "rotateEnd"}, l = "rotateEnd" => loc[p].cmd.env = 0,
               Goto(p, l, [loc[p] EXCEPT !.sess = n, !.found = {}])
        PROVE  Settled(p)
    <2> DEFINE r == [loc[p] EXCEPT !.sess = n, !.found = {}]
    <2>1. /\ r.cmd = loc[p].cmd /\ r.rec = loc[p].rec /\ r.skip = loc[p].skip
          /\ r.todo = {} /\ r.seen = loc[p].seen /\ r.found = {} /\ r.sess = n
      BY <1>0, <1>2 DEF Local, Scanned
    <2> HIDE DEF r
    <2>2. r.seen = 0 /\ ~r.skip
      BY <1>1, <1>2, <2>1, Labels DEF Scanned, Steady, At
    <2>3. loc[p].cmd.env # 0 =>
             r.rec \in {0, r.cmd.env} /\ r.sess.id = r.cmd.env /\ l # "rotateEnd"
      BY <1>1, <1>2, <2>1 DEF Scanned
    <2>4. Steady(l, r)
      BY <2>1, <2>2, <2>3, Labels DEF Steady, Where
    <2> QED
      BY <1>2, <2>4, NoDebt, GotoSettles DEF Scanned, At, r
  <1>3. CASE AttachExplicit(p) \/ AttachMatch(p) \/ AttachSole(p) \/ StartRotation(p)
    <2>1. \A m \in loc[p].found : [m EXCEPT !.anchor = Wanted(p)].id = m.id
      BY <1>0 DEF Local, Session
    <2> QED
      BY <1>2, <1>3, <2>1
         DEF AttachExplicit, AttachMatch, AttachSole, StartRotation, Attach, Active
  <1>4. CASE StartAutomatic(p)
    <2>1. /\ Goto(p, "allocate", loc[p]) /\ At(p, "hook") /\ loc[p].todo = {}
          /\ loc[p].cmd.env = 0
      BY <1>4 DEF StartAutomatic, Scanned
    <2>2. Steady("allocate", loc[p])
      BY <1>1, <2>1, Labels DEF Steady, Where, At
    <2> QED
      BY <2>1, <2>2, NoDebt, GotoSettles DEF At
  <1>5. CASE Unattached(p)
    <2> DEFINE r == [loc[p] EXCEPT !.rec = 0, !.found = {}]
    <2>1. /\ r.cmd = loc[p].cmd /\ r.rec = 0 /\ r.skip = loc[p].skip
          /\ r.todo = {} /\ r.seen = loc[p].seen /\ At(p, "hook")
      BY <1>0, <1>5 DEF Local, Unattached, Scanned
    <2> HIDE DEF r
    <2>2. Goto(p, "body", r)
      BY <1>5 DEF Unattached, r
    <2>3. loc[p].todo = {} /\ r.seen = 0 /\ ~r.skip
      BY <1>1, <1>5, <2>1, Labels DEF Unattached, Scanned, Steady, At
    <2>4. Steady("body", r)
      BY <2>1, <2>3, Labels DEF Steady, Where
    <2> QED
      BY <2>1, <2>2, <2>4, NoDebt, GotoSettles DEF At
  <1>6. CASE Touch(p)
    <2> DEFINE r == [loc[p] EXCEPT !.sess = None, !.rec = loc[p].sess.id]
    <2>1. /\ r.cmd = loc[p].cmd /\ r.rec = loc[p].sess.id /\ r.skip = loc[p].skip
          /\ r.todo = loc[p].todo /\ r.seen = loc[p].seen /\ At(p, "touch")
      BY <1>0, <1>6 DEF Local, Touch
    <2> HIDE DEF r
    <2>2. Goto(p, "body", r)
      BY <1>6 DEF Touch, r
    <2>3. Steady("body", r)
      BY <2>1, Labels DEF Steady, Where, At
    <2> QED
      BY <2>1, <2>2, <2>3, NoDebt, GotoSettles DEF At
  <1>7. CASE RotateEnd(p)
    <2>1. Goto(p, "rotateClear", loc[p]) /\ At(p, "rotateEnd")
      BY <1>7 DEF RotateEnd
    <2>2. Steady("rotateClear", loc[p])
      BY <2>1, Labels DEF Steady, Where, At
    <2> QED
      BY <2>1, <2>2, NoDebt, GotoSettles DEF At
  <1>8. CASE RotateClear(p)
    <2> DEFINE r == [loc[p] EXCEPT !.sess = None]
    <2>1. /\ r.cmd = loc[p].cmd /\ r.rec = loc[p].rec /\ r.skip = loc[p].skip
          /\ r.todo = loc[p].todo /\ r.seen = loc[p].seen /\ At(p, "rotateClear")
      BY <1>0, <1>8 DEF Local, RotateClear
    <2> HIDE DEF r
    <2>2. Goto(p, "allocate", r) /\ Unlink(Id(p)) /\ Id(p) \in Sid
      BY <1>8, Held, Labels DEF RotateClear, At, r
    <2>3. Steady("allocate", r)
      BY <2>1, Labels DEF Steady, Where, At
    <2>4. \A s \in Sid : Owes(p, s) => ~Stale(s)'
      BY <2>1, <2>2, Labels
         DEF Owes, WillFlush, WillClear, Where, BodyScans, At, Unlink, Stale, FilesOK, Id
    <2> QED
      BY <2>2, <2>3, <2>4, GotoSettles
  <1> QED
    BY <1>3, <1>4, <1>5, <1>6, <1>7, <1>8 DEF Resolve

\* A process that is not scanning and goes on with the session it has.
LEMMA StraightOn ==
    ASSUME NEW p \in Proc, ~At(p, "idle"), Steady(pc[p], loc[p]),
           NEW l \in CreatePc \cup (BodyPc \ {"resume"}), NEW r,
           r.cmd = loc[p].cmd, r.rec = loc[p].rec, r.todo = {}, r.seen = 0,
           l \in {"retirePrior", "clearPrior"} \cup CreatePc => r.cmd.op = "start",
           r.skip => l \in {"end", "endClear", "retirePrior", "clearPrior"} \cup CreatePc
    PROVE  Steady(l, r)
  BY Labels DEF Steady, Where, At

\* A scan of the body that is complete and found something owes nothing any more.
LEMMA FoundOwesNone ==
    ASSUME Typed, NEW p \in Proc, Steady(pc[p], loc[p]), NEW l \in BodyScans, Scanned(p, l)
    PROVE  /\ loc[p].todo = {} /\ loc[p].seen = 0 /\ ~loc[p].skip /\ ~At(p, "idle")
           /\ loc[p].found # {} \/ l = "startAll" => \A s \in Sid : ~Owes(p, s)
  <1>1. pc[p] = l /\ loc[p].todo = {}
    BY DEF Scanned, At
  <1>2. loc[p].seen = 0 /\ ~loc[p].skip
    BY <1>1, Labels DEF Steady, BodyScans
  <1>3. ASSUME loc[p].found # {} \/ l = "startAll", NEW s \in Sid PROVE ~Owes(p, s)
    <2>1. Where(pc[p], loc[p]) = l /\ pc[p] \notin ClearPc
      BY <1>1 DEF Where, BodyScans, ClearPc
    <2>2. Looked(pc[p], loc[p], s)
      BY <1>1, <1>3, <2>1 DEF Looked
    <2> QED
      BY <1>1, <2>1, <2>2, Labels DEF Owes, WillFlush, WillClear, BodyScans
  <1> QED
    BY <1>1, <1>2, <1>3 DEF At, BodyScans

LEMMA CreateSteps ==
    ASSUME Typed, NEW p \in Proc, Steady(pc[p], loc[p]), Create(p)
    PROVE  Settled(p)
  <1> USE DEF Typed
  <1>0. loc[p] \in Local
    BY Held
  <1>1. ASSUME pc[p] \in CreatePc
        PROVE  /\ loc[p].todo = {} /\ loc[p].seen = 0 /\ ~At(p, "idle")
               /\ loc[p].skip => loc[p].cmd.op = "start"
               /\ loc[p].cmd.env # 0 => loc[p].cmd.op = "start"
               /\ \A s : Owes(p, s) => loc[p].rec = s /\ ~loc[p].skip /\ loc[p].cmd.op = "start"
    BY <1>1, Labels DEF Steady, Where, At, Owes, WillFlush, WillClear, ClearPc, BodyScans
  <1>2. ASSUME pc[p] \in CreatePc, NEW l \in CreatePc, NEW r, Goto(p, l, r),
               r.cmd = loc[p].cmd, r.rec = loc[p].rec, r.todo = loc[p].todo,
               r.seen = loc[p].seen, r.skip = loc[p].skip
        PROVE  Settled(p)
    <2>1. Steady(l, r)
      BY <1>1, <1>2, Labels DEF Steady, Where, At
    <2>2. \A s \in Sid : Owes(p, s) => WillFlush(l, r, s)
      BY <1>1, <1>2 DEF WillFlush
    <2> QED
      BY <1>2, <2>1, <2>2, GotoSettles
  <1>3. CASE Allocate(p)
    <2> DEFINE r == [loc[p] EXCEPT !.sess = NewSession(p, counter + 1)]
    <2>1. /\ r.cmd = loc[p].cmd /\ r.rec = loc[p].rec /\ r.todo = loc[p].todo
          /\ r.seen = loc[p].seen /\ r.skip = loc[p].skip
      BY <1>0 DEF Local
    <2> HIDE DEF r
    <2>2. Goto(p, "publish", r) /\ pc[p] = "allocate"
      BY <1>3 DEF Allocate, At, r
    <2> QED
      BY <1>2, <2>1, <2>2, Labels
  <1>4. CASE Publish(p)
    BY <1>2, <1>4, Labels DEF Publish, At
  <1>5. CASE WriteHeader(p)
    <2>1. pc[p] = "header"
      BY <1>5 DEF WriteHeader, At
    <2>2. CASE loc[p].cmd.op = "start"
      BY <1>1, <1>5, <2>1, <2>2, FlushSettles, Labels DEF WriteHeader, WillClear, ClearPc
    <2>3. CASE loc[p].cmd.op # "start"
      <3> DEFINE r == [loc[p] EXCEPT !.sess = None, !.rec = Id(p)]
      <3>1. /\ r.cmd = loc[p].cmd /\ r.todo = loc[p].todo
            /\ r.seen = loc[p].seen /\ r.skip = loc[p].skip
        BY <1>0 DEF Local
      <3> HIDE DEF r
      <3>2. Goto(p, "body", r)
        BY <1>5, <2>3 DEF WriteHeader, r
      <3>3. Steady("body", r)
        BY <1>1, <2>1, <2>3, <3>1, Labels DEF Steady, Where
      <3> QED
        BY <1>1, <2>1, <2>3, <3>2, <3>3, GotoSettles, Labels
    <2> QED
      BY <2>2, <2>3
  <1> QED
    BY <1>3, <1>4, <1>5 DEF Create

LEMMA RotateSteps ==
    ASSUME Typed, Ids, NEW p \in Proc, Steady(pc[p], loc[p]), Rotate(p)
    PROVE  Settled(p)
  <1> USE DEF Typed
  <1>0. loc[p] \in Local
    BY Held
  <1>1. CASE StartCommand(p)
    <2>1. At(p, "body") /\ loc[p].cmd.op = "start" /\ ~At(p, "idle")
      BY <1>1 DEF StartCommand, Body, At
    <2>2. loc[p].todo = {} /\ loc[p].seen = 0 /\ ~loc[p].skip
      BY <2>1, Labels DEF Steady, Where, At
    <2>3. \A s \in Sid : Owes(p, s) => loc[p].rec = s
      BY <2>1 DEF Owes, WillFlush, WillClear, ClearPc, At
    <2>4. CASE Goto(p, "allocate", loc[p])
      <3>1. Steady("allocate", loc[p])
        BY <2>1, <2>2, StraightOn, Labels
      <3>2. \A s \in Sid : Owes(p, s) => WillFlush("allocate", loc[p], s)
        BY <2>1, <2>2, <2>3, Labels DEF WillFlush
      <3> QED
        BY <2>4, <3>1, <3>2, GotoSettles
    <2>5. CASE StartScan(p, "startCurrent", loc[p].cmd.env, loc[p])
      BY <2>1, <2>2, <2>5, ScanSettles DEF BodyScans
    <2>6. CASE ToFlush(p)
      BY <2>1, <2>6, FlushSettles DEF WillClear, ClearPc, At
    <2> QED
      BY <1>1, <2>4, <2>5, <2>6 DEF StartCommand
  <1>2. ASSUME NEW l \in {"startCurrent", "startAll"}, Scanned(p, l),
               l = "startAll" \/ loc[p].found # {}, ToRotate(p)
        PROVE  Settled(p)
    <2> DEFINE r == [loc[p] EXCEPT !.skip = Active(p) # {}]
    <2>0. /\ r.cmd = loc[p].cmd /\ r.rec = loc[p].rec /\ r.todo = loc[p].todo
          /\ r.seen = loc[p].seen
      BY <1>0 DEF Local
    <2> HIDE DEF r
    <2>1. loc[p].todo = {} /\ loc[p].seen = 0 /\ ~loc[p].skip /\ ~At(p, "idle")
      BY <1>2, FoundOwesNone DEF BodyScans
    <2>2. \A s \in Sid : ~Owes(p, s)
      BY <1>2, FoundOwesNone DEF BodyScans
    <2>3. loc[p].cmd.op = "start"
      BY <1>2 DEF Steady, Scanned, At, Where
    <2>4. Steady("retirePrior", r)
      BY <2>0, <2>1, <2>3, StraightOn, Labels
    <2> QED
      BY <1>2, <2>2, <2>4, GotoSettles DEF ToRotate, r
  <1>3. CASE StartCurrentDone(p)
    <2>1. Scanned(p, "startCurrent") /\ loc[p].cmd.op = "start"
      BY <1>3 DEF StartCurrentDone, Steady, Scanned, At, Where
    <2>2. CASE NoCurrent(p)
      <3>1. StartScan(p, "startAll", 0, loc[p])
        BY <1>3, <2>2 DEF StartCurrentDone
      <3> QED
        BY <2>1, <3>1, ScanSettles DEF BodyScans, Scanned
    <2>3. CASE ~NoCurrent(p)
      <3>1. loc[p].found # {} /\ ToRotate(p)
        BY <1>3, <2>3 DEF StartCurrentDone, NoCurrent, Active
      <3> QED
        BY <1>2, <2>1, <3>1
    <2> QED
      BY <2>2, <2>3
  <1>4. CASE StartAllDone(p)
    BY <1>2, <1>4 DEF StartAllDone
  <1>5. CASE RetirePrior(p)
    <2>1. PICK m \in Active(p) :
            Goto(p, "clearPrior", [loc[p] EXCEPT !.found = @ \ {m}, !.sess = m])
      BY <1>5 DEF RetirePrior
    <2> DEFINE r == [loc[p] EXCEPT !.found = @ \ {m}, !.sess = m]
    <2>2. /\ r.cmd = loc[p].cmd /\ r.rec = loc[p].rec /\ r.todo = loc[p].todo
          /\ r.seen = loc[p].seen
      BY <1>0 DEF Local
    <2> HIDE DEF r
    <2>3. Goto(p, "clearPrior", r) /\ pc[p] = "retirePrior"
      BY <1>5, <2>1 DEF RetirePrior, At, r
    <2>4. r.todo = {} /\ r.seen = 0 /\ r.cmd.op = "start" /\ ~At(p, "idle")
      BY <2>2, <2>3, Labels DEF Steady, Where, At
    <2>5. Steady("clearPrior", r)
      BY <2>2, <2>4, StraightOn, Labels
    <2> QED
      BY <2>3, <2>5, NoDebt, GotoSettles
  <1>6. CASE ClearPrior(p)
    <2> DEFINE r == [loc[p] EXCEPT !.sess = None]
    <2>1. /\ r.cmd = loc[p].cmd /\ r.rec = loc[p].rec /\ r.todo = loc[p].todo
          /\ r.seen = loc[p].seen
      BY <1>0 DEF Local
    <2> HIDE DEF r
    <2>2. Goto(p, "retirePrior", r) /\ pc[p] = "clearPrior" /\ Unlink(Id(p)) /\ Id(p) \in Sid
      BY <1>6, Held, Labels DEF ClearPrior, At, r
    <2>3. r.todo = {} /\ r.seen = 0 /\ r.cmd.op = "start" /\ ~At(p, "idle")
      BY <2>1, <2>2, Labels DEF Steady, Where, At
    <2>4. Steady("retirePrior", r)
      BY <2>1, <2>3, StraightOn, Labels
    <2>5. \A s \in Sid : Owes(p, s) => ~Stale(s)'
      BY <2>2, Labels
         DEF Owes, WillFlush, WillClear, Where, BodyScans, Unlink, Stale, FilesOK, Id
    <2> QED
      BY <2>2, <2>4, <2>5, GotoSettles
  <1>7. CASE AllRetired(p)
    <2>1. Goto(p, "allocate", loc[p]) /\ pc[p] = "retirePrior"
      BY <1>7 DEF AllRetired, At
    <2>2. loc[p].todo = {} /\ loc[p].seen = 0 /\ loc[p].cmd.op = "start" /\ ~At(p, "idle")
      BY <2>1, Labels DEF Steady, Where, At
    <2>3. Steady("allocate", loc[p])
      BY <2>2, StraightOn, Labels
    <2> QED
      BY <2>1, <2>3, NoDebt, GotoSettles
  <1> QED
    BY <1>1, <1>3, <1>4, <1>5, <1>6, <1>7 DEF Rotate

LEMMA EndSteps ==
    ASSUME Typed, Ids, NEW p \in Proc, Steady(pc[p], loc[p]), End(p)
    PROVE  Settled(p)
  <1> USE DEF Typed
  <1>0. loc[p] \in Local
    BY Held
  <1>1. CASE EndCommand(p)
    <2>1. At(p, "body") /\ loc[p].todo = {}
      BY <1>1, Labels DEF EndCommand, Body, At, Steady, Where
    <2> QED
      BY <1>1, <2>1, ScanSettles DEF EndCommand, BodyScans
  <1>2. CASE EndRefused(p)
    BY <1>2, FlushSettles DEF EndRefused, Scanned, At, WillClear, ClearPc
  <1>3. CASE EndAccepted(p)
    <2>1. PICK m \in Active(p) :
            Goto(p, "end", [loc[p] EXCEPT !.sess = m, !.found = {}, !.skip = TRUE])
      BY <1>3 DEF EndAccepted
    <2> DEFINE r == [loc[p] EXCEPT !.sess = m, !.found = {}, !.skip = TRUE]
    <2>2. /\ r.cmd = loc[p].cmd /\ r.rec = loc[p].rec /\ r.todo = loc[p].todo
          /\ r.seen = loc[p].seen
      BY <1>0 DEF Local
    <2> HIDE DEF r
    <2>3. Scanned(p, "endCurrent") /\ loc[p].found # {} /\ Goto(p, "end", r)
      BY <1>3, <2>1 DEF EndAccepted, Active, r
    <2>4. loc[p].todo = {} /\ loc[p].seen = 0 /\ ~At(p, "idle") /\ \A s \in Sid : ~Owes(p, s)
      BY <2>3, FoundOwesNone DEF BodyScans
    <2>5. Steady("end", r)
      BY <2>2, <2>4, StraightOn, Labels
    <2> QED
      BY <2>3, <2>4, <2>5, GotoSettles
  <1>4. CASE EndSession(p)
    <2>1. pc[p] = "end" /\ ~At(p, "idle")
      BY <1>4 DEF EndSession, At
    <2>2. CASE ToFlush(p)
      BY <2>1, <2>2, FlushSettles DEF WillClear, ClearPc
    <2>3. CASE Goto(p, "endClear", loc[p])
      <3>1. loc[p].todo = {} /\ loc[p].seen = 0
        BY <2>1, Labels DEF Steady, Where
      <3>2. Steady("endClear", loc[p])
        BY <2>1, <3>1, StraightOn, Labels
      <3> QED
        BY <2>1, <2>3, <3>2, NoDebt, GotoSettles
    <2> QED
      BY <1>4, <2>2, <2>3 DEF EndSession
  <1>5. CASE EndClear(p)
    <2>1. pc[p] = "endClear" /\ ~At(p, "idle") /\ Unlink(Id(p)) /\ Id(p) \in Sid
      BY <1>5, Held, Labels DEF EndClear, At
    <2>2. \A s \in Sid : WillClear(pc[p], loc[p], s) => ~Stale(s)'
      BY <2>1 DEF WillClear, Unlink, Stale, FilesOK, Id
    <2> QED
      BY <1>5, <2>1, <2>2, FlushSettles DEF EndClear
  <1> QED
    BY <1>1, <1>2, <1>3, <1>4, <1>5 DEF End

LEMMA OthersSteps ==
    ASSUME Typed, Ids, NEW p \in Proc, Steady(pc[p], loc[p]), NoResume, Others(p)
    PROVE  Settled(p)
  <1> USE DEF Typed
  <1>0. loc[p] \in Local
    BY Held
  <1>1. ASSUME At(p, "body")
        PROVE  loc[p].todo = {} /\ loc[p].seen = 0 /\ ~loc[p].skip /\ ~At(p, "idle")
    BY <1>1, Labels DEF Steady, Where, At
  <1>2. ASSUME At(p, "body"), NEW l \in {"setAnchor", "feedback"}, Goto(p, l, loc[p])
        PROVE  Settled(p)
    <2>1. Steady(l, loc[p])
      BY <1>1, <1>2, StraightOn, Labels
    <2>2. \A s \in Sid : Owes(p, s) => WillFlush(l, loc[p], s)
      BY <1>2 DEF Owes, WillFlush, WillClear, ClearPc, At
    <2> QED
      BY <1>2, <2>1, <2>2, GotoSettles
  <1>3. ASSUME pc[p] \in {"body", "setAnchor", "noteCurrent", "note", "fbAppend"}, ToFlush(p)
        PROVE  Settled(p)
    BY <1>3, FlushSettles DEF WillClear, ClearPc, At
  <1>4. CASE RunCommand(p) \/ FeedbackCommand(p)
    BY <1>2, <1>3, <1>4 DEF RunCommand, FeedbackCommand, Body, At
  <1>5. CASE SetAnchor(p) \/ WriteAnnotation(p) \/ WriteFeedback(p)
    BY <1>3, <1>5 DEF SetAnchor, WriteAnnotation, WriteFeedback, At
  <1>6. CASE ResumeCommand(p) \/ Resume(p)
    <2>1. ~At(p, "resume") /\ (At(p, "body") => loc[p].cmd.op # "resume")
      BY Held DEF Steady, At, NoResume
    <2> QED
      BY <1>6, <2>1 DEF ResumeCommand, Resume, Body
  <1>7. CASE AnnotateCommand(p)
    <2>1. At(p, "body") /\ loc[p].todo = {}
      BY <1>1, <1>7 DEF AnnotateCommand, Body
    <2> QED
      BY <1>7, <2>1, ScanSettles DEF AnnotateCommand, BodyScans
  <1>8. CASE AnnotateRefused(p)
    <2>1. Scanned(p, "noteCurrent")
      BY <1>8 DEF AnnotateRefused
    <2>2. CASE NoCurrent(p)
      BY <1>3, <1>8, <2>1, <2>2 DEF AnnotateRefused, Scanned, At
    <2>3. CASE ~NoCurrent(p)
      <3>1. loc[p].found # {} /\ Exit(p)
        BY <1>8, <2>3 DEF AnnotateRefused, NoCurrent, Active
      <3> QED
        BY <2>1, <3>1, FoundOwesNone, ExitSettles DEF BodyScans
    <2> QED
      BY <2>2, <2>3
  <1>9. CASE AnnotateTarget(p)
    <2>0. PICK m \in Active(p) : \E n \in InvocationSeqs(log[m.id]) :
            Goto(p, "note", [loc[p] EXCEPT !.sess = m, !.found = {}, !.seq = n])
      BY <1>9 DEF AnnotateTarget
    <2>1. PICK n \in InvocationSeqs(log[m.id]) :
            Goto(p, "note", [loc[p] EXCEPT !.sess = m, !.found = {}, !.seq = n])
      BY <2>0
    <2> DEFINE r == [loc[p] EXCEPT !.sess = m, !.found = {}, !.seq = n]
    <2>2. /\ r.cmd = loc[p].cmd /\ r.rec = loc[p].rec /\ r.todo = loc[p].todo
          /\ r.seen = loc[p].seen /\ r.skip = loc[p].skip
      BY <1>0 DEF Local
    <2> HIDE DEF r
    <2>3. Scanned(p, "noteCurrent") /\ loc[p].found # {} /\ Goto(p, "note", r)
      BY <1>9, <2>1 DEF AnnotateTarget, Active, r
    <2>4. /\ loc[p].todo = {} /\ loc[p].seen = 0 /\ ~loc[p].skip /\ ~At(p, "idle")
          /\ \A s \in Sid : ~Owes(p, s)
      BY <2>3, FoundOwesNone DEF BodyScans
    <2>5. Steady("note", r)
      BY <2>2, <2>4, StraightOn, Labels
    <2> QED
      BY <2>3, <2>4, <2>5, GotoSettles
  <1>10. ASSUME pc[p] \in {"feedback"} \cup FeedbackPc, NEW l \in FeedbackPc, NEW r,
                Goto(p, l, r), r.cmd = loc[p].cmd, r.rec = loc[p].rec, r.todo = loc[p].todo,
                r.seen = loc[p].seen, r.skip = loc[p].skip
         PROVE  Settled(p)
    <2>1. Steady(l, r)
      BY <1>10, Labels DEF Steady, Where, At
    <2>2. \A s \in Sid : Owes(p, s) => WillFlush(l, r, s)
      BY <1>10, Labels DEF Owes, WillFlush, WillClear, ClearPc
    <2> QED
      BY <1>10, <2>1, <2>2, GotoSettles
  <1>11. CASE FeedbackEnter(p) \/ FeedbackNumber(p)
    BY <1>10, <1>11, Labels DEF FeedbackEnter, FeedbackNumber, At
  <1>12. CASE FeedbackBump(p)
    <2> DEFINE n == fbseq[loc[p].cmd.sid] + 1
               r == [loc[p] EXCEPT !.seq = n]
    <2>1. /\ r.cmd = loc[p].cmd /\ r.rec = loc[p].rec /\ r.todo = loc[p].todo
          /\ r.seen = loc[p].seen /\ r.skip = loc[p].skip
      BY <1>0 DEF Local
    <2> HIDE DEF r
    <2>2. Goto(p, "fbAppend", r) /\ pc[p] = "fbBump"
      BY <1>12 DEF FeedbackBump, At, r
    <2> QED
      BY <1>10, <2>1, <2>2, Labels
  <1> QED
    BY <1>4, <1>5, <1>6, <1>7, <1>8, <1>9, <1>11, <1>12 DEF Others

LEMMA FlushSteps ==
    ASSUME "fail" \notin Faults, Typed, Promised, NEW p \in Proc, Steady(pc[p], loc[p]), Flush(p)
    PROVE  Settled(p)
  <1> USE DEF Typed
  <1>0. loc[p] \in Local
    BY Held
  <1>1. ASSUME At(p, "flush"), NEW s \in Sid, Owes(p, s)
        PROVE  loc[p].rec = s /\ loc[p].rec # 0 /\ ~loc[p].skip
    BY <1>1, SizesAssumption DEF At, Owes, WillFlush, WillClear, ClearPc, Sid
  <1>2. CASE FlushNothing(p)
    BY <1>1, <1>2, ExitSettles DEF FlushNothing
  <1>3. CASE FlushDrop(p)
    <2>1. ASSUME NEW s \in Sid, Owes(p, s) PROVE ~Stale(s)'
      BY <1>1, <1>3, <2>1 DEF FlushDrop, Flushing, TryUnlink, Unlink, Stale, FilesOK
    <2> QED
      BY <1>3, <2>1, ExitSettles DEF FlushDrop
  <1>4. CASE FlushEnter(p)
    <2>1. /\ Goto(p, "number", loc[p]) /\ pc[p] = "flush" /\ ~Ended(log[loc[p].rec])
          /\ ~loc[p].skip
      BY <1>4 DEF FlushEnter, Flushing, At
    <2>2. Steady("number", loc[p])
      BY <2>1, Labels DEF Steady, Where
    <2>3. \A s \in Sid : Owes(p, s) => ~Stale(s)
      BY <1>1, <2>1 DEF Stale, At
    <2> QED
      BY <2>1, <2>2, <2>3, GotoSettles
  <1>5. ASSUME pc[p] \in LockedPc, NEW l \in LockedPc, NEW r, Goto(p, l, r),
               r.cmd = loc[p].cmd, r.rec = loc[p].rec, r.todo = loc[p].todo,
               r.seen = loc[p].seen, r.skip = loc[p].skip
        PROVE  Settled(p)
    <2>1. Steady(l, r)
      BY <1>5, Labels DEF Steady, Where
    <2> QED
      BY <1>5, <2>1, NoDebt, GotoSettles
  <1>6. CASE FlushNumber(p) \/ FlushHeader(p)
    BY <1>5, <1>6, Labels DEF FlushNumber, FlushHeader, At
  <1>7. CASE FlushBump(p)
    <2> DEFINE n == seqf[loc[p].rec] + 1
               r == [loc[p] EXCEPT !.seq = n]
    <2>1. /\ r.cmd = loc[p].cmd /\ r.rec = loc[p].rec /\ r.todo = loc[p].todo
          /\ r.seen = loc[p].seen /\ r.skip = loc[p].skip
      BY <1>0 DEF Local
    <2> HIDE DEF r
    <2>2. Goto(p, "synth", r) /\ pc[p] = "bump"
      BY <1>7 DEF FlushBump, At, r
    <2> QED
      BY <1>5, <2>1, <2>2, Labels
  <1>8. CASE FlushAppend(p)
    BY <1>8, NoDebt, ExitSettles, Labels DEF FlushAppend, At
  <1> QED
    BY <1>2, <1>3, <1>4, <1>6, <1>7, <1>8 DEF Flush

\* A counter torn with nothing owed, or on the way to the flush.
LEMMA TornSteps ==
    ASSUME Typed, NEW p \in Proc, Steady(pc[p], loc[p]), TornSeq(p) \/ TornFeedback(p),
           "crash" \notin Faults
    PROVE  Settled(p)
  <1>1. CASE TornSeq(p)
    BY <1>1, NoDebt, ExitSettles, Labels DEF TornSeq, At
  <1>2. CASE TornFeedback(p)
    <2>1. pc[p] = "fbBump" /\ ~At(p, "idle") /\ ToFlush(p)
      BY <1>2 DEF TornFeedback, Torn, At
    <2>2. \A s \in Sid : ~WillClear(pc[p], loc[p], s)
      BY <2>1 DEF WillClear, ClearPc
    <2> QED
      BY <2>1, <2>2, FlushSettles
  <1> QED
    BY <1>1, <1>2

LEMMA BeginSteps ==
    ASSUME Typed, Ids, NEW p \in Proc, Steady(pc[p], loc[p]), Begin(p)
    PROVE  Settled(p)
  <1> USE DEF Typed
  <1>1. PICK c \in Commands : StartScan(p, "callback", c.env, [Fresh EXCEPT !.cmd = c])
    BY DEF Begin
  <1> DEFINE t == IF c.env = 0
                  THEN [[Fresh EXCEPT !.cmd = c] EXCEPT
                          !.todo = {s \in Sid : marker[s] # None}, !.found = {}]
                  ELSE [[Fresh EXCEPT !.cmd = c] EXCEPT !.todo = {}, !.found = EnvSession(c.env)]
  <1>2. Goto(p, "callback", t)
    BY <1>1 DEF StartScan
  <1>3. /\ t.cmd = c /\ t.rec = 0 /\ t.skip = FALSE /\ t.seen = 0
        /\ c.env # 0 => t.todo = {} /\ t.found = EnvSession(c.env)
    BY DEF Fresh
  <1> HIDE DEF t
  <1>4. c.env # 0 => \A m \in EnvSession(c.env) : m.id = c.env
    BY CommandAssumption, VisibleIsShown DEF Command
  <1>5. Steady("callback", t)
    BY <1>3, <1>4, Labels DEF Steady, Where
  <1> QED
    BY <1>2, <1>5, NoDebt, GotoSettles DEF Begin, At

\* Only an end record ends a journal.
LEMMA AppendsEndNothing ==
    ASSUME NEW j \in Journal, NEW r, r.kind # "session_ended", Ended(Append(j, r))
    PROVE  Ended(j)
  <1>1. PICK i \in DOMAIN Append(j, r) : Append(j, r)[i].kind = "session_ended"
    BY DEF Ended
  <1>2. i \in DOMAIN j /\ j[i] = Append(j, r)[i]
    BY <1>1, Appended
  <1> QED
    BY <1>1, <1>2 DEF Ended

\* Who ends a session goes on to clear its marker.
LEMMA WhoEndsClears ==
    ASSUME Typed, NEW p \in Proc, Begin(p) \/ Step(p) \/ Fault(p), NEW s \in Sid,
           ~Ended(log[s]), Ended(log'[s])
    PROVE  WillClear(pc[p], loc[p], s)'
  <1> USE DEF Typed
  <1>0. loc[p] \in Local /\ log[s] \in Journal
    BY Held DEF FilesOK
  <1>1. ASSUME NEW t, WriteEnd(t) PROVE t = s
    BY <1>1 DEF WriteEnd, FilesOK
  <1>2. ASSUME NEW t, NEW r, log' = [log EXCEPT ![t] = Append(@, r)], r.kind # "session_ended"
        PROVE  FALSE
    <2>1. log'[s] = log[s] \/ log'[s] = Append(log[s], r)
      BY <1>2 DEF FilesOK
    <2> QED
      BY <1>0, <1>2, <2>1, AppendsEndNothing
  <1>3. ASSUME NEW l \in ClearPc, NEW r, Goto(p, l, r), r.sess.id = s
        PROVE  WillClear(pc[p], loc[p], s)'
    BY <1>3 DEF Goto, LocalsOK, WillClear
  <1>4. CASE Retire(p) \/ RotateEnd(p)
    <2>1. Id(p) = s
      BY <1>1, <1>4 DEF Retire, RotateEnd
    <2> QED
      BY <1>3, <1>4, <2>1 DEF Retire, RotateEnd, ClearPc, Id
  <1>5. CASE EndSession(p)
    <2>1. Id(p) = s
      BY <1>1, <1>5 DEF EndSession
    <2> QED
      BY <1>3, <1>5, <2>1 DEF EndSession, ClearPc, Id
  <1>6. CASE RetirePrior(p)
    <2>1. PICK m \in Active(p) : /\ WriteEnd(m.id)
                                 /\ Goto(p, "clearPrior", [loc[p] EXCEPT
                                                             !.found = @ \ {m}, !.sess = m])
      BY <1>6 DEF RetirePrior
    <2>2. [loc[p] EXCEPT !.found = @ \ {m}, !.sess = m].sess = m
      BY <1>0 DEF Local
    <2> QED
      BY <1>1, <1>3, <2>1, <2>2 DEF ClearPc
  <1>7. ~(WriteHeader(p) \/ WriteAnnotation(p) \/ WriteFeedback(p) \/ FlushAppend(p))
    <2>1. \A m, n : /\ Started(m).kind # "session_ended" /\ Annotation(n).kind # "session_ended"
                    /\ Feedback(n).kind # "session_ended" /\ Invocation(n).kind # "session_ended"
      BY DEF Started, Annotation, Feedback, Invocation
    <2>2. \A t, r : AppendRecord(t, r) => r.kind = "session_ended"
      BY <1>2 DEF AppendRecord
    <2>3. ~WriteHeader(p) /\ ~WriteAnnotation(p)
      BY <2>1, <2>2 DEF WriteHeader, WriteAnnotation
    <2>4. ASSUME FlushAppend(p) PROVE FALSE
      <3>1. log' = [log EXCEPT ![loc[p].rec] = Append(@, Invocation(loc[p].seq))]
        BY <2>4 DEF FlushAppend
      <3> QED
        BY <1>2, <2>1, <3>1
    <2>5. ASSUME WriteFeedback(p) PROVE FALSE
      <3>1. log' = [log EXCEPT ![loc[p].cmd.sid] = Append(@, Feedback(loc[p].seq))]
        BY <2>5 DEF WriteFeedback
      <3> QED
        BY <1>2, <2>1, <3>1
    <2> QED
      BY <2>3, <2>4, <2>5
  <1>8. ~FlushHeader(p)
    <2>1. SynthHeader(loc[p].rec).kind # "session_ended"
      BY DEF SynthHeader, Started
    <2> QED
      BY <1>2, <2>1 DEF FlushHeader
  <1> QED
    BY <1>4, <1>5, <1>6, <1>7, <1>8, OnlyWritersWrite DEF Writes

\* Who publishes a marker of an ended session will flush into it.
LEMMA WhoPublishesFlushes ==
    ASSUME Typed, Ids, NEW p \in Proc, Steady(pc[p], loc[p]),
           Begin(p) \/ Step(p) \/ Fault(p), NEW s \in Sid,
           Ended(log[s]), ~Stale(s), Stale(s)', log' = log
    PROVE  WillFlush(pc[p], loc[p], s)'
  <1> USE DEF Typed
  <1>0. loc[p] \in Local /\ marker[s] = None /\ marker'[s] # None
    BY Held DEF Stale
  <1>1. ~SetAnchor(p)
    BY <1>0 DEF SetAnchor, FilesOK
  <1>2. ~Resume(p)
    BY DEF Resume, At, Steady
  <1>3. ~Publish(p)
    <2>1. SUFFICES ASSUME Publish(p) PROVE FALSE
      OBVIOUS
    <2>2. Id(p) = s /\ At(p, "publish")
      BY <1>0, <2>1 DEF Publish, FilesOK
    <2>3. log[s] = <<>>
      BY <2>2 DEF Ids, Shown, Unseen, Making
    <2> QED
      BY <2>3 DEF Ended
  <1>4. CASE Touch(p)
    <2> DEFINE r == [loc[p] EXCEPT !.sess = None, !.rec = loc[p].sess.id]
    <2>1. r.rec = loc[p].sess.id /\ r.skip = loc[p].skip
      BY <1>0 DEF Local
    <2> HIDE DEF r
    <2>2. Goto(p, "body", r) /\ pc[p] = "touch"
      BY <1>4 DEF Touch, At, r
    <2>3. loc[p].sess.id = s
      BY <1>0, <1>4 DEF Touch, FilesOK
    <2>4. ~r.skip
      BY <2>1, <2>2, Labels DEF Steady
    <2>5. pc'[p] = "body" /\ loc'[p] = r
      BY <2>2 DEF Goto, LocalsOK
    <2> QED
      BY <2>1, <2>3, <2>4, <2>5 DEF WillFlush
  <1> QED
    BY <1>0, <1>1, <1>2, <1>3, <1>4, MarkersArePublished

LEMMA CalmPaidStep ==
    ASSUME Typed, Typed', Promised, Ids, Calm, Paid, NoResume, Faults \subseteq {"tornSeq"},
           [J!Next]_log, NEW p \in Proc, Begin(p) \/ Step(p) \/ Fault(p)
    PROVE  Calm' /\ Paid'
  <1>1. Begin(p) \/ Step(p) \/ TornSeq(p) \/ TornFeedback(p)
    BY DEF Fault, Fail, Crash, TornCounter
  <1>2. Steady(pc[p], loc[p])
    BY DEF Calm
  <1>3. Settled(p)
    BY <1>1, <1>2, BeginSteps, ScanSteps, ResolveSteps, CreateSteps, RotateSteps, EndSteps,
       OthersSteps, FlushSteps, TornSteps DEF Step
  <1>4. \A q \in Proc : q # p => pc'[q] = pc[q] /\ loc'[q] = loc[q]
    BY OthersStay
  <1>5. \A q \in Proc : Steady(pc'[q], loc'[q])
    BY <1>3, <1>4 DEF Calm, Settled
  <1>6. \A q \in Proc, s \in Sid : q # p /\ Owes(q, s) => Owes(q, s)'
    BY <1>4 DEF Owes, WillFlush, WillClear, Looked, Where
  <1>7. ASSUME NEW s \in Sid, Stale(s)' PROVE \E q \in Proc : Owes(q, s)'
    <2>1. CASE Stale(s)
      BY <1>3, <1>6, <1>7, <2>1 DEF Paid, Settled
    <2>2. CASE ~Stale(s) /\ ~Ended(log[s])
      BY <1>7, <2>2, WhoEndsClears DEF Stale, Owes
    <2>3. CASE ~Stale(s) /\ Ended(log[s])
      <3>1. marker[s] = None /\ marker'[s] # None
        BY <1>7, <2>3 DEF Stale
      <3>2. Publish(p) \/ Resume(p) \/ Touch(p) \/ SetAnchor(p)
        BY <3>1, MarkersArePublished
      <3>3. log' = log
        BY <3>2 DEF Publish, Resume, Touch, SetAnchor
      <3> QED
        BY <1>2, <1>7, <2>3, <3>3, WhoPublishesFlushes DEF Owes
    <2> QED
      BY <2>1, <2>2, <2>3
  <1> QED
    BY <1>5, <1>7 DEF Calm, Paid

LEMMA CalmPaidNext ==
    ASSUME NoResume, Faults \subseteq {"tornSeq"}, Typed, Promised, Ids, Calm, Paid, [Next]_vars
    PROVE  Calm' /\ Paid'
  <1>1. Typed' /\ [J!Next]_log
    BY TypedNext, StepsAreSteps
  <1>2. CASE Tick \/ UNCHANGED vars
    <2>1. marker' = marker /\ log' = log /\ pc' = pc /\ loc' = loc
      BY <1>2 DEF Tick, vars, files
    <2> QED
      BY <2>1 DEF Calm, Paid, Stale, Owes, WillFlush, WillClear, Looked, Where, Steady
  <1> QED
    BY <1>1, <1>2, CalmPaidStep DEF Next

LEMMA CalmPaidInit == Init => Calm /\ Paid
  <1> SUFFICES ASSUME Init PROVE Calm /\ Paid
    OBVIOUS
  <1>1. \A p \in Proc : Steady(pc[p], loc[p])
    <2>1. Steady("idle", Fresh)
      BY DEF Steady, Fresh, Where, ScanPc, CreatePc
    <2> QED
      BY <2>1 DEF Init
  <1>2. \A s \in Sid : ~Stale(s)
    BY DEF Init, Stale
  <1> QED
    BY <1>1, <1>2 DEF Calm, Paid

\* When every command has run to its end, the marker of an ended session is gone: who
\* ends it clears it, and who brings it back, not knowing, clears it in its own flush or
\* in the scan that made it skip the flush.  This is without `session resume`, and without
\* faults other than torn counters of a session.
THEOREM NoStaleLeft ==
    ASSUME Faults \subseteq {"tornSeq"}, NoResume
    PROVE  Spec => []NoStaleMarkerAtRest
  <1>1. Paid => NoStaleMarkerAtRest
    BY NoDebt DEF Paid, NoStaleMarkerAtRest, Stale, At
  <1>2. Typed /\ Promised /\ Ids /\ Calm /\ Paid /\ [Next]_vars => Ids' /\ Calm' /\ Paid'
    BY IdsNext, CalmPaidNext
  <1> QED
    BY <1>1, <1>2, TypedInit, TypedNext, PromisedInit, PromisedNext, IdsInit, CalmPaidInit, PTL
       DEF Spec
=============================================================================
