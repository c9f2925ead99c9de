--------------------------- MODULE SessionRecords ---------------------------
(***************************************************************************)
(* The records of a session journal (~/.xdr-cli/sessions/<id>.jsonl) and   *)
(* what sessions.py reads out of one.  A journal is the sequence of the    *)
(* JSON lines of the file; of a line the module keeps its kind and the     *)
(* fields another part of the program reads back.                          *)
(***************************************************************************)
EXTENDS Integers, Sequences, FiniteSets

CONSTANTS
    None,       \* JSON null, a missing file, no lock holder
    Anchor,     \* the incident ids a session may be anchored to
    MaxSid,     \* session ids are 1..MaxSid: the n of "<initials>-<n>"
    MaxNow      \* the clock stops here

ASSUME SizesAssumption == MaxSid \in Nat \ {0} /\ MaxNow \in Nat

Sid == 1..MaxSid
Time == 0..MaxNow

\* The fields of the Session dataclass that steer resolution: identity, origin,
\* incident anchor and last activity.
Session == [id: Sid, auto: BOOLEAN, anchor: Anchor \cup {None}, last: Time]

ASSUME NoneAssumption == None \notin Session

\* The lines the writers of sessions.py append.
Started(m)        == [kind |-> "session_started", sess |-> m]
Invocation(n)     == [kind |-> "invocation", seq |-> n]
Summary(count, n) == [kind |-> "session_summary", count |-> count, final |-> n]
EndMark(n)        == [kind |-> "session_ended", final |-> n]
Annotation(n)     == [kind |-> "annotation", refers |-> n]
Feedback(n)       == [kind |-> "session_feedback", fseq |-> n]

Record ==
    [kind: {"session_started"}, sess: Session]
      \cup [kind: {"invocation"}, seq: Nat]
      \cup [kind: {"session_summary"}, count: Nat, final: Nat]
      \cup [kind: {"session_ended"}, final: Nat]
      \cup [kind: {"annotation"}, refers: Nat]
      \cup [kind: {"session_feedback"}, fseq: Nat]

Journal == Seq(Record)

\* _already_ended_unlocked: some line is a session_ended record.
Ended(journal) == \E i \in DOMAIN journal : journal[i].kind = "session_ended"

\* _hydrate_from_jsonl: only a session_started record on the FIRST line counts.
Hydrates(journal) == journal # <<>> /\ journal[1].kind = "session_started"
Header(journal) == journal[1].sess

\* The positions of the invocation lines, and the seqs they carry.
Invocations(journal) == {i \in DOMAIN journal : journal[i].kind = "invocation"}
InvocationSeqs(journal) == {journal[i].seq : i \in Invocations(journal)}

\* What write_session_end_record makes of a journal, in one write: the summary with the
\* invocations counted in the file and the seq counter n, then the end record.
Closed(journal, n) ==
    Append(Append(journal, Summary(Cardinality(Invocations(journal)), n)), EndMark(n))

\* _session_expired, for a marker or header m read at time t.
Expired(m, t, idleLimit) == t >= m.last + idleLimit
=============================================================================
