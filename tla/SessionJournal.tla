--------------------------- MODULE SessionJournal ---------------------------
(***************************************************************************)
(* What the journals of sessions.py promise their readers, with no         *)
(* processes, locks, markers or counters: a journal only grows, by one     *)
(* line or by the closing pair; it is closed once, with the tally of what  *)
(* it holds; after that it takes remarks but no invocation.                *)
(***************************************************************************)
EXTENDS SessionRecords

VARIABLE log

Init == log = [s \in Sid |-> <<>>]

\* The line a step adds to journal s, when it adds one.
Line(s) == log'[s][Len(log[s]) + 1]
AddsLine(s, kind) ==
    /\ Len(log'[s]) = Len(log[s]) + 1
    /\ Line(s).kind = kind
    /\ log' = [log EXCEPT ![s] = Append(@, Line(s))]

\* A header: the creator's, or the one a flush makes up for an empty journal.
Open(s) == AddsLine(s, "session_started")

\* An invocation goes into a journal that can be loaded and is not closed.
RecordInvocation(s) ==
    /\ ~Ended(log[s])
    /\ Hydrates(log[s])
    /\ AddsLine(s, "invocation")

\* The journal is closed with the number of its invocations.
Close(s) ==
    /\ ~Ended(log[s])
    /\ Len(log'[s]) = Len(log[s]) + 2
    /\ log' = [log EXCEPT ![s] = Closed(@, Line(s).final)]

\* A remark on an invocation of this journal, at any time.
Remark(s) ==
    /\ AddsLine(s, "annotation")
    /\ Line(s).refers \in InvocationSeqs(log[s])

\* An assessment of a session that can be loaded, at any time.
Assess(s) ==
    /\ Hydrates(log[s])
    /\ AddsLine(s, "session_feedback")

Next == \E s \in Sid : Open(s) \/ RecordInvocation(s) \/ Close(s) \/ Remark(s) \/ Assess(s)

Spec == Init /\ [][Next]_log
=============================================================================
