--------------------------- MODULE MCSessionStore ---------------------------
(* Instances of SessionStore for TLC: the command lines of each run.       *)
EXTENDS SessionStore, TLC

Plain == [op |-> "hunt", env |-> 0, sid |-> 0, anchor |-> None, concurrent |-> FALSE]

Show(a) == [Plain EXCEPT !.anchor = a]
Browse == [Plain EXCEPT !.op = "browse"]
Start == [Plain EXCEPT !.op = "start"]
StartConcurrent == [Start EXCEPT !.concurrent = TRUE]
EndIt == [Plain EXCEPT !.op = "end"]
ResumeIt(s) == [Plain EXCEPT !.op = "resume", !.sid = s]
Annotate == [Plain EXCEPT !.op = "annotate"]
FeedbackOn(s) == [Plain EXCEPT !.op = "feedback", !.sid = s]
In(s, c) == [c EXCEPT !.env = s]

MCLifecycle == {Show(a) : a \in Anchor} \cup {EndIt, Annotate, ResumeIt(1), FeedbackOn(1)}
MCProgress == {Start, StartConcurrent, EndIt, In(1, Browse), FeedbackOn(1)}

RunSymmetry == Permutations(Proc) \cup Permutations(Anchor)
=============================================================================
