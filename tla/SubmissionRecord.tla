-------------------------- MODULE SubmissionRecord --------------------------
(***************************************************************************)
(* What an event-log collection promises about each log                    *)
(* (docs/live_response.md, "Nothing is ever resubmitted"): the record on   *)
(* disk says that a submission is coming before it is made, there is one   *)
(* at most, and the record only ever goes forward, to what is true.        *)
(***************************************************************************)
EXTENDS Naturals

CONSTANT Logs

VARIABLES
    entry,  \* the recorded state of each log
    sent,   \* how many jobs the service accepted for it
    over    \* whether the job ended, and how

Entries == {"none", "intended", "accepted", "completed", "failed"}

Init ==
    /\ entry = [l \in Logs |-> "none"]
    /\ sent = [l \in Logs |-> 0]
    /\ over = [l \in Logs |-> "no"]

Record(l, e) == entry' = [entry EXCEPT ![l] = e] /\ UNCHANGED <<sent, over>>

Intend(l) == entry[l] = "none" /\ sent[l] = 0 /\ Record(l, "intended")

Submit(l) ==
    /\ entry[l] = "intended" /\ sent[l] = 0
    /\ sent' = [sent EXCEPT ![l] = 1]
    /\ UNCHANGED <<entry, over>>

JobEnds(l, how) ==
    /\ sent[l] = 1 /\ over[l] = "no"
    /\ over' = [over EXCEPT ![l] = how]
    /\ UNCHANGED <<entry, sent>>

Accepted(l) == entry[l] = "intended" /\ sent[l] = 1 /\ Record(l, "accepted")

Rejected(l) == entry[l] = "intended" /\ sent[l] = 0 /\ Record(l, "failed")

Failed(l) == entry[l] = "accepted" /\ over[l] = "failed" /\ Record(l, "failed")

Completed(l) == entry[l] = "accepted" /\ over[l] = "succeeded" /\ Record(l, "completed")

Next ==
    \E l \in Logs :
        \/ Intend(l) \/ Submit(l) \/ Accepted(l) \/ Rejected(l) \/ Failed(l) \/ Completed(l)
        \/ \E how \in {"succeeded", "failed"} : JobEnds(l, how)

Spec == Init /\ [][Next]_<<entry, sent, over>>
=============================================================================
