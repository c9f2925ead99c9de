-------------------------- MODULE MCReferenceLedger --------------------------
(* Command lines of schema init, of a reader and of results prune.         *)
EXTENDS ReferenceLedger, TLC

Line(op, sync, revalidate, queries) ==
    [op |-> op, options |-> "7d", sync |-> sync, revalidate |-> revalidate, queries |-> queries]

MCCommands ==
    {Line("init", FALSE, FALSE, 1), [Line("init", TRUE, TRUE, 0) EXCEPT !.options = "1d"],
     Line("read", FALSE, FALSE, 0), Line("prune", FALSE, FALSE, 0)}

ProcSymmetry == Permutations(Proc)
=============================================================================
