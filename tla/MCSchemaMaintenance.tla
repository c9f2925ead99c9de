------------------------- MODULE MCSchemaMaintenance -------------------------
(* Command lines of session end, schema refresh and auth.                   *)
EXTENDS SchemaMaintenance, TLC

Line(op) == [op |-> op, refresh |-> TRUE, explore |-> op = "end"]

MCCommands ==
    {Line(op) : op \in {"end", "refresh", "get", "login", "logout"}}
=============================================================================
