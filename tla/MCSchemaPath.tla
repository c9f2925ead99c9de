---------------------------- MODULE MCSchemaPath ----------------------------
(* Two tables with two identifiers each at the ends, one table in between   *)
(* with one; a direct relationship, a good detour, a parallel one and a     *)
(* way round through the source's other identifier.                         *)
EXTENDS SchemaPath

MCInterp == 1..5
MCTable(i) == CASE i \in {1, 2} -> "source" [] i = 3 -> "between" [] OTHER -> "target"

Edge(id, from, to, direction, kind, status, confidence) ==
    [id |-> id, source |-> from, target |-> to, direction |-> direction, kind |-> kind,
     status |-> status, confidence |-> confidence,
     cardinality |-> IF id % 2 = 0 THEN "many-to-one" ELSE "unknown",
     lossy |-> id = 3, timed |-> id # 4]

MCGraphs ==
    {{Edge(1, 1, 4, "forward", "correlation-only", s1, "high"),
      Edge(2, 1, 3, "both", "join-compatible", "observed", c2),
      Edge(3, 3, 4, d3, k3, s3, "medium"),
      Edge(4, 3, 5, "forward", "join-compatible", s4, "high"),
      Edge(5, 2, 1, d5, "semantic-equivalent", "reviewed", "high")} :
        s1 \in {"reviewed", "candidate", "deprecated"}, c2 \in {"low", "high"},
        d3 \in {"forward", "reverse"}, k3 \in {"join-compatible", "bridge"},
        s3 \in {"validated", "candidate"}, s4 \in {"reference-trusted", "candidate"},
        d5 \in {"both", "forward"}}

MCKnowledge ==
    {[i \in MCInterp |-> IF i = j THEN a ELSE "available"] :
        j \in {3, 4}, a \in {"available", "unobserved", "unavailable"}}

MCOptions ==
    [depth : {1, 2, 3}, paths : {1, 2}, expansions : {3, 100}, candidates : BOOLEAN,
     unavailable : BOOLEAN, source : {"source"}, target : {"target"}]
    \cup [depth : {2}, paths : {1}, expansions : {3}, candidates : {FALSE},
          unavailable : {FALSE}, source : {"source"}, target : {"unknown"}]
=============================================================================
