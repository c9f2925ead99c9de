----------------------------- MODULE SchemaPath -----------------------------
(***************************************************************************)
(* xdr schema path (commands/schema_cmd.py) and the search it rests on,    *)
(* table_paths (schema_graph/traversal.py): a best-first search for routes *)
(* between the identifiers of two tables, bounded in hops, in routes       *)
(* returned and in states generated, which reports whether it saw          *)
(* everything.  The command searches twice, without and with unverified    *)
(* candidates, and says what it found.                                     *)
(*                                                                         *)
(* Interpretations and relationships are numbered in the order of their    *)
(* ids.  A graph, the availability of its fields and the command line are  *)
(* chosen once.                                                            *)
(***************************************************************************)
EXTENDS Integers, Sequences, FiniteSets, SequencesExt

CONSTANTS
    Interp,         \* interpretations of fields, by number
    Table(_),       \* the table of an interpretation's field
    Graphs,         \* sets of relationships
    Knowledge,      \* functions from Interp to what is known of the field
    Options         \* the two tables, depth, paths, expansions, candidates, unavailable

RelationshipKinds == {"join-compatible", "semantic-equivalent", "transform-required",
                      "bridge", "correlation-only"}
Statuses == {"validated", "observed", "reviewed", "reference-trusted", "candidate",
             "deprecated"}
Confidences == {"high", "medium", "low"}
Cardinalities == {"one-to-one", "one-to-many", "many-to-one", "many-to-many", "unknown"}
Relationships ==
    [id : Nat, source : Interp, target : Interp, direction : {"forward", "reverse", "both"},
     kind : RelationshipKinds, status : Statuses, confidence : Confidences,
     cardinality : Cardinalities, lossy : BOOLEAN, timed : BOOLEAN]
Availability == {"available", "unobserved", "unavailable"}

ASSUME PathAssumption ==
    /\ Interp \subseteq Nat
    /\ Graphs \subseteq SUBSET Relationships /\ \A g \in Graphs : IsFiniteSet(g)
    /\ \A g \in Graphs : \A r, s \in g : r.id = s.id => r = s
    /\ Knowledge \subseteq [Interp -> Availability]
    /\ Options \subseteq [depth : 1..12, paths : Nat \ {0}, expansions : Nat \ {0},
                          candidates : BOOLEAN, unavailable : BOOLEAN,
                          source : STRING, target : STRING]

VARIABLES
    graph, field, options,  \* what the command is about
    pass,                   \* the search under way: whether it takes candidates
    stage,                  \* "begin", "search" or "over"
    queue, found,           \* paths to extend, and routes found
    generated, exhausted,   \* states generated, and whether some were left out
    report                  \* what each search returned

input == <<graph, field, options>>
search == <<queue, found, generated, exhausted>>
pathVars == <<input, pass, stage, search, report>>

-----------------------------------------------------------------------------
(* Steps and their order.                                                  *)

Least(a, b) == IF a < b THEN a ELSE b
Most(a, b) == IF a < b THEN b ELSE a
Bit(b) == IF b THEN 1 ELSE 0

Directions(r) ==
    (IF r.direction # "reverse" THEN {<<r.source, r.target>>} ELSE {})
    \cup (IF r.direction # "forward" THEN {<<r.target, r.source>>} ELSE {})

EvidenceRank(r) ==
    CASE r.status = "validated" -> 0
      [] r.status = "observed" /\ r.confidence # "low" -> 1
      [] r.status = "observed" \/ r.status = "reviewed" -> 2
      [] r.status = "reference-trusted" -> 3
      [] OTHER -> 4

RelationWeight(r) ==
    CASE r.kind = "join-compatible" -> 0
      [] r.kind = "semantic-equivalent" -> 10
      [] r.kind = "transform-required" -> 20
      [] r.kind = "bridge" -> 30
      [] OTHER -> 40

ConfidencePenalty(r) ==
    CASE r.confidence = "high" -> 0 [] r.confidence = "medium" -> 5 [] OTHER -> 10

\* The same both ways: many-to-one is one-to-many backwards.
CardinalityPenalty(r) ==
    CASE r.cardinality = "one-to-one" -> 0
      [] r.cardinality \in {"one-to-many", "many-to-one"} -> 1
      [] r.cardinality = "many-to-many" -> 8
      [] OTHER -> 10

Queryable(i) == field[i] # "unavailable"
Blocked(s) == ~Queryable(s.from) \/ ~Queryable(s.to)
Unobserved(s) == Bit(field[s.from] = "unobserved") + Bit(field[s.to] = "unobserved")

\* GraphStep.rank.
StepRank(s) ==
    <<EvidenceRank(s.by), RelationWeight(s.by), Bit(s.by.lossy), CardinalityPenalty(s.by),
      Bit(Blocked(s)), Unobserved(s), ConfidencePenalty(s.by), Bit(~s.by.timed)>>

\* The steps of _adjacency.
Listed(r, candidates) ==
    r.status # "deprecated" /\ (candidates \/ r.status # "candidate")

Hop(r, d) == [from |-> d[1], to |-> d[2], by |-> r]

Usable(candidates) ==
    UNION {{s \in {Hop(r, d) : d \in Directions(r)} : options.unavailable \/ ~Blocked(s)} :
           r \in {r \in graph : Listed(r, candidates)}}

-----------------------------------------------------------------------------
(* Paths and their order: the steps, the interpretations visited and the   *)
(* rank, whose maxima and sums grow with each step.                        *)

NoRank == <<0, 0, 0, 0, 0, 0, 0, 0, 0>>
Nowhere(i) == [steps |-> <<>>, visited |-> {i}, rank |-> NoRank]

\* GraphPath.rank of a path and one more step.
Added(rank, s) ==
    <<Most(rank[1], EvidenceRank(s.by)), Most(rank[2], RelationWeight(s.by)),
      rank[3] + RelationWeight(s.by), rank[4] + 1, rank[5] + Bit(s.by.lossy),
      rank[6] + Bit(s.by.cardinality \in {"many-to-many", "unknown"}), rank[7] + Bit(Blocked(s)),
      rank[8] + ConfidencePenalty(s.by), rank[9] + Bit(~s.by.timed)>>

Extended(path, s) ==
    [steps |-> Append(path.steps, s), visited |-> path.visited \cup {s.to},
     rank |-> Added(path.rank, s)]

\* Tuples are compared from the left.
Before(a, b) ==
    \E n \in DOMAIN a \cap DOMAIN b : a[n] < b[n] /\ \A m \in 1..(n - 1) : a[m] = b[m]

\* The key of the heap and of the final sort.
Key(path) ==
    path.rank \o [n \in DOMAIN path.steps |-> path.steps[n].by.id]
              \o [n \in DOMAIN path.steps |-> path.steps[n].to]

\* The order in which steps are tried: by source, then as _adjacency sorts them.
Turn(path) ==
    <<path.steps[1].from>> \o StepRank(Last(path.steps)) \o <<Last(path.steps).by.id, Last(path.steps).to>>

-----------------------------------------------------------------------------
(* The search.                                                             *)

Sources == {i \in Interp : Table(i) = options.source}
Targets == {i \in Interp : Table(i) = options.target}

\* What goes on from a path without coming back to where it has been.
Extensions(path, from) ==
    {Extended(path, s) : s \in {s \in Usable(pass) : s.from = from /\ s.to \notin path.visited}}

\* The first n of them.
First(paths, n) ==
    {p \in paths : Cardinality({q \in paths : Before(Turn(q), Turn(p))}) < n}

\* enqueue, one after the other, until max_expansions were generated.
Enqueue(rest, paths) ==
    LET room == options.expansions - generated  taken == First(paths, room) IN
    /\ queue' = rest \cup taken
    /\ generated' = generated + Cardinality(taken)
    /\ exhausted' = (exhausted \/ taken # paths)

NoResult == [paths |-> {}, complete |-> FALSE, exhausted |-> FALSE]

PathInit ==
    /\ graph \in Graphs /\ field \in Knowledge /\ options \in Options
    /\ pass = FALSE /\ stage = "begin"
    /\ queue = {} /\ found = {} /\ generated = 0 /\ exhausted = FALSE
    /\ report = [c \in BOOLEAN |-> NoResult]

Begin ==
    /\ stage = "begin"
    /\ stage' = "search"
    /\ IF Sources = {} \/ Targets = {}
       THEN UNCHANGED search
       ELSE Enqueue({}, UNION {Extensions(Nowhere(i), i) : i \in Sources}) /\ UNCHANGED found
    /\ UNCHANGED <<input, pass, report>>

Enough == Cardinality(found) > options.paths

\* heappop.
Next1(p) == p \in queue /\ \A q \in queue \ {p} : Before(Key(p), Key(q))

Reach(p) ==
    /\ Last(p.steps).to \in Targets
    /\ found' = found \cup {p}
    /\ queue' = queue \ {p}
    /\ UNCHANGED <<generated, exhausted>>

\* Variant: any extension that is not the way back.
ExpandDeeper(p) ==
    /\ Last(p.steps).to \notin Targets
    /\ Enqueue(queue \ {p},
               IF Len(p.steps) <= options.depth THEN Extensions(p, Last(p.steps).to) ELSE {})
    /\ UNCHANGED found

Expand(p) ==
    /\ Last(p.steps).to \notin Targets
    /\ Enqueue(queue \ {p},
               IF Len(p.steps) < options.depth THEN Extensions(p, Last(p.steps).to) ELSE {})
    /\ UNCHANGED found

Pop ==
    /\ stage = "search" /\ ~Enough
    /\ \E p \in queue : Next1(p) /\ (Reach(p) \/ Expand(p))
    /\ UNCHANGED <<input, pass, stage, report>>

\* found[:max_paths] after the final sort.
Best == {p \in found : Cardinality({q \in found : Before(Key(q), Key(p))}) < options.paths}

\* Variant: states left out do not count if something was found.
CompleteIfFound == (~exhausted \/ found # {}) /\ ~Enough

Complete == ~exhausted /\ ~Enough

\* The search ends; the command goes on to the one with candidates, or to its report.
Return ==
    /\ stage = "search" /\ (queue = {} \/ Enough)
    /\ report' = [report EXCEPT ![pass] =
                     [paths |-> {p.steps : p \in Best}, complete |-> Complete,
                      exhausted |-> exhausted]]
    /\ queue' = {} /\ found' = {} /\ generated' = 0 /\ exhausted' = FALSE
    /\ pass' = TRUE /\ stage' = IF pass THEN "over" ELSE "begin"
    /\ UNCHANGED input

\* outcome of schema_path.
Result == report[options.candidates]
CandidateOnly == report[TRUE].paths # {} /\ report[FALSE].paths = {}

Outcome ==
    CASE Result.paths # {} -> "routes-found"
      [] Result.paths = {} /\ ~Result.complete -> "search-incomplete"
      [] Result.paths = {} /\ Result.complete /\ CandidateOnly -> "candidate-only"
      [] OTHER -> "disconnected"

PathNext == Begin \/ Pop \/ Return

PathSpec == PathInit /\ [][PathNext]_pathVars /\ WF_pathVars(PathNext)

-----------------------------------------------------------------------------
(* What routes there are, said of the graph and not of the search: chains  *)
(* of usable steps from a source to the first target on the way, through   *)
(* different interpretations.                                              *)

Chains(candidates) == UNION {[1..n -> Usable(candidates)] : n \in 1..options.depth}

IsRoute(w) ==
    LET end == Len(w)
        Node(n) == IF n = 0 THEN w[1].from ELSE w[n].to
    IN
    /\ w[1].from \in Sources
    /\ \A n \in 1..end : w[n].from = Node(n - 1)
    /\ \A n \in 1..end : w[n].to \in Targets <=> n = end
    /\ \A n, m \in 0..end : Node(n) = Node(m) => n = m

Routes(candidates) == {w \in Chains(candidates) : IsRoute(w)}

\* GraphPath.rank and the ids, of a finished route.
Place(w) ==
    LET rank[n \in 0..Len(w)] == IF n = 0 THEN NoRank ELSE Added(rank[n - 1], w[n])
    IN  rank[Len(w)] \o [n \in DOMAIN w |-> w[n].by.id] \o [n \in DOMAIN w |-> w[n].to]

\* A search that left nothing out returns the best routes there are, as many as were asked
\* for, although it stops one route after that many and never ranks the rest (table_paths: path rank
\* is monotone as hops are appended); and whatever else it returns are routes.
RoutesAreBest ==
    stage = "over" =>
        \A c \in BOOLEAN :
            LET all == Routes(c)  given == report[c].paths IN
            /\ given \subseteq all
            /\ ~report[c].exhausted =>
                 /\ Cardinality(given) = Least(options.paths, Cardinality(all))
                 /\ \A w \in given, x \in all \ given : Before(Place(w), Place(x))

\* What the command concludes is so of the graph, whatever the limits were: a search called
\* complete missed no route, tables called disconnected have none of the kind asked for, and
\* candidate-only means that every route rests on a candidate and one exists (search_complete;
\* outcome of schema_path).  Without --include-candidates, disconnected says nothing of routes
\* over candidates: the search for those may have been cut short, which is not shown.
ReportIsTrue ==
    stage = "over" =>
        /\ \A c \in BOOLEAN : report[c].complete => report[c].paths = Routes(c)
        /\ Outcome = "disconnected" => Routes(options.candidates) = {}
        /\ Outcome = "candidate-only" => Routes(FALSE) = {} /\ Routes(TRUE) # {}
        /\ Outcome = "routes-found" => Routes(options.candidates) # {}
=============================================================================
