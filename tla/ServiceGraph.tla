---------------------------- MODULE ServiceGraph ----------------------------
(***************************************************************************)
(* The table service_map.dependencies and the function                     *)
(* read_cloudwatch_service_dependencies                                    *)
(* (src/src/service_dependencies.cpp): the services X-Ray saw in a window  *)
(* arrive in pages, and an edge names its target by a reference id that a  *)
(* page yet to come may define.                                            *)
(***************************************************************************)
EXTENDS Selections

CONSTANTS
  Graphs,   \* the graphs to look at: sequences of what X-Ray knows of a service
  NoId,     \* an absent ReferenceId, absent statistics
  Times,    \* the settings of start_time and end_time to look at
  MaxMs,    \* the last millisecond of TIMESTAMP_NS
  Vector,   \* STANDARD_VECTOR_SIZE
  StartNow, \* the clock when the statement begins
  MaxNow    \* bound on the clock

\* What X-Ray knows of an edge and of a service, without what is just copied.
KnownEdge == [id : {NoId} \cup Nat, aliases : Seq(STRING), total : {NoId} \cup Nat]
KnownService == [id : {NoId} \cup Nat, name : STRING, at : Nat, edges : Seq(KnownEdge)]

GraphAssumption ==
  /\ Graphs \subseteq Seq(KnownService)
  /\ StartNow \in Nat /\ MaxNow \in Nat /\ MaxMs \in Nat /\ Vector \in Nat \ {0}

VARIABLES
  known,      \* the service: what X-Ray knows
  now_ms,     \* the clock
  start_time, end_time, \* the settings
  phase,      \* of the statement
  start_ms, end_ms,     \* ServiceDependenciesGlobalState.start_ms and end_ms
  services,   \* LoadGraph's services
  next_token, \* its next_token; 0 if empty
  seen_tokens,
  edges,      \* ServiceDependenciesGlobalState.rows
  out         \* the rows given to DuckDB

vars == <<known, now_ms, start_time, end_time, phase, start_ms, end_ms,
          services, next_token, seen_tokens, edges, out>>

Init ==
  /\ known \in Graphs /\ now_ms = StartNow
  /\ start_time \in Times /\ end_time \in Times
  /\ phase = "begin" /\ start_ms = 0 /\ end_ms = 0
  /\ services = << >> /\ next_token = 0 /\ seen_tokens = {}
  /\ edges = << >> /\ out = << >>

\* The clock moves while the statement runs.
Tick ==
  /\ now_ms < MaxNow
  /\ now_ms' = now_ms + 1
  /\ UNCHANGED <<known, start_time, end_time, phase, start_ms, end_ms,
                 services, next_token, seen_tokens, edges, out>>

----------------------------------------------------------------------------
(* The window.                                                             *)

Invalid == -1

\* `now', a negative magnitude, its unit multiplied out, or not relative.
ParseRelativeTime(value, now) ==
  CASE value.form = "now"                     -> now
    [] value.form = "ago" /\ value.ms <= now  -> now - value.ms
    [] OTHER                                  -> Invalid

\* A number of milliseconds or a timestamp is itself; what neither function
\* reads, an offset beyond the epoch included, throws.
ParseTime(value, now) ==
  IF value.form = "at" THEN value.ms ELSE ParseRelativeTime(value, now)

\* ServiceDependenciesInit reads the clock once for both ends.
BeginScan ==
  /\ phase = "begin"
  /\ start_ms' = ParseTime(start_time, now_ms)
  /\ end_ms' = ParseTime(end_time, now_ms)
  /\ phase' = IF \/ Invalid \in {start_ms', end_ms'} \/ start_ms' > end_ms'
                 \/ start_ms' > MaxMs \/ end_ms' > MaxMs
              THEN "failed" ELSE "loading"
  /\ UNCHANGED <<known, now_ms, start_time, end_time, services, next_token,
                 seen_tokens, edges, out>>

----------------------------------------------------------------------------
(* The pages.                                                              *)

\* What X-Ray saw in a window, in its order.
Seen(from, to) == Kept(known, {i \in DOMAIN known : from <= known[i].at /\ known[i].at <= to})

\* A page of any length, empty ones included; its token is the number of
\* services given so far, counted from one so that none is 0.  The last page's
\* token is empty, or one that X-Ray has given before.
GetServiceGraph(request) ==
  LET seen == Seen(request.start_ms, request.end_ms)
      from == IF request.token = 0 THEN 0 ELSE request.token - 1
      page(n) == SubSeq(seen, from + 1, n)
      fresh == {n \in from .. Len(seen) : n + 1 \notin seen_tokens}
  IN {[page |-> page(n), token |-> n + 1] : n \in fresh}
     \cup {[page |-> page(Len(seen)), token |-> t] : t \in seen_tokens \cup {0}}

ParseEdge(edge) ==
  [has_reference_id |-> edge.id # NoId,
   reference_id |-> IF edge.id = NoId THEN 0 ELSE edge.id,
   alias_name |-> IF edge.aliases = << >> THEN "" ELSE Head(edge.aliases),
   has_statistics |-> edge.total # NoId,
   request_count |-> IF edge.total = NoId THEN 0 ELSE edge.total]

ParseService(service) ==
  [has_reference_id |-> service.id # NoId,
   reference_id |-> IF service.id = NoId THEN 0 ELSE service.id,
   name |-> service.name,
   edges |-> [i \in DOMAIN service.edges |-> ParseEdge(service.edges[i])]]

ParseServiceGraphResponse(page) == [i \in DOMAIN page |-> ParseService(page[i])]

\* Mutant: the window is computed anew for each page.
BuildServiceGraphRequestNow(token) ==
  [start_ms |-> ParseTime(start_time, now_ms), end_ms |-> ParseTime(end_time, now_ms),
   token |-> token]

BuildServiceGraphRequest(token) ==
  [start_ms |-> start_ms, end_ms |-> end_ms, token |-> token]

IsRepeatedServiceGraphToken(token) == token # 0 /\ token \in seen_tokens

\* by_reference: a later definition of an id replaces an earlier one.
Target(all, edge) ==
  LET defining == {i \in DOMAIN all : /\ edge.has_reference_id
                                      /\ all[i].has_reference_id
                                      /\ all[i].reference_id = edge.reference_id}
  IN IF defining = {} THEN edge.alias_name ELSE all[Max(defining)].name

ResolveGraph(all) ==
  FlattenSeq([i \in DOMAIN all |->
    [j \in DOMAIN all[i].edges |->
      LET edge == all[i].edges[j]
      IN [source |-> all[i].name, target |-> Target(all, edge),
          has_statistics |-> edge.has_statistics, request_count |-> edge.request_count]]])

\* LoadGraph, a turn of its loop; after the last page ResolveGraph.
LoadPage ==
  /\ phase = "loading"
  /\ LET request == BuildServiceGraphRequest(next_token)
     IN \E response \in GetServiceGraph(request) :
          /\ services' = services \o ParseServiceGraphResponse(response.page)
          /\ IF response.token = 0 \/ IsRepeatedServiceGraphToken(response.token)
             THEN /\ phase' = "loaded"
                  /\ edges' = ResolveGraph(services')
                  /\ UNCHANGED <<next_token, seen_tokens>>
             ELSE /\ next_token' = response.token
                  /\ seen_tokens' = seen_tokens \cup {response.token}
                  /\ UNCHANGED <<phase, edges>>
  /\ UNCHANGED <<known, now_ms, start_time, end_time, start_ms, end_ms, out>>

\* The row DuckDB gets: no statistics are NULL, not zero.
Columns(row) ==
  [source |-> row.source, target |-> row.target,
   request_count |-> IF row.has_statistics THEN row.request_count ELSE NoId]

\* ServiceDependenciesScan fills one chunk.
ServiceDependenciesScan ==
  /\ phase = "loaded" /\ edges # << >>
  /\ LET count == Min({Len(edges), Vector})
     IN /\ out' = out \o [k \in 1 .. count |-> Columns(edges[k])]
        /\ edges' = SubSeq(edges, count + 1, Len(edges))
  /\ UNCHANGED <<known, now_ms, start_time, end_time, phase, start_ms, end_ms,
                 services, next_token, seen_tokens>>

PageFails ==
  /\ phase = "loading"
  /\ phase' = "failed"
  /\ UNCHANGED <<known, now_ms, start_time, end_time, start_ms, end_ms,
                 services, next_token, seen_tokens, edges, out>>

Step == BeginScan \/ LoadPage \/ ServiceDependenciesScan

Next == Step \/ PageFails \/ Tick

Spec == Init /\ [][Next]_vars

----------------------------------------------------------------------------
(* Properties.                                                             *)

\* What the graph says of an edge, by its own ids: the name of a service of the
\* window that defines its id, and its first alias only if none does.
Explains(edge, graph, target) ==
  LET named == {graph[i].name : i \in {i \in DOMAIN graph : graph[i].id = edge.id}}
  IN IF edge.id = NoId \/ named = {}
     THEN target = (IF edge.aliases = << >> THEN "" ELSE edge.aliases[1])
     ELSE target \in named

\* However X-Ray cuts the graph into pages, with empty pages, repeated tokens and
\* a clock that moves on, every edge of every service of the window is one row,
\* in X-Ray's order, under the name of the service its id designates, on
\* whichever page that service is defined.
GraphPagesIrrelevant ==
  phase = "loaded" =>
    LET graph == Seen(start_ms, end_ms)
        ends == FlattenSeq([i \in DOMAIN graph |->
                  [j \in DOMAIN graph[i].edges |-> [from |-> graph[i], edge |-> graph[i].edges[j]]]])
        result == out \o [k \in DOMAIN edges |-> Columns(edges[k])]
    IN /\ Len(result) = Len(ends)
       /\ \A k \in DOMAIN ends :
            /\ result[k].source = ends[k].from.name
            /\ result[k].request_count = ends[k].edge.total
            /\ Explains(ends[k].edge, graph, result[k].target)

=============================================================================
