-------------------------- MODULE CloudwatchServer --------------------------
(***************************************************************************)
(* The listener started by cloudwatch_serve (src/src/cloudwatch_server.cpp):*)
(* HTTP workers that decode a CloudWatch operation, take the server        *)
(* object's writer_mutex, run SQL statements on the one writer connection  *)
(* and answer.  Every RunOrThrow and RunQuery is an autocommit statement   *)
(* and a step of its own, since each can fail alone and the process can    *)
(* die between two; PutLogEvents' Append is one transaction, one step.     *)
(*                                                                         *)
(* The tables outlive the server object, so a restart finds them as they   *)
(* were and starts its event counter at zero again.                        *)
(*                                                                         *)
(* `history' is an observer: the requests in the order their handlers      *)
(* began, what each was answered, and how many had begun by then.          *)
(***************************************************************************)
EXTENDS Naturals, Sequences, FiniteSets

CONSTANTS
  Server,        \* listeners that write to the same tables
  Worker,        \* threads of the listeners' HTTP pools (http_threads)
  ServerOf,      \* the listener a thread belongs to
  NoWorker,      \* the owner of a free mutex
  Group,         \* log group names
  Stream,        \* log stream names
  NoStream,      \* log_stream IS NULL: the row of the group itself
  Time,          \* what an item of a batch carries: its timestamp, or
  Malformed,     \* an item whose timestamp, message or value is missing
  Days,          \* retention periods
  NoDays,        \* retention_in_days IS NULL
  Request,       \* the requests clients send
  MaxRequests,   \* bound on the requests of a behaviour
  MaxRestarts    \* bound on the restarts and crashes of a behaviour

GroupOps  == {"CreateLogGroup", "DeleteLogGroup", "CreateLogStream",
              "PutRetentionPolicy", "PutLogEvents"}
ReadOps   == {"DescribeLogGroups", "DescribeLogStreams", "FilterLogEvents",
              "GetMetricData"}
PutOps    == {"PutLogEvents", "PutMetricData"}
Ops       == GroupOps \cup ReadOps \cup PutOps

ASSUME ServerAssumption ==
  /\ ServerOf \in [Worker -> Server]
  /\ NoWorker \notin Worker

ASSUME NameAssumption ==
  /\ NoStream \notin Stream
  /\ NoDays \notin Days

ASSUME RequestAssumption ==
  Request \subseteq [op: Ops, log_group: Group, log_stream: Stream,
                     batch: Seq(Time), days: Days]

ASSUME BoundAssumption ==
  /\ MaxRequests \in Nat
  /\ MaxRestarts \in Nat

VARIABLES
  groups,         \* rows of the log-group table
  events,         \* rows of the events table
  metrics,        \* rows of the metric table
  auto_create,    \* per server: config.auto_create_groups
  writer_mutex,   \* per server: the worker that holds it
  event_counter,  \* per server: ids given out since the object was built
  totals,         \* per server: total_requests and total_rows
  lifetime,       \* per server: how many objects were built before this one
  pc,             \* per worker: the statement it executes next
  serving,        \* per worker: the request it serves, 0 when it serves none
  built,          \* per worker: ids given to the events of its batch so far
  outcome,        \* per worker: what it is about to answer
  history         \* observer: every request with its answer

tables == <<groups, events, metrics>>
object == <<auto_create, event_counter, totals, lifetime>>
vars == <<tables, object, writer_mutex, pc, serving, built, outcome, history>>

Statements == {"check_group", "insert_group", "check_stream", "insert_stream",
               "append_rows", "delete_groups", "delete_events",
               "update_retention", "append_metrics", "read"}
Pc      == {"idle", "build", "lock", "reply"} \cup Statements
Answers == {"ok", "client_error", "server_error"}
Status  == Answers \cup {"pending", "lost"}

\* `by', the request that inserted the row, stands for created_ms; `put' and
\* `index' are the request and the item a row comes from, for the properties.
GroupRow == [log_group: Group, log_stream: Stream \cup {NoStream},
             retention_in_days: Days \cup {NoDays}, by: Nat]
EventRow == [log_group: Group, log_stream: Stream, timestamp_ms: Time,
             event_id: Nat, put: Nat, index: Nat]
MetricRow == [timestamp_ms: Time, put: Nat, index: Nat]
Entry == [req: Request, server: Server, lifetime: Nat, status: Status,
          ended: Nat]

Req(w) == history[serving[w]].req

Ended(entry, status) ==
  [entry EXCEPT !.status = status, !.ended = Len(history)]

GroupExists(g) == \E r \in groups : r.log_group = g /\ r.log_stream = NoStream
StreamExists(g, s) == \E r \in groups : r.log_group = g /\ r.log_stream = s

Init ==
  /\ groups = {} /\ events = {} /\ metrics = {}
  /\ auto_create \in [Server -> BOOLEAN]
  /\ writer_mutex = [s \in Server |-> NoWorker]
  /\ event_counter = [s \in Server |-> 0]
  /\ totals = [s \in Server |-> [requests |-> 0, rows |-> 0]]
  /\ lifetime = [s \in Server |-> 0]
  /\ pc = [w \in Worker |-> "idle"]
  /\ serving = [w \in Worker |-> 0]
  /\ built = [w \in Worker |-> << >>]
  /\ outcome = [w \in Worker |-> "ok"]
  /\ history = << >>

----------------------------------------------------------------------------
(* Control shared by the handlers.                                         *)

Goto(w, label) == pc' = [pc EXCEPT ![w] = label]

\* Mutant: an exception leaves the lock held.
FinishLeaksLock(w, answer) ==
  /\ writer_mutex' = IF answer = "server_error" THEN writer_mutex
                     ELSE [writer_mutex EXCEPT ![ServerOf[w]] = NoWorker]
  /\ outcome' = [outcome EXCEPT ![w] = answer]
  /\ Goto(w, "reply")

\* Mutant: the thread returns to its pool without answering.
FinishWithoutReply(w, answer) ==
  /\ writer_mutex' = [writer_mutex EXCEPT ![ServerOf[w]] = NoWorker]
  /\ outcome' = [outcome EXCEPT ![w] = answer]
  /\ Goto(w, "idle")

\* The lock_guard's scope ends, by a return or by an exception.
Finish(w, answer) ==
  /\ writer_mutex' = [writer_mutex EXCEPT ![ServerOf[w]] = NoWorker]
  /\ outcome' = [outcome EXCEPT ![w] = answer]
  /\ Goto(w, "reply")

\* Handle and HandleQuery: a free pool thread takes a request and decodes it.
Accept(w, req) ==
  /\ pc[w] = "idle"
  /\ Len(history) < MaxRequests
  /\ history' = Append(history, [req |-> req, server |-> ServerOf[w],
                                 lifetime |-> lifetime[ServerOf[w]],
                                 status |-> "pending", ended |-> 0])
  /\ serving' = [serving EXCEPT ![w] = Len(history) + 1]
  /\ Goto(w, IF req.op \in PutOps THEN "build" ELSE "lock")
  /\ UNCHANGED <<tables, object, writer_mutex, built, outcome>>

\* Mutant: ids numbered within the request.
NextEventIdPerRequest(w) == Len(built[w]) + 1

NextEventId(w) == event_counter[ServerOf[w]] + 1

\* One turn of the loop over logEvents or MetricData, before any lock is taken:
\* an event gets its id from the atomic counter, a metric datum gets none.
BuildRow(w) ==
  /\ pc[w] = "build"
  /\ Len(built[w]) < Len(Req(w).batch)
  /\ Req(w).batch[Len(built[w]) + 1] # Malformed
  /\ LET id == NextEventId(w)
     IN IF Req(w).op = "PutLogEvents"
        THEN /\ event_counter' = [event_counter EXCEPT ![ServerOf[w]] = id]
             /\ built' = [built EXCEPT ![w] = Append(@, id)]
        ELSE /\ built' = [built EXCEPT ![w] = Append(@, 0)]
             /\ UNCHANGED event_counter
  /\ UNCHANGED <<tables, auto_create, totals, lifetime, writer_mutex, pc,
                 serving, outcome, history>>

\* An item without its required fields ends the request with a 400; so does a
\* PutMetricData without data.  Ids already taken are not given back.
RejectBatch(w) ==
  /\ pc[w] = "build"
  /\ \/ /\ Len(built[w]) < Len(Req(w).batch)
        /\ Req(w).batch[Len(built[w]) + 1] = Malformed
     \/ Req(w).op = "PutMetricData" /\ Req(w).batch = << >>
  /\ outcome' = [outcome EXCEPT ![w] = "client_error"]
  /\ Goto(w, "reply")
  /\ UNCHANGED <<tables, object, writer_mutex, serving, built, history>>

BatchBuilt(w) ==
  /\ pc[w] = "build"
  /\ Len(built[w]) = Len(Req(w).batch)
  /\ Req(w).op = "PutMetricData" => Req(w).batch # << >>
  /\ Goto(w, "lock")
  /\ UNCHANGED <<tables, object, writer_mutex, serving, built, outcome,
                 history>>

\* The first statement of a handler once it holds writer_mutex.
FirstStatement(op) ==
  IF op \in GroupOps THEN "check_group"
  ELSE IF op = "PutMetricData" THEN "append_metrics" ELSE "read"

\* Mutant: the lock_guard is missing.
AcquireUnlocked(w) ==
  /\ pc[w] = "lock"
  /\ writer_mutex' = [writer_mutex EXCEPT ![ServerOf[w]] = w]
  /\ Goto(w, FirstStatement(Req(w).op))
  /\ UNCHANGED <<tables, object, serving, built, outcome, history>>

\* lock_guard lock(writer_mutex).
Acquire(w) ==
  /\ pc[w] = "lock"
  /\ writer_mutex[ServerOf[w]] = NoWorker
  /\ writer_mutex' = [writer_mutex EXCEPT ![ServerOf[w]] = w]
  /\ Goto(w, FirstStatement(Req(w).op))
  /\ UNCHANGED <<tables, object, serving, built, outcome, history>>

----------------------------------------------------------------------------
(* The statements under writer_mutex.                                      *)

\* GroupExists decides: the request is refused with a 400 ...
RefusedByGroup(w, exists) ==
  \/ Req(w).op = "CreateLogGroup" /\ exists
  \/ Req(w).op \in {"DeleteLogGroup", "CreateLogStream", "PutRetentionPolicy"}
     /\ ~exists
  \/ Req(w).op = "PutLogEvents" /\ ~exists /\ ~auto_create[ServerOf[w]]

\* Mutant: PutLogEvents does not create the group.
AfterCheckGroupNoInsert(w, exists) ==
  CASE Req(w).op = "DeleteLogGroup"     -> "delete_groups"
    [] Req(w).op = "PutRetentionPolicy" -> "update_retention"
    [] Req(w).op = "CreateLogGroup"     -> "insert_group"
    [] OTHER -> "check_stream"

\* ... or goes on with the statement of its operation.
AfterCheckGroup(w, exists) ==
  CASE Req(w).op = "DeleteLogGroup"     -> "delete_groups"
    [] Req(w).op = "PutRetentionPolicy" -> "update_retention"
    [] Req(w).op = "CreateLogGroup"     -> "insert_group"
    [] OTHER -> IF exists THEN "check_stream" ELSE "insert_group"

CheckGroup(w) ==
  /\ pc[w] = "check_group"
  /\ LET exists == GroupExists(Req(w).log_group)
     IN \/ RefusedByGroup(w, exists) /\ Finish(w, "client_error")
        \/ /\ ~RefusedByGroup(w, exists)
           /\ Goto(w, AfterCheckGroup(w, exists))
           /\ UNCHANGED <<writer_mutex, outcome>>
  /\ UNCHANGED <<tables, object, serving, built, history>>

InsertGroup(w) ==
  /\ pc[w] = "insert_group"
  /\ groups' = groups \cup
       {[log_group |-> Req(w).log_group, log_stream |-> NoStream,
         retention_in_days |-> NoDays, by |-> serving[w]]}
  /\ \/ Req(w).op = "CreateLogGroup" /\ Finish(w, "ok")
     \/ /\ Req(w).op = "PutLogEvents"
        /\ Goto(w, "check_stream")
        /\ UNCHANGED <<writer_mutex, outcome>>
  /\ UNCHANGED <<events, metrics, object, serving, built, history>>

RefusedByStream(w, exists) ==
  \/ Req(w).op = "CreateLogStream" /\ exists
  \/ Req(w).op = "PutLogEvents" /\ ~exists /\ ~auto_create[ServerOf[w]]

CheckStream(w) ==
  /\ pc[w] = "check_stream"
  /\ LET exists == StreamExists(Req(w).log_group, Req(w).log_stream)
     IN \/ RefusedByStream(w, exists) /\ Finish(w, "client_error")
        \/ /\ ~RefusedByStream(w, exists)
           /\ Goto(w, IF exists THEN "append_rows" ELSE "insert_stream")
           /\ UNCHANGED <<writer_mutex, outcome>>
  /\ UNCHANGED <<tables, object, serving, built, history>>

InsertStream(w) ==
  /\ pc[w] = "insert_stream"
  /\ groups' = groups \cup
       {[log_group |-> Req(w).log_group, log_stream |-> Req(w).log_stream,
         retention_in_days |-> NoDays, by |-> serving[w]]}
  /\ \/ Req(w).op = "CreateLogStream" /\ Finish(w, "ok")
     \/ /\ Req(w).op = "PutLogEvents"
        /\ Goto(w, "append_rows")
        /\ UNCHANGED <<writer_mutex, outcome>>
  /\ UNCHANGED <<events, metrics, object, serving, built, history>>

\* The rows PutLogEvents built, up to and including row n.
EventRows(w, n) ==
  {[log_group |-> Req(w).log_group, log_stream |-> Req(w).log_stream,
    timestamp_ms |-> Req(w).batch[i], event_id |-> built[w][i],
    put |-> serving[w], index |-> i] : i \in 1..n}

\* Append: every row of the batch in one transaction.
AppendRows(w) ==
  /\ pc[w] = "append_rows"
  /\ events' = events \cup EventRows(w, Len(built[w]))
  /\ Finish(w, "ok")
  /\ UNCHANGED <<groups, metrics, object, serving, built, history>>

\* Mutant: the events are left behind.
DeleteGroupsOnly(w) ==
  /\ pc[w] = "delete_groups"
  /\ groups' = {r \in groups : r.log_group # Req(w).log_group}
  /\ Finish(w, "ok")
  /\ UNCHANGED <<events, metrics, object, serving, built, history>>

DeleteGroups(w) ==
  /\ pc[w] = "delete_groups"
  /\ groups' = {r \in groups : r.log_group # Req(w).log_group}
  /\ Goto(w, "delete_events")
  /\ UNCHANGED <<events, metrics, object, writer_mutex, serving, built, outcome,
                 history>>

DeleteEvents(w) ==
  /\ pc[w] = "delete_events"
  /\ events' = {e \in events : e.log_group # Req(w).log_group}
  /\ Finish(w, "ok")
  /\ UNCHANGED <<groups, metrics, object, serving, built, history>>

UpdateRetention(w) ==
  /\ pc[w] = "update_retention"
  /\ groups' = {IF r.log_group = Req(w).log_group /\ r.log_stream = NoStream
                THEN [r EXCEPT !.retention_in_days = Req(w).days] ELSE r
                : r \in groups}
  /\ Finish(w, "ok")
  /\ UNCHANGED <<events, metrics, object, serving, built, history>>

\* PutMetricData's appender is flushed once, by Close.
AppendMetrics(w) ==
  /\ pc[w] = "append_metrics"
  /\ metrics' = metrics \cup
       {[timestamp_ms |-> Req(w).batch[i], put |-> serving[w], index |-> i]
        : i \in 1..Len(built[w])}
  /\ Finish(w, "ok")
  /\ UNCHANGED <<groups, events, object, serving, built, history>>

\* DescribeLogGroups, DescribeLogStreams, FilterLogEvents and GetMetricData:
\* one SELECT under the lock, rendered before the lock is released.
Read(w) ==
  /\ pc[w] = "read"
  /\ Finish(w, "ok")
  /\ UNCHANGED <<tables, object, serving, built, history>>

\* Mutant: Append has no transaction, a prefix of the batch stays.
StatementFailsNoRollback(w) ==
  /\ pc[w] \in Statements
  /\ \/ pc[w] # "append_rows" /\ UNCHANGED events
     \/ /\ pc[w] = "append_rows"
        /\ \E n \in 0..Len(built[w]) : events' = events \cup EventRows(w, n)
  /\ Finish(w, "server_error")
  /\ UNCHANGED <<groups, metrics, object, serving, built, history>>

\* Mutant: Append does not rethrow.
StatementFailsSwallowed(w) ==
  /\ pc[w] \in Statements
  /\ Finish(w, IF pc[w] = "append_rows" THEN "ok" ELSE "server_error")
  /\ UNCHANGED <<tables, object, serving, built, history>>

\* A statement throws, the transaction of Append included (it is rolled back):
\* the lock_guard unwinds and the handler's catch answers 500 InternalFailure.
\* Append returns at once when there is no row, and cannot fail then.
StatementFails(w) ==
  /\ pc[w] \in Statements
  /\ pc[w] = "append_rows" => built[w] # << >>
  /\ Finish(w, "server_error")
  /\ UNCHANGED <<tables, object, serving, built, history>>

\* The handler returns its response; the two put operations count themselves
\* just before, outside the lock.
Reply(w) ==
  /\ pc[w] = "reply"
  /\ history' = [history EXCEPT ![serving[w]] = Ended(@, outcome[w])]
  /\ totals' = IF Req(w).op \in PutOps /\ outcome[w] = "ok"
               THEN [totals EXCEPT ![ServerOf[w]] =
                       [requests |-> @.requests + 1,
                        rows |-> @.rows + Len(built[w])]]
               ELSE totals
  /\ serving' = [serving EXCEPT ![w] = 0]
  /\ built' = [built EXCEPT ![w] = << >>]
  /\ outcome' = [outcome EXCEPT ![w] = "ok"]
  /\ Goto(w, "idle")
  /\ UNCHANGED <<tables, auto_create, event_counter, lifetime, writer_mutex>>

----------------------------------------------------------------------------
(* The server object and the process.                                      *)

\* cloudwatch_stop and cloudwatch_serve again: Close joins the pool, so no
\* request is being served; the new object may be given other options.
Restart(s) ==
  /\ lifetime[s] < MaxRestarts
  /\ \A w \in Worker : ServerOf[w] = s => pc[w] = "idle"
  /\ \E a \in BOOLEAN : auto_create' = [auto_create EXCEPT ![s] = a]
  /\ lifetime' = [lifetime EXCEPT ![s] = @ + 1]
  /\ event_counter' = [event_counter EXCEPT ![s] = 0]
  /\ totals' = [totals EXCEPT ![s] = [requests |-> 0, rows |-> 0]]
  /\ UNCHANGED <<tables, writer_mutex, pc, serving, built, outcome, history>>

\* The process dies and is started again on the same database file: what was
\* committed stays, every request being served is never answered.
Crash ==
  /\ \A s \in Server : lifetime[s] < MaxRestarts
  /\ lifetime' = [s \in Server |-> lifetime[s] + 1]
  /\ event_counter' = [s \in Server |-> 0]
  /\ totals' = [s \in Server |-> [requests |-> 0, rows |-> 0]]
  /\ writer_mutex' = [s \in Server |-> NoWorker]
  /\ pc' = [w \in Worker |-> "idle"]
  /\ serving' = [w \in Worker |-> 0]
  /\ built' = [w \in Worker |-> << >>]
  /\ outcome' = [w \in Worker |-> "ok"]
  /\ history' = [n \in DOMAIN history |->
                   IF history[n].status = "pending"
                   THEN Ended(history[n], "lost") ELSE history[n]]
  /\ UNCHANGED <<tables, auto_create>>

Execute(w) ==
  \/ CheckGroup(w)   \/ InsertGroup(w)  \/ CheckStream(w) \/ InsertStream(w)
  \/ AppendRows(w)   \/ DeleteGroups(w) \/ DeleteEvents(w)
  \/ UpdateRetention(w) \/ AppendMetrics(w) \/ Read(w) \/ StatementFails(w)

Serve(w) ==
  \/ BuildRow(w) \/ RejectBatch(w) \/ BatchBuilt(w)
  \/ Acquire(w)  \/ Execute(w)     \/ Reply(w)

\* No request is being served and none arrives.
Quiet ==
  /\ \A w \in Worker : pc[w] = "idle"
  /\ UNCHANGED vars

Next ==
  \/ \E w \in Worker : Serve(w) \/ \E req \in Request : Accept(w, req)
  \/ \E s \in Server : Restart(s)
  \/ Crash
  \/ Quiet

Spec == Init /\ [][Next]_vars

\* A pool thread that has taken a request keeps running its handler.
FairSpec == Spec /\ \A w \in Worker : WF_vars(Serve(w))

----------------------------------------------------------------------------
(* Properties.                                                             *)

\* The worker is inside the scope of its lock_guard.
InCritical(w) == pc[w] \in Statements

\* Type invariant of the listener, with the agreement of a worker's label, the
\* request it serves and the rows it has built.
TypeOK ==
  /\ groups \subseteq GroupRow
  /\ events \subseteq EventRow
  /\ metrics \subseteq MetricRow
  /\ auto_create \in [Server -> BOOLEAN]
  /\ writer_mutex \in [Server -> Worker \cup {NoWorker}]
  /\ event_counter \in [Server -> Nat]
  /\ totals \in [Server -> [requests: Nat, rows: Nat]]
  /\ lifetime \in [Server -> Nat]
  /\ pc \in [Worker -> Pc]
  /\ serving \in [Worker -> Nat]
  /\ built \in [Worker -> Seq(Nat)]
  /\ outcome \in [Worker -> Answers]
  /\ history \in Seq(Entry)
  /\ \A w \in Worker :
       /\ pc[w] = "idle" <=> serving[w] = 0
       /\ pc[w] = "idle" => built[w] = << >>
       /\ serving[w] <= Len(history)
       /\ pc[w] # "idle" => Len(built[w]) <= Len(Req(w).batch)

\* Request m had ended, answered or cut off by a crash, before request n began.
Precedes(m, n) == history[m].status # "pending" /\ history[m].ended < n

StoredOf(n) == {e \in events : e.put = n}

\* GroupExists and StreamExists are checked and the row inserted under one
\* holding of writer_mutex, so the group table never lists a group or a stream
\* twice, nor a stream whose group it does not list.
CatalogConsistent ==
  /\ \A r1, r2 \in groups :
       r1.log_group = r2.log_group /\ r1.log_stream = r2.log_stream => r1 = r2
  /\ \A r \in groups : GroupExists(r.log_group)

\* Two rows with the same event id were stored by different server objects:
\* ids come from one atomic counter, taken before the lock by any number of
\* handlers whose rows are stored in any order.
UniqueEventIds ==
  \A e, f \in events :
    /\ e.event_id = f.event_id
    /\ history[e.put].server = history[f.put].server
    /\ history[e.put].lifetime = history[f.put].lifetime
    => e = f

\* The rows of a PutLogEvents are stored all or none, whatever fails and
\* whenever the process dies, and a refused or failed one stores none.
AllOrNothing ==
  \A n \in DOMAIN history :
    \/ StoredOf(n) = {}
    \/ /\ {e.index : e \in StoredOf(n)} = DOMAIN history[n].req.batch
       /\ history[n].status \notin {"client_error", "server_error"}

\* The events of an acknowledged PutLogEvents are stored unless a
\* DeleteLogGroup of their group had not ended when that request began.
AcknowledgedKept ==
  \A n \in DOMAIN history :
    /\ history[n].req.op = "PutLogEvents"
    /\ history[n].req.batch # << >>
    /\ history[n].status = "ok"
    => \/ StoredOf(n) # {}
       \/ \E m \in DOMAIN history :
            /\ history[m].req.op = "DeleteLogGroup"
            /\ history[m].req.log_group = history[n].req.log_group
            /\ history[m].status # "client_error"
            /\ ~Precedes(m, n)

\* An acknowledged DeleteLogGroup has discarded the events of every request
\* that ended before it began: "Deleting a group in CloudWatch discards its
\* streams and events too" (cloudwatch_server.cpp:812).
DeletedDiscarded ==
  \A m \in DOMAIN history : \A e \in events :
    /\ history[m].req.op = "DeleteLogGroup"
    /\ history[m].req.log_group = e.log_group
    /\ history[m].status = "ok"
    => ~Precedes(e.put, m)

\* Events outlive the rows of their group and stream only behind a
\* DeleteLogGroup that is at work, failed or was cut off between its two
\* statements, and was not over when the events' request began.
OrphansExplained ==
  \A e \in events :
    \/ GroupExists(e.log_group) /\ StreamExists(e.log_group, e.log_stream)
    \/ \E m \in DOMAIN history :
         /\ history[m].req.op = "DeleteLogGroup"
         /\ history[m].req.log_group = e.log_group
         /\ history[m].status \in {"pending", "server_error", "lost"}
         /\ ~Precedes(m, e.put)

\* What the comment at cloudwatch_server.cpp:812 and the README ("Deleting a
\* log group discards its streams and events") say without qualification: when
\* no request is being served, no event belongs to a group that is not listed.
NoOrphans ==
  (\A w \in Worker : pc[w] = "idle")
    => \A e \in events : GroupExists(e.log_group)

\* Whatever a handler's statements do, fail or find, it gives writer_mutex back.
LockReleased ==
  \A s \in Server :
    writer_mutex[s] # NoWorker ~> writer_mutex[s] = NoWorker

=============================================================================
