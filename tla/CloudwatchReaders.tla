------------------------- MODULE CloudwatchReaders -------------------------
(***************************************************************************)
(* A statement that reads a service page by page while others change what  *)
(* it reads: the log reader over the listener, the alarm and service map   *)
(* tables and the catalog over AWS.  The readers share the shape of their  *)
(* loop and no state, so one statement is one of them.                     *)
(***************************************************************************)
EXTENDS LogScan

CONSTANTS
  Alarms, AlarmPageSize, ChunkSize, MaxMoves,
  Graphs, NoId, Times, MaxMs, Vector, StartNow, MaxNow,
  Names, Fold, Secrets, SecretType, SecretRegion, Regions, EnvRegion, Offers, None,
  GroupLimit, MaxChanges

VARIABLES
  reader, \* what the statement reads
  condition, service, moves, state_index, token, seen, seen_tokens, rows,
  given, done, open, strayed,
  known, now_ms, start_time, end_time, graph_phase, start_ms, end_ms, services,
  graph_token, graph_tokens, edges, out,
  groups, secrets, s3_region, changes, attach_phase, account, secret_name, region,
  log_groups, groups_token, offered, lasting, passing, read

alarm_vars == <<condition, service, moves, state_index, token, seen,
                seen_tokens, rows, given, done, open, strayed>>
graph_vars == <<known, now_ms, start_time, end_time, graph_phase, start_ms,
                end_ms, services, graph_token, graph_tokens, edges, out>>
catalog_vars == <<groups, secrets, s3_region, changes, attach_phase, account,
                  secret_name, region, log_groups, groups_token, offered, lasting, passing, read>>

AlarmReader == INSTANCE AlarmScan
GraphReader == INSTANCE ServiceGraph
  WITH phase <- graph_phase, next_token <- graph_token, seen_tokens <- graph_tokens
CatalogReader == INSTANCE CloudwatchCatalog
  WITH phase <- attach_phase, next_token <- groups_token

ASSUME ReadersAssumption ==
  /\ AlarmReader!AlarmAssumption
  /\ GraphReader!GraphAssumption
  /\ CatalogReader!CatalogAssumption

Readers == {"logs", "alarms", "graph", "catalog"}

readers_vars == <<reader, vars, alarm_vars, graph_vars, catalog_vars>>

\* What a reader that does not run starts with does not matter.
ReadersInit ==
  /\ reader \in Readers
  /\ Init /\ (reader # "logs" => ~ascending /\ max_rows = Min(MaxRowsChosen))
  /\ AlarmReader!Init
  /\ reader # "alarms" => open = {} /\ service = "exact"
  /\ GraphReader!Init
  /\ reader # "graph" => /\ known = CHOOSE g \in Graphs : TRUE
                         /\ start_time = CHOOSE t \in Times : TRUE
                         /\ end_time = CHOOSE t \in Times : TRUE
  /\ CatalogReader!Init
  /\ reader # "catalog" => groups = {} /\ secrets = {} /\ s3_region = None

\* The others stand still.
OnlyLogs ==
  reader = "logs" /\ UNCHANGED <<reader, alarm_vars, graph_vars, catalog_vars>>
OnlyAlarms ==
  reader = "alarms" /\ UNCHANGED <<reader, vars, graph_vars, catalog_vars>>
OnlyGraph ==
  reader = "graph" /\ UNCHANGED <<reader, vars, alarm_vars, catalog_vars>>
OnlyCatalog ==
  reader = "catalog" /\ UNCHANGED <<reader, vars, alarm_vars, graph_vars>>

\* DuckDB keeps asking for the next chunk; ATTACH and LoadGraph are loops.
ReadersStep ==
  \/ OnlyLogs /\ Scan
  \/ OnlyAlarms /\ AlarmReader!Scan
  \/ OnlyGraph /\ GraphReader!Step
  \/ OnlyCatalog /\ CatalogReader!Step

ReadersNext ==
  \/ OnlyLogs /\ Next
  \/ OnlyAlarms /\ AlarmReader!Next
  \/ OnlyGraph /\ GraphReader!Next
  \/ OnlyCatalog /\ CatalogReader!Next

ReadersSpec == ReadersInit /\ [][ReadersNext]_readers_vars /\ WF_readers_vars(ReadersStep)

----------------------------------------------------------------------------
(* Properties of the readers other than LogScan's.                         *)

\* DescribeAlarms pages: every alarm that stays open is listed, none twice
\* (alerts_table.cpp:476).
AlarmsExact == AlarmReader!AlarmsExact

\* GetServiceGraph pages: every edge of the window once, under its target's name,
\* however the graph is cut into pages (service_dependencies.cpp:330).
GraphPagesIrrelevant == GraphReader!GraphPagesIrrelevant

\* DescribeLogGroups pages at ATTACH and the statements after it: no lasting
\* group is missed, and a table reads its own group in the account discovered
\* (cloudwatch_catalog.cpp:479).
CatalogFaithful == CatalogReader!CatalogFaithful

\* Every reader ends, once those that change what it reads pause: over offsets
\* that a delete has overtaken, over tokens that a service names again, and over
\* pages without rows.
ReadersEnd ==
  <>( \/ reader = "logs" /\ finished
      \/ reader = "alarms" /\ done /\ rows = << >>
      \/ reader = "graph" /\ graph_phase = "failed"
      \/ reader = "graph" /\ graph_phase = "loaded" /\ edges = << >>
      \/ reader = "catalog" /\ attach_phase \in {"attached", "failed"} )

=============================================================================
