------------------------- MODULE CloudwatchMetrics -------------------------
(***************************************************************************)
(* Metrics end to end: one statement sends a chunk, another reads the      *)
(* buckets of a metric, while or after the first runs.                     *)
(***************************************************************************)
EXTENDS SendMetrics, MetricScan

VARIABLES
  cuts,   \* observer: the lengths the metric table had
  known   \* observer: the rows that were `ok' at the reader's first page

metrics_vars == <<vars, scan_vars, cuts, known>>

ASSUME MetricsAssumption == SendAssumption /\ ScanAssumption

MetricsInit ==
  /\ Init /\ metrics = << >> /\ ScanInit
  /\ cuts = {0} /\ known = {}

Send ==
  /\ Next
  /\ cuts' = cuts \cup {Len(metrics')}
  /\ UNCHANGED <<scan_vars, known>>

Read ==
  /\ ScanNext
  /\ known' = IF first = Absent /\ first' # Absent THEN Accepted ELSE known
  /\ UNCHANGED <<send_vars, cuts>>

MetricsNext == Send \/ Read

MetricsSpec == MetricsInit /\ [][MetricsNext]_metrics_vars

----------------------------------------------------------------------------
(* The property of the reader; SendMetrics has the sender's.               *)

\* Reading: the buckets are those of a table that held whole requests, among them
\* all that were accepted when the read began: no request is seen in part, and
\* what was sent before the read is in it.  Pages of AWS say so of a table that
\* did not change from the first page to the last.  The listener's rows are the
\* oldest first, in whatever order they were asked for
\* (metrics_table.cpp:151, cloudwatch_server.cpp:631).
ReadExact ==
  Over /\ (service = "aws" => Len(metrics) = first) =>
    \E n \in cuts :
      /\ known \subseteq {metrics[k].source_row : k \in 1 .. n}
      /\ Yields(SubSeq(metrics, 1, n), out, service = "listener" \/ asked.order = "asc")

=============================================================================
