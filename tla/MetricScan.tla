----------------------------- MODULE MetricScan -----------------------------
(***************************************************************************)
(* read_cloudwatch_metrics (src/src/metrics_table.cpp): the buckets of a   *)
(* metric over a window, fetched page by page.  The listener answers with  *)
(* one page (MetricStore); AWS cuts the same buckets into pages of any     *)
(* length, in the order asked for.                                         *)
(***************************************************************************)
EXTENDS MetricStore

CONSTANTS
  Settings,   \* the settings to look at
  Vector      \* STANDARD_VECTOR_SIZE

\* A start or an end, in milliseconds since 1970.
Moment == [form : {"now"}] \cup [form : {"ago", "at"}, ms : Nat]

Setting ==
  [start : Moment, end : Moment, order : STRING, statistic : STRING, period : Int, max_rows : Int,
   dimensions : {D \in SUBSET [Name : STRING, Value : STRING] : IsFiniteSet(D)},
   namespace : STRING, name : STRING]

ScanAssumption ==
  /\ StoreAssumption
  /\ Vector \in Nat \ {0} /\ Settings \subseteq Setting /\ Absent \notin Nat

VARIABLES
  service,  \* "listener" or "aws"
  asked,    \* the settings: start, end, order, statistic, period, dimensions,
            \* max_rows, the namespace and the metric's name
  stage,    \* "begin", "scanning" or "failed"
  start_ms, end_ms, \* State.start_ms and end_ms
  points,   \* its points
  token,    \* its token; 0 if empty
  done,     \* its done
  out,      \* the rows given to DuckDB; emitted is their number
  first     \* observer: how many rows the table had at the first page

scan_vars == <<service, asked, stage, start_ms, end_ms, points, token, done, out, first>>

ScanInit ==
  /\ service \in {"listener", "aws"} /\ asked \in Settings
  /\ stage = "begin" /\ start_ms = 0 /\ end_ms = 0
  /\ points = << >> /\ token = 0 /\ done = FALSE /\ out = << >>
  /\ first = Absent

----------------------------------------------------------------------------
(* The request.                                                            *)

Invalid == -1

\* `now', a negative offset in its unit, or a timestamp; nothing else.
ParseTime(value) ==
  IF value.form = "now" THEN NowMs
  ELSE IF value.form = "at" THEN value.ms
  ELSE IF value.ms <= NowMs THEN NowMs - value.ms ELSE Invalid

ValidStatistic(statistic) == statistic \in Statistics \cup {"p90"}

\* BindFn and Init.
BeginScan ==
  /\ stage = "begin"
  /\ start_ms' = ParseTime(asked.start)
  /\ end_ms' = ParseTime(asked.end)
  /\ stage' = IF \/ "" \in {asked.namespace, asked.name} \/ ~ValidStatistic(asked.statistic)
                 \/ \E d \in asked.dimensions : "" \in {d.Name, d.Value}
                 \/ asked.period <= 0 \/ asked.max_rows < 0 \/ asked.order \notin {"asc", "desc"}
                 \/ Invalid \in {start_ms', end_ms'}
                 \/ start_ms' >= end_ms'
              THEN "failed" ELSE "scanning"
  /\ UNCHANGED <<metrics, service, asked, points, token, done, out, first>>

\* The form body, in whole seconds; no token has no key.
Request ==
  LET dimensions == SetToSeq(asked.dimensions)
      parts == [Namespace |-> asked.namespace, MetricName |-> asked.name, Stat |-> asked.statistic,
                Period |-> asked.period, StartTime |-> FormatIso(start_ms),
                EndTime |-> FormatIso(end_ms), ScanBy |-> asked.order, NextToken |-> token]
      given == {<<"Namespace">>, <<"MetricName">>, <<"Stat">>, <<"Period">>, <<"StartTime">>,
                <<"EndTime">>, <<"ScanBy">>} \cup (IF token = 0 THEN {} ELSE {<<"NextToken">>})
      keys == given \cup ({"Dimensions"} \X (DOMAIN dimensions) \X {"Name", "Value"})
      at(key) == IF Len(key) = 1 THEN parts[key[1]] ELSE dimensions[key[2]][key[3]]
  IN [key \in keys |-> at(key)]

----------------------------------------------------------------------------
(* AWS.                                                                    *)

\* The buckets after the token's in the order asked for, as many as it likes;
\* the last page may name its own token again.  The window is the listener's,
\* and percentiles are left out.
Pages(fields) ==
  LET whole == GetMetricData(fields)
      count == Len(whole.Values)
      cut(seq, from, to) == SubSeq(IF fields[<<"ScanBy">>] = "asc" THEN seq ELSE Reverse(seq), from, to)
      used == IF <<"NextToken">> \in Keys(fields) THEN fields[<<"NextToken">>] ELSE 0
      from == IF used = 0 THEN 0 ELSE used - 1
      page(n, next) == [StatusCode |-> IF n < count THEN "PartialData" ELSE "Complete",
                        Timestamps |-> cut(whole.Timestamps, from + 1, n),
                        Values |-> cut(whole.Values, from + 1, n), NextToken |-> next]
  IN {page(n, n + 1) : n \in {n \in from .. count : n + 1 # used}}
     \cup {page(count, t) : t \in {0, used}}

\* Answers that cannot be used: refusals, data lacking for good, arrays that do
\* not match.
BadAnswers ==
  {[StatusCode |-> s, Timestamps |-> << >>, Values |-> << >>, NextToken |-> 0] :
     s \in {"PartialData", "Forbidden", "InternalError"}}
  \cup {[StatusCode |-> "Complete", Timestamps |-> << >>, Values |-> <<Absent>>, NextToken |-> 0]}

Answers(fields) ==
  IF Refused(fields) THEN {}
  ELSE IF service = "listener" THEN {GetMetricData(fields)}
  ELSE Pages(fields) \cup BadAnswers

----------------------------------------------------------------------------
(* Fetch and Scan.                                                         *)

Mismatched(response) == Len(response.Timestamps) # Len(response.Values)

\* ConvertGetMetricDataXml turns texts into numbers, always written as reals.
XmlTimestampSeconds(text) == text.iso

Points(response) ==
  [i \in DOMAIN response.Values |->
     [time |-> XmlTimestampSeconds(response.Timestamps[i]), value |-> response.Values[i]]]

\* An answer that Fetch throws at.
Throws(response) ==
  \/ response.StatusCode \in {"Forbidden", "InternalError"}
  \/ Mismatched(response)
  \/ response.StatusCode = "PartialData" /\ response.NextToken = 0

\* Mutant: a page without points is the last.
LastPageIfEmpty(response) ==
  response.NextToken \in {0, token} \/ response.Values = << >>

\* No token, or the one just used.
LastPage(response) == response.NextToken \in {0, token}

Fetch ==
  /\ stage = "scanning" /\ points = << >> /\ ~done
  /\ \E response \in Answers(Request) :
       IF Throws(response)
       THEN stage' = "failed" /\ UNCHANGED <<points, token, done>>
       ELSE /\ points' = Points(response)
            /\ IF LastPage(response)
               THEN done' = TRUE /\ UNCHANGED token
               ELSE token' = response.NextToken /\ UNCHANGED done
            /\ UNCHANGED stage
  /\ first' = IF first = Absent THEN Len(metrics) ELSE first
  /\ UNCHANGED <<metrics, service, asked, start_ms, end_ms, out>>

FetchFails ==
  /\ stage = "scanning" /\ points = << >> /\ ~done
  /\ stage' = "failed"
  /\ UNCHANGED <<metrics, service, asked, start_ms, end_ms, points, token, done, out, first>>

\* Scan fills one chunk, and at max_rows drops the rest.
Scan ==
  /\ stage = "scanning" /\ points # << >>
  /\ LET fits == Min({Vector, Len(points)})
         count == IF asked.max_rows = 0 THEN fits
                  ELSE Min({fits, asked.max_rows - Len(out)})
         full == asked.max_rows > 0 /\ Len(out) + count >= asked.max_rows
     IN /\ out' = out \o SubSeq(points, 1, count)
        /\ points' = IF full THEN << >> ELSE SubSeq(points, count + 1, Len(points))
        /\ done' = (done \/ full)
  /\ UNCHANGED <<metrics, service, asked, stage, start_ms, end_ms, token, first>>

ScanNext == BeginScan \/ Fetch \/ FetchFails \/ Scan

----------------------------------------------------------------------------
(* Properties.                                                             *)

Over == stage = "scanning" /\ done /\ points = << >>

\* The datums the user asked for, by the milliseconds of the window.
Wanted(row) ==
  /\ row.metric_name = asked.name /\ row.namespace = asked.namespace
  /\ start_ms < row.timestamp_ms /\ row.timestamp_ms <= end_ms
  /\ asked.dimensions \subseteq row.dimensions

\* Their periods.
PeriodMs == asked.period * Second
Starts(table) ==
  {table[i].timestamp_ms - (table[i].timestamp_ms % PeriodMs) :
     i \in {i \in DOMAIN table : Wanted(table[i])}}

\* The values in the period that begins at b.
ValuesFrom(table, b) ==
  LET of == Kept(table, {i \in DOMAIN table : /\ Wanted(table[i]) /\ b <= table[i].timestamp_ms
                                             /\ table[i].timestamp_ms < b + PeriodMs})
  IN [k \in DOMAIN of |-> of[k].value]

\* rows are what a table of these datums yields: one row for each period that has
\* one, oldest or newest first, cut at max_rows.
Yields(table, rows, ascending) ==
  /\ Len(rows) = IF asked.max_rows = 0 THEN Cardinality(Starts(table))
                 ELSE Min({asked.max_rows, Cardinality(Starts(table))})
  /\ \A i \in DOMAIN rows :
       LET b == rows[i].time * Second
       IN /\ b \in Starts(table)
          /\ Cardinality({c \in Starts(table) : IF ascending THEN c < b ELSE b < c}) = i - 1
          /\ rows[i].value = Aggregate(asked.statistic, ValuesFrom(table, b))

=============================================================================
