---------------------------- MODULE MetricStore ----------------------------
(***************************************************************************)
(* The listener's metrics (src/src/cloudwatch_server.cpp): PutMetricData   *)
(* and GetMetricData over the metric table, one datum a row.  A form body  *)
(* is a function of its dotted keys: `MetricData.member.1.Value' is         *)
(* <<"MetricData", 1, "Value">>, and MetricDataQueries.member.1 is left out. *)
(* Both handlers touch the table in one step under writer_mutex.           *)
(***************************************************************************)
EXTENDS Selections

CONSTANTS
  Second,  \* the milliseconds of a second
  NowMs,   \* the clock, in milliseconds
  Absent   \* no value

StoreAssumption == Second \in Nat \ {0} /\ NowMs \in Nat

VARIABLE metrics  \* the rows of the metric table, as they were appended

\* An ISO 8601 text tells whole seconds.
FormatIso(ms) == [iso |-> ms \div Second]
ParseIsoMs(text) == text.iso * Second

Keys(fields) == DOMAIN fields
Get(fields, key) == IF key \in Keys(fields) THEN fields[key] ELSE ""

\* How many elements a list has before its first gap; no list is longer than the
\* body.
Members(there) == CHOOSE n \in 0 .. Cardinality(there) : 1 .. n \subseteq there /\ n + 1 \notin there
Places(fields) == 1 .. Cardinality(Keys(fields))

----------------------------------------------------------------------------
(* PutMetricData.                                                          *)

Datums(fields) ==
  Members({i \in Places(fields) : <<"MetricData", i, "MetricName">> \in Keys(fields)})

Dimensions(fields, i) ==
  LET key(d, part) == <<"MetricData", i, "Dimensions", d, part>>
      count == Members({d \in Places(fields) : {key(d, "Name"), key(d, "Value")} \subseteq Keys(fields)})
  IN [d \in 1 .. count |-> [Name |-> fields[key(d, "Name")], Value |-> fields[key(d, "Value")]]]

\* Value::MAP throws if a key is there twice.
NotAMap(dimensions) ==
  \E i, j \in DOMAIN dimensions : i # j /\ dimensions[i].Name = dimensions[j].Name

\* Where the handler throws before it takes the lock.
Malformed(fields) ==
  \/ Get(fields, <<"Namespace">>) = "" \/ Datums(fields) = 0
  \/ \E i \in 1 .. Datums(fields) : \/ <<"MetricData", i, "Value">> \notin Keys(fields)
                                    \/ NotAMap(Dimensions(fields, i))

\* source_row is no column: it tells where a datum comes from.
RowOf(fields, i) ==
  LET timestamp == <<"MetricData", i, "Timestamp">>
  IN [namespace |-> fields[<<"Namespace">>],
      metric_name |-> fields[<<"MetricData", i, "MetricName">>],
      timestamp_ms |-> IF timestamp \in Keys(fields) THEN ParseIsoMs(fields[timestamp]) ELSE NowMs,
      value |-> fields[<<"MetricData", i, "Value">>],
      dimensions |-> ToSet(Dimensions(fields, i)),
      source_row |-> fields[<<"MetricData", i, "source_row">>]]

\* One Appender, one transaction: all rows or none.
PutMetricData(fields) ==
  /\ ~Malformed(fields)
  /\ metrics' = metrics \o [i \in 1 .. Datums(fields) |-> RowOf(fields, i)]

----------------------------------------------------------------------------
(* GetMetricData.                                                          *)

Statistics == {"Sum", "Average", "Maximum", "Minimum", "SampleCount"}

\* Over the values of a bucket, in any order; an average is its quotient.
Aggregate(statistic, values) ==
  LET sum == FoldSeq(+, 0, values)
  IN CASE statistic = "Sum"         -> sum
       [] statistic = "SampleCount" -> Len(values)
       [] statistic = "Maximum"     -> Max(ToSet(values))
       [] statistic = "Minimum"     -> Min(ToSet(values))
       [] statistic = "Average"     -> <<sum, Len(values)>>

\* start-exclusive and end-inclusive.
InWindow(row, from, to) == from < row.timestamp_ms /\ row.timestamp_ms <= to

\* The dimensions asked for, until one is empty.
Filter(fields) ==
  LET key(d, part) == <<"Dimensions", d, part>>
      count == Members({d \in Places(fields) :
                          "" \notin {Get(fields, key(d, "Name")), Get(fields, key(d, "Value"))}})
  IN {[Name |-> fields[key(d, "Name")], Value |-> fields[key(d, "Value")]] : d \in 1 .. count}

\* The WHERE clause; a query without a namespace looks at all of them.
Selected(row, fields) ==
  /\ row.metric_name = fields[<<"MetricName">>]
  /\ Get(fields, <<"Namespace">>) \in {"", row.namespace}
  /\ InWindow(row, ParseIsoMs(fields[<<"StartTime">>]), ParseIsoMs(fields[<<"EndTime">>]))
  /\ Filter(fields) \subseteq row.dimensions

Bucket(row, period) == (row.timestamp_ms \div (period * Second)) * (period * Second)

\* What a query leaves out: a minute, the average.
Period(fields) == IF <<"Period">> \in Keys(fields) THEN fields[<<"Period">>] ELSE 60
Statistic(fields) == IF Get(fields, <<"Stat">>) = "" THEN "Average" ELSE fields[<<"Stat">>]

Refused(fields) ==
  \/ Get(fields, <<"MetricName">>) = "" \/ Period(fields) <= 0
  \/ Statistic(fields) \notin Statistics

\* GROUP BY bucket ORDER BY bucket, in one page without a token.
GetMetricData(fields) ==
  LET period == Period(fields)
      rows == {i \in DOMAIN metrics : Selected(metrics[i], fields)}
      buckets == Ascending({Bucket(metrics[i], period) : i \in rows})
      values(b) == LET of == Kept(metrics, {i \in rows : Bucket(metrics[i], period) = b})
                   IN [k \in DOMAIN of |-> of[k].value]
  IN [StatusCode |-> "Complete",
      Timestamps |-> [i \in DOMAIN buckets |-> FormatIso(buckets[i])],
      Values |-> [i \in DOMAIN buckets |-> Aggregate(Statistic(fields), values(buckets[i]))],
      NextToken |-> 0]

=============================================================================
