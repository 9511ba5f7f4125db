---------------------------- MODULE SendMetrics ----------------------------
(***************************************************************************)
(* send_cloudwatch_metrics (src/src/send_metrics.cpp) over one chunk: its  *)
(* rows become datums, the datums requests of PutMetricData, and a request *)
(* that ran is never sent again (CloudwatchClient, RemoteCall).  A caller  *)
(* that gives up leaves its request on the way, to be served or lost.      *)
(***************************************************************************)
EXTENDS MetricStore

CONSTANTS
  Chunks,          \* the chunks to look at: sequences of rows
  NaN,             \* a reading that is not finite
  BadJson,         \* metric_attributes that are not JSON
  DatumBytes,      \* EstimateDatumBytes' share of a datum,
  DimensionBytes,  \* of each of its dimensions
  MaxDatums,       \* MAX_DATUMS_PER_REQUEST
  MaxRequestBytes, \* MAX_REQUEST_BYTES
  MaxDimensions    \* MAX_DIMENSIONS

\* A row that is not NULL: size stands for the lengths of its strings, attributes
\* for the members of the JSON object, of which those that are no string are Absent.
Row ==
  [name : STRING, value : {Absent, NaN} \cup Int, timestamp : {Absent} \cup Int, service : STRING,
   attributes : {BadJson} \cup Seq([Name : STRING, Value : {Absent} \cup STRING]), size : Nat]

SendAssumption ==
  /\ StoreAssumption
  /\ Chunks \subseteq Seq({Absent} \cup Row)
  /\ Absent \notin {"ok", "error"}
  /\ {DatumBytes, MaxDatums, MaxRequestBytes} \subseteq Nat \ {0}
  /\ {DimensionBytes, MaxDimensions} \subseteq Nat

VARIABLES
  chunk,       \* the rows of the chunk
  phase,       \* "reading", "sending", "waiting", "done" or "failed"
  datums,      \* the function's datums
  offset,      \* its offset
  result,      \* its result, one entry per row
  in_flight,   \* a request on its way to the service; Absent if none
  answer,      \* the answer on its way back; Absent if none
  interrupted  \* ClientContext.interrupted

send_vars == <<chunk, phase, datums, offset, result, in_flight, answer, interrupted>>
vars == <<metrics, send_vars>>

Init ==
  /\ chunk \in Chunks /\ phase = "reading"
  /\ datums = << >> /\ offset = 0 /\ result = [i \in DOMAIN chunk |-> ""]
  /\ in_flight = Absent /\ answer = Absent /\ interrupted = FALSE

----------------------------------------------------------------------------
(* The rows.                                                               *)

IsRow(row) == row # Absent

\* No value, or none that casts to DOUBLE, is no reading.
HasReading(row) == IsRow(row) /\ row.value # Absent

TimestampSeconds(row) ==
  IF row.timestamp = Absent THEN NowMs \div Second ELSE row.timestamp

\* service.name first, then the attributes that are strings.
CollectDimensions(row) ==
  (IF row.service = "" THEN << >> ELSE <<[Name |-> "service.name", Value |-> row.service]>>)
    \o Kept(row.attributes, {a \in DOMAIN row.attributes : row.attributes[a].Value # Absent})

\* An empty name in any row, JSON that does not parse or too many dimensions in
\* one with a reading: the function throws.
Unacceptable(row) ==
  \/ IsRow(row) /\ row.name = ""
  \/ HasReading(row) /\ row.attributes = BadJson
  \/ /\ HasReading(row) /\ row.attributes # BadJson
     /\ Len(CollectDimensions(row)) > MaxDimensions

Datum(i) ==
  [source_row |-> i, name |-> chunk[i].name, value |-> chunk[i].value,
   timestamp_seconds |-> TimestampSeconds(chunk[i]),
   dimensions |-> CollectDimensions(chunk[i]), size |-> chunk[i].size]

\* The rows with a reading, in their order.
Readings == Ascending({i \in DOMAIN chunk : HasReading(chunk[i])})

\* The loop over the rows, before anything is sent.
ReadRows ==
  /\ phase = "reading"
  /\ IF \E i \in DOMAIN chunk : Unacceptable(chunk[i])
     THEN phase' = "failed" /\ UNCHANGED <<datums, result>>
     ELSE /\ phase' = "sending"
          /\ datums' = [k \in DOMAIN Readings |-> Datum(Readings[k])]
          /\ result' = [i \in DOMAIN chunk |-> IF HasReading(chunk[i]) THEN "" ELSE "NULL"]
  /\ UNCHANGED <<metrics, chunk, offset, in_flight, answer, interrupted>>

----------------------------------------------------------------------------
(* The requests.                                                           *)

EstimateDatumBytes(datum) ==
  DatumBytes + datum.size + DimensionBytes * Len(datum.dimensions)

Bytes(batch) == FoldSeq(LAMBDA d, sum : EstimateDatumBytes(d) + sum, 0, batch)

\* The longest batch within both limits, a single datum at least.
Batch ==
  Max({n \in 1 .. Min({MaxDatums, Len(datums) - offset}) :
         n = 1 \/ Bytes(SubSeq(datums, offset + 1, offset + n)) <= MaxRequestBytes})

BuildPutMetricDataRequest(from, count) ==
  [Namespace |-> "ns", MetricData |-> SubSeq(datums, from + 1, from + count)]

\* A value that is not finite cannot be written: neither JSON nor
\* FormatQueryDouble takes it.
Unwritable(body) == \E i \in DOMAIN body.MetricData : body.MetricData[i].value = NaN

FormatQueryTimestamp(seconds) == [iso |-> seconds]

\* BuildMonitoringQueryBody flattens the JSON to keys; an empty array has none.
FormBody(body) ==
  LET data == body.MetricData
      parts(i) == [MetricName |-> data[i].name, Value |-> data[i].value,
                   Timestamp |-> FormatQueryTimestamp(data[i].timestamp_seconds),
                   source_row |-> data[i].source_row]
      dimensions(i) == {"MetricData"} \X {i} \X {"Dimensions"}
                         \X (DOMAIN data[i].dimensions) \X {"Name", "Value"}
      keys == {<<"Namespace">>}
                \cup ({"MetricData"} \X (DOMAIN data) \X {"MetricName", "Timestamp", "Value", "source_row"})
                \cup UNION {dimensions(i) : i \in DOMAIN data}
      at(key) == IF Len(key) = 1 THEN body.Namespace
                 ELSE IF Len(key) = 5 THEN data[key[2]].dimensions[key[4]][key[5]]
                 ELSE parts(key[2])[key[3]]
  IN [key \in keys |-> at(key)]

SendBatch ==
  /\ phase = "sending" /\ offset < Len(datums) /\ ~interrupted
  /\ LET body == BuildPutMetricDataRequest(offset, Batch)
     IN IF Unwritable(body)
        THEN phase' = "failed" /\ UNCHANGED in_flight
        ELSE phase' = "waiting" /\ in_flight' = FormBody(body)
  /\ UNCHANGED <<metrics, chunk, datums, offset, result, answer, interrupted>>

\* The service serves the request, or fails at it and stores nothing.
Serve ==
  /\ in_flight # Absent
  /\ \/ PutMetricData(in_flight) /\ answer' = "ok"
     \/ answer' = "error" /\ UNCHANGED metrics
  /\ in_flight' = Absent
  /\ UNCHANGED <<chunk, phase, datums, offset, result, interrupted>>

\* The network loses a request.
Lose ==
  /\ in_flight # Absent
  /\ in_flight' = Absent
  /\ UNCHANGED <<metrics, chunk, phase, datums, offset, result, answer, interrupted>>

\* Mutant: the next request starts where a full one would have ended.
AdvancedFull == Min({offset + MaxDatums, Len(datums)})

\* offset += batch.
Advanced == offset + Batch

\* Each row of a batch that was accepted is `ok'.
Receive ==
  /\ phase = "waiting" /\ answer # Absent
  /\ IF answer = "ok"
     THEN /\ result' = [i \in DOMAIN result |->
               IF \E k \in 1 .. Batch : datums[offset + k].source_row = i
               THEN "ok" ELSE result[i]]
          /\ offset' = Advanced /\ phase' = "sending"
     ELSE phase' = "failed" /\ UNCHANGED <<result, offset>>
  /\ answer' = Absent
  /\ UNCHANGED <<metrics, chunk, datums, in_flight, interrupted>>

\* A timeout, a lost connection or an interrupt: the client throws, whatever
\* becomes of its request.
GiveUp ==
  /\ phase = "waiting"
  /\ phase' = "failed"
  /\ UNCHANGED <<metrics, chunk, datums, offset, result, in_flight, answer, interrupted>>

SeeInterrupt ==
  /\ phase = "sending" /\ offset < Len(datums) /\ interrupted
  /\ phase' = "failed"
  /\ UNCHANGED <<metrics, chunk, datums, offset, result, in_flight, answer, interrupted>>

Finish ==
  /\ phase = "sending" /\ offset >= Len(datums)
  /\ phase' = "done"
  /\ UNCHANGED <<metrics, chunk, datums, offset, result, in_flight, answer, interrupted>>

Interrupt ==
  /\ ~interrupted /\ phase \notin {"done", "failed"}
  /\ interrupted' = TRUE
  /\ UNCHANGED <<metrics, chunk, phase, datums, offset, result, in_flight, answer>>

Next ==
  \/ ReadRows \/ SendBatch \/ Serve \/ Lose \/ Receive \/ GiveUp
  \/ SeeInterrupt \/ Finish \/ Interrupt

Spec == Init /\ metrics = << >> /\ [][Next]_vars

----------------------------------------------------------------------------
(* Properties.                                                             *)

Stored == [k \in DOMAIN metrics |-> metrics[k].source_row]
Accepted == {i \in DOMAIN result : result[i] = "ok"}

\* Every reading is stored at most once and in order, an initial part of the
\* chunk's readings: a statement that ends well stored them all, and no row
\* without one; a statement that fails leaves no gap, and of what it stored it was
\* told of everything but one request, which then is the one it failed at
\* (send_metrics.cpp:363).
SentOnce ==
  /\ IsPrefix(Stored, Readings)
  /\ Accepted \subseteq ToSet(Stored)
  /\ phase = "done" => Stored = Readings /\ Accepted = ToSet(Readings)
  /\ Cardinality(ToSet(Stored) \ Accepted) <= MaxDatums
  /\ phase \in {"sending", "done"} => ToSet(Stored) = Accepted
  /\ (\E i \in DOMAIN chunk : Unacceptable(chunk[i])) => Stored = << >>

=============================================================================
