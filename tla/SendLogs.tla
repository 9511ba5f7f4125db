------------------------------ MODULE SendLogs ------------------------------
(***************************************************************************)
(* send_cloudwatch_logs over one chunk of rows (src/src/send_logs.cpp): the *)
(* rows become events, SortAndPlanCloudwatchPutEvents                      *)
(* (src/src/cloudwatch_json.cpp) sorts and splits them, and the batches    *)
(* are sent one after the other until one fails.                           *)
(*                                                                         *)
(* The service stores each PutLogEvents at most once (CloudwatchClient):   *)
(* wholly, partly (rejectedLogEventsInfo), or not at all, and the client   *)
(* cannot tell when the answer is lost.                                    *)
(***************************************************************************)
EXTENDS Selections

CONSTANTS
  Row,          \* non-NULL rows: message size and the two timestamp columns
  NullRow,      \* a NULL struct
  NoTime,       \* a timestamp column that is missing, NULL or unusable
  NowMs,        \* the execution time
  MaxCount,     \* CLOUDWATCH_PUT_MAX_EVENTS
  MaxBytes,     \* CLOUDWATCH_PUT_MAX_BYTES
  Overhead,     \* CLOUDWATCH_PUT_EVENT_OVERHEAD
  MaxSpan,      \* CLOUDWATCH_PUT_MAX_SPAN_MS
  MinInt,       \* the range of int64_t
  MaxInt,
  MaxChunk      \* bound on the rows of a chunk (STANDARD_VECTOR_SIZE)

Int64 == MinInt..MaxInt

ASSUME RowAssumption ==
  /\ Row \subseteq [size: Nat, timestamp: Int64 \cup {NoTime},
                    observed_timestamp: Int64 \cup {NoTime}]
  /\ NullRow \notin Row
  /\ NowMs \in Int64

ASSUME LimitAssumption ==
  /\ MaxCount \in Nat \ {0} /\ MaxSpan \in Nat /\ MaxChunk \in Nat
  /\ MaxBytes \in Nat /\ Overhead \in Nat /\ Overhead < MaxBytes
  /\ MinInt \in Int /\ MaxInt \in Int /\ MinInt <= 0 /\ MaxSpan <= MaxInt

VARIABLES
  rows,        \* the chunk
  pc,          \* where CloudwatchSendLogsFunction is
  events,      \* its events, sorted once planned
  batches,     \* the batches still to send
  result,      \* the result vector
  outcome,     \* how the function ended
  interrupted, \* context.interrupted
  stored,      \* the service: source rows in the order they were stored
  requests     \* the service: the batches it was sent

vars == <<rows, pc, events, batches, result, outcome, interrupted, stored,
          requests>>

Init ==
  /\ rows \in UNION {[1..n -> Row \cup {NullRow}] : n \in 1..MaxChunk}
  /\ pc = "plan"
  /\ events = << >> /\ batches = << >>
  /\ result = [r \in DOMAIN rows |-> "unset"]
  /\ outcome = "none"
  /\ interrupted = FALSE
  /\ stored = << >> /\ requests = << >>

----------------------------------------------------------------------------
(* The events and the plan.                                                *)

\* ReadTimestampMs, with its fallbacks.
TimestampMs(row) ==
  IF row.timestamp # NoTime THEN row.timestamp
  ELSE IF row.observed_timestamp # NoTime THEN row.observed_timestamp
  ELSE NowMs

\* One event per row that is not NULL.
Events ==
  {[source_row |-> r, size |-> rows[r].size, timestamp_ms |-> TimestampMs(rows[r])]
   : r \in {r \in DOMAIN rows : rows[r] # NullRow}}

\* A message that is empty, or too large for any batch, refuses the chunk.
Invalid(event) == event.size = 0 \/ event.size > MaxBytes - Overhead

\* Mutant: std::sort, which may swap events with equal timestamps.
PrecedesUnstable(e, f) ==
  \/ e.timestamp_ms < f.timestamp_ms
  \/ e.timestamp_ms = f.timestamp_ms /\ e.source_row > f.source_row

\* stable_sort by timestamp_ms of events in the order of their rows.
Precedes(e, f) ==
  \/ e.timestamp_ms < f.timestamp_ms
  \/ e.timestamp_ms = f.timestamp_ms /\ e.source_row < f.source_row

Sorted(set) ==
  CHOOSE q \in SetToSeqs(set) :
    \A i, j \in DOMAIN q : i < j => ~Precedes(q[j], q[i])

Bytes(q) ==
  LET sum[n \in 0..Len(q)] == IF n = 0 THEN 0 ELSE sum[n - 1] + q[n].size + Overhead
  IN sum[Len(q)]

\* int64_t addition as the build wraps it.
Wrap(n) == IF n > MaxInt THEN n - (MaxInt - MinInt + 1) ELSE n

\* Mutant: the sum is not guarded against overflow.
SpanExceededUnguarded(q, offset, end) ==
  q[end + 1].timestamp_ms > Wrap(q[offset + 1].timestamp_ms + MaxSpan)

\* The 24-hour test and its guard.
SpanExceeded(q, offset, end) ==
  /\ q[offset + 1].timestamp_ms <= MaxInt - MaxSpan
  /\ q[end + 1].timestamp_ms > q[offset + 1].timestamp_ms + MaxSpan

\* Mutant: the limit is looked at before the event is counted.
StopsLate(q, offset, end) ==
  \/ end = Len(q)
  \/ end - offset = MaxCount
  \/ /\ end > offset
     /\ \/ Bytes(SubSeq(q, offset + 1, end)) > MaxBytes
        \/ SpanExceeded(q, offset, end)

\* The inner loop ends at `end', the number of events before the next one.
Stops(q, offset, end) ==
  \/ end = Len(q)
  \/ end - offset = MaxCount
  \/ /\ end > offset
     /\ \/ Bytes(SubSeq(q, offset + 1, end + 1)) > MaxBytes
        \/ SpanExceeded(q, offset, end)

BatchEnd(q, offset) ==
  Min({end \in offset..Len(q) : Stops(q, offset, end)})

\* The outer loop: what it pushes from each offset on.
PlanFrom(q) ==
  LET from[offset \in 0..Len(q)] ==
        IF offset = Len(q) THEN << >>
        ELSE LET end == BatchEnd(q, offset)
             IN <<[offset |-> offset, count |-> end - offset]>> \o from[end]
  IN from

Plan(q) == PlanFrom(q)[0]

\* SortAndPlanCloudwatchPutEvents throws before anything is sent ...
Refuse ==
  /\ pc = "plan" /\ \E e \in Events : Invalid(e)
  /\ pc' = "done" /\ outcome' = "invalid"
  /\ UNCHANGED <<rows, events, batches, result, interrupted, stored, requests>>

\* ... or sorts and splits; a NULL row has a NULL result.
PlanBatches ==
  /\ pc = "plan" /\ \A e \in Events : ~Invalid(e)
  /\ pc' = "send"
  /\ events' = Sorted(Events)
  /\ batches' = Plan(events')
  /\ result' = [r \in DOMAIN rows |->
                  IF rows[r] = NullRow THEN "null" ELSE result[r]]
  /\ UNCHANGED <<rows, outcome, interrupted, stored, requests>>

----------------------------------------------------------------------------
(* Sending.                                                                *)

\* The events of a batch.
Slice(b) == SubSeq(events, b.offset + 1, b.offset + b.count)
SourceRows(q) == [i \in DOMAIN q |-> q[i].source_row]

End(how) ==
  /\ pc' = "done"
  /\ outcome' = how

\* Mutant: what a 200 says was rejected is not looked at.
PutAnswerIgnored(b, accepted) == TRUE

\* No rejectedLogEventsInfo: the batch was accepted as a whole.
PutAnswer(b, accepted) == Len(accepted) = b.count

\* One turn of the loop over the batches.  The service stores what it accepts
\* of the batch, in its order; an answer that is lost leaves the caller without,
\* and only an answered batch marks its rows.
SendBatch ==
  /\ pc = "send" /\ batches # << >>
  /\ ~interrupted
  /\ LET b == Head(batches)
     IN \E places \in SUBSET DOMAIN Slice(b), answer_lost \in BOOLEAN :
          LET accepted == Kept(Slice(b), places)
              answered == ~answer_lost /\ PutAnswer(b, accepted)
          IN /\ stored' = stored \o SourceRows(accepted)
             /\ requests' = Append(requests, Slice(b))
             /\ result' = [r \in DOMAIN rows |->
                  IF answered /\ r \in ToSet(SourceRows(Slice(b)))
                  THEN "ok" ELSE result[r]]
             /\ batches' = Tail(batches)
             /\ IF answered THEN UNCHANGED <<pc, outcome>> ELSE End("failed")
  /\ UNCHANGED <<rows, events, interrupted>>

SeeInterrupt ==
  /\ pc = "send" /\ batches # << >>
  /\ interrupted
  /\ End("interrupted")
  /\ UNCHANGED <<rows, events, batches, result, interrupted, stored, requests>>

Finish ==
  /\ pc = "send" /\ batches = << >>
  /\ End("ok")
  /\ UNCHANGED <<rows, events, batches, result, interrupted, stored, requests>>

Interrupt ==
  /\ ~interrupted /\ pc # "done"
  /\ interrupted' = TRUE
  /\ UNCHANGED <<rows, pc, events, batches, result, outcome, stored, requests>>

Next ==
  \/ Refuse \/ PlanBatches
  \/ SendBatch \/ SeeInterrupt \/ Finish \/ Interrupt

Spec == Init /\ [][Next]_vars

----------------------------------------------------------------------------
(* Properties.                                                             *)

\* A batch CloudWatch accepts, whatever the timestamps: "at most 10,000 events
\* and 1,048,576 bytes [...], with no batch spanning more than 24 hours"
\* (README.md:171).
Valid(q) ==
  /\ Len(q) \in 1..MaxCount
  /\ Bytes(q) <= MaxBytes
  /\ q[Len(q)].timestamp_ms - q[1].timestamp_ms <= MaxSpan
  /\ \A i \in 1..(Len(q) - 1) : q[i].timestamp_ms <= q[i + 1].timestamp_ms

\* Every request is one the service accepts, for timestamps up to both ends of
\* int64_t.
RequestsValid == \A i \in DOMAIN requests : Valid(requests[i])

\* No request is sent that a larger one would have saved: a batch could not
\* have taken the first event of the next one as well.
RequestsFull ==
  \A i \in 1..(Len(requests) - 1) :
    ~Valid(Append(requests[i], requests[i + 1][1]))

\* The service has the events in timestamp order and, for equal timestamps, in
\* the order of the rows, across all batches and whatever it rejected.
StoredInOrder ==
  \A i, j \in DOMAIN stored :
    i < j =>
      LET s == TimestampMs(rows[stored[i]])
          t == TimestampMs(rows[stored[j]])
      IN s < t \/ (s = t /\ stored[i] < stored[j])

\* A row that was stored and is not marked `ok' belongs to the last request:
\* "Earlier batches may already be stored if a later batch fails"
\* (README.md:181), but a failure leaves only its own batch in doubt, a row
\* marked `ok' is stored, and a chunk that succeeds is stored whole.
DoubtIsLastBatch ==
  LET last == IF requests = << >> THEN {}
              ELSE ToSet(SourceRows(requests[Len(requests)]))
  IN /\ \A r \in DOMAIN rows :
          /\ result[r] = "ok" => r \in ToSet(stored)
          /\ r \in ToSet(stored) /\ result[r] # "ok" => r \in last
     /\ outcome = "ok" =>
          \A r \in DOMAIN rows : result[r] = IF rows[r] = NullRow THEN "null" ELSE "ok"

=============================================================================
