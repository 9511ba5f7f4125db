------------------------------- MODULE LogScan -------------------------------
(***************************************************************************)
(* read_cloudwatch_logs (src/src/logs_table.cpp) paging through a log group *)
(* of the listener (FilterLogEvents in src/src/cloudwatch_server.cpp) that *)
(* other clients write to.  FilterLogEvents is one SELECT under            *)
(* writer_mutex, so a page is one step; a writer takes the id of an event  *)
(* before that lock and stores the event later (CloudwatchServer).         *)
(*                                                                         *)
(* The observers initial, inserted and deleted tell what the scan's window *)
(* held at its first page, and what happened to it since.                  *)
(***************************************************************************)
EXTENDS Naturals, Sequences, FiniteSets, SequencesExt

CONSTANTS
  Time,          \* timestamps, in milliseconds
  StartTime,     \* start_time of the scan, inclusive
  EndTime,       \* its end_time, exclusive; 0 for no end
  PageSize,      \* page_size
  MaxRowsChosen, \* the settings of max_rows to look at; 0 for no limit
  VectorSize,    \* STANDARD_VECTOR_SIZE
  NoToken,       \* an empty nextToken
  MaxEvents,     \* bound on the events written
  MaxRestarts    \* bound on the restarts of the listener

ASSUME ScanAssumption ==
  /\ Time \subseteq Nat /\ StartTime \in Nat /\ EndTime \in Nat
  /\ PageSize \in Nat \ {0} /\ VectorSize \in Nat \ {0}
  /\ MaxRowsChosen \subseteq Nat
  /\ NoToken \notin Nat

VARIABLES
  events,        \* the group's rows of the events table
  building,      \* events that have an id and are not stored yet
  event_counter, \* ids given out since the listener's object was built
  lifetime,      \* how many objects there were before it
  written,       \* how many events were written, against MaxEvents
  ascending,     \* the scan's order is `asc'
  max_rows,      \* its max_rows
  next_token,    \* CloudwatchLogsGlobalState.next_token
  buffer,        \* its buffer
  emitted,       \* the rows given to DuckDB; total_emitted is their number
  finished,      \* its finished
  failed,        \* a page could not be read: the statement throws
  started,       \* observer: a page was asked for
  initial,       \* observer: the rows in the window at the first page
  inserted,      \* observer: one was stored since
  deleted        \* observer: some were deleted since

listener == <<events, building, event_counter, lifetime, written>>
settings == <<ascending, max_rows>>
cursor == <<next_token, buffer, emitted, finished, failed>>
observed == <<started, initial, inserted, deleted>>
vars == <<listener, settings, cursor, observed>>

\* lifetime tells rows apart that an id does not.
Row == [timestamp_ms: Time, event_id: Nat, lifetime: Nat]

Init ==
  /\ events = {} /\ building = {}
  /\ event_counter = 0 /\ lifetime = 0 /\ written = 0
  /\ ascending \in BOOLEAN /\ max_rows \in MaxRowsChosen
  /\ next_token = NoToken
  /\ buffer = << >> /\ emitted = << >>
  /\ finished = FALSE /\ failed = FALSE
  /\ started = FALSE /\ initial = {} /\ inserted = FALSE /\ deleted = FALSE

----------------------------------------------------------------------------
(* FilterLogEvents.                                                        *)

\* The WHERE clause; an endTime of 0 is no end.
InWindow(e) ==
  e.timestamp_ms >= StartTime /\ (EndTime > 0 => e.timestamp_ms < EndTime)

Matching == {e \in events : InWindow(e)}

SameKey(e, f) == e.timestamp_ms = f.timestamp_ms /\ e.event_id = f.event_id

Before(e, f) ==
  LET less(x, y) == \/ x.timestamp_ms < y.timestamp_ms
                    \/ x.timestamp_ms = y.timestamp_ms /\ x.event_id < y.event_id
  IN IF ascending THEN less(e, f) ELSE less(f, e)

\* ORDER BY timestamp_ms, event_id: any order of rows that agree in both.
Orderings(rows) ==
  {q \in SetToSeqs(rows) :
     \A i, j \in DOMAIN q : i < j => ~Before(q[j], q[i])}

\* Mutant: LIMIT limit, without the row that shows there are more.
RowFollowsNever(rows, offset, limit) == FALSE

\* LIMIT limit + 1 OFFSET offset: the page, and whether a row follows it.
RowFollows(rows, offset, limit) == Len(rows) > offset + limit

Page(rows, offset, limit) ==
  SubSeq(rows, offset + 1, Min({offset + limit, Len(rows)}))
\* Mutants: the token counts the row that was only looked at, or one too few.
NextTokenSkips(offset, page) == offset + Len(page) + 1
NextTokenRepeats(offset, page) == offset + Len(page) - 1

NextToken(offset, page) == offset + Len(page)

----------------------------------------------------------------------------
(* FetchNextPage and CloudwatchLogsScan.                                   *)

\* Mutant: what is buffered or emitted does not count.
PageLimitEach(taken) ==
  IF max_rows = 0 \/ PageSize <= max_rows THEN PageSize ELSE max_rows

\* taken is what was buffered and emitted.
PageLimit(taken) ==
  IF max_rows = 0 THEN PageSize
  ELSE IF taken >= max_rows THEN 0
  ELSE IF PageSize <= max_rows - taken THEN PageSize ELSE max_rows - taken

Taken == Len(emitted) + Len(buffer)

\* Mutant: a page without rows does not end the scan.
AdvanceOnRows(token, taken) ==
  IF token = NoToken /\ taken = Taken THEN UNCHANGED <<next_token, finished>>
  ELSE IF token = NoToken \/ token = next_token \/ PageLimit(taken) = 0
  THEN finished' = TRUE /\ UNCHANGED next_token
  ELSE next_token' = token /\ UNCHANGED finished

\* No token, the same token again, or max_rows reached ends the scan.
Advance(token, taken) ==
  IF token = NoToken \/ token = next_token \/ PageLimit(taken) = 0
  THEN finished' = TRUE /\ UNCHANGED next_token
  ELSE next_token' = token /\ UNCHANGED finished

ReadPage(limit) ==
  LET offset == IF next_token = NoToken THEN 0 ELSE next_token
  IN \E rows \in Orderings(Matching) :
       LET page == Page(rows, offset, limit)
           token == IF RowFollows(rows, offset, limit)
                    THEN NextToken(offset, page) ELSE NoToken
       IN /\ buffer' = buffer \o page
          /\ Advance(token, Taken + Len(page))

\* observer: what the window held when the first page was read.
ObserveStart ==
  /\ started' = TRUE
  /\ initial' = IF started THEN initial ELSE Matching
  /\ UNCHANGED <<inserted, deleted>>

FetchNextPage ==
  /\ buffer = << >> /\ ~finished
  /\ \/ /\ PageLimit(Taken) = 0
        /\ finished' = TRUE
        /\ UNCHANGED <<next_token, buffer>>
     \/ PageLimit(Taken) > 0 /\ ReadPage(PageLimit(Taken))
  /\ ObserveStart
  /\ UNCHANGED <<listener, settings, emitted, failed>>

\* FilterLogEvents throws, its retries used up.
PageFails ==
  /\ buffer = << >> /\ ~finished /\ PageLimit(Taken) > 0
  /\ failed' = TRUE /\ finished' = TRUE
  /\ UNCHANGED <<listener, settings, next_token, buffer, emitted, observed>>

\* CloudwatchLogsScan fills one chunk from the buffer.
EmitChunk ==
  /\ buffer # << >>
  /\ LET count == IF Len(buffer) < VectorSize THEN Len(buffer) ELSE VectorSize
         capped == max_rows > 0 /\ Len(emitted) + count >= max_rows
     IN /\ emitted' = emitted \o
             SubSeq(buffer, 1, IF capped THEN max_rows - Len(emitted) ELSE count)
        /\ buffer' = IF capped THEN << >> ELSE SubSeq(buffer, count + 1, Len(buffer))
        /\ finished' = (finished \/ capped)
  /\ UNCHANGED <<listener, settings, next_token, failed, observed>>

----------------------------------------------------------------------------
(* The other clients of the listener.                                      *)

\* PutLogEvents takes the next id ...
TakeEventId ==
  /\ written < MaxEvents
  /\ \E t \in Time :
       building' = building \cup {[timestamp_ms |-> t, lifetime |-> lifetime,
                                   event_id |-> event_counter + 1]}
  /\ event_counter' = event_counter + 1
  /\ written' = written + 1
  /\ UNCHANGED <<events, lifetime, settings, cursor, observed>>

\* ... and appends the event under writer_mutex.
StoreEvent ==
  /\ \E e \in building :
       /\ events' = events \cup {e}
       /\ building' = building \ {e}
       /\ inserted' = (inserted \/ (started /\ InWindow(e)))
  /\ UNCHANGED <<event_counter, lifetime, written, settings, cursor,
                 started, initial, deleted>>

\* DeleteLogGroup's second statement.
DeleteEvents ==
  /\ events # {}
  /\ events' = {}
  /\ deleted' = (deleted \/ (started /\ Matching # {}))
  /\ UNCHANGED <<building, event_counter, lifetime, written, settings, cursor,
                 started, initial, inserted>>

\* The listener is stopped or dies and is started on the same tables.
Restart ==
  /\ lifetime < MaxRestarts
  /\ lifetime' = lifetime + 1
  /\ event_counter' = 0
  /\ building' = {}
  /\ UNCHANGED <<events, written, settings, cursor, observed>>

Scan == FetchNextPage \/ EmitChunk

Next ==
  \/ Scan \/ PageFails
  \/ TakeEventId \/ StoreEvent \/ DeleteEvents \/ Restart

Spec == Init /\ [][Next]_vars

----------------------------------------------------------------------------
(* Properties.                                                             *)

Result == emitted \o buffer

DistinctKeys(rows) == \A e, f \in rows : SameKey(e, f) => e = f

Repeats(q) == \E i, j \in DOMAIN q : i # j /\ q[i] = q[j]

\* Types; what is buffered and emitted never exceeds max_rows.
TypeOK ==
  /\ events \subseteq Row /\ building \subseteq Row
  /\ event_counter \in Nat /\ lifetime \in Nat /\ written \in Nat
  /\ ascending \in BOOLEAN /\ max_rows \in Nat
  /\ next_token \in Nat \cup {NoToken}
  /\ buffer \in Seq(Row) /\ emitted \in Seq(Row)
  /\ finished \in BOOLEAN /\ failed \in BOOLEAN
  /\ started \in BOOLEAN /\ initial \subseteq Row
  /\ inserted \in BOOLEAN /\ deleted \in BOOLEAN
  /\ max_rows > 0 => Taken <= max_rows

Over == finished /\ ~failed

\* Over a group that nobody changes meanwhile, the pages put together are the
\* rows of the window in the order asked for, cut at max_rows: no page boundary
\* repeats or skips a row.
ScanExact ==
  Over /\ ~inserted /\ ~deleted /\ DistinctKeys(initial) =>
    \E rows \in Orderings(initial) :
      Result = IF max_rows = 0 THEN rows ELSE Page(rows, 0, max_rows)

\* An offset is a poor cursor, yet events stored during the scan only push rows
\* to later pages: without a delete, every row of the window at the first page
\* is returned.
InsertsNeverSkip ==
  Over /\ ~deleted /\ max_rows = 0 /\ DistinctKeys(Matching) =>
    initial \subseteq ToSet(Result)

\* Nor does a delete during the scan make it return a row twice.
DeletesNeverRepeat ==
  started /\ ~inserted /\ DistinctKeys(initial) => ~Repeats(Result)

\* "event_id breaks ties so pagination cannot repeat or skip rows sharing a
\* timestamp" (cloudwatch_server.cpp:1038), here for a group that nobody changes
\* during the scan.
TiesBroken ==
  Over /\ ~inserted /\ ~deleted /\ max_rows = 0 =>
    ToSet(Result) = initial /\ ~Repeats(Result)

=============================================================================
