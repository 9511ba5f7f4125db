----------------------- MODULE CloudwatchReadersProofs -----------------------
(***************************************************************************)
(* Proofs about the readers: those that follow pages (the log reader, the  *)
(* alarm reader, the service map and the catalog), for any writers, page   *)
(* sizes, limits and numbers of changes, and Logs Insights, which polls.   *)
(***************************************************************************)
EXTENDS CloudwatchReaders, LogsInsights, SequenceLemmas

----------------------------------------------------------------------------
(* The log scan: its order.                                                *)

\* Before, with the order of the scan as an argument.
Less(asc, e, f) ==
  LET less(x, y) == \/ x.timestamp_ms < y.timestamp_ms
                    \/ x.timestamp_ms = y.timestamp_ms /\ x.event_id < y.event_id
  IN IF asc THEN less(e, f) ELSE less(f, e)

Along(asc, S) == {p \in S \X S : Less(asc, p[1], p[2])}

\* Rows that differ in timestamp or id are strictly ordered.
LEMMA AlongOrdered ==
  ASSUME NEW S, S \subseteq Row, DistinctKeys(S), NEW asc \in BOOLEAN
  PROVE  StrictlyOrdered(Along(asc, S), S)
<1>1. \A e \in S : e.timestamp_ms \in Nat /\ e.event_id \in Nat
  BY ScanAssumption DEF Row
<1>2. \A e, f \in S : <<e, f>> \in Along(asc, S) <=> Less(asc, e, f)
  BY DEF Along
<1>3. \A e \in S : ~Less(asc, e, e)
  BY <1>1 DEF Less
<1>4. \A e, f, g \in S : Less(asc, e, f) /\ Less(asc, f, g) => Less(asc, e, g)
  BY <1>1 DEF Less
<1>5. \A e, f \in S : e # f => Less(asc, e, f) \/ Less(asc, f, e)
  BY <1>1 DEF Less, DistinctKeys, SameKey
<1> QED
  BY <1>2, <1>3, <1>4, <1>5 DEF StrictlyOrdered

\* What the listener answers is a listing along that order.
LEMMA OrderingsAlong ==
  ASSUME NEW S, S \subseteq Row, IsFiniteSet(S), NEW q
  PROVE  q \in Orderings(S) <=> ListsAlong(q, S, Along(ascending, S))
<1>1. ASSUME q \in SetToSeqs(S), NEW i \in DOMAIN q, NEW j \in DOMAIN q
      PROVE  Before(q[j], q[i]) <=> <<q[j], q[i]>> \in Along(ascending, S)
  <2>1. q[i] \in S /\ q[j] \in S
    BY <1>1 DEF SetToSeqs
  <2> QED
    BY <2>1 DEF Before, Along, Less
<1> QED
  BY <1>1 DEF Orderings, ListsAlong

\* A group has one ordering at most if its keys are distinct.
LEMMA OrderingUnique ==
  ASSUME NEW S, S \subseteq Row, IsFiniteSet(S), DistinctKeys(S), ascending \in BOOLEAN,
         NEW p \in Orderings(S), NEW q \in Orderings(S)
  PROVE  p = q
  BY OrderingsAlong, AlongOrdered, ListingUnique

\* What an ordering is as a sequence.
LEMMA OrderingType ==
  ASSUME NEW S, S \subseteq Row, IsFiniteSet(S), NEW q \in Orderings(S)
  PROVE  /\ q \in Seq(Row) /\ Len(q) = Cardinality(S) /\ Len(q) \in Nat
         /\ \A i \in 1 .. Len(q) : q[i] \in S
         /\ \A i, j \in 1 .. Len(q) : q[i] = q[j] => i = j
         /\ \A e \in S : \E i \in 1 .. Len(q) : q[i] = e
<1>1. q \in SetToSeqs(S)
  BY DEF Orderings
<1>2. /\ q \in Seq(S) /\ Len(q) = Cardinality(S) /\ Cardinality(S) \in Nat
      /\ DOMAIN q = 1 .. Cardinality(S)
      /\ \A i, j \in DOMAIN q : q[i] = q[j] => i = j
      /\ \A e \in S : \E i \in DOMAIN q : q[i] = e
  BY <1>1, ListsAll
<1> QED
  BY <1>2

----------------------------------------------------------------------------
(* Its pages.                                                              *)

\* A page ends at its limit or with the last row.
LEMMA PageEnd ==
  ASSUME NEW a \in Nat, NEW b \in Nat
  PROVE  Min({a, b}) = IF a <= b THEN a ELSE b
<1>1. Min({a, b}) \in {a, b} /\ \A y \in {a, b} : Min({a, b}) <= y
  <2>1. {a, b} \in SUBSET Nat /\ {a, b} # {}
    OBVIOUS
  <2> QED
    BY <2>1, MinNat
<1> QED
  BY <1>1

\* A page has at most limit rows, and those that follow the offset.
LEMMA PageType ==
  ASSUME NEW q \in Seq(Row), NEW offset \in Nat, NEW limit \in Nat
  PROVE  /\ Page(q, offset, limit) \in Seq(Row)
         /\ Len(Page(q, offset, limit)) =
              IF Len(q) <= offset THEN 0
              ELSE IF Len(q) <= offset + limit THEN Len(q) - offset ELSE limit
         /\ \A i \in 1 .. Len(Page(q, offset, limit)) :
              Page(q, offset, limit)[i] = q[offset + i]
<1> DEFINE last == IF offset + limit <= Len(q) THEN offset + limit ELSE Len(q)
<1>1. Len(q) \in Nat /\ offset + limit \in Nat
  OBVIOUS
<1>2. Page(q, offset, limit) = SubSeq(q, offset + 1, last)
  BY <1>1, PageEnd DEF Page
<1>3. \A i \in offset + 1 .. last : q[i] \in Row
  BY <1>1
<1>4. offset + 1 \in Int /\ last \in Int
  BY <1>1
<1> HIDE DEF last
<1>5. /\ SubSeq(q, offset + 1, last) \in Seq(Row)
      /\ Len(SubSeq(q, offset + 1, last)) =
           IF offset + 1 <= last THEN last - (offset + 1) + 1 ELSE 0
      /\ \A i \in 1 .. last - (offset + 1) + 1 :
           SubSeq(q, offset + 1, last)[i] = q[offset + 1 + i - 1]
  BY <1>3, <1>4, SubSeqProperties
<1>6. Len(Page(q, offset, limit)) = IF offset + 1 <= last THEN last - offset ELSE 0
  BY <1>2, <1>4, <1>5
<1>7. \A i \in 1 .. Len(Page(q, offset, limit)) :
        Page(q, offset, limit)[i] = q[offset + i]
  <2> TAKE i \in 1 .. Len(Page(q, offset, limit))
  <2>1. i \in 1 .. last - (offset + 1) + 1 /\ offset + 1 + i - 1 = offset + i
    BY <1>4, <1>6
  <2> QED
    BY <1>2, <1>5, <2>1
<1> QED
  BY <1>1, <1>2, <1>5, <1>6, <1>7 DEF last

\* A page continues what was read of the same ordering.
LEMMA PageContinues ==
  ASSUME NEW q \in Seq(Row), NEW n \in Nat, n <= Len(q), NEW limit \in Nat
  PROVE  SubSeq(q, 1, n) \o Page(q, n, limit)
           = SubSeq(q, 1, IF Len(q) <= n + limit THEN Len(q) ELSE n + limit)
<1> DEFINE last == IF Len(q) <= n + limit THEN Len(q) ELSE n + limit
<1>1. Len(q) \in Nat /\ n + limit \in Nat
  OBVIOUS
<1>2. Page(q, n, limit) = SubSeq(q, n + 1, last)
  BY <1>1, PageEnd DEF Page
<1>3. 1 \in 1 .. Len(q) + 1 /\ n \in 1 - 1 .. Len(q) /\ last \in n .. Len(q)
  BY <1>1
<1> HIDE DEF last
<1>4. SubSeq(q, 1, n) \o SubSeq(q, n + 1, last) = SubSeq(q, 1, last)
  BY <1>3, ConcatAdjacentSubSeq
<1> QED
  BY <1>2, <1>4 DEF last

----------------------------------------------------------------------------
(* What a step of the scan does to the rows it has.                        *)

\* The tables are finite.
FiniteInv == IsFiniteSet(events) /\ IsFiniteSet(initial)

\* The cursor is the number of rows read so far; nothing is known, and nothing
\* has happened to the window, before the first page.
CursorInv ==
  /\ ~started => /\ Result = << >> /\ next_token = NoToken /\ finished = failed
                 /\ ~inserted /\ ~deleted /\ initial = {}
  /\ ~finished => /\ Len(Result) = IF next_token = NoToken THEN 0 ELSE next_token
                  /\ ~failed

\* Matching rows are rows.
LEMMA MatchingType ==
  ASSUME TypeOK, FiniteInv
  PROVE  Matching \subseteq Row /\ IsFiniteSet(Matching)
<1>1. Matching \in SUBSET events
  BY DEF Matching
<1> QED
  BY <1>1, FS_Subset DEF TypeOK, FiniteInv

\* The rows so far are rows.
LEMMA ResultType ==
  ASSUME TypeOK
  PROVE  /\ Result \in Seq(Row)
         /\ Len(Result) = Len(emitted) + Len(buffer)
         /\ Len(Result) \in Nat /\ Taken = Len(Result)
<1>1. emitted \in Seq(Row) /\ buffer \in Seq(Row)
  BY DEF TypeOK
<1> QED
  BY <1>1, ConcatProperties DEF Result, Taken

\* The limit of a page is a number, and keeps the scan within max_rows.
LEMMA PageLimitType ==
  ASSUME max_rows \in Nat, NEW taken \in Nat
  PROVE  /\ PageLimit(taken) \in Nat
         /\ PageLimit(taken) = 0 => max_rows > 0 /\ taken >= max_rows
         /\ max_rows > 0 /\ taken <= max_rows => taken + PageLimit(taken) <= max_rows
         /\ max_rows > 0 /\ taken < max_rows => PageLimit(taken) > 0
  BY ScanAssumption DEF PageLimit

\* The page that was read continues at the cursor, and why the scan is over.
PageRead(q, limit, page) ==
  /\ page = Page(q, Len(Result), limit)
  /\ Result' = Result \o page /\ emitted' = emitted /\ buffer' = page
  /\ next_token' \in Nat \cup {NoToken} /\ finished' \in BOOLEAN
  /\ limit > 0 /\ (max_rows > 0 => Len(Result) + limit <= max_rows)
  /\ \/ /\ ~finished' /\ Len(q) > Len(Result) + limit
        /\ next_token' = Len(Result) + limit /\ Len(page) = limit
     \/ finished' /\ Len(q) <= Len(Result) + limit
     \/ finished' /\ max_rows > 0 /\ Len(Result) + Len(page) >= max_rows

\* FetchNextPage reads a page, or nothing because max_rows is reached.
LEMMA FetchEffect ==
  ASSUME TypeOK, FiniteInv, CursorInv, FetchNextPage
  PROVE  \/ /\ max_rows > 0 /\ Len(Result) >= max_rows
            /\ finished' = TRUE /\ Result' = Result /\ UNCHANGED <<next_token, buffer>>
         \/ \E q \in Orderings(Matching), limit \in Nat, page \in Seq(Row) :
              PageRead(q, limit, page)
<1>1. buffer = << >> /\ ~finished /\ emitted' = emitted
  BY DEF FetchNextPage
<1>2. /\ emitted \in Seq(Row) /\ max_rows \in Nat
      /\ Result \in Seq(Row) /\ Taken = Len(Result) /\ Len(Result) \in Nat
      /\ next_token \in Nat \cup {NoToken}
  BY ResultType DEF TypeOK
<1>3. Result = emitted
  BY <1>1, <1>2, ConcatEmptySeq DEF Result
<1>4. CASE /\ PageLimit(Taken) = 0
           /\ finished' = TRUE
           /\ UNCHANGED <<next_token, buffer>>
  <2>1. Result' = Result
    BY <1>1, <1>4 DEF Result
  <2>2. max_rows > 0 /\ Len(Result) >= max_rows
    BY <1>2, <1>4, PageLimitType
  <2> QED
    BY <1>4, <2>1, <2>2
<1>5. CASE PageLimit(Taken) > 0 /\ ReadPage(PageLimit(Taken))
  <2> DEFINE limit == PageLimit(Taken)
             offset == IF next_token = NoToken THEN 0 ELSE next_token
  <2>1. offset = Len(Result)
    BY <1>1 DEF CursorInv
  <2>2. /\ limit \in Nat /\ limit > 0
        /\ max_rows > 0 => Len(Result) + limit <= max_rows
    <3>1. max_rows > 0 => Len(Result) <= max_rows
      BY <1>2 DEF TypeOK
    <3> QED
      BY <1>2, <1>5, <3>1, PageLimitType
  <2> HIDE DEF limit
  <2>3. PICK q \in Orderings(Matching) :
          LET page == Page(q, offset, limit)
              token_ == IF RowFollows(q, offset, limit)
                        THEN NextToken(offset, page) ELSE NoToken
          IN /\ buffer' = buffer \o page
             /\ Advance(token_, Taken + Len(page))
    BY <1>5 DEF ReadPage, limit
  <2> HIDE DEF offset
  <2> DEFINE page == Page(q, Len(Result), limit)
             token_ == IF RowFollows(q, Len(Result), limit)
                       THEN NextToken(Len(Result), page) ELSE NoToken
  <2>4. q \in Seq(Row) /\ Len(q) \in Nat
    BY MatchingType, OrderingType
  <2>5. /\ page \in Seq(Row)
        /\ Len(page) = IF Len(q) <= Len(Result) THEN 0
                       ELSE IF Len(q) <= Len(Result) + limit THEN Len(q) - Len(Result)
                       ELSE limit
    BY <1>2, <2>2, <2>4, PageType
  <2>6. buffer' = buffer \o page /\ Advance(token_, Len(Result) + Len(page))
    BY <1>2, <2>1, <2>3
  <2> HIDE DEF page
  <2>7. Result' = Result \o page /\ emitted' = emitted /\ buffer' = page
    <3>1. buffer' = page
      BY <1>1, <2>5, <2>6, ConcatEmptySeq
    <3> QED
      BY <1>1, <1>3, <3>1 DEF Result
  <2>8. /\ Len(page) \in Nat
        /\ PageLimit(Len(Result) + Len(page)) = 0
             => max_rows > 0 /\ Len(Result) + Len(page) >= max_rows
    <3>1. Len(page) \in Nat
      BY <2>5
    <3>2. Len(Result) + Len(page) \in Nat
      BY <1>2, <3>1
    <3> QED
      BY <1>2, <3>1, <3>2, PageLimitType
  <2>9. CASE RowFollows(q, Len(Result), limit)
    <3>1. Len(q) > Len(Result) + limit /\ Len(page) = limit
      BY <1>2, <2>2, <2>4, <2>5, <2>9 DEF RowFollows
    <3>2. token_ = Len(Result) + limit /\ token_ # NoToken
      BY <1>2, <2>2, <2>9, <3>1, ScanAssumption DEF NextToken
    <3>3. token_ # next_token
      <4>1. Len(Result) = IF next_token = NoToken THEN 0 ELSE next_token
        BY <1>1 DEF CursorInv
      <4> QED
        BY <1>2, <2>2, <3>2, <4>1
    <3>4. \/ /\ finished' = TRUE /\ PageLimit(Len(Result) + Len(page)) = 0
             /\ UNCHANGED next_token
          \/ next_token' = token_ /\ finished' = finished
      BY <2>6, <3>2, <3>3 DEF Advance
    <3>5. PageRead(q, limit, page)
      <4>1. page = Page(q, Len(Result), limit)
        BY DEF page
      <4>2. CASE finished' = TRUE /\ PageLimit(Len(Result) + Len(page)) = 0
                /\ UNCHANGED next_token
        BY <1>2, <2>2, <2>7, <2>8, <4>1, <4>2 DEF PageRead
      <4>3. CASE next_token' = token_ /\ finished' = finished
        <5>1. next_token' \in Nat /\ finished' = FALSE
          BY <1>1, <1>2, <2>2, <3>2, <4>3
        <5> QED
          BY <2>2, <2>7, <3>1, <3>2, <4>1, <4>3, <5>1 DEF PageRead
      <4> QED
        BY <3>4, <4>2, <4>3
    <3> QED
      BY <2>2, <2>5, <3>5
  <2>10. CASE ~RowFollows(q, Len(Result), limit)
    <3>1. finished' = TRUE /\ UNCHANGED next_token
      BY <2>6, <2>10 DEF Advance
    <3>2. Len(q) <= Len(Result) + limit
      BY <1>2, <2>2, <2>4, <2>10 DEF RowFollows
    <3> QED
      BY <1>2, <2>2, <2>5, <2>7, <3>1, <3>2 DEF PageRead, page
  <2> QED
    BY <2>9, <2>10
<1> QED
  BY <1>4, <1>5 DEF FetchNextPage

\* EmitChunk hands rows over and keeps them all.
LEMMA EmitEffect ==
  ASSUME TypeOK, EmitChunk
  PROVE  /\ Result' = Result
         /\ emitted' \in Seq(Row) /\ buffer' \in Seq(Row) /\ Taken' = Taken
         /\ finished' = finished \/ (finished' = TRUE /\ max_rows > 0 /\ Len(Result) = max_rows)
<1> DEFINE count == IF Len(buffer) < VectorSize THEN Len(buffer) ELSE VectorSize
           capped == max_rows > 0 /\ Len(emitted) + count >= max_rows
<1>1. /\ emitted \in Seq(Row) /\ buffer \in Seq(Row) /\ max_rows \in Nat
      /\ Len(emitted) \in Nat /\ Len(buffer) \in Nat /\ finished \in BOOLEAN
      /\ max_rows > 0 => Len(emitted) + Len(buffer) <= max_rows
  BY DEF TypeOK, Taken
<1>2. count \in 0 .. Len(buffer)
  BY <1>1, ScanAssumption
<1>3. /\ emitted' = emitted \o
             SubSeq(buffer, 1, IF capped THEN max_rows - Len(emitted) ELSE count)
      /\ buffer' = IF capped THEN << >> ELSE SubSeq(buffer, count + 1, Len(buffer))
      /\ finished' = (finished \/ capped)
      /\ UNCHANGED max_rows
  BY DEF EmitChunk, settings
<1> HIDE DEF count
<1>4. CASE capped
  <2>1. max_rows - Len(emitted) = Len(buffer)
    BY <1>1, <1>2, <1>4
  <2>2. emitted' = emitted \o buffer /\ buffer' = << >>
    BY <1>1, <1>3, <1>4, <2>1, SubSeqFull
  <2>3. emitted' \in Seq(Row) /\ Len(emitted') = Len(emitted) + Len(buffer)
    BY <1>1, <2>2, ConcatProperties
  <2>4. Result' = Result
    BY <2>2, <2>3, ConcatEmptySeq DEF Result
  <2>5. Taken' = Taken
    BY <1>1, <2>2, <2>3 DEF Taken
  <2>6. Len(Result) = max_rows
    BY <1>1, <2>1, ResultType
  <2>7. finished' = TRUE
    BY <1>3, <1>4
  <2>8. max_rows > 0
    BY <1>4
  <2>9. buffer' \in Seq(Row)
    BY <2>2
  <2> QED
    BY <2>3, <2>4, <2>5, <2>6, <2>7, <2>8, <2>9
<1>5. CASE ~capped
  <2> DEFINE a == SubSeq(buffer, 1, count)
             b == SubSeq(buffer, count + 1, Len(buffer))
  <2>1. a \o b = buffer
    <3>1. /\ 1 \in 1 .. Len(buffer) + 1 /\ count \in 1 - 1 .. Len(buffer)
          /\ Len(buffer) \in count .. Len(buffer)
      BY <1>1, <1>2
    <3>2. a \o b = SubSeq(buffer, 1, Len(buffer))
      BY <1>1, <3>1, ConcatAdjacentSubSeq
    <3> QED
      BY <1>1, <3>2, SubSeqFull
  <2>2. a \in Seq(Row) /\ b \in Seq(Row)
    BY <1>1, <1>2
  <2>3. emitted' = emitted \o a /\ buffer' = b
    BY <1>3, <1>5
  <2> HIDE DEF a, b
  <2>4. Result' = Result
    <3>1. (emitted \o a) \o b = emitted \o (a \o b)
      BY <1>1, <2>2, ConcatAssociative
    <3> QED
      BY <2>1, <2>3, <3>1 DEF Result
  <2>5. emitted' \in Seq(Row) /\ buffer' \in Seq(Row)
    BY <1>1, <2>2, <2>3, ConcatProperties
  <2>6. Taken' = Taken
    <3>1. Len(buffer) = Len(a) + Len(b) /\ Len(emitted') = Len(emitted) + Len(a)
      BY <1>1, <2>1, <2>2, <2>3, ConcatProperties
    <3>2. Len(a) \in Nat /\ Len(b) \in Nat
      BY <2>2
    <3> QED
      BY <1>1, <2>3, <3>1, <3>2 DEF Taken
  <2> QED
    BY <1>1, <1>3, <1>5, <2>4, <2>5, <2>6
<1> QED
  BY <1>4, <1>5

----------------------------------------------------------------------------
(* The invariant of the log scan.                                          *)

\* The whole result over rows that stand still.
Cut(q) == IF max_rows = 0 THEN q ELSE Page(q, 0, max_rows)

\* Without an insert the window is what it was at the first page, or empty.
WindowInv ==
  started /\ ~inserted => Matching = IF deleted THEN {} ELSE initial

\* Then the rows so far are an initial part of the one ordering of the window,
\* and all that was asked for when the scan is over.
ExactInv ==
  started /\ ~inserted /\ DistinctKeys(initial) =>
    \E q \in Orderings(initial) :
      /\ Len(Result) <= Len(q) /\ Result = SubSeq(q, 1, Len(Result))
      /\ Over /\ ~deleted => Result = Cut(q)

\* Without a delete, a row of the first page's window is among the rows so far,
\* or has as many rows before it as were read.
SeenInv ==
  started /\ ~deleted =>
    /\ initial \subseteq Matching
    /\ max_rows = 0 /\ DistinctKeys(Matching) =>
         \A e \in initial \ ToSet(Result) :
            \/ failed
            \/ /\ ~finished
               /\ Rank(Along(ascending, Matching), Matching, e) >= Len(Result)

ScanInv == TypeOK /\ FiniteInv /\ CursorInv /\ WindowInv /\ ExactInv /\ SeenInv

\* What is not the scan leaves the scan alone.
Writers == TakeEventId \/ StoreEvent \/ DeleteEvents \/ Restart

\* A step of the scan leaves the tables alone.
LEMMA ScanQuiet ==
  ASSUME Scan \/ PageFails
  PROVE  UNCHANGED <<listener, settings, inserted, deleted>> /\ Matching' = Matching
<1>1. UNCHANGED <<listener, settings, inserted, deleted>>
  BY DEF Scan, PageFails, FetchNextPage, EmitChunk, ObserveStart, observed
<1> QED
  BY <1>1 DEF Matching, InWindow, listener

\* A writer leaves the scan alone.
LEMMA WritersQuiet ==
  ASSUME Writers \/ UNCHANGED vars
  PROVE  /\ UNCHANGED <<settings, cursor, started, initial>>
         /\ Result' = Result /\ Taken' = Taken
<1>1. UNCHANGED <<settings, cursor, started, initial>>
  BY DEF Writers, TakeEventId, StoreEvent, DeleteEvents, Restart, vars, observed
<1> QED
  BY <1>1 DEF cursor, Result, Taken

\* Every step keeps the types of the tables.
LEMMA TablesTyped ==
  ASSUME TypeOK, FiniteInv, [Next]_vars
  PROVE  /\ events' \subseteq Row /\ building' \subseteq Row /\ IsFiniteSet(events')
         /\ event_counter' \in Nat /\ lifetime' \in Nat /\ written' \in Nat
         /\ inserted' \in BOOLEAN /\ deleted' \in BOOLEAN
<1> USE DEF TypeOK, FiniteInv
<1>1. CASE Scan \/ PageFails
  BY <1>1, ScanQuiet DEF listener
<1>2. CASE TakeEventId
  <2>1. ASSUME NEW ts \in Time
        PROVE  [timestamp_ms |-> ts, lifetime |-> lifetime,
                event_id |-> event_counter + 1] \in Row
    BY DEF Row
  <2>2. building' \subseteq Row
    BY <1>2, <2>1 DEF TakeEventId
  <2> QED
    BY <1>2, <2>2 DEF TakeEventId, observed
<1>3. CASE StoreEvent
  <2>1. PICK e \in building :
          /\ events' = events \cup {e} /\ building' = building \ {e}
          /\ inserted' = (inserted \/ (started /\ InWindow(e)))
    BY <1>3 DEF StoreEvent
  <2>2. IsFiniteSet(events')
    BY <2>1, FS_AddElement
  <2> QED
    BY <1>3, <2>1, <2>2 DEF StoreEvent
<1>4. CASE DeleteEvents
  BY <1>4, FS_EmptySet DEF DeleteEvents
<1>5. CASE Restart
  BY <1>5 DEF Restart, observed
<1>6. CASE UNCHANGED vars
  BY <1>6 DEF vars, listener, observed
<1> QED
  BY <1>1, <1>2, <1>3, <1>4, <1>5, <1>6 DEF Next

\* Every step keeps the types.
LEMMA ScanTypeStep ==
  ASSUME TypeOK, FiniteInv, CursorInv, [Next]_vars
  PROVE  TypeOK' /\ FiniteInv'
<1>1. /\ events' \subseteq Row /\ building' \subseteq Row /\ IsFiniteSet(events')
      /\ event_counter' \in Nat /\ lifetime' \in Nat /\ written' \in Nat
      /\ inserted' \in BOOLEAN /\ deleted' \in BOOLEAN
  BY TablesTyped
<1>2. CASE FetchNextPage
  <2>1. UNCHANGED <<ascending, max_rows, emitted, failed>>
    BY <1>2 DEF FetchNextPage, settings
  <2>2. started' \in BOOLEAN /\ initial' \subseteq Row /\ IsFiniteSet(initial')
    BY <1>2, MatchingType DEF FetchNextPage, ObserveStart, TypeOK, FiniteInv
  <2>3. /\ max_rows \in Nat /\ Len(Result) \in Nat
        /\ max_rows > 0 => Len(Result) <= max_rows
    BY ResultType DEF TypeOK
  <2>4. CASE finished' = TRUE /\ UNCHANGED <<next_token, buffer>>
    BY <1>1, <2>1, <2>2, <2>4 DEF TypeOK, FiniteInv, Taken
  <2>5. ASSUME NEW q \in Orderings(Matching), NEW limit \in Nat,
               NEW page \in Seq(Row), PageRead(q, limit, page)
        PROVE  TypeOK' /\ FiniteInv'
    <3>1. buffer' \in Seq(Row) /\ next_token' \in Nat \cup {NoToken} /\ finished' \in BOOLEAN
      BY <2>5 DEF PageRead
    <3>2. Taken' = Len(Result) + Len(page)
      <4>1. buffer = << >>
        BY <1>2 DEF FetchNextPage
      <4>2. Len(Result) = Len(emitted)
        BY <4>1, ResultType DEF TypeOK
      <4> QED
        BY <2>5, <4>2 DEF PageRead, Taken
    <3>3. Len(page) \in Nat /\ Len(page) <= limit
      <4>1. q \in Seq(Row)
        BY MatchingType, OrderingType
      <4>2. Len(Page(q, Len(Result), limit)) =
              IF Len(q) <= Len(Result) THEN 0
              ELSE IF Len(q) <= Len(Result) + limit THEN Len(q) - Len(Result) ELSE limit
        BY <2>3, <4>1, PageType
      <4>3. Len(q) \in Nat /\ page = Page(q, Len(Result), limit)
        BY <2>5, <4>1 DEF PageRead
      <4> QED
        BY <2>3, <4>2, <4>3
    <3>4. max_rows' > 0 => Taken' <= max_rows'
      BY <2>1, <2>3, <2>5, <3>2, <3>3 DEF PageRead
    <3> QED
      BY <1>1, <2>1, <2>2, <3>1, <3>4 DEF TypeOK, FiniteInv
  <2> QED
    BY <1>2, <2>4, <2>5, FetchEffect
<1>3. CASE PageFails
  <2>1. finished' = TRUE /\ failed' = TRUE
        /\ UNCHANGED <<settings, next_token, buffer, emitted, observed>>
    BY <1>3 DEF PageFails
  <2> QED
    BY <1>1, <2>1 DEF TypeOK, FiniteInv, settings, observed, Taken
<1>4. CASE EmitChunk
  <2>1. UNCHANGED <<settings, next_token, failed, observed>>
    BY <1>4 DEF EmitChunk
  <2>2. emitted' \in Seq(Row) /\ buffer' \in Seq(Row) /\ Taken' = Taken /\ finished' \in BOOLEAN
    BY <1>4, EmitEffect DEF TypeOK
  <2> QED
    BY <1>1, <2>1, <2>2 DEF TypeOK, FiniteInv, settings, observed
<1>5. CASE Writers \/ UNCHANGED vars
  BY <1>1, <1>5, WritersQuiet DEF TypeOK, FiniteInv, settings, cursor
<1> QED
  BY <1>2, <1>3, <1>4, <1>5 DEF Next, Scan, Writers

\* Every step keeps the cursor at the number of rows read.
LEMMA CursorStep ==
  ASSUME TypeOK, FiniteInv, CursorInv, [Next]_vars
  PROVE  CursorInv'
<1>1. CASE FetchNextPage
  <2>1. started' = TRUE /\ UNCHANGED failed /\ ~finished
    BY <1>1 DEF FetchNextPage, ObserveStart
  <2>2. CASE finished'
    BY <2>1, <2>2 DEF CursorInv
  <2>3. CASE ~finished'
    <3>1. PICK q \in Orderings(Matching), limit \in Nat, page \in Seq(Row) :
            PageRead(q, limit, page)
      BY <1>1, <2>3, FetchEffect
    <3>2. next_token' = Len(Result) + limit /\ Len(page) = limit
      BY <2>3, <3>1 DEF PageRead
    <3>3. Len(Result') = Len(Result) + Len(page)
      BY <3>1, ResultType, ConcatProperties DEF PageRead
    <3>4. next_token' # NoToken
      BY <3>2, ResultType, ScanAssumption
    <3> QED
      BY <2>1, <2>3, <3>2, <3>3, <3>4 DEF CursorInv
  <2> QED
    BY <2>2, <2>3
<1>2. CASE PageFails
  <2>1. /\ finished' = TRUE /\ failed' = TRUE
        /\ UNCHANGED <<next_token, observed>> /\ Result' = Result
    BY <1>2 DEF PageFails, Result
  <2> QED
    BY <2>1 DEF CursorInv, observed
<1>3. CASE EmitChunk
  <2>1. UNCHANGED <<next_token, failed, observed>> /\ buffer # << >>
    BY <1>3 DEF EmitChunk
  <2>2. /\ Result' = Result
        /\ finished' = finished \/ finished' = TRUE
    BY <1>3, EmitEffect
  <2>3. started
    <3>1. Result # << >>
      BY <2>1, ConcatEqualIffEmpty DEF Result, TypeOK
    <3> QED
      BY <3>1 DEF CursorInv
  <2> QED
    BY <2>1, <2>2, <2>3 DEF CursorInv, observed
<1>4. CASE Writers \/ UNCHANGED vars
  <2>1. UNCHANGED <<settings, cursor, started, initial>> /\ Result' = Result
    BY <1>4, WritersQuiet
  <2>2. ~started => inserted' = inserted /\ deleted' = deleted
    BY <1>4 DEF Writers, TakeEventId, StoreEvent, DeleteEvents, Restart, vars, observed,
                TypeOK
  <2> QED
    BY <2>1, <2>2 DEF CursorInv, cursor
<1> QED
  BY <1>1, <1>2, <1>3, <1>4 DEF Next, Scan, Writers

\* The window changes by an insert that is noted, or by a delete that is.
LEMMA WritersWindow ==
  ASSUME TypeOK, Writers \/ UNCHANGED vars
  PROVE  \/ Matching' = Matching /\ UNCHANGED <<inserted, deleted>>
         \/ /\ \E e \in Row : InWindow(e) /\ Matching' = Matching \cup {e}
            /\ started => inserted'
            /\ UNCHANGED deleted
         \/ /\ Matching' = {} /\ UNCHANGED inserted
            /\ deleted' = (deleted \/ (started /\ Matching # {}))
<1>1. CASE TakeEventId \/ Restart \/ UNCHANGED vars
  <2>1. UNCHANGED <<events, inserted, deleted>>
    BY <1>1 DEF TakeEventId, Restart, vars, observed, listener
  <2> QED
    BY <2>1 DEF Matching, InWindow
<1>2. CASE StoreEvent
  <2>1. PICK e \in building :
          /\ events' = events \cup {e} /\ building' = building \ {e}
          /\ inserted' = (inserted \/ (started /\ InWindow(e)))
    BY <1>2 DEF StoreEvent
  <2>2. UNCHANGED deleted /\ e \in Row
    BY <1>2 DEF StoreEvent, TypeOK
  <2>3. CASE InWindow(e)
    <3>1. Matching' = Matching \cup {e}
      BY <2>1, <2>3 DEF Matching, InWindow
    <3> QED
      BY <2>1, <2>2, <2>3, <3>1
  <2>4. CASE ~InWindow(e)
    <3>1. Matching' = Matching
      BY <2>1, <2>4 DEF Matching, InWindow
    <3>2. inserted' = inserted
      BY <2>1, <2>4 DEF TypeOK
    <3> QED
      BY <2>2, <3>1, <3>2
  <2> QED
    BY <2>3, <2>4
<1>3. CASE DeleteEvents
  <2>1. Matching' = {}
    BY <1>3 DEF DeleteEvents, Matching
  <2> QED
    BY <1>3, <2>1 DEF DeleteEvents
<1> QED
  BY <1>1, <1>2, <1>3 DEF Writers

\* What the first page's window is told after a page.
LEMMA FetchObserves ==
  ASSUME TypeOK, CursorInv, WindowInv, FetchNextPage
  PROVE  /\ started' = TRUE /\ Matching' = Matching
         /\ UNCHANGED <<inserted, deleted, ascending, max_rows, failed>>
         /\ initial' = IF started THEN initial ELSE Matching
         /\ ~inserted => Matching = IF deleted THEN {} ELSE initial'
<1>1. /\ started' = TRUE /\ UNCHANGED <<ascending, max_rows, failed>>
      /\ initial' = IF started THEN initial ELSE Matching
  BY DEF FetchNextPage, ObserveStart, settings
<1>2. UNCHANGED <<inserted, deleted>> /\ Matching' = Matching
  BY ScanQuiet DEF Scan
<1> QED
  BY <1>1, <1>2 DEF WindowInv, CursorInv

\* Every step keeps what is known of the window.
LEMMA WindowStep ==
  ASSUME TypeOK, CursorInv, WindowInv, [Next]_vars
  PROVE  WindowInv'
<1>1. CASE FetchNextPage
  BY <1>1, FetchObserves DEF WindowInv
<1>2. CASE PageFails \/ EmitChunk
  <2>1. UNCHANGED <<started, inserted, deleted, initial>> /\ Matching' = Matching
    BY <1>2, ScanQuiet DEF PageFails, EmitChunk, observed, Scan
  <2> QED
    BY <2>1 DEF WindowInv
<1>3. CASE Writers \/ UNCHANGED vars
  <2>1. UNCHANGED <<started, initial>>
    BY <1>3, WritersQuiet
  <2>2. CASE Matching' = Matching /\ UNCHANGED <<inserted, deleted>>
    BY <2>1, <2>2 DEF WindowInv
  <2>3. CASE started => inserted'
    BY <2>1, <2>3 DEF WindowInv
  <2>4. CASE /\ Matching' = {} /\ UNCHANGED inserted
             /\ deleted' = (deleted \/ (started /\ Matching # {}))
    BY <2>1, <2>4 DEF WindowInv
  <2> QED
    BY <1>3, <2>2, <2>3, <2>4, WritersWindow
<1> QED
  BY <1>1, <1>2, <1>3 DEF Next, Scan, Writers

\* The result of a scan that read its n rows and needs no more.
LEMMA CutAt ==
  ASSUME max_rows \in Nat, NEW q \in Seq(Row), NEW n \in 0 .. Len(q),
         \/ n = Len(q) /\ (max_rows > 0 => n <= max_rows)
         \/ max_rows > 0 /\ n = max_rows
  PROVE  SubSeq(q, 1, n) = Cut(q)
<1>1. Len(q) \in Nat /\ n \in Nat
  OBVIOUS
<1>2. CASE max_rows = 0
  BY <1>1, <1>2, SubSeqFull DEF Cut
<1>3. CASE max_rows > 0
  <2>1. 0 + max_rows = max_rows /\ 0 + 1 = 1
    OBVIOUS
  <2>2. Min({0 + max_rows, Len(q)}) = n
    BY <1>1, <1>3, <2>1, PageEnd
  <2>3. Page(q, 0, max_rows) = SubSeq(q, 0 + 1, n)
    BY <2>2, Zenon DEF Page
  <2>4. Page(q, 0, max_rows) = SubSeq(q, 1, n)
    BY <2>1, <2>3, Zenon
  <2> QED
    BY <1>3, <2>4 DEF Cut
<1> QED
  BY <1>2, <1>3

\* The ordering of a set is that of the scan throughout.
LEMMA OrderingsKept ==
  ASSUME UNCHANGED ascending, NEW S, initial' = S
  PROVE  Orderings(initial)' = Orderings(S)
  BY DEF Orderings, Before

\* A page keeps the rows so far an initial part of the ordering.
LEMMA ExactFetch ==
  ASSUME TypeOK, FiniteInv, CursorInv, WindowInv, ExactInv, FetchNextPage
  PROVE  ExactInv'
<1> SUFFICES ASSUME ~inserted', DistinctKeys(initial')
             PROVE  \E q \in Orderings(initial)' :
                      /\ Len(Result') <= Len(q) /\ Result' = SubSeq(q, 1, Len(Result'))
                      /\ Over' /\ ~deleted' => Result' = Cut(q)'
  BY DEF ExactInv, DistinctKeys, SameKey
<1>1. /\ UNCHANGED <<inserted, deleted, ascending, max_rows, failed>>
      /\ initial' = IF started THEN initial ELSE Matching
      /\ Matching = IF deleted THEN {} ELSE initial'
      /\ Result \in Seq(Row) /\ Len(Result) \in Nat /\ max_rows \in Nat
      /\ ascending \in BOOLEAN
  BY FetchObserves, ResultType DEF TypeOK
<1>2. PICK S : S = initial'
  OBVIOUS
<1>3. S \subseteq Row /\ IsFiniteSet(S) /\ DistinctKeys(S)
  BY <1>1, <1>2, MatchingType DEF TypeOK, FiniteInv
<1>4. Orderings(initial)' = Orderings(S) /\ \A q : Cut(q)' = Cut(q)
  BY <1>1, <1>2, OrderingsKept DEF Cut, Page
<1>5. PICK q \in Orderings(S) : Len(Result) <= Len(q) /\ Result = SubSeq(q, 1, Len(Result))
  <2>1. CASE started
    BY <1>1, <1>2, <2>1 DEF ExactInv
  <2>2. CASE ~started
    <3>1. Result = << >>
      BY <2>2 DEF CursorInv
    <3>2. PICK q : ListsAlong(q, S, Along(ascending, S))
      BY <1>1, <1>3, AlongOrdered, ListingExists
    <3>3. q \in Orderings(S)
      BY <1>3, <3>2, OrderingsAlong
    <3>4. Len(q) \in Nat /\ Len(Result) = 0
      BY <1>3, <3>1, <3>3, OrderingType
    <3>5. SubSeq(q, 1, 0) = << >>
      BY SubSeqEmpty
    <3> QED
      BY <3>1, <3>3, <3>4, <3>5
  <2> QED
    BY <2>1, <2>2
<1>6. q \in Seq(Row) /\ Len(q) \in Nat
  BY <1>3, OrderingType
<1>7. CASE max_rows > 0 /\ Len(Result) >= max_rows /\ Result' = Result
  <2>1. Len(Result) = max_rows
    BY <1>1, <1>7, ResultType DEF TypeOK
  <2>2. Result = Cut(q)
    BY <1>1, <1>5, <1>6, <1>7, <2>1, CutAt
  <2> QED
    BY <1>4, <1>5, <1>7, <2>2
<1>8. ASSUME NEW p \in Orderings(Matching), NEW limit \in Nat, NEW page \in Seq(Row),
             PageRead(p, limit, page)
      PROVE  \E r \in Orderings(S) :
               /\ Len(Result') <= Len(r) /\ Result' = SubSeq(r, 1, Len(Result'))
               /\ Over' /\ ~deleted' => Result' = Cut(r)
  <2>1. /\ page = Page(p, Len(Result), limit) /\ Result' = Result \o page
        /\ max_rows > 0 => Len(Result) + limit <= max_rows
    BY <1>8 DEF PageRead
  <2>2. p \in Seq(Row) /\ Len(p) \in Nat /\ Len(p) = Cardinality(Matching)
    BY MatchingType, OrderingType
  <2>3. Len(page) = IF Len(p) <= Len(Result) THEN 0
                    ELSE IF Len(p) <= Len(Result) + limit THEN Len(p) - Len(Result)
                    ELSE limit
    BY <1>1, <2>1, <2>2, PageType
  <2>4. CASE deleted
    <3>1. Len(p) = 0
      BY <1>1, <2>2, <2>4, FS_EmptySet
    <3>2. page = << >>
      BY <1>1, <2>3, <3>1
    <3>3. Result' = Result
      BY <1>1, <2>1, <3>2, ConcatEmptySeq
    <3> QED
      BY <1>1, <1>5, <2>4, <3>3
  <2>5. CASE ~deleted
    <3>1. p = q
      BY <1>1, <1>2, <1>3, <2>5, OrderingUnique
    <3> DEFINE n == IF Len(q) <= Len(Result) + limit THEN Len(q) ELSE Len(Result) + limit
    <3>2. Result' = SubSeq(q, 1, n)
      BY <1>1, <1>5, <1>6, <2>1, <3>1, PageContinues
    <3>3. n \in 0 .. Len(q) /\ n = Len(Result) + Len(page) /\ n <= Len(Result) + limit
      BY <1>1, <1>5, <1>6, <2>3, <3>1
    <3> HIDE DEF n
    <3>4. Len(Result') = n
      BY <1>6, <3>2, <3>3, SubSeqProperties
    <3>5. ASSUME Over' PROVE Result' = Cut(q)
      <4>1. finished'
        BY <3>5 DEF Over
      <4>2. \/ Len(q) <= Len(Result) + limit
            \/ max_rows > 0 /\ n >= max_rows
        BY <1>8, <3>1, <3>3, <4>1 DEF PageRead
      <4>3. max_rows > 0 => n <= max_rows
        BY <1>1, <1>6, <2>1, <3>3
      <4>4. \/ n = Len(q) /\ (max_rows > 0 => n <= max_rows)
            \/ max_rows > 0 /\ n = max_rows
        BY <1>1, <1>6, <3>3, <4>2, <4>3 DEF n
      <4> QED
        BY <1>1, <1>6, <3>2, <3>3, <4>4, CutAt
    <3> QED
      BY <3>2, <3>3, <3>4, <3>5
  <2> QED
    BY <2>4, <2>5
<1> QED
  BY <1>4, <1>7, <1>8, FetchEffect

\* Every step keeps the rows so far an initial part of the ordering.
LEMMA ExactStep ==
  ASSUME TypeOK, FiniteInv, CursorInv, WindowInv, ExactInv, [Next]_vars
  PROVE  ExactInv'
<1>1. CASE FetchNextPage
  BY <1>1, ExactFetch
<1>2. ASSUME UNCHANGED <<settings, started, initial>>, Result' = Result,
             ~inserted' => ~inserted, ~deleted' => ~deleted,
             Over' => Over \/ (max_rows > 0 /\ Len(Result) = max_rows)
      PROVE  ExactInv'
  <2> SUFFICES ASSUME started', ~inserted', DistinctKeys(initial')
               PROVE  \E q \in Orderings(initial)' :
                        /\ Len(Result') <= Len(q) /\ Result' = SubSeq(q, 1, Len(Result'))
                        /\ Over' /\ ~deleted' => Result' = Cut(q)'
    BY DEF ExactInv, DistinctKeys, SameKey
  <2>1. PICK q \in Orderings(initial) :
          /\ Len(Result) <= Len(q) /\ Result = SubSeq(q, 1, Len(Result))
          /\ Over /\ ~deleted => Result = Cut(q)
    BY <1>2 DEF ExactInv
  <2>2. PICK S : S = initial
    OBVIOUS
  <2>3. Orderings(initial)' = Orderings(S) /\ Cut(q)' = Cut(q)
    BY <1>2, <2>2, OrderingsKept DEF settings, Cut, Page
  <2>4. q \in Seq(Row) /\ Len(q) \in Nat /\ Len(Result) \in Nat /\ max_rows \in Nat
    BY OrderingType, ResultType DEF TypeOK, FiniteInv
  <2>5. CASE max_rows > 0 /\ Len(Result) = max_rows
    <3>1. Result = Cut(q)
      BY <2>1, <2>4, <2>5, CutAt
    <3> QED
      BY <1>2, <2>1, <2>2, <2>3, <3>1
  <2> QED
    BY <1>2, <2>1, <2>2, <2>3, <2>5
<1>3. CASE PageFails
  <2>1. failed' = TRUE /\ UNCHANGED <<settings, observed, emitted, buffer>>
    BY <1>3 DEF PageFails
  <2> QED
    BY <1>2, <2>1 DEF observed, Over, Result
<1>4. CASE EmitChunk
  <2>1. UNCHANGED <<settings, failed, observed>>
    BY <1>4 DEF EmitChunk
  <2> QED
    BY <1>2, <1>4, <2>1, EmitEffect DEF observed, Over
<1>5. CASE Writers \/ UNCHANGED vars
  <2>1. UNCHANGED <<settings, cursor, started, initial>> /\ Result' = Result
    BY <1>5, WritersQuiet
  <2>2. ~started \/ ((~inserted' => ~inserted) /\ (~deleted' => ~deleted))
    BY <1>5, WritersWindow
  <2>3. CASE ~started
    BY <2>1, <2>3 DEF ExactInv
  <2> QED
    BY <1>2, <2>1, <2>2, <2>3 DEF cursor, Over
<1> QED
  BY <1>1, <1>3, <1>4, <1>5 DEF Next, Scan, Writers

\* A row has no fewer rows before it among more rows.
LEMMA RankMonotone ==
  ASSUME NEW T, IsFiniteSet(T), NEW S \in SUBSET T, NEW asc, NEW e \in S
  PROVE  Rank(Along(asc, S), S, e) <= Rank(Along(asc, T), T, e)
<1> DEFINE A == {f \in S : <<f, e>> \in Along(asc, S)}
           B == {f \in T : <<f, e>> \in Along(asc, T)}
<1>1. A \in SUBSET B /\ B \in SUBSET T
  BY DEF Along
<1>2. IsFiniteSet(B)
  BY <1>1, FS_Subset
<1>3. Cardinality(A) <= Cardinality(B)
  BY <1>1, <1>2, FS_Subset
<1> QED
  BY <1>3 DEF Rank

\* A row is listed at its rank.
LEMMA OrderingRank ==
  ASSUME NEW S, S \subseteq Row, IsFiniteSet(S), DistinctKeys(S), ascending \in BOOLEAN,
         NEW q \in Orderings(S), NEW e \in S
  PROVE  \E r \in 0 .. Len(q) - 1 :
           r = Rank(Along(ascending, S), S, e) /\ q[r + 1] = e
<1>1. q \in SetToSeqs(S) /\ ListsAlong(q, S, Along(ascending, S))
  BY OrderingsAlong DEF Orderings
<1>2. /\ DOMAIN q = 1 .. Cardinality(S) /\ Len(q) = Cardinality(S)
      /\ Cardinality(S) \in Nat
  BY <1>1, ListsAll
<1>3. PICK i \in DOMAIN q : q[i] = e
  BY <1>1, ListsAll
<1>4. Rank(Along(ascending, S), S, e) = i - 1
  BY <1>1, <1>3, AlongOrdered, ListedAtRank
<1>5. i - 1 \in 0 .. Len(q) - 1 /\ (i - 1) + 1 = i
  BY <1>2
<1> QED
  BY <1>3, <1>4, <1>5

\* A page has the rows whose ranks follow those that were read.
LEMMA SeenFetch ==
  ASSUME TypeOK, FiniteInv, CursorInv, WindowInv, SeenInv, FetchNextPage
  PROVE  SeenInv'
<1>1. /\ UNCHANGED <<inserted, deleted, ascending, max_rows, failed>>
      /\ initial' = IF started THEN initial ELSE Matching
      /\ Matching' = Matching
      /\ Result \in Seq(Row) /\ Len(Result) \in Nat /\ max_rows \in Nat
      /\ ascending \in BOOLEAN
  BY FetchObserves, ResultType DEF TypeOK
<1>2. PICK M : M = Matching
  OBVIOUS
<1>3. /\ Matching' = M /\ Along(ascending, Matching)' = Along(ascending, M)
      /\ M \subseteq Row /\ IsFiniteSet(M)
  BY <1>1, <1>2, MatchingType DEF Along, Less
<1>4. ~finished /\ ~failed
  BY DEF FetchNextPage, CursorInv
<1>5. ASSUME ~deleted' PROVE initial' \subseteq M
  BY <1>1, <1>2, <1>5 DEF SeenInv
<1>6. ASSUME ~deleted', max_rows' = 0, DistinctKeys(M), NEW e \in initial' \ ToSet(Result')
      PROVE  ~finished' /\ Rank(Along(ascending, M), M, e) >= Len(Result')
  <2>1. e \in M
    BY <1>5, <1>6
  <2>2. PICK q \in Orderings(M), limit \in Nat, page \in Seq(Row) : PageRead(q, limit, page)
    BY <1>1, <1>2, <1>6, FetchEffect
  <2>3. q \in Seq(Row) /\ Len(q) \in Nat
    BY <1>3, OrderingType
  <2>4. PICK r \in 0 .. Len(q) - 1 : r = Rank(Along(ascending, M), M, e) /\ q[r + 1] = e
    BY <1>1, <1>3, <1>6, <2>1, OrderingRank
  <2>5. Result' = Result \o page /\ page = Page(q, Len(Result), limit)
    BY <2>2 DEF PageRead
  <2>6. /\ Len(page) = IF Len(q) <= Len(Result) THEN 0
                       ELSE IF Len(q) <= Len(Result) + limit THEN Len(q) - Len(Result)
                       ELSE limit
        /\ \A i \in 1 .. Len(page) : page[i] = q[Len(Result) + i]
    <3>1. limit \in Nat /\ Len(Result) \in Nat /\ q \in Seq(Row)
      BY <1>1, <2>2, <2>3
    <3>2. /\ Len(Page(q, Len(Result), limit)) =
               IF Len(q) <= Len(Result) THEN 0
               ELSE IF Len(q) <= Len(Result) + limit THEN Len(q) - Len(Result) ELSE limit
          /\ \A i \in 1 .. Len(Page(q, Len(Result), limit)) :
               Page(q, Len(Result), limit)[i] = q[Len(Result) + i]
      BY <3>1, PageType
    <3> QED
      BY <2>5, <3>2, Zenon
  <2>7. /\ Len(Result') = Len(Result) + Len(page) /\ Len(page) \in Nat
        /\ Result' \in Seq(Row)
        /\ \A i \in 1 .. Len(Result) : Result'[i] = Result[i]
        /\ \A i \in 1 .. Len(page) : Result'[Len(Result) + i] = page[i]
    BY <1>1, <2>5
  <2>8. \A i \in 1 .. Len(Result') : Result'[i] # e
    BY <1>6, <2>7 DEF ToSet
  <2>9. r >= Len(Result)
    <3>1. CASE started
      <4>1. e \notin ToSet(Result)
        <5>1. \A i \in 1 .. Len(Result) : i \in 1 .. Len(Result')
          BY <1>1, <2>7
        <5>2. \A i \in 1 .. Len(Result) : Result[i] # e
          BY <2>7, <2>8, <5>1
        <5> QED
          BY <1>1, <5>2 DEF ToSet
      <4>2. e \in initial /\ ~deleted /\ max_rows = 0
        BY <1>1, <1>6, <3>1
      <4> QED
        BY <1>2, <1>4, <1>6, <2>4, <3>1, <4>1, <4>2 DEF SeenInv
    <3>2. CASE ~started
      <4>1. Len(Result) = 0
        BY <3>2 DEF CursorInv
      <4> QED
        BY <4>1
    <3> QED
      BY <3>1, <3>2
  <2>10. r >= Len(Result) + Len(page)
    <3> SUFFICES ASSUME r < Len(Result) + Len(page) PROVE FALSE
      BY <1>1, <2>7
    <3>1. r + 1 - Len(Result) \in 1 .. Len(page)
      BY <1>1, <2>7, <2>9
    <3>2. Len(Result) + (r + 1 - Len(Result)) = r + 1 /\ r + 1 \in 1 .. Len(Result')
      BY <1>1, <2>7
    <3>3. Result'[r + 1] = page[r + 1 - Len(Result)]
      BY <2>7, <3>1, <3>2
    <3>4. page[r + 1 - Len(Result)] = q[r + 1]
      BY <2>6, <3>1, <3>2
    <3> QED
      BY <2>4, <2>8, <3>2, <3>3, <3>4
  <2>11. ~(Len(q) <= Len(Result) + limit)
    BY <1>1, <2>3, <2>6, <2>9, <2>10
  <2>12. ~finished'
    BY <1>1, <1>6, <2>2, <2>11 DEF PageRead
  <2> QED
    BY <2>4, <2>7, <2>10, <2>12
<1> QED
  BY <1>3, <1>5, <1>6 DEF SeenInv, DistinctKeys, SameKey

\* Every step keeps the rows that were not seen ahead of the cursor.
LEMMA SeenStep ==
  ASSUME TypeOK, FiniteInv, CursorInv, WindowInv, SeenInv, [Next]_vars
  PROVE  SeenInv'
<1>1. CASE FetchNextPage
  BY <1>1, SeenFetch
<1>2. CASE PageFails
  <2>1. failed' = TRUE /\ Matching' = Matching /\ UNCHANGED <<started, initial, deleted>>
    BY <1>2, ScanQuiet DEF PageFails, observed
  <2> QED
    BY <2>1 DEF SeenInv
<1>3. CASE EmitChunk
  <2>1. UNCHANGED <<settings, failed, observed>> /\ Matching' = Matching /\ Result' = Result
    BY <1>3, ScanQuiet, EmitEffect DEF EmitChunk, Scan
  <2>2. max_rows = 0 => finished' = finished
    BY <1>3, EmitEffect
  <2>3. Along(ascending, Matching)' = Along(ascending, Matching)
    BY <2>1 DEF Along, Less, settings
  <2> QED
    BY <2>1, <2>2, <2>3 DEF SeenInv, settings, observed, DistinctKeys, SameKey
<1>4. CASE Writers \/ UNCHANGED vars
  <2>1. /\ UNCHANGED <<settings, cursor, started, initial>> /\ Result' = Result
        /\ Len(Result) \in Nat
    BY <1>4, WritersQuiet, ResultType
  <2>2. PICK M : M = Matching'
    OBVIOUS
  <2>3. Along(ascending, Matching)' = Along(ascending, M)
    BY <2>1, <2>2 DEF Along, Less, settings
  <2>4. IsFiniteSet(M) /\ M \subseteq Row
    <3>1. TypeOK' /\ FiniteInv'
      BY <1>4, ScanTypeStep DEF Next, Writers
    <3>2. M \subseteq events' /\ events' \subseteq Row /\ IsFiniteSet(events')
      BY <2>2, <3>1 DEF Matching, TypeOK, FiniteInv
    <3> QED
      BY <3>2, FS_Subset
  <2>5. CASE Matching \subseteq M /\ ~(deleted /\ ~deleted')
    <3>1. ASSUME started, ~deleted, max_rows = 0, DistinctKeys(M),
                 NEW e \in initial \ ToSet(Result)
          PROVE  \/ failed
                 \/ ~finished /\ Rank(Along(ascending, M), M, e) >= Len(Result)
      <4>1. DistinctKeys(Matching)
        BY <2>5, <3>1 DEF DistinctKeys
      <4>2. e \in Matching /\ e \in M
        BY <2>5, <3>1 DEF SeenInv
      <4>3. Rank(Along(ascending, Matching), Matching, e) <= Rank(Along(ascending, M), M, e)
        BY <2>4, <2>5, <4>2, RankMonotone
      <4>4. /\ Rank(Along(ascending, Matching), Matching, e) \in Int
            /\ Rank(Along(ascending, M), M, e) \in Int
        <5>1. StrictlyOrdered(Along(ascending, M), M)
          BY <2>4, <3>1, AlongOrdered DEF TypeOK
        <5>2. StrictlyOrdered(Along(ascending, Matching), Matching)
          BY <4>1, AlongOrdered, MatchingType DEF TypeOK
        <5> QED
          BY <2>4, <4>2, <5>1, <5>2, MatchingType, RankRange
      <4> QED
        BY <2>1, <3>1, <4>1, <4>3, <4>4 DEF SeenInv
    <3> QED
      BY <2>1, <2>2, <2>3, <2>5, <3>1 DEF SeenInv, settings, cursor, DistinctKeys, SameKey
  <2>6. CASE Matching' = {} /\ deleted' = (deleted \/ (started /\ Matching # {}))
    <3>1. started /\ ~deleted' => initial = {}
      BY <2>6 DEF SeenInv
    <3> QED
      BY <2>1, <3>1 DEF SeenInv
  <2> QED
    <3>1. \/ Matching \subseteq Matching' /\ UNCHANGED deleted
          \/ Matching' = {} /\ deleted' = (deleted \/ (started /\ Matching # {}))
      BY <1>4, WritersWindow
    <3> QED
      BY <2>2, <2>5, <2>6, <3>1
<1> QED
  BY <1>1, <1>2, <1>3, <1>4 DEF Next, Scan, Writers

----------------------------------------------------------------------------
(* The log scan's theorems.                                                *)

\* Nothing was read of empty tables.
LEMMA ScanInit ==
  ASSUME Init
  PROVE  ScanInv
<1>1. /\ events = {} /\ building = {} /\ initial = {}
      /\ emitted = << >> /\ buffer = << >> /\ next_token = NoToken
      /\ started = FALSE /\ finished = FALSE /\ failed = FALSE
      /\ inserted = FALSE /\ deleted = FALSE
  BY DEF Init
<1>2. Result = << >> /\ Taken = 0
  BY <1>1 DEF Result, Taken
<1>3. TypeOK
  <2>1. max_rows \in Nat
    BY ScanAssumption DEF Init
  <2>2. << >> \in Seq(Row)
    OBVIOUS
  <2>3. event_counter \in Nat /\ lifetime \in Nat /\ written \in Nat /\ ascending \in BOOLEAN
    BY DEF Init
  <2>4. max_rows > 0 => Taken <= max_rows
    BY <1>2, <2>1
  <2>5. /\ finished \in BOOLEAN /\ failed \in BOOLEAN /\ started \in BOOLEAN
        /\ inserted \in BOOLEAN /\ deleted \in BOOLEAN
    BY <1>1
  <2> QED
    BY <1>1, <2>1, <2>2, <2>3, <2>4, <2>5, Zenon DEF TypeOK
<1>4. FiniteInv
  BY <1>1, FS_EmptySet DEF FiniteInv
<1>5. CursorInv
  BY <1>1, <1>2 DEF CursorInv
<1> QED
  BY <1>1, <1>3, <1>4, <1>5 DEF ScanInv, WindowInv, ExactInv, SeenInv

\* ScanInv is inductive.
LEMMA ScanStep ==
  ASSUME ScanInv, [Next]_vars
  PROVE  ScanInv'
<1> USE DEF ScanInv
<1>1. TypeOK' /\ FiniteInv'
  BY ScanTypeStep
<1>2. CursorInv'
  BY CursorStep
<1>3. WindowInv'
  BY WindowStep
<1>4. ExactInv'
  BY ExactStep
<1>5. SeenInv'
  BY SeenStep
<1> QED
  BY <1>1, <1>2, <1>3, <1>4, <1>5

\* The other readers leave the scan alone.
LEMMA ReadersScan ==
  /\ ReadersInit => Init
  /\ [ReadersNext]_readers_vars => [Next]_vars
<1>1. ReadersInit => Init
  BY DEF ReadersInit
<1>2. [ReadersNext]_readers_vars => [Next]_vars
  BY DEF ReadersNext, OnlyLogs, OnlyAlarms, OnlyGraph, OnlyCatalog, readers_vars
<1> QED
  BY <1>1, <1>2

\* A statement that scans a log group keeps ScanInv, whoever writes to the group
\* and whenever the listener restarts.
THEOREM ScanInvariant == ReadersSpec => []ScanInv
<1>1. ReadersInit => ScanInv
  BY ReadersScan, ScanInit
<1>2. ScanInv /\ [ReadersNext]_readers_vars => ScanInv'
  BY ReadersScan, ScanStep
<1> QED
  BY <1>1, <1>2, PTL DEF ReadersSpec

\* The state of the scan has its types, and what is buffered and emitted never
\* exceeds max_rows.
THEOREM ScanTypeCorrect == ReadersSpec => []TypeOK
<1>1. ScanInv => TypeOK
  BY DEF ScanInv
<1> QED
  BY <1>1, ScanInvariant, PTL

\* Over rows that stand still, the pages put together are the rows of the window
\* in the order asked for, cut at max_rows.
THEOREM ScanIsExact == ReadersSpec => []ScanExact
<1>1. ScanInv => ScanExact
  <2> SUFFICES ASSUME ScanInv, Over, ~inserted, ~deleted, DistinctKeys(initial)
               PROVE  \E q \in Orderings(initial) :
                        Result = IF max_rows = 0 THEN q ELSE Page(q, 0, max_rows)
    BY DEF ScanExact
  <2>1. started
    BY DEF ScanInv, CursorInv, Over, TypeOK
  <2>2. PICK q \in Orderings(initial) : Result = Cut(q)
    BY <2>1 DEF ScanInv, ExactInv
  <2> QED
    BY <2>2 DEF Cut
<1> QED
  BY <1>1, ScanInvariant, PTL

\* Events stored during the scan push rows to later pages and skip none.
THEOREM ScanInsertsNeverSkip == ReadersSpec => []InsertsNeverSkip
<1>1. ScanInv => InsertsNeverSkip
  <2> SUFFICES ASSUME ScanInv, Over, ~deleted, max_rows = 0, DistinctKeys(Matching)
               PROVE  initial \subseteq ToSet(Result)
    BY DEF InsertsNeverSkip
  <2>1. started
    BY DEF ScanInv, CursorInv, Over, TypeOK
  <2> QED
    BY <2>1 DEF ScanInv, SeenInv, Over
<1> QED
  BY <1>1, ScanInvariant, PTL

\* A delete during the scan ends it early and repeats no row.
THEOREM ScanDeletesNeverRepeat == ReadersSpec => []DeletesNeverRepeat
<1>1. ScanInv => DeletesNeverRepeat
  <2> SUFFICES ASSUME ScanInv, started, ~inserted, DistinctKeys(initial)
               PROVE  ~Repeats(Result)
    BY DEF DeletesNeverRepeat
  <2>1. PICK q \in Orderings(initial) :
          Len(Result) <= Len(q) /\ Result = SubSeq(q, 1, Len(Result))
    BY DEF ScanInv, ExactInv
  <2>2. /\ q \in Seq(Row) /\ Len(q) \in Nat
        /\ \A i, j \in 1 .. Len(q) : q[i] = q[j] => i = j
    BY OrderingType DEF ScanInv, TypeOK, FiniteInv
  <2>3. Result \in Seq(Row) /\ Len(Result) \in Nat /\ DOMAIN Result = 1 .. Len(Result)
    BY ResultType DEF ScanInv
  <2> DEFINE n == Len(Result)
  <2>4. \A i \in 1 .. n : Result[i] = q[i] /\ i \in 1 .. Len(q)
    <3>1. \A i \in 1 .. n : SubSeq(q, 1, n)[i] = q[i]
      BY <2>1, <2>2, <2>3
    <3> QED
      BY <2>1, <2>2, <2>3, <3>1
  <2> QED
    BY <2>2, <2>3, <2>4 DEF Repeats
<1> QED
  BY <1>1, ScanInvariant, PTL

----------------------------------------------------------------------------
(* The alarm reader.                                                       *)

\* The row of an alarm in a state, and the rows there may be.
RowAt(a, state) == AlarmReader!ParseAlarm([alarm |-> a, status |-> state])
AlarmRow == {RowAt(a, state) : a \in 1 .. Len(Alarms), state \in {"ALARM", "INSUFFICIENT_DATA"}}

\* The key of an alarm's rows, whatever its state.
KeyAt(a) == AlarmReader!Key(RowAt(a, "ALARM"))

\* The sweep is over once the statement has asked for both states.
AlarmTypeInv ==
  /\ condition \in [1 .. Len(Alarms) -> {"OK", "ALARM", "INSUFFICIENT_DATA"}]
  /\ state_index \in 0 .. 2 /\ (~done => state_index < 2)
  /\ token \in 0 .. Len(Alarms) /\ seen_tokens \subseteq 0 .. Len(Alarms)
  /\ open \subseteq 1 .. Len(Alarms)
  /\ rows \in Seq(AlarmRow) /\ given \in Seq(AlarmRow)

\* The rows so far have the keys the scan has seen, each key one row.
RowsInv ==
  LET listed == ToSet(AlarmReader!Result)
  IN /\ IsInjective(AlarmReader!Result)
     /\ seen = {AlarmReader!Key(row) : row \in listed}
     /\ \A r, s \in listed : AlarmReader!Key(r) = AlarmReader!Key(s) => r = s

\* Of the alarms that stay open, those up to the token are listed that are in the
\* state of this sweep, and all that are in the state of an earlier one.
SweepInv ==
  service # "looping" =>
    /\ \A t \in seen_tokens : t <= token
    /\ \A a \in open \ strayed :
         /\ condition[a] # "OK"
         /\ condition[a] = "ALARM" /\ (state_index > 0 \/ a <= token) =>
              KeyAt(a) \in seen
         /\ state_index = 2 \/ (state_index = 1 /\ a <= token) => KeyAt(a) \in seen

AlarmInv == AlarmTypeInv /\ RowsInv /\ SweepInv

\* The alarm reader's names of what Selections defines.
LEMMA AlarmSelections ==
  /\ \A q, places : AlarmReader!Kept(q, places) = Kept(q, places)
  /\ \A places : AlarmReader!Ascending(places) = Ascending(places)
  /\ \A T : AlarmReader!Min(T) = Min(T)
  /\ \A T : AlarmReader!Max(T) = Max(T)
  /\ \A T : AlarmReader!Cardinality(T) = Cardinality(T)
<1>1. \A S : AlarmReader!SetToSeqs(S) = SetToSeqs(S)
  BY DEF AlarmReader!SetToSeqs, SetToSeqs, AlarmReader!Cardinality, Cardinality
<1>2. \A places : AlarmReader!Ascending(places) = Ascending(places)
  BY <1>1, Zenon DEF AlarmReader!Ascending, Ascending
<1>3. \A q, places : AlarmReader!Kept(q, places) = Kept(q, places)
  BY <1>2, Zenon DEF AlarmReader!Kept, Kept
<1>4. (\A T : AlarmReader!Min(T) = Min(T)) /\ (\A T : AlarmReader!Max(T) = Max(T))
  BY DEF AlarmReader!Min, Min, AlarmReader!Max, Max
<1>5. \A T : AlarmReader!Cardinality(T) = Cardinality(T)
  BY DEF AlarmReader!Cardinality, Cardinality
<1> QED
  BY <1>2, <1>3, <1>4, <1>5

\* What the constants are.
LEMMA AlarmConstants ==
  /\ Len(Alarms) \in Nat /\ DOMAIN Alarms = 1 .. Len(Alarms)
  /\ AlarmPageSize \in Nat \ {0} /\ ChunkSize \in Nat \ {0}
  /\ \A a \in 1 .. Len(Alarms) :
       Alarms[a].container \in {"MetricAlarms", "CompositeAlarms", "LogAlarms"}
<1> DEFINE S == [container : {"MetricAlarms", "CompositeAlarms", "LogAlarms"},
                 arn : STRING, name : STRING, type : STRING]
<1>1. /\ Alarms \in Seq(S) /\ AlarmPageSize \in Nat \ {0} /\ ChunkSize \in Nat \ {0}
  BY ReadersAssumption DEF AlarmReader!AlarmAssumption, AlarmReader!Containers
<1>2. \A s \in S : s.container \in {"MetricAlarms", "CompositeAlarms", "LogAlarms"}
  OBVIOUS
<1> HIDE DEF S
<1>3. /\ Len(Alarms) \in Nat /\ DOMAIN Alarms = 1 .. Len(Alarms)
      /\ \A a \in 1 .. Len(Alarms) : Alarms[a] \in S
  BY <1>1
<1> QED
  BY <1>1, <1>2, <1>3

\* The state of a row, and that its key does not depend on it.
LEMMA RowAtKey ==
  ASSUME NEW a
  PROVE  /\ \A s : RowAt(a, s).status = s
         /\ \A s : AlarmReader!Key(RowAt(a, s)) = KeyAt(a)
         /\ AlarmReader!KeyOf(a) = KeyAt(a)
<1> DEFINE type == IF Alarms[a].type = "" THEN AlarmReader!DefaultType(Alarms[a].container)
                   ELSE Alarms[a].type
<1>1. \A s : RowAt(a, s) = [alarm_arn |-> Alarms[a].arn, alarm_name |-> Alarms[a].name,
                            status |-> s, alarm_type |-> type]
  BY DEF RowAt, AlarmReader!ParseAlarm
<1> HIDE DEF type
<1>2. \A s : /\ RowAt(a, s).alarm_arn = Alarms[a].arn /\ RowAt(a, s).alarm_name = Alarms[a].name
             /\ RowAt(a, s).alarm_type = type /\ RowAt(a, s).status = s
  BY <1>1
<1>3. \A s : AlarmReader!Key(RowAt(a, s)) =
               IF Alarms[a].arn # "" THEN <<Alarms[a].arn>> ELSE <<type, Alarms[a].name>>
  BY <1>2, Zenon DEF AlarmReader!Key
<1>4. AlarmReader!KeyOf(a) = AlarmReader!Key(RowAt(a, condition[a]))
  BY Zenon DEF AlarmReader!KeyOf, RowAt
<1> QED
  BY <1>2, <1>3, <1>4, Zenon DEF KeyAt

\* A page of DescribeAlarms as the scan uses it: some alarms, and from a service
\* that names no token again all in that state up to a later token or the last.
PageOf(response, page, state) ==
  /\ page \in SUBSET (1 .. Len(Alarms))
  /\ response.members = {[alarm |-> a, status |-> condition[a]] : a \in page}
  /\ response.token \in 0 .. Len(Alarms)
  /\ service # "looping" =>
       \/ /\ response.token = 0
          /\ \A a \in 1 .. Len(Alarms) : a > token /\ condition[a] = state => a \in page
       \/ /\ response.token > token
          /\ \A a \in 1 .. Len(Alarms) :
               a > token /\ a <= response.token /\ condition[a] = state => a \in page

\* The service answers with such pages.
LEMMA DescribedAlarms ==
  ASSUME AlarmTypeInv, NEW state,
         NEW response \in AlarmReader!DescribeAlarms(
                            AlarmReader!BuildDescribeAlarmsRequest(state, token))
  PROVE  \E page : PageOf(response, page, state)
<1> DEFINE listed == {a \in 1 .. Len(Alarms) :
                        a > token /\ (service = "unfiltered" \/ condition[a] = state)}
           page == FirstOf(listed, AlarmPageSize)
           last == IF page = {} THEN token ELSE Max(page)
           more == IF page # listed THEN {last}
                   ELSE IF service = "looping" THEN 1 .. Len(Alarms) ELSE {0}
<1>1. /\ response.members = {[alarm |-> a, status |-> condition[a]] : a \in page}
      /\ response.token \in more
  <2> DEFINE request == [StateValue |-> state, NextToken |-> token]
             alarms == {a \in DOMAIN Alarms :
                          /\ a > request.NextToken
                          /\ service = "unfiltered" \/ condition[a] = request.StateValue}
             apage == {a \in alarms :
                         AlarmReader!Cardinality({b \in alarms : b <= a}) <= AlarmPageSize}
             alast == IF apage = {} THEN request.NextToken ELSE AlarmReader!Max(apage)
             amore == IF apage # alarms THEN {alast}
                      ELSE IF service = "looping" THEN DOMAIN Alarms ELSE {0}
  <2>1. response \in {[members |-> {[alarm |-> a, status |-> condition[a]] : a \in apage},
                       token |-> t] : t \in amore}
    BY Zenon DEF AlarmReader!DescribeAlarms, AlarmReader!BuildDescribeAlarmsRequest,
                 AlarmReader!Alarm
  <2>2. alarms = listed
    BY AlarmConstants
  <2> HIDE DEF alarms, listed
  <2>3. apage = page
    BY <2>2, AlarmSelections DEF FirstOf
  <2>4. alast = last
    BY <2>3, AlarmSelections
  <2> HIDE DEF apage, page, alast, last
  <2>5. amore = more
    BY <2>2, <2>3, <2>4, AlarmConstants
  <2> HIDE DEF amore, more
  <2>6. response \in {[members |-> {[alarm |-> a, status |-> condition[a]] : a \in page},
                       token |-> t] : t \in more}
    BY <2>1, <2>3, <2>5, Zenon
  <2> QED
    BY <2>6
<1>2. listed \in SUBSET (1 .. Len(Alarms)) /\ \A a \in listed : a > token
  OBVIOUS
<1>3. \A a \in 1 .. Len(Alarms) : a > token /\ condition[a] = state => a \in listed
  OBVIOUS
<1> HIDE DEF listed
<1>4. /\ page \in SUBSET listed
      /\ page # listed => \E end \in page :
           /\ end = Max(page) /\ \A a \in page : a <= end
           /\ \A a \in listed : a <= end => a \in page
  BY <1>2, LimitedPage, AlarmConstants
<1> HIDE DEF page
<1>5. page \in SUBSET (1 .. Len(Alarms)) /\ \A a \in page : a \in 1 .. Len(Alarms) /\ a > token
  BY <1>2, <1>4
<1>6. CASE page = listed
  <2>1. response.token \in 0 .. Len(Alarms) /\ (service # "looping" => response.token = 0)
    BY <1>1, <1>6, AlarmConstants
  <2> QED
    BY <1>1, <1>3, <1>5, <1>6, <2>1 DEF PageOf
<1>7. CASE page # listed
  <2>1. PICK end \in page : end = Max(page) /\ \A a \in listed : a <= end => a \in page
    BY <1>4, <1>7
  <2>2. response.token = end
    BY <1>1, <1>7, <2>1
  <2>3. end \in 0 .. Len(Alarms) /\ end > token
    BY <1>5, AlarmConstants
  <2> QED
    BY <1>1, <1>3, <1>5, <2>1, <2>2, <2>3 DEF PageOf
<1> QED
  BY <1>6, <1>7

\* The rows of a page: those of its alarms in the state the sweep is about.
LEMMA ParsedPage ==
  ASSUME NEW response, NEW page, NEW state \in {"ALARM", "INSUFFICIENT_DATA"},
         PageOf(response, page, state),
         NEW parsed, parsed = AlarmReader!ParseDescribeAlarmsResponse(response, state)
  PROVE  /\ parsed \in Seq(AlarmRow)
         /\ ToSet(parsed) = {RowAt(a, state) : a \in {x \in page : condition[x] = state}}
<1> DEFINE places(c) == {a \in page : condition[a] = state /\ Alarms[a].container = c}
           part(c) == [i \in DOMAIN Ascending(places(c)) |-> RowAt(Ascending(places(c))[i], state)]
<1>1. page \in SUBSET (1 .. Len(Alarms))
  BY DEF PageOf
<1>2. parsed = part("MetricAlarms") \o part("CompositeAlarms") \o part("LogAlarms")
  <2> DEFINE members(c) == {m \in response.members :
                              Alarms[m.alarm].container = c /\ m.status = state}
  <2>1. ASSUME NEW c PROVE {m.alarm : m \in members(c)} = places(c)
    <3>1. response.members = {[alarm |-> a, status |-> condition[a]] : a \in page}
      BY DEF PageOf
    <3>2. ASSUME NEW a \in places(c) PROVE a \in {m.alarm : m \in members(c)}
      <4>1. [alarm |-> a, status |-> condition[a]] \in members(c)
        BY <3>1
      <4>2. [alarm |-> a, status |-> condition[a]].alarm = a
        OBVIOUS
      <4> HIDE DEF members
      <4> QED
        BY <4>1, <4>2
    <3>3. ASSUME NEW m \in members(c) PROVE m.alarm \in places(c)
      <4>1. PICK a \in page : m = [alarm |-> a, status |-> condition[a]]
        BY <3>1
      <4> QED
        BY <4>1
    <3> HIDE DEF members, places
    <3> QED
      BY <3>2, <3>3
  <2> HIDE DEF members, places
  <2>2. AlarmReader!ParseDescribeAlarmsResponse(response, state) =
          part("MetricAlarms") \o part("CompositeAlarms") \o part("LogAlarms")
    BY <2>1, AlarmSelections
       DEF AlarmReader!ParseDescribeAlarmsResponse, RowAt, members
  <2> QED
    BY <2>2
<1>3. ASSUME NEW c
      PROVE  part(c) \in Seq(AlarmRow) /\ ToSet(part(c)) = {RowAt(a, state) : a \in places(c)}
  <2>1. PICK set : set = places(c)
    OBVIOUS
  <2>2. set \in SUBSET (1 .. Len(Alarms)) /\ set \in SUBSET Int /\ IsFiniteSet(set)
    <3>1. PICK D : D = 1 .. Len(Alarms)
      OBVIOUS
    <3>2. 1 \in Int /\ Len(Alarms) \in Int
      BY AlarmConstants
    <3>3. IsFiniteSet(D) /\ set \in SUBSET D
      BY <1>1, <2>1, <3>1, <3>2, FS_Interval
    <3>4. set \in SUBSET (1 .. Len(Alarms)) /\ IsFiniteSet(set)
      BY <3>1, <3>3, FS_Subset
    <3> QED
      BY <3>4
  <2>3. PICK p : p = Ascending(set)
    OBVIOUS
  <2>4. /\ p \in Seq(set) /\ Len(p) \in Nat /\ DOMAIN p = 1 .. Len(p)
        /\ \A k \in 1 .. Len(p) : p[k] \in set
        /\ \A x \in set : \E k \in 1 .. Len(p) : p[k] = x
    <3>1. /\ p \in Seq(set) /\ Len(p) = Cardinality(set) /\ Cardinality(set) \in Nat
          /\ \A x \in set : \E k \in 1 .. Cardinality(set) : p[k] = x
      BY <2>2, <2>3, AscendingLists
    <3> QED
      BY <3>1
  <2>5. PICK n \in Nat : n = Len(p)
    BY <2>4
  <2>6. PICK u : u = [k \in 1 .. n |-> RowAt(p[k], state)]
    OBVIOUS
  <2>7. part(c) = u
    BY <2>1, <2>3, <2>4, <2>5, <2>6
  <2> HIDE DEF part, places
  <2>8. u \in [1 .. n -> AlarmRow] /\ DOMAIN u = 1 .. n
    BY <2>2, <2>4, <2>5, <2>6 DEF AlarmRow
  <2>9. u \in Seq(AlarmRow)
    BY <2>8
  <2>10. ToSet(u) = {RowAt(a, state) : a \in set}
    <3>1. \A e : e \in ToSet(u) <=> \E k \in 1 .. n : e = RowAt(p[k], state)
      BY <2>6, <2>8 DEF ToSet
    <3>2. ASSUME NEW e
          PROVE  (\E k \in 1 .. n : e = RowAt(p[k], state)) <=> e \in {RowAt(a, state) : a \in set}
      BY <2>4, <2>5
    <3> QED
      BY <3>1, <3>2
  <2> QED
    BY <2>1, <2>7, <2>9, <2>10
<1> HIDE DEF part
<1>4. PICK u, v, w : /\ u = part("MetricAlarms") /\ v = part("CompositeAlarms")
                     /\ w = part("LogAlarms")
  OBVIOUS
<1>5. /\ u \in Seq(AlarmRow) /\ ToSet(u) = {RowAt(a, state) : a \in places("MetricAlarms")}
      /\ v \in Seq(AlarmRow) /\ ToSet(v) = {RowAt(a, state) : a \in places("CompositeAlarms")}
      /\ w \in Seq(AlarmRow) /\ ToSet(w) = {RowAt(a, state) : a \in places("LogAlarms")}
  BY <1>3, <1>4
<1>6. parsed \in Seq(AlarmRow) /\ ToSet(parsed) = ToSet(u) \cup ToSet(v) \cup ToSet(w)
  <2>1. u \o v \in Seq(AlarmRow) /\ ToSet(u \o v) = ToSet(u) \cup ToSet(v)
    BY <1>5, ConcatSet
  <2>2. PICK x : x = u \o v
    OBVIOUS
  <2>3. PICK S : S = AlarmRow
    OBVIOUS
  <2>4. x \in Seq(S) /\ w \in Seq(S)
    BY <1>5, <2>1, <2>2, <2>3
  <2>5. x \o w \in Seq(S) /\ ToSet(x \o w) = ToSet(x) \cup ToSet(w)
    BY <2>4, ConcatSet
  <2> QED
    BY <1>2, <1>4, <2>1, <2>2, <2>3, <2>5
<1>7. {x \in page : condition[x] = state} =
        places("MetricAlarms") \cup places("CompositeAlarms") \cup places("LogAlarms")
  BY <1>1, AlarmConstants
<1> HIDE DEF places
<1> QED
  BY <1>5, <1>6, <1>7

\* What the scan keeps of a page: a row for each key it has not seen, one each.
LEMMA UnseenPage ==
  ASSUME NEW page \in Seq(AlarmRow), NEW before, NEW new, new = AlarmReader!Unseen(page, before)
  PROVE  /\ new \in Seq(AlarmRow) /\ IsInjective(new)
         /\ \A r \in ToSet(new) : AlarmReader!Key(r) \notin before
         /\ \A r, s \in ToSet(new) : AlarmReader!Key(r) = AlarmReader!Key(s) => r = s
         /\ {AlarmReader!Key(r) : r \in ToSet(new)} =
              {AlarmReader!Key(page[i]) : i \in DOMAIN page} \ before
<1> DEFINE K(i) == AlarmReader!Key(page[i])
           places == {i \in DOMAIN page : /\ K(i) \notin before
                                          /\ \A j \in 1 .. (i - 1) : K(j) # K(i)}
<1>1. new = Kept(page, places)
  BY AlarmSelections DEF AlarmReader!Unseen
<1>2. /\ Len(page) \in Nat /\ DOMAIN page = 1 .. Len(page)
      /\ places \in SUBSET DOMAIN page /\ \A i \in places : i \in 1 .. Len(page)
  OBVIOUS
<1>3. ASSUME NEW i \in places, NEW j \in places, K(i) = K(j) PROVE i = j
  <2>1. \A x, y \in 1 .. Len(page) : x < y => x \in 1 .. (y - 1)
    OBVIOUS
  <2>2. ~(i < j) /\ ~(j < i)
    BY <1>2, <1>3, <2>1
  <2> QED
    BY <1>2, <2>2
<1>4. ASSUME NEW i \in 1 .. Len(page), K(i) \notin before
      PROVE  \E x \in places : K(x) = K(i)
  <2> DEFINE T == {j \in 1 .. Len(page) : K(j) = K(i)}
  <2> HIDE DEF K
  <2>1. T \subseteq Nat /\ i \in T
    OBVIOUS
  <2>2. PICK x \in T : \A y \in T : x <= y
    BY <2>1, LeastNat
  <2>3. x \in 1 .. Len(page) /\ K(x) = K(i)
    BY <2>2
  <2>4. ASSUME NEW j \in 1 .. (x - 1) PROVE K(j) # K(x)
    <3>1. j \in 1 .. Len(page) /\ ~(x <= j)
      BY <1>2, <2>3
    <3> QED
      BY <2>2, <2>3, <3>1
  <2>5. x \in places
    BY <1>2, <1>4, <2>3, <2>4
  <2> QED
    BY <2>3, <2>5
<1>5. \A i \in places : K(i) \notin before
  OBVIOUS
<1> HIDE DEF places
<1>6. ToSet(new) = {page[x] : x \in places} /\ new \in Seq(AlarmRow) /\ IsInjective(new)
  <2>1. \A x, y \in places : page[x] = page[y] => x = y
    BY <1>3
  <2> QED
    BY <1>1, <1>2, <2>1, KeptElements, KeptSet
<1>7. \A r \in ToSet(new) : \E x \in places : r = page[x] /\ AlarmReader!Key(r) = K(x)
  BY <1>6
<1>8. \A x \in places : page[x] \in ToSet(new)
  BY <1>6
<1>9. ASSUME NEW k PROVE k \in {AlarmReader!Key(r) : r \in ToSet(new)} <=>
                         k \in {AlarmReader!Key(page[i]) : i \in DOMAIN page} \ before
  <2>1. k \in {AlarmReader!Key(r) : r \in ToSet(new)} <=> \E x \in places : k = K(x)
    BY <1>7, <1>8
  <2>2. k \in {AlarmReader!Key(page[i]) : i \in DOMAIN page} \ before <=>
          k \notin before /\ \E i \in 1 .. Len(page) : k = K(i)
    BY <1>2
  <2> HIDE DEF K
  <2> QED
    BY <1>2, <1>4, <1>5, <2>1, <2>2
<1>10. \A r, s \in ToSet(new) : AlarmReader!Key(r) = AlarmReader!Key(s) => r = s
  <2> TAKE r, s \in ToSet(new)
  <2>1. PICK x \in places : r = page[x] /\ AlarmReader!Key(r) = K(x)
    BY <1>7, Zenon
  <2>2. PICK y \in places : s = page[y] /\ AlarmReader!Key(s) = K(y)
    BY <1>7, Zenon
  <2> HAVE AlarmReader!Key(r) = AlarmReader!Key(s)
  <2>3. x = y
    BY <1>3, <2>1, <2>2, Zenon
  <2> QED
    BY <2>1, <2>2, <2>3
<1> QED
  BY <1>5, <1>6, <1>7, <1>9, <1>10

\* A page keeps the invariant: its new rows have keys that were not seen, and a
\* later token leaves no alarm of the sweep's state behind.
LEMMA AlarmFetchStep ==
  ASSUME AlarmInv, AlarmReader!FetchAlarmsPage
  PROVE  AlarmInv'
<1>1. PICK state : state = AlarmReader!States[state_index + 1]
  OBVIOUS
<1>2. /\ rows = << >> /\ state_index \in {0, 1} /\ Len(AlarmReader!States) = 2
      /\ state = IF state_index = 0 THEN "ALARM" ELSE "INSUFFICIENT_DATA"
      /\ UNCHANGED <<condition, service, given, open, strayed>>
  <2>1. rows = << >> /\ ~done /\ UNCHANGED <<condition, service, given, open, strayed>>
    BY DEF AlarmReader!FetchAlarmsPage, AlarmReader!account
  <2>2. state_index \in {0, 1}
    BY <2>1 DEF AlarmInv, AlarmTypeInv
  <2> QED
    BY <1>1, <2>1, <2>2 DEF AlarmReader!States
<1>3. PICK response, parsed, next :
        /\ response \in AlarmReader!DescribeAlarms(
                           AlarmReader!BuildDescribeAlarmsRequest(state, token))
        /\ parsed = AlarmReader!ParseDescribeAlarmsResponse(response, state)
        /\ next = response.token
        /\ rows' = AlarmReader!Unseen(parsed, seen)
        /\ seen' = seen \cup {AlarmReader!Key(parsed[i]) : i \in DOMAIN parsed}
        /\ IF next = 0 \/ (next # 0 /\ next \in seen_tokens)
           THEN /\ state_index' = state_index + 1 /\ token' = 0 /\ seen_tokens' = {}
                /\ done' = (state_index' >= 2)
           ELSE /\ token' = next /\ seen_tokens' = seen_tokens \cup {next}
                /\ UNCHANGED <<state_index, done>>
  BY <1>1, <1>2, Zenon DEF AlarmReader!FetchAlarmsPage, AlarmReader!IsRepeatedAlarmToken
<1>4. PICK page : PageOf(response, page, state)
  BY <1>3, DescribedAlarms DEF AlarmInv
<1>5. PICK new : new = AlarmReader!Unseen(parsed, seen)
  OBVIOUS
<1>6. PICK fresh : fresh = {x \in page : condition[x] = state}
  OBVIOUS
<1>7. parsed \in Seq(AlarmRow) /\ ToSet(parsed) = {RowAt(a, state) : a \in fresh}
  <2>1. state \in {"ALARM", "INSUFFICIENT_DATA"}
    BY <1>2
  <2> QED
    BY <1>3, <1>4, <1>6, <2>1, ParsedPage
<1>8. {AlarmReader!Key(parsed[i]) : i \in DOMAIN parsed} = {KeyAt(a) : a \in fresh}
  <2>1. \A r : r \in ToSet(parsed) <=> \E i \in DOMAIN parsed : r = parsed[i]
    BY DEF ToSet
  <2>2. {AlarmReader!Key(parsed[i]) : i \in DOMAIN parsed} =
          {AlarmReader!Key(r) : r \in ToSet(parsed)}
    BY <2>1
  <2>3. \A a : AlarmReader!Key(RowAt(a, state)) = KeyAt(a)
    BY RowAtKey
  <2> QED
    BY <1>7, <2>2, <2>3
<1>9. /\ new \in Seq(AlarmRow) /\ IsInjective(new)
      /\ \A r \in ToSet(new) : AlarmReader!Key(r) \notin seen
      /\ \A r, s \in ToSet(new) : AlarmReader!Key(r) = AlarmReader!Key(s) => r = s
      /\ {AlarmReader!Key(r) : r \in ToSet(new)} = {KeyAt(a) : a \in fresh} \ seen
  <2>1. PICK before : before = seen
    OBVIOUS
  <2>2. /\ new \in Seq(AlarmRow) /\ IsInjective(new)
        /\ \A r \in ToSet(new) : AlarmReader!Key(r) \notin before
        /\ \A r, s \in ToSet(new) : AlarmReader!Key(r) = AlarmReader!Key(s) => r = s
        /\ {AlarmReader!Key(r) : r \in ToSet(new)} =
             {AlarmReader!Key(parsed[i]) : i \in DOMAIN parsed} \ before
    BY <1>5, <1>7, <2>1, UnseenPage
  <2> QED
    BY <1>8, <2>1, <2>2
<1>10. rows' = new /\ seen' = seen \cup {KeyAt(a) : a \in fresh}
  BY <1>3, <1>5, <1>8
<1>11. PICK q : q = given
  OBVIOUS
<1>12. /\ q \in Seq(AlarmRow) /\ AlarmReader!Result = q /\ AlarmReader!Result' = q \o new
  <2>1. q \in Seq(AlarmRow) /\ q \o << >> = q
    BY <1>11 DEF AlarmInv, AlarmTypeInv
  <2> QED
    BY <1>2, <1>10, <1>11, <2>1 DEF AlarmReader!Result
<1>13. RowsInv'
  <2>1. /\ IsInjective(q) /\ seen = {AlarmReader!Key(row) : row \in ToSet(q)}
        /\ \A r, s \in ToSet(q) : AlarmReader!Key(r) = AlarmReader!Key(s) => r = s
    BY <1>12 DEF AlarmInv, RowsInv
  <2>2. ToSet(q) \cap ToSet(new) = {}
    BY <1>9, <2>1
  <2>3. PICK u : u = q \o new
    OBVIOUS
  <2>4. IsInjective(u) /\ ToSet(u) = ToSet(q) \cup ToSet(new)
    BY <1>9, <1>12, <2>1, <2>2, <2>3, ConcatSet
  <2>5. \A r, s \in ToSet(u) : AlarmReader!Key(r) = AlarmReader!Key(s) => r = s
    BY <1>9, <2>1, <2>4
  <2>6. seen' = {AlarmReader!Key(row) : row \in ToSet(u)}
    <3>1. seen' = seen \cup {AlarmReader!Key(r) : r \in ToSet(new)}
      BY <1>9, <1>10
    <3> QED
      BY <2>1, <2>4, <3>1
  <2> QED
    BY <1>12, <2>3, <2>4, <2>5, <2>6 DEF RowsInv
<1>14. AlarmTypeInv'
  <2>1. next \in 0 .. Len(Alarms)
    BY <1>3, <1>4 DEF PageOf
  <2>2. token' \in 0 .. Len(Alarms) /\ seen_tokens' \subseteq 0 .. Len(Alarms)
    <3>1. 0 \in 0 .. Len(Alarms) /\ seen_tokens \subseteq 0 .. Len(Alarms)
      BY AlarmConstants DEF AlarmInv, AlarmTypeInv
    <3>2. PICK D : D = 0 .. Len(Alarms)
      OBVIOUS
    <3>3. \/ token' = 0 /\ seen_tokens' = {}
          \/ token' = next /\ seen_tokens' = seen_tokens \cup {next}
      BY <1>3, Zenon
    <3> QED
      BY <2>1, <3>1, <3>2, <3>3
  <2>3. \/ state_index' = state_index + 1 /\ (~done' => ~(state_index' >= 2))
        \/ state_index' = state_index
    BY <1>3, Zenon
  <2>4. state_index' \in 0 .. 2 /\ (~done' => state_index' < 2)
    BY <1>2, <2>3
  <2> QED
    BY <1>2, <1>9, <1>10, <2>2, <2>4 DEF AlarmInv, AlarmTypeInv
<1>15. SweepInv'
  <2> SUFFICES ASSUME service # "looping" PROVE SweepInv'
    BY <1>2 DEF SweepInv
  <2>1. PICK n, t, at : /\ n = Len(Alarms) /\ t = token /\ at = condition
                        /\ n \in Nat /\ t \in Nat /\ t <= n
    <3>1. Len(Alarms) \in Nat /\ token \in 0 .. Len(Alarms)
      BY AlarmConstants DEF AlarmInv, AlarmTypeInv
    <3>2. token \in Nat /\ token <= Len(Alarms)
      BY <3>1
    <3> QED
      BY <3>1, <3>2, Zenon
  <2>2. /\ \A x \in seen_tokens : x \in 0 .. n /\ x <= t
        /\ \A a \in open \ strayed :
             /\ a \in 1 .. n /\ at[a] \in {"ALARM", "INSUFFICIENT_DATA"}
             /\ at[a] = "ALARM" /\ (state_index > 0 \/ a <= t) => KeyAt(a) \in seen
             /\ state_index = 1 /\ a <= t => KeyAt(a) \in seen
    BY <2>1 DEF AlarmInv, AlarmTypeInv, SweepInv
  <2>3. \/ /\ next = 0
           /\ \A a \in 1 .. n : a > t /\ at[a] = state => a \in page
        \/ /\ next > t /\ next \in 0 .. n
           /\ \A a \in 1 .. n : a > t /\ a <= next /\ at[a] = state => a \in page
    BY <1>3, <1>4, <2>1 DEF PageOf
  <2>6. \A a \in fresh : KeyAt(a) \in seen'
    <3>1. PICK new_seen : new_seen = seen'
      OBVIOUS
    <3>2. \A a \in fresh : KeyAt(a) \in new_seen
      BY <1>10, <3>1
    <3> QED
      BY <3>1, <3>2, Zenon
  <2>4. CASE next = 0
    <3>1. /\ state_index' = state_index + 1 /\ token' = 0 /\ seen_tokens' = {}
      BY <1>3, <2>4
    <3>2. ASSUME NEW a \in open \ strayed, at[a] = state \/ state_index = 1
          PROVE  KeyAt(a) \in seen'
      <4>1. CASE a > t /\ at[a] = state
        <5>1. a \in fresh
          BY <1>6, <2>1, <2>2, <2>3, <2>4, <4>1
        <5> QED
          BY <2>6, <5>1, Zenon
      <4>2. CASE ~(a > t)
        <5>1. a <= t
          BY <2>1, <2>2, <4>2
        <5> QED
          BY <1>2, <1>10, <2>2, <3>2, <5>1
      <4>3. CASE at[a] # state
        <5>1. state_index = 1 /\ at[a] = "ALARM"
          BY <1>2, <2>2, <3>2, <4>3
        <5> QED
          BY <1>10, <2>2, <5>1
      <4> QED
        BY <4>1, <4>2, <4>3
    <3>3. ASSUME NEW a \in open \ strayed
          PROVE  /\ at[a] # "OK"
                 /\ at[a] = "ALARM" => KeyAt(a) \in seen'
                 /\ state_index' = 2 => KeyAt(a) \in seen'
                 /\ ~(a <= 0)
      <4>1. at[a] = "ALARM" => KeyAt(a) \in seen'
        BY <1>2, <3>2
      <4>2. state_index' = 2 => state_index = 1
        BY <1>2, <3>1
      <4> QED
        BY <2>2, <3>2, <4>1, <4>2
    <3> QED
      BY <1>2, <2>1, <3>1, <3>3 DEF SweepInv
  <2>5. CASE next # 0
    <3>1. next > t /\ next \in 0 .. n
      BY <2>3, <2>5
    <3>2. next \notin seen_tokens
      <4>1. next \in seen_tokens => next <= t
        BY <2>2
      <4> QED
        BY <2>1, <3>1, <4>1
    <3>3. token' = next /\ seen_tokens' = seen_tokens \cup {next} /\ state_index' = state_index
      <4>1. /\ token' = next /\ seen_tokens' = seen_tokens \cup {next}
            /\ UNCHANGED <<state_index, done>>
        BY <1>3, <2>5, <3>2, Zenon
      <4> QED
        BY <4>1
    <3>4. \A x \in seen_tokens' : x <= next
      <4>1. ASSUME NEW x \in seen_tokens PROVE x <= next
        BY <2>1, <2>2, <3>1
      <4> QED
        BY <3>1, <3>3, <4>1
    <3>5. ASSUME NEW a \in open \ strayed
          PROVE  /\ at[a] = "ALARM" /\ (state_index > 0 \/ a <= next) => KeyAt(a) \in seen'
                 /\ state_index = 1 /\ a <= next => KeyAt(a) \in seen'
      <4>1. KeyAt(a) \in seen => KeyAt(a) \in seen'
        BY <1>10
      <4>2. a > t /\ a <= next /\ at[a] = state => KeyAt(a) \in seen'
        <5> HAVE a > t /\ a <= next /\ at[a] = state
        <5>1. a \in fresh
          BY <1>6, <2>1, <2>2, <2>3, <2>5
        <5> QED
          BY <2>6, <5>1, Zenon
      <4>3. a > t \/ a <= t
        BY <2>1, <2>2
      <4>4. /\ at[a] \in {"ALARM", "INSUFFICIENT_DATA"}
            /\ at[a] = "ALARM" /\ (state_index > 0 \/ a <= t) => KeyAt(a) \in seen
            /\ state_index = 1 /\ a <= t => KeyAt(a) \in seen
        BY <2>2
      <4> QED
        BY <1>2, <4>1, <4>2, <4>3, <4>4
    <3>6. \A a \in open \ strayed : at[a] # "OK"
      BY <2>2
    <3> QED
      BY <1>2, <2>1, <3>3, <3>4, <3>5, <3>6 DEF SweepInv
  <2> QED
    BY <2>4, <2>5
<1> QED
  BY <1>13, <1>14, <1>15 DEF AlarmInv

\* Rows that leave the buffer stay in the result.
LEMMA AlarmGivenStep ==
  ASSUME AlarmInv, AlarmReader!AlertsScan
  PROVE  AlarmInv'
<1> DEFINE count == AlarmReader!Min({Len(rows), ChunkSize})
<1>1. /\ given' = given \o SubSeq(rows, 1, count)
      /\ rows' = SubSeq(rows, count + 1, Len(rows))
      /\ UNCHANGED <<condition, service, state_index, token, seen, seen_tokens, done, open, strayed>>
  BY DEF AlarmReader!AlertsScan, AlarmReader!account, AlarmReader!position
<1>2. rows \in Seq(AlarmRow) /\ given \in Seq(AlarmRow) /\ Len(rows) \in Nat
  BY DEF AlarmInv, AlarmTypeInv
<1>3. count \in 0 .. Len(rows)
  <2>1. PICK n, m : n = Len(rows) /\ m = ChunkSize
    OBVIOUS
  <2>2. n \in Nat /\ m \in Nat /\ {n, m} \in SUBSET Nat /\ {n, m} # {}
    BY <1>2, <2>1, AlarmConstants
  <2>3. Min({n, m}) \in {n, m} /\ Min({n, m}) <= n
    BY <2>2, MinNat
  <2>4. Min({n, m}) \in 0 .. n
    BY <2>2, <2>3
  <2> QED
    BY <2>1, <2>4, AlarmSelections
<1> HIDE DEF count
<1>4. rows' \in Seq(AlarmRow) /\ given' \in Seq(AlarmRow) /\ given' \o rows' = given \o rows
  <2>1. PICK S : S = AlarmRow
    OBVIOUS
  <2>2. rows \in Seq(S) /\ given \in Seq(S)
    BY <1>2, <2>1
  <2>3. PICK q \in Seq(S), r \in Seq(S) : q = given /\ r = rows
    BY <2>2
  <2>4. PICK k \in 0 .. Len(r) : k = count
    BY <1>3, <2>3
  <2>5. HandsOver(S, q, r, k)
    BY HandOver
  <2> QED
    BY <1>1, <2>1, <2>3, <2>4, <2>5, Zenon DEF HandsOver
<1>5. AlarmReader!Result' = AlarmReader!Result
  BY <1>4 DEF AlarmReader!Result
<1>6. AlarmTypeInv'
  BY <1>1, <1>4 DEF AlarmInv, AlarmTypeInv
<1>7. RowsInv'
  BY <1>1, <1>5 DEF AlarmInv, RowsInv
<1>8. SweepInv'
  BY <1>1 DEF AlarmInv, SweepInv
<1> QED
  BY <1>6, <1>7, <1>8 DEF AlarmInv

\* An alarm that changes state strays, or goes from the first sweep's state to the
\* second's and is listed if it was due.
LEMMA AlarmChangeStep ==
  ASSUME AlarmInv, NEW a \in AlarmReader!Alarm, NEW to \in AlarmReader!Conditions,
         AlarmReader!ChangeState(a, to)
  PROVE  AlarmInv'
<1>1. /\ condition' = [condition EXCEPT ![a] = to]
      /\ strayed' = IF condition[a] = "ALARM" /\ to = "INSUFFICIENT_DATA"
                    THEN strayed ELSE strayed \cup {a}
      /\ UNCHANGED <<service, state_index, token, seen, seen_tokens, rows, given, done, open>>
  BY DEF AlarmReader!ChangeState, AlarmReader!position
<1>2. a \in 1 .. Len(Alarms) /\ to \in {"OK", "ALARM", "INSUFFICIENT_DATA"}
  BY AlarmConstants DEF AlarmReader!Alarm, AlarmReader!Conditions
<1>3. AlarmTypeInv'
  BY <1>1, <1>2 DEF AlarmInv, AlarmTypeInv
<1>4. RowsInv'
  BY <1>1 DEF AlarmInv, RowsInv, AlarmReader!Result
<1>5. ASSUME NEW b \in open \ strayed'
      PROVE  /\ b \in open \ strayed /\ b \in 1 .. Len(Alarms)
             /\ \/ condition'[b] = condition[b]
                \/ condition'[b] = "INSUFFICIENT_DATA"
  <2>1. b \in open \ strayed /\ b \in 1 .. Len(Alarms)
    BY <1>1, <1>5 DEF AlarmInv, AlarmTypeInv
  <2>2. DOMAIN condition = 1 .. Len(Alarms)
    BY DEF AlarmInv, AlarmTypeInv
  <2>3. CASE b # a
    BY <1>1, <2>1, <2>2, <2>3
  <2>4. CASE b = a
    <3>1. to = "INSUFFICIENT_DATA"
      BY <1>1, <1>5, <2>4
    <3> QED
      BY <1>1, <2>1, <2>2, <2>4, <3>1
  <2> QED
    BY <2>1, <2>3, <2>4
<1>6. SweepInv'
  <2> SUFFICES ASSUME service # "looping", NEW b \in open \ strayed'
               PROVE  /\ condition'[b] # "OK"
                      /\ condition'[b] = "ALARM" /\ (state_index > 0 \/ b <= token) =>
                           KeyAt(b) \in seen
                      /\ state_index = 2 \/ (state_index = 1 /\ b <= token) => KeyAt(b) \in seen
    BY <1>1 DEF AlarmInv, SweepInv
  <2>1. /\ condition[b] # "OK"
        /\ condition[b] = "ALARM" /\ (state_index > 0 \/ b <= token) => KeyAt(b) \in seen
        /\ state_index = 2 \/ (state_index = 1 /\ b <= token) => KeyAt(b) \in seen
    BY <1>5 DEF AlarmInv, SweepInv
  <2> QED
    BY <1>5, <2>1
<1> QED
  BY <1>3, <1>4, <1>6 DEF AlarmInv

\* The alarm reader's invariant holds, whichever reader runs (alerts_table.cpp:476).
THEOREM AlarmInvariant == ReadersSpec => []AlarmInv
<1>1. ReadersInit => AlarmInv
  <2> SUFFICES ASSUME ReadersInit PROVE AlarmInv
    OBVIOUS
  <2>1. /\ condition \in [1 .. Len(Alarms) -> {"OK", "ALARM", "INSUFFICIENT_DATA"}]
        /\ state_index = 0 /\ token = 0 /\ seen = {} /\ seen_tokens = {}
        /\ rows = << >> /\ given = << >> /\ done = FALSE
        /\ open = {a \in 1 .. Len(Alarms) : condition[a] # "OK"}
    BY AlarmConstants DEF ReadersInit, AlarmReader!Init, AlarmReader!Alarm, AlarmReader!Conditions
  <2>2. AlarmReader!Result = << >> /\ ToSet(<< >>) = {} /\ IsInjective(<< >>)
    BY <2>1 DEF AlarmReader!Result, ToSet, IsInjective
  <2>3. AlarmTypeInv
    BY <2>1, AlarmConstants DEF AlarmTypeInv
  <2>4. RowsInv
    BY <2>1, <2>2 DEF RowsInv
  <2>5. SweepInv
    <3>1. \A a \in open : condition[a] # "OK" /\ ~(a <= 0)
      BY <2>1
    <3> QED
      BY <2>1, <3>1 DEF SweepInv
  <2> QED
    BY <2>3, <2>4, <2>5 DEF AlarmInv
<1>2. AlarmInv /\ [ReadersNext]_readers_vars => AlarmInv'
  <2> SUFFICES ASSUME AlarmInv, [ReadersNext]_readers_vars PROVE AlarmInv'
    OBVIOUS
  <2>1. CASE AlarmReader!Scan
    BY <2>1, AlarmFetchStep, AlarmGivenStep DEF AlarmReader!Scan
  <2>2. CASE AlarmReader!PageFails
    <3>1. /\ UNCHANGED <<condition, service, state_index, token, seen, seen_tokens,
                         rows, given, open, strayed>>
          /\ done' = TRUE
      BY <2>2 DEF AlarmReader!PageFails, AlarmReader!account, AlarmReader!position
    <3> QED
      BY <3>1 DEF AlarmInv, AlarmTypeInv, RowsInv, SweepInv, AlarmReader!Result
  <2>3. CASE \E a \in AlarmReader!Alarm, to \in AlarmReader!Conditions : AlarmReader!ChangeState(a, to)
    BY <2>3, AlarmChangeStep
  <2>4. CASE UNCHANGED alarm_vars
    BY <2>4 DEF alarm_vars, AlarmInv, AlarmTypeInv, RowsInv, SweepInv, AlarmReader!Result
  <2>5. AlarmReader!Next \/ UNCHANGED alarm_vars
    BY DEF ReadersNext, OnlyLogs, OnlyAlarms, OnlyGraph, OnlyCatalog, readers_vars
  <2> QED
    BY <2>1, <2>2, <2>3, <2>4, <2>5 DEF AlarmReader!Next
<1> QED
  BY <1>1, <1>2, PTL DEF ReadersSpec

\* DescribeAlarms pages: every alarm that stays open is listed, none twice, for
\* any page size and any number of moves (alerts_table.cpp:476).
THEOREM AlarmsAreExact == ReadersSpec => []AlarmsExact
<1>1. AlarmInv => AlarmsExact
  <2> SUFFICES ASSUME AlarmInv PROVE AlarmsExact
    OBVIOUS
  <2>1. PICK q : q = AlarmReader!Result
    OBVIOUS
  <2>2. /\ q \in Seq(AlarmRow) /\ IsInjective(q)
        /\ seen = {AlarmReader!Key(row) : row \in ToSet(q)}
        /\ \A r, s \in ToSet(q) : AlarmReader!Key(r) = AlarmReader!Key(s) => r = s
    <3>1. rows \in Seq(AlarmRow) /\ given \in Seq(AlarmRow)
      BY DEF AlarmInv, AlarmTypeInv
    <3>2. q \in Seq(AlarmRow)
      BY <2>1, <3>1, ConcatProperties DEF AlarmReader!Result
    <3> QED
      BY <2>1, <3>2 DEF AlarmInv, RowsInv
  <2>3. /\ \A i \in DOMAIN q : q[i] \in ToSet(q) /\ q[i] \in AlarmRow
        /\ \A r \in ToSet(q) : \E i \in DOMAIN q : r = q[i]
    BY <2>2 DEF ToSet
  <2>4. \A i, j \in DOMAIN q : AlarmReader!Key(q[i]) = AlarmReader!Key(q[j]) => i = j
    BY <2>2, <2>3 DEF IsInjective
  <2>5. ASSUME NEW i \in DOMAIN q PROVE q[i].status # "OK"
    <3>1. PICK a \in 1 .. Len(Alarms), s \in {"ALARM", "INSUFFICIENT_DATA"} : q[i] = RowAt(a, s)
      BY <2>3 DEF AlarmRow
    <3>2. q[i].status = s
      BY <3>1, RowAtKey
    <3> QED
      BY <3>2
  <2>6. ASSUME state_index = 2, service # "looping", NEW a \in open \ strayed
        PROVE  \E i \in DOMAIN q : AlarmReader!Key(q[i]) = AlarmReader!KeyOf(a)
    <3>1. KeyAt(a) \in seen
      BY <2>6 DEF AlarmInv, SweepInv
    <3>2. PICK i \in DOMAIN q : KeyAt(a) = AlarmReader!Key(q[i])
      BY <2>2, <2>3, <3>1
    <3> QED
      BY <3>2, RowAtKey
  <2>7. Len(AlarmReader!States) = 2
    BY DEF AlarmReader!States
  <2> QED
    BY <2>1, <2>4, <2>5, <2>6, <2>7, Zenon DEF AlarmsExact, AlarmReader!AlarmsExact
<1> QED
  BY <1>1, AlarmInvariant, PTL

----------------------------------------------------------------------------
(* The service map.                                                        *)

GraphEdge == GraphReader!KnownEdge
GraphService == GraphReader!KnownService

\* The services of the window, and how many of them the pages so far had.
WindowServices == GraphReader!Seen(start_ms, end_ms)
PagesRead == IF graph_token = 0 THEN 0 ELSE graph_token - 1

\* The rows of the table, and those that DuckDB gets for a sequence of them.
GraphRow == [source : STRING, target : STRING \cup {""}, has_statistics : BOOLEAN,
             request_count : Nat]
TableRow == [source : STRING, target : STRING \cup {""}, request_count : {NoId} \cup Nat]
Table(q) == [k \in DOMAIN q |-> GraphReader!Columns(q[k])]

\* Before the last page the services so far are those of an initial part of the
\* window; after it, those of all of it, resolved as a whole.
GraphInv ==
  /\ known \in Graphs
  /\ graph_phase \in {"begin", "loading", "loaded", "failed"}
  /\ graph_phase \in {"begin", "loading"} => out = << >> /\ edges = << >>
  /\ graph_phase = "begin" => graph_token = 0 /\ services = << >>
  /\ graph_phase = "loading" =>
       /\ graph_token \in 0 .. Len(WindowServices) + 1
       /\ services = GraphReader!ParseServiceGraphResponse(SubSeq(WindowServices, 1, PagesRead))
  /\ graph_phase = "loaded" =>
       /\ edges \in Seq(GraphRow) /\ out \in Seq(TableRow)
       /\ services = GraphReader!ParseServiceGraphResponse(WindowServices)
       /\ out \o Table(edges) = Table(GraphReader!ResolveGraph(services))

\* The service map's names of what Selections and SequencesExt define.
LEMMA GraphSelections ==
  /\ \A q, places : GraphReader!Kept(q, places) = Kept(q, places)
  /\ \A q : GraphReader!FlattenSeq(q) = FlattenSeq(q)
  /\ \A T : GraphReader!Min(T) = Min(T)
  /\ \A T : GraphReader!Max(T) = Max(T)
<1>1. \A S : GraphReader!SetToSeqs(S) = SetToSeqs(S)
  BY DEF GraphReader!SetToSeqs, SetToSeqs, GraphReader!Cardinality, Cardinality
<1>2. \A places : GraphReader!Ascending(places) = Ascending(places)
  BY <1>1, Zenon DEF GraphReader!Ascending, Ascending
<1>3. \A q, places : GraphReader!Kept(q, places) = Kept(q, places)
  BY <1>2, Zenon DEF GraphReader!Kept, Kept
<1>4. (\A T : GraphReader!Min(T) = Min(T)) /\ (\A T : GraphReader!Max(T) = Max(T))
  BY DEF GraphReader!Min, Min, GraphReader!Max, Max
<1>5. \A q : GraphReader!FlattenSeq(q) = FlattenSeq(q)
  BY Zenon DEF GraphReader!FlattenSeq, FlattenSeq
<1> QED
  BY <1>3, <1>4, <1>5

\* The services of a window are a sequence of services.
LEMMA WindowType ==
  ASSUME known \in Graphs
  PROVE  \A from, to : GraphReader!Seen(from, to) \in Seq(GraphService)
<1>1. known \in Seq(GraphService)
  BY ReadersAssumption DEF GraphReader!GraphAssumption, GraphService
<1>2. ASSUME NEW from, NEW to PROVE GraphReader!Seen(from, to) \in Seq(GraphService)
  <2> DEFINE places == {i \in DOMAIN known : from <= known[i].at /\ known[i].at <= to}
  <2>1. places \in SUBSET DOMAIN known
    OBVIOUS
  <2>2. GraphReader!Seen(from, to) = Kept(known, places)
    BY GraphSelections, Zenon DEF GraphReader!Seen
  <2> HIDE DEF places
  <2>3. Kept(known, places) \in Seq(GraphService)
    BY <1>1, <2>1, KeptElements
  <2> QED
    BY <2>2, <2>3
<1> QED
  BY <1>2

ParsedService == {GraphReader!ParseService(s) : s \in GraphService}

\* A page is parsed service by service.
LEMMA ParsedPageType ==
  ASSUME NEW q \in Seq(GraphService)
  PROVE  /\ GraphReader!ParseServiceGraphResponse(q) \in Seq(ParsedService)
         /\ Len(GraphReader!ParseServiceGraphResponse(q)) = Len(q)
         /\ \A i \in 1 .. Len(q) :
              GraphReader!ParseServiceGraphResponse(q)[i] = GraphReader!ParseService(q[i])
<1>1. PICK n \in Nat : n = Len(q) /\ DOMAIN q = 1 .. n
  OBVIOUS
<1>2. PICK u : u = [i \in 1 .. n |-> GraphReader!ParseService(q[i])]
  OBVIOUS
<1>3. \A i \in 1 .. n : q[i] \in GraphService
  BY <1>1
<1>4. u \in [1 .. n -> ParsedService]
  BY <1>2, <1>3 DEF ParsedService
<1>5. u \in Seq(ParsedService) /\ Len(u) = n
  BY <1>4
<1>6. GraphReader!ParseServiceGraphResponse(q) = u
  BY <1>1, <1>2 DEF GraphReader!ParseServiceGraphResponse
<1> QED
  BY <1>1, <1>2, <1>5, <1>6

\* Two pages in a row are parsed like one.
LEMMA ParsedPages ==
  ASSUME NEW q \in Seq(GraphService), NEW m \in 0 .. Len(q), NEW n \in m .. Len(q)
  PROVE  GraphReader!ParseServiceGraphResponse(SubSeq(q, 1, m))
           \o GraphReader!ParseServiceGraphResponse(SubSeq(q, m + 1, n))
           = GraphReader!ParseServiceGraphResponse(SubSeq(q, 1, n))
<1>1. PICK a \in Seq(GraphService), b \in Seq(GraphService), c \in Seq(GraphService) :
        a = SubSeq(q, 1, m) /\ b = SubSeq(q, m + 1, n) /\ c = SubSeq(q, 1, n)
  <2>1. m \in Nat /\ n \in Nat /\ m <= n /\ n <= Len(q)
    OBVIOUS
  <2>2. SubSeq(q, 1, m) \in Seq(GraphService)
    BY <2>1
  <2>3. SubSeq(q, m + 1, n) \in Seq(GraphService)
    BY <2>1
  <2>4. SubSeq(q, 1, n) \in Seq(GraphService)
    BY <2>1
  <2> QED
    BY <2>2, <2>3, <2>4
<1>2. /\ Len(a) = m /\ Len(b) = n - m /\ Len(c) = n /\ m \in Nat /\ n \in Nat /\ m <= n
      /\ \A i \in 1 .. m : a[i] = q[i]
      /\ \A i \in 1 .. n - m : b[i] = q[i + m]
      /\ \A i \in 1 .. n : c[i] = q[i]
  BY <1>1
<1>3. PICK u \in Seq(ParsedService), v \in Seq(ParsedService), w \in Seq(ParsedService) :
        /\ u = GraphReader!ParseServiceGraphResponse(a)
        /\ v = GraphReader!ParseServiceGraphResponse(b)
        /\ w = GraphReader!ParseServiceGraphResponse(c)
  <2>1. /\ GraphReader!ParseServiceGraphResponse(a) \in Seq(ParsedService)
        /\ GraphReader!ParseServiceGraphResponse(b) \in Seq(ParsedService)
        /\ GraphReader!ParseServiceGraphResponse(c) \in Seq(ParsedService)
    BY ParsedPageType
  <2> QED
    BY <2>1
<1>4. /\ Len(u) = m /\ Len(v) = n - m /\ Len(w) = n
      /\ \A i \in 1 .. m : u[i] = GraphReader!ParseService(q[i])
      /\ \A i \in 1 .. n - m : v[i] = GraphReader!ParseService(q[i + m])
      /\ \A i \in 1 .. n : w[i] = GraphReader!ParseService(q[i])
  <2>1. /\ Len(u) = m /\ \A i \in 1 .. m : u[i] = GraphReader!ParseService(a[i])
    BY <1>2, <1>3, ParsedPageType
  <2>2. /\ Len(v) = n - m /\ \A i \in 1 .. n - m : v[i] = GraphReader!ParseService(b[i])
    BY <1>2, <1>3, ParsedPageType
  <2>3. /\ Len(w) = n /\ \A i \in 1 .. n : w[i] = GraphReader!ParseService(c[i])
    BY <1>2, <1>3, ParsedPageType
  <2> QED
    BY <1>2, <2>1, <2>2, <2>3
<1>5. /\ u \o v \in Seq(ParsedService) /\ Len(u \o v) = n
      /\ \A i \in 1 .. n : (u \o v)[i] = IF i <= m THEN u[i] ELSE v[i - m]
  <2>1. /\ u \o v \in Seq(ParsedService) /\ Len(u \o v) = Len(u) + Len(v)
        /\ \A i \in 1 .. Len(u) + Len(v) :
             (u \o v)[i] = IF i <= Len(u) THEN u[i] ELSE v[i - Len(u)]
    BY ConcatProperties
  <2>2. Len(u) + Len(v) = n
    BY <1>2, <1>4
  <2> QED
    BY <1>4, <2>1, <2>2
<1>6. ASSUME NEW i \in 1 .. n PROVE (u \o v)[i] = w[i]
  <2>1. CASE i <= m
    <3>1. i \in 1 .. m
      BY <1>2, <2>1
    <3> QED
      BY <1>4, <1>5, <2>1, <3>1
  <2>2. CASE ~(i <= m)
    <3>1. i - m \in 1 .. n - m /\ i - m + m = i
      BY <1>2, <2>2
    <3>2. v[i - m] = GraphReader!ParseService(q[i])
      BY <1>4, <3>1
    <3> QED
      BY <1>4, <1>5, <2>2, <3>2
  <2> QED
    BY <2>1, <2>2
<1>7. PICK x \in Seq(ParsedService) : x = u \o v
  BY <1>5
<1>8. x = w
  BY <1>4, <1>5, <1>6, <1>7, SeqEqual
<1> QED
  BY <1>1, <1>3, <1>7, <1>8

\* What is parsed of a service.
LEMMA ParsedServiceFields ==
  ASSUME NEW s
  PROVE  /\ GraphReader!ParseService(s).has_reference_id = (s.id # NoId)
         /\ GraphReader!ParseService(s).reference_id = IF s.id = NoId THEN 0 ELSE s.id
         /\ GraphReader!ParseService(s).name = s.name
         /\ GraphReader!ParseService(s).edges =
              [j \in DOMAIN s.edges |-> GraphReader!ParseEdge(s.edges[j])]
<1>1. GraphReader!ParseService(s).has_reference_id = (s.id # NoId)
  BY Zenon DEF GraphReader!ParseService
<1>2. /\ GraphReader!ParseService(s).reference_id = IF s.id = NoId THEN 0 ELSE s.id
      /\ GraphReader!ParseService(s).name = s.name
      /\ GraphReader!ParseService(s).edges =
           [j \in DOMAIN s.edges |-> GraphReader!ParseEdge(s.edges[j])]
  BY DEF GraphReader!ParseService
<1> QED
  BY <1>1, <1>2, Zenon

\* What is parsed of an edge.
LEMMA ParsedEdgeFields ==
  ASSUME NEW e
  PROVE  /\ GraphReader!ParseEdge(e).has_reference_id = (e.id # NoId)
         /\ GraphReader!ParseEdge(e).reference_id = IF e.id = NoId THEN 0 ELSE e.id
         /\ GraphReader!ParseEdge(e).alias_name =
              IF e.aliases = << >> THEN "" ELSE Head(e.aliases)
         /\ GraphReader!ParseEdge(e).has_statistics = (e.total # NoId)
         /\ GraphReader!ParseEdge(e).request_count = IF e.total = NoId THEN 0 ELSE e.total
<1>1. GraphReader!ParseEdge(e).has_reference_id = (e.id # NoId)
  BY Zenon DEF GraphReader!ParseEdge
<1>2. GraphReader!ParseEdge(e).has_statistics = (e.total # NoId)
  BY Zenon DEF GraphReader!ParseEdge
<1>3. /\ GraphReader!ParseEdge(e).reference_id = IF e.id = NoId THEN 0 ELSE e.id
      /\ GraphReader!ParseEdge(e).alias_name =
           IF e.aliases = << >> THEN "" ELSE Head(e.aliases)
      /\ GraphReader!ParseEdge(e).request_count = IF e.total = NoId THEN 0 ELSE e.total
  BY DEF GraphReader!ParseEdge
<1> QED
  BY <1>1, <1>2, <1>3, Zenon

\* The target of an edge is a service that defines its id, or else its alias.
LEMMA TargetExplained ==
  ASSUME NEW graph \in Seq(GraphService), NEW e \in GraphEdge
  PROVE  LET target == GraphReader!Target(GraphReader!ParseServiceGraphResponse(graph),
                                          GraphReader!ParseEdge(e))
         IN /\ GraphReader!Explains(e, graph, target)
            /\ target \in STRING \cup {""}
<1>1. PICK n \in Nat : n = Len(graph) /\ DOMAIN graph = 1 .. n
  OBVIOUS
<1>2. PICK all \in Seq(ParsedService) : all = GraphReader!ParseServiceGraphResponse(graph)
  BY ParsedPageType
<1>3. DOMAIN all = 1 .. n /\ \A i \in 1 .. n : all[i] = GraphReader!ParseService(graph[i])
  BY <1>1, <1>2, ParsedPageType
<1>4. \A i \in 1 .. n :
        /\ all[i].has_reference_id <=> graph[i].id # NoId
        /\ all[i].reference_id = IF graph[i].id = NoId THEN 0 ELSE graph[i].id
        /\ all[i].name = graph[i].name /\ graph[i].name \in STRING
  <2> SUFFICES ASSUME NEW i \in 1 .. n
               PROVE  /\ all[i].has_reference_id <=> graph[i].id # NoId
                      /\ all[i].reference_id = IF graph[i].id = NoId THEN 0 ELSE graph[i].id
                      /\ all[i].name = graph[i].name /\ graph[i].name \in STRING
    OBVIOUS
  <2>1. graph[i] \in GraphService
    BY <1>1
  <2>2. graph[i].name \in STRING
    BY <2>1 DEF GraphService, GraphReader!KnownService
  <2>3. PICK s : s = graph[i]
    OBVIOUS
  <2>4. all[i] = GraphReader!ParseService(s)
    BY <1>3, <2>3
  <2>5. all[i].has_reference_id = (s.id # NoId)
    BY <2>4, ParsedServiceFields, Zenon
  <2>6. /\ all[i].reference_id = IF s.id = NoId THEN 0 ELSE s.id
        /\ all[i].name = s.name
    BY <2>4, ParsedServiceFields, Zenon
  <2> QED
    BY <2>2, <2>3, <2>5, <2>6
<1>5. PICK edge : edge = GraphReader!ParseEdge(e)
  OBVIOUS
<1>6. /\ edge.has_reference_id <=> e.id # NoId
      /\ edge.reference_id = IF e.id = NoId THEN 0 ELSE e.id
      /\ edge.alias_name = IF e.aliases = << >> THEN "" ELSE e.aliases[1]
      /\ edge.alias_name \in STRING \cup {""}
  <2>1. e.aliases \in Seq(STRING)
    BY DEF GraphEdge, GraphReader!KnownEdge
  <2>2. edge.alias_name = IF e.aliases = << >> THEN "" ELSE e.aliases[1]
    <3>1. e.aliases # << >> => Head(e.aliases) = e.aliases[1]
      BY <2>1
    <3>2. edge.alias_name = IF e.aliases = << >> THEN "" ELSE Head(e.aliases)
      BY <1>5, ParsedEdgeFields
    <3> QED
      BY <3>1, <3>2
  <2>3. e.aliases # << >> => e.aliases[1] \in STRING
    BY <2>1
  <2>4. edge.alias_name \in STRING \cup {""}
    BY <2>2, <2>3
  <2> QED
    <3>1. edge.has_reference_id = (e.id # NoId)
      BY <1>5, ParsedEdgeFields
    <3>2. edge.reference_id = IF e.id = NoId THEN 0 ELSE e.id
      BY <1>5, ParsedEdgeFields
    <3> QED
      BY <2>2, <2>4, <3>1, <3>2
<1>7. PICK defining : defining = {i \in 1 .. n : /\ edge.has_reference_id
                                                 /\ all[i].has_reference_id
                                                 /\ all[i].reference_id = edge.reference_id}
  OBVIOUS
<1>8. \A i \in 1 .. n : i \in defining <=> e.id # NoId /\ graph[i].id = e.id
  BY <1>4, <1>6, <1>7
<1>9. PICK target : target = IF defining = {} THEN edge.alias_name ELSE all[Max(defining)].name
  OBVIOUS
<1>10. target = GraphReader!Target(all, edge)
  BY <1>3, <1>7, <1>9, GraphSelections DEF GraphReader!Target
<1>11. target \in STRING \cup {""} /\ GraphReader!Explains(e, graph, target)
  <2> DEFINE named == {graph[i].name : i \in {i \in DOMAIN graph : graph[i].id = e.id}}
  <2>1. CASE defining = {}
    <3>1. e.id = NoId \/ named = {}
      BY <1>1, <1>8, <2>1
    <3> QED
      BY <1>6, <1>9, <2>1, <3>1 DEF GraphReader!Explains
  <2>2. CASE defining # {}
    <3>1. Max(defining) \in defining
      <4>1. defining \in SUBSET (0 .. n)
        BY <1>7
      <4> QED
        BY <2>2, <4>1, MaxNat
    <3>2. PICK x \in 1 .. n : x = Max(defining) /\ x \in defining
      BY <1>7, <3>1
    <3>3. target = graph[x].name /\ target \in STRING /\ graph[x].id = e.id /\ e.id # NoId
      BY <1>4, <1>8, <1>9, <2>2, <3>2
    <3>4. target \in named
      BY <1>1, <3>3
    <3> QED
      BY <3>3, <3>4 DEF GraphReader!Explains
  <2> QED
    BY <2>1, <2>2
<1> QED
  BY <1>2, <1>5, <1>10, <1>11

\* The row of an edge.
RowOf(all, i, j) ==
  [source |-> all[i].name, target |-> GraphReader!Target(all, all[i].edges[j]),
   has_statistics |-> all[i].edges[j].has_statistics,
   request_count |-> all[i].edges[j].request_count]

\* What X-Ray knows of the edges of a graph, one after the other.
Ends(graph) ==
  FlattenSeq([i \in DOMAIN graph |->
    [j \in DOMAIN graph[i].edges |-> [from |-> graph[i], edge |-> graph[i].edges[j]]]])

GraphEnds == [from : GraphService, edge : GraphEdge]

\* A row says of its edge what X-Ray knows.
RowTells(row, end, graph) ==
  /\ row.source = end.from.name
  /\ GraphReader!Columns(row).request_count = end.edge.total
  /\ GraphReader!Explains(end.edge, graph, row.target)

\* The rows are those of the edges, in their order.
LEMMA ResolvedRows ==
  ASSUME NEW graph \in Seq(GraphService)
  PROVE  LET resolved == GraphReader!ResolveGraph(GraphReader!ParseServiceGraphResponse(graph))
         IN /\ resolved \in Seq(GraphRow)
            /\ Ends(graph) \in Seq(GraphEnds) /\ Len(Ends(graph)) = Len(resolved)
            /\ \A k \in 1 .. Len(resolved) : RowTells(resolved[k], Ends(graph)[k], graph)
<1>1. PICK n \in Nat : n = Len(graph) /\ DOMAIN graph = 1 .. n
  OBVIOUS
<1>2. PICK all \in Seq(ParsedService) : all = GraphReader!ParseServiceGraphResponse(graph)
  BY ParsedPageType
<1>3. /\ DOMAIN all = 1 .. n
      /\ \A i \in 1 .. n : all[i] = GraphReader!ParseService(graph[i]) /\ graph[i] \in GraphService
  BY <1>1, <1>2, ParsedPageType
<1>4. ASSUME NEW i \in 1 .. n
      PROVE  /\ all[i].name = graph[i].name /\ graph[i].name \in STRING
             /\ graph[i].edges \in Seq(GraphEdge)
             /\ DOMAIN all[i].edges = DOMAIN graph[i].edges
             /\ \A j \in DOMAIN graph[i].edges :
                  all[i].edges[j] = GraphReader!ParseEdge(graph[i].edges[j])
  <2>1. graph[i] \in GraphService /\ all[i] = GraphReader!ParseService(graph[i])
    BY <1>3
  <2>2. graph[i].name \in STRING /\ graph[i].edges \in Seq(GraphEdge)
    BY <2>1 DEF GraphService, GraphEdge, GraphReader!KnownService
  <2>3. /\ all[i].name = graph[i].name
        /\ all[i].edges = [j \in DOMAIN graph[i].edges |-> GraphReader!ParseEdge(graph[i].edges[j])]
    BY <2>1, ParsedServiceFields
  <2> QED
    BY <2>2, <2>3
<1>5. ASSUME NEW i \in 1 .. n, NEW j \in DOMAIN graph[i].edges
      PROVE  /\ RowOf(all, i, j) \in GraphRow
             /\ [from |-> graph[i], edge |-> graph[i].edges[j]] \in GraphEnds
             /\ RowTells(RowOf(all, i, j), [from |-> graph[i], edge |-> graph[i].edges[j]], graph)
  <2>1. PICK e : e = graph[i].edges[j]
    OBVIOUS
  <2>2. e \in GraphEdge
    BY <1>4, <2>1
  <2>3. PICK target : target = GraphReader!Target(all, all[i].edges[j])
    OBVIOUS
  <2>4. GraphReader!Explains(e, graph, target) /\ target \in STRING \cup {""}
    BY <1>2, <1>4, <2>1, <2>2, <2>3, TargetExplained
  <2>5. /\ all[i].edges[j].has_statistics = (e.total # NoId)
        /\ all[i].edges[j].request_count = IF e.total = NoId THEN 0 ELSE e.total
    <3>1. all[i].edges[j] = GraphReader!ParseEdge(e)
      BY <1>4, <2>1
    <3> QED
      BY <3>1, ParsedEdgeFields, Zenon
  <2>6. e.total \in {NoId} \cup Nat
    BY <2>2 DEF GraphEdge, GraphReader!KnownEdge
  <2>7. RowOf(all, i, j) = [source |-> graph[i].name, target |-> target,
                            has_statistics |-> (e.total # NoId),
                            request_count |-> IF e.total = NoId THEN 0 ELSE e.total]
    BY <1>4, <2>3, <2>5 DEF RowOf
  <2>8. RowOf(all, i, j) \in GraphRow
    <3>1. PICK b : b = (e.total # NoId)
      OBVIOUS
    <3>2. b \in BOOLEAN
      BY <3>1, Zenon
    <3>3. PICK c : c = IF e.total = NoId THEN 0 ELSE e.total
      OBVIOUS
    <3>4. c \in Nat
      BY <2>6, <3>3
    <3>5. RowOf(all, i, j) = [source |-> graph[i].name, target |-> target,
                              has_statistics |-> b, request_count |-> c]
      BY <2>7, <3>1, <3>3, Zenon
    <3>6. graph[i].name \in STRING
      BY <1>4
    <3> QED
      <4>1. PICK A, B, name : A = STRING /\ B = STRING \cup {""} /\ name = graph[i].name
        OBVIOUS
      <4>2. [source |-> name, target |-> target, has_statistics |-> b, request_count |-> c]
              \in [source : A, target : B, has_statistics : BOOLEAN, request_count : Nat]
        BY <2>4, <3>2, <3>4, <3>6, <4>1
      <4> QED
        BY <3>5, <4>1, <4>2, Zenon DEF GraphRow
  <2>9. [from |-> graph[i], edge |-> graph[i].edges[j]] \in GraphEnds
    BY <1>3, <2>1, <2>2 DEF GraphEnds
  <2>10. GraphReader!Columns(RowOf(all, i, j)).request_count = e.total
    <3>1. PICK row : row = RowOf(all, i, j)
      OBVIOUS
    <3>2. row.has_statistics = (e.total # NoId)
      <4>1. PICK b : b = (e.total # NoId)
        OBVIOUS
      <4>2. row = [source |-> graph[i].name, target |-> target, has_statistics |-> b,
                   request_count |-> IF e.total = NoId THEN 0 ELSE e.total]
        BY <2>7, <3>1, <4>1, Zenon
      <4>3. row.has_statistics = b
        BY <4>2, Zenon
      <4> QED
        BY <4>1, <4>3, Zenon
    <3>3. row.request_count = IF e.total = NoId THEN 0 ELSE e.total
      BY <2>7, <3>1
    <3>4. GraphReader!Columns(row).request_count =
            IF row.has_statistics THEN row.request_count ELSE NoId
      BY DEF GraphReader!Columns
    <3>5. CASE e.total = NoId
      BY <3>1, <3>2, <3>4, <3>5
    <3>6. CASE e.total # NoId
      BY <3>1, <3>2, <3>3, <3>4, <3>6
    <3> QED
      BY <3>5, <3>6
  <2> QED
    <3>1. PICK row : row = RowOf(all, i, j)
      OBVIOUS
    <3>2. PICK end : end = [from |-> graph[i], edge |-> graph[i].edges[j]]
      OBVIOUS
    <3>3. row.source = graph[i].name /\ row.target = target
      BY <2>7, <3>1
    <3>4. end.from = graph[i] /\ end.edge = e
      BY <2>1, <3>2
    <3>5. RowTells(row, end, graph)
      BY <2>4, <2>10, <3>1, <3>3, <3>4 DEF RowTells
    <3> QED
      BY <2>8, <2>9, <3>1, <3>2, <3>5
<1>6. PICK p : p = [i \in 1 .. n |-> [j \in DOMAIN all[i].edges |-> RowOf(all, i, j)]]
  OBVIOUS
<1>7. PICK q : q = [i \in 1 .. n |-> [j \in DOMAIN graph[i].edges |->
                      [from |-> graph[i], edge |-> graph[i].edges[j]]]]
  OBVIOUS
<1>8. ASSUME NEW i \in 1 .. n
      PROVE  p[i] \in Seq(GraphRow) /\ q[i] \in Seq(GraphEnds) /\ Len(p[i]) = Len(q[i])
             /\ Len(p[i]) = Len(graph[i].edges)
  <2>1. PICK m \in Nat : m = Len(graph[i].edges) /\ DOMAIN graph[i].edges = 1 .. m
    BY <1>4
  <2>2. p[i] = [j \in 1 .. m |-> RowOf(all, i, j)]
    BY <1>4, <1>6, <2>1
  <2>3. q[i] = [j \in 1 .. m |-> [from |-> graph[i], edge |-> graph[i].edges[j]]]
    BY <1>7, <2>1
  <2>4. p[i] \in [1 .. m -> GraphRow]
    <3>1. \A j \in 1 .. m : RowOf(all, i, j) \in GraphRow
      BY <1>5, <2>1
    <3> QED
      BY <2>2, <3>1
  <2>5. q[i] \in [1 .. m -> GraphEnds]
    <3>1. \A j \in 1 .. m : [from |-> graph[i], edge |-> graph[i].edges[j]] \in GraphEnds
      BY <1>5, <2>1
    <3> QED
      BY <2>3, <3>1
  <2>6. p[i] \in Seq(GraphRow) /\ Len(p[i]) = m
    BY <2>4
  <2>7. q[i] \in Seq(GraphEnds) /\ Len(q[i]) = m
    BY <2>5
  <2> QED
    BY <2>1, <2>6, <2>7
<1>9. p \in Seq(Seq(GraphRow)) /\ q \in Seq(Seq(GraphEnds)) /\ Len(p) = n /\ Len(q) = n
  <2>1. p \in [1 .. n -> Seq(GraphRow)]
    BY <1>6, <1>8
  <2>2. q \in [1 .. n -> Seq(GraphEnds)]
    BY <1>7, <1>8
  <2> QED
    BY <2>1, <2>2
<1>10. PICK resolved, ends : resolved = FlattenSeq(p) /\ ends = FlattenSeq(q)
  OBVIOUS
<1>11. Together(GraphRow, GraphEnds, p, q, resolved, ends)
  BY <1>8, <1>9, <1>10, FlattenTogether
<1>12. GraphReader!ResolveGraph(all) = resolved
  <2>1. [i \in DOMAIN all |-> [j \in DOMAIN all[i].edges |-> RowOf(all, i, j)]] = p
    BY <1>3, <1>6
  <2> QED
    BY <1>10, <2>1, GraphSelections, Zenon DEF GraphReader!ResolveGraph, RowOf
<1>13. Ends(graph) = ends
  <2>1. [i \in DOMAIN graph |-> [j \in DOMAIN graph[i].edges |->
          [from |-> graph[i], edge |-> graph[i].edges[j]]]] = q
    BY <1>1, <1>7
  <2> QED
    BY <1>10, <2>1, Zenon DEF Ends
<1>14. resolved \in Seq(GraphRow) /\ ends \in Seq(GraphEnds) /\ Len(ends) = Len(resolved)
  BY <1>11 DEF Together
<1>15. ASSUME NEW k \in 1 .. Len(resolved) PROVE RowTells(resolved[k], ends[k], graph)
  <2>1. PICK i \in 1 .. n : \E j \in 1 .. Len(p[i]) : resolved[k] = p[i][j] /\ ends[k] = q[i][j]
    BY <1>9, <1>11 DEF Together
  <2>2. PICK j \in 1 .. Len(p[i]) : resolved[k] = p[i][j] /\ ends[k] = q[i][j]
    BY <2>1
  <2>3. j \in DOMAIN graph[i].edges
    BY <1>4, <1>8, <2>2
  <2>4. p[i][j] = RowOf(all, i, j) /\ q[i][j] = [from |-> graph[i], edge |-> graph[i].edges[j]]
    BY <1>4, <1>6, <1>7, <2>2, <2>3
  <2> QED
    BY <1>5, <2>2, <2>3, <2>4
<1> QED
  BY <1>2, <1>12, <1>13, <1>14, <1>15

\* What DuckDB gets for rows is a row each.
LEMMA TableRows ==
  ASSUME NEW q \in Seq(GraphRow)
  PROVE  /\ Table(q) \in Seq(TableRow) /\ Len(Table(q)) = Len(q)
         /\ \A k \in 1 .. Len(q) : Table(q)[k] = GraphReader!Columns(q[k])
<1>1. PICK n \in Nat : n = Len(q) /\ DOMAIN q = 1 .. n
  OBVIOUS
<1>2. PICK u : u = [k \in 1 .. n |-> GraphReader!Columns(q[k])]
  OBVIOUS
<1>3. ASSUME NEW k \in 1 .. n PROVE u[k] \in TableRow
  <2>1. PICK row \in GraphRow : row = q[k]
    BY <1>1
  <2>2. row.source \in STRING /\ row.target \in STRING \cup {""} /\ row.request_count \in Nat
    BY DEF GraphRow
  <2>3. PICK c : c = IF row.has_statistics THEN row.request_count ELSE NoId
    OBVIOUS
  <2>4. c \in {NoId} \cup Nat
    BY <2>2, <2>3
  <2>5. u[k] = [source |-> row.source, target |-> row.target, request_count |-> c]
    BY <1>2, <2>1, <2>3, Zenon DEF GraphReader!Columns
  <2>6. PICK A, B, C : A = STRING /\ B = STRING \cup {""} /\ C = {NoId} \cup Nat
    OBVIOUS
  <2>7. [source |-> row.source, target |-> row.target, request_count |-> c]
          \in [source : A, target : B, request_count : C]
    BY <2>2, <2>4, <2>6
  <2> QED
    BY <2>5, <2>6, <2>7, Zenon DEF TableRow
<1>4. u \in [1 .. n -> TableRow]
  BY <1>2, <1>3
<1>5. u \in Seq(TableRow) /\ Len(u) = n
  BY <1>4
<1>6. Table(q) = u
  BY <1>1, <1>2 DEF Table
<1> QED
  BY <1>1, <1>2, <1>5, <1>6

\* Rows taken from the front, and what is left, are so in DuckDB's form.
LEMMA TableCut ==
  ASSUME NEW q \in Seq(GraphRow), NEW count \in 0 .. Len(q)
  PROVE  /\ SubSeq(q, count + 1, Len(q)) \in Seq(GraphRow)
         /\ [k \in 1 .. count |-> GraphReader!Columns(q[k])] = SubSeq(Table(q), 1, count)
         /\ Table(SubSeq(q, count + 1, Len(q))) = SubSeq(Table(q), count + 1, Len(Table(q)))
<1>1. PICK n \in Nat : n = Len(q) /\ count \in Nat /\ count <= n
  OBVIOUS
<1>2. PICK u \in Seq(TableRow) : u = Table(q)
  BY TableRows
<1>3. Len(u) = n /\ \A k \in 1 .. n : u[k] = GraphReader!Columns(q[k])
  BY <1>1, <1>2, TableRows
<1>4. PICK r \in Seq(GraphRow) : r = SubSeq(q, count + 1, n)
  <2>1. SubSeq(q, count + 1, n) \in Seq(GraphRow)
    BY <1>1
  <2> QED
    BY <2>1
<1>5. Len(r) = n - count /\ \A k \in 1 .. n - count : r[k] = q[k + count]
  BY <1>1, <1>4
<1>6. PICK v \in Seq(TableRow) : v = Table(r)
  BY TableRows
<1>7. Len(v) = n - count /\ \A k \in 1 .. n - count : v[k] = GraphReader!Columns(r[k])
  BY <1>5, <1>6, TableRows
<1>8. PICK w \in Seq(TableRow) : w = SubSeq(u, count + 1, n)
  <2>1. SubSeq(u, count + 1, n) \in Seq(TableRow)
    BY <1>1, <1>3
  <2> QED
    BY <2>1
<1>9. Len(w) = n - count /\ \A k \in 1 .. n - count : w[k] = u[k + count]
  BY <1>1, <1>3, <1>8
<1>10. v = w
  <2>1. ASSUME NEW k \in 1 .. n - count PROVE v[k] = w[k]
    <3>1. k + count \in 1 .. n
      BY <1>1
    <3>2. v[k] = GraphReader!Columns(q[k + count]) /\ w[k] = GraphReader!Columns(q[k + count])
      BY <1>3, <1>5, <1>7, <1>9, <3>1
    <3> QED
      BY <3>2
  <2>2. Len(v) = Len(w) /\ \A k \in 1 .. Len(v) : v[k] = w[k]
    BY <1>7, <1>9, <2>1
  <2> QED
    BY <2>2, SeqEqual
<1>11. [k \in 1 .. count |-> GraphReader!Columns(q[k])] = SubSeq(u, 1, count)
  <2>1. PICK x : x = SubSeq(u, 1, count)
    OBVIOUS
  <2>2. x \in Seq(TableRow) /\ Len(x) = count /\ \A k \in 1 .. count : x[k] = u[k]
    BY <1>1, <1>3, <2>1
  <2>3. DOMAIN x = 1 .. count /\ x = [k \in 1 .. count |-> x[k]]
    BY <2>2
  <2>4. \A k \in 1 .. count : x[k] = GraphReader!Columns(q[k])
    BY <1>1, <1>3, <2>2
  <2> QED
    BY <2>1, <2>3, <2>4
<1> QED
  BY <1>1, <1>2, <1>3, <1>4, <1>6, <1>8, <1>10, <1>11

\* A chunk goes to DuckDB: the table stays what it is.
LEMMA GraphChunkStep ==
  ASSUME GraphInv, GraphReader!ServiceDependenciesScan
  PROVE  GraphInv'
<1> DEFINE count == GraphReader!Min({Len(edges), Vector})
<1>1. /\ graph_phase = "loaded"
      /\ out' = out \o [k \in 1 .. count |-> GraphReader!Columns(edges[k])]
      /\ edges' = SubSeq(edges, count + 1, Len(edges))
      /\ UNCHANGED <<known, start_ms, end_ms, graph_phase, services, graph_token>>
  BY DEF GraphReader!ServiceDependenciesScan
<1>2. /\ edges \in Seq(GraphRow) /\ out \in Seq(TableRow) /\ Len(edges) \in Nat
      /\ out \o Table(edges) = Table(GraphReader!ResolveGraph(services))
  BY <1>1 DEF GraphInv
<1>3. count \in 0 .. Len(edges)
  <2>1. PICK n, m : n = Len(edges) /\ m = Vector
    OBVIOUS
  <2>2. n \in Nat /\ m \in Nat /\ {n, m} \in SUBSET Nat /\ {n, m} # {}
    BY <1>2, <2>1, ReadersAssumption DEF GraphReader!GraphAssumption
  <2>3. Min({n, m}) \in {n, m} /\ Min({n, m}) <= n
    BY <2>2, MinNat
  <2>4. Min({n, m}) \in 0 .. n
    BY <2>2, <2>3
  <2> QED
    BY <2>1, <2>4, GraphSelections
<1> HIDE DEF count
<1>4. /\ edges' \in Seq(GraphRow) /\ out' = out \o SubSeq(Table(edges), 1, count)
      /\ Table(edges') = SubSeq(Table(edges), count + 1, Len(Table(edges)))
  BY <1>1, <1>2, <1>3, TableCut
<1>5. out' \in Seq(TableRow) /\ out' \o Table(edges') = out \o Table(edges)
  <2>1. PICK q \in Seq(TableRow), r \in Seq(TableRow) : q = out /\ r = Table(edges)
    BY <1>2, TableRows
  <2>2. PICK k \in 0 .. Len(r) : k = count
    BY <1>2, <1>3, <2>1, TableRows
  <2>3. HandsOver(TableRow, q, r, k)
    BY HandOver
  <2> QED
    BY <1>4, <2>1, <2>2, <2>3, Zenon DEF HandsOver
<1>6. WindowServices' = WindowServices
  BY <1>1 DEF WindowServices, GraphReader!Seen
<1>7. GraphReader!ResolveGraph(services') = GraphReader!ResolveGraph(services)
  BY <1>1
<1> QED
  BY <1>1, <1>2, <1>4, <1>5, <1>6, <1>7 DEF GraphInv

\* The window is read: no page has come yet.
LEMMA GraphBeginStep ==
  ASSUME GraphInv, GraphReader!BeginScan
  PROVE  GraphInv'
<1>1. /\ graph_phase = "begin" /\ graph_phase' \in {"failed", "loading"}
      /\ UNCHANGED <<known, services, graph_token, edges, out>>
  BY DEF GraphReader!BeginScan
<1>2. known \in Graphs /\ graph_token = 0 /\ services = << >> /\ out = << >> /\ edges = << >>
  BY <1>1 DEF GraphInv
<1>3. WindowServices' \in Seq(GraphService)
  <2>1. GraphReader!Seen(start_ms', end_ms') \in Seq(GraphService)
    BY <1>2, WindowType
  <2>2. WindowServices' = GraphReader!Seen(start_ms', end_ms')
    BY <1>1 DEF WindowServices, GraphReader!Seen
  <2> QED
    BY <2>1, <2>2
<1>4. PICK q \in Seq(GraphService) : q = WindowServices'
  BY <1>3
<1>5. GraphReader!ParseServiceGraphResponse(SubSeq(q, 1, 0)) = << >>
  <2>1. SubSeq(q, 1, 0) = << >>
    OBVIOUS
  <2> QED
    BY <2>1 DEF GraphReader!ParseServiceGraphResponse
<1>6. /\ PagesRead' = 0 /\ graph_token' = 0 /\ Len(q) \in Nat
      /\ services' = GraphReader!ParseServiceGraphResponse(SubSeq(WindowServices', 1, PagesRead'))
  BY <1>1, <1>2, <1>4, <1>5 DEF PagesRead
<1> QED
  BY <1>1, <1>2, <1>4, <1>6 DEF GraphInv

\* A page comes: the services so far are those of a longer part of the window.
LEMMA GraphPageStep ==
  ASSUME GraphInv, GraphReader!LoadPage
  PROVE  GraphInv'
<1>1. /\ graph_phase = "loading" /\ known \in Graphs /\ out = << >> /\ edges = << >>
      /\ UNCHANGED <<known, start_ms, end_ms, out>>
  BY DEF GraphReader!LoadPage, GraphInv
<1>2. PICK q \in Seq(GraphService) : q = WindowServices
  BY <1>1, WindowType DEF WindowServices
<1>3. WindowServices' = q
  BY <1>1, <1>2 DEF WindowServices, GraphReader!Seen
<1>4. PICK m \in Nat : m = PagesRead
  BY <1>1 DEF GraphInv, PagesRead
<1>5. /\ m \in 0 .. Len(q) /\ Len(q) \in Nat
      /\ services = GraphReader!ParseServiceGraphResponse(SubSeq(q, 1, m))
  BY <1>1, <1>2, <1>4 DEF GraphInv, PagesRead
<1>6. PICK response : 
        /\ response \in GraphReader!GetServiceGraph(GraphReader!BuildServiceGraphRequest(graph_token))
        /\ services' = services \o GraphReader!ParseServiceGraphResponse(response.page)
        /\ IF response.token = 0 \/ GraphReader!IsRepeatedServiceGraphToken(response.token)
           THEN /\ graph_phase' = "loaded"
                /\ edges' = GraphReader!ResolveGraph(services')
           ELSE /\ graph_token' = response.token
                /\ UNCHANGED <<graph_phase, edges>>
  BY DEF GraphReader!LoadPage
<1>7. \/ \E n \in m .. Len(q) : /\ n + 1 \notin graph_tokens
                               /\ response = [page |-> SubSeq(q, m + 1, n), token |-> n + 1]
      \/ \E t \in graph_tokens \cup {0} :
           response = [page |-> SubSeq(q, m + 1, Len(q)), token |-> t]
  <2>1. PICK request : request = GraphReader!BuildServiceGraphRequest(graph_token)
    OBVIOUS
  <2>2. request.start_ms = start_ms /\ request.end_ms = end_ms /\ request.token = graph_token
    BY <2>1 DEF GraphReader!BuildServiceGraphRequest
  <2>3. /\ GraphReader!Seen(request.start_ms, request.end_ms) = q
        /\ (IF request.token = 0 THEN 0 ELSE request.token - 1) = m
    BY <1>2, <1>4, <2>2 DEF WindowServices, PagesRead
  <2>4. GraphReader!GetServiceGraph(request) =
          {[page |-> SubSeq(q, m + 1, n), token |-> n + 1] :
             n \in {n \in m .. Len(q) : n + 1 \notin graph_tokens}}
          \cup {[page |-> SubSeq(q, m + 1, Len(q)), token |-> t] : t \in graph_tokens \cup {0}}
    BY <2>3, Zenon DEF GraphReader!GetServiceGraph
  <2> QED
    BY <1>6, <2>1, <2>4
<1>8. CASE \E n \in m .. Len(q) : /\ n + 1 \notin graph_tokens
                                  /\ response = [page |-> SubSeq(q, m + 1, n), token |-> n + 1]
  <2>1. PICK n \in m .. Len(q) : /\ n + 1 \notin graph_tokens
                                 /\ response = [page |-> SubSeq(q, m + 1, n), token |-> n + 1]
    BY <1>8
  <2>2. n \in Nat /\ n + 1 # 0 /\ response.token = n + 1 /\ response.page = SubSeq(q, m + 1, n)
    BY <1>5, <2>1
  <2>3. graph_token' = n + 1 /\ graph_phase' = "loading" /\ edges' = << >> /\ out' = << >>
    BY <1>1, <1>6, <2>1, <2>2 DEF GraphReader!IsRepeatedServiceGraphToken
  <2>4. services' = GraphReader!ParseServiceGraphResponse(SubSeq(q, 1, n))
    BY <1>5, <1>6, <2>1, <2>2, ParsedPages
  <2>5. PagesRead' = n
    BY <2>2, <2>3 DEF PagesRead
  <2>6. graph_token' \in 0 .. Len(q) + 1
    BY <1>5, <2>1, <2>3
  <2> QED
    BY <1>1, <1>3, <2>3, <2>4, <2>5, <2>6 DEF GraphInv
<1>9. CASE \E t \in graph_tokens \cup {0} :
             response = [page |-> SubSeq(q, m + 1, Len(q)), token |-> t]
  <2>1. PICK t \in graph_tokens \cup {0} :
          response = [page |-> SubSeq(q, m + 1, Len(q)), token |-> t]
    BY <1>9
  <2>2. response.token = t /\ response.page = SubSeq(q, m + 1, Len(q))
    BY <2>1
  <2>3. graph_phase' = "loaded" /\ edges' = GraphReader!ResolveGraph(services')
    BY <1>6, <2>1, <2>2 DEF GraphReader!IsRepeatedServiceGraphToken
  <2>4. services' = GraphReader!ParseServiceGraphResponse(q)
    <3>1. Len(q) \in m .. Len(q)
      BY <1>5
    <3>2. SubSeq(q, 1, Len(q)) = q
      BY SubSeqFull
    <3> QED
      BY <1>5, <1>6, <2>2, <3>1, <3>2, ParsedPages
  <2>5. PICK resolved : resolved = GraphReader!ResolveGraph(services')
    OBVIOUS
  <2>6. resolved \in Seq(GraphRow) /\ Table(resolved) \in Seq(TableRow)
    BY <2>4, <2>5, ResolvedRows, TableRows
  <2>7. out' = << >> /\ << >> \o Table(resolved) = Table(resolved) /\ << >> \in Seq(TableRow)
    <3>1. << >> \o Table(resolved) = Table(resolved)
      BY <2>6, ConcatEmptySeq
    <3> QED
      BY <1>1, <3>1
  <2>8. edges' \in Seq(GraphRow) /\ out' \in Seq(TableRow)
    BY <2>3, <2>5, <2>6, <2>7
  <2>9. out' \o Table(edges') = Table(GraphReader!ResolveGraph(services'))
    BY <2>3, <2>5, <2>7
  <2>10. services' = GraphReader!ParseServiceGraphResponse(WindowServices')
    BY <1>3, <2>4
  <2> QED
    BY <1>1, <2>3, <2>8, <2>9, <2>10 DEF GraphInv
<1> QED
  BY <1>7, <1>8, <1>9

\* The service map reader's invariant holds, whichever reader runs
\* (service_dependencies.cpp:330).
THEOREM GraphInvariant == ReadersSpec => []GraphInv
<1>1. ReadersInit => GraphInv
  BY DEF ReadersInit, GraphReader!Init, GraphInv
<1>2. GraphInv /\ [ReadersNext]_readers_vars => GraphInv'
  <2> SUFFICES ASSUME GraphInv, [ReadersNext]_readers_vars PROVE GraphInv'
    OBVIOUS
  <2>1. CASE GraphReader!Step
    BY <2>1, GraphBeginStep, GraphPageStep, GraphChunkStep DEF GraphReader!Step
  <2>2. CASE GraphReader!PageFails
    <3>1. graph_phase' = "failed" /\ known' = known
      BY <2>2 DEF GraphReader!PageFails
    <3> QED
      BY <3>1 DEF GraphInv
  <2>3. CASE \/ GraphReader!Tick
             \/ UNCHANGED graph_vars
    <3>1. UNCHANGED <<known, start_ms, end_ms, graph_phase, services, graph_token, edges, out>>
      BY <2>3 DEF GraphReader!Tick, graph_vars
    <3>2. WindowServices' = WindowServices /\ PagesRead' = PagesRead
      BY <3>1 DEF WindowServices, PagesRead, GraphReader!Seen
    <3>3. GraphReader!ResolveGraph(services') = GraphReader!ResolveGraph(services)
      BY <3>1
    <3> QED
      BY <3>1, <3>2, <3>3 DEF GraphInv
  <2>4. GraphReader!Next \/ UNCHANGED graph_vars
    BY DEF ReadersNext, OnlyLogs, OnlyAlarms, OnlyGraph, OnlyCatalog, readers_vars
  <2> QED
    BY <2>1, <2>2, <2>3, <2>4 DEF GraphReader!Next
<1> QED
  BY <1>1, <1>2, PTL DEF ReadersSpec

\* GetServiceGraph pages: every edge of the window once, under its target's name,
\* however the graph is cut into pages (service_dependencies.cpp:330).
THEOREM GraphPagesAreIrrelevant == ReadersSpec => []GraphPagesIrrelevant
<1>1. GraphInv => GraphPagesIrrelevant
  <2> SUFFICES ASSUME GraphInv, graph_phase = "loaded" PROVE GraphPagesIrrelevant
    BY DEF GraphPagesIrrelevant, GraphReader!GraphPagesIrrelevant
  <2>1. PICK graph \in Seq(GraphService) : graph = WindowServices
    BY WindowType DEF GraphInv, WindowServices
  <2>2. PICK resolved : resolved = GraphReader!ResolveGraph(services)
    OBVIOUS
  <2>3. resolved = GraphReader!ResolveGraph(GraphReader!ParseServiceGraphResponse(graph))
    BY <2>1, <2>2 DEF GraphInv
  <2>4. PICK ends : ends = Ends(graph)
    OBVIOUS
  <2>5. /\ resolved \in Seq(GraphRow) /\ ends \in Seq(GraphEnds) /\ Len(ends) = Len(resolved)
        /\ \A k \in 1 .. Len(resolved) : RowTells(resolved[k], ends[k], graph)
    BY <2>3, <2>4, ResolvedRows
  <2>6. PICK result : result = out \o [k \in DOMAIN edges |-> GraphReader!Columns(edges[k])]
    OBVIOUS
  <2>7. result = Table(resolved)
    BY <2>2, <2>6 DEF GraphInv, Table
  <2>8. /\ Len(result) = Len(resolved)
        /\ \A k \in 1 .. Len(resolved) : result[k] = GraphReader!Columns(resolved[k])
    BY <2>5, <2>7, TableRows
  <2>9. ASSUME NEW k \in DOMAIN ends
        PROVE  /\ result[k].source = ends[k].from.name
               /\ result[k].request_count = ends[k].edge.total
               /\ GraphReader!Explains(ends[k].edge, graph, result[k].target)
    <3>1. k \in 1 .. Len(resolved)
      BY <2>5
    <3>2. RowTells(resolved[k], ends[k], graph) /\ result[k] = GraphReader!Columns(resolved[k])
      BY <2>5, <2>8, <3>1
    <3>3. result[k].source = resolved[k].source /\ result[k].target = resolved[k].target
      BY <3>2 DEF GraphReader!Columns
    <3> QED
      BY <3>2, <3>3 DEF RowTells
  <2>10. GraphReader!FlattenSeq([i \in DOMAIN graph |-> [j \in DOMAIN graph[i].edges |->
           [from |-> graph[i], edge |-> graph[i].edges[j]]]]) = ends
    BY <2>4, GraphSelections, Zenon DEF Ends
  <2>11. Len(result) = Len(ends)
    BY <2>5, <2>8
  <2>12. GraphReader!Seen(start_ms, end_ms) = graph
    BY <2>1 DEF WindowServices
  <2> QED
    BY <2>6, <2>9, <2>10, <2>11, <2>12, Zenon
       DEF GraphPagesIrrelevant, GraphReader!GraphPagesIrrelevant
<1> QED
  BY <1>1, GraphInvariant, PTL

----------------------------------------------------------------------------
(* The catalog.                                                            *)

\* A statement has only been answered once the catalog is attached.
CatalogTypeInv ==
  /\ groups \subseteq ToSet(Names) /\ secrets \subseteq Secrets
  /\ log_groups \in Seq(STRING)
  /\ groups_token \in 0 .. Len(Names)
  /\ attach_phase \in {"idle", "discovering", "attached", "failed"}
  /\ attach_phase = "idle" => groups_token = 0
  /\ attach_phase # "attached" => read.said = "none"

\* The tables have the secret the catalog was discovered with, by name, and its
\* region unless that was the setting's or the environment's.
PinnedInv ==
  attach_phase \in {"discovering", "attached"} =>
    /\ account = [secret |-> account.secret, region |-> account.region]
    /\ account.secret \in Secrets /\ secret_name = account.secret
    /\ region # None => account.region = region
    /\ region = None /\ SecretRegion[account.secret] # None =>
         account.region = SecretRegion[account.secret]

\* Discovery has listed the names up to its token: every lasting group among
\* them, no group twice, none that was not there.
DiscoveredInv ==
  attach_phase = "discovering" =>
    /\ ~offered /\ lasting \subseteq groups /\ groups \subseteq passing
    /\ IsInjective(log_groups)
    /\ \A g \in ToSet(log_groups) : g \in passing /\ \E i \in 1 .. groups_token : Names[i] = g
    /\ \A i \in 1 .. groups_token : Names[i] \in lasting => Names[i] \in ToSet(log_groups)

\* What CatalogFaithful says, in two parts: of the tables and of the last statement.
ListedInv ==
  attach_phase = "attached" =>
    /\ IsInjective(log_groups)
    /\ ~offered => lasting \subseteq ToSet(log_groups) /\ ToSet(log_groups) \subseteq passing

ReadInv ==
  /\ read.said \in {"rows", "no group"} =>
       /\ read.from.secret = account.secret
       /\ region # None \/ SecretRegion[account.secret] # None => read.from = account
       /\ read.asked \in ToSet(log_groups) => read.table = read.asked
       /\ Fold[read.table] = Fold[read.asked]
  /\ read.said = "no table" => \A i \in DOMAIN log_groups : Fold[log_groups[i]] # Fold[read.asked]

CatalogInv == CatalogTypeInv /\ PinnedInv /\ DiscoveredInv /\ ListedInv /\ ReadInv

\* The catalog's names of what Selections defines.
LEMMA CatalogSelections ==
  /\ \A q, places : CatalogReader!Kept(q, places) = Kept(q, places)
  /\ \A q : CatalogReader!ToSet(q) = ToSet(q)
  /\ \A q : CatalogReader!IsInjective(q) <=> IsInjective(q)
  /\ \A T : CatalogReader!Min(T) = Min(T)
  /\ \A T : CatalogReader!Max(T) = Max(T)
  /\ \A T : CatalogReader!Cardinality(T) = Cardinality(T)
<1>1. \A S : CatalogReader!SetToSeqs(S) = SetToSeqs(S)
  BY DEF CatalogReader!SetToSeqs, SetToSeqs, CatalogReader!Cardinality, Cardinality
<1>2. \A places : CatalogReader!Ascending(places) = Ascending(places)
  BY <1>1, Zenon DEF CatalogReader!Ascending, Ascending
<1>3. \A q, places : CatalogReader!Kept(q, places) = Kept(q, places)
  BY <1>2, Zenon DEF CatalogReader!Kept, Kept
<1>4. \A q : CatalogReader!ToSet(q) = ToSet(q)
  BY DEF CatalogReader!ToSet, ToSet
<1>5. \A q : CatalogReader!IsInjective(q) <=> IsInjective(q)
  BY DEF CatalogReader!IsInjective, IsInjective
<1>6. (\A T : CatalogReader!Min(T) = Min(T)) /\ (\A T : CatalogReader!Max(T) = Max(T))
  BY DEF CatalogReader!Min, Min, CatalogReader!Max, Max
<1>7. \A T : CatalogReader!Cardinality(T) = Cardinality(T)
  BY DEF CatalogReader!Cardinality, Cardinality
<1> QED
  BY <1>3, <1>4, <1>5, <1>6, <1>7

\* The region option and the secret's region go before the setting and the environment.
LEMMA RegionPinned ==
  ASSUME NEW explicit, NEW secret
  PROVE  /\ explicit # None => CatalogReader!Region(explicit, secret) = explicit
         /\ explicit = None /\ SecretRegion[secret] # None =>
              CatalogReader!Region(explicit, secret) = SecretRegion[secret]
<1> DEFINE choices == <<explicit, SecretRegion[secret], s3_region, EnvRegion>>
           named == {i \in DOMAIN choices : choices[i] # None}
<1>1. CatalogReader!Region(explicit, secret) = IF named = {} THEN None ELSE choices[Min(named)]
  BY CatalogSelections DEF CatalogReader!Region
<1>2. DOMAIN choices = 1 .. 4 /\ choices[1] = explicit /\ choices[2] = SecretRegion[secret]
  OBVIOUS
<1> HIDE DEF choices
<1>3. named \in SUBSET Nat
  BY <1>2
<1>4. named # {} => Min(named) \in named /\ \A y \in named : Min(named) <= y
  BY <1>3, MinNat
<1>5. ASSUME explicit # None PROVE named # {} /\ Min(named) = 1
  <2>1. 1 \in named
    BY <1>2, <1>5
  <2> HIDE DEF named
  <2>2. Min(named) \in Nat /\ Min(named) <= 1
    BY <1>3, <1>4, <2>1
  <2>3. Min(named) # 0
    BY <1>2, <1>4, <2>1 DEF named
  <2> QED
    BY <2>1, <2>2, <2>3
<1>6. ASSUME explicit = None, SecretRegion[secret] # None PROVE named # {} /\ Min(named) = 2
  <2>1. 2 \in named
    BY <1>2, <1>6
  <2>2. 0 \notin named /\ 1 \notin named
    BY <1>2, <1>6
  <2> HIDE DEF named
  <2>3. Min(named) \in Nat /\ Min(named) <= 2 /\ Min(named) # 0 /\ Min(named) # 1
    BY <1>3, <1>4, <2>1, <2>2
  <2> QED
    BY <2>1, <2>3
<1> QED
  BY <1>1, <1>2, <1>5, <1>6

\* Credentials name a secret there is, the one asked for if one is.
LEMMA CredentialsPinned ==
  ASSUME secrets \subseteq Secrets, NEW name, NEW explicit,
         NEW c \in CatalogReader!GetCloudwatchCredentials(name, explicit)
  PROVE  /\ c = [secret |-> c.secret, region |-> c.region]
         /\ c.secret \in Secrets /\ (name # None => c.secret = name)
         /\ explicit # None => c.region = explicit
         /\ explicit = None /\ SecretRegion[c.secret] # None => c.region = SecretRegion[c.secret]
<1>1. PICK s \in CatalogReader!FindAwsSecret(name) :
        c = [secret |-> s, region |-> CatalogReader!Region(explicit, s)]
  BY DEF CatalogReader!GetCloudwatchCredentials
<1>2. s \in secrets /\ (name # None => s = name)
  <2>1. CASE name # None
    BY <2>1 DEF CatalogReader!FindAwsSecret
  <2>2. CASE name = None
    BY <2>2 DEF CatalogReader!FindAwsSecret, CatalogReader!Matches
  <2> QED
    BY <2>1, <2>2
<1> QED
  BY <1>1, <1>2, RegionPinned

\* A page of DescribeLogGroups: the groups after the token, all of them if it is
\* the last page, else all up to the token it ends with.
LEMMA DescribedPage ==
  ASSUME NEW after \in 0 .. Len(Names), NEW response \in CatalogReader!DescribeLogGroups(after)
  PROVE  \E page \in SUBSET (1 .. Len(Names)) :
           /\ response.page = Kept(Names, page)
           /\ \A i \in page : i > after /\ Names[i] \in groups
           /\ \/ /\ response.token \in {0, after}
                 /\ \A i \in 1 .. Len(Names) : i > after /\ Names[i] \in groups => i \in page
              \/ /\ response.token \in page /\ \A i \in page : i <= response.token
                 /\ \A i \in 1 .. Len(Names) :
                      i > after /\ i <= response.token /\ Names[i] \in groups => i \in page
<1> DEFINE listed == {i \in DOMAIN Names : i > after /\ Names[i] \in groups}
           upto(i) == {j \in listed : j <= i}
           page == {i \in listed : Cardinality(upto(i)) <= GroupLimit}
<1>1. /\ GroupLimit \in Nat \ {0} /\ Names \in Seq(STRING) /\ Len(Names) \in Nat
      /\ DOMAIN Names = 1 .. Len(Names)
  BY ReadersAssumption DEF CatalogReader!CatalogAssumption
<1>2. /\ response.page = Kept(Names, page)
      /\ response.token \in IF page # listed THEN {Max(page)} ELSE {0, after}
  <2> DEFINE cpage == {i \in listed :
                         CatalogReader!Cardinality({j \in listed : j <= i}) <= GroupLimit}
  <2>1. response \in {[page |-> CatalogReader!Kept(Names, cpage), token |-> t] :
                       t \in IF cpage # listed THEN {CatalogReader!Max(cpage)} ELSE {0, after}}
    BY Zenon DEF CatalogReader!DescribeLogGroups
  <2>2. cpage = page
    BY CatalogSelections
  <2> HIDE DEF cpage, page, listed
  <2>3. response \in {[page |-> Kept(Names, page), token |-> t] :
                       t \in IF page # listed THEN {Max(page)} ELSE {0, after}}
    BY <2>1, <2>2, CatalogSelections
  <2> QED
    BY <2>3
<1>3. listed \in SUBSET (1 .. Len(Names))
  BY <1>1
<1>4. \A i \in listed : i \in 1 .. Len(Names) /\ i > after /\ Names[i] \in groups
  BY <1>1
<1>5. \A i \in 1 .. Len(Names) : i > after /\ Names[i] \in groups => i \in listed
  BY <1>1
<1>6. /\ page \in SUBSET listed
      /\ page # listed => \E last \in page :
           /\ last = Max(page) /\ \A i \in page : i <= last
           /\ \A i \in listed : i <= last => i \in page
  <2>1. PICK q, p : q = listed /\ p = page
    OBVIOUS
  <2>2. /\ q \in SUBSET (1 .. Len(Names))
        /\ p = FirstOf(q, GroupLimit)
    BY <1>3, <2>1 DEF FirstOf
  <2> HIDE DEF page, listed
  <2>3. /\ p \in SUBSET q
        /\ p # q => \E last \in p :
             /\ last = Max(p) /\ \A i \in p : i <= last
             /\ \A i \in q : i <= last => i \in p
    BY <1>1, <2>2, LimitedPage
  <2> QED
    BY <2>1, <2>3, Zenon
<1> HIDE DEF listed, page
<1>7. page \in SUBSET (1 .. Len(Names)) /\ \A i \in page : i > after /\ Names[i] \in groups
  BY <1>3, <1>4, <1>6
<1>8. CASE page = listed
  BY <1>2, <1>5, <1>7, <1>8
<1>9. CASE page # listed
  BY <1>2, <1>5, <1>6, <1>7, <1>9
<1> QED
  BY <1>8, <1>9

\* A turn of the discovery keeps the invariant.
LEMMA DiscoverStep ==
  ASSUME CatalogInv, CatalogReader!DiscoverLogGroups
  PROVE  CatalogInv'
<1>1. PICK response \in CatalogReader!DescribeLogGroups(groups_token) :
        /\ log_groups' = log_groups \o response.page
        /\ IF response.token = 0 \/ response.token = groups_token
           THEN attach_phase' = "attached" /\ UNCHANGED groups_token
           ELSE groups_token' = response.token /\ UNCHANGED attach_phase
  BY DEF CatalogReader!DiscoverLogGroups
<1>2. /\ attach_phase = "discovering"
      /\ UNCHANGED <<groups, secrets, account, secret_name, region, offered, lasting, passing, read>>
  BY DEF CatalogReader!DiscoverLogGroups, CatalogReader!external
<1>3. /\ Names \in Seq(STRING) /\ Len(Names) \in Nat /\ DOMAIN Names = 1 .. Len(Names)
      /\ \A i, j \in 1 .. Len(Names) : Names[i] = Names[j] => i = j
  <2>1. Names \in Seq(STRING) /\ IsInjective(Names)
    BY ReadersAssumption, CatalogSelections DEF CatalogReader!CatalogAssumption
  <2>2. Len(Names) \in Nat /\ DOMAIN Names = 1 .. Len(Names)
    BY <2>1
  <2> QED
    BY <2>1, <2>2 DEF IsInjective
<1>4. PICK after \in 0 .. Len(Names) : after = groups_token
  BY DEF CatalogInv, CatalogTypeInv
<1>5. PICK page \in SUBSET (1 .. Len(Names)) :
        /\ response.page = Kept(Names, page)
        /\ \A i \in page : i > after /\ Names[i] \in groups
        /\ \/ /\ response.token \in {0, after}
              /\ \A i \in 1 .. Len(Names) : i > after /\ Names[i] \in groups => i \in page
           \/ /\ response.token \in page /\ \A i \in page : i <= response.token
              /\ \A i \in 1 .. Len(Names) :
                   i > after /\ i <= response.token /\ Names[i] \in groups => i \in page
  BY <1>1, <1>4, DescribedPage
<1>6. PICK new : new = response.page
  OBVIOUS
<1>7. new \in Seq(STRING) /\ ToSet(new) = {Names[x] : x \in page} /\ IsInjective(new)
  <2>1. page \in SUBSET DOMAIN Names
    BY <1>3
  <2>2. \A x, y \in page : Names[x] = Names[y] => x = y
    BY <1>3
  <2> QED
    BY <1>3, <1>5, <1>6, <2>1, <2>2, KeptElements, KeptSet
<1>8. /\ log_groups \in Seq(STRING) /\ IsInjective(log_groups)
      /\ ~offered /\ lasting \subseteq groups /\ groups \subseteq passing
      /\ \A g \in ToSet(log_groups) : g \in passing /\ \E i \in 1 .. after : Names[i] = g
      /\ \A i \in 1 .. after : Names[i] \in lasting => Names[i] \in ToSet(log_groups)
  BY <1>2, <1>4 DEF CatalogInv, CatalogTypeInv, DiscoveredInv
<1>9. ToSet(log_groups) \cap ToSet(new) = {}
  <2> SUFFICES ASSUME NEW g \in ToSet(log_groups), g \in ToSet(new) PROVE FALSE
    OBVIOUS
  <2>1. PICK i \in 1 .. after : Names[i] = g
    BY <1>8
  <2>2. PICK x \in page : Names[x] = g
    BY <1>7
  <2>3. i \in 1 .. Len(Names) /\ x \in 1 .. Len(Names) /\ i <= after /\ x > after
    BY <1>3, <1>5
  <2> QED
    BY <1>3, <2>1, <2>2, <2>3
<1>10. /\ log_groups' \in Seq(STRING) /\ IsInjective(log_groups')
       /\ ToSet(log_groups') = ToSet(log_groups) \cup {Names[x] : x \in page}
  BY <1>1, <1>6, <1>7, <1>8, <1>9, ConcatSet
<1>11. PICK q : q = log_groups'
  OBVIOUS
<1>12. ToSet(q) \subseteq passing
  BY <1>5, <1>8, <1>10, <1>11
<1>13. /\ attach_phase' \in {"discovering", "attached"}
       /\ attach_phase' = "attached" =>
            /\ groups_token' = after
            /\ \A i \in 1 .. Len(Names) : i > after /\ Names[i] \in groups => i \in page
       /\ attach_phase' = "discovering" =>
            /\ groups_token' \in page /\ \A i \in page : i <= groups_token'
            /\ \A i \in 1 .. Len(Names) :
                 i > after /\ i <= groups_token' /\ Names[i] \in groups => i \in page
  <2>1. CASE response.token \in {0, after}
    <3>1. attach_phase' = "attached" /\ groups_token' = after
      BY <1>1, <1>4, <2>1
    <3>2. response.token \notin page
      BY <1>5, <2>1
    <3> QED
      BY <1>5, <3>1, <3>2
  <2>2. CASE response.token \notin {0, after}
    <3>1. attach_phase' = "discovering" /\ groups_token' = response.token
      BY <1>1, <1>2, <1>4, <2>2
    <3> QED
      BY <1>5, <2>2, <3>1
  <2> QED
    BY <2>1, <2>2
<1>14. CatalogTypeInv'
  <2>1. groups_token' \in 0 .. Len(Names)
    <3>1. PICK t : t = groups_token'
      OBVIOUS
    <3>2. t \in page \/ t = after
      BY <1>13, <3>1
    <3>3. CASE t \in page
      <4>1. t \in 1 .. Len(Names)
        BY <3>3
      <4> QED
        BY <1>3, <3>1, <4>1
    <3>4. CASE t = after
      BY <3>1, <3>4
    <3> QED
      BY <3>2, <3>3, <3>4
  <2> QED
    BY <1>2, <1>10, <1>13, <2>1 DEF CatalogInv, CatalogTypeInv
<1>15. PinnedInv'
  BY <1>2, <1>13 DEF CatalogInv, PinnedInv
<1>16. DiscoveredInv'
  <2> SUFFICES ASSUME attach_phase' = "discovering" PROVE DiscoveredInv'
    BY DEF DiscoveredInv
  <2>1. PICK next \in page : next = groups_token'
    BY <1>13
  <2>2. after < next /\ next \in 1 .. Len(Names) /\ \A i \in page : i <= next
    BY <1>5, <1>13, <2>1
  <2>3. ASSUME NEW g \in ToSet(q) PROVE g \in passing /\ \E i \in 1 .. next : Names[i] = g
    <3>1. CASE g \in ToSet(log_groups)
      <4>1. PICK i \in 1 .. after : Names[i] = g
        BY <1>8, <3>1
      <4>2. i \in 1 .. next
        BY <2>2
      <4> QED
        BY <1>12, <2>3, <4>1, <4>2
    <3>2. CASE g \in {Names[x] : x \in page}
      <4>1. PICK x \in page : Names[x] = g
        BY <3>2
      <4>2. x \in 1 .. next
        BY <2>2
      <4> QED
        BY <1>12, <2>3, <4>1, <4>2
    <3> QED
      BY <1>10, <1>11, <2>3, <3>1, <3>2
  <2>4. ASSUME NEW i \in 1 .. next, Names[i] \in lasting PROVE Names[i] \in ToSet(q)
    <3>1. CASE i <= after
      <4>1. i \in 1 .. after
        BY <3>1
      <4> QED
        BY <1>8, <1>10, <1>11, <2>4, <4>1
    <3>2. CASE i > after
      <4>1. i \in page
        BY <1>8, <1>13, <2>1, <2>2, <2>4, <3>2
      <4> QED
        BY <1>10, <1>11, <4>1
    <3> QED
      BY <3>1, <3>2
  <2>5. /\ ~offered' /\ lasting' \subseteq groups' /\ groups' \subseteq passing'
        /\ IsInjective(log_groups')
    BY <1>2, <1>8, <1>10
  <2> QED
    BY <1>2, <1>11, <2>1, <2>3, <2>4, <2>5 DEF DiscoveredInv
<1>17. ListedInv'
  <2> SUFFICES ASSUME attach_phase' = "attached" PROVE ListedInv'
    BY DEF ListedInv
  <2>1. ASSUME NEW g \in lasting PROVE g \in ToSet(q)
    <3>1. PICK i \in 1 .. Len(Names) : Names[i] = g
      <4>1. g \in ToSet(Names)
        BY <1>8, <2>1 DEF CatalogInv, CatalogTypeInv
      <4> QED
        BY <1>3, <4>1 DEF ToSet
    <3>2. CASE i <= after
      <4>1. i \in 1 .. after
        BY <3>2
      <4> QED
        BY <1>8, <1>10, <1>11, <2>1, <3>1, <4>1
    <3>3. CASE i > after
      <4>1. i \in page
        BY <1>8, <1>13, <2>1, <3>1, <3>3
      <4> QED
        BY <1>10, <1>11, <3>1, <4>1
    <3> QED
      BY <3>2, <3>3
  <2> QED
    BY <1>2, <1>10, <1>11, <1>12, <2>1 DEF ListedInv
<1>18. ReadInv'
  BY <1>2 DEF CatalogInv, CatalogTypeInv, ReadInv
<1> QED
  BY <1>14, <1>15, <1>16, <1>17, <1>18 DEF CatalogInv

\* So does ATTACH: what it lists first is explicit, each name once.
LEMMA AttachStep ==
  ASSUME CatalogInv, NEW name, NEW explicit, NEW offer \in Offers \cup {None},
         CatalogReader!Attach(name, explicit, offer)
  PROVE  CatalogInv'
<1>1. /\ attach_phase = "idle" /\ groups_token = 0 /\ groups_token' = groups_token
      /\ UNCHANGED <<groups, secrets, read>>
      /\ secrets \subseteq Secrets /\ groups \subseteq ToSet(Names) /\ read.said = "none"
      /\ log_groups \in Seq(STRING) /\ Len(Names) \in Nat
  <2>1. Names \in Seq(STRING)
    BY ReadersAssumption DEF CatalogReader!CatalogAssumption
  <2> QED
    BY <2>1 DEF CatalogInv, CatalogTypeInv, CatalogReader!Attach, CatalogReader!external
<1>2. ReadInv' /\ groups_token' \in 0 .. Len(Names)
  BY <1>1 DEF ReadInv
<1>3. CASE attach_phase' = "failed" /\ UNCHANGED log_groups
  BY <1>1, <1>2, <1>3 DEF CatalogInv, CatalogTypeInv, PinnedInv, DiscoveredInv, ListedInv
<1>4. CASE \E credentials \in CatalogReader!GetCloudwatchCredentials(name, explicit) :
             /\ attach_phase' = IF offer = None THEN "discovering" ELSE "attached"
             /\ account' = credentials
             /\ secret_name' = CatalogReader!Pinned(name, credentials.secret)
             /\ region' = explicit
             /\ log_groups' = IF offer = None THEN << >>
                              ELSE CatalogReader!ParseExplicitLogGroups(offer)
             /\ offered' = (offer # None)
             /\ lasting' = groups /\ passing' = groups
  <2>1. PICK c \in CatalogReader!GetCloudwatchCredentials(name, explicit) :
          /\ attach_phase' = IF offer = None THEN "discovering" ELSE "attached"
          /\ account' = c /\ secret_name' = CatalogReader!Pinned(name, c.secret)
          /\ region' = explicit
          /\ log_groups' = IF offer = None THEN << >>
                           ELSE CatalogReader!ParseExplicitLogGroups(offer)
          /\ offered' = (offer # None)
          /\ lasting' = groups /\ passing' = groups
    BY <1>4
  <2>2. PinnedInv'
    <3>1. /\ c = [secret |-> c.secret, region |-> c.region]
          /\ c.secret \in Secrets /\ (name # None => c.secret = name)
          /\ explicit # None => c.region = explicit
          /\ explicit = None /\ SecretRegion[c.secret] # None => c.region = SecretRegion[c.secret]
      BY <1>1, CredentialsPinned
    <3>2. secret_name' = c.secret
      BY <2>1, <3>1 DEF CatalogReader!Pinned
    <3> QED
      BY <2>1, <3>1, <3>2 DEF PinnedInv
  <2>3. log_groups' \in Seq(STRING) /\ IsInjective(log_groups')
    <3>1. CASE offer = None
      BY <2>1, <3>1 DEF IsInjective
    <3>2. CASE offer # None
      <4> DEFINE places == {i \in DOMAIN offer : \A j \in 1 .. (i - 1) : offer[j] # offer[i]}
      <4>1. offer \in Seq(STRING)
        BY <3>2, ReadersAssumption DEF CatalogReader!CatalogAssumption
      <4>2. log_groups' = Kept(offer, places)
        BY <2>1, <3>2, CatalogSelections DEF CatalogReader!ParseExplicitLogGroups
      <4>3. places \in SUBSET DOMAIN offer
        OBVIOUS
      <4>4. ASSUME NEW x \in places, NEW y \in places, offer[x] = offer[y] PROVE x = y
        <5>1. x \in Nat /\ y \in Nat /\ x >= 1 /\ y >= 1
          BY <4>1
        <5>2. ~(x < y) /\ ~(y < x)
          BY <4>4, <5>1
        <5> QED
          BY <5>1, <5>2
      <4> HIDE DEF places
      <4> QED
        BY <4>1, <4>2, <4>3, <4>4, KeptElements, KeptSet
    <3> QED
      BY <3>1, <3>2
  <2>4. DiscoveredInv'
    <3> SUFFICES ASSUME offer = None PROVE DiscoveredInv'
      BY <2>1 DEF DiscoveredInv
    <3>1. /\ log_groups' = << >> /\ ~offered' /\ lasting' \subseteq groups'
          /\ groups' \subseteq passing' /\ groups_token' = 0
      BY <1>1, <2>1
    <3>2. ToSet(log_groups') = {} /\ 1 .. groups_token' = {}
      BY <3>1 DEF ToSet
    <3> QED
      BY <2>3, <3>1, <3>2 DEF DiscoveredInv
  <2>5. ListedInv'
    BY <2>1, <2>3 DEF ListedInv
  <2>6. CatalogTypeInv'
    BY <1>1, <1>2, <2>1, <2>3 DEF CatalogTypeInv
  <2> QED
    BY <1>2, <2>2, <2>4, <2>5, <2>6 DEF CatalogInv
<1> QED
  BY <1>3, <1>4 DEF CatalogReader!Attach

\* A statement finds what the spelling asks for, with the secret of ATTACH.
LEMMA SelectStep ==
  ASSUME CatalogInv, NEW name, CatalogReader!Select(name)
  PROVE  CatalogInv'
<1>1. /\ attach_phase = "attached"
      /\ UNCHANGED <<groups, secrets, account, secret_name, region, log_groups, groups_token,
                     attach_phase, offered, lasting, passing>>
  BY DEF CatalogReader!Select, CatalogReader!external, CatalogReader!attach
<1>2. CatalogTypeInv' /\ PinnedInv' /\ DiscoveredInv' /\ ListedInv'
  BY <1>1 DEF CatalogInv, CatalogTypeInv, PinnedInv, DiscoveredInv, ListedInv
<1>3. log_groups \in Seq(STRING) /\ DOMAIN log_groups \in SUBSET Nat
  BY DEF CatalogInv, CatalogTypeInv
<1>4. ASSUME NEW table \in CatalogReader!LookupEntry(name)
      PROVE  /\ name \in ToSet(log_groups) => table = name
             /\ Fold[table] = Fold[name]
  <2> DEFINE spelled == {i \in DOMAIN log_groups : log_groups[i] = name}
             folded == {i \in DOMAIN log_groups : Fold[log_groups[i]] = Fold[name]}
             found == IF spelled # {} THEN spelled ELSE folded
  <2>1. found # {} /\ table = log_groups[Min(found)]
    BY <1>4, CatalogSelections DEF CatalogReader!LookupEntry
  <2>2. found \in SUBSET Nat
    BY <1>3
  <2>3. Min(found) \in found
    BY <2>1, <2>2, MinNat
  <2>4. name \in ToSet(log_groups) => spelled # {}
    BY DEF ToSet
  <2> QED
    BY <2>1, <2>3, <2>4
<1>5. ASSUME CatalogReader!LookupEntry(name) = {}
      PROVE  \A i \in DOMAIN log_groups : Fold[log_groups[i]] # Fold[name]
  BY <1>5 DEF CatalogReader!LookupEntry
<1>6. ASSUME NEW from \in CatalogReader!GetCloudwatchCredentials(secret_name, region)
      PROVE  /\ from.secret = account.secret
             /\ region # None \/ SecretRegion[account.secret] # None => from = account
  <2>1. /\ account = [secret |-> account.secret, region |-> account.region]
        /\ account.secret \in Secrets /\ secret_name = account.secret
        /\ region # None => account.region = region
        /\ region = None /\ SecretRegion[account.secret] # None =>
             account.region = SecretRegion[account.secret]
        /\ secrets \subseteq Secrets
    BY <1>1 DEF CatalogInv, CatalogTypeInv, PinnedInv
  <2>2. secret_name # None
    BY <2>1, ReadersAssumption DEF CatalogReader!CatalogAssumption
  <2>3. /\ from = [secret |-> from.secret, region |-> from.region]
        /\ from.secret = secret_name
        /\ region # None => from.region = region
        /\ region = None /\ SecretRegion[from.secret] # None =>
             from.region = SecretRegion[from.secret]
    BY <1>6, <2>1, <2>2, CredentialsPinned
  <2>4. region # None \/ SecretRegion[account.secret] # None => from.region = account.region
    BY <2>1, <2>3
  <2> QED
    BY <2>1, <2>3, <2>4
<1>7. \/ /\ read'.said = "no table" /\ read'.asked = name
         /\ CatalogReader!LookupEntry(name) = {}
      \/ read'.said = "no credentials"
      \/ \E table \in CatalogReader!LookupEntry(name),
            from \in CatalogReader!GetCloudwatchCredentials(secret_name, region) :
            /\ read'.said \in {"rows", "no group"} /\ read'.asked = name
            /\ read'.table = table /\ read'.from = from
  <2>1. PICK answer : answer = read'
    OBVIOUS
  <2>2. \/ /\ CatalogReader!LookupEntry(name) = {}
           /\ answer = [asked |-> name, table |-> None, from |-> CatalogReader!Nowhere,
                        said |-> "no table"]
        \/ \E table \in CatalogReader!LookupEntry(name) :
             \/ answer = [asked |-> name, table |-> table, from |-> CatalogReader!Nowhere,
                          said |-> "no credentials"]
             \/ \E from \in CatalogReader!GetCloudwatchCredentials(secret_name, region) :
                  \/ answer = [asked |-> name, table |-> table, from |-> from, said |-> "rows"]
                  \/ answer = [asked |-> name, table |-> table, from |-> from, said |-> "no group"]
    BY <2>1, Zenon DEF CatalogReader!Select
  <2>3. \/ /\ answer.said = "no table" /\ answer.asked = name
           /\ CatalogReader!LookupEntry(name) = {}
        \/ answer.said = "no credentials"
        \/ \E table \in CatalogReader!LookupEntry(name),
              from \in CatalogReader!GetCloudwatchCredentials(secret_name, region) :
              /\ answer.said \in {"rows", "no group"} /\ answer.asked = name
              /\ answer.table = table /\ answer.from = from
    <3>1. CASE /\ CatalogReader!LookupEntry(name) = {}
               /\ answer = [asked |-> name, table |-> None, from |-> CatalogReader!Nowhere,
                            said |-> "no table"]
      BY <3>1
    <3>2. CASE \E table \in CatalogReader!LookupEntry(name) :
                 answer = [asked |-> name, table |-> table, from |-> CatalogReader!Nowhere,
                           said |-> "no credentials"]
      <4>1. PICK table : answer = [asked |-> name, table |-> table,
                                   from |-> CatalogReader!Nowhere, said |-> "no credentials"]
        BY <3>2, Zenon
      <4>2. answer.said = "no credentials"
        BY <4>1
      <4> QED
        BY <4>2, Zenon
    <3>3. ASSUME NEW table \in CatalogReader!LookupEntry(name),
                 NEW from \in CatalogReader!GetCloudwatchCredentials(secret_name, region),
                 \/ answer = [asked |-> name, table |-> table, from |-> from, said |-> "rows"]
                 \/ answer = [asked |-> name, table |-> table, from |-> from, said |-> "no group"]
          PROVE  /\ answer.said \in {"rows", "no group"} /\ answer.asked = name
                 /\ answer.table = table /\ answer.from = from
      <4>1. PICK said \in {"rows", "no group"} :
              answer = [asked |-> name, table |-> table, from |-> from, said |-> said]
        BY <3>3, Zenon
      <4>2. answer.said = said /\ answer.asked = name /\ answer.table = table /\ answer.from = from
        BY <4>1
      <4> QED
        BY <4>2, Zenon
    <3> QED
      BY <2>2, <3>1, <3>2, <3>3, Zenon
  <2> QED
    BY <2>1, <2>3, Zenon
<1>8. ReadInv'
  <2>1. CASE read'.said = "no table" /\ read'.asked = name /\ CatalogReader!LookupEntry(name) = {}
    BY <1>1, <1>5, <2>1 DEF ReadInv
  <2>2. CASE read'.said = "no credentials"
    BY <2>2 DEF ReadInv
  <2>3. CASE \E table \in CatalogReader!LookupEntry(name),
              from \in CatalogReader!GetCloudwatchCredentials(secret_name, region) :
               /\ read'.said \in {"rows", "no group"} /\ read'.asked = name
               /\ read'.table = table /\ read'.from = from
    <3>1. PICK table \in CatalogReader!LookupEntry(name),
               from \in CatalogReader!GetCloudwatchCredentials(secret_name, region) :
            /\ read'.said \in {"rows", "no group"} /\ read'.asked = name
            /\ read'.table = table /\ read'.from = from
      BY <2>3
    <3> QED
      BY <1>1, <1>4, <1>6, <3>1 DEF ReadInv
  <2> QED
    BY <1>7, <2>1, <2>2, <2>3
<1> QED
  BY <1>2, <1>8 DEF CatalogInv

\* So do the changes of others and a failure.
LEMMA CatalogOthersStep ==
  ASSUME CatalogInv,
         \/ CatalogReader!ChangeGroups \/ CatalogReader!ChangeSettings
         \/ CatalogReader!DiscoveryFails \/ UNCHANGED catalog_vars
  PROVE  CatalogInv'
<1>1. CASE CatalogReader!ChangeGroups
  <2>1. PICK g \in ToSet(Names) :
          groups' = IF g \in groups THEN groups \ {g} ELSE groups \cup {g}
    BY <1>1, CatalogSelections DEF CatalogReader!ChangeGroups, CatalogReader!Name
  <2>2. /\ UNCHANGED <<secrets, attach_phase, account, secret_name, region, log_groups,
                       groups_token, offered, read>>
        /\ IF attach_phase = "discovering"
           THEN lasting' = lasting \cap groups' /\ passing' = passing \cup groups'
           ELSE UNCHANGED <<lasting, passing>>
    BY <1>1 DEF CatalogReader!ChangeGroups, CatalogReader!attach
  <2>3. CatalogTypeInv' /\ PinnedInv' /\ ListedInv' /\ ReadInv'
    BY <2>1, <2>2 DEF CatalogInv, CatalogTypeInv, PinnedInv, ListedInv, ReadInv
  <2>4. DiscoveredInv'
    BY <2>2 DEF CatalogInv, DiscoveredInv
  <2> QED
    BY <2>3, <2>4 DEF CatalogInv
<1>2. CASE CatalogReader!ChangeSettings
  <2>1. secrets' \subseteq Secrets
    BY <1>2 DEF CatalogReader!ChangeSettings, CatalogInv, CatalogTypeInv
  <2>2. UNCHANGED <<groups, attach_phase, account, secret_name, region, log_groups,
                    groups_token, offered, lasting, passing, read>>
    BY <1>2 DEF CatalogReader!ChangeSettings, CatalogReader!attach
  <2> QED
    BY <2>1, <2>2
       DEF CatalogInv, CatalogTypeInv, PinnedInv, DiscoveredInv, ListedInv, ReadInv
<1>3. CASE CatalogReader!DiscoveryFails
  BY <1>3 DEF CatalogReader!DiscoveryFails, CatalogReader!external,
              CatalogInv, CatalogTypeInv, PinnedInv, DiscoveredInv, ListedInv, ReadInv
<1>4. CASE UNCHANGED catalog_vars
  BY <1>4 DEF catalog_vars, CatalogInv, CatalogTypeInv, PinnedInv, DiscoveredInv, ListedInv, ReadInv
<1> QED
  BY <1>1, <1>2, <1>3, <1>4

\* The catalog's invariant holds, whichever reader runs (cloudwatch_catalog.cpp:479).
THEOREM CatalogInvariant == ReadersSpec => []CatalogInv
<1>1. ReadersInit => CatalogInv
  <2> SUFFICES ASSUME ReadersInit PROVE CatalogInv
    OBVIOUS
  <2>1. CatalogReader!Init
    BY DEF ReadersInit
  <2>2. Len(Names) \in Nat
    BY ReadersAssumption DEF CatalogReader!CatalogAssumption
  <2>3. groups \in SUBSET ToSet(Names)
    BY <2>1, CatalogSelections DEF CatalogReader!Init, CatalogReader!Name
  <2> QED
    BY <2>1, <2>2, <2>3
       DEF CatalogReader!Init, CatalogReader!NoRead, CatalogInv, CatalogTypeInv, PinnedInv,
           DiscoveredInv, ListedInv, ReadInv
<1>2. CatalogInv /\ [ReadersNext]_readers_vars => CatalogInv'
  <2> SUFFICES ASSUME CatalogInv, [ReadersNext]_readers_vars PROVE CatalogInv'
    OBVIOUS
  <2>1. CASE CatalogReader!Next
    <3>1. CASE CatalogReader!Step
      BY <3>1, AttachStep, DiscoverStep DEF CatalogReader!Step
    <3>2. CASE \E name \in CatalogReader!Name : CatalogReader!Select(name)
      BY <3>2, SelectStep
    <3> QED
      BY <2>1, <3>1, <3>2, CatalogOthersStep DEF CatalogReader!Next
  <2>2. CASE UNCHANGED catalog_vars
    BY <2>2, CatalogOthersStep
  <2> QED
    BY <2>1, <2>2 DEF ReadersNext, OnlyLogs, OnlyAlarms, OnlyGraph, OnlyCatalog, readers_vars
<1> QED
  BY <1>1, <1>2, PTL DEF ReadersSpec

\* DescribeLogGroups pages at ATTACH and the statements after it: no lasting
\* group is missed, and a table reads its own group in the account discovered
\* (cloudwatch_catalog.cpp:479).
THEOREM CatalogIsFaithful == ReadersSpec => []CatalogFaithful
<1>1. CatalogInv => CatalogFaithful
  BY CatalogSelections
     DEF CatalogInv, ListedInv, ReadInv, CatalogFaithful, CatalogReader!CatalogFaithful
<1> QED
  BY <1>1, CatalogInvariant, PTL
----------------------------------------------------------------------------
(* Logs Insights: when RunInsightsQuery may leave a query running, and that *)
(* its rows are never partial.  Both rest on a status that is final staying *)
(* true of the query after it was read.                                    *)

\* A final status, once read, still holds; rows come of a complete query; and
\* a call that ended without an excuse left nothing live behind.
StatusInv ==
  /\ status \notin Live \cup {"Unknown"} => query = status
  /\ pc = "start" => ~query_id /\ query = "none"
  /\ outcome = "rows" => status = "Complete"
  /\ AbandonedExplained

\* The types are right at the start.
LEMMA InsightsTypeInit == InsightsInit => InsightsTypeOK
BY DEF InsightsInit, InsightsTypeOK, Pc, Errors, Outcomes, Statuses, Live

\* Every step keeps them.
LEMMA InsightsTypeStep == ASSUME InsightsTypeOK, [InsightsNext]_insights_vars PROVE InsightsTypeOK'
<1> USE DEF InsightsTypeOK, Pc, Errors, Outcomes, Statuses, Live
<1>1. CASE Start
  <2>1. CASE /\ query' = "Scheduled" /\ pc' = "poll" /\ query_id' = TRUE
             /\ UNCHANGED <<error, status, outcome, interrupted, late, stop>>
    <3>1. outcome = "none"
      BY <1>1 DEF Start
    <3>2. QED
      BY <2>1, <3>1
  <2>2. CASE /\ \E result \in {"failed", "interrupted"} : End(result)
             /\ query' = query \/ query' = "Scheduled"
             /\ UNCHANGED <<interrupted, late, stop>>
    BY <2>2 DEF End
  <2>3. QED
    BY <1>1, <2>1, <2>2 DEF Start
<1>2. CASE Poll
  BY <1>2 DEF Poll, StopAndThrow
<1>3. CASE Decide
  <2>1. UNCHANGED <<query_id, status, interrupted, late, query, stop>>
    BY <1>3 DEF Decide, End, StopAndThrow, Goto
  <2>2. pc = "decide" /\ outcome = "none"
    BY <1>3 DEF Decide
  <2>3. CASE (\E result \in {"rows", "failed"} : End(result))
    BY <2>1, <2>2, <2>3 DEF End
  <2>4. CASE StopAndThrow("timed_out") \/ Goto("sleep")
    BY <2>1, <2>2, <2>4 DEF StopAndThrow, Goto
  <2>5. QED
    BY <1>3, <2>3, <2>4 DEF Decide
<1>4. CASE Stop
  BY <1>4 DEF Stop, End
<1>5. CASE Sleep
  BY <1>5 DEF Sleep, End, Goto
<1>6. CASE Interrupt \/ DeadlinePasses
  <2>1. interrupted' \in BOOLEAN /\ late' \in BOOLEAN
    BY <1>6 DEF Interrupt, DeadlinePasses
  <2>2. UNCHANGED <<pc, error, query_id, status, outcome, query, stop>>
    BY <1>6 DEF Interrupt, DeadlinePasses, caller
  <2>3. QED
    BY <2>1, <2>2
<1>7. CASE QueryAdvances
  <2>1. query' \in Statuses /\ query' # "none"
    BY <1>7 DEF QueryAdvances
  <2>2. UNCHANGED <<pc, error, query_id, status, outcome, interrupted, late, stop>>
    BY <1>7 DEF QueryAdvances, caller
  <2>3. QED
    BY <2>1, <2>2
<1>8. CASE UNCHANGED insights_vars
  BY <1>8 DEF insights_vars, caller
<1>9. QED
  BY <1>1, <1>2, <1>3, <1>4, <1>5, <1>6, <1>7, <1>8 DEF InsightsNext, Progress

\* Every step keeps what is known of the status read.
LEMMA StatusStep == ASSUME InsightsTypeOK, StatusInv, [InsightsNext]_insights_vars PROVE StatusInv'
<1> USE DEF InsightsTypeOK, StatusInv, Statuses, Live, AbandonedExplained, Abandoned
<1>1. CASE Start
  BY <1>1 DEF Start, End
<1>2. CASE Poll
  BY <1>2 DEF Poll, StopAndThrow
<1>3. CASE Decide
  BY <1>3 DEF Decide, End, StopAndThrow, Goto
<1>4. CASE Stop
  BY <1>4 DEF Stop, End, Errors
<1>5. CASE Sleep
  BY <1>5 DEF Sleep, End, Goto
<1>6. CASE Interrupt \/ DeadlinePasses \/ QueryAdvances \/ UNCHANGED insights_vars
  BY <1>6 DEF Interrupt, DeadlinePasses, QueryAdvances, insights_vars, caller
<1>7. QED
  BY <1>1, <1>2, <1>3, <1>4, <1>5, <1>6 DEF InsightsNext, Progress

\* RunInsightsQuery's variables keep their types.
THEOREM InsightsTypeCorrect == InsightsSpec => []InsightsTypeOK
<1>1. InsightsTypeOK /\ [InsightsNext]_insights_vars => InsightsTypeOK'
  BY InsightsTypeStep
<1>2. QED
  BY <1>1, InsightsTypeInit, PTL DEF InsightsSpec

\* The invariant the next two theorems rest on.
THEOREM StatusCorrect == InsightsSpec => []StatusInv
<1>1. InsightsInit => StatusInv
  BY DEF InsightsInit, StatusInv, Live, AbandonedExplained, Abandoned
<1>2. InsightsTypeOK /\ StatusInv /\ [InsightsNext]_insights_vars => StatusInv'
  BY StatusStep
<1>3. QED
  BY <1>1, <1>2, InsightsTypeCorrect, PTL DEF InsightsSpec

\* A query is left running only after an interrupt, a lost StopQuery, a lost
\* StartQuery answer or an unknown status.
THEOREM AbandonedOnlyExplained == InsightsSpec => []AbandonedExplained
<1>1. StatusInv => AbandonedExplained
  BY DEF StatusInv
<1>2. QED
  BY <1>1, StatusCorrect, PTL

\* The rows returned are those of a complete query.
THEOREM RowsAreComplete == InsightsSpec => []RowsComplete
<1>1. StatusInv => RowsComplete
  BY DEF StatusInv, RowsComplete, Live
<1>2. QED
  BY <1>1, StatusCorrect, PTL

=============================================================================
