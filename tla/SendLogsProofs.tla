--------------------------- MODULE SendLogsProofs ---------------------------
(***************************************************************************)
(* Proofs about send_cloudwatch_logs, for any chunk, any limits and any    *)
(* answers of the service.                                                 *)
(***************************************************************************)
EXTENDS SendLogs, SequenceLemmas

Event == [source_row: Nat, size: Nat, timestamp_ms: Int64]

\* The types of an event's fields.
LEMMA EventType ==
  ASSUME NEW q \in Seq(Event), NEW i \in 1..Len(q)
  PROVE  /\ q[i] \in Event /\ q[i].source_row \in Nat /\ q[i].size \in Nat
         /\ q[i].timestamp_ms \in Int /\ q[i].timestamp_ms <= MaxInt
<1>1. q[i] \in Event
  OBVIOUS
<1>2. q[i].source_row \in Nat /\ q[i].size \in Nat /\ q[i].timestamp_ms \in MinInt..MaxInt
  BY <1>1 DEF Event, Int64
<1> QED
  BY <1>1, <1>2, LimitAssumption

----------------------------------------------------------------------------
(* The size of a batch.                                                    *)

IsSum(f, q, n) ==
  f = [k \in 0..n |-> IF k = 0 THEN 0 ELSE f[k - 1] + q[k].size + Overhead]

\* The sizes add up, to each number of events.
LEMMA SumExists ==
  ASSUME NEW q \in Seq(Event)
  PROVE  \E f : IsSum(f, q, Len(q))
<1> DEFINE T == {n \in Nat : n <= Len(q) => \E f : IsSum(f, q, n)}
<1>1. 0 \in T
  <2>1. IsSum([k \in 0..0 |-> 0], q, 0)
    BY DEF IsSum
  <2> QED
    BY <2>1
<1>2. ASSUME NEW n \in Nat, n \in T PROVE n + 1 \in T
  <2> SUFFICES ASSUME n + 1 <= Len(q) PROVE \E f : IsSum(f, q, n + 1)
    OBVIOUS
  <2>1. PICK f : IsSum(f, q, n)
    BY <1>2
  <2> DEFINE g == [k \in 0..(n + 1) |->
                    IF k <= n THEN f[k] ELSE f[n] + q[n + 1].size + Overhead]
  <2>2. ASSUME NEW k \in 0..(n + 1)
        PROVE  g[k] = IF k = 0 THEN 0 ELSE g[k - 1] + q[k].size + Overhead
    <3>1. CASE k <= n
      <4>1. k \in 0..n /\ (k # 0 => k - 1 \in 0..n /\ k - 1 <= n /\ k - 1 \in 0..(n + 1))
        BY <3>1
      <4>2. f[k] = IF k = 0 THEN 0 ELSE f[k - 1] + q[k].size + Overhead
        BY <2>1, <4>1 DEF IsSum
      <4> QED
        BY <3>1, <4>1, <4>2
    <3>2. CASE k = n + 1
      BY <3>2
    <3> QED
      BY <3>1, <3>2
  <2>3. g = [k \in 0..(n + 1) |-> g[k]]
    OBVIOUS
  <2> HIDE DEF g
  <2>4. IsSum(g, q, n + 1)
    BY <2>2, <2>3 DEF IsSum
  <2> QED
    BY <2>4
<1> HIDE DEF T
<1>3. Nat \subseteq T
  BY <1>1, <1>2, NatSetInduction
<1>4. Len(q) \in T
  BY <1>3
<1> QED
  BY <1>4 DEF T

\* A size is a number, and that of one event is its own with the overhead.
LEMMA BytesType ==
  ASSUME NEW q \in Seq(Event)
  PROVE  /\ Bytes(q) \in Nat
         /\ Len(q) = 1 => Bytes(q) = q[1].size + Overhead
<1> DEFINE sum == CHOOSE f : IsSum(f, q, Len(q))
<1>1. IsSum(sum, q, Len(q))
  BY SumExists
<1>2. Bytes(q) = sum[Len(q)]
  BY DEF Bytes, IsSum
<1> HIDE DEF sum
<1>3. \A n \in 0..Len(q) :
        sum[n] = IF n = 0 THEN 0 ELSE sum[n - 1] + q[n].size + Overhead
  BY <1>1 DEF IsSum
<1>4. Overhead \in Nat
  BY LimitAssumption
<1> DEFINE T == {n \in Nat : n <= Len(q) => sum[n] \in Nat}
<1>5. 0 \in T
  BY <1>3
<1>6. ASSUME NEW n \in Nat, n \in T PROVE n + 1 \in T
  <2> SUFFICES ASSUME n + 1 <= Len(q) PROVE sum[n + 1] \in Nat
    OBVIOUS
  <2>1. sum[n] \in Nat /\ n + 1 \in 0..Len(q) /\ n + 1 # 0 /\ (n + 1) - 1 = n
    BY <1>6
  <2>2. q[n + 1].size \in Nat
    BY EventType
  <2>3. sum[n + 1] = sum[n] + q[n + 1].size + Overhead
    BY <1>3, <2>1
  <2> QED
    BY <1>4, <2>1, <2>2, <2>3
<1> HIDE DEF T
<1>7. Nat \subseteq T
  BY <1>5, <1>6, NatSetInduction
<1>8. Bytes(q) \in Nat
  BY <1>2, <1>7 DEF T
<1>9. ASSUME Len(q) = 1 PROVE Bytes(q) = q[1].size + Overhead
  <2>1. sum[1] = sum[1 - 1] + q[1].size + Overhead /\ sum[0] = 0
    BY <1>3, <1>9
  <2>2. q[1].size \in Nat /\ 1 - 1 = 0
    BY <1>9, EventType
  <2> QED
    BY <1>2, <1>4, <1>9, <2>1, <2>2
<1> QED
  BY <1>8, <1>9

----------------------------------------------------------------------------
(* The plan.                                                               *)

\* A batch takes an event at least, and ends at the first place it has to.
LEMMA BatchEndType ==
  ASSUME NEW q \in Seq(Event), NEW offset \in 0..(Len(q) - 1)
  PROVE  /\ BatchEnd(q, offset) \in (offset + 1)..Len(q)
         /\ Stops(q, offset, BatchEnd(q, offset))
         /\ \A e \in offset..(BatchEnd(q, offset) - 1) : ~Stops(q, offset, e)
<1> DEFINE T == {end \in offset..Len(q) : Stops(q, offset, end)}
<1>1. Len(q) \in T /\ T \in SUBSET Nat
  BY DEF Stops
<1>2. BatchEnd(q, offset) \in T /\ \A y \in T : BatchEnd(q, offset) <= y
  BY <1>1, MinNat DEF BatchEnd
<1>3. ~Stops(q, offset, offset)
  BY LimitAssumption DEF Stops
<1>4. BatchEnd(q, offset) # offset
  BY <1>2, <1>3
<1>5. ASSUME NEW e \in offset..(BatchEnd(q, offset) - 1) PROVE ~Stops(q, offset, e)
  BY <1>2, <1>5
<1> QED
  BY <1>2, <1>4, <1>5

Batch == [offset: Nat, count: Nat]

IsPlan(f, q, first) ==
  f = [offset \in first..Len(q) |->
         IF offset = Len(q) THEN << >>
         ELSE LET end == BatchEnd(q, offset)
              IN <<[offset |-> offset, count |-> end - offset]>> \o f[end]]

\* There is a plan from each offset on.
LEMMA PlanExists ==
  ASSUME NEW q \in Seq(Event)
  PROVE  \E f : IsPlan(f, q, 0)
<1> DEFINE T == {n \in Nat : n <= Len(q) => \E f : IsPlan(f, q, Len(q) - n)}
<1>1. 0 \in T
  <2>1. \E f : IsPlan(f, q, Len(q) - 0)
    <3>1. IsPlan([k \in (Len(q) - 0)..Len(q) |-> << >>], q, Len(q) - 0)
      BY DEF IsPlan
    <3> QED
      BY <3>1
  <2> QED
    BY <2>1
<1>2. ASSUME NEW n \in Nat, n \in T PROVE n + 1 \in T
  <2> SUFFICES ASSUME n + 1 <= Len(q) PROVE \E f : IsPlan(f, q, Len(q) - (n + 1))
    OBVIOUS
  <2>1. PICK f : IsPlan(f, q, Len(q) - n)
    BY <1>2
  <2>2. PICK m : m = Len(q) - (n + 1)
    OBVIOUS
  <2>10. m \in Nat /\ m < Len(q) /\ Len(q) - n = m + 1
    BY <2>2
  <2> DEFINE head == <<[offset |-> m, count |-> BatchEnd(q, m) - m]>>
             g == [k \in m..Len(q) |-> IF k = m THEN head \o f[BatchEnd(q, m)] ELSE f[k]]
  <2>3. ASSUME NEW k \in m..Len(q)
        PROVE  g[k] = IF k = Len(q) THEN << >>
                      ELSE LET end == BatchEnd(q, k)
                           IN <<[offset |-> k, count |-> end - k]>> \o g[end]
    <3>1. k # Len(q) => BatchEnd(q, k) \in (k + 1)..Len(q)
      BY <2>10, BatchEndType
    <3>2. k # Len(q) => g[BatchEnd(q, k)] = f[BatchEnd(q, k)]
      BY <2>10, <3>1
    <3>3. CASE k = m
      <4>1. g[k] = head \o f[BatchEnd(q, k)] /\ k # Len(q)
        BY <2>10, <3>3
      <4> HIDE DEF g
      <4> QED
        BY <3>2, <3>3, <4>1
    <3>4. CASE k # m
      <4>1. k \in (m + 1)..Len(q) /\ g[k] = f[k]
        BY <2>10, <3>4
      <4>2. f[k] = IF k = Len(q) THEN << >>
                   ELSE LET end == BatchEnd(q, k)
                        IN <<[offset |-> k, count |-> end - k]>> \o f[end]
        BY <2>1, <2>10, <4>1 DEF IsPlan
      <4> QED
        BY <3>2, <4>1, <4>2
    <3> QED
      BY <3>3, <3>4
  <2>4. g = [k \in m..Len(q) |-> g[k]]
    OBVIOUS
  <2> HIDE DEF g
  <2>5. IsPlan(g, q, m)
    BY <2>3, <2>4 DEF IsPlan
  <2> QED
    BY <2>2, <2>5
<1> HIDE DEF T
<1>3. Len(q) \in T
  BY <1>1, <1>2, NatSetInduction
<1>4. Len(q) - Len(q) = 0
  OBVIOUS
<1> QED
  BY <1>3, <1>4 DEF T

\* What is left to send from an offset: nothing, or the batch that begins there
\* and what is left after it.
LEMMA PlanFromType ==
  ASSUME NEW q \in Seq(Event), NEW offset \in 0..Len(q)
  PROVE  /\ PlanFrom(q)[offset] \in Seq(Batch)
         /\ offset = Len(q) => PlanFrom(q)[offset] = << >>
         /\ offset # Len(q) =>
              /\ PlanFrom(q)[offset] # << >>
              /\ Head(PlanFrom(q)[offset]) =
                   [offset |-> offset, count |-> BatchEnd(q, offset) - offset]
              /\ Tail(PlanFrom(q)[offset]) = PlanFrom(q)[BatchEnd(q, offset)]
<1> DEFINE from == CHOOSE f : IsPlan(f, q, 0)
           head(k) == [offset |-> k, count |-> BatchEnd(q, k) - k]
<1>1. IsPlan(from, q, 0)
  BY PlanExists
<1>2. PlanFrom(q) = from
  BY DEF PlanFrom, IsPlan
<1> HIDE DEF from, head
<1>3. \A k \in 0..Len(q) :
        from[k] = IF k = Len(q) THEN << >> ELSE <<head(k)>> \o from[BatchEnd(q, k)]
  BY <1>1 DEF IsPlan, head
<1>10. /\ from[Len(q)] = << >>
       /\ \A k \in 0..Len(q) : k # Len(q) => from[k] = <<head(k)>> \o from[BatchEnd(q, k)]
  <2>1. Len(q) \in 0..Len(q)
    OBVIOUS
  <2> QED
    BY <1>3, <2>1, Zenon
<1>4. \A k \in 0..(Len(q) - 1) : head(k) \in Batch /\ BatchEnd(q, k) \in (k + 1)..Len(q)
  <2> TAKE k \in 0..(Len(q) - 1)
  <2>1. BatchEnd(q, k) \in (k + 1)..Len(q)
    BY BatchEndType
  <2> QED
    BY <2>1 DEF Batch, head
<1> DEFINE T == {n \in Nat : \A k \in 0..Len(q) : k + n >= Len(q) => from[k] \in Seq(Batch)}
<1>5. 0 \in T
  <2>1. << >> \in Seq(Batch)
    OBVIOUS
  <2>2. \A k \in 0..Len(q) : k + 0 >= Len(q) => k = Len(q)
    OBVIOUS
  <2> QED
    BY <1>10, <2>1, <2>2
<1>6. ASSUME NEW n \in Nat, n \in T PROVE n + 1 \in T
  <2> SUFFICES ASSUME NEW k \in 0..Len(q), k + (n + 1) >= Len(q)
               PROVE  from[k] \in Seq(Batch)
    OBVIOUS
  <2>5. CASE k = Len(q)
    <3>1. << >> \in Seq(Batch)
      OBVIOUS
    <3> QED
      BY <1>10, <2>5, <3>1
  <2>6. CASE k # Len(q)
    <3>1. k \in 0..(Len(q) - 1)
      BY <2>6
    <3>2. BatchEnd(q, k) \in 0..Len(q) /\ BatchEnd(q, k) + n >= Len(q) /\ head(k) \in Batch
      BY <1>4, <3>1
    <3>3. from[BatchEnd(q, k)] \in Seq(Batch)
      BY <1>6, <3>2
    <3>4. <<head(k)>> \o from[BatchEnd(q, k)] \in Seq(Batch)
      BY <3>2, <3>3
    <3> QED
      BY <1>10, <2>6, <3>4
  <2> QED
    BY <2>5, <2>6
<1> HIDE DEF T
<1>7. Nat \subseteq T
  BY <1>5, <1>6, NatSetInduction
<1>8. \A k \in 0..Len(q) : from[k] \in Seq(Batch)
  <2> TAKE k \in 0..Len(q)
  <2>1. Len(q) - k \in T /\ k + (Len(q) - k) >= Len(q)
    BY <1>7
  <2> QED
    BY <2>1 DEF T
<1>9. ASSUME offset # Len(q)
      PROVE  /\ from[offset] # << >>
             /\ Head(from[offset]) = head(offset)
             /\ Tail(from[offset]) = from[BatchEnd(q, offset)]
  <2>1. offset \in 0..(Len(q) - 1)
    BY <1>9
  <2>2. head(offset) \in Batch /\ from[BatchEnd(q, offset)] \in Seq(Batch)
    BY <1>4, <1>8, <2>1
  <2>3. from[offset] = <<head(offset)>> \o from[BatchEnd(q, offset)]
    BY <1>9, <1>10
  <2> QED
    BY <2>2, <2>3
<1> QED
  BY <1>2, <1>10, <1>8, <1>9 DEF head

----------------------------------------------------------------------------
(* The order of the events, and what the service keeps of a batch.         *)

\* Events of different rows are put in one order.
LEMMA SortedType ==
  ASSUME NEW S, S \subseteq Event, IsFiniteSet(S),
         \A e, f \in S : e.source_row = f.source_row => e = f
  PROVE  /\ Sorted(S) \in Seq(Event)
         /\ \A i \in 1..Len(Sorted(S)) : Sorted(S)[i] \in S
         /\ \A e \in S : \E i \in 1..Len(Sorted(S)) : Sorted(S)[i] = e
         /\ \A i, j \in 1..Len(Sorted(S)) : i < j => Precedes(Sorted(S)[i], Sorted(S)[j])
<1> DEFINE R == {p \in S \X S : Precedes(p[1], p[2])}
           q == Sorted(S)
<1>1. \A e \in S : e.source_row \in Int /\ e.timestamp_ms \in Int
  BY LimitAssumption DEF Event, Int64
<1>2. \A e, f \in S : <<e, f>> \in R <=> Precedes(e, f)
  OBVIOUS
<1>3. StrictlyOrdered(R, S)
  <2>1. \A e \in S : ~Precedes(e, e)
    BY <1>1 DEF Precedes
  <2>2. \A e, f, g \in S : Precedes(e, f) /\ Precedes(f, g) => Precedes(e, g)
    BY <1>1 DEF Precedes
  <2>3. \A e, f \in S : e # f => Precedes(e, f) \/ Precedes(f, e)
    BY <1>1 DEF Precedes
  <2> HIDE DEF R
  <2> QED
    BY <1>2, <2>1, <2>2, <2>3 DEF StrictlyOrdered
<1> HIDE DEF R
<1>4. \E p \in SetToSeqs(S) : \A i, j \in DOMAIN p : i < j => ~Precedes(p[j], p[i])
  <2>1. PICK p : ListsAlong(p, S, R)
    BY <1>3, ListingExists
  <2>2. p \in SetToSeqs(S) /\ \A i \in DOMAIN p : p[i] \in S
    BY <2>1 DEF ListsAlong, SetToSeqs
  <2> QED
    BY <1>2, <2>1, <2>2 DEF ListsAlong
<1>5. q \in SetToSeqs(S) /\ \A i, j \in DOMAIN q : i < j => ~Precedes(q[j], q[i])
  BY <1>4 DEF Sorted
<1> HIDE DEF q
<1>6. /\ q \in Seq(S) /\ DOMAIN q = 1..Len(q)
      /\ \A i, j \in DOMAIN q : q[i] = q[j] => i = j
      /\ \A e \in S : \E i \in DOMAIN q : q[i] = e
  BY <1>5, ListsAll
<1>7. \A i \in 1..Len(q) : q[i] \in S
  BY <1>6
<1>8. \A i, j \in 1..Len(q) : i < j => Precedes(q[i], q[j])
  <2> SUFFICES ASSUME NEW i \in 1..Len(q), NEW j \in 1..Len(q), i < j
               PROVE  Precedes(q[i], q[j])
    OBVIOUS
  <2>1. q[i] \in S /\ q[j] \in S /\ q[i] # q[j] /\ ~Precedes(q[j], q[i])
    BY <1>5, <1>6, <1>7
  <2> QED
    BY <1>2, <1>3, <2>1 DEF StrictlyOrdered
<1>9. q \in Seq(Event)
  BY <1>6
<1> QED
  BY <1>6, <1>7, <1>8, <1>9 DEF q

\* What is kept of a sequence is in its order, and all of it if nothing is left
\* out.
LEMMA KeptType ==
  ASSUME NEW q \in Seq(Event), NEW places \in SUBSET DOMAIN q
  PROVE  \E p \in Seq(places) :
           /\ Kept(q, places) = [k \in 1..Len(p) |-> q[p[k]]]
           /\ \A i, j \in 1..Len(p) : i < j => p[i] < p[j]
           /\ Len(p) = Len(q) => \A i \in 1..Len(q) : \E k \in 1..Len(p) : p[k] = i
<1>1. PICK p : Selects(p, q, places)
  BY KeptElements
<1>2. ASSUME Len(p) = Len(q) PROVE places = 1..Len(q)
  <2>1. DOMAIN q = 1..Len(q) /\ Len(q) \in Int /\ 1 \in Int /\ Len(q) - 1 + 1 = Len(q)
        /\ (1 > Len(q) => Len(q) = 0)
    OBVIOUS
  <2>2. IsFiniteSet(1..Len(q)) /\ Cardinality(1..Len(q)) = Len(q)
    BY <2>1, FS_Interval
  <2>3. places \in SUBSET (1..Len(q)) /\ Cardinality(places) = Cardinality(1..Len(q))
    BY <1>1, <1>2, <2>1, <2>2 DEF Selects
  <2> QED
    BY <2>2, <2>3, FS_Subset
<1> QED
  BY <1>1, <1>2 DEF Selects

----------------------------------------------------------------------------
(* Batches.                                                                *)

\* A part of the events, event by event.
LEMMA SliceType ==
  ASSUME NEW q \in Seq(Event), NEW first \in 0..Len(q), NEW last \in first..Len(q)
  PROVE  /\ SubSeq(q, first + 1, last) \in Seq(Event)
         /\ Len(SubSeq(q, first + 1, last)) = last - first
         /\ \A i \in 1..(last - first) : SubSeq(q, first + 1, last)[i] = q[first + i]
<1>1. Len(q) \in Nat /\ first \in Nat /\ last \in Nat
  OBVIOUS
<1>2. \A i \in (first + 1)..last : q[i] \in Event
  BY <1>1
<1>3. /\ SubSeq(q, first + 1, last) \in Seq(Event)
      /\ Len(SubSeq(q, first + 1, last)) =
           IF first + 1 <= last THEN last - (first + 1) + 1 ELSE 0
      /\ \A i \in 1..(last - (first + 1) + 1) :
           SubSeq(q, first + 1, last)[i] = q[first + 1 + i - 1]
  BY <1>1, <1>2, SubSeqProperties
<1>4. \A i \in 1..(last - first) : /\ i \in 1..(last - (first + 1) + 1)
                                  /\ first + 1 + i - 1 = first + i
  BY <1>1
<1>5. Len(SubSeq(q, first + 1, last)) = last - first
  BY <1>1, <1>3
<1> QED
  BY <1>3, <1>4, <1>5

InOrder(q) == \A i, j \in 1..Len(q) : i < j => Precedes(q[i], q[j])

\* A batch of the plan is one the service accepts.
LEMMA BatchValid ==
  ASSUME NEW q \in Seq(Event), InOrder(q), \A i \in 1..Len(q) : ~Invalid(q[i]),
         NEW offset \in 0..(Len(q) - 1)
  PROVE  Valid(SubSeq(q, offset + 1, BatchEnd(q, offset)))
<1> DEFINE end == BatchEnd(q, offset)
           s == SubSeq(q, offset + 1, end)
<1>1. end \in (offset + 1)..Len(q) /\ \A e \in offset..(end - 1) : ~Stops(q, offset, e)
  BY BatchEndType
<1> HIDE DEF end
<1>2. /\ s \in Seq(Event) /\ Len(s) = end - offset
      /\ \A i \in 1..(end - offset) : s[i] = q[offset + i]
  <2>1. offset \in 0..Len(q) /\ end \in offset..Len(q)
    BY <1>1
  <2> QED
    BY <2>1, SliceType
<1> HIDE DEF s
<1>3. /\ MaxCount \in Nat \ {0} /\ MaxSpan \in Nat /\ MaxBytes \in Nat /\ Overhead \in Nat
      /\ MaxInt \in Int
  BY LimitAssumption
<1>4. Len(s) \in 1..MaxCount
  <2> SUFFICES ASSUME end - offset > MaxCount PROVE FALSE
    BY <1>1, <1>2, <1>3
  <2>1. offset + MaxCount \in offset..(end - 1) /\ (offset + MaxCount) - offset = MaxCount
    BY <1>1, <1>3
  <2>2. Stops(q, offset, offset + MaxCount)
    BY <2>1 DEF Stops
  <2> QED
    BY <1>1, <2>1, <2>2
<1>5. CASE end = offset + 1
  <2>1. Len(s) = 1 /\ s[1] = q[offset + 1] /\ offset + 1 \in 1..Len(q)
    BY <1>1, <1>2, <1>5
  <2>2. s[1].size \in Nat /\ s[1].timestamp_ms \in Int
    BY <1>2, <2>1, EventType
  <2>3. Bytes(s) <= MaxBytes
    <3>1. Bytes(s) = s[1].size + Overhead
      BY <1>2, <2>1, BytesType
    <3>2. ~Invalid(s[1])
      BY <2>1
    <3> QED
      BY <1>3, <2>2, <3>1, <3>2 DEF Invalid
  <2>4. s[Len(s)].timestamp_ms - s[1].timestamp_ms <= MaxSpan
    BY <1>3, <2>1, <2>2
  <2>5. \A i \in 1..(Len(s) - 1) : s[i].timestamp_ms <= s[i + 1].timestamp_ms
    BY <2>1
  <2> QED
    BY <1>4, <2>3, <2>4, <2>5 DEF Valid, s, end
<1>6. CASE end # offset + 1
  <2>1. end - 1 \in offset..(end - 1) /\ end - 1 > offset /\ (end - 1) + 1 = end
    BY <1>1, <1>6
  <2>2. ~Stops(q, offset, end - 1)
    BY <1>1, <2>1
  <2>3. ~(Bytes(s) > MaxBytes) /\ ~SpanExceeded(q, offset, end - 1)
    <3>1. /\ ~(Bytes(SubSeq(q, offset + 1, (end - 1) + 1)) > MaxBytes)
          /\ ~SpanExceeded(q, offset, end - 1)
      BY <2>1, <2>2, Zenon DEF Stops
    <3> QED
      BY <2>1, <3>1, Zenon DEF s
  <2>4. Bytes(s) <= MaxBytes
    <3>1. Bytes(s) \in Nat
      BY <1>2, BytesType
    <3> QED
      BY <1>3, <2>3, <3>1
  <2>5. /\ s[1] = q[offset + 1] /\ s[Len(s)] = q[end]
        /\ offset + 1 \in 1..Len(q) /\ end \in 1..Len(q)
    <3>1. 1 \in 1..(end - offset) /\ end - offset \in 1..(end - offset)
          /\ offset + (end - offset) = end
      BY <1>1
    <3> QED
      BY <1>1, <1>2, <3>1
  <2>6. /\ q[offset + 1].timestamp_ms \in Int
        /\ q[end].timestamp_ms \in Int /\ q[end].timestamp_ms <= MaxInt
    BY <2>5, EventType
  <2>7. s[Len(s)].timestamp_ms - s[1].timestamp_ms <= MaxSpan
    <3>1. \/ ~(q[offset + 1].timestamp_ms <= MaxInt - MaxSpan)
          \/ ~(q[end].timestamp_ms > q[offset + 1].timestamp_ms + MaxSpan)
      BY <2>1, <2>3 DEF SpanExceeded
    <3> QED
      BY <1>3, <2>5, <2>6, <3>1
  <2>8. \A i \in 1..(Len(s) - 1) : s[i].timestamp_ms <= s[i + 1].timestamp_ms
    <3> SUFFICES ASSUME NEW i \in 1..(Len(s) - 1)
                 PROVE  s[i].timestamp_ms <= s[i + 1].timestamp_ms
      OBVIOUS
    <3>1. /\ s[i] = q[offset + i] /\ s[i + 1] = q[offset + (i + 1)]
          /\ offset + i \in 1..Len(q) /\ offset + (i + 1) \in 1..Len(q)
          /\ offset + i < offset + (i + 1)
      BY <1>1, <1>2
    <3>2. Precedes(q[offset + i], q[offset + (i + 1)])
      BY <3>1 DEF InOrder
    <3>3. /\ q[offset + i].timestamp_ms \in Int
          /\ q[offset + (i + 1)].timestamp_ms \in Int
      BY <3>1, EventType
    <3> QED
      BY <3>1, <3>2, <3>3 DEF Precedes
  <2> QED
    BY <1>4, <2>4, <2>7, <2>8 DEF Valid, s, end
<1> QED
  BY <1>5, <1>6

\* It could not have taken the next event as well.
LEMMA BatchFull ==
  ASSUME NEW q \in Seq(Event), NEW offset \in 0..(Len(q) - 1),
         BatchEnd(q, offset) < Len(q)
  PROVE  ~Valid(Append(SubSeq(q, offset + 1, BatchEnd(q, offset)),
                       q[BatchEnd(q, offset) + 1]))
<1> DEFINE end == BatchEnd(q, offset)
           s == SubSeq(q, offset + 1, end)
           w == SubSeq(q, offset + 1, end + 1)
<1>1. end \in (offset + 1)..Len(q) /\ Stops(q, offset, end) /\ end < Len(q)
  BY BatchEndType
<1> HIDE DEF end
<1>2. offset \in 0..Len(q) /\ end \in offset..Len(q) /\ end + 1 \in offset..Len(q)
  BY <1>1
<1>3. /\ s \in Seq(Event) /\ Len(s) = end - offset
      /\ \A i \in 1..(end - offset) : s[i] = q[offset + i]
  BY <1>2, SliceType
<1>4. /\ w \in Seq(Event) /\ Len(w) = (end + 1) - offset
      /\ \A i \in 1..((end + 1) - offset) : w[i] = q[offset + i]
  BY <1>2, SliceType
<1> HIDE DEF s, w
<1>5. q[end + 1] \in Event
  BY <1>1
<1>6. Append(s, q[end + 1]) = w
  <2>1. /\ Append(s, q[end + 1]) \in Seq(Event)
        /\ Len(Append(s, q[end + 1])) = Len(w)
    BY <1>1, <1>3, <1>4, <1>5
  <2>2. ASSUME NEW i \in 1..Len(w) PROVE Append(s, q[end + 1])[i] = w[i]
    <3>1. CASE i <= Len(s)
      BY <1>1, <1>3, <1>4, <1>5, <3>1
    <3>2. CASE i = Len(s) + 1
      <4>1. offset + i = end + 1
        BY <1>1, <1>3, <3>2
      <4> QED
        BY <1>3, <1>4, <1>5, <3>2, <4>1
    <3> QED
      BY <1>1, <1>3, <1>4, <3>1, <3>2
  <2> QED
    BY <1>4, <2>1, <2>2, SeqEqual
<1>7. MaxCount \in Nat /\ MaxSpan \in Nat /\ MaxBytes \in Nat /\ Bytes(w) \in Nat
  BY <1>4, BytesType, LimitAssumption
<1>8. ASSUME end - offset = MaxCount PROVE ~Valid(w)
  <2>1. ~(Len(w) \in 1..MaxCount)
    BY <1>1, <1>4, <1>7, <1>8
  <2> QED
    BY <2>1 DEF Valid
<1>9. ASSUME Bytes(w) > MaxBytes PROVE ~Valid(w)
  <2>1. ~(Bytes(w) <= MaxBytes)
    BY <1>7, <1>9
  <2> QED
    BY <2>1 DEF Valid
<1>10. ASSUME SpanExceeded(q, offset, end) PROVE ~Valid(w)
  <2>1. /\ w[1] = q[offset + 1] /\ w[Len(w)] = q[end + 1]
        /\ offset + 1 \in 1..Len(q) /\ end + 1 \in 1..Len(q)
    <3>1. /\ 1 \in 1..((end + 1) - offset)
          /\ (end + 1) - offset \in 1..((end + 1) - offset)
          /\ offset + ((end + 1) - offset) = end + 1
      BY <1>1
    <3> QED
      BY <1>1, <1>4, <3>1
  <2>2. q[offset + 1].timestamp_ms \in Int /\ q[end + 1].timestamp_ms \in Int
    BY <2>1, EventType
  <2>3. q[end + 1].timestamp_ms > q[offset + 1].timestamp_ms + MaxSpan
    BY <1>10 DEF SpanExceeded
  <2>4. ~(q[end + 1].timestamp_ms - q[offset + 1].timestamp_ms <= MaxSpan)
    BY <1>7, <2>2, <2>3
  <2> QED
    BY <2>1, <2>4 DEF Valid
<1>11. ~Valid(w)
  BY <1>1, <1>8, <1>9, <1>10 DEF Stops, w
<1> QED
  BY <1>6, <1>11 DEF s, end

----------------------------------------------------------------------------
(* The invariant.                                                          *)

\* How many events were sent.
Sent == IF batches = << >> THEN Len(events) ELSE Head(batches).offset

\* The plan is made and followed.
Live == pc = "send" \/ outcome = "ok"

SendTypeInv ==
  /\ rows \in Seq(Row \cup {NullRow})
  /\ pc \in {"plan", "send", "done"}
  /\ pc # "done" => outcome = "none"
  /\ events \in Seq(Event)
  /\ stored \in Seq(DOMAIN rows)
  /\ requests \in Seq(Seq(Event))
  /\ DOMAIN result = DOMAIN rows
  /\ pc = "plan" => /\ events = << >> /\ batches = << >>
                    /\ stored = << >> /\ requests = << >>
                    /\ \A r \in DOMAIN rows : result[r] = "unset"

\* The events are those of the rows, in order.
EventsInv ==
  /\ InOrder(events)
  /\ \A i \in 1..Len(events) : events[i] \in Events /\ ~Invalid(events[i])
  /\ Live => \A e \in Events : \E i \in 1..Len(events) : events[i] = e

\* What is left of the plan is the plan from the events that were sent on.
PlanInv ==
  /\ Sent \in 0..Len(events)
  /\ batches = PlanFrom(events)[Sent]
  /\ outcome = "ok" => batches = << >>

\* A request is a batch of the plan, and the next one begins where it ended.
RequestInv ==
  \A i \in DOMAIN requests :
    \E o \in 0..(Len(events) - 1) :
      /\ requests[i] = SubSeq(events, o + 1, BatchEnd(events, o))
      /\ i = Len(requests) => BatchEnd(events, o) = Sent
      /\ i < Len(requests) =>
           /\ BatchEnd(events, o) < Len(events)
           /\ requests[i + 1][1] = events[BatchEnd(events, o) + 1]

\* What is stored was sent.
StoredInv ==
  /\ StoredInOrder
  /\ \A k \in DOMAIN stored : \E i \in 1..Sent : stored[k] = events[i].source_row

\* While batches are sent, every event sent is marked and stored.
ResultInv ==
  /\ \A r \in DOMAIN rows : result[r] = "ok" => r \in ToSet(stored)
  /\ Live => /\ \A i \in 1..Sent : result[events[i].source_row] = "ok"
             /\ \A r \in DOMAIN rows : rows[r] = NullRow => result[r] = "null"
  /\ \A r \in DOMAIN rows :
       r \in ToSet(stored) /\ result[r] # "ok" =>
         /\ pc = "done" /\ requests # << >>
         /\ r \in ToSet(SourceRows(requests[Len(requests)]))

SendInv ==
  SendTypeInv /\ EventsInv /\ PlanInv /\ RequestInv /\ StoredInv /\ ResultInv

\* An event has the row it came from and its time.
LEMMA EventsType ==
  ASSUME SendTypeInv
  PROVE  /\ Events \subseteq Event /\ IsFiniteSet(Events)
         /\ \A e \in Events : /\ e.source_row \in DOMAIN rows
                              /\ rows[e.source_row] # NullRow
                              /\ e.timestamp_ms = TimestampMs(rows[e.source_row])
         /\ \A e, f \in Events : e.source_row = f.source_row => e = f
         /\ \A r \in DOMAIN rows : rows[r] # NullRow => \E e \in Events : e.source_row = r
<1> DEFINE D == {r \in DOMAIN rows : rows[r] # NullRow}
           event(r) == [source_row |-> r, size |-> rows[r].size,
                        timestamp_ms |-> TimestampMs(rows[r])]
<1>1. DOMAIN rows = 1..Len(rows) /\ Len(rows) \in Nat
  BY DEF SendTypeInv
<1>2. \A r \in D : rows[r] \in Row /\ r \in Nat
  BY <1>1 DEF SendTypeInv
<1>3. Events = {event(r) : r \in D}
  BY DEF Events
<1>4. \A r \in D : event(r) \in Event
  <2> SUFFICES ASSUME NEW r \in D PROVE event(r) \in Event
    OBVIOUS
  <2>1. rows[r] \in [size: Nat, timestamp: Int64 \cup {NoTime},
                     observed_timestamp: Int64 \cup {NoTime}]
    BY <1>2, RowAssumption
  <2>2. rows[r].size \in Nat /\ TimestampMs(rows[r]) \in Int64
    BY <2>1, RowAssumption DEF TimestampMs
  <2> QED
    BY <1>2, <2>2 DEF Event
<1>5. \A r \in D : /\ event(r).source_row = r
                   /\ event(r).timestamp_ms = TimestampMs(rows[r])
  OBVIOUS
<1>6. IsFiniteSet(Events)
  <2>1. IsFiniteSet(D)
    <3>1. IsFiniteSet(1..Len(rows)) /\ D \in SUBSET (1..Len(rows))
      BY <1>1, FS_Interval
    <3> QED
      BY <3>1, FS_Subset
  <2> DEFINE f == [r \in D |-> event(r)]
  <2> HIDE DEF event
  <2>2. f \in Surjection(D, Events)
    BY <1>3 DEF Surjection
  <2> QED
    BY <2>1, <2>2, FS_Surjection
<1> HIDE DEF event
<1>7. \A e \in Events : \E r \in D : e = event(r)
  BY <1>3
<1> QED
  BY <1>3, <1>4, <1>5, <1>6, <1>7

\* The number of events sent is where what is left begins.
LEMMA SentAt ==
  ASSUME NEW q \in Seq(Event), NEW offset \in 0..Len(q)
  PROVE  offset = IF PlanFrom(q)[offset] = << >> THEN Len(q)
                  ELSE Head(PlanFrom(q)[offset]).offset
<1>1. CASE offset = Len(q)
  BY <1>1, PlanFromType
<1>2. CASE offset # Len(q)
  <2>1. /\ PlanFrom(q)[offset] # << >>
        /\ Head(PlanFrom(q)[offset]) =
             [offset |-> offset, count |-> BatchEnd(q, offset) - offset]
    BY <1>2, PlanFromType
  <2> QED
    BY <2>1
<1> QED
  BY <1>1, <1>2

\* The actions that send nothing, and steps that change nothing.
Rest == Refuse \/ SeeInterrupt \/ Finish \/ Interrupt \/ UNCHANGED vars

\* What those actions leave alone.
LEMMA RestQuiet ==
  ASSUME SendInv, Rest
  PROVE  /\ UNCHANGED <<rows, events, batches, result, stored, requests>>
         /\ Sent' = Sent
         /\ pc' \in {"plan", "send", "done"} /\ (pc' # "done" => pc' = pc)
         /\ pc = "done" => pc' = "done"
         /\ pc' # "done" => outcome' = "none"
         /\ outcome' = "ok" => Live /\ batches = << >>
         /\ Live' => Live
<1> USE DEF SendInv, SendTypeInv
<1>1. UNCHANGED <<rows, events, batches, result, stored, requests>>
  BY DEF Rest, Refuse, SeeInterrupt, Finish, Interrupt, vars
<1>2. Sent' = Sent
  BY <1>1 DEF Sent
<1>3. /\ pc' \in {"plan", "send", "done"} /\ (pc' # "done" => pc' = pc)
      /\ pc = "done" => pc' = "done"
  BY DEF Rest, Refuse, SeeInterrupt, Finish, Interrupt, End, vars
<1>4. /\ pc' # "done" => outcome' = "none"
      /\ outcome' = "ok" => Live /\ batches = << >>
  BY DEF Rest, Refuse, SeeInterrupt, Finish, Interrupt, End, vars, PlanInv, Live
<1>5. Live' => Live
  BY <1>3, <1>4 DEF Live
<1> QED
  BY <1>1, <1>2, <1>3, <1>4, <1>5

\* They keep the invariant.
LEMMA RestStep ==
  ASSUME SendInv, Rest
  PROVE  SendInv'
<1>1. /\ UNCHANGED <<rows, events, batches, result, stored, requests>>
      /\ Sent' = Sent
      /\ pc' \in {"plan", "send", "done"} /\ (pc' # "done" => pc' = pc)
      /\ pc = "done" => pc' = "done"
      /\ pc' # "done" => outcome' = "none"
      /\ outcome' = "ok" => Live /\ batches = << >>
      /\ Live' => Live
  BY RestQuiet
<1>2. SendTypeInv'
  BY <1>1 DEF SendInv, SendTypeInv
<1>3. EventsInv'
  <2>1. Events' = Events
    BY <1>1 DEF Events
  <2> QED
    BY <1>1, <2>1 DEF SendInv, EventsInv, InOrder, Precedes
<1>4. PlanInv'
  <2>1. (batches = PlanFrom(events)[Sent])'
    <3>1. PICK q : q = events
      OBVIOUS
    <3>2. batches = PlanFrom(q)[Sent] /\ events' = q
      BY <1>1, <3>1 DEF SendInv, PlanInv
    <3> QED
      BY <1>1, <3>2
  <2> QED
    BY <1>1, <2>1 DEF SendInv, PlanInv
<1>5. RequestInv'
  <2>1. PICK q : q = events
    OBVIOUS
  <2> QED
    BY <1>1, <2>1 DEF SendInv, RequestInv
<1>6. StoredInv'
  BY <1>1 DEF SendInv, StoredInv, StoredInOrder
<1>7. ResultInv'
  <2>1. ToSet(stored)' = ToSet(stored)
    BY <1>1
  <2>2. SourceRows(requests[Len(requests)])' = SourceRows(requests[Len(requests)])
    BY <1>1
  <2> QED
    BY <1>1, <2>1, <2>2 DEF SendInv, ResultInv
<1> QED
  BY <1>2, <1>3, <1>4, <1>5, <1>6, <1>7 DEF SendInv

\* The plan is made.
LEMMA PlanStep ==
  ASSUME SendInv, PlanBatches
  PROVE  SendInv'
<1>1. /\ pc = "plan" /\ pc' = "send" /\ outcome = "none" /\ outcome' = "none"
      /\ requests = << >> /\ stored = << >>
      /\ DOMAIN result = DOMAIN rows /\ \A r \in DOMAIN rows : result[r] = "unset"
      /\ \A e \in Events : ~Invalid(e)
      /\ UNCHANGED <<rows, requests, stored>>
  BY DEF SendInv, SendTypeInv, PlanBatches
<1>2. PICK S : S = Events
  OBVIOUS
<1>3. PICK q : q = Sorted(S)
  OBVIOUS
<1>4. /\ events' = q /\ batches' = PlanFrom(q)[0]
      /\ result' = [r \in DOMAIN rows |-> IF rows[r] = NullRow THEN "null" ELSE result[r]]
  BY <1>2, <1>3 DEF PlanBatches, Plan
<1>5. Events' = S
  BY <1>1, <1>2 DEF Events
<1>6. /\ q \in Seq(Event) /\ Len(q) \in Nat
      /\ \A i \in 1..Len(q) : q[i] \in S
      /\ \A e \in S : \E i \in 1..Len(q) : q[i] = e
      /\ InOrder(q)
  BY <1>2, <1>3, EventsType, SortedType DEF SendInv, InOrder
<1>7. 0 \in 0..Len(q)
  BY <1>6
<1>8. Sent' = 0
  <2>1. 0 = IF PlanFrom(q)[0] = << >> THEN Len(q) ELSE Head(PlanFrom(q)[0]).offset
    BY <1>6, <1>7, SentAt
  <2> QED
    BY <1>4, <2>1 DEF Sent
<1>9. \A r \in DOMAIN rows : result'[r] # "ok" /\ (rows[r] = NullRow => result'[r] = "null")
  BY <1>1, <1>4
<1>10. SendTypeInv'
  BY <1>1, <1>4, <1>6 DEF SendInv, SendTypeInv
<1>11. EventsInv'
  BY <1>1, <1>2, <1>4, <1>5, <1>6 DEF EventsInv, InOrder
<1>12. PlanInv'
  BY <1>1, <1>4, <1>7, <1>8 DEF PlanInv
<1>13. RequestInv' /\ StoredInv'
  BY <1>1 DEF RequestInv, StoredInv, StoredInOrder
<1>14. ResultInv'
  <2>1. ToSet(stored') = {}
    BY <1>1 DEF ToSet
  <2> QED
    BY <1>1, <1>8, <1>9, <2>1 DEF ResultInv
<1> QED
  BY <1>10, <1>11, <1>12, <1>13, <1>14 DEF SendInv

\* A batch is sent: what becomes of it.
Sends(end, p, answered) ==
  /\ pc = "send" /\ outcome = "none" /\ UNCHANGED <<rows, events>>
  /\ Sent \in 0..(Len(events) - 1) /\ end \in (Sent + 1)..Len(events)
  /\ end = BatchEnd(events, Sent)
  /\ batches' = PlanFrom(events)[end] /\ Sent' = end
  /\ p \in Seq(1..(end - Sent)) /\ \A i, j \in 1..Len(p) : i < j => p[i] < p[j]
  /\ stored' = stored \o [k \in 1..Len(p) |-> events[Sent + p[k]].source_row]
  /\ requests' = Append(requests, SubSeq(events, Sent + 1, end))
  /\ DOMAIN result' = DOMAIN rows
  /\ \A r \in DOMAIN rows :
       result'[r] = IF answered /\ \E i \in (Sent + 1)..end : events[i].source_row = r
                    THEN "ok" ELSE result[r]
  /\ answered \in BOOLEAN
  /\ answered => /\ pc' = "send" /\ outcome' = "none"
                 /\ \A i \in 1..(end - Sent) : \E k \in 1..Len(p) : p[k] = i
  /\ ~answered => pc' = "done" /\ outcome' = "failed"

\* What a batch that is sent starts from, and what it may be.
LEMMA SendsFacts ==
  ASSUME SendInv, NEW end, NEW p, NEW answered, Sends(end, p, answered)
  PROVE  /\ pc = "send" /\ outcome = "none" /\ rows' = rows /\ events' = events
         /\ events \in Seq(Event) /\ Len(events) \in Nat
         /\ requests \in Seq(Seq(Event)) /\ Len(requests) \in Nat
         /\ stored \in Seq(DOMAIN rows) /\ Len(stored) \in Nat
         /\ Sent \in 0..(Len(events) - 1) /\ Sent \in Nat /\ Sent < Len(events)
         /\ end \in (Sent + 1)..Len(events) /\ Sent' = end
         /\ end = BatchEnd(events, Sent)
         /\ requests' = Append(requests, SubSeq(events, Sent + 1, end))
         /\ p \in Seq(1..(end - Sent)) /\ Len(p) \in Nat
         /\ \A i, j \in 1..Len(p) : i < j => p[i] < p[j]
<1>1. /\ events \in Seq(Event) /\ requests \in Seq(Seq(Event))
      /\ stored \in Seq(DOMAIN rows)
  BY Zenon DEF SendInv, SendTypeInv
<1>2. /\ pc = "send" /\ outcome = "none" /\ UNCHANGED <<rows, events>>
      /\ Sent \in 0..(Len(events) - 1) /\ end \in (Sent + 1)..Len(events) /\ Sent' = end
      /\ end = BatchEnd(events, Sent)
      /\ requests' = Append(requests, SubSeq(events, Sent + 1, end))
      /\ p \in Seq(1..(end - Sent)) /\ \A i, j \in 1..Len(p) : i < j => p[i] < p[j]
  BY Zenon DEF Sends
<1>3. Len(p) \in Nat
  <2>1. PICK E : p \in Seq(E)
    BY <1>2, Zenon
  <2> QED
    BY <2>1
<1>4. Len(events) \in Nat /\ Len(requests) \in Nat /\ Len(stored) \in Nat
  <2>1. PICK E, F, G : events \in Seq(E) /\ requests \in Seq(F) /\ stored \in Seq(G)
    BY <1>1, Zenon
  <2> QED
    BY <2>1
<1>5. Sent \in Nat /\ Sent < Len(events)
  <2>1. PICK o, m : o = Sent /\ m = Len(events)
    OBVIOUS
  <2>2. o \in 0..(m - 1) /\ m \in Nat
    BY <1>2, <1>4, <2>1, Zenon
  <2>3. o \in Nat /\ o < m
    BY <2>2
  <2> QED
    BY <2>1, <2>3
<1> QED
  BY <1>1, <1>2, <1>3, <1>4, <1>5

\* The rows of a batch are those of its events.
LEMMA SliceRows ==
  ASSUME NEW q \in Seq(Event), NEW first \in 0..Len(q), NEW last \in first..Len(q), NEW r
  PROVE  r \in ToSet(SourceRows(SubSeq(q, first + 1, last)))
           <=> \E i \in (first + 1)..last : q[i].source_row = r
<1> DEFINE s == SubSeq(q, first + 1, last)
<1>1. /\ s \in Seq(Event) /\ Len(s) = last - first
      /\ \A i \in 1..(last - first) : s[i] = q[first + i]
  BY SliceType
<1> HIDE DEF s
<1>2. DOMAIN s = 1..(last - first)
  BY <1>1
<1>3. r \in ToSet(SourceRows(s)) <=> \E i \in 1..(last - first) : s[i].source_row = r
  BY <1>2 DEF ToSet, SourceRows
<1>4. ASSUME NEW i \in 1..(last - first), s[i].source_row = r
      PROVE  \E j \in (first + 1)..last : q[j].source_row = r
  <2>1. first + i \in (first + 1)..last /\ q[first + i].source_row = r
    BY <1>1, <1>4
  <2> QED
    BY <2>1
<1>5. ASSUME NEW j \in (first + 1)..last, q[j].source_row = r
      PROVE  \E i \in 1..(last - first) : s[i].source_row = r
  <2>1. j - first \in 1..(last - first) /\ first + (j - first) = j
    OBVIOUS
  <2>2. s[j - first].source_row = r
    BY <1>1, <1>5, <2>1
  <2> QED
    BY <2>1, <2>2
<1> QED
  BY <1>3, <1>4, <1>5 DEF s

\* SendBatch does so.
LEMMA SendEffect ==
  ASSUME SendInv, SendBatch
  PROVE  \E end, p, answered : Sends(end, p, answered)
<1>1. /\ pc = "send" /\ batches # << >> /\ UNCHANGED <<rows, events>>
      /\ events \in Seq(Event) /\ Len(events) \in Nat /\ outcome = "none"
      /\ DOMAIN result = DOMAIN rows
      /\ Sent \in 0..Len(events) /\ batches = PlanFrom(events)[Sent]
  BY DEF SendBatch, SendInv, SendTypeInv, PlanInv
<1>2. PICK q, o : q = events /\ o = Sent
  OBVIOUS
<1>3. o \in 0..(Len(q) - 1) /\ o # Len(q)
  <2>1. o # Len(q)
    BY <1>1, <1>2, PlanFromType
  <2> QED
    BY <1>1, <1>2, <2>1
<1>4. PICK end : end = BatchEnd(q, o)
  OBVIOUS
<1>5. /\ Head(batches) = [offset |-> o, count |-> end - o]
      /\ Tail(batches) = PlanFrom(q)[end]
  BY <1>1, <1>2, <1>3, <1>4, PlanFromType
<1>6. end \in (o + 1)..Len(q) /\ end \in 0..Len(q) /\ end \in o..Len(q) /\ o \in 0..Len(q)
  <2>1. end \in (o + 1)..Len(q)
    BY <1>1, <1>2, <1>3, <1>4, BatchEndType
  <2> QED
    BY <1>1, <1>2, <1>3, <2>1
<1> DEFINE s == SubSeq(q, o + 1, end)
<1>7. Slice(Head(batches)) = s /\ Head(batches).count = end - o
  <2>1. o + (end - o) = end
    BY <1>3, <1>6
  <2>2. Head(batches).offset = o /\ Head(batches).count = end - o
    BY <1>5
  <2> QED
    BY <1>2, <2>1, <2>2, Zenon DEF Slice
<1>8. /\ s \in Seq(Event) /\ Len(s) = end - o
      /\ \A i \in 1..(end - o) : s[i] = q[o + i]
  BY <1>1, <1>2, <1>6, SliceType
<1>9. \A r : r \in ToSet(SourceRows(s)) <=> \E i \in (o + 1)..end : q[i].source_row = r
  BY <1>1, <1>2, <1>6, SliceRows
<1> HIDE DEF s
<1>10. PICK places \in SUBSET DOMAIN s, answer_lost \in BOOLEAN :
         LET accepted == Kept(s, places)
             answered == ~answer_lost /\ PutAnswer(Head(batches), accepted)
         IN /\ stored' = stored \o SourceRows(accepted)
            /\ requests' = Append(requests, s)
            /\ result' = [r \in DOMAIN rows |->
                 IF answered /\ r \in ToSet(SourceRows(s)) THEN "ok" ELSE result[r]]
            /\ batches' = Tail(batches)
            /\ IF answered THEN UNCHANGED <<pc, outcome>> ELSE End("failed")
  BY <1>7 DEF SendBatch
<1>11. PICK p \in Seq(places) :
         /\ Kept(s, places) = [k \in 1..Len(p) |-> s[p[k]]]
         /\ \A i, j \in 1..Len(p) : i < j => p[i] < p[j]
         /\ Len(p) = Len(s) => \A i \in 1..Len(s) : \E k \in 1..Len(p) : p[k] = i
  BY <1>8, KeptType
<1>12. /\ DOMAIN s = 1..(end - o) /\ p \in Seq(1..(end - o))
       /\ \A k \in 1..Len(p) : p[k] \in 1..(end - o)
       /\ Len(p) \in Nat
  <2>1. DOMAIN s = 1..(end - o)
    BY <1>8
  <2>2. PICK D : D = 1..(end - o)
    OBVIOUS
  <2>3. \A k \in 1..Len(p) : p[k] \in D
    BY <2>1, <2>2
  <2>4. p \in Seq(D) /\ Len(p) \in Nat
    BY <2>3
  <2> QED
    BY <2>1, <2>2, <2>3, <2>4
<1> DEFINE accepted == Kept(s, places)
           answered == ~answer_lost /\ PutAnswer(Head(batches), accepted)
<1>13. /\ Len(accepted) = Len(p)
       /\ SourceRows(accepted) = [k \in 1..Len(p) |-> q[o + p[k]].source_row]
  <2>1. accepted = [k \in 1..Len(p) |-> s[p[k]]]
    BY <1>11
  <2> HIDE DEF accepted
  <2>2. DOMAIN accepted = 1..Len(p) /\ Len(accepted) = Len(p)
    BY <1>12, <2>1
  <2>3. \A k \in 1..Len(p) : accepted[k].source_row = q[o + p[k]].source_row
    BY <1>8, <1>12, <2>1
  <2> QED
    BY <2>2, <2>3 DEF SourceRows
<1>14. answered => Len(p) = Len(s)
  BY <1>7, <1>8, <1>13 DEF PutAnswer
<1>15. /\ stored' = stored \o SourceRows(accepted)
       /\ requests' = Append(requests, s)
       /\ result' = [r \in DOMAIN rows |->
            IF answered /\ r \in ToSet(SourceRows(s)) THEN "ok" ELSE result[r]]
       /\ batches' = Tail(batches)
       /\ answered => UNCHANGED <<pc, outcome>>
       /\ ~answered => End("failed")
       /\ answered \in BOOLEAN
  BY <1>10
<1> HIDE DEF accepted, answered
<1>16. Sent' = end
  <2>1. end = IF PlanFrom(q)[end] = << >> THEN Len(q) ELSE Head(PlanFrom(q)[end]).offset
    BY <1>1, <1>2, <1>6, SentAt
  <2> QED
    BY <1>1, <1>2, <1>5, <1>15, <2>1 DEF Sent
<1>17. /\ pc = "send" /\ outcome = "none" /\ UNCHANGED <<rows, events>>
       /\ Sent \in 0..(Len(events) - 1) /\ end \in (Sent + 1)..Len(events)
       /\ end = BatchEnd(events, Sent)
       /\ batches' = PlanFrom(events)[end] /\ Sent' = end
  BY <1>1, <1>2, <1>3, <1>4, <1>5, <1>6, <1>15, <1>16
<1>18. /\ p \in Seq(1..(end - Sent)) /\ \A i, j \in 1..Len(p) : i < j => p[i] < p[j]
       /\ stored' = stored \o [k \in 1..Len(p) |-> events[Sent + p[k]].source_row]
       /\ requests' = Append(requests, SubSeq(events, Sent + 1, end))
  BY <1>2, <1>11, <1>12, <1>13, <1>15 DEF s
<1>19. /\ DOMAIN result' = DOMAIN rows
       /\ \A r \in DOMAIN rows :
            result'[r] = IF answered /\ \E i \in (Sent + 1)..end : events[i].source_row = r
                         THEN "ok" ELSE result[r]
  BY <1>2, <1>9, <1>15
<1>20. /\ answered \in BOOLEAN
       /\ answered => /\ pc' = "send" /\ outcome' = "none"
                      /\ \A i \in 1..(end - Sent) : \E k \in 1..Len(p) : p[k] = i
       /\ ~answered => pc' = "done" /\ outcome' = "failed"
  BY <1>1, <1>2, <1>8, <1>11, <1>14, <1>15 DEF End
<1>21. Sends(end, p, answered)
  BY <1>17, <1>18, <1>19, <1>20 DEF Sends
<1> QED
  BY <1>21

\* An event sent earlier comes before one sent later in the service.
LEMMA RowsInOrder ==
  ASSUME SendInv, NEW i \in 1..Len(events), NEW j \in 1..Len(events), i < j
  PROVE  LET r == events[i].source_row
             s == events[j].source_row
         IN \/ TimestampMs(rows[r]) < TimestampMs(rows[s])
            \/ TimestampMs(rows[r]) = TimestampMs(rows[s]) /\ r < s
<1>1. /\ Precedes(events[i], events[j]) /\ events[i] \in Events /\ events[j] \in Events
  BY DEF SendInv, EventsInv, InOrder
<1>2. /\ events[i].timestamp_ms = TimestampMs(rows[events[i].source_row])
      /\ events[j].timestamp_ms = TimestampMs(rows[events[j].source_row])
  BY <1>1, EventsType DEF SendInv
<1> QED
  BY <1>1, <1>2 DEF Precedes

\* What is stored of a batch follows what was stored.
LEMMA SendStored ==
  ASSUME SendInv, NEW end, NEW p, NEW answered, Sends(end, p, answered)
  PROVE  /\ StoredInv' /\ stored' \in Seq(DOMAIN rows)
         /\ \A r : r \in ToSet(stored') <=>
                     \/ r \in ToSet(stored)
                     \/ \E k \in 1..Len(p) : r = events[Sent + p[k]].source_row
<1>1. /\ stored \in Seq(DOMAIN rows) /\ Len(stored) \in Nat /\ UNCHANGED <<rows, events>>
      /\ events \in Seq(Event) /\ Len(events) \in Nat /\ Sent \in Nat /\ Sent < Len(events)
      /\ end \in (Sent + 1)..Len(events) /\ Sent' = end
      /\ p \in Seq(1..(end - Sent)) /\ Len(p) \in Nat
      /\ \A i, j \in 1..Len(p) : i < j => p[i] < p[j]
  BY SendsFacts
<1>2. PICK D, q, o : D = DOMAIN rows /\ q = events /\ o = Sent
  OBVIOUS
<1> DEFINE a == [k \in 1..Len(p) |-> q[o + p[k]].source_row]
           n == Len(stored)
<1>3. \A k \in 1..Len(p) : /\ p[k] \in 1..(end - o) /\ p[k] \in Int
                          /\ o + p[k] \in (o + 1)..end /\ o + p[k] \in 1..Len(q)
  <2>1. \A k \in 1..Len(p) : p[k] \in 1..(end - o)
    BY <1>1, <1>2
  <2> QED
    BY <1>1, <1>2, <2>1
<1>4. a \in Seq(D)
  <2>1. \A k \in 1..Len(p) : q[o + p[k]].source_row \in D
    <3> TAKE k \in 1..Len(p)
    <3>1. q[o + p[k]] \in Events
      BY <1>2, <1>3 DEF SendInv, EventsInv
    <3> QED
      BY <1>2, <3>1, EventsType DEF SendInv
  <2> QED
    BY <1>1, <2>1
<1>5. Len(a) = Len(p) /\ \A k \in 1..Len(p) : a[k] = q[o + p[k]].source_row
  BY <1>1
<1>6. stored' = stored \o a
  BY <1>2 DEF Sends
<1> HIDE DEF a
<1>7. /\ stored' \in Seq(D) /\ Len(stored') = n + Len(p)
      /\ DOMAIN stored' = 1..(n + Len(p))
      /\ \A i \in 1..n : stored'[i] = stored[i]
      /\ \A k \in 1..Len(p) : stored'[n + k] = a[k]
  <2>1. stored \in Seq(D)
    BY <1>1, <1>2, Zenon
  <2>2. PICK u : u = stored \o a
    OBVIOUS
  <2>3. /\ u \in Seq(D) /\ Len(u) = n + Len(p) /\ Len(u) \in Nat
        /\ \A i \in 1..n : u[i] = stored[i]
        /\ \A k \in 1..Len(p) : u[n + k] = a[k]
    <3>1. n \in Nat /\ Len(p) \in Nat
      BY <1>1
    <3>2. \A k \in 1..Len(p) : n + k \in 1..(n + Len(p)) /\ n + k > n /\ (n + k) - n = k
      BY <3>1
    <3>3. \A i \in 1..n : i \in 1..(n + Len(p)) /\ i <= n
      BY <3>1
    <3>4. /\ u \in Seq(D) /\ Len(u) = n + Len(p)
          /\ \A i \in 1..(n + Len(p)) : u[i] = IF i <= n THEN stored[i] ELSE a[i - n]
      <4>1. /\ u \in Seq(D) /\ Len(u) = Len(stored) + Len(a)
            /\ \A i \in 1..(Len(stored) + Len(a)) :
                 u[i] = IF i <= Len(stored) THEN stored[i] ELSE a[i - Len(stored)]
        BY <1>4, <2>1, <2>2, ConcatProperties, Zenon
      <4> QED
        BY <1>5, <4>1, Zenon
    <3>5. \A i \in 1..n : u[i] = stored[i]
      BY <3>3, <3>4
    <3>6. ASSUME NEW k \in 1..Len(p) PROVE u[n + k] = a[k]
      <4>1. u[n + k] = a[(n + k) - n]
        BY <3>1, <3>2, <3>4
      <4> QED
        BY <3>2, <4>1, Zenon
    <3> QED
      BY <3>1, <3>4, <3>5, <3>6
  <2>4. stored' = u /\ DOMAIN u = 1..(n + Len(p))
    BY <1>6, <2>2, <2>3
  <2> QED
    BY <2>3, <2>4, Zenon
<1>8. \A i \in 1..(n + Len(p)) :
        \/ i \in 1..n /\ stored'[i] = stored[i]
        \/ \E k \in 1..Len(p) : i = n + k /\ stored'[i] = q[o + p[k]].source_row
  <2> SUFFICES ASSUME NEW i \in 1..(n + Len(p)), i \notin 1..n
               PROVE  \E k \in 1..Len(p) : i = n + k /\ stored'[i] = q[o + p[k]].source_row
    BY <1>7
  <2>1. PICK k \in 1..Len(p) : i = n + k
    <3>1. i - n \in 1..Len(p) /\ i = n + (i - n)
      BY <1>1
    <3> QED
      BY <3>1
  <2>2. stored'[i] = q[o + p[k]].source_row
    BY <1>5, <1>7, <2>1
  <2> QED
    BY <2>1, <2>2
<1>9. \A i \in 1..n : \E x \in 1..o : stored[i] = q[x].source_row
  <2>1. DOMAIN stored = 1..n
    BY <1>1
  <2> QED
    BY <1>2, <2>1, Zenon DEF SendInv, StoredInv
<1>10. \A k \in DOMAIN stored' : \E x \in 1..end : stored'[k] = q[x].source_row
  <2> SUFFICES ASSUME NEW k \in 1..(n + Len(p))
               PROVE  \E x \in 1..end : stored'[k] = q[x].source_row
    BY <1>7
  <2>1. CASE k \in 1..n
    <3>1. PICK x \in 1..o : stored[k] = q[x].source_row
      BY <1>9, <2>1
    <3>2. x \in 1..end /\ stored'[k] = q[x].source_row
      BY <1>1, <1>2, <1>7, <2>1, <3>1
    <3> QED
      BY <3>2
  <2>2. CASE \E l \in 1..Len(p) : k = n + l /\ stored'[k] = q[o + p[l]].source_row
    <3>1. PICK l \in 1..Len(p) : stored'[k] = q[o + p[l]].source_row
      BY <2>2
    <3>2. o + p[l] \in 1..end
      BY <1>1, <1>2, <1>3
    <3> QED
      BY <3>1, <3>2
  <2> QED
    BY <1>8, <2>1, <2>2
<1>11. ASSUME NEW i \in DOMAIN stored', NEW j \in DOMAIN stored', i < j
       PROVE  \/ TimestampMs(rows[stored'[i]]) < TimestampMs(rows[stored'[j]])
              \/ /\ TimestampMs(rows[stored'[i]]) = TimestampMs(rows[stored'[j]])
                 /\ stored'[i] < stored'[j]
  <2>1. i \in 1..(n + Len(p)) /\ j \in 1..(n + Len(p)) /\ n \in Nat
    BY <1>1, <1>7, <1>11
  <2>2. CASE j \in 1..n
    <3>1. i \in 1..n /\ i \in DOMAIN stored /\ j \in DOMAIN stored
      BY <1>1, <1>11, <2>1, <2>2
    <3>2. stored'[i] = stored[i] /\ stored'[j] = stored[j]
      BY <1>7, <2>2, <3>1
    <3>3. StoredInOrder
      BY DEF SendInv, StoredInv
    <3> QED
      BY <1>11, <3>1, <3>2, <3>3, Zenon DEF StoredInOrder
  <2>3. CASE \E l \in 1..Len(p) : j = n + l /\ stored'[j] = q[o + p[l]].source_row
    <3>1. PICK l \in 1..Len(p) : j = n + l /\ stored'[j] = q[o + p[l]].source_row
      BY <2>3
    <3>2. PICK x \in 1..Len(q) : x < o + p[l] /\ stored'[i] = q[x].source_row
      <4>1. CASE i \in 1..n
        <5>1. PICK x \in 1..o : stored[i] = q[x].source_row
          BY <1>9, <4>1
        <5>2. o + p[l] \in (o + 1)..end /\ o + p[l] \in 1..Len(q) /\ o \in Nat
          BY <1>1, <1>2, <1>3
        <5>3. x \in 1..Len(q) /\ x < o + p[l]
          BY <1>1, <1>2, <5>2
        <5>4. stored'[i] = q[x].source_row
          BY <1>7, <4>1, <5>1
        <5> QED
          BY <5>3, <5>4
      <4>2. CASE \E k \in 1..Len(p) : i = n + k /\ stored'[i] = q[o + p[k]].source_row
        <5>1. PICK k \in 1..Len(p) : i = n + k /\ stored'[i] = q[o + p[k]].source_row
          BY <4>2
        <5>2. k < l
          BY <1>11, <2>1, <3>1, <5>1
        <5>3. p[k] < p[l]
          BY <1>1, <5>2
        <5>4. o + p[k] \in 1..Len(q) /\ o + p[k] < o + p[l]
          <6>1. o + p[k] \in 1..Len(q) /\ p[k] \in Int /\ p[l] \in Int
            BY <1>3, Zenon
          <6>2. o \in Int
            BY <1>1, <1>2
          <6> QED
            BY <5>3, <6>1, <6>2
        <5> QED
          BY <5>1, <5>4
      <4> QED
        BY <1>8, <2>1, <4>1, <4>2
    <3>3. o + p[l] \in 1..Len(q)
      BY <1>3
    <3>4. LET r == q[x].source_row
              s == q[o + p[l]].source_row
          IN \/ TimestampMs(rows[r]) < TimestampMs(rows[s])
             \/ TimestampMs(rows[r]) = TimestampMs(rows[s]) /\ r < s
      BY <1>2, <3>2, <3>3, RowsInOrder
    <3> QED
      BY <3>1, <3>2, <3>4
  <2> QED
    BY <1>8, <2>1, <2>2, <2>3
<1>12. StoredInv'
  <2>1. StoredInOrder'
    BY <1>1, <1>11, Zenon DEF StoredInOrder
  <2>2. \A k \in DOMAIN stored' : \E x \in 1..Sent' : stored'[k] = events'[x].source_row
    BY <1>1, <1>2, <1>10
  <2> QED
    BY <2>1, <2>2 DEF StoredInv
<1>13. ASSUME NEW r
       PROVE  r \in ToSet(stored') <=>
                \/ r \in ToSet(stored)
                \/ \E k \in 1..Len(p) : r = q[o + p[k]].source_row
  <2>1. r \in ToSet(stored') <=> \E i \in 1..(n + Len(p)) : stored'[i] = r
    BY <1>7 DEF ToSet
  <2>2. r \in ToSet(stored) <=> \E i \in 1..n : stored[i] = r
    BY <1>1 DEF ToSet
  <2>3. \A i \in 1..n : i \in 1..(n + Len(p))
    BY <1>1
  <2>4. \A k \in 1..Len(p) : n + k \in 1..(n + Len(p))
    BY <1>1
  <2>5. ASSUME NEW i \in 1..(n + Len(p)), stored'[i] = r
        PROVE  \/ \E j \in 1..n : stored[j] = r
               \/ \E k \in 1..Len(p) : r = q[o + p[k]].source_row
    BY <1>8, <2>5, Zenon
  <2>6. ASSUME NEW i \in 1..n, stored[i] = r
        PROVE  \E j \in 1..(n + Len(p)) : stored'[j] = r
    BY <1>7, <2>3, <2>6
  <2>7. ASSUME NEW k \in 1..Len(p), r = q[o + p[k]].source_row
        PROVE  \E j \in 1..(n + Len(p)) : stored'[j] = r
    BY <1>5, <1>7, <2>4, <2>7
  <2> QED
    BY <2>1, <2>2, <2>5, <2>6, <2>7, Zenon
<1> QED
  BY <1>2, <1>7, <1>12, <1>13

\* A batch continues the requests.
LEMMA SendRequests ==
  ASSUME SendInv, NEW end, NEW p, NEW answered, Sends(end, p, answered)
  PROVE  RequestInv' /\ requests' \in Seq(Seq(Event))
<1>1. /\ requests \in Seq(Seq(Event)) /\ Len(requests) \in Nat /\ events' = events
      /\ events \in Seq(Event) /\ Len(events) \in Nat
      /\ Sent \in 0..(Len(events) - 1) /\ end \in (Sent + 1)..Len(events) /\ Sent' = end
      /\ end = BatchEnd(events, Sent)
      /\ requests' = Append(requests, SubSeq(events, Sent + 1, end))
  BY SendsFacts
<1>2. PICK q, o : q = events /\ o = Sent
  OBVIOUS
<1> DEFINE s == SubSeq(q, o + 1, end)
           n == Len(requests)
<1>3. s \in Seq(Event) /\ s[1] = q[o + 1]
  <2>1. o \in 0..Len(q) /\ end \in o..Len(q) /\ 1 \in 1..(end - o)
    BY <1>1, <1>2
  <2> QED
    BY <1>1, <1>2, <2>1, SliceType
<1> HIDE DEF s
<1>4. requests' = Append(requests, s)
  BY <1>1, <1>2 DEF s
<1>5. /\ requests' \in Seq(Seq(Event)) /\ Len(requests') = n + 1
      /\ DOMAIN requests' = 1..(n + 1)
      /\ requests'[n + 1] = s /\ \A i \in 1..n : requests'[i] = requests[i]
  <2>1. PICK E : E = Seq(Event)
    OBVIOUS
  <2>2. requests \in Seq(E) /\ s \in E
    BY <1>1, <1>3, <2>1
  <2>3. /\ requests' \in Seq(E) /\ Len(requests') = n + 1
        /\ requests'[n + 1] = s /\ \A i \in 1..n : requests'[i] = requests[i]
    BY <1>4, <2>2
  <2>4. DOMAIN requests' = 1..(n + 1)
    BY <2>3
  <2> QED
    BY <2>1, <2>3, <2>4
<1>6. ASSUME NEW i \in 1..(n + 1)
      PROVE  \E x \in 0..(Len(q) - 1) :
               /\ requests'[i] = SubSeq(q, x + 1, BatchEnd(q, x))
               /\ i = n + 1 => BatchEnd(q, x) = end
               /\ i < n + 1 => /\ BatchEnd(q, x) < Len(q)
                               /\ requests'[i + 1][1] = q[BatchEnd(q, x) + 1]
  <2>1. CASE i = n + 1
    <3>1. requests'[i] = SubSeq(q, o + 1, BatchEnd(q, o)) /\ BatchEnd(q, o) = end
      <4>1. end = BatchEnd(q, o)
        BY <1>1, <1>2, Zenon
      <4>2. requests'[i] = s
        BY <1>5, <2>1, Zenon
      <4> QED
        BY <4>1, <4>2, Zenon DEF s
    <3>2. o \in 0..(Len(q) - 1) /\ ~ (i < n + 1)
      BY <1>1, <1>2, <2>1
    <3> QED
      BY <3>1, <3>2, Zenon
  <2>2. CASE i # n + 1
    <3>1. i \in 1..n /\ i \in DOMAIN requests
      <4>1. n \in Nat /\ DOMAIN requests = 1..n
        BY <1>1
      <4> HIDE DEF n
      <4>2. i \in 1..n
        BY <2>2, <4>1
      <4> QED
        BY <4>1, <4>2
    <3>2. PICK x \in 0..(Len(q) - 1) :
            /\ requests[i] = SubSeq(q, x + 1, BatchEnd(q, x))
            /\ i = n => BatchEnd(q, x) = o
            /\ i < n => /\ BatchEnd(q, x) < Len(q)
                        /\ requests[i + 1][1] = q[BatchEnd(q, x) + 1]
      BY <1>2, <3>1, Zenon DEF SendInv, RequestInv
    <3>3. requests'[i] = SubSeq(q, x + 1, BatchEnd(q, x))
      BY <1>5, <3>1, <3>2
    <3>4. BatchEnd(q, x) < Len(q) /\ requests'[i + 1][1] = q[BatchEnd(q, x) + 1]
      <4>1. CASE i = n
        <5>1. requests'[i + 1] = s /\ BatchEnd(q, x) = o
          BY <1>5, <3>2, <4>1
        <5>2. o < Len(q)
          BY <1>1, <1>2
        <5> QED
          BY <1>3, <5>1, <5>2
      <4>2. CASE i # n
        <5>1. i < n /\ i + 1 \in 1..n
          <6>1. n \in Nat
            BY <1>1
          <6>2. i \in 1..n
            BY <3>1
          <6> HIDE DEF n
          <6> QED
            BY <4>2, <6>1, <6>2
        <5> QED
          BY <1>5, <3>2, <5>1
      <4> QED
        BY <4>1, <4>2
    <3> QED
      BY <1>1, <2>2, <3>3, <3>4
  <2> QED
    BY <2>1, <2>2
<1>7. RequestInv'
  <2>1. events' = q /\ Len(requests') = n + 1 /\ Sent' = end /\ DOMAIN requests' = 1..(n + 1)
    BY <1>1, <1>2, <1>5
  <2> QED
    BY <1>6, <2>1, Zenon DEF RequestInv
<1> QED
  BY <1>5, <1>7

\* A batch that is answered marks its rows, and one that is not is the last.
LEMMA SendResult ==
  ASSUME SendInv, NEW end, NEW p, NEW answered, Sends(end, p, answered)
  PROVE  ResultInv'
<1>1. /\ pc = "send" /\ outcome = "none" /\ UNCHANGED <<rows, events>>
      /\ requests \in Seq(Seq(Event)) /\ Len(requests) \in Nat
      /\ events \in Seq(Event) /\ Len(events) \in Nat
      /\ Sent \in 0..(Len(events) - 1) /\ end \in (Sent + 1)..Len(events) /\ Sent' = end
      /\ requests' = Append(requests, SubSeq(events, Sent + 1, end))
      /\ answered \in BOOLEAN
      /\ answered => /\ pc' = "send" /\ outcome' = "none"
                     /\ \A i \in 1..(end - Sent) : \E k \in 1..Len(p) : p[k] = i
      /\ ~answered => pc' = "done" /\ outcome' = "failed"
  <2>1. /\ answered \in BOOLEAN
        /\ answered => /\ pc' = "send" /\ outcome' = "none"
                       /\ \A i \in 1..(end - Sent) : \E k \in 1..Len(p) : p[k] = i
        /\ ~answered => pc' = "done" /\ outcome' = "failed"
    BY DEF Sends
  <2> QED
    BY <2>1, SendsFacts
<1>2. PICK q, o : q = events /\ o = Sent
  OBVIOUS
<1>21. \A k \in 1..Len(p) : p[k] \in 1..(end - o)
  <2>1. PICK E : E = 1..(end - o)
    OBVIOUS
  <2>2. p \in Seq(E)
    BY <1>2, <2>1, Zenon DEF Sends
  <2>3. \A k \in 1..Len(p) : p[k] \in E
    BY <2>2
  <2> QED
    BY <2>1, <2>3
<1> DEFINE Of(r) == \E i \in (o + 1)..end : q[i].source_row = r
<1>3. \A r \in DOMAIN rows : result'[r] = IF answered /\ Of(r) THEN "ok" ELSE result[r]
  BY <1>2 DEF Sends
<1>4. \A r : r \in ToSet(stored') <=>
               \/ r \in ToSet(stored)
               \/ \E k \in 1..Len(p) : r = q[o + p[k]].source_row
  BY <1>2, SendStored
<1>5. ASSUME NEW r, \E k \in 1..Len(p) : r = q[o + p[k]].source_row
      PROVE  Of(r)
  <2>1. PICK k \in 1..Len(p) : r = q[o + p[k]].source_row
    BY <1>5
  <2>2. o + p[k] \in (o + 1)..end
    <3>1. p[k] \in 1..(end - o) /\ o \in Nat /\ end \in Nat
      BY <1>1, <1>2, <1>21
    <3> QED
      BY <3>1
  <2> QED
    BY <2>1, <2>2
<1>6. ASSUME answered, NEW r, Of(r) PROVE r \in ToSet(stored')
  <2>1. PICK i \in (o + 1)..end : q[i].source_row = r
    BY <1>6
  <2>2. i - o \in 1..(end - o) /\ o + (i - o) = i
    BY <1>1, <1>2
  <2>3. PICK k \in 1..Len(p) : p[k] = i - o
    BY <1>1, <1>2, <1>6, <2>2
  <2> QED
    BY <1>4, <2>1, <2>2, <2>3
<1>7. /\ requests' # << >>
      /\ \A r : r \in ToSet(SourceRows(requests'[Len(requests')])) <=> Of(r)
  <2> DEFINE s == SubSeq(q, o + 1, end)
  <2>1. o \in 0..Len(q) /\ end \in o..Len(q)
    BY <1>1, <1>2
  <2>2. \A r : r \in ToSet(SourceRows(s)) <=> Of(r)
    <3>1. q \in Seq(Event)
      BY <1>1, <1>2
    <3> QED
      BY <2>1, <3>1, SliceRows, Zenon
  <2>3. s \in Seq(Event)
    BY <1>1, <1>2, <2>1, SliceType
  <2>4. requests' = Append(requests, s)
    BY <1>1, <1>2
  <2> HIDE DEF s, Of
  <2>5. requests' # << >> /\ requests'[Len(requests')] = s
    <3>1. PICK E : E = Seq(Event)
      OBVIOUS
    <3>2. requests \in Seq(E) /\ s \in E
      BY <1>1, <2>3, <3>1
    <3>3. PICK u : u = requests'
      OBVIOUS
    <3>4. u # << >> /\ Len(u) = Len(requests) + 1 /\ u[Len(requests) + 1] = s
      BY <2>4, <3>2, <3>3, AppendProperties
    <3> QED
      BY <3>3, <3>4
  <2> QED
    BY <2>2, <2>5
<1>8. \A r \in DOMAIN rows : r \in ToSet(stored) => result[r] = "ok"
  BY <1>1 DEF SendInv, ResultInv
<1>9. /\ \A r \in DOMAIN rows : result[r] = "ok" => r \in ToSet(stored)
      /\ \A i \in 1..o : result[q[i].source_row] = "ok"
      /\ \A r \in DOMAIN rows : rows[r] = NullRow => result[r] = "null"
  BY <1>1, <1>2 DEF SendInv, ResultInv, Live
<1>10. \A i \in 1..Len(q) : q[i].source_row \in DOMAIN rows /\ rows[q[i].source_row] # NullRow
  BY <1>2, EventsType DEF SendInv, EventsInv
<1>11. ASSUME NEW r \in DOMAIN rows, result'[r] = "ok" PROVE r \in ToSet(stored')
  BY <1>3, <1>4, <1>6, <1>9, <1>11
<1>12. ASSUME answered, NEW i \in 1..end PROVE result'[q[i].source_row] = "ok"
  <2>1. i \in 1..Len(q)
    BY <1>1, <1>2
  <2>2. CASE i \in 1..o
    BY <1>3, <1>9, <1>10, <2>1, <2>2
  <2>3. CASE i \in (o + 1)..end
    <3>1. Of(q[i].source_row)
      BY <2>3
    <3> QED
      BY <1>3, <1>10, <1>12, <2>1, <3>1
  <2> QED
    BY <1>1, <1>2, <2>2, <2>3
<1>13. ASSUME NEW r \in DOMAIN rows, rows[r] = NullRow PROVE result'[r] = "null"
  <2>1. ~Of(r)
    <3> SUFFICES ASSUME NEW i \in (o + 1)..end, q[i].source_row = r PROVE FALSE
      OBVIOUS
    <3>1. i \in 1..Len(q)
      BY <1>1, <1>2
    <3> QED
      BY <1>10, <1>13, <3>1
  <2> QED
    BY <1>3, <1>9, <1>13, <2>1
<1>14. ASSUME NEW r \in DOMAIN rows, r \in ToSet(stored'), result'[r] # "ok"
       PROVE  ~answered /\ Of(r)
  <2>1. r \notin ToSet(stored)
    BY <1>3, <1>8, <1>14
  <2>2. Of(r)
    BY <1>4, <1>5, <1>14, <2>1
  <2> QED
    BY <1>3, <1>14, <2>2
<1> HIDE DEF Of
<1>15. Live' => answered
  BY <1>1 DEF Live
<1>16. ~answered => pc' = "done"
  BY <1>1
<1>17. rows' = rows /\ events' = q /\ Sent' = end
  BY <1>1, <1>2
<1>18. \A r \in DOMAIN rows' : result'[r] = "ok" => r \in ToSet(stored')
  BY <1>11, <1>17
<1>19. Live' => /\ \A i \in 1..Sent' : result'[events'[i].source_row] = "ok"
                /\ \A r \in DOMAIN rows' : rows'[r] = NullRow => result'[r] = "null"
  BY <1>12, <1>13, <1>15, <1>17
<1>20. \A r \in DOMAIN rows' :
         r \in ToSet(stored') /\ result'[r] # "ok" =>
           /\ pc' = "done" /\ requests' # << >>
           /\ r \in ToSet(SourceRows(requests'[Len(requests')]))
  BY <1>7, <1>14, <1>16, <1>17
<1> QED
  BY <1>18, <1>19, <1>20, Zenon DEF ResultInv

\* A batch that is sent keeps the invariant.
LEMMA SendStep ==
  ASSUME SendInv, SendBatch
  PROVE  SendInv'
<1>1. PICK end, p, answered : Sends(end, p, answered)
  BY SendEffect
<1>2. /\ pc = "send" /\ pc' \in {"send", "done"} /\ UNCHANGED <<rows, events>>
      /\ pc' # "done" => outcome' = "none"
      /\ outcome' # "ok" /\ (Live' => Live)
      /\ DOMAIN result' = DOMAIN rows
      /\ Sent' = end /\ end \in (Sent + 1)..Len(events) /\ Sent \in 0..(Len(events) - 1)
      /\ batches' = PlanFrom(events)[end]
  BY <1>1 DEF Sends, Live
<1>3. StoredInv' /\ RequestInv' /\ ResultInv'
  BY <1>1, SendStored, SendRequests, SendResult
<1>4. stored' \in Seq(DOMAIN rows) /\ requests' \in Seq(Seq(Event))
  BY <1>1, SendStored, SendRequests
<1>5. SendTypeInv'
  BY <1>2, <1>4 DEF SendInv, SendTypeInv
<1>6. EventsInv'
  <2>1. Events' = Events
    BY <1>2 DEF Events
  <2> QED
    BY <1>2, <2>1 DEF SendInv, EventsInv, InOrder, Precedes
<1>7. PlanInv'
  <2>1. PICK q : q = events
    OBVIOUS
  <2>2. events' = q /\ batches' = PlanFrom(q)[Sent'] /\ Sent' \in 0..Len(q)
    BY <1>2, <2>1
  <2> QED
    BY <1>2, <2>2 DEF PlanInv
<1> QED
  BY <1>3, <1>5, <1>6, <1>7 DEF SendInv

\* Nothing was sent before the plan.
LEMMA SendInit ==
  ASSUME Init
  PROVE  SendInv
<1>1. /\ pc = "plan" /\ outcome = "none" /\ events = << >> /\ batches = << >>
      /\ stored = << >> /\ requests = << >>
      /\ result = [r \in DOMAIN rows |-> "unset"]
  BY DEF Init
<1>2. rows \in Seq(Row \cup {NullRow})
  BY LimitAssumption DEF Init
<1>3. Len(events) = 0 /\ Sent = 0 /\ ~Live /\ events \in Seq(Event)
  BY <1>1 DEF Sent, Live
<1>4. SendTypeInv
  <2>1. /\ \A r \in DOMAIN rows : result[r] = "unset"
        /\ DOMAIN result = DOMAIN rows
    BY <1>1
  <2>2. stored \in Seq(DOMAIN rows) /\ requests \in Seq(Seq(Event))
    BY <1>1
  <2> QED
    BY <1>1, <1>2, <1>3, <2>1, <2>2 DEF SendTypeInv
<1>5. EventsInv
  BY <1>3 DEF EventsInv, InOrder
<1>6. PlanInv
  <2>1. 0 \in 0..Len(events) /\ 0 = Len(events)
    BY <1>3
  <2>2. PlanFrom(events)[0] = << >>
    BY <1>3, <2>1, PlanFromType
  <2> QED
    BY <1>1, <1>3, <2>1, <2>2 DEF PlanInv
<1>7. RequestInv /\ StoredInv
  BY <1>1 DEF RequestInv, StoredInv, StoredInOrder
<1>8. ResultInv
  <2>1. ToSet(stored) = {}
    BY <1>1 DEF ToSet
  <2>2. \A r \in DOMAIN rows : result[r] # "ok"
    BY <1>1
  <2> QED
    BY <1>3, <2>1, <2>2 DEF ResultInv
<1> QED
  BY <1>4, <1>5, <1>6, <1>7, <1>8 DEF SendInv

----------------------------------------------------------------------------
(* The theorems.                                                           *)

\* What one statement sends keeps SendInv, whatever the service answers and
\* whenever it is interrupted.
THEOREM SendInvariant == Spec => []SendInv
<1>1. Init => SendInv
  BY SendInit
<1>2. SendInv /\ [Next]_vars => SendInv'
  <2> SUFFICES ASSUME SendInv, [Next]_vars PROVE SendInv'
    OBVIOUS
  <2>1. CASE PlanBatches
    BY <2>1, PlanStep
  <2>2. CASE SendBatch
    BY <2>2, SendStep
  <2>3. CASE Rest
    BY <2>3, RestStep
  <2> QED
    BY <2>1, <2>2, <2>3 DEF Next, Rest
<1> QED
  BY <1>1, <1>2, PTL DEF Spec

\* Every request is within CloudWatch's limits, for timestamps up to both ends of
\* int64_t.
THEOREM SendRequestsValid == Spec => []RequestsValid
<1>1. SendInv => RequestsValid
  <2> SUFFICES ASSUME SendInv, NEW i \in DOMAIN requests PROVE Valid(requests[i])
    BY DEF RequestsValid
  <2>1. PICK o \in 0..(Len(events) - 1) :
          requests[i] = SubSeq(events, o + 1, BatchEnd(events, o))
    BY DEF SendInv, RequestInv
  <2>2. events \in Seq(Event) /\ InOrder(events) /\ \A k \in 1..Len(events) : ~Invalid(events[k])
    BY DEF SendInv, SendTypeInv, EventsInv
  <2>3. Valid(SubSeq(events, o + 1, BatchEnd(events, o)))
    BY <2>2, BatchValid
  <2> QED
    BY <2>1, <2>3
<1> QED
  BY <1>1, SendInvariant, PTL

\* No request could have taken the first event of the next one as well.
THEOREM SendRequestsFull == Spec => []RequestsFull
<1>1. SendInv => RequestsFull
  <2> SUFFICES ASSUME SendInv, NEW i \in 1..(Len(requests) - 1)
               PROVE  ~Valid(Append(requests[i], requests[i + 1][1]))
    BY DEF RequestsFull
  <2>1. requests \in Seq(Seq(Event)) /\ events \in Seq(Event)
    BY DEF SendInv, SendTypeInv
  <2>2. i \in DOMAIN requests /\ i < Len(requests)
    BY <2>1
  <2>3. PICK o \in 0..(Len(events) - 1) :
          /\ requests[i] = SubSeq(events, o + 1, BatchEnd(events, o))
          /\ BatchEnd(events, o) < Len(events)
          /\ requests[i + 1][1] = events[BatchEnd(events, o) + 1]
    BY <2>2, Zenon DEF SendInv, RequestInv
  <2>4. ~Valid(Append(SubSeq(events, o + 1, BatchEnd(events, o)),
                      events[BatchEnd(events, o) + 1]))
    BY <2>1, <2>3, BatchFull
  <2> QED
    BY <2>3, <2>4, Zenon
<1> QED
  BY <1>1, SendInvariant, PTL

\* The service has the events in the order of their timestamps and rows.
THEOREM SendStoredInOrder == Spec => []StoredInOrder
<1>1. SendInv => StoredInOrder
  BY DEF SendInv, StoredInv
<1> QED
  BY <1>1, SendInvariant, PTL

\* A failure leaves only its own batch in doubt.
THEOREM SendDoubtIsLastBatch == Spec => []DoubtIsLastBatch
<1>1. SendInv => DoubtIsLastBatch
  <2> SUFFICES ASSUME SendInv PROVE DoubtIsLastBatch
    OBVIOUS
  <2>1. ASSUME NEW r \in DOMAIN rows
        PROVE  /\ result[r] = "ok" => r \in ToSet(stored)
               /\ r \in ToSet(stored) /\ result[r] # "ok" =>
                    r \in IF requests = << >> THEN {}
                          ELSE ToSet(SourceRows(requests[Len(requests)]))
    BY DEF SendInv, ResultInv
  <2>2. ASSUME outcome = "ok", NEW r \in DOMAIN rows
        PROVE  result[r] = IF rows[r] = NullRow THEN "null" ELSE "ok"
    <3>1. Live /\ Sent = Len(events)
      BY <2>2 DEF Live, SendInv, PlanInv, Sent
    <3>2. CASE rows[r] = NullRow
      BY <3>1, <3>2 DEF SendInv, ResultInv
    <3>3. CASE rows[r] # NullRow
      <4>1. PICK e \in Events : e.source_row = r
        BY <3>3, EventsType DEF SendInv
      <4>2. PICK i \in 1..Len(events) : events[i] = e
        BY <3>1 DEF SendInv, EventsInv
      <4> QED
        BY <3>1, <3>3, <4>1, <4>2 DEF SendInv, ResultInv
    <3> QED
      BY <3>2, <3>3
  <2> QED
    BY <2>1, <2>2 DEF DoubtIsLastBatch
<1> QED
  BY <1>1, SendInvariant, PTL

=============================================================================
