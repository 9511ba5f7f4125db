---------------------- MODULE CloudwatchMetricsProofs ----------------------
(***************************************************************************)
(* Proofs about CloudwatchMetrics: a chunk's readings are stored in order, *)
(* none twice, and the sender knows of all but one request; and a scan     *)
(* that ends has handed out what one reading of the table says, whatever   *)
(* was stored between its pages.                                           *)
(***************************************************************************)
EXTENDS CloudwatchMetrics, SequenceLemmas

----------------------------------------------------------------------------
(* What the service reads from a form body.                                *)

\* A list without a gap has all its elements.
LEMMA AllMembers ==
  ASSUME NEW n \in Nat, NEW there, there = 1 .. n
  PROVE  Members(there) = n
<1>1. Cardinality(there) = n
  <2>1. Cardinality(1 .. n) = IF 1 > n THEN 0 ELSE n - 1 + 1
    BY FS_Interval
  <2> QED
    BY <2>1
<1>2. PICK m : m = Members(there)
  OBVIOUS
<1>3. m \in 0 .. n /\ 1 .. m \subseteq there /\ m + 1 \notin there
  <2>1. n \in 0 .. n /\ 1 .. n \subseteq there /\ n + 1 \notin there
    OBVIOUS
  <2> QED
    BY <1>1, <1>2, <2>1 DEF Members
<1>4. m = n
  <2>1. ~ (m < n)
    <3> SUFFICES ASSUME m < n PROVE FALSE
      OBVIOUS
    <3>1. m + 1 \in 1 .. n
      BY <1>3
    <3> QED
      BY <1>3, <3>1
  <2> QED
    BY <1>3, <2>1
<1> QED
  BY <1>2, <1>4

\* A set whose elements come of those of a finite set is finite.
LEMMA FiniteImage ==
  ASSUME NEW S, IsFiniteSet(S), NEW f, NEW T, \A x \in T : \E s \in S : f[s] = x
  PROVE  IsFiniteSet(T)
<1>1. PICK g : g = [x \in S |-> f[x]]
  OBVIOUS
<1>2. PICK F : F = {f[x] : x \in S}
  OBVIOUS
<1>3. g \in Surjection(S, F)
  BY <1>1, <1>2 DEF Surjection
<1>4. IsFiniteSet(F)
  BY <1>3, FS_Surjection
<1>5. T \in SUBSET F
  BY <1>2
<1> QED
  BY <1>4, <1>5, FS_Subset

MetricParts == {"MetricName", "Timestamp", "Value", "source_row"}
DimensionKeys(data, i) ==
  {"MetricData"} \X {i} \X {"Dimensions"} \X (DOMAIN data[i].dimensions) \X {"Name", "Value"}

\* The keys of a form body of n datums.
MetricKeys(data, n) ==
  {<<"Namespace">>} \cup ({"MetricData"} \X (1 .. n) \X MetricParts)
    \cup UNION {DimensionKeys(data, i) : i \in 1 .. n}

\* Their number is finite.
LEMMA MetricKeysFinite ==
  ASSUME NEW data, NEW n \in Nat, DOMAIN data = 1 .. n,
         \A i \in 1 .. n : IsFiniteSet(DOMAIN data[i].dimensions)
  PROVE  IsFiniteSet(MetricKeys(data, n))
<1>1. IsFiniteSet(1 .. n)
  BY FS_Interval
<1>2. IsFiniteSet({"Name", "Value"}) /\ IsFiniteSet(MetricParts)
  <2>1. /\ IsFiniteSet({"Name"}) /\ IsFiniteSet({"Value"}) /\ IsFiniteSet({"MetricName"})
        /\ IsFiniteSet({"Timestamp"}) /\ IsFiniteSet({"source_row"})
    BY FS_Singleton
  <2>2. /\ IsFiniteSet({"Name"} \cup {"Value"}) /\ IsFiniteSet({"Timestamp"} \cup {"source_row"})
        /\ IsFiniteSet({"MetricName"} \cup {"Value"})
    BY <2>1, FS_Union
  <2>3. IsFiniteSet(({"MetricName"} \cup {"Value"}) \cup ({"Timestamp"} \cup {"source_row"}))
    BY <2>2, FS_Union
  <2>4. /\ {"Name", "Value"} = {"Name"} \cup {"Value"}
        /\ MetricParts = ({"MetricName"} \cup {"Value"}) \cup ({"Timestamp"} \cup {"source_row"})
    BY DEF MetricParts
  <2> QED
    BY <2>2, <2>3, <2>4
<1>3. PICK A, B, C :
        A = {<<"Namespace">>} /\ B = {"MetricData"} \X (1 .. n) \X MetricParts
          /\ C = {DimensionKeys(data, i) : i \in 1 .. n}
  BY Zenon
<1>4. IsFiniteSet(A)
  BY <1>3, FS_Singleton
<1>5. IsFiniteSet(B)
  <2>1. PICK f : f = [p \in (1 .. n) \X MetricParts |-> <<"MetricData", p[1], p[2]>>]
    OBVIOUS
  <2>2. ASSUME NEW x \in B PROVE \E p \in (1 .. n) \X MetricParts : f[p] = x
    <3>1. x \in {"MetricData"} \X (1 .. n) \X MetricParts
      BY <1>3, Zenon
    <3>2. <<x[2], x[3]>> \in (1 .. n) \X MetricParts /\ x = <<"MetricData", x[2], x[3]>>
      BY <3>1
    <3>3. f[<<x[2], x[3]>>] = x
      BY <2>1, <3>2
    <3> QED
      BY <3>2, <3>3
  <2>3. IsFiniteSet((1 .. n) \X MetricParts)
    BY <1>1, <1>2, FS_Product
  <2> QED
    BY <2>2, <2>3, FiniteImage
<1>6. IsFiniteSet(UNION C)
  <2>1. ASSUME NEW i \in 1 .. n PROVE IsFiniteSet(DimensionKeys(data, i))
    <3>1. PICK D : D = DOMAIN data[i].dimensions
      OBVIOUS
    <3>2. PICK f : f = [p \in D \X {"Name", "Value"} |->
                          <<"MetricData", i, "Dimensions", p[1], p[2]>>]
      OBVIOUS
    <3>3. ASSUME NEW x \in DimensionKeys(data, i) PROVE \E p \in D \X {"Name", "Value"} : f[p] = x
      <4>1. x \in {"MetricData"} \X {i} \X {"Dimensions"} \X D \X {"Name", "Value"}
        BY <3>1, Zenon DEF DimensionKeys
      <4>2. /\ <<x[4], x[5]>> \in D \X {"Name", "Value"}
            /\ x = <<"MetricData", i, "Dimensions", x[4], x[5]>>
        BY <4>1
      <4>3. f[<<x[4], x[5]>>] = x
        BY <3>2, <4>2
      <4> QED
        BY <4>2, <4>3
    <3>4. IsFiniteSet(D \X {"Name", "Value"})
      BY <1>2, <3>1, FS_Product
    <3> QED
      BY <3>3, <3>4, FiniteImage
  <2>2. PICK f : f = [i \in 1 .. n |-> DimensionKeys(data, i)]
    OBVIOUS
  <2>3. \A T \in C : \E i \in 1 .. n : f[i] = T
    BY <1>3, <2>2
  <2>4. IsFiniteSet(C)
    BY <1>1, <2>3, FiniteImage
  <2>5. \A T \in C : IsFiniteSet(T)
    BY <1>3, <2>1
  <2> QED
    BY <2>4, <2>5, FS_UNION
<1>7. IsFiniteSet((A \cup B) \cup UNION C)
  <2>1. IsFiniteSet(A \cup B)
    BY <1>4, <1>5, FS_Union
  <2> QED
    BY <1>6, <2>1, FS_Union
<1>8. MetricKeys(data, n) = (A \cup B) \cup UNION C
  BY <1>3, Zenon DEF MetricKeys
<1> QED
  BY <1>7, <1>8

\* What the service reads from a form body: the datums, each with its row.
LEMMA FormRows ==
  ASSUME NEW data, NEW n \in Nat, DOMAIN data = 1 .. n,
         \A i \in 1 .. n : IsFiniteSet(DOMAIN data[i].dimensions),
         NEW fields, fields = FormBody([Namespace |-> "ns", MetricData |-> data])
  PROVE  /\ Datums(fields) = n
         /\ \A i \in 1 .. n :
              /\ RowOf(fields, i).source_row = data[i].source_row
              /\ RowOf(fields, i).timestamp_ms = data[i].timestamp_seconds * Second
<1> DEFINE part(key) == [MetricName |-> data[key[2]].name, Value |-> data[key[2]].value,
                         Timestamp |-> FormatQueryTimestamp(data[key[2]].timestamp_seconds),
                         source_row |-> data[key[2]].source_row]
           at(key) == IF Len(key) = 1 THEN "ns"
                      ELSE IF Len(key) = 5 THEN data[key[2]].dimensions[key[4]][key[5]]
                      ELSE part(key)[key[3]]
<1>0. fields = [key \in MetricKeys(data, n) |-> at(key)]
  BY Zenon DEF FormBody, MetricKeys, MetricParts, DimensionKeys
<1> HIDE DEF at
<1>1. DOMAIN fields = MetricKeys(data, n)
  BY <1>0
<1>2. \A i : <<"MetricData", i, "MetricName">> \in MetricKeys(data, n) <=> i \in 1 .. n
  BY DEF MetricKeys, MetricParts, DimensionKeys
<1>3. Cardinality(MetricKeys(data, n)) \in Nat /\ n <= Cardinality(MetricKeys(data, n))
  <2>1. PICK f : f = [i \in 1 .. n |-> <<"MetricData", i, "MetricName">>]
    OBVIOUS
  <2>2. f \in Injection(1 .. n, MetricKeys(data, n))
    BY <1>2, <2>1 DEF Injection, IsInjective
  <2>3. Cardinality(1 .. n) <= Cardinality(MetricKeys(data, n))
    BY <2>2, MetricKeysFinite, FS_Injection
  <2>4. Cardinality(1 .. n) = IF 1 > n THEN 0 ELSE n - 1 + 1
    BY FS_Interval
  <2>5. Cardinality(MetricKeys(data, n)) \in Nat
    BY MetricKeysFinite, FS_CardinalityType
  <2> QED
    BY <2>3, <2>4, <2>5
<1>4. Datums(fields) = n
  <2>1. PICK c \in Nat : c = Cardinality(MetricKeys(data, n))
    BY <1>3
  <2>2. {i \in 1 .. c : <<"MetricData", i, "MetricName">> \in MetricKeys(data, n)} = 1 .. n
    BY <1>2, <1>3, <2>1
  <2>3. Datums(fields) = Members({i \in 1 .. c : <<"MetricData", i, "MetricName">> \in MetricKeys(data, n)})
    BY <1>1, <2>1, Zenon DEF Datums, Places, Keys
  <2> QED
    BY <2>2, <2>3, AllMembers
<1>5. ASSUME NEW i \in 1 .. n PROVE RowOf(fields, i).source_row = data[i].source_row
  <2>1. PICK k : k = <<"MetricData", i, "source_row">>
    OBVIOUS
  <2>2. k \in MetricKeys(data, n)
    BY <2>1 DEF MetricKeys, MetricParts
  <2>3. Len(k) = 3 /\ k[2] = i /\ k[3] = "source_row"
    BY <2>1
  <2>31. fields[k] = at(k)
    BY <2>2, <1>0
  <2>4. fields[k] = data[i].source_row
    BY <2>3, <2>31 DEF at
  <2>5. RowOf(fields, i).source_row = fields[<<"MetricData", i, "source_row">>]
    BY DEF RowOf
  <2> QED
    BY <2>1, <2>4, <2>5
<1>6. ASSUME NEW i \in 1 .. n
      PROVE  RowOf(fields, i).timestamp_ms = data[i].timestamp_seconds * Second
  <2>1. PICK k : k = <<"MetricData", i, "Timestamp">>
    OBVIOUS
  <2>2. k \in MetricKeys(data, n)
    BY <2>1 DEF MetricKeys, MetricParts
  <2>3. Len(k) = 3 /\ k[2] = i /\ k[3] = "Timestamp"
    BY <2>1
  <2>4. fields[k] = at(k) /\ k \in DOMAIN fields
    BY <2>2, <1>0
  <2>5. fields[k] = [iso |-> data[i].timestamp_seconds]
    BY <2>3, <2>4 DEF at, FormatQueryTimestamp
  <2>6. RowOf(fields, i).timestamp_ms = ParseIsoMs(fields[<<"MetricData", i, "Timestamp">>])
    BY <2>1, <2>4 DEF RowOf, Keys
  <2>7. ParseIsoMs(fields[k]) = data[i].timestamp_seconds * Second
    BY <2>5 DEF ParseIsoMs
  <2> QED
    BY <2>1, <2>6, <2>7
<1> QED
  BY <1>4, <1>5, <1>6

----------------------------------------------------------------------------
(* The chunk and the batch.                                                *)

\* The rows with a reading are rows of the chunk.
LEMMA ReadingsFacts ==
  ASSUME chunk \in Chunks
  PROVE  /\ Readings \in Seq(DOMAIN chunk)
         /\ Len(Readings) \in Nat /\ DOMAIN Readings = 1 .. Len(Readings)
         /\ \A k \in 1 .. Len(Readings) : /\ Readings[k] \in DOMAIN chunk
                                          /\ HasReading(chunk[Readings[k]])
<1>1. PICK places : places = {i \in DOMAIN chunk : HasReading(chunk[i])}
  OBVIOUS
<1>2. PICK n \in Nat : DOMAIN chunk = 1 .. n
  BY MetricsAssumption DEF SendAssumption
<1>3. places \in SUBSET Int /\ IsFiniteSet(places)
  <2>1. PICK I : I = 1 .. n
    OBVIOUS
  <2>2. IsFiniteSet(I) /\ places \in SUBSET I /\ I \in SUBSET Int
    BY <1>1, <1>2, <2>1, FS_Interval
  <2> QED
    BY <2>2, FS_Subset
<1>4. Ascending(places) \in Seq(places) /\ Len(Ascending(places)) \in Nat
  BY <1>3, AscendingLists
<1>5. Readings = Ascending(places)
  BY <1>1 DEF Readings
<1>6. Readings \in Seq(places) /\ places \in SUBSET DOMAIN chunk
  BY <1>1, <1>4, <1>5
<1> HIDE DEF Readings
<1>7. \A k \in 1 .. Len(Readings) : Readings[k] \in places
  BY <1>6
<1> QED
  BY <1>1, <1>6, <1>7

\* A datum has the row it comes from, a time in seconds, and finitely many
\* dimensions.
LEMMA DatumFacts ==
  ASSUME chunk \in Chunks, NEW i \in DOMAIN chunk, HasReading(chunk[i]), ~Unacceptable(chunk[i])
  PROVE  /\ Datum(i).source_row = i /\ Datum(i).timestamp_seconds \in Int
         /\ IsFiniteSet(DOMAIN Datum(i).dimensions)
<1>1. PICK row \in Row : row = chunk[i]
  BY MetricsAssumption DEF SendAssumption, HasReading, IsRow
<1>2. PICK of_service : of_service = [Name |-> "service.name", Value |-> row.service]
  OBVIOUS
<1>3. \E S : CollectDimensions(row) \in Seq(S)
  <2>1. PICK A : row.attributes \in Seq(A)
    BY <1>1 DEF Row, Unacceptable
  <2>2. PICK S : S = A \cup {of_service}
    OBVIOUS
  <2>3. PICK places : places = {a \in DOMAIN row.attributes : row.attributes[a].Value # Absent}
    OBVIOUS
  <2>4. row.attributes \in Seq(S)
    BY <2>1, <2>2
  <2>5. Kept(row.attributes, places) \in Seq(S)
    BY <2>3, <2>4, KeptElements
  <2>6. PICK q : q = IF row.service = "" THEN << >> ELSE <<of_service>>
    OBVIOUS
  <2>7. q \in Seq(S)
    <3>1. << >> \in Seq(S) /\ <<of_service>> \in Seq(S)
      BY <2>2
    <3> QED
      BY <2>6, <3>1
  <2>8. q \o Kept(row.attributes, places) \in Seq(S)
    BY <2>5, <2>7, ConcatSet
  <2>9. CollectDimensions(row) = q \o Kept(row.attributes, places)
    BY <1>2, <2>3, <2>6, Zenon DEF CollectDimensions
  <2> QED
    BY <2>8, <2>9
<1>4. IsFiniteSet(DOMAIN CollectDimensions(row))
  <2>1. PICK n \in Nat : DOMAIN CollectDimensions(row) = 1 .. n
    BY <1>3
  <2> QED
    BY <2>1, FS_Interval
<1>5. Datum(i).dimensions = CollectDimensions(row) /\ Datum(i).source_row = i
  BY <1>1 DEF Datum
<1>6. Datum(i).timestamp_seconds \in Int
  <2>1. Datum(i).timestamp_seconds = TimestampSeconds(row)
    BY <1>1 DEF Datum
  <2>2. row.timestamp \in {Absent} \cup Int
    BY <1>1 DEF Row
  <2>3. NowMs \in Nat /\ Second \in Nat \ {0}
    BY MetricsAssumption DEF SendAssumption, StoreAssumption
  <2>4. NowMs \div Second \in Int
    BY <2>3
  <2> QED
    BY <2>1, <2>2, <2>4 DEF TimestampSeconds
<1> QED
  BY <1>4, <1>5, <1>6

\* A batch has a datum at least, MaxDatums at most, and only datums there are.
LEMMA BatchFacts ==
  ASSUME offset \in Nat, Len(datums) \in Nat, offset < Len(datums)
  PROVE  Batch \in 1 .. MaxDatums /\ offset + Batch <= Len(datums)
<1> DEFINE L == {MaxDatums, Len(datums) - offset}
           T == {n \in 1 .. Min(L) : n = 1 \/ Bytes(SubSeq(datums, offset + 1, offset + n)) <= MaxRequestBytes}
<1>1. L \in SUBSET (Nat \ {0}) /\ L # {} /\ MaxDatums \in L /\ Len(datums) - offset \in L
  BY MetricsAssumption DEF SendAssumption
<1> HIDE DEF L
<1>2. Min(L) \in L /\ \A y \in L : Min(L) <= y
  BY <1>1, MinNat
<1>3. Min(L) \in Nat \ {0} /\ Min(L) <= MaxDatums /\ Min(L) <= Len(datums) - offset
  BY <1>1, <1>2
<1>4. T \in SUBSET (0 .. Min(L)) /\ 1 \in T
  BY <1>3
<1>5. Max(T) \in T
  <2> HIDE DEF T
  <2> QED
    BY <1>3, <1>4, MaxNat
<1>6. Max(T) \in 1 .. Min(L)
  BY <1>5
<1>7. Batch = Max(T)
  BY Zenon DEF Batch, L
<1> HIDE DEF T
<1>8. MaxDatums \in Nat
  BY MetricsAssumption DEF SendAssumption
<1> QED
  BY <1>3, <1>6, <1>7, <1>8

\* A request asks for the same batch while it is on its way.
LEMMA BatchSame ==
  ASSUME UNCHANGED <<datums, offset>>
  PROVE  /\ Batch' = Batch
         /\ \A b : BuildPutMetricDataRequest(offset, b)' = BuildPutMetricDataRequest(offset, b)
<1>1. datums' = datums /\ offset' = offset
  OBVIOUS
<1>2. Batch' = Batch
  BY <1>1 DEF Batch
<1>3. ASSUME NEW b
      PROVE  BuildPutMetricDataRequest(offset, b)' = BuildPutMetricDataRequest(offset, b)
  BY <1>1 DEF BuildPutMetricDataRequest
<1> QED
  BY <1>2, <1>3

\* Rows appended to others.
Appends(u, q, r, n) ==
  /\ u \in Seq(ToSet(u)) /\ Len(u) = Len(q) + n
  /\ \A k \in 1 .. Len(q) : u[k] = q[k]
  /\ \A k \in 1 .. n : u[Len(q) + k] = r[k]

\* They keep their places.
LEMMA AppendRows ==
  ASSUME NEW q, q \in Seq(ToSet(q)), NEW n \in Nat, NEW r, r = [k \in 1 .. n |-> r[k]]
  PROVE  Appends(q \o r, q, r, n)
<1>1. PICK m \in Nat : m = Len(q)
  OBVIOUS
<1>2. PICK S : S = ToSet(q) \cup {r[k] : k \in 1 .. n}
  OBVIOUS
<1>3. q \in Seq(S)
  <2>1. PICK Q : Q = ToSet(q)
    OBVIOUS
  <2>2. Q \in SUBSET S /\ q \in Seq(Q)
    BY <1>2, <2>1
  <2> QED
    BY <2>2
<1>4. r \in Seq(S) /\ Len(r) = n
  <2>1. \A k \in 1 .. n : r[k] \in S
    BY <1>2
  <2>2. r \in [1 .. n -> S]
    BY <2>1
  <2> QED
    BY <2>2
<1>5. PICK u : u = q \o r
  OBVIOUS
<1>6. /\ u \in Seq(S) /\ Len(u) = m + n
      /\ \A k \in 1 .. m : u[k] = q[k]
      /\ \A k \in 1 .. n : u[m + k] = r[k]
  BY <1>1, <1>3, <1>4, <1>5
<1>7. u \in Seq(ToSet(u))
  <2>1. u = [k \in 1 .. m + n |-> u[k]] /\ DOMAIN u = 1 .. m + n
    BY <1>6
  <2>2. PICK U : U = ToSet(u)
    OBVIOUS
  <2>3. \A k \in 1 .. m + n : u[k] \in U
    BY <2>1, <2>2 DEF ToSet
  <2>4. u \in [1 .. m + n -> U] /\ m + n \in Nat
    BY <2>1, <2>3
  <2> QED
    BY <2>2, <2>4
<1> QED
  BY <1>1, <1>5, <1>6, <1>7 DEF Appends

----------------------------------------------------------------------------
(* The invariant of the sender.                                            *)

\* The rows said to be ok are those of the first n readings.
Accepts(n) ==
  /\ DOMAIN result = DOMAIN chunk
  /\ \A i \in DOMAIN result : result[i] = "ok" <=> \E k \in 1 .. n : Readings[k] = i

\* A row's time is one of whole seconds.
Dated(row) == \E s \in Int : row.timestamp_ms = s * Second

\* The rows stored are those of the first n readings.
Stores(n) ==
  /\ metrics \in Seq(ToSet(metrics)) /\ Len(metrics) = n
  /\ \A k \in 1 .. n : metrics[k].source_row = Readings[k] /\ Dated(metrics[k])

\* Before the rows are read, and if one is unacceptable.
Unread ==
  /\ phase \in {"reading", "failed"} /\ datums = << >> /\ offset = 0
  /\ in_flight = Absent /\ answer = Absent /\ Accepts(0) /\ Stores(0)

\* No request is under way, nor is an answer.
Between ==
  /\ phase \in {"sending", "done", "failed"} /\ (phase = "done" => offset = Len(datums))
  /\ in_flight = Absent /\ answer = Absent /\ Stores(offset)

\* A request is on its way, or has been served, or is refused or lost.
Asked ==
  /\ phase \in {"waiting", "failed"} /\ offset < Len(datums)
  /\ \/ /\ in_flight = FormBody(BuildPutMetricDataRequest(offset, Batch))
        /\ answer = Absent /\ Stores(offset)
     \/ in_flight = Absent /\ answer = "ok" /\ Stores(offset + Batch)
     \/ in_flight = Absent /\ answer \in {Absent, "error"} /\ Stores(offset)

\* The datums of the rows with a reading.
ChunkDatums == [k \in DOMAIN Readings |-> Datum(Readings[k])]

\* The rows were read, and none is unacceptable.
RowsRead ==
  /\ \A i \in DOMAIN chunk : ~Unacceptable(chunk[i])
  /\ datums = ChunkDatums
  /\ offset \in 0 .. Len(datums) /\ Accepts(offset)

SentInv == chunk \in Chunks /\ (Unread \/ (RowsRead /\ (Between \/ Asked)))

\* What the invariant says of the datums.
LEMMA RowsReadFacts ==
  ASSUME chunk \in Chunks, RowsRead
  PROVE  /\ Len(datums) = Len(Readings) /\ Len(datums) \in Nat /\ offset \in Nat
         /\ DOMAIN datums = 1 .. Len(datums)
         /\ \A k \in 1 .. Len(datums) : /\ datums[k].source_row = Readings[k]
                                        /\ datums[k].timestamp_seconds \in Int
                                        /\ IsFiniteSet(DOMAIN datums[k].dimensions)
<1>1. PICK n \in Nat : n = Len(Readings) /\ DOMAIN Readings = 1 .. n
  BY ReadingsFacts
<1>2. datums = [k \in 1 .. n |-> Datum(Readings[k])]
  BY <1>1 DEF RowsRead, ChunkDatums
<1>3. Len(datums) = n /\ DOMAIN datums = 1 .. n
  BY <1>2
<1>4. ASSUME NEW k \in 1 .. n
      PROVE  /\ datums[k].source_row = Readings[k] /\ datums[k].timestamp_seconds \in Int
             /\ IsFiniteSet(DOMAIN datums[k].dimensions)
  <2>1. Readings[k] \in DOMAIN chunk /\ HasReading(chunk[Readings[k]])
    BY <1>1, ReadingsFacts
  <2>2. ~Unacceptable(chunk[Readings[k]])
    BY <2>1 DEF RowsRead
  <2>3. datums[k] = Datum(Readings[k])
    BY <1>2
  <2> QED
    BY <2>1, <2>2, <2>3, DatumFacts
<1> QED
  BY <1>1, <1>3, <1>4 DEF RowsRead

----------------------------------------------------------------------------
(* The steps.                                                              *)

\* The chunk and what follows from it stay.
LEMMA ChunkStays ==
  ASSUME UNCHANGED chunk
  PROVE  /\ Readings' = Readings /\ ChunkDatums' = ChunkDatums
         /\ (chunk \in Chunks => (chunk \in Chunks)')
<1>1. chunk' = chunk
  OBVIOUS
<1>2. Readings' = Readings
  BY <1>1 DEF Readings
<1> QED
  BY <1>1, <1>2 DEF ChunkDatums, Datum

\* What was stored stays so in steps that leave the table alone ...
LEMMA StoresStays ==
  ASSUME NEW n, UNCHANGED <<chunk, metrics>>, Stores(n)
  PROVE  Stores(n)'
<1>1. chunk' = chunk /\ metrics' = metrics
  OBVIOUS
<1>2. Readings' = Readings
  BY <1>1, ChunkStays
<1> QED
  BY <1>1, <1>2 DEF Stores

\* ... and what was accepted in steps that leave the result alone.
LEMMA AcceptsStays ==
  ASSUME NEW n, UNCHANGED <<chunk, result>>, Accepts(n)
  PROVE  Accepts(n)'
<1>1. chunk' = chunk /\ result' = result
  OBVIOUS
<1>2. Readings' = Readings
  BY <1>1, ChunkStays
<1> QED
  BY <1>1, <1>2 DEF Accepts

\* The rows stay read.
LEMMA RowsReadStays ==
  ASSUME UNCHANGED <<chunk, datums, offset, result>>, RowsRead
  PROVE  RowsRead'
<1>1. chunk' = chunk /\ datums' = datums /\ offset' = offset
  OBVIOUS
<1>2. Readings' = Readings /\ ChunkDatums' = ChunkDatums
  BY <1>1, ChunkStays
<1>3. Accepts(offset)'
  <2>1. PICK n : n = offset /\ n = offset'
    BY <1>1
  <2>2. Accepts(n)'
    BY <2>1, AcceptsStays DEF RowsRead
  <2> QED
    BY <2>1, <2>2
<1>4. \A i \in DOMAIN chunk' : ~Unacceptable(chunk'[i])
  BY <1>1 DEF RowsRead
<1> QED
  BY <1>1, <1>2, <1>3, <1>4 DEF RowsRead

\* The loop over the rows.
LEMMA ReadRowsStep == ASSUME SentInv, ReadRows PROVE SentInv'
<1>1. /\ chunk \in Chunks /\ Unread /\ UNCHANGED <<metrics, chunk, offset, in_flight, answer>>
      /\ chunk' = chunk /\ metrics' = metrics /\ offset' = 0
  <2>1. phase = "reading"
    BY DEF ReadRows
  <2> QED
    BY <2>1 DEF SentInv, Between, Asked, Unread, ReadRows
<1>2. Stores(0)'
  BY <1>1, StoresStays DEF Unread
<1>3. CASE \E i \in DOMAIN chunk : Unacceptable(chunk[i])
  <2>1. phase' = "failed" /\ datums' = datums /\ result' = result
    BY <1>3 DEF ReadRows
  <2>2. Accepts(0)'
    BY <1>1, <2>1, AcceptsStays DEF Unread
  <2> QED
    BY <1>1, <1>2, <2>1, <2>2 DEF SentInv, Unread
<1>4. CASE ~ \E i \in DOMAIN chunk : Unacceptable(chunk[i])
  <2>1. /\ phase' = "sending" /\ datums' = ChunkDatums
        /\ result' = [i \in DOMAIN chunk |-> IF HasReading(chunk[i]) THEN "" ELSE "NULL"]
    BY <1>4 DEF ReadRows, ChunkDatums
  <2>2. ChunkDatums' = ChunkDatums
    BY <1>1, ChunkStays
  <2>3. 0 \in 0 .. Len(ChunkDatums)
    BY <1>1, ReadingsFacts DEF ChunkDatums
  <2>4. Accepts(0)'
    <3>1. DOMAIN result' = DOMAIN chunk' /\ \A i \in DOMAIN result' : result'[i] # "ok"
      BY <1>1, <2>1
    <3>2. ~ \E k \in 1 .. 0 : TRUE
      OBVIOUS
    <3> QED
      BY <3>1, <3>2 DEF Accepts
  <2>5. \A i \in DOMAIN chunk' : ~Unacceptable(chunk'[i])
    BY <1>1, <1>4
  <2>6. RowsRead'
    BY <1>1, <2>1, <2>2, <2>3, <2>4, <2>5 DEF RowsRead
  <2>7. Between'
    BY <1>1, <1>2, <2>1 DEF Between, Unread
  <2> QED
    BY <1>1, <2>6, <2>7 DEF SentInv
<1> QED
  BY <1>3, <1>4

\* A request leaves, or cannot be written.
LEMMA SendBatchStep == ASSUME SentInv, SendBatch PROVE SentInv'
<1>1. /\ chunk \in Chunks /\ RowsRead /\ Between /\ offset < Len(datums)
      /\ UNCHANGED <<metrics, chunk, datums, offset, result, answer>>
  BY DEF SentInv, Between, Asked, Unread, SendBatch
<1>2. RowsRead' /\ (chunk \in Chunks)'
  BY <1>1, RowsReadStays
<1>3. PICK n : n = offset /\ n = offset' /\ Stores(n)' /\ Len(datums') = Len(datums)
  <2>1. Stores(offset) /\ offset' = offset
    BY <1>1 DEF Between
  <2>2. PICK n : n = offset
    OBVIOUS
  <2>3. Stores(n)'
    BY <1>1, <2>1, <2>2, StoresStays
  <2> QED
    BY <1>1, <2>1, <2>2, <2>3
<1>4. CASE phase' = "failed" /\ UNCHANGED in_flight
  BY <1>1, <1>2, <1>3, <1>4 DEF SentInv, Between
<1>5. CASE phase' = "waiting" /\ in_flight' = FormBody(BuildPutMetricDataRequest(offset, Batch))
  <2>1. in_flight' = FormBody(BuildPutMetricDataRequest(offset, Batch))'
    <3>1. /\ Batch' = Batch
          /\ BuildPutMetricDataRequest(offset, Batch)' = BuildPutMetricDataRequest(offset, Batch)
      BY <1>1, BatchSame DEF BuildPutMetricDataRequest
    <3> QED
      BY <1>5, <3>1
  <2>2. answer' = Absent
    BY <1>1 DEF Between
  <2>3. Asked'
    BY <1>1, <1>3, <1>5, <2>1, <2>2 DEF Asked
  <2> QED
    BY <1>2, <2>3 DEF SentInv
<1> QED
  BY <1>4, <1>5 DEF SendBatch

\* The table keeps its rows and their places.
Grows ==
  /\ metrics' \in Seq(ToSet(metrics')) /\ Len(metrics) <= Len(metrics')
  /\ \A k \in 1 .. Len(metrics) : metrics'[k] = metrics[k]

\* A request that is served adds its rows to the table.
LEMMA ServeStores ==
  ASSUME chunk \in Chunks, RowsRead, offset < Len(datums), Stores(offset),
         PutMetricData(FormBody(BuildPutMetricDataRequest(offset, Batch))), UNCHANGED chunk,
         NEW n, n = offset + Batch
  PROVE  Stores(n)' /\ Grows
<1>1. PICK o \in Nat : o = offset /\ o < Len(datums) /\ Len(datums) \in Nat
  BY RowsReadFacts
<1>2. PICK b \in 1 .. MaxDatums : b = Batch /\ o + b <= Len(datums) /\ b \in Nat
  <2>1. Batch \in 1 .. MaxDatums /\ offset + Batch <= Len(datums)
    BY <1>1, BatchFacts
  <2> QED
    BY <1>1, <2>1
<1>3. PICK data : data = SubSeq(datums, o + 1, o + b)
  OBVIOUS
<1>4. DOMAIN data = 1 .. b /\ \A k \in 1 .. b : data[k] = datums[o + k]
  <2>1. PICK D : datums \in Seq(D)
    <3>1. datums = [k \in 1 .. Len(Readings) |-> Datum(Readings[k])] /\ Len(Readings) \in Nat
      BY ReadingsFacts DEF RowsRead, ChunkDatums
    <3>2. PICK D : D = {Datum(Readings[k]) : k \in 1 .. Len(Readings)}
      OBVIOUS
    <3>3. datums \in [1 .. Len(Readings) -> D]
      BY <3>1, <3>2
    <3>4. datums \in Seq(D)
      BY <3>1, <3>3
    <3> QED
      BY <3>4
  <2> QED
    BY <1>1, <1>2, <1>3, <2>1
<1>5. \A k \in 1 .. b : /\ data[k].source_row = Readings[o + k]
                        /\ data[k].timestamp_seconds \in Int
                        /\ IsFiniteSet(DOMAIN data[k].dimensions)
  <2> TAKE k \in 1 .. b
  <2>1. o + k \in 1 .. Len(datums)
    BY <1>1, <1>2
  <2> QED
    BY <1>4, <2>1, RowsReadFacts
<1>6. PICK fields : fields = FormBody([Namespace |-> "ns", MetricData |-> data])
  OBVIOUS
<1>7. FormBody(BuildPutMetricDataRequest(offset, Batch)) = fields
  BY <1>1, <1>2, <1>3, <1>6, Zenon DEF BuildPutMetricDataRequest
<1>8. /\ Datums(fields) = b
      /\ \A k \in 1 .. b : RowOf(fields, k).source_row = Readings[o + k] /\ Dated(RowOf(fields, k))
  <2>1. /\ Datums(fields) = b
        /\ \A k \in 1 .. b :
             /\ RowOf(fields, k).source_row = data[k].source_row
             /\ RowOf(fields, k).timestamp_ms = data[k].timestamp_seconds * Second
    <3>1. DOMAIN data = 1 .. b /\ \A k \in 1 .. b : IsFiniteSet(DOMAIN data[k].dimensions)
      BY <1>4, <1>5
    <3>2. b \in Nat
      BY <1>2
    <3> QED
      BY <1>6, <3>1, <3>2, FormRows, Zenon
  <2> QED
    BY <1>5, <2>1 DEF Dated
<1>9. PICK r : r = [k \in 1 .. b |-> RowOf(fields, k)]
  OBVIOUS
<1>10. metrics' = metrics \o r
  <2>1. PutMetricData(fields)
    BY <1>7, Zenon
  <2>2. metrics' = metrics \o [k \in 1 .. Datums(fields) |-> RowOf(fields, k)]
    BY <2>1, Zenon DEF PutMetricData
  <2> QED
    BY <1>8, <1>9, <2>2, Zenon
<1>11. metrics \in Seq(ToSet(metrics)) /\ Len(metrics) = o
       /\ \A k \in 1 .. o : metrics[k].source_row = Readings[k] /\ Dated(metrics[k])
  BY <1>1 DEF Stores
<1>12. Appends(metrics', metrics, r, b)
  <2>1. r = [k \in 1 .. b |-> r[k]]
    BY <1>9
  <2>2. Appends(metrics \o r, metrics, r, b)
    BY <1>2, <1>11, <2>1, AppendRows
  <2> QED
    BY <1>10, <2>2
<1>13. Readings' = Readings
  BY ChunkStays
<1>14. PICK m : m = metrics'
  OBVIOUS
<1>15. m \in Seq(ToSet(m)) /\ Len(m) = o + b
  BY <1>11, <1>12, <1>14 DEF Appends
<1>16. ASSUME NEW k \in 1 .. o + b PROVE m[k].source_row = Readings[k] /\ Dated(m[k])
  <2>1. CASE k <= o
    <3>1. k \in 1 .. o
      BY <1>1, <2>1
    <3> QED
      BY <1>11, <1>12, <1>14, <3>1 DEF Appends
  <2>2. CASE ~ (k <= o)
    <3>1. k - o \in 1 .. b /\ k = o + (k - o)
      BY <1>1, <1>2, <2>2
    <3>2. m[o + (k - o)] = r[k - o]
      BY <1>11, <1>12, <1>14, <3>1 DEF Appends
    <3>3. r[k - o].source_row = Readings[o + (k - o)] /\ Dated(r[k - o])
      BY <1>8, <1>9, <3>1
    <3> QED
      BY <3>1, <3>2, <3>3
  <2> QED
    BY <2>1, <2>2
<1>17. n = o + b
  BY <1>1, <1>2
<1>18. Grows
  <2>1. Len(metrics) = o /\ o <= o + b /\ \A k \in 1 .. o : metrics'[k] = metrics[k]
    BY <1>2, <1>11, <1>12 DEF Appends
  <2> QED
    BY <1>14, <1>15, <2>1 DEF Grows
<1>19. Stores(n)'
  BY <1>13, <1>14, <1>15, <1>16, <1>17 DEF Stores, Dated
<1> QED
  BY <1>18, <1>19

\* The service serves the request or refuses it.
LEMMA ServeStep == ASSUME SentInv, Serve PROVE SentInv'
<1>1. /\ chunk \in Chunks /\ RowsRead /\ Asked /\ offset < Len(datums)
      /\ in_flight = FormBody(BuildPutMetricDataRequest(offset, Batch)) /\ Stores(offset)
      /\ phase \in {"waiting", "failed"}
  BY DEF SentInv, Between, Asked, Unread, Serve
<1>2. /\ UNCHANGED <<chunk, datums, offset, result>> /\ phase' = phase /\ in_flight' = Absent
      /\ datums' = datums /\ offset' = offset
  BY DEF Serve
<1>3. RowsRead' /\ (chunk \in Chunks)' /\ Batch' = Batch
  BY <1>1, <1>2, RowsReadStays, BatchSame
<1>4. CASE PutMetricData(in_flight) /\ answer' = "ok"
  <2>1. PICK n : n = offset + Batch
    OBVIOUS
  <2>2. PutMetricData(FormBody(BuildPutMetricDataRequest(offset, Batch)))
    BY <1>1, <1>4, Zenon
  <2>3. Stores(n)'
    BY <1>1, <1>2, <2>1, <2>2, ServeStores
  <2>4. n = (offset + Batch)'
    BY <1>2, <1>3, <2>1
  <2>5. Stores(offset + Batch)'
    BY <2>3, <2>4
  <2> QED
    BY <1>1, <1>2, <1>3, <1>4, <2>5 DEF SentInv, Asked
<1>5. CASE answer' = "error" /\ UNCHANGED metrics
  <2>1. PICK n : n = offset
    OBVIOUS
  <2>2. Stores(n)'
    BY <1>1, <1>2, <1>5, <2>1, StoresStays
  <2>3. Stores(offset)'
    BY <1>2, <2>1, <2>2
  <2> QED
    BY <1>1, <1>2, <1>3, <1>5, <2>3 DEF SentInv, Asked
<1> QED
  BY <1>4, <1>5 DEF Serve

\* A request is lost, or given up; the statement sees the interrupt, or ends.
Idle ==
  Lose \/ GiveUp \/ SeeInterrupt \/ Finish \/ Interrupt \/ UNCHANGED vars

\* None of these touches the table or the result.
LEMMA IdleStep == ASSUME SentInv, Idle PROVE SentInv'
<1>1. /\ UNCHANGED <<metrics, chunk, datums, offset, result, answer>>
      /\ chunk' = chunk /\ datums' = datums /\ offset' = offset /\ answer' = answer
  BY DEF Idle, Lose, GiveUp, SeeInterrupt, Finish, Interrupt, vars, send_vars
<1>2. (chunk \in Chunks)' /\ chunk \in Chunks
  BY <1>1 DEF SentInv
<1>3. Batch' = Batch
      /\ BuildPutMetricDataRequest(offset, Batch)' = BuildPutMetricDataRequest(offset, Batch)
  BY <1>1, BatchSame DEF BuildPutMetricDataRequest
<1>4. \A n : Stores(n) => Stores(n)'
  BY <1>1, StoresStays
<1>5. CASE Unread
  <2>1. Accepts(0)' /\ Stores(0)'
    BY <1>1, <1>4, <1>5, AcceptsStays DEF Unread
  <2>2. phase' \in {"reading", "failed"} /\ in_flight' = Absent
    BY <1>5 DEF Unread, Idle, Lose, GiveUp, SeeInterrupt, Finish, Interrupt, vars, send_vars
  <2> QED
    BY <1>1, <1>2, <1>5, <2>1, <2>2 DEF SentInv, Unread
<1>6. CASE RowsRead /\ Between
  <2>1. RowsRead' /\ Len(datums) \in Nat /\ offset \in 0 .. Len(datums)
    BY <1>1, <1>2, <1>6, RowsReadStays, RowsReadFacts DEF RowsRead
  <2>2. Stores(offset)'
    <3>1. PICK n : n = offset /\ n = offset'
      BY <1>1
    <3>2. Stores(n)'
      BY <1>4, <1>6, <3>1 DEF Between
    <3> QED
      BY <3>1, <3>2
  <2>3. /\ phase' \in {"sending", "done", "failed"} /\ in_flight' = Absent
        /\ phase' = "done" => offset = Len(datums)
    BY <1>6, <2>1 DEF Between, Idle, Lose, GiveUp, SeeInterrupt, Finish, Interrupt, vars, send_vars
  <2> QED
    BY <1>1, <1>2, <1>6, <2>1, <2>2, <2>3 DEF SentInv, Between
<1>7. CASE RowsRead /\ Asked
  <2>1. RowsRead'
    BY <1>1, <1>2, <1>7, RowsReadStays
  <2>2. phase' \in {"waiting", "failed"} /\ offset < Len(datums)
        /\ (in_flight' = in_flight \/ in_flight' = Absent)
    BY <1>7 DEF Asked, Idle, Lose, GiveUp, SeeInterrupt, Finish, Interrupt, vars, send_vars
  <2>3. PICK n : n = offset /\ n = offset'
    BY <1>1
  <2>4. Stores(offset) => Stores(offset)'
    BY <1>4, <2>3
  <2>5. PICK m : m = offset + Batch /\ m = (offset + Batch)'
    BY <1>1, <1>3
  <2>6. Stores(offset + Batch) => Stores(offset + Batch)'
    BY <1>4, <2>5
  <2>7. PICK f : /\ f = FormBody(BuildPutMetricDataRequest(offset, Batch))
                 /\ f = FormBody(BuildPutMetricDataRequest(offset, Batch))'
    BY <1>3
  <2>8. Asked'
    BY <1>1, <1>7, <2>2, <2>4, <2>6, <2>7 DEF Asked
  <2> QED
    BY <1>2, <2>1, <2>8 DEF SentInv
<1> QED
  BY <1>5, <1>6, <1>7 DEF SentInv

\* An answer arrives.
LEMMA ReceiveStep == ASSUME SentInv, Receive PROVE SentInv'
<1>1. /\ chunk \in Chunks /\ RowsRead /\ Asked /\ phase = "waiting" /\ in_flight = Absent
      /\ answer' = Absent /\ UNCHANGED <<metrics, chunk, datums>>
      /\ chunk' = chunk /\ datums' = datums /\ in_flight' = Absent
      /\ \/ answer = "ok" /\ Stores(offset + Batch)
         \/ answer = "error" /\ Stores(offset)
  BY MetricsAssumption DEF SendAssumption, SentInv, Between, Asked, Unread, Receive
<1>2. \A n : Stores(n) => Stores(n)'
  BY <1>1, StoresStays
<1>3. CASE answer = "error"
  <2>1. phase' = "failed" /\ result' = result /\ offset' = offset
    BY <1>3 DEF Receive
  <2>2. RowsRead' /\ (chunk \in Chunks)'
    BY <1>1, <2>1, RowsReadStays
  <2>3. Stores(offset)'
    <3>1. PICK n : n = offset /\ n = offset'
      BY <2>1
    <3> QED
      BY <1>1, <1>2, <1>3, <3>1
  <2> QED
    BY <1>1, <2>1, <2>2, <2>3 DEF SentInv, Between
<1>4. CASE answer = "ok"
  <2>1. PICK o \in Nat : o = offset /\ o < Len(datums) /\ Len(datums) \in Nat
    BY <1>1, RowsReadFacts DEF Asked
  <2>2. PICK b \in 1 .. MaxDatums : b = Batch /\ o + b <= Len(datums)
    BY <2>1, BatchFacts
  <2>3. /\ phase' = "sending" /\ offset' = o + b
        /\ result' = [i \in DOMAIN result |->
                        IF \E k \in 1 .. b : datums[o + k].source_row = i
                        THEN "ok" ELSE result[i]]
    BY <1>4, <2>1, <2>2 DEF Receive, Advanced
  <2>4. Readings' = Readings /\ ChunkDatums' = ChunkDatums
    BY <1>1, ChunkStays
  <2>5. \A k \in 1 .. b : datums[o + k].source_row = Readings[o + k]
    <3> TAKE k \in 1 .. b
    <3>1. o + k \in 1 .. Len(datums)
      BY <2>1, <2>2
    <3> QED
      BY <1>1, <3>1, RowsReadFacts
  <2>6. Accepts(o + b)'
    <3>1. /\ DOMAIN result = DOMAIN chunk
          /\ \A i \in DOMAIN result : result[i] = "ok" <=> \E k \in 1 .. o : Readings[k] = i
      BY <1>1, <2>1 DEF RowsRead, Accepts
    <3>2. DOMAIN result' = DOMAIN chunk'
      BY <1>1, <2>3, <3>1
    <3>3. ASSUME NEW i \in DOMAIN result
          PROVE  result'[i] = "ok" <=> \E k \in 1 .. o + b : Readings[k] = i
      <4>1. result'[i] = IF \E k \in 1 .. b : Readings[o + k] = i THEN "ok" ELSE result[i]
        BY <2>3, <2>5
      <4>2. ASSUME NEW k \in 1 .. b, Readings[o + k] = i
            PROVE  \E j \in 1 .. o + b : Readings[j] = i
        <5>1. o + k \in 1 .. o + b
          BY <2>1, <2>2
        <5> QED
          BY <4>2, <5>1
      <4>3. ASSUME NEW j \in 1 .. o + b, Readings[j] = i, j \notin 1 .. o
            PROVE  \E k \in 1 .. b : Readings[o + k] = i
        <5>1. j - o \in 1 .. b /\ o + (j - o) = j
          BY <2>1, <2>2, <4>3
        <5> QED
          BY <4>3, <5>1
      <4>4. 1 .. o \subseteq 1 .. o + b
        BY <2>1, <2>2
      <4> QED
        BY <3>1, <4>1, <4>2, <4>3, <4>4
    <3> QED
      BY <2>4, <3>1, <3>2, <3>3, <1>1 DEF Accepts
  <2>7. Stores(o + b)'
    BY <1>1, <1>2, <1>4, <2>1, <2>2, MetricsAssumption DEF SendAssumption
  <2>8. RowsRead'
    <3>1. \A i \in DOMAIN chunk' : ~Unacceptable(chunk'[i])
      BY <1>1 DEF RowsRead
    <3>2. datums' = ChunkDatums'
      BY <1>1, <2>4 DEF RowsRead
    <3>3. offset' \in 0 .. Len(datums')
      BY <1>1, <2>1, <2>2, <2>3
    <3>4. Accepts(offset)'
      BY <2>3, <2>6
    <3> QED
      BY <3>1, <3>2, <3>3, <3>4 DEF RowsRead
  <2>9. Between'
    BY <1>1, <2>3, <2>7 DEF Between
  <2> QED
    BY <1>1, <2>8, <2>9 DEF SentInv
<1> QED
  BY <1>1, <1>3, <1>4

\* Nothing was sent before the rows are read.
LEMMA SentInit == ASSUME Init, metrics = << >> PROVE SentInv
<1>1. /\ chunk \in Chunks /\ phase = "reading" /\ datums = << >> /\ offset = 0
      /\ result = [i \in DOMAIN chunk |-> ""] /\ in_flight = Absent /\ answer = Absent
  BY DEF Init
<1>2. Accepts(0)
  <2>1. DOMAIN result = DOMAIN chunk /\ \A i \in DOMAIN result : result[i] # "ok"
    BY <1>1
  <2>2. ~ \E k \in 1 .. 0 : TRUE
    OBVIOUS
  <2> QED
    BY <2>1, <2>2 DEF Accepts
<1>3. Stores(0)
  BY DEF Stores
<1> QED
  BY <1>1, <1>2, <1>3 DEF SentInv, Unread

\* The reader leaves the sender and the table alone.
LEMMA ReadStays == ASSUME Read PROVE UNCHANGED vars
<1>1. UNCHANGED metrics
  BY DEF Read, ScanNext, BeginScan, Fetch, FetchFails, Scan
<1>2. UNCHANGED send_vars
  BY DEF Read
<1> QED
  BY <1>1, <1>2 DEF vars

\* What is stored is the first n readings, and so is SentOnce.
LEMMA StoredFacts ==
  ASSUME chunk \in Chunks, NEW n \in 0 .. Len(Readings), Stores(n)
  PROVE  /\ IsPrefix(Stored, Readings)
         /\ \A i : i \in ToSet(Stored) <=> \E k \in 1 .. n : Readings[k] = i
         /\ n = Len(Readings) => Stored = Readings
         /\ n = 0 => Stored = << >>
<1>1. PICK r : r = Readings
  OBVIOUS
<1>2. Len(r) \in Nat /\ DOMAIN r = 1 .. Len(r) /\ r = [k \in 1 .. Len(r) |-> r[k]]
      /\ r \in Seq(DOMAIN chunk)
  BY <1>1, ReadingsFacts
<1>3. n \in Nat /\ n <= Len(r)
  BY <1>1, <1>2
<1>4. Stored = [k \in 1 .. n |-> r[k]]
  <2>1. DOMAIN metrics = 1 .. n /\ \A k \in 1 .. n : metrics[k].source_row = r[k]
    BY <1>1, <1>3 DEF Stores
  <2> QED
    BY <2>1 DEF Stored
<1>5. Len(Stored) = n /\ DOMAIN Stored = 1 .. n
  BY <1>3, <1>4
<1>6. IsPrefix(Stored, r)
  <2>1. PICK s : s = Stored
    OBVIOUS
  <2>2. s = [k \in 1 .. n |-> r[k]] /\ Len(s) = n
    BY <1>4, <1>5, <2>1
  <2>3. s \in Seq(DOMAIN chunk)
    BY <1>2, <1>3, <2>2
  <2>4. SubSeq(s, 1, n) = [k \in 1 .. n |-> r[k]]
    BY <1>3, <2>2, <2>3
  <2>5. SubSeq(r, 1, n) = [k \in 1 .. n |-> r[k]]
    BY <1>2, <1>3
  <2> QED
    BY <1>3, <2>1, <2>2, <2>4, <2>5 DEF IsPrefix
<1>7. \A i : i \in ToSet(Stored) <=> \E k \in 1 .. n : r[k] = i
  BY <1>4, <1>5 DEF ToSet
<1>8. n = Len(r) => Stored = r
  BY <1>2, <1>4
<1>9. n = 0 => Stored = << >>
  BY <1>4
<1> QED
  BY <1>1, <1>6, <1>7, <1>8, <1>9

\* At most b rows are between the first o readings and the first o + b.
LEMMA DoubtFacts ==
  ASSUME NEW r, NEW o \in Nat, NEW b \in Nat, NEW T,
         \A x \in T : \E k \in o + 1 .. o + b : r[k] = x
  PROVE  IsFiniteSet(T) /\ Cardinality(T) <= b
<1>1. PICK I : I = o + 1 .. o + b
  OBVIOUS
<1>2. IsFiniteSet(I) /\ Cardinality(I) = b
  <2>1. /\ IsFiniteSet(o + 1 .. o + b)
        /\ Cardinality(o + 1 .. o + b) = IF o + 1 > o + b THEN 0 ELSE (o + b) - (o + 1) + 1
    BY FS_Interval
  <2>2. (IF o + 1 > o + b THEN 0 ELSE (o + b) - (o + 1) + 1) = b
    OBVIOUS
  <2> QED
    BY <1>1, <2>1, <2>2
<1>3. PICK f : f = [k \in I |-> r[k]]
  OBVIOUS
<1>4. PICK F : F = {r[k] : k \in I}
  OBVIOUS
<1>5. f \in Surjection(I, F)
  BY <1>3, <1>4 DEF Surjection
<1>6. IsFiniteSet(F) /\ Cardinality(F) <= b
  BY <1>2, <1>5, FS_Surjection
<1>7. T \in SUBSET F
  BY <1>1, <1>4
<1>8. IsFiniteSet(T) /\ Cardinality(T) <= Cardinality(F)
  BY <1>6, <1>7, FS_Subset
<1>9. Cardinality(T) \in Nat /\ Cardinality(F) \in Nat
  BY <1>6, <1>8, FS_CardinalityType
<1> QED
  BY <1>6, <1>8, <1>9

\* What the invariant says of what was sent.
LEMMA SentSays == SentInv => SentOnce
<1>1. SentInv => SentOnce
  <2> SUFFICES ASSUME SentInv PROVE SentOnce
    OBVIOUS
  <2>1. chunk \in Chunks /\ MaxDatums \in Nat
    BY MetricsAssumption DEF SentInv, SendAssumption
  <2>2. PICK r : r = Readings /\ Len(r) \in Nat
    BY <2>1, ReadingsFacts
  \* What holds of n rows stored, o of them accepted.
  <2>3. ASSUME NEW o \in Nat, NEW b \in Nat, b <= MaxDatums, o + b <= Len(r),
               Stores(o + b), Accepts(o)
        PROVE  /\ IsPrefix(Stored, r) /\ Accepted \subseteq ToSet(Stored)
               /\ Cardinality(ToSet(Stored) \ Accepted) <= MaxDatums
               /\ b = 0 => ToSet(Stored) = Accepted
               /\ o = Len(r) => Stored = r /\ Accepted = ToSet(r)
               /\ o + b = 0 => Stored = << >>
    <3>1. /\ IsPrefix(Stored, r)
          /\ \A i : i \in ToSet(Stored) <=> \E k \in 1 .. o + b : r[k] = i
          /\ o + b = Len(r) => Stored = r
          /\ o + b = 0 => Stored = << >>
      <4>1. o + b \in 0 .. Len(Readings)
        BY <2>2, <2>3
      <4> QED
        BY <2>1, <2>2, <2>3, <4>1, StoredFacts
    <3>2. \A i : i \in Accepted <=> \E k \in 1 .. o : r[k] = i
      <4>1. \A k \in 1 .. o : r[k] \in DOMAIN chunk
        <5>1. \A k \in 1 .. o : k \in 1 .. Len(Readings)
          BY <2>2, <2>3
        <5> QED
          BY <2>1, <2>2, <5>1, ReadingsFacts
      <4> QED
        BY <2>2, <2>3, <4>1 DEF Accepts, Accepted
    <3>3. \A k : k \in 1 .. o => k \in 1 .. o + b
      BY <2>3
    <3>4. Accepted \subseteq ToSet(Stored)
      BY <3>1, <3>2, <3>3
    <3>5. Cardinality(ToSet(Stored) \ Accepted) <= MaxDatums
      <4>1. PICK T : T = ToSet(Stored) \ Accepted
        OBVIOUS
      <4>2. ASSUME NEW x \in T PROVE \E k \in o + 1 .. o + b : r[k] = x
        <5>1. PICK k \in 1 .. o + b : r[k] = x
          BY <3>1, <4>1
        <5>2. k \notin 1 .. o
          BY <3>2, <4>1, <5>1
        <5>3. k \in o + 1 .. o + b
          BY <2>3, <5>1, <5>2
        <5> QED
          BY <5>1, <5>3
      <4>3. IsFiniteSet(T) /\ Cardinality(T) <= b
        BY <4>2, DoubtFacts
      <4>4. Cardinality(T) \in Nat
        BY <4>3, FS_CardinalityType
      <4> QED
        BY <2>1, <2>3, <4>1, <4>3, <4>4
    <3>6. b = 0 => ToSet(Stored) = Accepted
      <4> HAVE b = 0
      <4>1. o + b = o
        OBVIOUS
      <4>2. \A i : i \in ToSet(Stored) <=> i \in Accepted
        BY <3>1, <3>2, <4>1, Zenon
      <4> QED
        BY <4>2
    <3>7. o = Len(r) => Stored = r /\ Accepted = ToSet(r)
      <4>1. o = Len(r) => b = 0 /\ o + b = Len(r)
        BY <2>2, <2>3
      <4> QED
        BY <3>1, <3>6, <4>1
    <3> QED
      BY <3>1, <3>4, <3>5, <3>6, <3>7
  <2>4. CASE Unread
    <3>1. PICK z \in Nat : z = 0
      OBVIOUS
    <3>2. Stores(z + z) /\ Accepts(z) /\ z + z <= Len(r) /\ z <= MaxDatums /\ z + z = 0
      BY <2>1, <2>2, <2>4, <3>1 DEF Unread
    <3>3. /\ IsPrefix(Stored, r) /\ Accepted \subseteq ToSet(Stored)
          /\ Cardinality(ToSet(Stored) \ Accepted) <= MaxDatums
          /\ Stored = << >>
      BY <2>3, <3>2
    <3> QED
      BY <2>2, <2>4, <3>3 DEF SentOnce, Unread
  <2>5. CASE RowsRead /\ (Between \/ Asked)
    <3>1. PICK o \in Nat : o = offset /\ o <= Len(r) /\ Len(datums) = Len(r) /\ Accepts(o)
      BY <2>1, <2>2, <2>5, RowsReadFacts DEF RowsRead
    <3>2. ~ \E i \in DOMAIN chunk : Unacceptable(chunk[i])
      BY <2>5 DEF RowsRead
    <3>3. CASE Stores(o)
      <4>1. Stores(o + 0) /\ 0 <= MaxDatums /\ o + 0 <= Len(r)
        BY <2>1, <3>1, <3>3
      <4>2. /\ IsPrefix(Stored, r) /\ Accepted \subseteq ToSet(Stored)
            /\ Cardinality(ToSet(Stored) \ Accepted) <= MaxDatums
            /\ ToSet(Stored) = Accepted
            /\ o = Len(r) => Stored = r /\ Accepted = ToSet(r)
        BY <2>3, <3>1, <4>1
      <4>3. phase = "done" => o = Len(r)
        BY <2>5, <3>1 DEF Between, Asked
      <4> QED
        BY <2>2, <3>2, <4>2, <4>3 DEF SentOnce
    <3>4. CASE ~Stores(o)
      <4>1. /\ phase \in {"waiting", "failed"} /\ offset < Len(datums)
            /\ Stores(offset + Batch)
        BY <2>5, <3>1, <3>4 DEF Between, Asked
      <4>2. PICK b \in Nat : b = Batch /\ b <= MaxDatums /\ o + b <= Len(r)
        <5>1. Batch \in 1 .. MaxDatums /\ offset + Batch <= Len(datums)
          BY <2>2, <3>1, <4>1, BatchFacts
        <5> QED
          BY <3>1, <5>1
      <4>3. Stores(o + b)
        BY <3>1, <4>1, <4>2
      <4>4. /\ IsPrefix(Stored, r) /\ Accepted \subseteq ToSet(Stored)
            /\ Cardinality(ToSet(Stored) \ Accepted) <= MaxDatums
        BY <2>3, <3>1, <4>2, <4>3
      <4> QED
        BY <2>2, <3>2, <4>1, <4>4 DEF SentOnce
    <3> QED
      BY <3>3, <3>4
  <2> QED
    BY <2>4, <2>5 DEF SentInv
<1> QED
  BY <1>1

----------------------------------------------------------------------------
(* The sender's theorems.                                                  *)

\* Whatever becomes of its requests, and whatever reads the table meanwhile, the
\* sender keeps SentInv.
THEOREM SentInvariant == MetricsSpec => []SentInv
<1>1. MetricsInit => SentInv
  BY SentInit DEF MetricsInit
<1>2. SentInv /\ [MetricsNext]_metrics_vars => SentInv'
  <2> SUFFICES ASSUME SentInv, [MetricsNext]_metrics_vars PROVE SentInv'
    OBVIOUS
  <2>1. CASE Next
    BY <2>1, ReadRowsStep, SendBatchStep, ServeStep, ReceiveStep, IdleStep DEF Next, Idle
  <2>2. CASE Read
    BY <2>2, ReadStays, IdleStep DEF Idle
  <2>3. CASE UNCHANGED metrics_vars
    BY <2>3, IdleStep DEF Idle, metrics_vars
  <2> QED
    BY <2>1, <2>2, <2>3 DEF MetricsNext, Send
<1> QED
  BY <1>1, <1>2, PTL DEF MetricsSpec

\* Every reading is stored at most once and in order, and the statement's word on
\* it is true but for the one request it failed at (send_metrics.cpp:363).
THEOREM MetricsSentOnce == MetricsSpec => []SentOnce
  BY SentSays, SentInvariant, PTL

----------------------------------------------------------------------------
(* What the service reads from the reader's request.                       *)

\* What BeginScan lets pass.
Acceptable ==
  /\ service \in {"listener", "aws"} /\ asked \in Settings
  /\ stage = "scanning" =>
       /\ start_ms \in Nat /\ end_ms \in Nat /\ asked.period > 0 /\ asked.max_rows >= 0
       /\ "" \notin {asked.namespace, asked.name} /\ asked.order \in {"asc", "desc"}
       /\ ValidStatistic(asked.statistic)
       /\ \A d \in asked.dimensions : "" \notin {d.Name, d.Value}

\* The types of what was asked.
LEMMA AskedTypes ==
  ASSUME Acceptable
  PROVE  /\ asked.period \in Int /\ asked.max_rows \in Int /\ Second \in Nat \ {0}
         /\ asked.dimensions \in SUBSET [Name : STRING, Value : STRING]
         /\ IsFiniteSet(asked.dimensions)
<1>1. asked \in Setting /\ Second \in Nat \ {0}
  BY MetricsAssumption DEF Acceptable, ScanAssumption, StoreAssumption
<1> QED
  BY <1>1 DEF Setting

\* The numbers up to n are n.
LEMMA UpTo == ASSUME NEW n \in Nat PROVE IsFiniteSet(1 .. n) /\ Cardinality(1 .. n) = n
<1>1. 1 \in Int /\ n \in Int
  OBVIOUS
<1>2. IsFiniteSet(1 .. n) /\ Cardinality(1 .. n) = IF 1 > n THEN 0 ELSE n - 1 + 1
  BY <1>1, FS_Interval
<1> QED
  BY <1>2

\* A finite set as a sequence: every element at one place.
LEMMA SetAsSeq ==
  ASSUME NEW S, IsFiniteSet(S)
  PROVE  /\ Cardinality(S) \in Nat /\ SetToSeq(S) \in [1 .. Cardinality(S) -> S]
         /\ \A e \in S : \E i \in 1 .. Cardinality(S) : SetToSeq(S)[i] = e
<1>1. PICK n \in Nat : n = Cardinality(S)
  BY FS_CardinalityType
<1>2. PICK I : I = 1 .. n
  OBVIOUS
<1>3. IsFiniteSet(I) /\ Cardinality(I) = n
  <2>1. IsFiniteSet(1 .. n) /\ Cardinality(1 .. n) = n
    BY UpTo
  <2> QED
    BY <1>2, <2>1
<1>4. PICK f : f \in Bijection(I, S)
  <2>1. ExistsBijection(I, S)
    BY <1>1, <1>3, FS_SameCardinalityBij
  <2> QED
    BY <2>1 DEF ExistsBijection
<1>5. f \in [I -> S] /\ IsInjective(f)
  BY <1>4 DEF Bijection, Injection, IsInjective
<1>6. PICK q : q = SetToSeq(S)
  OBVIOUS
<1>7. q \in [I -> S] /\ IsInjective(q)
  BY <1>1, <1>2, <1>5, <1>6 DEF SetToSeq
<1>8. q \in Injection(I, S)
  BY <1>7 DEF Injection, IsInjective
<1>9. q \in Surjection(I, S)
  BY <1>1, <1>3, <1>8, FS_Injection
<1> QED
  BY <1>1, <1>2, <1>6, <1>7, <1>9 DEF Surjection

GivenKeys == {<<"Namespace">>, <<"MetricName">>, <<"Stat">>, <<"Period">>, <<"StartTime">>,
              <<"EndTime">>, <<"ScanBy">>}
TokenKeys == IF token = 0 THEN {} ELSE {<<"NextToken">>}

\* The keys of a request that asks for n dimensions.
AskedKeys(n) == (GivenKeys \cup TokenKeys) \cup ({"Dimensions"} \X (1 .. n) \X {"Name", "Value"})

\* Their number is finite.
LEMMA AskedKeysFinite == ASSUME NEW n \in Nat PROVE IsFiniteSet(AskedKeys(n))
<1>1. IsFiniteSet(GivenKeys \cup TokenKeys)
  <2>1. PICK f : f = <<<<"Namespace">>, <<"MetricName">>, <<"Stat">>, <<"Period">>, <<"StartTime">>,
                       <<"EndTime">>, <<"ScanBy">>, <<"NextToken">>>>
    OBVIOUS
  <2>2. ASSUME NEW x \in GivenKeys \cup TokenKeys PROVE \E i \in 1 .. 8 : f[i] = x
    <3>1. /\ f[1] = <<"Namespace">> /\ f[2] = <<"MetricName">> /\ f[3] = <<"Stat">>
          /\ f[4] = <<"Period">> /\ f[5] = <<"StartTime">> /\ f[6] = <<"EndTime">>
          /\ f[7] = <<"ScanBy">> /\ f[8] = <<"NextToken">>
      BY <2>1
    <3>2. /\ 1 \in 1 .. 8 /\ 2 \in 1 .. 8 /\ 3 \in 1 .. 8 /\ 4 \in 1 .. 8 /\ 5 \in 1 .. 8
          /\ 6 \in 1 .. 8 /\ 7 \in 1 .. 8 /\ 8 \in 1 .. 8
      OBVIOUS
    <3> QED
      BY <3>1, <3>2, Zenon DEF GivenKeys, TokenKeys
  <2>3. IsFiniteSet(1 .. 8)
    BY UpTo
  <2> QED
    BY <2>2, <2>3, FiniteImage
<1>2. IsFiniteSet({"Dimensions"} \X (1 .. n) \X {"Name", "Value"})
  <2>1. PICK f : f = [p \in (1 .. n) \X {"Name", "Value"} |-> <<"Dimensions", p[1], p[2]>>]
    OBVIOUS
  <2>2. ASSUME NEW x \in {"Dimensions"} \X (1 .. n) \X {"Name", "Value"}
        PROVE  \E p \in (1 .. n) \X {"Name", "Value"} : f[p] = x
    <3>1. <<x[2], x[3]>> \in (1 .. n) \X {"Name", "Value"} /\ x = <<"Dimensions", x[2], x[3]>>
      OBVIOUS
    <3>2. f[<<x[2], x[3]>>] = x
      BY <2>1, <3>1
    <3> QED
      BY <3>1, <3>2
  <2>3. IsFiniteSet((1 .. n) \X {"Name", "Value"})
    <3>1. IsFiniteSet(1 .. n) /\ IsFiniteSet({"Name"}) /\ IsFiniteSet({"Value"})
      BY UpTo, FS_Singleton
    <3>2. IsFiniteSet({"Name"} \cup {"Value"})
      BY <3>1, FS_Union
    <3>3. {"Name", "Value"} = {"Name"} \cup {"Value"}
      OBVIOUS
    <3> QED
      BY <3>1, <3>2, <3>3, FS_Product
  <2> QED
    BY <2>2, <2>3, FiniteImage
<1> QED
  BY <1>1, <1>2, FS_Union DEF AskedKeys

\* The request as the service reads it: f is the request, n its dimensions' number.
Reads(f, n) ==
  /\ n \in Nat /\ DOMAIN f = AskedKeys(n)
  /\ f[<<"Namespace">>] = asked.namespace /\ f[<<"MetricName">>] = asked.name
  /\ f[<<"Stat">>] = asked.statistic /\ f[<<"Period">>] = asked.period
  /\ f[<<"StartTime">>] = [iso |-> start_ms \div Second]
  /\ f[<<"EndTime">>] = [iso |-> end_ms \div Second]
  /\ f[<<"ScanBy">>] = asked.order
  /\ token # 0 => f[<<"NextToken">>] = token
  /\ \A d \in 1 .. n :
       /\ f[<<"Dimensions", d, "Name">>] = SetToSeq(asked.dimensions)[d].Name
       /\ f[<<"Dimensions", d, "Value">>] = SetToSeq(asked.dimensions)[d].Value

\* And so the service reads it.
LEMMA RequestReads ==
  ASSUME Acceptable
  PROVE  Reads(Request, Cardinality(asked.dimensions))
<1>1. PICK n \in Nat : n = Cardinality(asked.dimensions)
  BY AskedTypes, FS_CardinalityType
<1>2. PICK q : q = SetToSeq(asked.dimensions)
  OBVIOUS
<1>3. DOMAIN q = 1 .. n
  BY <1>1, <1>2, AskedTypes, SetAsSeq
<1>4. PICK parts :
        parts = [Namespace |-> asked.namespace, MetricName |-> asked.name, Stat |-> asked.statistic,
                Period |-> asked.period, StartTime |-> FormatIso(start_ms),
                EndTime |-> FormatIso(end_ms), ScanBy |-> asked.order, NextToken |-> token]
  OBVIOUS
<1> DEFINE at(key) == IF Len(key) = 1 THEN parts[key[1]] ELSE q[key[2]][key[3]]
<1>5. Request = [key \in AskedKeys(n) |-> at(key)]
  BY <1>2, <1>3, <1>4, Zenon DEF Request, AskedKeys, GivenKeys, TokenKeys
<1> HIDE DEF at
<1>6. PICK f : f = Request
  OBVIOUS
<1>7. DOMAIN f = AskedKeys(n) /\ \A key \in AskedKeys(n) : f[key] = at(key)
  BY <1>5, <1>6
<1>8. ASSUME NEW p, <<p>> \in GivenKeys \cup TokenKeys PROVE f[<<p>>] = parts[p]
  <2>1. PICK key : key = <<p>>
    OBVIOUS
  <2>2. Len(key) = 1 /\ key[1] = p /\ key \in AskedKeys(n)
    BY <2>1, <1>8 DEF AskedKeys
  <2> QED
    BY <1>7, <2>1, <2>2 DEF at
<1>9. /\ f[<<"Namespace">>] = parts["Namespace"] /\ f[<<"MetricName">>] = parts["MetricName"]
      /\ f[<<"Stat">>] = parts["Stat"] /\ f[<<"Period">>] = parts["Period"]
      /\ f[<<"StartTime">>] = parts["StartTime"] /\ f[<<"EndTime">>] = parts["EndTime"]
      /\ f[<<"ScanBy">>] = parts["ScanBy"]
      /\ token # 0 => f[<<"NextToken">>] = parts["NextToken"]
  BY <1>8, Zenon DEF GivenKeys, TokenKeys
<1>10. /\ parts["Namespace"] = asked.namespace /\ parts["MetricName"] = asked.name
       /\ parts["Stat"] = asked.statistic /\ parts["Period"] = asked.period
       /\ parts["StartTime"] = [iso |-> start_ms \div Second]
       /\ parts["EndTime"] = [iso |-> end_ms \div Second]
       /\ parts["ScanBy"] = asked.order /\ parts["NextToken"] = token
  BY <1>4 DEF FormatIso
<1>11. ASSUME NEW d \in 1 .. n, NEW p \in {"Name", "Value"} PROVE f[<<"Dimensions", d, p>>] = q[d][p]
  <2>1. PICK key : key = <<"Dimensions", d, p>>
    OBVIOUS
  <2>2. key \in AskedKeys(n)
    BY <2>1 DEF AskedKeys
  <2>3. Len(key) = 3 /\ key[2] = d /\ key[3] = p
    BY <2>1
  <2>4. f[key] = at(key)
    BY <1>7, <2>2
  <2> QED
    BY <2>1, <2>3, <2>4 DEF at
<1>12. \A d \in 1 .. n : /\ f[<<"Dimensions", d, "Name">>] = q[d].Name
                         /\ f[<<"Dimensions", d, "Value">>] = q[d].Value
  BY <1>11
<1>13. Reads(f, n)
  BY <1>2, <1>7, <1>9, <1>10, <1>12, Zenon DEF Reads
<1> QED
  BY <1>1, <1>6, <1>13

\* The service looks for the dimensions asked for.
LEMMA FilterReads ==
  ASSUME Acceptable, stage = "scanning", NEW f, NEW n \in Nat, n = Cardinality(asked.dimensions),
         Reads(f, n)
  PROVE  Filter(f) = asked.dimensions
<1>1. PICK q : q = SetToSeq(asked.dimensions)
  OBVIOUS
<1>2. /\ q \in [1 .. n -> asked.dimensions]
      /\ \A e \in asked.dimensions : \E i \in 1 .. n : q[i] = e
  BY <1>1, AskedTypes, SetAsSeq
<1>3. /\ DOMAIN f = AskedKeys(n)
      /\ \A d \in 1 .. n : /\ f[<<"Dimensions", d, "Name">>] = q[d].Name
                           /\ f[<<"Dimensions", d, "Value">>] = q[d].Value
  BY <1>1 DEF Reads
<1>4. \A d : \A p \in {"Name", "Value"} : <<"Dimensions", d, p>> \in AskedKeys(n) <=> d \in 1 .. n
  BY DEF AskedKeys, GivenKeys, TokenKeys
<1>5. ASSUME NEW d
      PROVE  "" \notin {Get(f, <<"Dimensions", d, "Name">>), Get(f, <<"Dimensions", d, "Value">>)}
               <=> d \in 1 .. n
  <2>1. CASE d \in 1 .. n
    <3>1. /\ Get(f, <<"Dimensions", d, "Name">>) = q[d].Name
          /\ Get(f, <<"Dimensions", d, "Value">>) = q[d].Value
      BY <1>3, <1>4, <2>1 DEF Get, Keys
    <3>2. q[d] \in asked.dimensions
      BY <1>2, <2>1
    <3>3. "" \notin {q[d].Name, q[d].Value}
      BY <3>2 DEF Acceptable
    <3> QED
      BY <2>1, <3>1, <3>3
  <2>2. CASE d \notin 1 .. n
    <3>1. Get(f, <<"Dimensions", d, "Name">>) = ""
      BY <1>3, <1>4, <2>2 DEF Get, Keys
    <3> QED
      BY <2>2, <3>1
  <2> QED
    BY <2>1, <2>2
<1>6. PICK c \in Nat : c = Cardinality(AskedKeys(n)) /\ n <= c
  <2>1. PICK g : g = [i \in 1 .. n |-> <<"Dimensions", i, "Name">>]
    OBVIOUS
  <2>2. g \in Injection(1 .. n, AskedKeys(n))
    BY <1>4, <2>1 DEF Injection, IsInjective
  <2>3. Cardinality(1 .. n) <= Cardinality(AskedKeys(n))
    BY <2>2, AskedKeysFinite, FS_Injection
  <2>4. Cardinality(1 .. n) = n
    BY UpTo
  <2>5. Cardinality(AskedKeys(n)) \in Nat
    BY AskedKeysFinite, FS_CardinalityType
  <2> QED
    BY <2>3, <2>4, <2>5
<1> DEFINE there == {d \in 1 .. c : "" \notin {Get(f, <<"Dimensions", d, "Name">>),
                                              Get(f, <<"Dimensions", d, "Value">>)}}
<1>7. there = 1 .. n
  <2>1. \A d : d \in there <=> d \in 1 .. c /\ d \in 1 .. n
    BY <1>5, Zenon
  <2>2. \A d : d \in 1 .. n => d \in 1 .. c
    BY <1>6
  <2> QED
    BY <2>1, <2>2, Zenon
<1>8. Members(there) = n
  BY <1>7, AllMembers, Zenon
<1>9. Filter(f) = {[Name |-> f[<<"Dimensions", d, "Name">>], Value |-> f[<<"Dimensions", d, "Value">>]] :
                     d \in 1 .. Members(there)}
  BY <1>3, <1>6, Zenon DEF Filter, Places, Keys
<1> HIDE DEF there
<1>10. ASSUME NEW d \in 1 .. n
       PROVE  /\ [Name |-> f[<<"Dimensions", d, "Name">>], Value |-> f[<<"Dimensions", d, "Value">>]] = q[d]
              /\ q[d] \in asked.dimensions
  <2>1. q[d] \in [Name : STRING, Value : STRING] /\ q[d] \in asked.dimensions
    BY <1>2, AskedTypes
  <2> QED
    BY <1>3, <2>1
<1>11. Filter(f) = {q[d] : d \in 1 .. n}
  BY <1>8, <1>9, <1>10
<1> QED
  BY <1>2, <1>11

----------------------------------------------------------------------------
(* The window and the buckets, in whole seconds and in milliseconds.       *)

\* A product grows with its first factor.
LEMMA Times ==
  ASSUME NEW d \in Nat \ {0}, NEW x \in Int, NEW y \in Int
  PROVE  x * d < y * d <=> x < y
<1>1. ASSUME NEW u \in Int, NEW v \in Int, u < v PROVE u * d < v * d
  <2>1. PICK w \in Nat \ {0} : v = u + w
    <3>1. v - u \in Nat \ {0} /\ v = u + (v - u)
      BY <1>1
    <3> QED
      BY <3>1
  <2>2. v * d = u * d + w * d /\ w * d > 0 /\ u * d \in Int /\ w * d \in Int
    BY <2>1
  <2> QED
    BY <2>2
<1>2. x < y => x * d < y * d
  BY <1>1
<1>3. y < x => y * d < x * d
  BY <1>1
<1>4. x * d \in Int /\ y * d \in Int
  OBVIOUS
<1> QED
  BY <1>2, <1>3, <1>4

\* Cut to whole units, a number is the last multiple that is not after it.
LEMMA Cut ==
  ASSUME NEW d \in Nat \ {0}, NEW a \in Int
  PROVE  /\ a \div d \in Int /\ (a \div d) * d \in Int
         /\ (a \div d) * d <= a /\ a < (a \div d) * d + d
         /\ (a \div d) * d = a - (a % d)
         /\ \A s \in Int : /\ s * d \in Int
                           /\ s * d <= a <=> s * d <= (a \div d) * d
                           /\ (s * d) \div d = s
                           /\ s * d <= a /\ a < s * d + d => (a \div d) * d = s * d
<1>1. PICK q \in Int, r \in 0 .. d - 1 : a = q * d + r /\ a \div d = q /\ a % d = r
  <2>1. PICK q \in Int : q = a \div d
    OBVIOUS
  <2>2. PICK r \in 0 .. d - 1 : r = a % d
    OBVIOUS
  <2>3. a = q * d + r
    BY <2>1, <2>2
  <2> QED
    BY <2>1, <2>2, <2>3
<1>2. q * d \in Int
  OBVIOUS
<1>3. ASSUME NEW s \in Int
      PROVE  /\ s * d \in Int /\ (s * d <= a <=> s * d <= q * d) /\ (s * d) \div d = s
             /\ s * d <= a /\ a < s * d + d => q * d = s * d
  <2>1. s * d \in Int /\ (s + 1) * d = s * d + d /\ (q + 1) * d = q * d + d
    OBVIOUS
  <2>2. q * d < s * d <=> q < s
    BY Times
  <2>3. q + 1 \in Int /\ s + 1 \in Int
    OBVIOUS
  <2>4. s * d < (q + 1) * d <=> s < q + 1
    BY <2>3, Times
  <2>5. q * d < (s + 1) * d <=> q < s + 1
    BY <2>3, Times
  <2>6. s * d <= a <=> s * d <= q * d
    <3>1. s * d <= a => s * d < (q + 1) * d
      BY <1>1, <1>2, <2>1
    <3>2. s < q + 1 => ~ (q < s)
      OBVIOUS
    <3>3. s * d <= q * d => s * d <= a
      BY <1>1, <1>2, <2>1
    <3> QED
      BY <1>2, <2>1, <2>2, <2>4, <3>1, <3>2, <3>3
  <2>7. (s * d) \div d = s
    OBVIOUS
  <2>8. ASSUME s * d <= a, a < s * d + d PROVE q * d = s * d
    <3>1. s * d <= q * d /\ q * d < (s + 1) * d
      BY <1>1, <1>2, <2>1, <2>6, <2>8
    <3>2. ~ (q < s) /\ q < s + 1
      BY <1>2, <2>1, <2>2, <2>5, <3>1
    <3>3. q = s
      BY <3>2
    <3> QED
      BY <3>3
  <2> QED
    BY <2>1, <2>6, <2>7, <2>8
<1> QED
  BY <1>1, <1>2, <1>3

\* A table of rows of whole seconds.
WellDated(table) ==
  table \in Seq(ToSet(table)) /\ \A k \in 1 .. Len(table) : Dated(table[k])

\* The service's window, in whole seconds, is the user's: the rows selected are
\* those wanted.
LEMMA SelectedIsWanted ==
  ASSUME Acceptable, stage = "scanning", NEW f, NEW n \in Nat, n = Cardinality(asked.dimensions),
         Reads(f, n), NEW row, Dated(row)
  PROVE  Selected(row, f) <=> Wanted(row)
<1>1. PICK d \in Nat \ {0} : d = Second
  BY AskedTypes
<1>2. PICK s \in Int : row.timestamp_ms = s * d
  BY <1>1 DEF Dated
<1>3. PICK a \in Nat, b \in Nat : a = start_ms /\ b = end_ms
  BY Zenon DEF Acceptable
<1>4. /\ ParseIsoMs(f[<<"StartTime">>]) = (a \div d) * d
      /\ ParseIsoMs(f[<<"EndTime">>]) = (b \div d) * d
  BY <1>1, <1>3 DEF Reads, ParseIsoMs
<1>5. /\ s * d \in Int /\ (a \div d) * d \in Int /\ (b \div d) * d \in Int
      /\ s * d <= a <=> s * d <= (a \div d) * d
      /\ s * d <= b <=> s * d <= (b \div d) * d
  <2>1. a \in Int /\ b \in Int
    OBVIOUS
  <2>2. /\ s * d \in Int /\ (a \div d) * d \in Int
        /\ s * d <= a <=> s * d <= (a \div d) * d
    BY <2>1, Cut, Zenon
  <2>3. (b \div d) * d \in Int /\ (s * d <= b <=> s * d <= (b \div d) * d)
    BY <2>1, Cut, Zenon
  <2> QED
    BY <2>2, <2>3
<1>6. InWindow(row, ParseIsoMs(f[<<"StartTime">>]), ParseIsoMs(f[<<"EndTime">>]))
        <=> start_ms < row.timestamp_ms /\ row.timestamp_ms <= end_ms
  <2>1. (a \div d) * d < s * d <=> a < s * d
    BY <1>5
  <2>2. s * d <= (b \div d) * d <=> s * d <= b
    BY <1>5
  <2> QED
    BY <1>2, <1>3, <1>4, <2>1, <2>2, Zenon DEF InWindow
<1>7. Get(f, <<"Namespace">>) \in {"", row.namespace} <=> row.namespace = asked.namespace
  <2>1. Get(f, <<"Namespace">>) = asked.namespace
    BY DEF Get, Keys, Reads, AskedKeys, GivenKeys
  <2>2. asked.namespace # ""
    BY DEF Acceptable
  <2> QED
    BY <2>1, <2>2
<1>8. f[<<"MetricName">>] = asked.name
  BY DEF Reads
<1>9. Filter(f) = asked.dimensions
  BY FilterReads
<1> QED
  BY <1>6, <1>7, <1>8, <1>9, Zenon DEF Selected, Wanted

\* The beginning of a row's period.
StartOf(row) == row.timestamp_ms - (row.timestamp_ms % PeriodMs)

\* A bucket is the beginning of its rows' period; the rows in it are those from
\* there on, for a period.
LEMMA BucketIsStart ==
  ASSUME Acceptable, stage = "scanning", NEW row, Dated(row)
  PROVE  /\ Bucket(row, asked.period) = StartOf(row) /\ StartOf(row) \in Int
         /\ (StartOf(row) \div Second) * Second = StartOf(row)
         /\ \A other : Dated(other) =>
              (StartOf(other) = StartOf(row) <=> /\ StartOf(row) <= other.timestamp_ms
                                                 /\ other.timestamp_ms < StartOf(row) + PeriodMs)
<1>1. PICK e \in Nat \ {0}, p \in Nat \ {0} : e = Second /\ p = asked.period
  <2>1. asked.period \in Int /\ asked.period > 0
    BY AskedTypes, Zenon DEF Acceptable
  <2>2. asked.period \in Nat \ {0}
    BY <2>1
  <2> QED
    BY <2>2, AskedTypes
<1>2. PICK d \in Nat \ {0} : d = p * e
  <2>1. p * e \in Nat \ {0}
    OBVIOUS
  <2> QED
    BY <2>1
<1>3. PeriodMs = d
  BY <1>1, <1>2 DEF PeriodMs
<1>4. PICK t \in Int : t = row.timestamp_ms
  <2>1. PICK s \in Int : row.timestamp_ms = s * e
    BY <1>1 DEF Dated
  <2>2. s * e \in Int
    OBVIOUS
  <2> QED
    BY <2>1, <2>2
<1>5. PICK q \in Int : q = t \div d
  OBVIOUS
<1>6. StartOf(row) = q * d /\ q * d \in Int
  <2>1. StartOf(row) = t - (t % d)
    BY <1>3, <1>4, Zenon DEF StartOf
  <2>2. (t \div d) * d = t - (t % d) /\ (t \div d) * d \in Int
    BY Cut
  <2> QED
    BY <1>5, <2>1, <2>2
<1>7. Bucket(row, asked.period) = q * d
  BY <1>1, <1>2, <1>4, <1>5 DEF Bucket
<1>8. (StartOf(row) \div Second) * Second = StartOf(row)
  <2>1. q * d = (q * p) * e /\ q * p \in Int
    BY <1>2
  <2>2. ((q * p) * e) \div e = q * p
    BY <2>1, Cut
  <2> QED
    BY <1>1, <1>6, <2>1, <2>2
<1>9. ASSUME NEW other, Dated(other)
      PROVE  StartOf(other) = StartOf(row) <=> /\ StartOf(row) <= other.timestamp_ms
                                               /\ other.timestamp_ms < StartOf(row) + PeriodMs
  <2>1. PICK u \in Int : u = other.timestamp_ms
    <3>1. PICK s \in Int : other.timestamp_ms = s * e
      BY <1>1, <1>9 DEF Dated
    <3>2. s * e \in Int
      OBVIOUS
    <3> QED
      BY <3>1, <3>2
  <2>2. StartOf(other) = (u \div d) * d
    BY <1>3, <2>1, Cut DEF StartOf
  <2>3. /\ (u \div d) * d <= u /\ u < (u \div d) * d + d
        /\ q * d <= u /\ u < q * d + d => (u \div d) * d = q * d
    BY Cut
  <2> QED
    BY <1>3, <1>6, <2>1, <2>2, <2>3
<1> QED
  BY <1>6, <1>7, <1>8, <1>9

\* The places of the rows wanted, and their periods.
WantedPlaces(table) == {i \in DOMAIN table : Wanted(table[i])}
Size(table) == Cardinality(Starts(table))

\* What the periods of a table are.
LEMMA StartsFacts ==
  ASSUME Acceptable, stage = "scanning", NEW table, WellDated(table)
  PROVE  /\ Starts(table) = {StartOf(table[i]) : i \in WantedPlaces(table)}
         /\ Starts(table) \in SUBSET Int /\ IsFiniteSet(Starts(table)) /\ Size(table) \in Nat
         /\ \A b \in Starts(table) : (b \div Second) * Second = b
<1>1. DOMAIN table = 1 .. Len(table) /\ Len(table) \in Nat
  BY DEF WellDated
<1>2. PICK W : W = WantedPlaces(table)
  OBVIOUS
<1>3. W \in SUBSET (1 .. Len(table)) /\ \A i \in W : Dated(table[i])
  BY <1>1, <1>2 DEF WantedPlaces, WellDated
<1>4. Starts(table) = {StartOf(table[i]) : i \in W}
  BY <1>2, Zenon DEF Starts, StartOf, WantedPlaces
<1>5. \A i \in W : StartOf(table[i]) \in Int /\ (StartOf(table[i]) \div Second) * Second = StartOf(table[i])
  BY <1>3, BucketIsStart
<1>6. IsFiniteSet(W)
  <2>1. IsFiniteSet(1 .. Len(table))
    BY <1>1, UpTo
  <2> QED
    BY <1>3, <2>1, FS_Subset
<1>7. IsFiniteSet(Starts(table))
  <2>1. PICK f : f = [i \in W |-> StartOf(table[i])]
    OBVIOUS
  <2>2. \A b \in Starts(table) : \E i \in W : f[i] = b
    BY <1>4, <2>1
  <2> QED
    BY <1>6, <2>2, FiniteImage
<1>8. Size(table) \in Nat
  BY <1>7, FS_CardinalityType DEF Size
<1> QED
  BY <1>2, <1>4, <1>5, <1>7, <1>8

\* The places of the rows wanted from the period that begins at b.
LEMMA PlacesFrom ==
  ASSUME Acceptable, stage = "scanning", NEW table, WellDated(table), NEW b \in Starts(table)
  PROVE  {i \in WantedPlaces(table) : StartOf(table[i]) = b}
           = {i \in DOMAIN table : /\ Wanted(table[i]) /\ b <= table[i].timestamp_ms
                                   /\ table[i].timestamp_ms < b + PeriodMs}
<1>1. PICK j \in WantedPlaces(table) : b = StartOf(table[j])
  BY StartsFacts
<1>2. \A i \in DOMAIN table : Dated(table[i])
  BY DEF WellDated
<1>3. j \in DOMAIN table
  BY DEF WantedPlaces
<1>4. \A i \in DOMAIN table :
        StartOf(table[i]) = b <=> b <= table[i].timestamp_ms /\ table[i].timestamp_ms < b + PeriodMs
  BY <1>1, <1>2, <1>3, BucketIsStart, Zenon
<1> QED
  BY <1>4, Zenon DEF WantedPlaces

\* What a table answers for the i-th of its periods.
Value(table, i) == Aggregate(asked.statistic, ValuesFrom(table, Ascending(Starts(table))[i]))

\* What the listener answers.
LEMMA QueryAnswers ==
  ASSUME Acceptable, stage = "scanning", WellDated(metrics), NEW f, NEW n \in Nat,
         n = Cardinality(asked.dimensions), Reads(f, n)
  PROVE  GetMetricData(f) =
           [StatusCode |-> "Complete",
            Timestamps |-> [i \in 1 .. Size(metrics) |->
                              [iso |-> Ascending(Starts(metrics))[i] \div Second]],
            Values |-> [i \in 1 .. Size(metrics) |-> Value(metrics, i)],
            NextToken |-> 0]
<1> DEFINE rows == {i \in DOMAIN metrics : Selected(metrics[i], f)}
<1>1. Period(f) = asked.period /\ Statistic(f) = asked.statistic
  <2>1. <<"Period">> \in Keys(f) /\ <<"Stat">> \in Keys(f)
    BY DEF Keys, Reads, AskedKeys, GivenKeys
  <2>2. asked.statistic # ""
    BY DEF Acceptable, ValidStatistic, Statistics
  <2> QED
    BY <2>1, <2>2 DEF Period, Statistic, Get, Reads
<1>2. DOMAIN metrics = 1 .. Len(metrics) /\ \A i \in DOMAIN metrics : Dated(metrics[i])
  BY DEF WellDated
<1>3. rows = WantedPlaces(metrics)
  <2>1. \A i \in DOMAIN metrics : Selected(metrics[i], f) <=> Wanted(metrics[i])
    BY <1>2, SelectedIsWanted
  <2> QED
    BY <2>1, Zenon DEF WantedPlaces
<1> HIDE DEF rows
<1>4. rows \in SUBSET DOMAIN metrics
  BY DEF rows
<1>5. \A i \in rows : Bucket(metrics[i], asked.period) = StartOf(metrics[i])
  BY <1>2, <1>4, BucketIsStart
<1>6. {Bucket(metrics[i], asked.period) : i \in rows} = Starts(metrics)
  BY <1>3, <1>5, StartsFacts
<1>7. PICK B : B = Ascending(Starts(metrics))
  OBVIOUS
<1>8. DOMAIN B = 1 .. Size(metrics) /\ \A i \in DOMAIN B : B[i] \in Starts(metrics)
  <2>1. B \in Seq(Starts(metrics)) /\ Len(B) = Size(metrics)
    BY <1>7, StartsFacts, AscendingLists DEF Size
  <2> QED
    BY <2>1
<1> DEFINE of(b) == Kept(metrics, {i \in rows : Bucket(metrics[i], asked.period) = b})
           values(b) == [k \in DOMAIN of(b) |-> of(b)[k].value]
<1>9. ASSUME NEW b \in Starts(metrics) PROVE values(b) = ValuesFrom(metrics, b)
  <2>1. PICK P : P = {i \in rows : Bucket(metrics[i], asked.period) = b}
    OBVIOUS
  <2>2. P = {i \in WantedPlaces(metrics) : StartOf(metrics[i]) = b}
    BY <1>3, <1>5, <2>1
  <2>3. P = {i \in DOMAIN metrics : /\ Wanted(metrics[i]) /\ b <= metrics[i].timestamp_ms
                                    /\ metrics[i].timestamp_ms < b + PeriodMs}
    BY <2>2, PlacesFrom
  <2> QED
    BY <2>1, <2>3, Zenon DEF ValuesFrom
<1>10. GetMetricData(f) =
         [StatusCode |-> "Complete", Timestamps |-> [i \in DOMAIN B |-> FormatIso(B[i])],
          Values |-> [i \in DOMAIN B |-> Aggregate(asked.statistic, values(B[i]))], NextToken |-> 0]
  BY <1>1, <1>6, <1>7, Zenon DEF GetMetricData, rows
<1> HIDE DEF values
<1>11. [i \in DOMAIN B |-> FormatIso(B[i])] = [i \in 1 .. Size(metrics) |-> [iso |-> B[i] \div Second]]
  BY <1>8 DEF FormatIso
<1>12. [i \in DOMAIN B |-> Aggregate(asked.statistic, values(B[i]))]
         = [i \in 1 .. Size(metrics) |-> Value(metrics, i)]
  <2>1. \A i \in 1 .. Size(metrics) : values(B[i]) = ValuesFrom(metrics, B[i])
    BY <1>8, <1>9
  <2>2. \A i \in 1 .. Size(metrics) : Aggregate(asked.statistic, values(B[i])) = Value(metrics, i)
    BY <1>7, <2>1 DEF Value
  <2> QED
    BY <1>8, <2>2
<1> QED
  BY <1>7, <1>10, <1>11, <1>12, Zenon

----------------------------------------------------------------------------
(* The pages.                                                              *)

\* A part of a sequence of N elements.
LEMMA PartOf ==
  ASSUME NEW N \in Nat, NEW q, q = [i \in 1 .. N |-> q[i]], NEW m \in 0 .. N, NEW n \in m .. N
  PROVE  SubSeq(q, m + 1, n) = [i \in 1 .. n - m |-> q[m + i]]
<1>1. PICK S : S = {q[i] : i \in 1 .. N}
  OBVIOUS
<1>2. q \in Seq(S) /\ Len(q) = N
  <2>1. \A i \in 1 .. N : q[i] \in S
    BY <1>1
  <2>2. q \in [1 .. N -> S]
    BY <2>1
  <2> QED
    BY <2>2
<1>3. PICK u : u = SubSeq(q, m + 1, n)
  OBVIOUS
<1>4. Len(u) = n - m /\ n - m \in Nat /\ u \in Seq(S)
  <2>1. CASE m = n
    <3>1. u = << >>
      BY <1>2, <1>3, <2>1
    <3> QED
      BY <2>1, <3>1
  <2>2. CASE m < n
    <3>1. n - m \in Nat /\ n - (m + 1) + 1 = n - m /\ m + 1 \in 1 .. N /\ n \in 1 .. N
      BY <2>2
    <3>2. u \in Seq(S)
      <4>1. PICK a \in 1 .. N, b \in 1 .. N : a = m + 1 /\ b = n
        BY <3>1
      <4>2. \A i \in a .. b : q[i] \in S
        BY <1>1
      <4>3. SubSeq(q, a, b) \in Seq(S)
        <5>1. a \in Int /\ b \in Int
          OBVIOUS
        <5> QED
          BY <4>2, <5>1, SubSeqProperties, Zenon
      <4> QED
        BY <1>3, <4>1, <4>3
    <3>3. Len(u) = n - m
      BY <1>2, <1>3, <2>2, <3>1
    <3> QED
      BY <3>1, <3>2, <3>3
  <2> QED
    BY <2>1, <2>2
<1>5. u = [i \in 1 .. n - m |-> u[i]]
  BY <1>4
<1>6. \A i \in 1 .. n - m : u[i] = q[m + i]
  BY <1>2, <1>3
<1> QED
  BY <1>3, <1>5, <1>6

\* The order of the pages, and what they hold in it.
Up == service = "listener" \/ asked.order = "asc"
Place(table, i) == IF Up THEN i ELSE Size(table) + 1 - i
Point(table, j) == [time |-> Ascending(Starts(table))[j] \div Second, value |-> Value(table, j)]
Whole(table) == [i \in 1 .. Size(table) |-> Point(table, Place(table, i))]

\* All of them are a sequence.
LEMMA WholeFacts ==
  ASSUME NEW table, Size(table) \in Nat
  PROVE  /\ Whole(table) \in Seq(ToSet(Whole(table))) /\ Len(Whole(table)) = Size(table)
         /\ \A i \in 1 .. Size(table) : Whole(table)[i] = Point(table, Place(table, i))
         /\ \A i \in 1 .. Size(table) : Place(table, i) \in 1 .. Size(table)
<1>1. PICK N \in Nat : N = Size(table)
  OBVIOUS
<1>2. PICK w : w = Whole(table)
  OBVIOUS
<1>3. w = [i \in 1 .. N |-> Point(table, Place(table, i))]
  BY <1>1, <1>2 DEF Whole
<1>4. DOMAIN w = 1 .. N /\ \A i \in 1 .. N : w[i] \in ToSet(w)
  BY <1>3 DEF ToSet
<1>5. PICK S : S = ToSet(w)
  OBVIOUS
<1>6. w \in [1 .. N -> S]
  BY <1>3, <1>4, <1>5
<1>7. w \in Seq(S) /\ Len(w) = N
  BY <1>6
<1>8. \A i \in 1 .. N : Place(table, i) \in 1 .. N
  BY <1>1 DEF Place
<1> QED
  BY <1>1, <1>2, <1>3, <1>5, <1>7, <1>8

\* The periods and the values in the order of the pages.
InOrder(T, V) ==
  /\ T = [i \in 1 .. Size(metrics) |->
            [iso |-> Ascending(Starts(metrics))[Place(metrics, i)] \div Second]]
  /\ V = [i \in 1 .. Size(metrics) |-> Value(metrics, Place(metrics, i))]

\* A page from m + 1 to n.
PageOf(response, m, n) ==
  \E T, V : /\ InOrder(T, V) /\ response.Timestamps = SubSeq(T, m + 1, n)
            /\ response.Values = SubSeq(V, m + 1, n)

\* What Fetch makes of a page from m + 1 to n.
LEMMA PagePoints ==
  ASSUME Size(metrics) \in Nat, NEW m \in 0 .. Size(metrics), NEW n \in m .. Size(metrics),
         NEW response, PageOf(response, m, n)
  PROVE  Points(response) = SubSeq(Whole(metrics), m + 1, n)
<1>1. PICK N \in Nat : N = Size(metrics)
  OBVIOUS
<1>2. PICK w : w = Whole(metrics)
  OBVIOUS
<1>0. PICK T, V : /\ InOrder(T, V) /\ response.Timestamps = SubSeq(T, m + 1, n)
                  /\ response.Values = SubSeq(V, m + 1, n)
  BY DEF PageOf
<1>3. /\ w = [i \in 1 .. N |-> Point(metrics, Place(metrics, i))]
      /\ T = [i \in 1 .. N |->
                [iso |-> Ascending(Starts(metrics))[Place(metrics, i)] \div Second]]
      /\ V = [i \in 1 .. N |-> Value(metrics, Place(metrics, i))]
  BY <1>0, <1>1, <1>2 DEF Whole, InOrder
<1>4. /\ SubSeq(T, m + 1, n) = [i \in 1 .. n - m |-> T[m + i]]
      /\ SubSeq(V, m + 1, n) = [i \in 1 .. n - m |-> V[m + i]]
      /\ SubSeq(w, m + 1, n) = [i \in 1 .. n - m |-> w[m + i]]
  <2>1. m \in 0 .. N /\ n \in m .. N
    BY <1>1
  <2>2. /\ T = [i \in 1 .. N |-> T[i]] /\ V = [i \in 1 .. N |-> V[i]]
        /\ w = [i \in 1 .. N |-> w[i]]
    BY <1>1, <1>3
  <2>3. SubSeq(T, m + 1, n) = [i \in 1 .. n - m |-> T[m + i]]
    BY <2>1, <2>2, PartOf
  <2>4. SubSeq(V, m + 1, n) = [i \in 1 .. n - m |-> V[m + i]]
    BY <2>1, <2>2, PartOf
  <2>5. SubSeq(w, m + 1, n) = [i \in 1 .. n - m |-> w[m + i]]
    BY <2>1, <2>2, PartOf
  <2> QED
    BY <2>3, <2>4, <2>5
<1>5. ASSUME NEW i \in 1 .. n - m
      PROVE  [time |-> T[m + i].iso, value |-> V[m + i]] = w[m + i]
  <2>1. m + i \in 1 .. N
    BY <1>1
  <2> QED
    BY <1>1, <1>3, <2>1 DEF Point
<1>6. Points(response) = [i \in 1 .. n - m |-> [time |-> T[m + i].iso, value |-> V[m + i]]]
  <2>1. PICK t, v : t = SubSeq(T, m + 1, n) /\ v = SubSeq(V, m + 1, n)
    OBVIOUS
  <2>2. Points(response) = [i \in DOMAIN v |-> [time |-> t[i].iso, value |-> v[i]]]
    BY <1>0, <2>1 DEF Points, XmlTimestampSeconds
  <2>3. DOMAIN v = 1 .. n - m /\ \A i \in 1 .. n - m : v[i] = V[m + i] /\ t[i] = T[m + i]
    BY <1>4, <2>1
  <2> QED
    BY <2>2, <2>3
<1>7. Points(response) = [i \in 1 .. n - m |-> w[m + i]]
  BY <1>5, <1>6
<1> QED
  BY <1>2, <1>4, <1>7

\* What is known of the request and the table when a page is fetched.
Querying ==
  /\ Acceptable /\ stage = "scanning" /\ WellDated(metrics)

\* What an answer of the listener is.
LEMMA ListenerPoints ==
  ASSUME Querying, service = "listener", NEW response, response = GetMetricData(Request)
  PROVE  Points(response) = Whole(metrics) /\ response.NextToken = 0
<1>1. PICK N \in Nat : N = Size(metrics)
  BY StartsFacts DEF Querying
<1>2. PICK T, V :
        /\ T = [i \in 1 .. N |-> [iso |-> Ascending(Starts(metrics))[i] \div Second]]
        /\ V = [i \in 1 .. N |-> Value(metrics, i)]
  OBVIOUS
<1>3. response = [StatusCode |-> "Complete", Timestamps |-> T, Values |-> V, NextToken |-> 0]
  BY <1>1, <1>2, RequestReads, QueryAnswers, AskedTypes, FS_CardinalityType DEF Querying
<1>4. Points(response) = [i \in DOMAIN V |-> [time |-> T[i].iso, value |-> V[i]]]
  BY <1>3 DEF Points, XmlTimestampSeconds
<1>5. \A i \in 1 .. N : Place(metrics, i) = i
  BY DEF Place, Up
<1>6. Whole(metrics) = [i \in 1 .. N |-> Point(metrics, i)]
  BY <1>1, <1>5 DEF Whole
<1>7. \A i \in 1 .. N : [time |-> T[i].iso, value |-> V[i]] = Point(metrics, i)
  BY <1>2 DEF Point
<1>8. Points(response) = [i \in 1 .. N |-> Point(metrics, i)]
  BY <1>2, <1>4, <1>7
<1> QED
  BY <1>3, <1>6, <1>8

\* A page of AWS after the first m points.
PageAfter(response, m) ==
  \E n \in m .. Size(metrics) :
    /\ Points(response) = SubSeq(Whole(metrics), m + 1, n)
    /\ \/ response.NextToken = n + 1 /\ n + 1 \notin {0, token}
       \/ n = Size(metrics) /\ response.NextToken \in {0, token}

\* What a page of AWS is.
LEMMA AwsPoints ==
  ASSUME Querying, service = "aws", NEW m \in 0 .. Size(metrics),
         token = 0 => m = 0, token # 0 => token = m + 1,
         NEW response, response \in Pages(Request)
  PROVE  PageAfter(response, m)
<1>1. PICK N \in Nat : N = Size(metrics)
  BY StartsFacts DEF Querying
<1>2. PICK d \in Nat : d = Cardinality(asked.dimensions)
  BY AskedTypes, FS_CardinalityType DEF Querying
<1>3. PICK f : f = Request
  OBVIOUS
<1>4. Reads(f, d)
  BY <1>2, <1>3, RequestReads DEF Querying
<1>5. PICK T, V :
        /\ T = [i \in 1 .. N |-> [iso |-> Ascending(Starts(metrics))[i] \div Second]]
        /\ V = [i \in 1 .. N |-> Value(metrics, i)]
  OBVIOUS
<1> DEFINE whole == GetMetricData(f)
<1>7. whole = [StatusCode |-> "Complete", Timestamps |-> T, Values |-> V, NextToken |-> 0]
  BY <1>1, <1>2, <1>4, <1>5, QueryAnswers DEF Querying
<1> HIDE DEF whole
<1>8. whole.Timestamps = T /\ whole.Values = V /\ Len(V) = N /\ Len(T) = N
  BY <1>5, <1>7
<1>9. f[<<"ScanBy">>] = asked.order
  BY <1>4 DEF Reads
<1> DEFINE used == IF <<"NextToken">> \in Keys(f) THEN f[<<"NextToken">>] ELSE 0
<1>11. used = token
  <2>1. <<"NextToken">> \in Keys(f) <=> token # 0
    BY <1>4 DEF Keys, Reads, AskedKeys, GivenKeys, TokenKeys
  <2> QED
    BY <1>4, <2>1 DEF Reads
<1> HIDE DEF used
<1>12. (IF used = 0 THEN 0 ELSE used - 1) = m
  BY <1>11
<1> DEFINE count == Len(whole.Values)
           from == IF used = 0 THEN 0 ELSE used - 1
           cut(seq, a, z) == SubSeq(IF f[<<"ScanBy">>] = "asc" THEN seq ELSE Reverse(seq), a, z)
           page(n, next) == [StatusCode |-> IF n < count THEN "PartialData" ELSE "Complete",
                             Timestamps |-> cut(whole.Timestamps, from + 1, n),
                             Values |-> cut(whole.Values, from + 1, n), NextToken |-> next]
<1>13. Pages(f) = {page(n, n + 1) : n \in {n \in from .. count : n + 1 # used}}
                    \cup {page(count, t) : t \in {0, used}}
  BY Zenon DEF Pages, count, from, cut, page, whole, used
<1>14. count = N /\ from = m
  BY <1>8, <1>12
<1> HIDE DEF count, from
<1> DEFINE says(n, x) == /\ response = page(n, x)
                         /\ \/ x = n + 1 /\ n + 1 # token
                            \/ n = N /\ x \in {0, token}
<1>n. PICK n \in m .. N : \E x : says(n, x)
  <2>1. CASE \E n \in {n \in from .. count : n + 1 # used} : response = page(n, n + 1)
    <3>1. PICK n \in from .. count : n + 1 # used /\ response = page(n, n + 1)
      BY <2>1
    <3> QED
      BY <1>11, <1>14, <3>1, Zenon
  <2>2. CASE \E t \in {0, used} : response = page(count, t)
    <3>1. N \in m .. N
      BY <1>1
    <3> QED
      BY <1>11, <1>14, <2>2, <3>1, Zenon
  <2>3. response \in {page(n, n + 1) : n \in {n \in from .. count : n + 1 # used}}
                       \cup {page(count, t) : t \in {0, used}}
    BY <1>3, <1>13, Zenon
  <2> QED
    BY <2>1, <2>2, <2>3, Zenon
<1>15. PICK next : says(n, next)
  BY <1>n, Zenon
<1> DEFINE turned(q) == IF asked.order = "asc" THEN q ELSE Reverse(q)
<1>16. /\ response.Timestamps = SubSeq(turned(T), m + 1, n)
       /\ response.Values = SubSeq(turned(V), m + 1, n) /\ response.NextToken = next
  <2>1. /\ response.Timestamps = cut(whole.Timestamps, from + 1, n)
        /\ response.Values = cut(whole.Values, from + 1, n) /\ response.NextToken = next
    BY <1>15
  <2> QED
    BY <1>8, <1>9, <1>14, <2>1, Zenon
<1>17. /\ turned(T) = [i \in 1 .. N |-> [iso |-> Ascending(Starts(metrics))[Place(metrics, i)] \div Second]]
       /\ turned(V) = [i \in 1 .. N |-> Value(metrics, Place(metrics, i))]
  <2>1. CASE asked.order = "asc"
    BY <1>5, <2>1 DEF Place, Up
  <2>2. CASE asked.order # "asc"
    <3>1. \A i \in 1 .. N : Place(metrics, i) = (N - i) + 1 /\ (N - i) + 1 \in 1 .. N
      BY <1>1, <2>2 DEF Place, Up
    <3>2. /\ Reverse(T) = [i \in 1 .. N |-> T[(N - i) + 1]]
          /\ Reverse(V) = [i \in 1 .. N |-> V[(N - i) + 1]]
      BY <1>8 DEF Reverse
    <3>3. Reverse(T) = [i \in 1 .. N |-> [iso |-> Ascending(Starts(metrics))[Place(metrics, i)] \div Second]]
      BY <1>5, <3>1, <3>2
    <3>4. Reverse(V) = [i \in 1 .. N |-> Value(metrics, Place(metrics, i))]
      BY <1>5, <3>1, <3>2
    <3> QED
      BY <2>2, <3>3, <3>4
  <2> QED
    BY <2>1, <2>2
<1>18. Points(response) = SubSeq(Whole(metrics), m + 1, n)
  <2>1. PICK t, v : t = turned(T) /\ v = turned(V)
    OBVIOUS
  <2> HIDE DEF turned
  <2>2. n \in m .. Size(metrics)
    BY <1>1
  <2>3. /\ InOrder(t, v)
        /\ response.Timestamps = SubSeq(t, m + 1, n) /\ response.Values = SubSeq(v, m + 1, n)
    BY <1>1, <1>16, <1>17, <2>1 DEF InOrder
  <2>4. Size(metrics) \in Nat
    BY <1>1
  <2>5. PageOf(response, m, n)
    BY <2>3 DEF PageOf
  <2> QED
    BY <2>2, <2>3, <2>4, <2>5, PagePoints
<1>19. n + 1 # 0
  BY <1>1
<1> QED
  BY <1>1, <1>15, <1>16, <1>18, <1>19 DEF PageAfter

\* Of the first m elements of w, the first k and the others; c more come over.
CutUp(w, m, k, c) ==
  /\ Len(SubSeq(w, 1, k)) = k /\ Len(SubSeq(w, k + 1, m)) = m - k
  /\ SubSeq(w, k + 1, m) = << >> <=> k = m
  /\ SubSeq(w, 1, k) \o SubSeq(SubSeq(w, k + 1, m), 1, c) = SubSeq(w, 1, k + c)
  /\ SubSeq(SubSeq(w, k + 1, m), c + 1, m - k) = SubSeq(w, (k + c) + 1, m)

\* The pieces of a sequence make it up.
LEMMA Pieces ==
  ASSUME NEW S, NEW w \in Seq(S), NEW m \in 0 .. Len(w), NEW k \in 0 .. m, NEW c \in 0 .. m - k
  PROVE  CutUp(w, m, k, c)
<1>1. PICK N \in Nat : N = Len(w)
  OBVIOUS
<1>2. w = [i \in 1 .. N |-> w[i]] /\ \A i \in 1 .. N : w[i] \in S
  BY <1>1
<1>3. k \in Nat /\ m \in Nat /\ c \in Nat /\ m - k \in Nat /\ k + c \in k .. m /\ m \in 0 .. N
  BY <1>1
<1>4. PICK p : p = SubSeq(w, k + 1, m)
  OBVIOUS
<1>5. p = [i \in 1 .. m - k |-> w[k + i]]
  <2>1. m \in k .. N /\ k \in 0 .. N
    BY <1>3
  <2> QED
    BY <1>2, <1>4, <2>1, PartOf
<1>6. Len(p) = m - k /\ p = [i \in 1 .. m - k |-> p[i]]
  BY <1>3, <1>5
<1>7. p = << >> <=> k = m
  <2>1. p = << >> => Len(p) = 0
    OBVIOUS
  <2>2. k = m => p = << >>
    <3> HAVE k = m
    <3>1. p = [i \in 1 .. 0 |-> w[k + i]]
      BY <1>5
    <3> QED
      BY <3>1
  <2> QED
    BY <1>3, <1>6, <2>1, <2>2
<1>8. SubSeq(p, c + 1, m - k) = SubSeq(w, (k + c) + 1, m)
  <2>1. SubSeq(p, c + 1, m - k) = [i \in 1 .. (m - k) - c |-> p[c + i]]
    <3>1. PICK u \in Nat : u = m - k /\ c \in 0 .. u /\ u \in c .. u
      BY <1>3
    <3>2. p = [i \in 1 .. u |-> p[i]]
      BY <1>6, <3>1
    <3>3. SubSeq(p, c + 1, u) = [i \in 1 .. u - c |-> p[c + i]]
      BY <3>1, <3>2, PartOf
    <3> QED
      BY <3>1, <3>3
  <2>2. SubSeq(w, (k + c) + 1, m) = [i \in 1 .. m - (k + c) |-> w[(k + c) + i]]
    <3>1. k + c \in 0 .. N /\ m \in k + c .. N
      BY <1>3
    <3> QED
      BY <1>2, <3>1, PartOf
  <2>3. (m - k) - c = m - (k + c)
    BY <1>3
  <2>4. ASSUME NEW i \in 1 .. (m - k) - c PROVE p[c + i] = w[(k + c) + i]
    <3>1. c + i \in 1 .. m - k /\ k + (c + i) = (k + c) + i
      BY <1>3
    <3> QED
      BY <1>5, <3>1
  <2> QED
    BY <2>1, <2>2, <2>3, <2>4
<1>9. SubSeq(p, 1, c) = SubSeq(w, k + 1, k + c)
  <2>1. SubSeq(p, 0 + 1, c) = [i \in 1 .. c - 0 |-> p[0 + i]]
    <3>1. 0 \in 0 .. m - k /\ c \in 0 .. m - k
      BY <1>3
    <3> QED
      BY <1>3, <1>6, <3>1, PartOf
  <2>2. SubSeq(w, k + 1, k + c) = [i \in 1 .. (k + c) - k |-> w[k + i]]
    <3>1. k \in 0 .. N /\ k + c \in k .. N
      BY <1>3
    <3> QED
      BY <1>2, <3>1, PartOf
  <2>3. 0 + 1 = 1 /\ c - 0 = c /\ (k + c) - k = c
    BY <1>3
  <2>4. ASSUME NEW i \in 1 .. c PROVE p[0 + i] = w[k + i]
    <3>1. i \in 1 .. m - k /\ 0 + i = i
      BY <1>3
    <3> QED
      BY <1>5, <3>1
  <2> QED
    BY <2>1, <2>2, <2>3, <2>4
<1>10. SubSeq(w, 1, k) \o SubSeq(w, k + 1, k + c) = SubSeq(w, 1, k + c)
  <2>1. /\ 1 \in 1 .. Len(w) + 1 /\ k \in 1 - 1 .. Len(w) /\ k + c \in k .. Len(w)
    BY <1>1, <1>3
  <2> QED
    BY <2>1, ConcatAdjacentSubSeq
<1>11. Len(SubSeq(w, 1, k)) = k
  <2>1. SubSeq(w, 0 + 1, k) = [i \in 1 .. k - 0 |-> w[0 + i]]
    <3>1. 0 \in 0 .. N /\ k \in 0 .. N
      BY <1>3
    <3> QED
      BY <1>2, <3>1, PartOf
  <2>2. 0 + 1 = 1 /\ k - 0 = k
    BY <1>3
  <2>3. SubSeq(w, 1, k) = [i \in 1 .. k |-> w[0 + i]]
    BY <2>1, <2>2
  <2> QED
    BY <1>3, <2>3
<1> QED
  BY <1>4, <1>6, <1>7, <1>8, <1>9, <1>10, <1>11, Zenon DEF CutUp

----------------------------------------------------------------------------
(* The invariant of the reader.                                            *)

\* What the table held at the first page.
Table == SubSeq(metrics, 1, first)

\* Before the first page.
Unasked == points = << >> /\ out = << >> /\ token = 0 /\ ~done

Below(k) == asked.max_rows > 0 => k < asked.max_rows

\* Of what the table holds, the first k points are out and the next, up to m, in
\* the page; the token says where it ends.
ReadFrom(table, k, m) ==
  /\ m \in 0 .. Size(table) /\ k \in 0 .. m
  /\ out = SubSeq(Whole(table), 1, k) /\ points = SubSeq(Whole(table), k + 1, m)
  /\ asked.max_rows > 0 => k <= asked.max_rows
  /\ k < m \/ ~done => Below(k)
  /\ ~done => token = m + 1
  /\ done => m = Size(table) \/ (asked.max_rows > 0 /\ k = asked.max_rows /\ k = m)

\* The pages are those of one table.
OneTable == service = "aws" => Len(metrics) = first

\* From the first page on.
Begun ==
  /\ first \in 0 .. Len(metrics) /\ first \in cuts
  /\ known \subseteq {metrics[k].source_row : k \in 1 .. first}
  /\ stage = "scanning" => /\ service = "listener" => done
                           /\ OneTable => \E k, m \in Nat : ReadFrom(Table, k, m)

ReadInv ==
  /\ Acceptable /\ Len(metrics) \in cuts
  /\ stage = "begin" => first = Absent
  /\ IF first = Absent THEN Unasked ELSE Begun

\* The rows stored are dated, and where they come from is known.
LEMMA SentDated == ASSUME SentInv PROVE WellDated(metrics)
<1>1. PICK n : Stores(n)
  BY DEF SentInv, Unread, Between, Asked
<1> QED
  BY <1>1 DEF Stores, WellDated

\* The sender's steps leave the rows where they are.
LEMMA SentGrows == ASSUME SentInv, Next PROVE Grows
<1>1. WellDated(metrics)
  BY SentDated
<1>2. metrics' = metrics => Grows
  BY <1>1 DEF Grows, WellDated
<1>3. CASE Serve
  <2>1. /\ chunk \in Chunks /\ RowsRead /\ offset < Len(datums)
        /\ in_flight = FormBody(BuildPutMetricDataRequest(offset, Batch)) /\ Stores(offset)
    BY <1>3 DEF SentInv, Between, Asked, Unread, Serve
  <2>2. CASE PutMetricData(in_flight)
    <3>1. PutMetricData(FormBody(BuildPutMetricDataRequest(offset, Batch)))
      BY <2>1, <2>2, Zenon
    <3>2. UNCHANGED chunk
      BY <1>3 DEF Serve
    <3>3. PICK n : n = offset + Batch
      OBVIOUS
    <3> QED
      BY <2>1, <3>1, <3>2, <3>3, ServeStores
  <2> QED
    BY <1>2, <1>3, <2>2 DEF Serve
<1>4. CASE ~Serve
  <2>1. metrics' = metrics
    BY <1>4 DEF Next, ReadRows, SendBatch, Lose, Receive, GiveUp, SeeInterrupt, Finish, Interrupt
  <2> QED
    BY <1>2, <2>1
<1> QED
  BY <1>3, <1>4

\* A table's pages stay what they are while the request does.
LEMMA WholeStays ==
  ASSUME NEW t, UNCHANGED <<service, asked, start_ms, end_ms>>
  PROVE  /\ Starts(t)' = Starts(t) /\ Size(t)' = Size(t) /\ Whole(t)' = Whole(t)
<1>1. service' = service /\ asked' = asked /\ start_ms' = start_ms /\ end_ms' = end_ms
  OBVIOUS
<1>2. PeriodMs' = PeriodMs /\ \A row : Wanted(row)' <=> Wanted(row)
  BY <1>1 DEF PeriodMs, Wanted
<1>3. Starts(t)' = Starts(t)
  BY <1>1, Zenon DEF PeriodMs, Wanted, Starts
<1>4. Size(t)' = Size(t)
  BY <1>3 DEF Size
<1>5. \A b : ValuesFrom(t, b)' = ValuesFrom(t, b)
  BY <1>1, Zenon DEF PeriodMs, Wanted, ValuesFrom
<1>6. \A i : Place(t, i)' = Place(t, i)
  BY <1>1, <1>4 DEF Place, Up
<1>7. \A i : Value(t, i)' = Value(t, i)
  BY <1>1, <1>3, <1>5 DEF Value
<1>8. \A i : Point(t, i)' = Point(t, i)
  BY <1>3, <1>7 DEF Point
<1>9. \A i : Point(t, Place(t, i))' = Point(t, Place(t, i))
  BY <1>6, <1>8
<1> QED
  BY <1>3, <1>4, <1>9 DEF Whole

\* What was read stays so in the steps of others.
LEMMA ReadFromStays ==
  ASSUME NEW t, NEW k, NEW m, UNCHANGED scan_vars, ReadFrom(t, k, m)
  PROVE  ReadFrom(t, k, m)'
<1>1. UNCHANGED <<service, asked, start_ms, end_ms>> /\ asked' = asked
      /\ points' = points /\ out' = out /\ done' = done /\ token' = token
  BY DEF scan_vars
<1>2. Size(t)' = Size(t) /\ Whole(t)' = Whole(t)
  BY <1>1, WholeStays
<1> QED
  BY <1>1, <1>2 DEF ReadFrom, Below

\* The rows at the first page are among those of a table that grew.
LEMMA GrownTable ==
  ASSUME WellDated(metrics), Grows, NEW n \in 0 .. Len(metrics)
  PROVE  /\ SubSeq(metrics', 1, n) = SubSeq(metrics, 1, n)
         /\ \A k \in 1 .. n : metrics'[k] = metrics[k]
<1>1. PICK p, q : p = metrics /\ q = metrics'
  OBVIOUS
<1>2. PICK M \in Nat, N \in Nat : M = Len(p) /\ N = Len(q) /\ M <= N
  BY <1>1 DEF WellDated, Grows
<1>3. /\ p = [i \in 1 .. M |-> p[i]] /\ q = [i \in 1 .. N |-> q[i]]
      /\ \A k \in 1 .. M : q[k] = p[k]
  <2>1. PICK P, Q : p \in Seq(P) /\ q \in Seq(Q)
    BY <1>1 DEF WellDated, Grows
  <2>2. \A k \in 1 .. M : q[k] = p[k]
    BY <1>1, <1>2 DEF Grows
  <2>3. p = [i \in 1 .. M |-> p[i]]
    BY <1>2, <2>1
  <2>4. q = [i \in 1 .. N |-> q[i]]
    BY <1>2, <2>1
  <2> QED
    BY <2>2, <2>3, <2>4
<1>4. /\ SubSeq(p, 0 + 1, n) = [i \in 1 .. n - 0 |-> p[0 + i]]
      /\ SubSeq(q, 0 + 1, n) = [i \in 1 .. n - 0 |-> q[0 + i]]
  <2>1. 0 \in 0 .. M /\ n \in 0 .. M /\ 0 \in 0 .. N /\ n \in 0 .. N
    BY <1>1, <1>2
  <2>2. SubSeq(p, 0 + 1, n) = [i \in 1 .. n - 0 |-> p[0 + i]]
    BY <1>2, <1>3, <2>1, PartOf
  <2>3. SubSeq(q, 0 + 1, n) = [i \in 1 .. n - 0 |-> q[0 + i]]
    BY <1>2, <1>3, <2>1, PartOf
  <2> QED
    BY <2>2, <2>3
<1>5. \A i \in 1 .. n - 0 : p[0 + i] = q[0 + i]
  <2> TAKE i \in 1 .. n - 0
  <2>1. 0 + i \in 1 .. M
    BY <1>1, <1>2
  <2> QED
    BY <1>3, <2>1
<1>6. 0 + 1 = 1 /\ \A k \in 1 .. n : k \in 1 .. M
  BY <1>1, <1>2
<1> QED
  BY <1>1, <1>3, <1>4, <1>5, <1>6

\* What was acceptable stays so while nothing it is about changes.
LEMMA AcceptableStays ==
  ASSUME Acceptable, UNCHANGED <<service, asked, start_ms, end_ms>>, stage' = stage \/ stage' = "failed"
  PROVE  Acceptable'
<1>1. service' = service /\ asked' = asked /\ start_ms' = start_ms /\ end_ms' = end_ms
  OBVIOUS
<1> QED
  BY <1>1, Zenon DEF Acceptable, ValidStatistic

\* The sender's steps.
LEMMA SendKeeps == ASSUME SentInv, ReadInv, Send PROVE ReadInv'
<1>1. /\ UNCHANGED scan_vars /\ known' = known /\ cuts' = cuts \cup {Len(metrics')}
      /\ UNCHANGED <<service, asked, start_ms, end_ms>> /\ stage' = stage /\ points' = points
      /\ out' = out /\ token' = token /\ done' = done /\ first' = first /\ service' = service
  BY DEF Send, scan_vars
<1>2. WellDated(metrics) /\ Grows
  BY SentDated, SentGrows DEF Send
<1>3. Acceptable'
  BY <1>1, AcceptableStays DEF ReadInv
<1>4. CASE first = Absent
  BY <1>1, <1>3, <1>4 DEF ReadInv, Unasked
<1>5. CASE first # Absent
  <2>1. Begun /\ first \in 0 .. Len(metrics)
    BY <1>5 DEF ReadInv, Begun
  <2>2. PICK M \in Nat, N \in Nat : M = Len(metrics) /\ N = Len(metrics') /\ M <= N
    BY <1>2 DEF WellDated, Grows
  <2>3. /\ SubSeq(metrics', 1, first) = SubSeq(metrics, 1, first)
        /\ \A k \in 1 .. first : metrics'[k] = metrics[k]
    BY <1>2, <2>1, GrownTable
  <2>4. first' \in 0 .. Len(metrics') /\ first' \in cuts'
    BY <1>1, <2>1, <2>2 DEF Begun
  <2>5. known' \subseteq {metrics'[k].source_row : k \in 1 .. first'}
    BY <1>1, <2>1, <2>3 DEF Begun
  <2>6. PICK t : t = Table /\ t = Table'
    BY <1>1, <2>3 DEF Table
  <2>7. OneTable' => OneTable
    BY <1>1, <2>1, <2>2 DEF OneTable
  <2>8. ASSUME stage' = "scanning"
        PROVE  /\ service' = "listener" => done'
               /\ OneTable' => \E k, m \in Nat : ReadFrom(Table, k, m)'
    <3>1. service' = "listener" => done'
      BY <1>1, <2>1, <2>8 DEF Begun
    <3>2. ASSUME OneTable' PROVE \E k, m \in Nat : ReadFrom(Table, k, m)'
      <4>1. PICK k \in Nat, m \in Nat : ReadFrom(t, k, m)
        BY <1>1, <2>1, <2>6, <2>7, <2>8, <3>2 DEF Begun
      <4>2. ReadFrom(t, k, m)'
        BY <1>1, <4>1, ReadFromStays
      <4>3. ReadFrom(Table, k, m)'
        BY <2>6, <4>2
      <4> QED
        BY <4>3
    <3> QED
      BY <3>1, <3>2
  <2>9. Begun'
    BY <2>4, <2>5, <2>8, Zenon DEF Begun
  <2>10. Len(metrics') \in cuts'
    BY <1>1
  <2> QED
    BY <1>1, <1>3, <1>5, <2>9, <2>10 DEF ReadInv
<1> QED
  BY <1>4, <1>5

\* Steps that leave the table, the reader and its observers alone.
LEMMA StutterKeeps == ASSUME ReadInv, UNCHANGED metrics_vars PROVE ReadInv'
<1>1. /\ metrics' = metrics /\ service' = service /\ asked' = asked /\ stage' = stage
      /\ start_ms' = start_ms /\ end_ms' = end_ms /\ points' = points /\ token' = token
      /\ done' = done /\ out' = out /\ first' = first /\ cuts' = cuts /\ known' = known
      /\ UNCHANGED scan_vars /\ UNCHANGED <<service, asked, start_ms, end_ms>>
  BY DEF metrics_vars, vars, scan_vars
<1>2. Acceptable'
  BY <1>1, AcceptableStays DEF ReadInv
<1>3. PICK t : t = Table /\ t = Table'
  BY <1>1 DEF Table
<1>4. \A k, m : ReadFrom(Table, k, m) => ReadFrom(Table, k, m)'
  <2> TAKE k, m
  <2> HAVE ReadFrom(Table, k, m)
  <2>1. ReadFrom(t, k, m)
    BY <1>3
  <2>2. ReadFrom(t, k, m)'
    BY <1>1, <2>1, ReadFromStays
  <2> QED
    BY <1>3, <2>2
<1>5. OneTable' <=> OneTable
  BY <1>1 DEF OneTable
<1>6. Begun => Begun'
  <2> HAVE Begun
  <2>1. /\ first' \in 0 .. Len(metrics') /\ first' \in cuts'
        /\ known' \subseteq {metrics'[k].source_row : k \in 1 .. first'}
    BY <1>1 DEF Begun
  <2>2. stage' = "scanning" => /\ service' = "listener" => done'
                               /\ OneTable' => \E k, m \in Nat : ReadFrom(Table, k, m)'
    BY <1>1, <1>4, <1>5, Zenon DEF Begun
  <2> QED
    BY <2>1, <2>2, Zenon DEF Begun
<1> QED
  BY <1>1, <1>2, <1>6 DEF ReadInv, Unasked

\* BindFn and Init.
LEMMA BeginKeeps == ASSUME ReadInv, Read, BeginScan PROVE ReadInv'
<1>1. /\ stage = "begin" /\ first = Absent /\ Acceptable /\ Unasked
      /\ metrics' = metrics /\ service' = service /\ asked' = asked /\ points' = points
      /\ token' = token /\ done' = done /\ out' = out /\ first' = first /\ cuts' = cuts
  BY DEF ReadInv, BeginScan, Read
<1>2. stage' \in {"failed", "scanning"}
  BY DEF BeginScan
<1>3. asked \in Setting /\ NowMs \in Nat
  BY <1>1, MetricsAssumption DEF Acceptable, ScanAssumption, StoreAssumption
<1>4. ASSUME NEW value \in Moment PROVE ParseTime(value) \in Nat \cup {Invalid}
  <2>1. value.form # "now" => value.ms \in Nat
    BY DEF Moment
  <2> QED
    BY <1>3, <2>1 DEF ParseTime
<1>5. start_ms' \in Nat \cup {Invalid} /\ end_ms' \in Nat \cup {Invalid}
  BY <1>3, <1>4 DEF BeginScan, Setting
<1>6. Acceptable'
  <2>1. CASE stage' = "failed"
    BY <1>1, <2>1 DEF Acceptable
  <2>2. CASE stage' = "scanning"
    <3>1. /\ "" \notin {asked.namespace, asked.name} /\ ValidStatistic(asked.statistic)
          /\ \A d \in asked.dimensions : "" \notin {d.Name, d.Value}
          /\ ~(asked.period <= 0) /\ ~(asked.max_rows < 0) /\ asked.order \in {"asc", "desc"}
          /\ Invalid \notin {start_ms', end_ms'}
      BY <2>2, Zenon DEF BeginScan
    <3>2. asked.period > 0 /\ asked.max_rows >= 0
      <4>1. asked.period \in Int /\ asked.max_rows \in Int
        BY <1>3 DEF Setting
      <4>2. ~(asked.period <= 0) /\ ~(asked.max_rows < 0)
        BY <3>1
      <4> QED
        BY <4>1, <4>2
    <3>3. start_ms' \in Nat /\ end_ms' \in Nat
      BY <1>5, <3>1
    <3>4. asked \in Settings /\ service \in {"listener", "aws"}
      BY <1>1 DEF Acceptable
    <3> QED
      BY <1>1, <3>1, <3>2, <3>3, <3>4, Zenon DEF Acceptable, ValidStatistic
  <2> QED
    BY <1>2, <2>1, <2>2
<1> QED
  BY <1>1, <1>2, <1>6 DEF ReadInv, Unasked

\* The first rows of a table, too, are dated.
LEMMA TableDated ==
  ASSUME WellDated(metrics), NEW n \in 0 .. Len(metrics)
  PROVE  /\ WellDated(SubSeq(metrics, 1, n)) /\ Len(SubSeq(metrics, 1, n)) = n
         /\ SubSeq(metrics, 1, Len(metrics)) = metrics
         /\ \A k \in 1 .. n : SubSeq(metrics, 1, n)[k] = metrics[k]
<1>1. PICK q, S : q = metrics /\ S = ToSet(metrics) /\ q \in Seq(S)
  BY DEF WellDated
<1>2. PICK N \in Nat : N = Len(q)
  BY <1>1
<1>3. q = [i \in 1 .. N |-> q[i]] /\ SubSeq(q, 1, N) = q
  <2>1. q = [i \in 1 .. N |-> q[i]]
    BY <1>1, <1>2
  <2>2. SubSeq(q, 1, N) = q
    BY <1>1, <1>2, SubSeqFull
  <2> QED
    BY <2>1, <2>2
<1>4. PICK u : u = SubSeq(q, 1, n)
  OBVIOUS
<1>5. u = [i \in 1 .. n |-> q[i]]
  <2>1. SubSeq(q, 0 + 1, n) = [i \in 1 .. n - 0 |-> q[0 + i]]
    <3>1. 0 \in 0 .. N /\ n \in 0 .. N
      BY <1>1, <1>2
    <3> QED
      BY <1>2, <1>3, <3>1, PartOf
  <2>2. 0 + 1 = 1 /\ n - 0 = n /\ \A i \in 1 .. n : 0 + i = i
    BY <1>1, <1>2
  <2> QED
    BY <1>4, <2>1, <2>2
<1>6. DOMAIN u = 1 .. n /\ n \in Nat /\ Len(u) = n /\ \A i \in 1 .. n : u[i] \in ToSet(u) /\ u[i] = q[i]
  BY <1>1, <1>2, <1>5 DEF ToSet
<1>7. u \in Seq(ToSet(u))
  <2>1. PICK U : U = ToSet(u)
    OBVIOUS
  <2>2. u \in [1 .. n -> U]
    BY <1>5, <1>6, <2>1
  <2> QED
    BY <1>6, <2>1, <2>2
<1>8. \A k \in 1 .. n : Dated(u[k])
  <2>1. \A k \in 1 .. n : k \in 1 .. N
    BY <1>1, <1>2
  <2>2. \A k \in 1 .. N : Dated(q[k])
    BY <1>1, <1>2 DEF WellDated
  <2> QED
    BY <1>6, <2>1, <2>2
<1> QED
  BY <1>1, <1>2, <1>3, <1>4, <1>6, <1>7, <1>8 DEF WellDated

\* What is out when the next page is fetched from a table that has not changed.
LEMMA AtFetch ==
  ASSUME ReadInv, WellDated(metrics), stage = "scanning", points = << >>, ~done,
         first = Absent \/ (service = "aws" /\ Len(metrics) = first)
  PROVE  \E m \in 0 .. Size(metrics) :
           /\ out = SubSeq(Whole(metrics), 1, m) /\ Below(m) /\ (first = Absent => m = 0)
           /\ token = 0 => m = 0
           /\ token # 0 => token = m + 1
<1>1. PICK N \in Nat : N = Size(metrics) /\ Acceptable
  BY StartsFacts DEF ReadInv
<1>2. PICK w : w = Whole(metrics)
  OBVIOUS
<1>3. PICK S : w \in Seq(S) /\ Len(w) = N
  BY <1>1, <1>2, WholeFacts
<1>4. CASE first = Absent
  <2>1. out = << >> /\ token = 0
    BY <1>4 DEF ReadInv, Unasked
  <2>2. SubSeq(w, 1, 0) = << >>
    BY SubSeqEmpty
  <2>3. Below(0) /\ 0 \in 0 .. N
    BY <1>1 DEF Below
  <2> QED
    BY <1>1, <1>2, <2>1, <2>2, <2>3
<1>5. CASE first # Absent /\ service = "aws" /\ Len(metrics) = first
  <2>1. Begun /\ OneTable
    BY <1>5 DEF ReadInv, OneTable
  <2>2. Table = metrics
    <3>1. Len(metrics) \in 0 .. Len(metrics)
      BY DEF WellDated
    <3> QED
      BY <1>5, <3>1, TableDated DEF Table
  <2>3. PICK k \in Nat, m \in Nat : ReadFrom(metrics, k, m)
    BY <2>1, <2>2 DEF Begun
  <2>4. /\ m \in 0 .. N /\ k \in 0 .. m /\ out = SubSeq(w, 1, k) /\ points = SubSeq(w, k + 1, m)
        /\ Below(k) /\ token = m + 1
    BY <1>1, <1>2, <2>3 DEF ReadFrom
  <2>5. k = m
    <3>1. m \in 0 .. Len(w) /\ 0 \in 0 .. m - k
      BY <1>3, <2>4
    <3>2. SubSeq(w, k + 1, m) = << >> <=> k = m
      BY <1>3, <2>4, <3>1, Pieces DEF CutUp
    <3> QED
      BY <2>4, <3>2
  <2> QED
    BY <1>1, <1>2, <1>5, <2>4, <2>5
<1> QED
  BY <1>4, <1>5

\* What AWS sends and Fetch does not throw at is a page.
LEMMA UsedAnswers ==
  ASSUME NEW response \in Answers(Request), ~Throws(response)
  PROVE  \/ service = "listener" /\ response = GetMetricData(Request)
         \/ service # "listener" /\ response \in Pages(Request)
<1>1. response \notin BadAnswers
  <2> SUFFICES ASSUME response \in BadAnswers PROVE FALSE
    OBVIOUS
  <2>1. CASE \E s \in {"PartialData", "Forbidden", "InternalError"} :
               response = [StatusCode |-> s, Timestamps |-> << >>, Values |-> << >>, NextToken |-> 0]
    BY <2>1 DEF Throws
  <2>2. CASE response = [StatusCode |-> "Complete", Timestamps |-> << >>, Values |-> <<Absent>>,
                         NextToken |-> 0]
    <3>1. Len(response.Timestamps) = 0 /\ Len(response.Values) = 1
      BY <2>2
    <3> QED
      BY <3>1 DEF Throws, Mismatched
  <2> QED
    BY <2>1, <2>2 DEF BadAnswers
<1> QED
  BY <1>1 DEF Answers

\* A page is fetched, or an answer that is thrown at.
LEMMA FetchKeeps ==
  ASSUME SentInv, Accepted \subseteq ToSet(Stored), ReadInv, Read, Fetch
  PROVE  ReadInv'
<1>1. /\ stage = "scanning" /\ points = << >> /\ ~done
      /\ metrics' = metrics /\ service' = service /\ asked' = asked /\ start_ms' = start_ms
      /\ end_ms' = end_ms /\ out' = out /\ cuts' = cuts
      /\ first' = IF first = Absent THEN Len(metrics) ELSE first
      /\ known' = IF first = Absent /\ first' # Absent THEN Accepted ELSE known
      /\ UNCHANGED <<service, asked, start_ms, end_ms>>
  BY DEF Fetch, Read
<1>2. WellDated(metrics) /\ Acceptable /\ Len(metrics) \in cuts
  BY SentDated DEF ReadInv
<1>3. PICK M \in Nat : M = Len(metrics) /\ DOMAIN metrics = 1 .. M
  BY <1>2 DEF WellDated
<1>4. Absent \notin Nat
  BY MetricsAssumption DEF ScanAssumption
<1>5. /\ first' \in 0 .. Len(metrics) /\ first' \in cuts /\ first' # Absent
      /\ known' \subseteq {metrics[k].source_row : k \in 1 .. first'}
  <2>1. CASE first = Absent
    <3>1. first' = M /\ known' = Accepted
      BY <1>1, <1>3, <1>4, <2>1
    <3>2. ToSet(Stored) \subseteq {metrics[k].source_row : k \in 1 .. M}
      BY <1>3 DEF ToSet, Stored
    <3> QED
      BY <1>2, <1>3, <1>4, <3>1, <3>2
  <2>2. CASE first # Absent
    BY <1>1, <2>2 DEF ReadInv, Begun
  <2> QED
    BY <2>1, <2>2
<1>6. first = Absent \/ service = "aws"
  BY <1>1 DEF ReadInv, Begun, Acceptable
<1>7. ASSUME stage' = stage \/ stage' = "failed",
             stage' = "scanning" => /\ service' = "listener" => done'
                                    /\ OneTable' => \E k, m \in Nat : ReadFrom(Table, k, m)'
      PROVE  ReadInv'
  <2>1. Acceptable'
    BY <1>1, <1>2, <1>7, AcceptableStays
  <2>2. Begun'
    BY <1>1, <1>5, <1>7, Zenon DEF Begun
  <2>3. stage' # "begin"
    BY <1>1, <1>7
  <2> QED
    BY <1>1, <1>2, <1>5, <2>1, <2>2, <2>3 DEF ReadInv
<1>8. PICK response \in Answers(Request) :
        IF Throws(response)
        THEN stage' = "failed" /\ UNCHANGED <<points, token, done>>
        ELSE /\ points' = Points(response)
             /\ IF LastPage(response)
                THEN done' = TRUE /\ UNCHANGED token
                ELSE token' = response.NextToken /\ UNCHANGED done
             /\ UNCHANGED stage
  BY Zenon DEF Fetch
<1>9. CASE Throws(response)
  <2>1. stage' = "failed"
    BY <1>8, <1>9
  <2> QED
    BY <1>7, <2>1
<1>10. CASE ~Throws(response)
  <2>1. /\ points' = Points(response) /\ stage' = stage
        /\ \/ LastPage(response) /\ done' = TRUE /\ token' = token
           \/ ~LastPage(response) /\ done' = done /\ token' = response.NextToken
    BY <1>8, <1>10
  <2>2. PICK t : t = metrics
    OBVIOUS
  <2>3. Size(t)' = Size(t) /\ Whole(t)' = Whole(t)
    BY <1>1, WholeStays
  <2>w. PICK w : w = Whole(t)
    OBVIOUS
  <2>4. PICK N \in Nat : N = Size(t) /\ w = Whole(t)
    BY <2>w, <1>1, <1>2, <2>2, StartsFacts
  <2>5. PICK S : w \in Seq(S) /\ Len(w) = N
    BY <2>2, <2>4, WholeFacts
  <2>6. OneTable' /\ (first = Absent \/ Len(metrics) = first) => Table' = t
    BY <1>1, <1>2, <1>3, <2>2, TableDated DEF Table
  <2>7. \/ service = "listener" /\ response = GetMetricData(Request)
        \/ service # "listener" /\ response \in Pages(Request)
    BY <1>10, UsedAnswers
  <2>8. Querying
    BY <1>1, <1>2 DEF Querying
  \* Whatever page it is.
  <2>9. ASSUME NEW m \in 0 .. N, NEW n \in m .. N, first = Absent \/ Len(metrics) = first,
               out = SubSeq(w, 1, m), Below(m), points' = SubSeq(w, m + 1, n),
               \/ done' /\ n = N
               \/ ~done' /\ token' = n + 1
        PROVE  OneTable' => \E k, l \in Nat : ReadFrom(Table, k, l)'
    <3>1. ReadFrom(t, m, n)'
      <4>1. n \in 0 .. N /\ m \in 0 .. n
        OBVIOUS
      <4>2. Below(m)' /\ (asked.max_rows > 0 => m <= asked.max_rows)'
        <5>1. asked.max_rows \in Int
          BY <1>2, AskedTypes
        <5> QED
          BY <1>1, <2>9, <5>1 DEF Below
      <4> QED
        BY <1>1, <2>3, <2>4, <2>9, <4>1, <4>2, Zenon DEF ReadFrom
    <3>2. OneTable' => ReadFrom(Table, m, n)'
      <4>1. OneTable' => Table' = t
        BY <2>6, <2>9
      <4> QED
        BY <3>1, <4>1
    <3>3. m \in Nat /\ n \in Nat
      OBVIOUS
    <3> QED
      BY <3>2, <3>3
  <2>10. CASE service = "listener"
    <3>1. first = Absent
      BY <1>6, <2>10
    <3>2. PICK m \in 0 .. N : out = SubSeq(w, 1, m) /\ Below(m) /\ m = 0
      BY <1>1, <1>2, <2>2, <2>4, <3>1, AtFetch
    <3>3. Points(response) = w /\ response.NextToken = 0
      BY <2>2, <2>4, <2>7, <2>8, <2>10, ListenerPoints
    <3>4. LastPage(response)
      BY <3>3 DEF LastPage
    <3>5. done' /\ points' = SubSeq(w, m + 1, N)
      <4>1. SubSeq(w, 1, Len(w)) = w
        BY <2>5, SubSeqFull
      <4>2. m + 1 = 1
        BY <3>2
      <4> QED
        BY <2>1, <2>5, <3>3, <3>4, <4>1, <4>2
    <3>6. N \in m .. N
      OBVIOUS
    <3>7. OneTable' => \E k, l \in Nat : ReadFrom(Table, k, l)'
      BY <2>9, <3>1, <3>2, <3>5, <3>6
    <3> QED
      BY <1>7, <2>1, <3>5, <3>7
  <2>11. CASE service # "listener"
    <3>1. service = "aws" /\ service' = "aws"
      BY <1>1, <1>2, <2>11 DEF Acceptable
    <3>2. ASSUME OneTable' PROVE \E k, l \in Nat : ReadFrom(Table, k, l)'
      <4>1. first = Absent \/ (service = "aws" /\ Len(metrics) = first)
        BY <1>1, <3>1, <3>2 DEF OneTable
      <4>2. PICK m \in 0 .. N :
              /\ out = SubSeq(w, 1, m) /\ Below(m)
              /\ token = 0 => m = 0
              /\ token # 0 => token = m + 1
        BY <1>1, <1>2, <2>2, <2>4, <4>1, AtFetch
      <4>3. PageAfter(response, m)
        BY <2>2, <2>4, <2>7, <2>8, <2>11, <3>1, <4>2, AwsPoints
      <4>4. PICK n \in m .. N :
              /\ Points(response) = SubSeq(w, m + 1, n)
              /\ \/ response.NextToken = n + 1 /\ n + 1 \notin {0, token}
                 \/ n = N /\ response.NextToken \in {0, token}
        BY <2>2, <2>4, <4>3 DEF PageAfter
      <4>5. \/ done' /\ n = N
            \/ ~done' /\ token' = n + 1
        BY <1>1, <2>1, <4>4 DEF LastPage
      <4>6. points' = SubSeq(w, m + 1, n) /\ (first = Absent \/ Len(metrics) = first)
        BY <2>1, <4>1, <4>4
      <4> QED
        BY <2>9, <3>2, <4>2, <4>5, <4>6
    <3> QED
      BY <1>7, <2>1, <3>1, <3>2
  <2> QED
    BY <2>10, <2>11
<1> QED
  BY <1>9, <1>10

\* A fetch that fails.
LEMMA FetchFailsKeeps == ASSUME ReadInv, Read, FetchFails PROVE ReadInv'
<1>1. /\ stage' = "failed" /\ metrics' = metrics /\ service' = service /\ asked' = asked
      /\ points' = points /\ token' = token /\ done' = done /\ out' = out /\ first' = first
      /\ cuts' = cuts /\ known' = IF first = Absent /\ first' # Absent THEN Accepted ELSE known
      /\ UNCHANGED <<service, asked, start_ms, end_ms>>
  BY DEF FetchFails, Read
<1>2. Acceptable'
  BY <1>1, AcceptableStays DEF ReadInv
<1>3. known' = known
  BY <1>1
<1>4. Begun => Begun'
  BY <1>1, <1>3 DEF Begun
<1> QED
  BY <1>1, <1>2, <1>4 DEF ReadInv, Unasked

\* How many rows Scan gives.
LEMMA ChunkSize ==
  ASSUME NEW l \in Nat \ {0}, NEW limit \in Nat, NEW k \in Nat, limit > 0 => k < limit,
         NEW count,
         count = IF limit = 0 THEN Min({Vector, l}) ELSE Min({Min({Vector, l}), limit - k})
  PROVE  count \in 1 .. l /\ (limit > 0 => k + count <= limit)
<1>1. PICK v \in Nat \ {0} : v = Vector
  BY MetricsAssumption DEF ScanAssumption
<1>2. PICK fits : fits = Min({v, l})
  OBVIOUS
<1>3. fits \in {v, l} /\ fits <= l
  <2>1. {v, l} \in SUBSET Nat /\ {v, l} # {}
    OBVIOUS
  <2>2. Min({v, l}) \in {v, l} /\ \A y \in {v, l} : Min({v, l}) <= y
    BY <2>1, MinNat
  <2> QED
    BY <1>2, <2>2
<1>4. fits \in 1 .. l
  BY <1>3
<1>5. CASE limit = 0
  BY <1>1, <1>2, <1>4, <1>5
<1>6. CASE limit # 0
  <2>1. PICK rest \in Nat \ {0} : rest = limit - k
    <3>1. limit - k \in Nat \ {0}
      BY <1>6
    <3> QED
      BY <3>1
  <2>2. {fits, rest} \in SUBSET Nat /\ {fits, rest} # {}
    BY <1>4
  <2>3. Min({fits, rest}) \in {fits, rest} /\ \A y \in {fits, rest} : Min({fits, rest}) <= y
    BY <2>2, MinNat
  <2>4. count = Min({fits, rest})
    BY <1>1, <1>2, <1>6, <2>1
  <2>5. count \in {fits, rest} /\ count <= fits /\ count <= rest
    BY <2>3, <2>4
  <2> QED
    BY <1>4, <2>1, <2>5
<1> QED
  BY <1>5, <1>6

\* Rows given to DuckDB.
LEMMA ScanKeeps == ASSUME SentInv, ReadInv, Read, Scan PROVE ReadInv'
<1>1. /\ stage = "scanning" /\ points # << >> /\ stage' = stage
      /\ metrics' = metrics /\ service' = service /\ asked' = asked
      /\ token' = token /\ first' = first /\ cuts' = cuts
      /\ known' = IF first = Absent /\ first' # Absent THEN Accepted ELSE known
      /\ UNCHANGED <<service, asked, start_ms, end_ms>>
  BY DEF Scan, Read
<1>2. /\ known' = known /\ Acceptable /\ WellDated(metrics) /\ first # Absent /\ Begun
      /\ Len(metrics) \in cuts
  BY <1>1, SentDated DEF ReadInv, Unasked
<1>3. Acceptable'
  BY <1>1, <1>2, AcceptableStays
<1>4. PICK fits, count, full :
        /\ fits = Min({Vector, Len(points)})
        /\ count = IF asked.max_rows = 0 THEN fits ELSE Min({fits, asked.max_rows - Len(out)})
        /\ full = (asked.max_rows > 0 /\ Len(out) + count >= asked.max_rows)
        /\ out' = out \o SubSeq(points, 1, count)
        /\ points' = (IF full THEN << >> ELSE SubSeq(points, count + 1, Len(points)))
        /\ done' = (done \/ full)
  BY Zenon DEF Scan
<1>5. PICK t : t = Table
  OBVIOUS
<1>6. Size(t)' = Size(t) /\ Whole(t)' = Whole(t) /\ Table' = t /\ (OneTable' <=> OneTable)
  BY <1>1, <1>5, WholeStays DEF Table, OneTable
<1>7. WellDated(t)
  BY <1>2, <1>5, TableDated DEF Table, Begun
<1>w. PICK w : w = Whole(t)
  OBVIOUS
<1>8. PICK N \in Nat : N = Size(t) /\ w = Whole(t)
  BY <1>w, <1>1, <1>2, <1>7, StartsFacts
<1>9. PICK S : w \in Seq(S) /\ Len(w) = N
  BY <1>8, WholeFacts
<1>10. PICK limit \in Nat : limit = asked.max_rows
  <2>1. asked.max_rows \in Int /\ asked.max_rows >= 0
    BY <1>1, <1>2, AskedTypes, Zenon DEF Acceptable
  <2> QED
    BY <2>1
<1>11. ASSUME OneTable' PROVE \E k, m \in Nat : ReadFrom(Table, k, m)'
  <2>1. PICK k \in Nat, m \in Nat : ReadFrom(t, k, m)
    BY <1>1, <1>2, <1>5, <1>6, <1>11 DEF Begun
  <2>2. /\ m \in 0 .. N /\ k \in 0 .. m
        /\ out = SubSeq(w, 1, k) /\ points = SubSeq(w, k + 1, m)
        /\ k < m \/ ~done => (limit > 0 => k < limit)
        /\ ~done => token = m + 1
        /\ done => m = N \/ (limit > 0 /\ k = limit /\ k = m)
    BY <1>8, <1>10, <2>1 DEF ReadFrom, Below
  <2>3. ASSUME NEW c \in 0 .. m - k
        PROVE  /\ Len(out) = k /\ Len(points) = m - k /\ k # m
               /\ out \o SubSeq(points, 1, c) = SubSeq(w, 1, k + c)
               /\ SubSeq(points, c + 1, Len(points)) = SubSeq(w, (k + c) + 1, m)
    <3>1. m \in 0 .. Len(w)
      BY <1>9, <2>2
    <3>2. CutUp(w, m, k, c)
      BY <1>9, <2>2, <3>1, Pieces
    <3> QED
      BY <1>1, <2>2, <3>2 DEF CutUp
  <2>4. Len(out) = k /\ Len(points) = m - k /\ k < m
    <3>1. 0 \in 0 .. m - k
      BY <2>2
    <3>2. Len(out) = k /\ Len(points) = m - k /\ k # m
      BY <2>3, <3>1
    <3> QED
      BY <2>2, <3>2
  <2>5. count \in 1 .. m - k /\ (limit > 0 => k + count <= limit)
    <3>1. m - k \in Nat \ {0} /\ (limit > 0 => k < limit)
      BY <2>2, <2>4
    <3>2. count = IF limit = 0 THEN Min({Vector, m - k}) ELSE Min({Min({Vector, m - k}), limit - k})
      BY <1>4, <1>10, <2>4
    <3> QED
      BY <3>1, <3>2, ChunkSize
  <2>6. PICK n \in Nat : n = k + count /\ n \in k + 1 .. m
    BY <2>2, <2>5
  <2>7. out' = SubSeq(w, 1, n) /\ SubSeq(points, count + 1, Len(points)) = SubSeq(w, n + 1, m)
    <3>1. count \in 0 .. m - k
      BY <2>5
    <3> QED
      BY <1>4, <2>3, <2>6, <3>1
  <2>8. CASE limit > 0 /\ n >= limit
    <3>1. full /\ n = limit
      <4>1. asked.max_rows > 0 /\ Len(out) + count >= asked.max_rows
        BY <1>10, <2>4, <2>6, <2>8
      <4>2. full
        BY <1>4, <4>1, Zenon
      <4> QED
        BY <2>5, <2>6, <2>8, <4>2
    <3>2. points' = << >> /\ done'
      BY <1>4, <3>1
    <3>3. SubSeq(w, n + 1, n) = << >>
      BY <2>6, SubSeqEmpty
    <3>4. ReadFrom(t, n, n)'
      <4>1. n \in 0 .. N /\ n \in 0 .. n /\ ~(n < n)
        BY <2>2, <2>6
      <4>2. (asked.max_rows > 0 => n <= asked.max_rows)'
        BY <1>1, <1>10, <2>5, <2>6
      <4>3. /\ asked'.max_rows > 0 /\ n = asked'.max_rows
        BY <1>1, <1>10, <2>8, <3>1
      <4> QED
        BY <1>6, <1>8, <2>7, <3>2, <3>3, <4>1, <4>2, <4>3, Zenon DEF ReadFrom
    <3>5. ReadFrom(Table, n, n)'
      BY <1>6, <3>4
    <3> QED
      BY <3>5
  <2>9. CASE ~(limit > 0 /\ n >= limit)
    <3>1. ~full
      <4>1. ~(asked.max_rows > 0 /\ Len(out) + count >= asked.max_rows)
        BY <1>10, <2>4, <2>6, <2>9
      <4> QED
        BY <1>4, <4>1, Zenon
    <3>2. points' = SubSeq(w, n + 1, m) /\ (done' <=> done)
      BY <1>4, <2>7, <3>1
    <3>3. ReadFrom(t, n, m)'
      <4>1. m \in 0 .. N /\ n \in 0 .. m
        BY <2>2, <2>6
      <4>2. (asked.max_rows > 0 => n <= asked.max_rows)' /\ Below(n)'
        BY <1>1, <1>10, <2>5, <2>6, <2>9 DEF Below
      <4>3. ~done' => token' = m + 1
        BY <1>1, <2>2, <3>2
      <4>4. done' => m = N
        BY <2>2, <2>4, <3>2
      <4> QED
        BY <1>6, <1>8, <2>7, <3>2, <4>1, <4>2, <4>3, <4>4, Zenon DEF ReadFrom
    <3>4. ReadFrom(Table, n, m)'
      BY <1>6, <3>3
    <3> QED
      BY <3>4
  <2> QED
    BY <2>8, <2>9
<1>12. Begun'
  <2>1. /\ first' \in 0 .. Len(metrics') /\ first' \in cuts'
        /\ known' \subseteq {metrics'[k].source_row : k \in 1 .. first'}
    BY <1>1, <1>2 DEF Begun
  <2>2. service' = "listener" => done'
    BY <1>1, <1>2, <1>4 DEF Begun
  <2> QED
    BY <1>11, <2>1, <2>2, Zenon DEF Begun
<1> QED
  BY <1>1, <1>2, <1>3, <1>12 DEF ReadInv

----------------------------------------------------------------------------
(* What was read is what the user asked for.                               *)

\* q lists the N numbers of S, the least one first.
ListsUp(q, N, S) ==
  /\ q \in [1 .. N -> S] /\ \A i, j \in 1 .. N : i < j => q[i] < q[j]
  /\ \A x \in S : \E i \in 1 .. N : q[i] = x

\* j - 1 of the numbers of S are less than the j-th of the list, N - j are greater.
PlacedAt(q, N, S, j) ==
  /\ Cardinality({c \in S : c < q[j]}) = j - 1
  /\ Cardinality({c \in S : q[j] < c}) = N - j

\* In an ascending list of a set, as many elements are less than one, and as many
\* greater, as stand before and after it.
LEMMA PlaceInOrder ==
  ASSUME NEW S \in SUBSET Int, NEW N \in Nat, NEW q, ListsUp(q, N, S), NEW j \in 1 .. N
  PROVE  PlacedAt(q, N, S, j)
<1> USE DEF ListsUp, PlacedAt
<1>0. \A i \in 1 .. N : q[i] \in S /\ q[i] \in Int
  OBVIOUS
<1>1. ASSUME NEW i \in 1 .. N PROVE (q[i] < q[j] <=> i < j) /\ (q[j] < q[i] <=> j < i)
  <2>1. q[i] \in Int /\ q[j] \in Int
    BY <1>0
  <2>2. i < j => q[i] < q[j]
    OBVIOUS
  <2>3. j < i => q[j] < q[i]
    OBVIOUS
  <2>4. i = j => q[i] = q[j]
    OBVIOUS
  <2> QED
    BY <2>1, <2>2, <2>3, <2>4
<1>2. ASSUME NEW I \in SUBSET (1 .. N), NEW T, IsFiniteSet(I),
             \A c : c \in T <=> \E i \in I : q[i] = c
      PROVE  Cardinality(T) = Cardinality(I)
  <2>1. PICK f : f = [i \in I |-> q[i]]
    OBVIOUS
  <2>2. f \in [I -> T] /\ \A i \in I : f[i] = q[i]
    BY <1>2, <2>1
  <2>3. \A a, b \in I : f[a] = f[b] => a = b
    <3> TAKE a, b \in I
    <3> HAVE f[a] = f[b]
    <3>1. q[a] = q[b] /\ q[a] \in Int /\ q[b] \in Int /\ a \in 1 .. N /\ b \in 1 .. N
      BY <1>0, <2>2
    <3>2. ~(a < b) /\ ~(b < a)
      BY <3>1
    <3> QED
      BY <3>1, <3>2
  <2>4. \A c \in T : \E i \in I : f[i] = c
    BY <1>2, <2>2
  <2>5. f \in Bijection(I, T)
    BY <2>2, <2>3, <2>4 DEF Bijection, Injection, Surjection, IsInjective
  <2> QED
    BY <1>2, <2>5, FS_Bijection DEF ExistsBijection
<1>3. Cardinality({c \in S : c < q[j]}) = j - 1
  <2>1. PICK n \in Nat : n = j - 1
    OBVIOUS
  <2>2. 1 .. n \in SUBSET (1 .. N) /\ IsFiniteSet(1 .. n) /\ Cardinality(1 .. n) = n
    BY <2>1, UpTo
  <2>3. \A i \in 1 .. N : i < j <=> i \in 1 .. n
    BY <2>1
  <2>4. \A x : x \in {c \in S : c < q[j]} <=> \E i \in 1 .. n : q[i] = x
    BY <1>0, <1>1, <2>2, <2>3
  <2>5. Cardinality({c \in S : c < q[j]}) = Cardinality(1 .. n)
    BY <1>2, <2>2, <2>4
  <2> QED
    BY <2>1, <2>2, <2>5
<1>4. Cardinality({c \in S : q[j] < c}) = N - j
  <2>1. PICK I : I = j + 1 .. N
    OBVIOUS
  <2>2. I \in SUBSET (1 .. N) /\ IsFiniteSet(I) /\ Cardinality(I) = N - j
    <3>1. j + 1 \in Int /\ N \in Int
      OBVIOUS
    <3>2. IsFiniteSet(j + 1 .. N) /\ Cardinality(j + 1 .. N) = IF j + 1 > N THEN 0 ELSE N - (j + 1) + 1
      BY <3>1, FS_Interval
    <3>3. (IF j + 1 > N THEN 0 ELSE N - (j + 1) + 1) = N - j
      OBVIOUS
    <3> QED
      BY <2>1, <3>2, <3>3
  <2>3. \A i \in 1 .. N : j < i <=> i \in I
    BY <2>1
  <2>4. \A x : x \in {c \in S : q[j] < c} <=> \E i \in I : q[i] = x
    BY <1>0, <1>1, <2>2, <2>3
  <2>5. Cardinality({c \in S : q[j] < c}) = Cardinality(I)
    BY <1>2, <2>2, <2>4
  <2> QED
    BY <2>2, <2>5
<1> QED
  BY <1>3, <1>4

\* The first k elements of a sequence.
LEMMA FirstPart ==
  ASSUME NEW S, NEW w \in Seq(S), NEW k \in 0 .. Len(w)
  PROVE  SubSeq(w, 1, k) = [i \in 1 .. k |-> w[i]]
<1>1. PICK N \in Nat : N = Len(w)
  OBVIOUS
<1>2. w = [i \in 1 .. N |-> w[i]] /\ 0 \in 0 .. N /\ k \in 0 .. N
  BY <1>1
<1>3. SubSeq(w, 0 + 1, k) = [i \in 1 .. k - 0 |-> w[0 + i]]
  BY <1>2, PartOf
<1>4. 0 + 1 = 1 /\ k - 0 = k /\ \A i \in 1 .. k : 0 + i = i
  BY <1>2
<1> QED
  BY <1>3, <1>4

\* When the reader is done, its rows are what the table yields.
LEMMA ReadIsExact ==
  ASSUME SentInv, ReadInv, Over, OneTable
  PROVE  /\ first \in cuts /\ known \subseteq {metrics[k].source_row : k \in 1 .. first}
         /\ Yields(SubSeq(metrics, 1, first), out, Up)
<1>1. /\ stage = "scanning" /\ done /\ points = << >> /\ Begun /\ Acceptable
      /\ WellDated(metrics)
  BY SentDated DEF ReadInv, Over, Unasked
<1>2. PICK t : t = SubSeq(metrics, 1, first)
  OBVIOUS
<1>3. WellDated(t)
  BY <1>1, <1>2, TableDated DEF Begun
<1>4. PICK k \in Nat, m \in Nat : ReadFrom(t, k, m)
  BY <1>1, <1>2 DEF Begun, Table
<1>w. PICK w : w = Whole(t)
  OBVIOUS
<1>5. PICK N \in Nat : N = Size(t) /\ w = Whole(t)
  BY <1>w, <1>1, <1>3, StartsFacts
<1>6. PICK S : w \in Seq(S) /\ Len(w) = N
  BY <1>5, WholeFacts
<1>7. PICK limit \in Nat : limit = asked.max_rows
  <2>1. asked.max_rows \in Int /\ asked.max_rows >= 0
    BY <1>1, AskedTypes, Zenon DEF Acceptable
  <2> QED
    BY <2>1
<1>8. /\ m \in 0 .. N /\ k \in 0 .. m /\ out = SubSeq(w, 1, k)
      /\ SubSeq(w, k + 1, m) = << >> /\ (limit > 0 => k <= limit)
      /\ m = N \/ (limit > 0 /\ k = limit /\ k = m)
  BY <1>1, <1>4, <1>5, <1>7 DEF ReadFrom
<1>9. k = m
  <2>1. m \in 0 .. Len(w) /\ 0 \in 0 .. m - k
    BY <1>6, <1>8
  <2> QED
    BY <1>6, <1>8, <2>1, Pieces DEF CutUp
<1>10. out = [i \in 1 .. k |-> w[i]] /\ k \in 0 .. N
  BY <1>6, <1>8, <1>9, FirstPart
<1>11. DOMAIN out = 1 .. k /\ Len(out) = k
  BY <1>10
<1>12. k = IF limit = 0 THEN N ELSE Min({limit, N})
  <2>1. {limit, N} \in SUBSET Nat /\ {limit, N} # {}
    OBVIOUS
  <2>2. Min({limit, N}) \in {limit, N} /\ \A y \in {limit, N} : Min({limit, N}) <= y
    BY <2>1, MinNat
  <2> QED
    BY <1>8, <1>9, <2>2
<1>13. PICK P : P = Starts(t)
  OBVIOUS
<1>14. PICK B : B = Ascending(P)
  OBVIOUS
<1>15. /\ P \in SUBSET Int /\ IsFiniteSet(P) /\ N = Cardinality(P)
       /\ \A b \in P : (b \div Second) * Second = b
  BY <1>1, <1>3, <1>5, <1>13, StartsFacts DEF Size
<1>16. /\ B \in [1 .. N -> P] /\ \A i, j \in 1 .. N : i < j => B[i] < B[j]
       /\ \A x \in P : \E i \in 1 .. N : B[i] = x
  <2>1. B \in Seq(P) /\ Len(B) = N
    BY <1>14, <1>15, AscendingLists
  <2>2. /\ \A i, j \in 1 .. N : i < j => B[i] < B[j]
        /\ \A x \in P : \E i \in 1 .. N : B[i] = x
    BY <1>14, <1>15, AscendingLists
  <2> QED
    BY <2>1, <2>2
<1>17. ASSUME NEW i \in 1 .. k, NEW b, b = out[i].time * Second
       PROVE  /\ b \in P /\ Cardinality({c \in P : IF Up THEN c < b ELSE b < c}) = i - 1
              /\ out[i].value = Aggregate(asked.statistic, ValuesFrom(t, b))
  <2>1. i \in 1 .. N
    BY <1>10
  <2>2. PICK j \in 1 .. N : j = IF Up THEN i ELSE N + 1 - i
    <3>1. (IF Up THEN i ELSE N + 1 - i) \in 1 .. N
      BY <2>1
    <3> QED
      BY <3>1
  <2>3. out[i] = Point(t, j)
    <3>1. out[i] = w[i]
      BY <1>10
    <3>2. w[i] = Point(t, Place(t, i))
      BY <1>5, <2>1, WholeFacts
    <3>3. Place(t, i) = j
      BY <1>5, <2>2 DEF Place
    <3> QED
      BY <3>1, <3>2, <3>3
  <2>4. out[i].time = B[j] \div Second /\ out[i].value = Value(t, j)
    BY <1>13, <1>14, <2>3 DEF Point
  <2>5. B[j] \in P
    BY <1>16
  <2>6. b = B[j]
    BY <1>15, <1>17, <2>4, <2>5
  <2>7. /\ Cardinality({c \in P : c < B[j]}) = j - 1
        /\ Cardinality({c \in P : B[j] < c}) = N - j
    <3>1. ListsUp(B, N, P)
      BY <1>16 DEF ListsUp
    <3>2. N \in Nat /\ P \in SUBSET Int
      BY <1>5, <1>15
    <3>3. PlacedAt(B, N, P, j)
      BY <3>1, <3>2, PlaceInOrder
    <3> QED
      BY <3>3 DEF PlacedAt
  <2>8. Cardinality({c \in P : IF Up THEN c < b ELSE b < c}) = i - 1
    <3>1. CASE Up
      <4>1. {c \in P : IF Up THEN c < b ELSE b < c} = {c \in P : c < B[j]}
        BY <2>6, <3>1
      <4> QED
        BY <2>2, <2>7, <3>1, <4>1
    <3>2. CASE ~Up
      <4>1. {c \in P : IF Up THEN c < b ELSE b < c} = {c \in P : B[j] < c}
        BY <2>6, <3>2
      <4>2. N - j = i - 1
        BY <2>1, <2>2, <3>2
      <4> QED
        BY <2>7, <4>1, <4>2
    <3> QED
      BY <3>1, <3>2
  <2>9. out[i].value = Aggregate(asked.statistic, ValuesFrom(t, b))
    BY <1>13, <1>14, <2>4, <2>6 DEF Value
  <2> QED
    BY <2>5, <2>6, <2>8, <2>9
<1>18. Yields(t, out, Up)
  <2>1. Len(out) = IF asked.max_rows = 0 THEN Cardinality(Starts(t))
                   ELSE Min({asked.max_rows, Cardinality(Starts(t))})
    BY <1>7, <1>11, <1>12, <1>13, <1>15
  <2>2. \A i \in DOMAIN out :
          /\ out[i].time * Second \in Starts(t)
          /\ Cardinality({c \in Starts(t) : IF Up THEN c < out[i].time * Second
                                            ELSE out[i].time * Second < c}) = i - 1
          /\ out[i].value = Aggregate(asked.statistic, ValuesFrom(t, out[i].time * Second))
    BY <1>11, <1>13, <1>17, Zenon
  <2> QED
    BY <2>1, <2>2, Zenon DEF Yields
<1> QED
  BY <1>1, <1>2, <1>18 DEF Begun

\* Nothing was read before the first page.
LEMMA ReadInit == ASSUME MetricsInit PROVE ReadInv
<1>1. /\ service \in {"listener", "aws"} /\ asked \in Settings /\ stage = "begin"
      /\ points = << >> /\ token = 0 /\ done = FALSE /\ out = << >> /\ first = Absent
      /\ metrics = << >> /\ cuts = {0}
  BY DEF MetricsInit, ScanInit
<1>2. Len(metrics) = 0
  BY <1>1
<1> QED
  BY <1>1, <1>2 DEF ReadInv, Acceptable, Unasked

\* Whatever the sender does meanwhile, what the reader has given and fetched is a
\* first part of what the table of its first page yields.
THEOREM ReadInvariant == MetricsSpec => []ReadInv
<1>1. MetricsInit => ReadInv
  BY ReadInit
<1>2. SentInv /\ ReadInv /\ [MetricsNext]_metrics_vars => ReadInv'
  <2> SUFFICES ASSUME SentInv, ReadInv, [MetricsNext]_metrics_vars PROVE ReadInv'
    OBVIOUS
  <2>1. CASE Send
    BY <2>1, SendKeeps
  <2>2. CASE Read
    <3>1. Accepted \subseteq ToSet(Stored)
      BY SentSays DEF SentOnce
    <3> QED
      BY <2>2, <3>1, BeginKeeps, FetchKeeps, FetchFailsKeeps, ScanKeeps DEF Read, ScanNext
  <2>3. CASE UNCHANGED metrics_vars
    BY <2>3, StutterKeeps
  <2> QED
    BY <2>1, <2>2, <2>3 DEF MetricsNext
<1> QED
  BY <1>1, <1>2, SentInvariant, PTL DEF MetricsSpec

\* The rows of a statement that ends are the buckets of a table that held whole
\* requests, all that were accepted before it began among them, in order and cut
\* at max_rows (metrics_table.cpp:151, cloudwatch_server.cpp:631).
THEOREM MetricsReadExact == MetricsSpec => []ReadExact
<1>1. SentInv /\ ReadInv => ReadExact
  <2> SUFFICES ASSUME SentInv, ReadInv, Over, service = "aws" => Len(metrics) = first
               PROVE  \E n \in cuts :
                        /\ known \subseteq {metrics[k].source_row : k \in 1 .. n}
                        /\ Yields(SubSeq(metrics, 1, n), out, service = "listener" \/ asked.order = "asc")
    BY Zenon DEF ReadExact
  <2>1. /\ first \in cuts /\ known \subseteq {metrics[k].source_row : k \in 1 .. first}
        /\ Yields(SubSeq(metrics, 1, first), out, Up)
    BY ReadIsExact DEF OneTable
  <2> QED
    BY <2>1, Zenon DEF Up
<1> QED
  BY <1>1, SentInvariant, ReadInvariant, PTL

=============================================================================
