----------------------- MODULE CloudwatchServerProofs -----------------------
(***************************************************************************)
(* Proofs about the listener, for any number of listeners and pool         *)
(* threads, any requests and any number of restarts: types and the group   *)
(* table; event ids and the atomicity of a batch; deletions and            *)
(* acknowledgements.  Only what is said to assume one listener does.       *)
(***************************************************************************)
EXTENDS CloudwatchServer, TLAPS

\* Init establishes the types.
LEMMA InitTypeOK == Init => TypeOK
  BY DEF Init, TypeOK, Pc, Answers, GroupRow, EventRow, MetricRow

\* The request of a busy worker is well formed.
LEMMA ServingType ==
  ASSUME TypeOK, NEW w \in Worker, pc[w] # "idle"
  PROVE  /\ serving[w] \in DOMAIN history
         /\ serving[w] \in 1..Len(history)
         /\ Req(w) \in Request
         /\ Req(w).op \in Ops
         /\ Req(w).log_group \in Group
         /\ Req(w).log_stream \in Stream
         /\ Req(w).batch \in Seq(Time)
         /\ Req(w).days \in Days
<1>1. serving[w] \in 1..Len(history)
  BY DEF TypeOK
<1>2. history[serving[w]] \in Entry
  BY <1>1 DEF TypeOK
<1>3. Req(w) \in Request
  BY <1>2 DEF Req, Entry
<1> QED
  BY ServerAssumption, RequestAssumption, <1>1, <1>3 DEF TypeOK

\* Ending a request changes its status and its end, nothing else.
LEMMA EndedType ==
  ASSUME TypeOK, NEW n \in 1..Len(history), NEW status \in Status
  PROVE  /\ Ended(history[n], status) \in Entry
         /\ Ended(history[n], status).req = history[n].req
<1>1. history[n] \in Entry
  BY DEF TypeOK
<1>2. Len(history) \in Nat
  BY DEF TypeOK
<1> QED
  BY <1>1, <1>2 DEF Ended, Entry

\* The rows a batch becomes are rows of the events table.
LEMMA EventRowsType ==
  ASSUME TypeOK, NEW w \in Worker, pc[w] # "idle"
  PROVE  EventRows(w, Len(built[w])) \subseteq EventRow
<1>1. Len(built[w]) \in Nat /\ Len(built[w]) <= Len(Req(w).batch)
  BY DEF TypeOK
<1>2. \A i \in 1..Len(built[w]) :
        Req(w).batch[i] \in Time /\ built[w][i] \in Nat /\ i \in Nat
  <2> SUFFICES ASSUME NEW i \in 1..Len(built[w])
               PROVE  Req(w).batch[i] \in Time /\ built[w][i] \in Nat /\ i \in Nat
    OBVIOUS
  <2>1. built[w] \in Seq(Nat) /\ Req(w).batch \in Seq(Time)
    BY ServingType DEF TypeOK
  <2>2. Len(Req(w).batch) \in Nat
    BY <2>1
  <2>3. i \in 1..Len(Req(w).batch)
    BY <1>1, <2>2
  <2> QED
    BY <2>1, <2>3
<1>3. serving[w] \in Nat
  BY DEF TypeOK
<1> QED
  BY <1>2, <1>3, ServingType DEF EventRows, EventRow

\* Every action keeps the types.
LEMMA NextTypeOK == TypeOK /\ [Next]_vars => TypeOK'
<1> SUFFICES ASSUME TypeOK, [Next]_vars PROVE TypeOK'
  OBVIOUS
<1> USE DEF tables, object
<1>1. ASSUME NEW w \in Worker, NEW req \in Request, Accept(w, req)
      PROVE  TypeOK'
  <2>1. history' \in Seq(Entry)
    BY ServerAssumption, RequestAssumption, <1>1 DEF Accept, TypeOK, Entry, Status
  <2>2. /\ Len(history') = Len(history) + 1
        /\ history'[Len(history) + 1].req = req
        /\ \A n \in 1..Len(history) : history'[n] = history[n]
        /\ Len(history) \in Nat
    BY <1>1 DEF Accept, TypeOK
  <2>3. serving' = [serving EXCEPT ![w] = Len(history) + 1] /\ built' = built
    BY <1>1 DEF Accept
  <2>4. pc' = [pc EXCEPT ![w] = IF req.op \in PutOps THEN "build" ELSE "lock"]
    BY <1>1 DEF Accept, Goto
  <2>5. Len(req.batch) \in Nat
    BY <1>1
  <2>6. ASSUME NEW v \in Worker
        PROVE  /\ pc'[v] = "idle" <=> serving'[v] = 0
               /\ pc'[v] = "idle" => built'[v] = << >>
               /\ serving'[v] <= Len(history')
               /\ pc'[v] # "idle" => Len(built'[v]) <= Len(Req(v)'.batch)
    <3>1. CASE v = w
      <4>1. built'[w] = << >> /\ Len(built'[w]) = 0
        BY <1>1, <2>3 DEF Accept, TypeOK
      <4>2. Req(w)' = req
        BY <2>2, <2>3 DEF Req, TypeOK
      <4> QED
        BY <3>1, <4>1, <4>2, <2>2, <2>3, <2>4, <2>5 DEF TypeOK
    <3>2. CASE v # w
      <4>1. serving'[v] = serving[v] /\ pc'[v] = pc[v] /\ built'[v] = built[v]
        BY <3>2, <2>3, <2>4 DEF TypeOK
      <4>2. pc[v] # "idle" => Req(v)' = Req(v)
        BY <4>1, <2>2, ServingType DEF Req
      <4>3. /\ pc[v] = "idle" <=> serving[v] = 0
            /\ pc[v] = "idle" => built[v] = << >>
            /\ serving[v] <= Len(history) /\ serving[v] \in Nat
            /\ pc[v] # "idle" => Len(built[v]) <= Len(Req(v).batch)
        BY DEF TypeOK
      <4> QED
        BY <4>1, <4>2, <4>3, <2>2
    <3> QED
      BY <3>1, <3>2
  <2> QED
    <3>1. /\ serving' \in [Worker -> Nat]
          /\ pc' \in [Worker -> Pc]
      BY <2>2, <2>3, <2>4 DEF TypeOK, Pc
    <3> QED
      BY <1>1, <2>1, <2>6, <3>1 DEF Accept, TypeOK, Req
<1>2. ASSUME NEW w \in Worker, BuildRow(w) PROVE TypeOK'
  <2>1. /\ event_counter' \in [Server -> Nat]
        /\ \E id \in Nat : built' = [built EXCEPT ![w] = Append(@, id)]
    <3>1. NextEventId(w) \in Nat /\ 0 \in Nat
      BY ServerAssumption DEF NextEventId, TypeOK
    <3>2. CASE Req(w).op = "PutLogEvents"
      <4>1. /\ event_counter' = [event_counter EXCEPT ![ServerOf[w]] = NextEventId(w)]
            /\ built' = [built EXCEPT ![w] = Append(@, NextEventId(w))]
        BY <1>2, <3>2 DEF BuildRow
      <4>2. event_counter' \in [Server -> Nat]
        BY <3>1, <4>1 DEF TypeOK
      <4> QED
        BY <3>1, <4>1, <4>2
    <3>3. CASE Req(w).op # "PutLogEvents"
      BY <1>2, <3>1, <3>3 DEF BuildRow, TypeOK
    <3> QED
      BY <3>2, <3>3
  <2>2. Len(built[w]) \in Nat /\ Len(Req(w).batch) \in Nat
    <3>1. pc[w] # "idle"
      BY <1>2 DEF BuildRow
    <3>2. Req(w).batch \in Seq(Time)
      BY <3>1, ServingType
    <3>3. built[w] \in Seq(Nat)
      BY DEF TypeOK
    <3> QED
      BY <3>2, <3>3
  <2>3. /\ built' \in [Worker -> Seq(Nat)]
        /\ Len(built'[w]) = Len(built[w]) + 1
        /\ \A v \in Worker : v # w => built'[v] = built[v]
    <3>1. built \in [Worker -> Seq(Nat)]
      BY DEF TypeOK
    <3>2. PICK id \in Nat : built' = [built EXCEPT ![w] = Append(@, id)]
      BY <2>1
    <3>3. built[w] \in Seq(Nat) /\ Append(built[w], id) \in Seq(Nat)
      BY <3>1
    <3> QED
      BY <3>1, <3>2, <3>3
  <2>4. Len(built'[w]) <= Len(Req(w).batch)
    BY <1>2, <2>2, <2>3 DEF BuildRow
  <2>5. /\ UNCHANGED <<groups, events, metrics, auto_create, totals, lifetime,
                       writer_mutex, pc, serving, outcome, history>>
        /\ pc[w] # "idle"
    BY <1>2 DEF BuildRow
  <2>6. \A v \in Worker : Req(v)' = Req(v)
    BY <2>5 DEF Req
  <2> QED
    BY <2>1, <2>3, <2>4, <2>5, <2>6 DEF TypeOK
<1>a. ASSUME NEW w \in Worker, pc[w] # "idle", NEW label \in Pc \ {"idle"},
             Goto(w, label)
      PROVE  /\ pc' \in [Worker -> Pc]
             /\ \A v \in Worker : pc'[v] = "idle" <=> pc[v] = "idle"
  BY <1>a DEF Goto, TypeOK
<1>b. ASSUME NEW w \in Worker, pc[w] # "idle", NEW answer \in Answers,
             Finish(w, answer)
      PROVE  /\ pc' \in [Worker -> Pc]
             /\ \A v \in Worker : pc'[v] = "idle" <=> pc[v] = "idle"
             /\ writer_mutex' \in [Server -> Worker \cup {NoWorker}]
             /\ outcome' \in [Worker -> Answers]
  <2>1. "reply" \in Pc \ {"idle"} /\ Goto(w, "reply")
    BY <1>b DEF Pc, Finish
  <2>2. writer_mutex' \in [Server -> Worker \cup {NoWorker}]
    BY <1>b DEF Finish, TypeOK
  <2>3. outcome' \in [Worker -> Answers]
    BY <1>b DEF Finish, TypeOK
  <2> QED
    BY <1>a, <1>b, <2>1, <2>2, <2>3
<1>c. ASSUME UNCHANGED <<object, serving, built, history>>,
             groups' \subseteq GroupRow, events' \subseteq EventRow,
             metrics' \subseteq MetricRow,
             pc' \in [Worker -> Pc],
             \A v \in Worker : pc'[v] = "idle" <=> pc[v] = "idle",
             writer_mutex' \in [Server -> Worker \cup {NoWorker}],
             outcome' \in [Worker -> Answers]
      PROVE  TypeOK'
  BY <1>c DEF TypeOK, Req
<1>d. /\ groups \subseteq GroupRow /\ events \subseteq EventRow
      /\ metrics \subseteq MetricRow
      /\ writer_mutex \in [Server -> Worker \cup {NoWorker}]
      /\ outcome \in [Worker -> Answers]
  BY DEF TypeOK
<1>e. {"build", "lock", "reply"} \cup Statements = Pc \ {"idle"}
  BY DEF Pc, Statements
<1>3. ASSUME NEW w \in Worker, RejectBatch(w) PROVE TypeOK'
  <2>1. "reply" \in Pc \ {"idle"} /\ outcome' \in [Worker -> Answers]
    BY <1>d, <1>e, <1>3 DEF RejectBatch, Answers
  <2> QED
    BY <1>a, <1>c, <1>d, <1>3, <2>1 DEF RejectBatch
<1>4. ASSUME NEW w \in Worker, BatchBuilt(w) PROVE TypeOK'
  <2>1. "lock" \in Pc \ {"idle"}
    BY <1>e
  <2> QED
    BY <1>a, <1>c, <1>d, <1>4, <2>1 DEF BatchBuilt
<1>5. ASSUME NEW w \in Worker, Acquire(w) PROVE TypeOK'
  <2>1. FirstStatement(Req(w).op) \in Pc \ {"idle"}
    BY <1>e DEF FirstStatement, Statements
  <2>2. writer_mutex' \in [Server -> Worker \cup {NoWorker}]
    BY <1>5, <1>d DEF Acquire
  <2> QED
    BY <1>a, <1>c, <1>d, <1>5, <2>1, <2>2 DEF Acquire
<1>6. ASSUME NEW w \in Worker, CheckGroup(w) PROVE TypeOK'
  <2> DEFINE exists == GroupExists(Req(w).log_group)
  <2>0. pc[w] # "idle" /\ UNCHANGED <<tables, object, serving, built, history>>
    BY <1>6 DEF CheckGroup
  <2>1. CASE Finish(w, "client_error")
    BY <1>b, <1>c, <1>d, <2>0, <2>1 DEF Answers
  <2>2. CASE /\ Goto(w, AfterCheckGroup(w, exists))
             /\ UNCHANGED <<writer_mutex, outcome>>
    <3>1. AfterCheckGroup(w, exists) \in Pc \ {"idle"}
      BY <1>e DEF AfterCheckGroup, Statements
    <3> QED
      BY <1>a, <1>c, <1>d, <2>0, <2>2, <3>1
  <2> QED
    BY <1>6, <2>1, <2>2 DEF CheckGroup
<1>7. ASSUME NEW w \in Worker, InsertGroup(w) PROVE TypeOK'
  <2>0. pc[w] # "idle" /\ UNCHANGED <<events, metrics, object, serving, built, history>>
    BY <1>7 DEF InsertGroup
  <2>1. groups' \subseteq GroupRow
    <3>1. [log_group |-> Req(w).log_group, log_stream |-> NoStream,
           retention_in_days |-> NoDays, by |-> serving[w]] \in GroupRow
      BY <2>0, ServingType DEF GroupRow, TypeOK
    <3> QED
      BY <1>7, <1>d, <3>1 DEF InsertGroup
  <2>2. CASE Finish(w, "ok")
    BY <1>b, <1>c, <1>d, <2>0, <2>1, <2>2 DEF Answers
  <2>3. CASE Goto(w, "check_stream") /\ UNCHANGED <<writer_mutex, outcome>>
    <3>1. "check_stream" \in Pc \ {"idle"}
      BY <1>e DEF Statements
    <3> QED
      BY <1>a, <1>c, <1>d, <2>0, <2>1, <2>3, <3>1
  <2> QED
    BY <1>7, <2>2, <2>3 DEF InsertGroup
<1>8. ASSUME NEW w \in Worker, CheckStream(w) PROVE TypeOK'
  <2> DEFINE label == IF StreamExists(Req(w).log_group, Req(w).log_stream)
                      THEN "append_rows" ELSE "insert_stream"
  <2>0. pc[w] # "idle" /\ UNCHANGED <<tables, object, serving, built, history>>
    BY <1>8 DEF CheckStream
  <2>1. CASE Finish(w, "client_error")
    BY <1>b, <1>c, <1>d, <2>0, <2>1 DEF Answers
  <2>2. CASE Goto(w, label) /\ UNCHANGED <<writer_mutex, outcome>>
    <3>1. label \in Pc \ {"idle"}
      BY <1>e DEF Statements
    <3> QED
      BY <1>a, <1>c, <1>d, <2>0, <2>2, <3>1
  <2> QED
    BY <1>8, <2>1, <2>2 DEF CheckStream
<1>9. ASSUME NEW w \in Worker, InsertStream(w) PROVE TypeOK'
  <2>0. pc[w] # "idle" /\ UNCHANGED <<events, metrics, object, serving, built, history>>
    BY <1>9 DEF InsertStream
  <2>1. groups' \subseteq GroupRow
    <3>1. [log_group |-> Req(w).log_group, log_stream |-> Req(w).log_stream,
           retention_in_days |-> NoDays, by |-> serving[w]] \in GroupRow
      BY <2>0, ServingType DEF GroupRow, TypeOK
    <3> QED
      BY <1>9, <1>d, <3>1 DEF InsertStream
  <2>2. CASE Finish(w, "ok")
    BY <1>b, <1>c, <1>d, <2>0, <2>1, <2>2 DEF Answers
  <2>3. CASE Goto(w, "append_rows") /\ UNCHANGED <<writer_mutex, outcome>>
    <3>1. "append_rows" \in Pc \ {"idle"}
      BY <1>e DEF Statements
    <3> QED
      BY <1>a, <1>c, <1>d, <2>0, <2>1, <2>3, <3>1
  <2> QED
    BY <1>9, <2>2, <2>3 DEF InsertStream
<1>10. ASSUME NEW w \in Worker, AppendRows(w) PROVE TypeOK'
  <2>1. pc[w] # "idle"
    BY <1>10 DEF AppendRows
  <2>2. events' \subseteq EventRow
    BY <1>10, <1>d, <2>1, EventRowsType DEF AppendRows
  <2> QED
    BY <1>b, <1>c, <1>d, <1>10, <2>1, <2>2 DEF AppendRows, Answers
<1>11. ASSUME NEW w \in Worker, DeleteGroups(w) PROVE TypeOK'
  <2>1. groups' \subseteq GroupRow /\ pc[w] # "idle"
    BY <1>11, <1>d DEF DeleteGroups
  <2>2. "delete_events" \in Pc \ {"idle"}
    BY <1>e DEF Statements
  <2> QED
    BY <1>a, <1>c, <1>d, <1>11, <2>1, <2>2 DEF DeleteGroups
<1>12. ASSUME NEW w \in Worker, DeleteEvents(w) PROVE TypeOK'
  <2>1. events' \subseteq EventRow /\ pc[w] # "idle"
    BY <1>12, <1>d DEF DeleteEvents
  <2> QED
    BY <1>b, <1>c, <1>d, <1>12, <2>1 DEF DeleteEvents, Answers
<1>13. ASSUME NEW w \in Worker, UpdateRetention(w) PROVE TypeOK'
  <2>0. pc[w] # "idle"
    BY <1>13 DEF UpdateRetention
  <2>1. \A r \in groups :
          [r EXCEPT !.retention_in_days = Req(w).days] \in GroupRow
    <3>1. Req(w).days \in Days
      BY <2>0, ServingType
    <3> SUFFICES ASSUME NEW r \in GroupRow
                 PROVE  [r EXCEPT !.retention_in_days = Req(w).days] \in GroupRow
      BY <1>d
    <3> QED
      BY <3>1 DEF GroupRow
  <2>2. groups' \subseteq GroupRow
    BY <1>13, <1>d, <2>1 DEF UpdateRetention
  <2> QED
    BY <1>b, <1>c, <1>d, <1>13, <2>0, <2>2 DEF UpdateRetention, Answers
<1>14. ASSUME NEW w \in Worker, AppendMetrics(w) PROVE TypeOK'
  <2>0. pc[w] # "idle"
    BY <1>14 DEF AppendMetrics
  <2>1. \A i \in 1..Len(built[w]) : Req(w).batch[i] \in Time /\ i \in Nat
    <3>1. Req(w).batch \in Seq(Time) /\ Len(Req(w).batch) \in Nat
      BY <2>0, ServingType
    <3>2. Len(built[w]) \in Nat /\ Len(built[w]) <= Len(Req(w).batch)
      BY <2>0 DEF TypeOK
    <3> QED
      BY <3>1, <3>2
  <2>2. serving[w] \in Nat
    BY DEF TypeOK
  <2>3. metrics' \subseteq MetricRow
    BY <1>14, <1>d, <2>1, <2>2 DEF AppendMetrics, MetricRow
  <2> QED
    BY <1>b, <1>c, <1>d, <1>14, <2>0, <2>3 DEF AppendMetrics, Answers
<1>15. ASSUME NEW w \in Worker, Read(w) PROVE TypeOK'
  <2>1. pc[w] # "idle"
    BY <1>15 DEF Read
  <2> QED
    BY <1>b, <1>c, <1>d, <1>15, <2>1 DEF Read, Answers
<1>16. ASSUME NEW w \in Worker, StatementFails(w) PROVE TypeOK'
  <2>1. pc[w] # "idle"
    BY <1>16 DEF StatementFails, Statements
  <2> QED
    BY <1>b, <1>c, <1>d, <1>16, <2>1 DEF StatementFails, Answers
<1>17. ASSUME NEW w \in Worker, Reply(w) PROVE TypeOK'
  <2>1. /\ history' \in Seq(Entry)
        /\ Len(history') = Len(history)
        /\ \A n \in 1..Len(history) : history'[n].req = history[n].req
    <3>1. serving[w] \in 1..Len(history) /\ outcome[w] \in Answers
      BY <1>17, ServingType DEF Reply, TypeOK
    <3>2. /\ Ended(history[serving[w]], outcome[w]) \in Entry
          /\ Ended(history[serving[w]], outcome[w]).req = history[serving[w]].req
      BY <3>1, EndedType DEF TypeOK, Status
    <3> QED
      BY <1>17, <3>1, <3>2 DEF Reply, TypeOK
  <2>2. totals' \in [Server -> [requests: Nat, rows: Nat]]
    BY ServerAssumption, <1>17 DEF Reply, TypeOK
  <2>3. \A v \in Worker : pc'[v] # "idle" => Req(v)' = Req(v)
    BY <1>17, <2>1, ServingType DEF Reply, Goto, TypeOK, Req
  <2>4. ASSUME NEW v \in Worker
        PROVE  /\ pc'[v] = "idle" <=> serving'[v] = 0
               /\ pc'[v] = "idle" => built'[v] = << >>
               /\ serving'[v] <= Len(history')
               /\ pc'[v] # "idle" => Len(built'[v]) <= Len(Req(v)'.batch)
    BY <1>17, <2>1, <2>3 DEF Reply, Goto, TypeOK
  <2>5. pc' \in [Worker -> Pc] /\ outcome' \in [Worker -> Answers]
    BY <1>17 DEF Reply, Goto, TypeOK, Pc, Answers
  <2>6. serving' \in [Worker -> Nat] /\ built' \in [Worker -> Seq(Nat)]
    BY <1>17 DEF Reply, TypeOK
  <2>7. /\ groups' \subseteq GroupRow /\ events' \subseteq EventRow
        /\ metrics' \subseteq MetricRow
        /\ auto_create' \in [Server -> BOOLEAN]
        /\ writer_mutex' \in [Server -> Worker \cup {NoWorker}]
        /\ event_counter' \in [Server -> Nat]
        /\ lifetime' \in [Server -> Nat]
    BY <1>17 DEF Reply, TypeOK
  <2> QED
    BY <2>1, <2>2, <2>4, <2>5, <2>6, <2>7 DEF TypeOK
<1>18. ASSUME NEW s \in Server, Restart(s) PROVE TypeOK'
  BY <1>18 DEF Restart, TypeOK, Req
<1>19. ASSUME Crash PROVE TypeOK'
  <2>1. \A n \in 1..Len(history) : Ended(history[n], "lost") \in Entry
    BY EndedType DEF TypeOK, Status
  <2>2. history' \in Seq(Entry)
    <3>1. history' = [n \in 1..Len(history) |->
                        IF history[n].status = "pending"
                        THEN Ended(history[n], "lost") ELSE history[n]]
      BY <1>19 DEF Crash, TypeOK
    <3>2. \A n \in 1..Len(history) : history[n] \in Entry
      BY DEF TypeOK
    <3>3. Len(history) \in Nat
      BY DEF TypeOK
    <3>4. history' \in [1..Len(history) -> Entry]
      BY <2>1, <3>1, <3>2
    <3> QED
      BY <3>3, <3>4
  <2>3. Len(history') \in Nat
    BY <2>2
  <2>4. /\ pc' = [w \in Worker |-> "idle"]
        /\ serving' = [w \in Worker |-> 0]
        /\ built' = [w \in Worker |-> << >>]
        /\ outcome' = [w \in Worker |-> "ok"]
    BY <1>19 DEF Crash
  <2> QED
    BY <1>19, <2>2, <2>3, <2>4 DEF Crash, TypeOK, Pc, Answers
<1>20. CASE UNCHANGED vars
  BY <1>20 DEF vars, TypeOK, Req
<1> QED
  BY <1>1, <1>2, <1>3, <1>4, <1>5, <1>6, <1>7, <1>8, <1>9, <1>10, <1>11, <1>12,
     <1>13, <1>14, <1>15, <1>16, <1>17, <1>18, <1>19, <1>20
  DEF Next, Serve, Execute, Quiet

\* Every state of the listener is well typed: the tables hold rows of their
\* schemas, and a thread's label, its request and its batch agree.
THEOREM TypeCorrect == Spec => []TypeOK
<1> QED
  BY InitTypeOK, NextTypeOK, PTL DEF Spec

----------------------------------------------------------------------------
(* writer_mutex and what a handler knows while it holds it.                *)

\* A worker holds its listener's mutex exactly while it executes statements.
MutexInv ==
  \A w \in Worker : InCritical(w) <=> writer_mutex[ServerOf[w]] = w

\* The statements an operation executes.
LabelInv ==
  \A w \in Worker :
    /\ pc[w] = "check_group" => Req(w).op \in GroupOps
    /\ pc[w] = "insert_group" => Req(w).op \in {"CreateLogGroup", "PutLogEvents"}
    /\ pc[w] \in {"check_stream", "insert_stream"}
         => Req(w).op \in {"CreateLogStream", "PutLogEvents"}
    /\ pc[w] = "append_rows" => Req(w).op = "PutLogEvents"
    /\ pc[w] \in {"delete_groups", "delete_events"}
         => Req(w).op = "DeleteLogGroup"
    /\ pc[w] = "update_retention" => Req(w).op = "PutRetentionPolicy"
    /\ pc[w] = "append_metrics" => Req(w).op = "PutMetricData"
    /\ pc[w] = "read" => Req(w).op \notin GroupOps

\* What the checks of a handler found is still so at its later statements.
KnownInv ==
  \A w \in Worker :
    /\ pc[w] = "insert_group" => ~GroupExists(Req(w).log_group)
    /\ pc[w] \in {"check_stream", "insert_stream", "append_rows"}
         => GroupExists(Req(w).log_group)
    /\ pc[w] = "insert_stream"
         => ~StreamExists(Req(w).log_group, Req(w).log_stream)
    /\ pc[w] = "append_rows"
         => StreamExists(Req(w).log_group, Req(w).log_stream)

CatalogInv == TypeOK /\ MutexInv /\ LabelInv /\ KnownInv /\ CatalogConsistent

\* One listener writes to the tables.
OneListener == \A s, t \in Server : s = t

\* Two workers of one listener do not execute statements together.
LEMMA MutualExclusion ==
  ASSUME TypeOK, MutexInv, NEW v \in Worker, NEW w \in Worker,
         InCritical(v), InCritical(w), ServerOf[v] = ServerOf[w]
  PROVE  v = w
  BY DEF MutexInv, TypeOK

\* The request of a worker that is not (becoming) idle does not change.
LEMMA ReqKept ==
  ASSUME TypeOK, NEW w \in Worker, pc[w] # "idle",
         NEW v \in Worker,
         \/ UNCHANGED <<serving, history>>
         \/ Reply(v) /\ v # w
         \/ \E req \in Request : Accept(v, req)
  PROVE  Req(w)' = Req(w)
<1>1. serving[w] \in 1..Len(history)
  BY ServingType
<1>2. CASE UNCHANGED <<serving, history>>
  BY <1>2 DEF Req
<1>3. CASE Reply(v) /\ v # w
  <2>1. serving[v] \in 1..Len(history) /\ outcome[v] \in Status
    BY <1>3, ServingType DEF Reply, TypeOK, Status
  <2>2. history'[serving[w]].req = history[serving[w]].req
    <3>1. Ended(history[serving[v]], outcome[v]).req = history[serving[v]].req
      BY <2>1, EndedType
    <3>2. history' = [history EXCEPT ![serving[v]] =
                        Ended(history[serving[v]], outcome[v])]
      BY <1>3 DEF Reply
    <3>3. CASE serving[w] = serving[v]
      BY <1>1, <3>1, <3>2, <3>3 DEF TypeOK
    <3>4. CASE serving[w] # serving[v]
      BY <1>1, <3>2, <3>4 DEF TypeOK
    <3> QED
      BY <3>3, <3>4
  <2>3. serving'[w] = serving[w]
    BY <1>3 DEF Reply, TypeOK
  <2> QED
    BY <2>2, <2>3 DEF Req
<1>4. CASE \E req \in Request : Accept(v, req)
  <2>1. v # w
    BY <1>4 DEF Accept
  <2>2. serving'[w] = serving[w]
    BY <1>4, <2>1 DEF Accept, TypeOK
  <2>3. history'[serving[w]] = history[serving[w]]
    BY <1>1, <1>4 DEF Accept, TypeOK
  <2> QED
    BY <2>2, <2>3 DEF Req
<1> QED
  BY <1>2, <1>3, <1>4

\* The mutex is taken when free and given back when the scope ends.
LEMMA NextMutexInv == TypeOK /\ MutexInv /\ [Next]_vars => MutexInv'
<1> SUFFICES ASSUME TypeOK, MutexInv, [Next]_vars PROVE MutexInv'
  OBVIOUS
<1> USE DEF MutexInv, InCritical, Statements, Goto
<1>1. ASSUME NEW w \in Worker, NEW req \in Request, Accept(w, req)
      PROVE  MutexInv'
  BY <1>1 DEF Accept, TypeOK
<1>2. ASSUME NEW w \in Worker,
             BuildRow(w) \/ RejectBatch(w) \/ BatchBuilt(w) \/ Reply(w)
      PROVE  MutexInv'
  <2>1. CASE BuildRow(w)
    BY <2>1 DEF BuildRow
  <2>2. CASE RejectBatch(w) \/ BatchBuilt(w) \/ Reply(w)
    <3>1. /\ pc[w] \notin Statements
          /\ \E label \in {"reply", "lock", "idle"} :
               pc' = [pc EXCEPT ![w] = label]
          /\ writer_mutex' = writer_mutex
      BY <2>2 DEF RejectBatch, BatchBuilt, Reply
    <3> QED
      BY <3>1 DEF TypeOK
  <2> QED
    BY <1>2, <2>1, <2>2
<1>3. ASSUME NEW w \in Worker, Acquire(w) PROVE MutexInv'
  BY ServerAssumption, <1>3 DEF Acquire, FirstStatement, TypeOK
<1>4. ASSUME NEW w \in Worker, NEW a, pc[w] \in Statements, Finish(w, a)
      PROVE  MutexInv'
  BY ServerAssumption, <1>4 DEF Finish, TypeOK
<1>5. ASSUME NEW w \in Worker, NEW label \in Statements, pc[w] \in Statements,
             Goto(w, label), UNCHANGED writer_mutex
      PROVE  MutexInv'
  BY <1>5 DEF TypeOK
<1>6. ASSUME NEW w \in Worker, Execute(w) PROVE MutexInv'
  <2>1. pc[w] \in Statements
    BY <1>6 DEF Execute, CheckGroup, InsertGroup, CheckStream, InsertStream,
                AppendRows, DeleteGroups, DeleteEvents, UpdateRetention,
                AppendMetrics, Read, StatementFails
  <2>2. \/ \E a \in Answers : Finish(w, a)
        \/ \E label \in Statements : Goto(w, label) /\ UNCHANGED writer_mutex
    <3> USE DEF Answers
    <3>1. CASE CheckGroup(w)
      BY <3>1 DEF CheckGroup, AfterCheckGroup
    <3>2. CASE InsertGroup(w)
      BY <3>2 DEF InsertGroup
    <3>3. CASE CheckStream(w)
      BY <3>3 DEF CheckStream
    <3>4. CASE InsertStream(w)
      BY <3>4 DEF InsertStream
    <3>5. CASE DeleteGroups(w)
      BY <3>5 DEF DeleteGroups
    <3>6. CASE \/ AppendRows(w) \/ DeleteEvents(w) \/ UpdateRetention(w)
               \/ AppendMetrics(w) \/ Read(w) \/ StatementFails(w)
      BY <3>6 DEF AppendRows, DeleteEvents, UpdateRetention, AppendMetrics,
                  Read, StatementFails
    <3> QED
      BY <1>6, <3>1, <3>2, <3>3, <3>4, <3>5, <3>6 DEF Execute
  <2> QED
    BY <1>4, <1>5, <2>1, <2>2
<1>7. ASSUME NEW s \in Server, Restart(s) PROVE MutexInv'
  BY <1>7 DEF Restart
<1>8. ASSUME Crash PROVE MutexInv'
  BY ServerAssumption, <1>8 DEF Crash
<1>9. CASE UNCHANGED vars
  BY <1>9 DEF vars
<1> QED
  BY <1>1, <1>2, <1>3, <1>6, <1>7, <1>8, <1>9 DEF Next, Serve, Quiet

\* Labels follow from the operation.
LEMMA NextLabelInv == TypeOK /\ LabelInv /\ [Next]_vars => LabelInv'
<1> SUFFICES ASSUME TypeOK, LabelInv, [Next]_vars PROVE LabelInv'
  OBVIOUS
<1> USE DEF LabelInv
<1>0. pc \in [Worker -> Pc]
  BY DEF TypeOK
<1>1. ASSUME NEW w \in Worker,
             \A v \in Worker : v # w => pc'[v] = pc[v],
             \A v \in Worker : v # w /\ pc[v] # "idle" => Req(v)' = Req(v),
             pc'[w] \in {"idle", "build", "lock", "reply"}
      PROVE  LabelInv'
  BY <1>1
<1>2. ASSUME NEW w \in Worker, NEW req \in Request, Accept(w, req)
      PROVE  LabelInv'
  <2>1. \A v \in Worker : v # w /\ pc[v] # "idle" => Req(v)' = Req(v)
    BY <1>2, ReqKept
  <2>2. /\ \A v \in Worker : v # w => pc'[v] = pc[v]
        /\ pc'[w] \in {"idle", "build", "lock", "reply"}
    BY <1>0, <1>2 DEF Accept, Goto
  <2> QED
    BY <1>1, <2>1, <2>2
<1>3. ASSUME NEW w \in Worker, Reply(w) PROVE LabelInv'
  <2>1. \A v \in Worker : v # w /\ pc[v] # "idle" => Req(v)' = Req(v)
    BY <1>3, ReqKept
  <2> QED
    BY <1>0, <1>1, <1>3, <2>1 DEF Reply, Goto
<1>4. ASSUME NEW w \in Worker, BuildRow(w) PROVE LabelInv'
  BY <1>4 DEF BuildRow, Req
<1>5. ASSUME NEW w \in Worker, NEW a, Finish(w, a), UNCHANGED <<serving, history>>
      PROVE  LabelInv'
  BY <1>0, <1>1, <1>5 DEF Finish, Goto, Req
<1>6. ASSUME NEW w \in Worker, RejectBatch(w) \/ BatchBuilt(w)
      PROVE  LabelInv'
  <2>1. /\ \E label \in {"reply", "lock"} : pc' = [pc EXCEPT ![w] = label]
        /\ UNCHANGED <<serving, history>>
    BY <1>6 DEF RejectBatch, BatchBuilt, Goto
  <2> QED
    BY <1>0, <1>1, <2>1 DEF Req
<1>7. ASSUME NEW w \in Worker, NEW label, Goto(w, label),
             UNCHANGED <<serving, history>>,
             label = "check_group" => Req(w).op \in GroupOps,
             label = "insert_group"
               => Req(w).op \in {"CreateLogGroup", "PutLogEvents"},
             label \in {"check_stream", "insert_stream"}
               => Req(w).op \in {"CreateLogStream", "PutLogEvents"},
             label = "append_rows" => Req(w).op = "PutLogEvents",
             label \in {"delete_groups", "delete_events"}
               => Req(w).op = "DeleteLogGroup",
             label = "update_retention" => Req(w).op = "PutRetentionPolicy",
             label = "append_metrics" => Req(w).op = "PutMetricData",
             label = "read" => Req(w).op \notin GroupOps
      PROVE  LabelInv'
  BY <1>0, <1>7 DEF Goto, Req
<1>8. ASSUME NEW w \in Worker, Acquire(w) PROVE LabelInv'
  BY <1>7, <1>8 DEF Acquire, FirstStatement
<1>9. ASSUME NEW w \in Worker, CheckGroup(w) PROVE LabelInv'
  <2> DEFINE exists == GroupExists(Req(w).log_group)
  <2>1. CASE Finish(w, "client_error")
    BY <1>5, <1>9, <2>1 DEF CheckGroup
  <2>2. CASE ~RefusedByGroup(w, exists) /\ Goto(w, AfterCheckGroup(w, exists))
    <3>1. UNCHANGED <<serving, history>> /\ Req(w).op \in GroupOps
      BY <1>9 DEF CheckGroup
    <3>2. \/ Req(w).op = "DeleteLogGroup" /\ AfterCheckGroup(w, exists) = "delete_groups"
          \/ /\ Req(w).op = "PutRetentionPolicy"
             /\ AfterCheckGroup(w, exists) = "update_retention"
          \/ /\ Req(w).op \in {"CreateLogGroup", "PutLogEvents"}
             /\ AfterCheckGroup(w, exists) = "insert_group"
          \/ /\ Req(w).op \in {"CreateLogStream", "PutLogEvents"}
             /\ AfterCheckGroup(w, exists) = "check_stream"
      BY <2>2, <3>1 DEF AfterCheckGroup, RefusedByGroup, GroupOps
    <3> QED
      BY <1>7, <2>2, <3>1, <3>2
  <2> QED
    BY <1>9, <2>1, <2>2 DEF CheckGroup
<1>10. ASSUME NEW w \in Worker, InsertGroup(w) PROVE LabelInv'
  BY <1>5, <1>7, <1>10 DEF InsertGroup
<1>11. ASSUME NEW w \in Worker, CheckStream(w) PROVE LabelInv'
  BY <1>5, <1>7, <1>11 DEF CheckStream, RefusedByStream
<1>12. ASSUME NEW w \in Worker, InsertStream(w) PROVE LabelInv'
  BY <1>5, <1>7, <1>12 DEF InsertStream
<1>13. ASSUME NEW w \in Worker, DeleteGroups(w) PROVE LabelInv'
  BY <1>7, <1>13 DEF DeleteGroups
<1>14. ASSUME NEW w \in Worker,
              \/ AppendRows(w) \/ DeleteEvents(w) \/ UpdateRetention(w)
              \/ AppendMetrics(w) \/ Read(w) \/ StatementFails(w)
       PROVE  LabelInv'
  BY <1>5, <1>14 DEF AppendRows, DeleteEvents, UpdateRetention, AppendMetrics,
                     Read, StatementFails
<1>15. ASSUME NEW s \in Server, Restart(s) PROVE LabelInv'
  BY <1>15 DEF Restart, Req
<1>16. ASSUME Crash PROVE LabelInv'
  BY <1>16 DEF Crash
<1>17. CASE UNCHANGED vars
  BY <1>17 DEF vars, Req
<1> QED
  BY <1>2, <1>3, <1>4, <1>6, <1>8, <1>9, <1>10, <1>11, <1>12, <1>13, <1>14,
     <1>15, <1>16, <1>17 DEF Next, Serve, Execute, Quiet

\* KnownInv for one worker.
Known(w) ==
  /\ pc[w] = "insert_group" => ~GroupExists(Req(w).log_group)
  /\ pc[w] \in {"check_stream", "insert_stream", "append_rows"}
       => GroupExists(Req(w).log_group)
  /\ pc[w] = "insert_stream"
       => ~StreamExists(Req(w).log_group, Req(w).log_stream)
  /\ pc[w] = "append_rows"
       => StreamExists(Req(w).log_group, Req(w).log_stream)

\* A row for a name that is not listed keeps the group table consistent.
LEMMA InsertConsistent ==
  ASSUME CatalogConsistent, NEW row, groups' = groups \cup {row},
         ~\E r \in groups : /\ r.log_group = row.log_group
                            /\ r.log_stream = row.log_stream,
         row.log_stream = NoStream \/ GroupExists(row.log_group)
  PROVE  CatalogConsistent'
  BY DEF CatalogConsistent, GroupExists

\* With one listener, a handler that changes the group table is alone, so the
\* table stays consistent and what every handler has found stays true.
LEMMA NextCatalog ==
  OneListener /\ CatalogInv /\ [Next]_vars => KnownInv' /\ CatalogConsistent'
<1> SUFFICES ASSUME OneListener, CatalogInv, [Next]_vars
             PROVE  KnownInv' /\ CatalogConsistent'
  OBVIOUS
<1> USE DEF tables
<1>0. /\ pc \in [Worker -> Pc]
      /\ TypeOK /\ MutexInv /\ LabelInv /\ KnownInv /\ CatalogConsistent
  BY DEF TypeOK, CatalogInv
<1>a. ASSUME UNCHANGED groups PROVE CatalogConsistent'
  BY <1>0, <1>a DEF CatalogConsistent, GroupExists
<1>b. ASSUME NEW w \in Worker, UNCHANGED groups,
             \A v \in Worker : v # w => pc'[v] = pc[v],
             \A v \in Worker : v # w /\ pc[v] # "idle" => Req(v)' = Req(v),
             Known(w)'
      PROVE  KnownInv'
  BY <1>0, <1>b DEF KnownInv, Known, GroupExists, StreamExists
<1>c. ASSUME NEW w \in Worker, InCritical(w),
             \A v \in Worker : v # w => pc'[v] = pc[v],
             Known(w)'
      PROVE  KnownInv'
  <2>1. \A v \in Worker : v # w => ~InCritical(v)
    BY <1>0, <1>c, MutualExclusion, ServerAssumption DEF OneListener
  <2> QED
    BY <1>c, <2>1 DEF KnownInv, Known, InCritical, Statements
<1>d. ASSUME NEW w \in Worker, NEW a, Finish(w, a) PROVE Known(w)'
  BY <1>0, <1>d DEF Finish, Goto, Known
<1>1. ASSUME NEW w \in Worker, NEW req \in Request, Accept(w, req)
      PROVE  KnownInv' /\ CatalogConsistent'
  <2>1. \A v \in Worker : v # w /\ pc[v] # "idle" => Req(v)' = Req(v)
    BY <1>0, <1>1, ReqKept
  <2>2. Known(w)'
    BY <1>0, <1>1 DEF Accept, Goto, Known
  <2> QED
    BY <1>0, <1>1, <1>a, <1>b, <2>1, <2>2 DEF Accept, Goto
<1>2. ASSUME NEW w \in Worker, Reply(w) PROVE KnownInv' /\ CatalogConsistent'
  <2>1. \A v \in Worker : v # w /\ pc[v] # "idle" => Req(v)' = Req(v)
    BY <1>0, <1>2, ReqKept
  <2>2. Known(w)'
    BY <1>0, <1>2 DEF Reply, Goto, Known
  <2> QED
    BY <1>0, <1>2, <1>a, <1>b, <2>1, <2>2 DEF Reply, Goto
<1>3. ASSUME NEW w \in Worker, BuildRow(w)
      PROVE  KnownInv' /\ CatalogConsistent'
  <2>1. UNCHANGED <<groups, pc, serving, history>>
    BY <1>3 DEF BuildRow
  <2> QED
    BY <1>0, <1>a, <2>1 DEF KnownInv, GroupExists, StreamExists, Req
<1>4. ASSUME NEW w \in Worker, RejectBatch(w) \/ BatchBuilt(w) \/ Acquire(w)
      PROVE  KnownInv' /\ CatalogConsistent'
  <2>1. /\ \E label \in {"reply", "lock", "check_group", "append_metrics", "read"} :
             pc' = [pc EXCEPT ![w] = label]
        /\ UNCHANGED <<groups, serving, history>>
    BY <1>4 DEF RejectBatch, BatchBuilt, Acquire, FirstStatement, Goto
  <2>2. Known(w)'
    BY <1>0, <2>1 DEF Known
  <2> QED
    BY <1>0, <1>a, <1>b, <2>1, <2>2 DEF Req
<1>5. ASSUME NEW w \in Worker, CheckGroup(w)
      PROVE  KnownInv' /\ CatalogConsistent'
  <2> DEFINE exists == GroupExists(Req(w).log_group)
  <2>1. UNCHANGED <<groups, serving, history>>
    BY <1>5 DEF CheckGroup
  <2>2. Known(w)'
    <3>1. CASE Finish(w, "client_error")
      BY <1>d, <3>1
    <3>2. CASE ~RefusedByGroup(w, exists) /\ Goto(w, AfterCheckGroup(w, exists))
      <4>1. Req(w).op \in GroupOps
        BY <1>0, <1>5 DEF LabelInv, CheckGroup
      <4>2. /\ pc'[w] = "insert_group" => ~exists
            /\ pc'[w] = "check_stream" => exists
            /\ pc'[w] \notin {"insert_stream", "append_rows"}
        BY <1>0, <3>2, <4>1 DEF Goto, AfterCheckGroup, RefusedByGroup, GroupOps
      <4> QED
        BY <2>1, <4>2 DEF Known, GroupExists, Req
    <3> QED
      BY <1>5, <3>1, <3>2 DEF CheckGroup
  <2>3. \A v \in Worker : v # w => pc'[v] = pc[v]
    BY <1>0, <1>5 DEF CheckGroup, Finish, Goto
  <2> QED
    BY <1>a, <1>b, <2>1, <2>2, <2>3 DEF Req
<1>6. ASSUME NEW w \in Worker, InsertGroup(w)
      PROVE  KnownInv' /\ CatalogConsistent'
  <2>1. ~GroupExists(Req(w).log_group) /\ InCritical(w)
    <3>1. pc[w] = "insert_group"
      BY <1>6 DEF InsertGroup
    <3>2. InCritical(w)
      BY <3>1 DEF InCritical, Statements
    <3> QED
      BY <1>0, <3>1, <3>2 DEF KnownInv
  <2> DEFINE row == [log_group |-> Req(w).log_group, log_stream |-> NoStream,
                     retention_in_days |-> NoDays, by |-> serving[w]]
  <2>a. /\ groups' = groups \cup {row}
        /\ row.log_group = Req(w).log_group
        /\ row.log_stream = NoStream
        /\ Req(w)' = Req(w)
    BY <1>6 DEF InsertGroup, Req
  <2> HIDE DEF row
  <2>2. CatalogConsistent'
    <3>1. ~\E r \in groups : /\ r.log_group = row.log_group
                             /\ r.log_stream = row.log_stream
      BY <2>1, <2>a DEF GroupExists
    <3> QED
      BY <1>0, <2>a, <3>1, InsertConsistent
  <2>3. Req(w)' = Req(w) /\ GroupExists(Req(w).log_group)'
    BY <2>a DEF GroupExists
  <2>4. Known(w)'
    BY <1>0, <1>6, <1>d, <2>3 DEF InsertGroup, Goto, Known
  <2> QED
    BY <1>0, <1>6, <1>c, <2>1, <2>2, <2>4 DEF InsertGroup, Finish, Goto
<1>7. ASSUME NEW w \in Worker, CheckStream(w)
      PROVE  KnownInv' /\ CatalogConsistent'
  <2> DEFINE exists == StreamExists(Req(w).log_group, Req(w).log_stream)
  <2>1. UNCHANGED <<groups, serving, history>>
    BY <1>7 DEF CheckStream
  <2>2. Known(w)'
    <3>1. CASE Finish(w, "client_error")
      BY <1>d, <3>1
    <3>2. CASE Goto(w, IF exists THEN "append_rows" ELSE "insert_stream")
      <4>1. GroupExists(Req(w).log_group)
        BY <1>0, <1>7 DEF KnownInv, CheckStream
      <4>2. IF exists THEN pc'[w] = "append_rows" ELSE pc'[w] = "insert_stream"
        BY <1>0, <3>2 DEF Goto
      <4> QED
        BY <2>1, <4>1, <4>2 DEF Known, GroupExists, StreamExists, Req
    <3> QED
      BY <1>7, <3>1, <3>2 DEF CheckStream
  <2>3. \A v \in Worker : v # w => pc'[v] = pc[v]
    BY <1>0, <1>7 DEF CheckStream, Finish, Goto
  <2> QED
    BY <1>a, <1>b, <2>1, <2>2, <2>3 DEF Req
<1>8. ASSUME NEW w \in Worker, InsertStream(w)
      PROVE  KnownInv' /\ CatalogConsistent'
  <2>1. /\ ~StreamExists(Req(w).log_group, Req(w).log_stream)
        /\ GroupExists(Req(w).log_group)
        /\ InCritical(w)
    <3>1. pc[w] = "insert_stream"
      BY <1>8 DEF InsertStream
    <3>2. InCritical(w)
      BY <3>1 DEF InCritical, Statements
    <3> QED
      BY <1>0, <3>1, <3>2 DEF KnownInv
  <2> DEFINE row == [log_group |-> Req(w).log_group,
                     log_stream |-> Req(w).log_stream,
                     retention_in_days |-> NoDays, by |-> serving[w]]
  <2>a. /\ groups' = groups \cup {row}
        /\ row.log_group = Req(w).log_group
        /\ row.log_stream = Req(w).log_stream
        /\ Req(w)' = Req(w)
    BY <1>8 DEF InsertStream, Req
  <2> HIDE DEF row
  <2>2. CatalogConsistent'
    <3>1. ~\E r \in groups : /\ r.log_group = row.log_group
                             /\ r.log_stream = row.log_stream
      BY <2>1, <2>a DEF StreamExists
    <3> QED
      BY <1>0, <2>1, <2>a, <3>1, InsertConsistent
  <2>3. /\ Req(w)' = Req(w)
        /\ GroupExists(Req(w).log_group)'
        /\ StreamExists(Req(w).log_group, Req(w).log_stream)'
    BY <2>1, <2>a DEF GroupExists, StreamExists
  <2>4. Known(w)'
    BY <1>0, <1>8, <1>d, <2>3 DEF InsertStream, Goto, Known
  <2> QED
    BY <1>0, <1>8, <1>c, <2>1, <2>2, <2>4 DEF InsertStream, Finish, Goto
<1>9. ASSUME NEW w \in Worker, DeleteGroups(w)
      PROVE  KnownInv' /\ CatalogConsistent'
  <2>1. InCritical(w) /\ Known(w)'
    BY <1>0, <1>9 DEF DeleteGroups, Goto, InCritical, Statements, Known
  <2>2. CatalogConsistent'
    BY <1>0, <1>9 DEF DeleteGroups, CatalogConsistent, GroupExists
  <2> QED
    BY <1>0, <1>9, <1>c, <2>1, <2>2 DEF DeleteGroups, Goto
<1>10. ASSUME NEW w \in Worker, UpdateRetention(w)
       PROVE  KnownInv' /\ CatalogConsistent'
  <2>1. InCritical(w) /\ Known(w)'
    BY <1>0, <1>10, <1>d DEF UpdateRetention, InCritical, Statements
  <2> DEFINE kept(r) ==
        IF r.log_group = Req(w).log_group /\ r.log_stream = NoStream
        THEN [r EXCEPT !.retention_in_days = Req(w).days] ELSE r
  <2>2. groups' = {kept(r) : r \in groups}
    BY <1>10 DEF UpdateRetention
  <2>3. \A r \in groups : /\ kept(r).log_group = r.log_group
                          /\ kept(r).log_stream = r.log_stream
    BY <1>0 DEF TypeOK, GroupRow
  <2> HIDE DEF kept
  <2>4. CatalogConsistent'
    BY <1>0, <2>2, <2>3 DEF CatalogConsistent, GroupExists
  <2> QED
    BY <1>0, <1>10, <1>c, <2>1, <2>4 DEF UpdateRetention, Finish, Goto
<1>11. ASSUME NEW w \in Worker,
              \/ AppendRows(w) \/ DeleteEvents(w) \/ AppendMetrics(w)
              \/ Read(w) \/ StatementFails(w)
       PROVE  KnownInv' /\ CatalogConsistent'
  <2>1. /\ \E a \in Answers : Finish(w, a)
        /\ UNCHANGED <<groups, serving, history>>
    BY <1>11 DEF AppendRows, DeleteEvents, AppendMetrics, Read, StatementFails,
                 Answers
  <2> QED
    BY <1>0, <1>a, <1>b, <1>d, <2>1 DEF Finish, Goto, Req
<1>12. ASSUME NEW s \in Server, Restart(s)
       PROVE  KnownInv' /\ CatalogConsistent'
  <2>1. UNCHANGED <<groups, pc, serving, history>>
    BY <1>12 DEF Restart
  <2> QED
    BY <1>0, <1>a, <2>1 DEF KnownInv, GroupExists, StreamExists, Req
<1>13. ASSUME Crash PROVE KnownInv' /\ CatalogConsistent'
  BY <1>a, <1>13 DEF Crash, KnownInv
<1>14. CASE UNCHANGED vars
  BY <1>0, <1>a, <1>14 DEF vars, KnownInv, GroupExists, StreamExists, Req
<1> QED
  BY <1>1, <1>2, <1>3, <1>4, <1>5, <1>6, <1>7, <1>8, <1>9, <1>10, <1>11, <1>12,
     <1>13, <1>14 DEF Next, Serve, Execute, Quiet

\* At first nothing is listed and no worker has checked anything.
LEMMA InitCatalogInv == Init => CatalogInv
  BY ServerAssumption, InitTypeOK DEF Init, CatalogInv, MutexInv, LabelInv, KnownInv,
                    CatalogConsistent, InCritical, Statements

\* Every step of the one listener keeps the invariant.
LEMMA NextCatalogInv == OneListener /\ CatalogInv /\ [Next]_vars => CatalogInv'
  BY NextTypeOK, NextMutexInv, NextLabelInv, NextCatalog DEF CatalogInv

\* With one listener on the tables, the group table lists every group and
\* stream at most once, and a stream only with its group, whatever the number
\* of threads and however their checks and inserts, failures and restarts meet.
THEOREM CatalogCorrect ==
  ASSUME OneListener PROVE Spec => []CatalogConsistent
<1>1. CatalogInv /\ [Next]_vars => CatalogInv'
  BY NextCatalogInv
<1>2. CatalogInv => CatalogConsistent
  BY DEF CatalogInv
<1> QED
  BY InitCatalogInv, <1>1, <1>2, PTL DEF Spec

----------------------------------------------------------------------------
(* The rows of the events table: event ids and the atomicity of a batch.   *)
(* Unlike the group table they do not rest on there being one listener.    *)

\* The request was served by the present object of its listener.
Current(n) == history[n].lifetime = lifetime[history[n].server]

Putting(w) == pc[w] # "idle" /\ Req(w).op = "PutLogEvents"

\* A busy worker serves a pending request of its own and of its listener's
\* present object.
ServingInv ==
  /\ \A n \in 1..Len(history) :
       history[n].lifetime <= lifetime[history[n].server]
  /\ \A w \in Worker : pc[w] # "idle" =>
       /\ history[serving[w]].server = ServerOf[w]
       /\ Current(serving[w])
       /\ history[serving[w]].status = "pending"
  /\ \A v, w \in Worker :
       pc[v] # "idle" /\ pc[w] # "idle" /\ serving[v] = serving[w] => v = w

\* A batch is complete before the lock is asked for.
LengthInv ==
  \A w \in Worker :
    pc[w] \in {"lock"} \cup Statements /\ Req(w).op \in PutOps
      => Len(built[w]) = Len(Req(w).batch)

\* Ids given out are bounded by the counter and were given out once.
IdInv ==
  /\ \A w \in Worker : Putting(w) =>
       \A i \in 1..Len(built[w]) : built[w][i] <= event_counter[ServerOf[w]]
  /\ \A v, w \in Worker :
       Putting(v) /\ Putting(w) /\ ServerOf[v] = ServerOf[w] =>
         \A i \in 1..Len(built[v]), j \in 1..Len(built[w]) :
           built[v][i] = built[w][j] => v = w /\ i = j

\* A stored row comes from a PutLogEvents on its group.
SourceInv ==
  \A e \in events :
    /\ e.put \in 1..Len(history)
    /\ history[e.put].req.op = "PutLogEvents"
    /\ history[e.put].req.log_group = e.log_group

\* The id of a stored row is not given out again by the object that gave it
\* out, and a handler has stored nothing before it is done.
StoredInv ==
  \A e \in events :
    /\ Current(e.put) => e.event_id <= event_counter[history[e.put].server]
    /\ \A w \in Worker :
         pc[w] # "idle" /\ e.put = serving[w]
           => pc[w] = "reply" /\ outcome[w] = "ok"
    /\ \A w \in Worker :
         /\ Putting(w) /\ e.put # serving[w] /\ Current(e.put)
         /\ history[e.put].server = ServerOf[w]
         => \A i \in 1..Len(built[w]) : built[w][i] # e.event_id

EventInv ==
  /\ TypeOK /\ LabelInv /\ ServingInv /\ LengthInv /\ IdInv /\ SourceInv
  /\ StoredInv /\ UniqueEventIds /\ AllOrNothing

----------------------------------------------------------------------------
(* Lemmas on single steps.                                                 *)

\* Requests are never taken back, and keep who served them.
LEMMA HistoryKept ==
  ASSUME TypeOK, [Next]_vars
  PROVE  /\ Len(history) <= Len(history')
         /\ \A n \in 1..Len(history) :
              /\ history'[n].req = history[n].req
              /\ history'[n].server = history[n].server
              /\ history'[n].lifetime = history[n].lifetime
<1> USE DEF tables, object
<1>0. history \in Seq(Entry) /\ Len(history) \in Nat
  BY DEF TypeOK
<1>1. ASSUME NEW w \in Worker, NEW req \in Request, Accept(w, req)
      PROVE  /\ Len(history') = Len(history) + 1
             /\ \A n \in 1..Len(history) : history'[n] = history[n]
  BY <1>0, <1>1 DEF Accept
<1>2. ASSUME NEW n \in 1..Len(history), NEW status \in Status
      PROVE  /\ Ended(history[n], status).req = history[n].req
             /\ Ended(history[n], status).server = history[n].server
             /\ Ended(history[n], status).lifetime = history[n].lifetime
  <2>1. history[n] \in Entry
    BY <1>0
  <2> QED
    BY <2>1 DEF Ended, Entry
<1>3. ASSUME NEW w \in Worker, Reply(w)
      PROVE  /\ Len(history') = Len(history)
             /\ \A n \in 1..Len(history) :
                  /\ history'[n].req = history[n].req
                  /\ history'[n].server = history[n].server
                  /\ history'[n].lifetime = history[n].lifetime
  <2>1. serving[w] \in 1..Len(history) /\ outcome[w] \in Status
    BY <1>3, ServingType DEF Reply, TypeOK, Status
  <2>2. history' = [history EXCEPT ![serving[w]] =
                      Ended(history[serving[w]], outcome[w])]
    BY <1>3 DEF Reply
  <2>3. Len(history') = Len(history)
    BY <1>0, <2>2
  <2>4. ASSUME NEW n \in 1..Len(history)
        PROVE  history'[n] \in {history[n], Ended(history[n], outcome[w])}
    BY <1>0, <2>1, <2>2
  <2> QED
    BY <1>2, <2>1, <2>3, <2>4
<1>4. ASSUME Crash
      PROVE  /\ Len(history') = Len(history)
             /\ \A n \in 1..Len(history) :
                  /\ history'[n].req = history[n].req
                  /\ history'[n].server = history[n].server
                  /\ history'[n].lifetime = history[n].lifetime
  <2>1. history' = [n \in 1..Len(history) |->
                      IF history[n].status = "pending"
                      THEN Ended(history[n], "lost") ELSE history[n]]
    BY <1>0, <1>4 DEF Crash
  <2>2. Len(history') = Len(history)
    BY <1>0, <2>1
  <2>3. ASSUME NEW n \in 1..Len(history)
        PROVE  history'[n] \in {history[n], Ended(history[n], "lost")}
    BY <2>1
  <2>4. "lost" \in Status
    BY DEF Status
  <2> QED
    BY <1>2, <2>2, <2>3, <2>4
<1>5. CASE UNCHANGED history
  BY <1>0, <1>5
<1>6. ASSUME NEW w \in Worker, Serve(w), ~Reply(w) PROVE UNCHANGED history
  BY <1>6 DEF Serve, Execute, BuildRow, RejectBatch, BatchBuilt, Acquire,
     CheckGroup, InsertGroup, CheckStream, InsertStream, AppendRows,
     DeleteGroups, DeleteEvents, UpdateRetention, AppendMetrics, Read,
     StatementFails
<1>7. ASSUME NEW s \in Server, Restart(s) PROVE UNCHANGED history
  BY <1>7 DEF Restart
<1> QED
  BY <1>0, <1>1, <1>3, <1>4, <1>5, <1>6, <1>7 DEF Next, Quiet, vars

\* A batch that has been built stays as it is.
LEMMA NextLengthInv ==
  ASSUME TypeOK, LengthInv, [Next]_vars PROVE LengthInv'
<1> USE DEF LengthInv, Goto
<1>0. pc \in [Worker -> Pc] /\ built \in [Worker -> Seq(Nat)]
  BY DEF TypeOK
<1>1. ASSUME NEW w \in Worker,
             \A v \in Worker : v # w => pc'[v] = pc[v] /\ built'[v] = built[v],
             \A v \in Worker : v # w /\ pc[v] # "idle" => Req(v)' = Req(v),
             pc'[w] \in {"lock"} \cup Statements /\ Req(w)'.op \in PutOps
               => Len(built'[w]) = Len(Req(w)'.batch)
      PROVE  LengthInv'
  BY <1>1 DEF Statements
<1>2. ASSUME NEW w \in Worker, NEW req \in Request, Accept(w, req)
      PROVE  LengthInv'
  <2>1. \A v \in Worker : v # w /\ pc[v] # "idle" => Req(v)' = Req(v)
    BY <1>2, ReqKept
  <2>2. Req(w)' = req
    BY <1>2 DEF Accept, Req, TypeOK
  <2>3. ~(pc'[w] \in {"lock"} \cup Statements /\ Req(w)'.op \in PutOps)
    BY <1>0, <1>2, <2>2 DEF Accept, Statements
  <2>4. \A v \in Worker : v # w => pc'[v] = pc[v] /\ built'[v] = built[v]
    BY <1>0, <1>2 DEF Accept
  <2> QED
    BY <1>1, <2>1, <2>3, <2>4
<1>3. ASSUME NEW w \in Worker, Reply(w) PROVE LengthInv'
  <2>1. \A v \in Worker : v # w /\ pc[v] # "idle" => Req(v)' = Req(v)
    BY <1>3, ReqKept
  <2>2. /\ \A v \in Worker : v # w => pc'[v] = pc[v] /\ built'[v] = built[v]
        /\ pc'[w] = "idle"
    BY <1>0, <1>3 DEF Reply
  <2> QED
    BY <1>1, <2>1, <2>2 DEF Statements
<1>4. ASSUME NEW w \in Worker, BuildRow(w) PROVE LengthInv'
  <2>1. /\ UNCHANGED <<pc, serving, history>>
        /\ pc[w] = "build"
        /\ \E id : built' = [built EXCEPT ![w] = Append(@, id)]
    BY <1>4 DEF BuildRow
  <2>2. \A v \in Worker : v # w => built'[v] = built[v]
    BY <1>0, <2>1
  <2> QED
    BY <1>1, <2>1, <2>2 DEF Req, Statements
<1>5. ASSUME NEW w \in Worker, Serve(w), ~Reply(w), ~BuildRow(w)
      PROVE  LengthInv'
  <2>1. UNCHANGED <<built, serving, history>>
    BY <1>5 DEF Serve, Execute, RejectBatch, BatchBuilt, Acquire,
       CheckGroup, InsertGroup, CheckStream, InsertStream, AppendRows,
       DeleteGroups, DeleteEvents, UpdateRetention, AppendMetrics, Read,
       StatementFails
  <2>2. /\ \A v \in Worker : v # w => pc'[v] = pc[v]
        /\ \/ pc'[w] = "reply"
           \/ pc[w] \in {"lock"} \cup Statements
           \/ BatchBuilt(w)
    <3> USE <1>0 DEF Finish, Statements
    <3>1. CASE RejectBatch(w) \/ BatchBuilt(w) \/ Acquire(w)
      BY <3>1 DEF RejectBatch, BatchBuilt, Acquire
    <3>2. CASE CheckGroup(w) \/ InsertGroup(w) \/ CheckStream(w) \/ InsertStream(w)
      BY <3>2 DEF CheckGroup, InsertGroup, CheckStream, InsertStream
    <3>3. CASE AppendRows(w) \/ DeleteGroups(w) \/ DeleteEvents(w) \/ Read(w)
      BY <3>3 DEF AppendRows, DeleteGroups, DeleteEvents, Read
    <3>4. CASE UpdateRetention(w) \/ AppendMetrics(w) \/ StatementFails(w)
      BY <3>4 DEF UpdateRetention, AppendMetrics, StatementFails
    <3> QED
      BY <1>5, <3>1, <3>2, <3>3, <3>4 DEF Serve, Execute
  <2>3. pc'[w] \in {"lock"} \cup Statements /\ Req(w)'.op \in PutOps
          => Len(built'[w]) = Len(Req(w)'.batch)
    BY <2>1, <2>2 DEF Req, BatchBuilt, Statements
  <2> QED
    BY <1>1, <2>1, <2>2, <2>3 DEF Req
<1>6. ASSUME NEW s \in Server, Restart(s) PROVE LengthInv'
  BY <1>6 DEF Restart, Req
<1>7. ASSUME Crash PROVE LengthInv'
  BY <1>7 DEF Crash, Statements
<1>8. CASE UNCHANGED vars
  BY <1>8 DEF vars, Req
<1> QED
  BY <1>2, <1>3, <1>4, <1>5, <1>6, <1>7, <1>8 DEF Next, Quiet

\* A stored row is well typed, and so is the request it comes from.
LEMMA StoredType ==
  ASSUME TypeOK, SourceInv, NEW e \in events
  PROVE  /\ e.put \in 1..Len(history)
         /\ e.event_id \in Nat
         /\ history[e.put].server \in Server
         /\ history[e.put].lifetime \in Nat
<1>1. e \in EventRow
  BY DEF TypeOK
<1>2. e.put \in 1..Len(history)
  BY DEF SourceInv
<1>3. history[e.put] \in Entry
  BY <1>2 DEF TypeOK
<1> QED
  BY <1>1, <1>2, <1>3 DEF EventRow, Entry

\* What each step shows: EventInv but for the parts proved above.
StepInv ==
  /\ ServingInv /\ IdInv /\ SourceInv /\ StoredInv
  /\ UniqueEventIds /\ AllOrNothing

\* A step that only moves one busy worker that is not about to reply.
LEMMA MoveStep ==
  ASSUME EventInv, NEW w \in Worker,
         UNCHANGED <<events, event_counter, lifetime, built, serving, history>>,
         pc[w] \notin {"idle", "reply"}, pc'[w] # "idle",
         \A v \in Worker :
           v # w => pc'[v] = pc[v] /\ outcome'[v] = outcome[v]
  PROVE  StepInv'
<1> USE DEF EventInv
<1>1. \A v \in Worker : /\ pc'[v] = "idle" <=> pc[v] = "idle"
                        /\ Req(v)' = Req(v)
                        /\ Putting(v)' <=> Putting(v)
  BY DEF Req, Putting
<1>2. \A n : Current(n)' <=> Current(n)
  BY DEF Current
<1>3. ServingInv'
  BY <1>1, <1>2 DEF ServingInv
<1>4. IdInv'
  BY <1>1 DEF IdInv
<1>5. SourceInv'
  BY DEF SourceInv
<1>6. StoredInv'
  BY <1>1, <1>2 DEF StoredInv
<1>7. UniqueEventIds' /\ AllOrNothing'
  BY DEF UniqueEventIds, AllOrNothing, StoredOf
<1> QED
  BY <1>3, <1>4, <1>5, <1>6, <1>7 DEF StepInv

\* A request that begins has stored nothing and taken no id.
LEMMA AcceptStep ==
  ASSUME EventInv, NEW w \in Worker, NEW req \in Request, Accept(w, req)
  PROVE  StepInv'
<1> USE DEF EventInv
<1> DEFINE new == Len(history) + 1
<1>0. Len(history) \in Nat /\ pc[w] = "idle" /\ built[w] = << >>
  BY DEF Accept, TypeOK
<1>1. /\ UNCHANGED <<events, event_counter, lifetime, built, outcome>>
      /\ serving' = [serving EXCEPT ![w] = new]
  BY DEF Accept, object, tables
<1>2. /\ Len(history') = new
      /\ \A n \in 1..Len(history) : history'[n] = history[n]
      /\ history'[new].req = req
      /\ history'[new].server = ServerOf[w]
      /\ history'[new].lifetime = lifetime[ServerOf[w]]
      /\ history'[new].status = "pending"
  <2>1. history \in Seq(Entry)
    BY DEF TypeOK
  <2> QED
    BY <1>0, <2>1 DEF Accept
<1>3. /\ serving'[w] = new
      /\ pc'[w] # "idle"
      /\ \A v \in Worker : v # w => pc'[v] = pc[v] /\ serving'[v] = serving[v]
  BY <1>1 DEF TypeOK, Accept, Goto
<1>4. \A v \in Worker : pc[v] # "idle" =>
        /\ v # w
        /\ serving[v] \in 1..Len(history)
        /\ serving[v] # new
        /\ Req(v)' = Req(v)
  BY <1>0, <1>3, <1>2, ServingType DEF Req
<1>5. \A n \in 1..Len(history) : Current(n)' <=> Current(n)
  BY <1>1, <1>2 DEF Current
<1> HIDE DEF new
<1>6. ServingInv'
  <2>1. \A n \in 1..Len(history)' :
          history'[n].lifetime <= lifetime'[history'[n].server]
    <3>1. \A n \in 1..Len(history)' : n \in 1..Len(history) \/ n = new
      BY <1>0, <1>2 DEF new
    <3>2. lifetime[ServerOf[w]] \in Nat
      BY ServerAssumption DEF TypeOK
    <3> QED
      BY <1>1, <1>2, <3>1, <3>2 DEF ServingInv
  <2>2. \A v \in Worker : pc'[v] # "idle" =>
          /\ history'[serving'[v]].server = ServerOf[v]
          /\ Current(serving[v])'
          /\ history'[serving'[v]].status = "pending"
    <3> SUFFICES ASSUME NEW v \in Worker, pc'[v] # "idle"
                 PROVE  /\ history'[serving'[v]].server = ServerOf[v]
                        /\ Current(serving[v])'
                        /\ history'[serving'[v]].status = "pending"
      OBVIOUS
    <3>1. CASE v = w
      BY <1>1, <1>2, <1>3, <3>1 DEF Current
    <3>2. CASE v # w
      BY <1>1, <1>2, <1>3, <1>4, <3>2 DEF Current, ServingInv
    <3> QED
      BY <3>1, <3>2
  <2>3. \A u, v \in Worker :
          pc'[u] # "idle" /\ pc'[v] # "idle" /\ serving'[u] = serving'[v] => u = v
    BY <1>3, <1>4 DEF ServingInv
  <2> QED
    BY <2>1, <2>2, <2>3 DEF ServingInv
<1>7. \A v \in Worker : Putting(v)' => v = w \/ (Putting(v) /\ v # w)
  BY <1>3, <1>4 DEF Putting
<1>8. IdInv'
  <2>1. 1..Len(built[w]) = {}
    BY <1>0
  <2> QED
    BY <1>1, <1>7, <2>1 DEF IdInv
<1>9. SourceInv'
  BY <1>0, <1>1, <1>2 DEF SourceInv, new
<1>10. \A e \in events : e.put \in 1..Len(history) /\ e.put # new
  BY <1>0 DEF SourceInv, new
<1>11. StoredInv'
  <2>1. 1..Len(built[w]) = {}
    BY <1>0
  <2> SUFFICES ASSUME NEW e \in events
        PROVE  /\ Current(e.put)'
                    => e.event_id <= event_counter'[history'[e.put].server]
               /\ \A v \in Worker :
                    pc'[v] # "idle" /\ e.put = serving'[v]
                      => pc'[v] = "reply" /\ outcome'[v] = "ok"
               /\ \A v \in Worker :
                    /\ Putting(v)' /\ e.put # serving'[v] /\ Current(e.put)'
                    /\ history'[e.put].server = ServerOf[v]
                    => \A i \in 1..Len(built'[v]) : built'[v][i] # e.event_id
    BY <1>1 DEF StoredInv
  <2>2. /\ Current(e.put)' <=> Current(e.put)
        /\ history'[e.put] = history[e.put]
    BY <1>2, <1>5, <1>10
  <2> QED
    BY <1>1, <1>3, <1>7, <1>10, <2>1, <2>2 DEF StoredInv
<1>12. UniqueEventIds'
  BY <1>1, <1>2, <1>10 DEF UniqueEventIds
<1>13. AllOrNothing'
  <2>1. \A n : StoredOf(n)' = StoredOf(n)
    BY <1>1 DEF StoredOf
  <2>2. StoredOf(new) = {}
    BY <1>10 DEF StoredOf
  <2>3. DOMAIN history' = (DOMAIN history) \cup {new}
    <3>1. history \in Seq(Entry) /\ history' = Append(history, history'[new])
      BY <1>0 DEF TypeOK, Accept, new
    <3> QED
      BY <1>0, <3>1 DEF new
  <2>4. DOMAIN history = 1..Len(history)
    BY DEF TypeOK
  <2> QED
    BY <1>2, <2>1, <2>2, <2>3, <2>4 DEF AllOrNothing
<1> QED
  BY <1>6, <1>8, <1>9, <1>11, <1>12, <1>13 DEF StepInv

\* An id given out is above every id of the listener's present object.
LEMMA BuildStep ==
  ASSUME EventInv, NEW w \in Worker, BuildRow(w)
  PROVE  StepInv'
<1> USE DEF EventInv
<1>0. /\ UNCHANGED <<events, lifetime, pc, serving, outcome, history>>
      /\ pc[w] = "build"
  BY DEF BuildRow, tables
<1>1. /\ \A v \in Worker : Req(v)' = Req(v) /\ (Putting(v)' <=> Putting(v))
      /\ \A n : Current(n)' <=> Current(n)
  BY <1>0 DEF Req, Putting, Current
<1>2. ServingInv' /\ SourceInv' /\ UniqueEventIds' /\ AllOrNothing'
  BY <1>0, <1>1 DEF ServingInv, SourceInv, UniqueEventIds, AllOrNothing, StoredOf
<1>3. CASE Req(w).op # "PutLogEvents"
  <2>1. UNCHANGED event_counter /\ ~Putting(w)
    BY <1>3 DEF BuildRow, Putting
  <2>2. \A v \in Worker : v # w => built'[v] = built[v]
    BY <1>3 DEF BuildRow, TypeOK
  <2>3. IdInv'
    BY <1>1, <2>1, <2>2 DEF IdInv
  <2>4. StoredInv'
    BY <1>0, <1>1, <2>1, <2>2 DEF StoredInv
  <2> QED
    BY <1>2, <2>3, <2>4 DEF StepInv
<1>4. CASE Req(w).op = "PutLogEvents"
  <2> DEFINE id == event_counter[ServerOf[w]] + 1
             n  == Len(built[w])
  <2>1. /\ event_counter' = [event_counter EXCEPT ![ServerOf[w]] = id]
        /\ built' = [built EXCEPT ![w] = Append(built[w], id)]
    BY <1>4 DEF BuildRow, NextEventId
  <2>2. /\ ServerOf[w] \in Server
        /\ event_counter[ServerOf[w]] \in Nat
        /\ id \in Nat
        /\ built[w] \in Seq(Nat)
        /\ n \in Nat
    BY ServerAssumption DEF TypeOK
  <2>3. /\ Len(built'[w]) = n + 1
        /\ built'[w][n + 1] = id
        /\ \A i \in 1..n : built'[w][i] = built[w][i]
        /\ \A v \in Worker : v # w => built'[v] = built[v]
    BY <2>1, <2>2 DEF TypeOK
  <2>4. /\ \A s \in Server : event_counter'[s] >= event_counter[s]
        /\ event_counter'[ServerOf[w]] = id
        /\ \A s \in Server : event_counter'[s] \in Nat
    BY <2>1, <2>2 DEF TypeOK
  <2>5. Putting(w)
    BY <1>0, <1>4 DEF Putting
  <2>6. \A v \in Worker, i \in Nat :
          Putting(v) /\ ServerOf[v] = ServerOf[w] /\ i \in 1..Len(built[v])
            => built[v][i] < id /\ built[v][i] \in Nat
    <3> SUFFICES ASSUME NEW v \in Worker, NEW i \in 1..Len(built[v]),
                        Putting(v), ServerOf[v] = ServerOf[w]
                 PROVE  built[v][i] < id /\ built[v][i] \in Nat
      OBVIOUS
    <3>1. built[v][i] \in Nat
      BY DEF TypeOK
    <3>2. built[v][i] <= event_counter[ServerOf[w]]
      BY DEF IdInv
    <3> QED
      BY <2>2, <3>1, <3>2
  <2>7. 1..(n + 1) = (1..n) \cup {n + 1}
    BY <2>2
  <2> HIDE DEF id, n
  <2>8. ASSUME NEW v \in Worker, Putting(v), NEW i \in 1..Len(built'[v])
        PROVE  \/ /\ i \in 1..Len(built[v])
                  /\ built'[v][i] = built[v][i]
                  /\ v = w => i # n + 1
               \/ v = w /\ i = n + 1 /\ built'[v][i] = id
    <3>1. CASE v # w
      BY <2>3, <3>1
    <3>2. CASE v = w
      BY <2>2, <2>3, <2>7, <3>2 DEF n
    <3> QED
      BY <3>1, <3>2
  <2>9. IdInv'
    <3>1. ASSUME NEW v \in Worker, Putting(v), NEW i \in 1..Len(built'[v])
          PROVE  built'[v][i] <= event_counter'[ServerOf[v]]
      <4>1. ServerOf[v] \in Server
        BY ServerAssumption
      <4>2. CASE v = w /\ i = n + 1 /\ built'[v][i] = id
        BY <2>2, <2>4, <4>2
      <4>3. CASE i \in 1..Len(built[v]) /\ built'[v][i] = built[v][i]
        <5>1. built[v][i] <= event_counter[ServerOf[v]]
          BY <3>1, <4>3 DEF IdInv
        <5>2. event_counter[ServerOf[v]] \in Nat
          BY <4>1 DEF TypeOK
        <5>3. built[v] \in Seq(Nat)
          BY DEF TypeOK
        <5>4. built[v][i] \in Nat
          BY <4>3, <5>3
        <5> QED
          BY <2>4, <4>1, <4>3, <5>1, <5>2, <5>4
      <4> QED
        BY <2>8, <3>1, <4>2, <4>3
    <3>2. ASSUME NEW u \in Worker, NEW v \in Worker, Putting(u), Putting(v),
                 ServerOf[u] = ServerOf[v],
                 NEW i \in 1..Len(built'[u]), NEW j \in 1..Len(built'[v]),
                 built'[u][i] = built'[v][j]
          PROVE  u = v /\ i = j
      <4>a. /\ \/ i \in 1..Len(built[u]) /\ built'[u][i] = built[u][i]
               \/ u = w /\ i = n + 1 /\ built'[u][i] = id
            /\ \/ j \in 1..Len(built[v]) /\ built'[v][j] = built[v][j]
               \/ v = w /\ j = n + 1 /\ built'[v][j] = id
        BY <2>8, <3>2
      <4>b. ASSUME NEW x \in Worker, Putting(x), ServerOf[x] = ServerOf[w],
                   NEW k \in 1..Len(built[x])
            PROVE  built[x][k] # id
        <5>1. k \in Nat
          BY <4>b DEF TypeOK
        <5>2. built[x][k] < id /\ built[x][k] \in Nat
          BY <2>6, <4>b, <5>1
        <5> QED
          BY <2>2, <5>2
      <4>1. CASE u = w /\ i = n + 1 /\ built'[u][i] = id
        BY <3>2, <4>1, <4>a, <4>b
      <4>2. CASE v = w /\ j = n + 1 /\ built'[v][j] = id
        BY <3>2, <4>2, <4>a, <4>b
      <4>3. CASE /\ i \in 1..Len(built[u]) /\ built'[u][i] = built[u][i]
                 /\ j \in 1..Len(built[v]) /\ built'[v][j] = built[v][j]
        <5>1. built[u][i] = built[v][j]
          BY <3>2, <4>3
        <5> QED
          BY <3>2, <4>3, <5>1 DEF IdInv
      <4> QED
        BY <4>1, <4>2, <4>3, <4>a
    <3> QED
      BY <1>1, <3>1, <3>2 DEF IdInv
  <2>10. StoredInv'
    <3> SUFFICES ASSUME NEW e \in events
          PROVE  /\ Current(e.put)
                      => e.event_id <= event_counter'[history[e.put].server]
                 /\ \A v \in Worker :
                      pc[v] # "idle" /\ e.put = serving[v]
                        => pc[v] = "reply" /\ outcome[v] = "ok"
                 /\ \A v \in Worker :
                      /\ Putting(v) /\ e.put # serving[v] /\ Current(e.put)
                      /\ history[e.put].server = ServerOf[v]
                      => \A i \in 1..Len(built'[v]) : built'[v][i] # e.event_id
      BY <1>0, <1>1 DEF StoredInv
    <3>1. /\ history[e.put].server \in Server
          /\ e.event_id \in Nat
      BY StoredType
    <3>2. Current(e.put) => e.event_id <= event_counter[history[e.put].server]
      BY DEF StoredInv
    <3>3. /\ event_counter[history[e.put].server] \in Nat
          /\ event_counter'[history[e.put].server]
               >= event_counter[history[e.put].server]
          /\ event_counter'[history[e.put].server] \in Nat
      BY <2>4, <3>1 DEF TypeOK
    <3>4. Current(e.put) => e.event_id <= event_counter'[history[e.put].server]
      BY <3>1, <3>2, <3>3
    <3>5. ASSUME NEW v \in Worker,
                 Putting(v), e.put # serving[v], Current(e.put),
                 history[e.put].server = ServerOf[v],
                 NEW i \in 1..Len(built'[v])
          PROVE  built'[v][i] # e.event_id
      <4>1. CASE i \in 1..Len(built[v]) /\ built'[v][i] = built[v][i]
        BY <3>5, <4>1 DEF StoredInv
      <4>2. CASE v = w /\ built'[v][i] = id
        BY <2>2, <3>1, <3>2, <3>5, <4>2 DEF id
      <4> QED
        BY <2>8, <3>5, <4>1, <4>2
    <3> QED
      BY <3>4, <3>5 DEF StoredInv
  <2> QED
    BY <1>2, <2>9, <2>10 DEF StepInv
<1> QED
  BY <1>3, <1>4

\* Append stores the whole batch of a request that has stored nothing.
LEMMA AppendStep ==
  ASSUME EventInv, NEW w \in Worker, AppendRows(w)
  PROVE  StepInv'
<1> USE DEF EventInv
<1> DEFINE n == serving[w]
           m == Len(built[w])
<1>0. /\ UNCHANGED <<event_counter, lifetime, built, serving, history>>
      /\ pc[w] = "append_rows"
      /\ events' = events \cup EventRows(w, m)
      /\ pc'[w] = "reply" /\ outcome'[w] = "ok"
      /\ \A v \in Worker :
           v # w => pc'[v] = pc[v] /\ outcome'[v] = outcome[v]
  BY DEF AppendRows, Finish, Goto, TypeOK, object
<1>1. /\ \A v \in Worker : /\ pc'[v] = "idle" <=> pc[v] = "idle"
                           /\ Req(v)' = Req(v)
                           /\ Putting(v)' <=> Putting(v)
      /\ \A k : Current(k)' <=> Current(k)
  BY <1>0 DEF Req, Putting, Current
<1>2. ServingInv' /\ IdInv'
  BY <1>0, <1>1 DEF ServingInv, IdInv
<1>3. /\ n \in 1..Len(history)
      /\ Putting(w)
      /\ history[n].req = Req(w)
      /\ Req(w).op = "PutLogEvents"
      /\ history[n].server = ServerOf[w]
      /\ history[n].status = "pending"
      /\ Current(n)
  BY <1>0, ServingType DEF LabelInv, ServingInv, Putting, Req
<1>4. /\ m \in Nat
      /\ m = Len(Req(w).batch)
  BY <1>0, <1>3 DEF LengthInv, TypeOK, Statements, PutOps
<1>5. \A e \in EventRows(w, m) :
        /\ e.put = n
        /\ e.log_group = Req(w).log_group
        /\ e.index \in 1..m
        /\ e.event_id = built[w][e.index]
  BY DEF EventRows
<1>6. \A e \in events : e.put # n
  BY <1>0 DEF StoredInv
<1>7. \A e, f \in EventRows(w, m) : e.index = f.index => e = f
  BY DEF EventRows
<1>8. {e.index : e \in EventRows(w, m)} = 1..m
  <2>1. ASSUME NEW i \in 1..m PROVE \E e \in EventRows(w, m) : e.index = i
    <3> DEFINE row == [log_group |-> Req(w).log_group,
                       log_stream |-> Req(w).log_stream,
                       timestamp_ms |-> Req(w).batch[i],
                       event_id |-> built[w][i],
                       put |-> serving[w], index |-> i]
    <3>1. row \in EventRows(w, m)
      BY DEF EventRows
    <3>2. row.index = i
      OBVIOUS
    <3> QED
      BY <3>1, <3>2
  <2> QED
    BY <1>5, <2>1
<1> HIDE DEF n, m
<1>9. SourceInv'
  BY <1>0, <1>3, <1>5 DEF SourceInv
<1>10. \A e \in EventRows(w, m) : e.event_id <= event_counter[ServerOf[w]]
  BY <1>3, <1>5 DEF IdInv, m
<1>11. StoredInv'
  <2>1. ASSUME NEW e \in events'
        PROVE  Current(e.put) => e.event_id <= event_counter[history[e.put].server]
    <3>1. CASE e \in events
      BY <3>1 DEF StoredInv
    <3>2. CASE e \in EventRows(w, m)
      BY <1>3, <1>5, <1>10, <3>2
    <3> QED
      BY <1>0, <2>1, <3>1, <3>2
  <2>2. ASSUME NEW e \in events', NEW v \in Worker,
               pc'[v] # "idle", e.put = serving[v]
        PROVE  pc'[v] = "reply" /\ outcome'[v] = "ok"
    <3>1. CASE v = w
      BY <1>0, <3>1
    <3>2. CASE v # w
      <4>1. pc[v] # "idle" /\ serving[v] # n
        BY <1>0, <2>2, <3>2 DEF ServingInv, n
      <4>2. e \in events
        BY <1>0, <1>5, <2>2, <4>1
      <4> QED
        BY <1>0, <2>2, <3>2, <4>1, <4>2 DEF StoredInv
    <3> QED
      BY <3>1, <3>2
  <2>3. ASSUME NEW e \in events', NEW v \in Worker, NEW i \in 1..Len(built[v]),
               Putting(v), e.put # serving[v], Current(e.put),
               history[e.put].server = ServerOf[v]
        PROVE  built[v][i] # e.event_id
    <3>1. CASE e \in events
      BY <2>3, <3>1 DEF StoredInv
    <3>2. CASE e \in EventRows(w, m)
      <4>1. v # w /\ ServerOf[v] = ServerOf[w]
        BY <1>3, <1>5, <2>3, <3>2 DEF n
      <4>2. e.index \in 1..Len(built[w]) /\ e.event_id = built[w][e.index]
        BY <1>5, <3>2 DEF m
      <4> QED
        BY <1>3, <2>3, <4>1, <4>2 DEF IdInv
    <3> QED
      BY <1>0, <2>3, <3>1, <3>2
  <2> QED
    BY <1>0, <1>1, <2>1, <2>2, <2>3 DEF StoredInv
<1>12. UniqueEventIds'
  <2>1. ASSUME NEW e \in EventRows(w, m), NEW f \in events,
               history[f.put].server = ServerOf[w],
               history[f.put].lifetime = history[n].lifetime
        PROVE  e.event_id # f.event_id
    <3>1. Current(f.put) /\ f.put # n
      BY <1>3, <1>6, <2>1 DEF Current
    <3>2. e.index \in 1..Len(built[w]) /\ e.event_id = built[w][e.index]
      BY <1>5 DEF m
    <3> QED
      BY <1>3, <2>1, <3>1, <3>2 DEF StoredInv, n
  <2>2. ASSUME NEW e \in EventRows(w, m), NEW f \in EventRows(w, m),
               e.event_id = f.event_id
        PROVE  e = f
    <3>1. /\ e.index \in 1..Len(built[w]) /\ e.event_id = built[w][e.index]
          /\ f.index \in 1..Len(built[w]) /\ f.event_id = built[w][f.index]
      BY <1>5 DEF m
    <3>2. built[w][e.index] = built[w][f.index]
      BY <2>2, <3>1
    <3>3. e.index = f.index
      BY <1>3, <3>1, <3>2 DEF IdInv
    <3> QED
      BY <1>7, <3>3
  <2> SUFFICES ASSUME NEW e \in events', NEW f \in events',
                      e.event_id = f.event_id,
                      history[e.put].server = history[f.put].server,
                      history[e.put].lifetime = history[f.put].lifetime
               PROVE  e = f
    BY <1>0 DEF UniqueEventIds
  <2>3. CASE e \in events /\ f \in events
    BY <2>3 DEF UniqueEventIds
  <2>4. CASE e \in EventRows(w, m) /\ f \in events
    BY <1>3, <1>5, <2>1, <2>4
  <2>5. CASE e \in events /\ f \in EventRows(w, m)
    BY <1>3, <1>5, <2>1, <2>5
  <2>6. CASE e \in EventRows(w, m) /\ f \in EventRows(w, m)
    BY <2>2, <2>6
  <2> QED
    BY <1>0, <2>3, <2>4, <2>5, <2>6
<1>13. AllOrNothing'
  <2>1. \A k : k = n => StoredOf(k)' = EventRows(w, m)
    BY <1>0, <1>5, <1>6 DEF StoredOf
  <2>2. \A k : k # n => StoredOf(k)' = StoredOf(k)
    BY <1>0, <1>5 DEF StoredOf
  <2>3. 1..m = DOMAIN history[n].req.batch
    <3>1. Req(w).batch \in Seq(Time)
      BY <1>0, ServingType
    <3> QED
      BY <1>3, <1>4, <3>1
  <2> SUFFICES ASSUME NEW k \in DOMAIN history, StoredOf(k)' # {}
               PROVE  /\ {e.index : e \in StoredOf(k)'}
                           = DOMAIN history[k].req.batch
                      /\ history[k].status \notin {"client_error", "server_error"}
    BY <1>0 DEF AllOrNothing
  <2>4. CASE k = n
    BY <1>3, <1>8, <2>1, <2>3, <2>4
  <2>5. CASE k # n
    BY <2>2, <2>5 DEF AllOrNothing
  <2> QED
    BY <2>4, <2>5
<1> QED
  BY <1>2, <1>9, <1>11, <1>12, <1>13 DEF StepInv

\* DeleteLogGroup takes whole batches: a batch belongs to one group.
LEMMA DeleteStep ==
  ASSUME EventInv, NEW w \in Worker, DeleteEvents(w)
  PROVE  StepInv'
<1> USE DEF EventInv
<1>0. /\ UNCHANGED <<event_counter, lifetime, built, serving, history>>
      /\ pc[w] = "delete_events" /\ pc'[w] = "reply"
      /\ events' = {e \in events : e.log_group # Req(w).log_group}
      /\ \A v \in Worker :
           v # w => pc'[v] = pc[v] /\ outcome'[v] = outcome[v]
  BY DEF DeleteEvents, Finish, Goto, TypeOK, object
<1>1. /\ \A v \in Worker : /\ pc'[v] = "idle" <=> pc[v] = "idle"
                           /\ Req(v)' = Req(v)
                           /\ Putting(v)' <=> Putting(v)
      /\ \A k : Current(k)' <=> Current(k)
  BY <1>0 DEF Req, Putting, Current
<1>2. ServingInv' /\ IdInv' /\ SourceInv'
  <2>1. ServingInv'
    BY <1>0, <1>1 DEF ServingInv
  <2>2. IdInv'
    BY <1>0, <1>1 DEF IdInv
  <2>3. SourceInv'
    BY <1>0 DEF SourceInv
  <2> QED
    BY <2>1, <2>2, <2>3
<1>3. \A e \in events : e.put # serving[w]
  BY <1>0 DEF StoredInv
<1>4. StoredInv'
  BY <1>0, <1>1, <1>3 DEF StoredInv
<1>5. UniqueEventIds'
  BY <1>0 DEF UniqueEventIds
<1>6. AllOrNothing'
  <2> SUFFICES ASSUME NEW n \in DOMAIN history,
                      StoredOf(n)' # {}
               PROVE  StoredOf(n)' = StoredOf(n)
    BY <1>0 DEF AllOrNothing
  <2>1. \A e \in StoredOf(n) : e.log_group = history[n].req.log_group
    BY DEF StoredOf, SourceInv
  <2> QED
    BY <1>0, <2>1 DEF StoredOf
<1> QED
  BY <1>2, <1>4, <1>5, <1>6 DEF StepInv

\* The answer agrees with what the request stored.
LEMMA ReplyStep ==
  ASSUME EventInv, NEW w \in Worker, Reply(w)
  PROVE  StepInv'
<1> USE DEF EventInv
<1> DEFINE n == serving[w]
<1>0. /\ UNCHANGED <<events, event_counter, lifetime>>
      /\ pc[w] = "reply" /\ pc'[w] = "idle"
      /\ \A v \in Worker : v # w =>
           /\ pc'[v] = pc[v] /\ outcome'[v] = outcome[v]
           /\ built'[v] = built[v] /\ serving'[v] = serving[v]
  BY DEF Reply, Goto, TypeOK, tables
<1>1. n \in 1..Len(history) /\ outcome[w] \in Answers
  BY <1>0, ServingType DEF TypeOK
<1>2. /\ Len(history') = Len(history)
      /\ DOMAIN history' = DOMAIN history
      /\ DOMAIN history = 1..Len(history)
      /\ history'[n].status = outcome[w]
      /\ \A k \in 1..Len(history) : k # n => history'[k] = history[k]
  <2>1. history \in Seq(Entry) /\ history[n] \in Entry
    BY <1>1 DEF TypeOK
  <2>2. history' = [history EXCEPT ![n] = Ended(history[n], outcome[w])]
    BY DEF Reply
  <2>3. Ended(history[n], outcome[w]).status = outcome[w]
    BY <2>1 DEF Ended, Entry
  <2> QED
    BY <1>1, <2>1, <2>2, <2>3
<1>3. \A k \in 1..Len(history) : /\ history'[k].req = history[k].req
                                 /\ history'[k].server = history[k].server
                                 /\ history'[k].lifetime = history[k].lifetime
  BY HistoryKept DEF Next, Serve
<1>4. \A k \in 1..Len(history) : Current(k)' <=> Current(k)
  BY <1>0, <1>3 DEF Current
<1>5. \A v \in Worker : pc'[v] # "idle" =>
        /\ v # w
        /\ pc[v] # "idle"
        /\ serving[v] \in 1..Len(history)
        /\ serving[v] # n
        /\ Req(v)' = Req(v)
  BY <1>0, ReqKept, ServingType DEF ServingInv
<1>6. \A v \in Worker : Putting(v)' => v # w /\ Putting(v)
  BY <1>5 DEF Putting
<1>7. \A e \in events : e.put \in 1..Len(history)
  BY DEF SourceInv
<1> HIDE DEF n
<1>8. ServingInv'
  <2>1. \A v \in Worker : pc'[v] # "idle" =>
          /\ serving'[v] = serving[v]
          /\ history'[serving[v]] = history[serving[v]]
          /\ Current(serving[v])' <=> Current(serving[v])
    BY <1>0, <1>2, <1>4, <1>5
  <2>2. \A v \in Worker : pc'[v] # "idle" => Current(serving[v])'
    BY <1>5, <2>1 DEF ServingInv
  <2>3. \A v \in Worker : pc'[v] # "idle" => (Current(serving[v]))'
    BY <1>0, <2>1, <2>2 DEF Current
  <2>4. \A v \in Worker : pc'[v] # "idle" =>
          /\ history'[serving'[v]].server = ServerOf[v]
          /\ history'[serving'[v]].status = "pending"
    BY <1>5, <2>1 DEF ServingInv
  <2>5. \A k \in 1..Len(history)' :
          history'[k].lifetime <= lifetime'[history'[k].server]
    BY <1>0, <1>2, <1>3 DEF ServingInv
  <2>6. \A u, v \in Worker :
          pc'[u] # "idle" /\ pc'[v] # "idle" /\ serving'[u] = serving'[v] => u = v
    BY <1>5, <2>1 DEF ServingInv
  <2> QED
    BY <2>3, <2>4, <2>5, <2>6 DEF ServingInv
<1>9. IdInv'
  BY <1>0, <1>6 DEF IdInv
<1>10. SourceInv'
  BY <1>0, <1>2, <1>3 DEF SourceInv
<1>11. StoredInv'
  BY <1>0, <1>3, <1>4, <1>5, <1>6, <1>7 DEF StoredInv
<1>12. UniqueEventIds'
  BY <1>0, <1>3, <1>7 DEF UniqueEventIds
<1>13. AllOrNothing'
  <2>1. \A k : StoredOf(k)' = StoredOf(k)
    BY <1>0 DEF StoredOf
  <2>2. StoredOf(n) # {} => outcome[w] = "ok"
    BY <1>0 DEF StoredOf, StoredInv, n
  <2>3. ASSUME NEW k \in DOMAIN history, StoredOf(k) # {}
        PROVE  /\ {e.index : e \in StoredOf(k)} = DOMAIN history'[k].req.batch
               /\ history'[k].status \notin {"client_error", "server_error"}
    BY <1>2, <1>3, <2>2, <2>3 DEF AllOrNothing
  <2> QED
    BY <1>2, <2>1, <2>3 DEF AllOrNothing
<1> QED
  BY <1>8, <1>9, <1>10, <1>11, <1>12, <1>13 DEF StepInv

\* A new server object serves nothing yet; no stored row is its.
LEMMA RestartStep ==
  ASSUME EventInv, NEW s \in Server, Restart(s)
  PROVE  StepInv'
<1> USE DEF EventInv
<1>0. /\ UNCHANGED <<events, pc, serving, built, outcome, history>>
      /\ lifetime' = [lifetime EXCEPT ![s] = lifetime[s] + 1]
      /\ \A t \in Server : t # s =>
           lifetime'[t] = lifetime[t] /\ event_counter'[t] = event_counter[t]
      /\ \A w \in Worker : ServerOf[w] = s => pc[w] = "idle"
  BY DEF Restart, TypeOK, tables
<1>1. /\ \A t \in Server : lifetime[t] \in Nat /\ lifetime'[t] \in Nat
      /\ lifetime'[s] = lifetime[s] + 1
      /\ \A t \in Server : lifetime[t] <= lifetime'[t]
  BY <1>0 DEF TypeOK
<1>2. \A k \in 1..Len(history) :
        /\ history[k].server \in Server
        /\ history[k].lifetime \in Nat
        /\ history[k].lifetime <= lifetime[history[k].server]
  <2>1. \A k \in 1..Len(history) : history[k] \in Entry
    BY DEF TypeOK
  <2> QED
    BY <2>1 DEF ServingInv, Entry
<1>3. \A k \in 1..Len(history) :
        Current(k)' <=> (Current(k) /\ history[k].server # s)
  <2> SUFFICES ASSUME NEW k \in 1..Len(history)
               PROVE  Current(k)' <=> (Current(k) /\ history[k].server # s)
    OBVIOUS
  <2>1. CASE history[k].server = s
    BY <1>0, <1>1, <1>2, <2>1 DEF Current
  <2>2. CASE history[k].server # s
    BY <1>0, <1>2, <2>2 DEF Current
  <2> QED
    BY <2>1, <2>2
<1>4. /\ \A v \in Worker : Putting(v)' <=> Putting(v)
      /\ \A v \in Worker : pc[v] # "idle" => ServerOf[v] # s
      /\ \A v \in Worker : Putting(v) => ServerOf[v] # s
      /\ \A v \in Worker : ServerOf[v] \in Server
  BY <1>0, ServerAssumption DEF Putting, Req
<1>5. ServingInv'
  <2>1. \A k \in 1..Len(history) :
          history[k].lifetime <= lifetime'[history[k].server]
    BY <1>1, <1>2
  <2>2. \A v \in Worker : pc[v] # "idle" => (Current(serving[v]))'
    BY <1>0, <1>4 DEF ServingInv, Current
  <2> QED
    BY <1>0, <2>1, <2>2 DEF ServingInv
<1>6. IdInv'
  BY <1>0, <1>4 DEF IdInv
<1>7. SourceInv' /\ UniqueEventIds' /\ AllOrNothing'
  BY <1>0 DEF SourceInv, UniqueEventIds, AllOrNothing, StoredOf
<1>8. StoredInv'
  <2>1. \A e \in events : e.put \in 1..Len(history)
    BY DEF SourceInv
  <2> QED
    BY <1>0, <1>2, <1>3, <1>4, <2>1 DEF StoredInv
<1> QED
  BY <1>5, <1>6, <1>7, <1>8 DEF StepInv

\* After a crash nothing is being served and no stored row is a present object's.
LEMMA CrashStep ==
  ASSUME EventInv, Crash
  PROVE  StepInv'
<1> USE DEF EventInv
<1>0. /\ UNCHANGED events
      /\ \A s \in Server : lifetime'[s] = lifetime[s] + 1 /\ lifetime[s] \in Nat
      /\ \A w \in Worker : pc'[w] = "idle"
      /\ DOMAIN history' = DOMAIN history
      /\ DOMAIN history = 1..Len(history)
      /\ \A k \in 1..Len(history) :
           history'[k].status \in {history[k].status, "lost"}
  <2>1. history \in Seq(Entry)
    BY DEF TypeOK
  <2>2. \A k \in 1..Len(history) : Ended(history[k], "lost").status = "lost"
    <3>1. \A k \in 1..Len(history) : history[k] \in Entry
      BY <2>1
    <3> QED
      BY <3>1 DEF Ended, Entry
  <2>3. history' = [k \in DOMAIN history |->
                      IF history[k].status = "pending"
                      THEN Ended(history[k], "lost") ELSE history[k]]
    BY DEF Crash
  <2>4. \A k \in 1..Len(history) :
          history'[k].status \in {history[k].status, "lost"}
    BY <2>1, <2>2, <2>3
  <2> QED
    BY <2>1, <2>3, <2>4 DEF Crash, TypeOK, tables
<1>1. /\ Len(history') = Len(history)
      /\ \A k \in 1..Len(history) :
           /\ history'[k].req = history[k].req
           /\ history'[k].server = history[k].server
           /\ history'[k].lifetime = history[k].lifetime
  <2>1. /\ Len(history) <= Len(history')
        /\ \A k \in 1..Len(history) :
             /\ history'[k].req = history[k].req
             /\ history'[k].server = history[k].server
             /\ history'[k].lifetime = history[k].lifetime
    BY HistoryKept DEF Next
  <2>2. history' \in Seq(Entry) /\ history \in Seq(Entry)
    BY NextTypeOK DEF Next, TypeOK
  <2>3. DOMAIN history' = 1..Len(history') /\ Len(history') \in Nat
    BY <2>2
  <2> QED
    BY <1>0, <2>1, <2>2, <2>3
<1>2. \A k \in 1..Len(history) :
        /\ history[k].server \in Server
        /\ history[k].lifetime \in Nat
        /\ history[k].lifetime <= lifetime[history[k].server]
  <2>1. \A k \in 1..Len(history) : history[k] \in Entry
    BY DEF TypeOK
  <2> QED
    BY <2>1 DEF ServingInv, Entry
<1>3. \A k \in 1..Len(history) : ~Current(k)'
  BY <1>0, <1>1, <1>2 DEF Current
<1>4. \A v \in Worker : ~Putting(v)'
  BY <1>0 DEF Putting
<1>5. ServingInv'
  BY <1>0, <1>1, <1>2 DEF ServingInv
<1>6. IdInv'
  BY <1>4 DEF IdInv
<1>7. SourceInv' /\ UniqueEventIds'
  BY <1>0, <1>1 DEF SourceInv, UniqueEventIds
<1>8. StoredInv'
  BY <1>0, <1>3, <1>4 DEF StoredInv, SourceInv
<1>9. AllOrNothing'
  <2>1. \A k : StoredOf(k)' = StoredOf(k)
    BY <1>0 DEF StoredOf
  <2>2. ASSUME NEW k \in DOMAIN history, StoredOf(k) # {}
        PROVE  /\ {e.index : e \in StoredOf(k)} = DOMAIN history'[k].req.batch
               /\ history'[k].status \notin {"client_error", "server_error"}
    BY <1>0, <1>1, <2>2 DEF AllOrNothing
  <2> QED
    BY <1>0, <2>1, <2>2 DEF AllOrNothing
<1> QED
  BY <1>5, <1>6, <1>7, <1>8, <1>9 DEF StepInv

----------------------------------------------------------------------------
(* The invariant and what follows from it.                                 *)

\* Before the first request nothing is stored or served.
LEMMA InitEventInv == Init => EventInv
<1> SUFFICES ASSUME Init PROVE EventInv
  OBVIOUS
<1>1. TypeOK
  BY InitTypeOK
<1>2. /\ events = {} /\ history = << >>
      /\ \A w \in Worker : pc[w] = "idle"
  BY DEF Init
<1>3. Len(history) = 0 /\ 1..Len(history) = {} /\ DOMAIN history = {}
  BY <1>2
<1>4. LabelInv /\ LengthInv
  BY <1>2 DEF LabelInv, LengthInv, Statements
<1>5. ServingInv /\ IdInv /\ SourceInv /\ StoredInv
  BY <1>2, <1>3 DEF ServingInv, IdInv, SourceInv, StoredInv, Putting
<1>6. UniqueEventIds /\ AllOrNothing
  BY <1>2, <1>3 DEF UniqueEventIds, AllOrNothing
<1> QED
  BY <1>1, <1>4, <1>5, <1>6 DEF EventInv

\* Every step keeps the invariant.
LEMMA NextEventInv == EventInv /\ [Next]_vars => EventInv'
<1> SUFFICES ASSUME EventInv, [Next]_vars PROVE EventInv'
  OBVIOUS
<1>0. TypeOK' /\ LabelInv' /\ LengthInv'
  BY NextTypeOK, NextLabelInv, NextLengthInv DEF EventInv
<1>a. pc \in [Worker -> Pc] /\ outcome \in [Worker -> Answers]
  BY DEF EventInv, TypeOK
<1>1. ASSUME NEW w \in Worker, NEW req \in Request, Accept(w, req)
      PROVE  StepInv'
  BY <1>1, AcceptStep
<1>2. ASSUME NEW w \in Worker,
             RejectBatch(w) \/ BatchBuilt(w) \/ Acquire(w)
      PROVE  StepInv'
  <2>1. /\ UNCHANGED <<events, event_counter, lifetime, built, serving, history>>
        /\ pc[w] \notin {"idle", "reply"} /\ pc'[w] # "idle"
        /\ \A v \in Worker :
             v # w => pc'[v] = pc[v] /\ outcome'[v] = outcome[v]
    BY <1>a, <1>2 DEF RejectBatch, BatchBuilt, Acquire, FirstStatement, Goto,
                      tables, object
  <2> QED
    BY <2>1, MoveStep
<1>3. ASSUME NEW w \in Worker,
             \/ CheckGroup(w) \/ InsertGroup(w)
             \/ CheckStream(w) \/ InsertStream(w)
      PROVE  StepInv'
  <2>1. /\ UNCHANGED <<events, event_counter, lifetime, built, serving, history>>
        /\ pc[w] \notin {"idle", "reply"} /\ pc'[w] # "idle"
        /\ \A v \in Worker :
             v # w => pc'[v] = pc[v] /\ outcome'[v] = outcome[v]
    BY <1>a, <1>3 DEF CheckGroup, AfterCheckGroup, InsertGroup, CheckStream,
                      InsertStream, Finish, Goto, tables, object
  <2> QED
    BY <2>1, MoveStep
<1>4. ASSUME NEW w \in Worker,
             \/ DeleteGroups(w) \/ UpdateRetention(w) \/ AppendMetrics(w)
             \/ Read(w) \/ StatementFails(w)
      PROVE  StepInv'
  <2>1. /\ UNCHANGED <<events, event_counter, lifetime, built, serving, history>>
        /\ pc[w] \notin {"idle", "reply"} /\ pc'[w] # "idle"
        /\ \A v \in Worker :
             v # w => pc'[v] = pc[v] /\ outcome'[v] = outcome[v]
    BY <1>a, <1>4 DEF DeleteGroups, UpdateRetention, AppendMetrics, Read,
                      StatementFails, Statements, Finish, Goto, tables, object
  <2> QED
    BY <2>1, MoveStep
<1>5. ASSUME NEW w \in Worker, BuildRow(w) PROVE StepInv'
  BY <1>5, BuildStep
<1>6. ASSUME NEW w \in Worker, AppendRows(w) PROVE StepInv'
  BY <1>6, AppendStep
<1>7. ASSUME NEW w \in Worker, DeleteEvents(w) PROVE StepInv'
  BY <1>7, DeleteStep
<1>8. ASSUME NEW w \in Worker, Reply(w) PROVE StepInv'
  BY <1>8, ReplyStep
<1>9. ASSUME NEW s \in Server, Restart(s) PROVE StepInv'
  BY <1>9, RestartStep
<1>10. ASSUME Crash PROVE StepInv'
  BY <1>10, CrashStep
<1>11. ASSUME UNCHANGED vars PROVE StepInv'
  <2>1. UNCHANGED <<events, event_counter, lifetime, pc, serving, built, outcome,
                    history>>
    BY <1>11 DEF vars, tables, object
  <2>2. /\ \A v \in Worker : Req(v)' = Req(v) /\ (Putting(v)' <=> Putting(v))
        /\ \A k : Current(k)' <=> Current(k)
    BY <2>1 DEF Req, Putting, Current
  <2>3. ServingInv' /\ IdInv' /\ SourceInv'
    BY <2>1, <2>2 DEF EventInv, ServingInv, IdInv, SourceInv
  <2>4. StoredInv'
    BY <2>1, <2>2 DEF EventInv, StoredInv
  <2>5. UniqueEventIds' /\ AllOrNothing'
    BY <2>1 DEF EventInv, UniqueEventIds, AllOrNothing, StoredOf
  <2> QED
    BY <2>3, <2>4, <2>5 DEF StepInv
<1> QED
  BY <1>0, <1>1, <1>2, <1>3, <1>4, <1>5, <1>6, <1>7, <1>8, <1>9, <1>10, <1>11
  DEF Next, Serve, Execute, Quiet, EventInv, StepInv

\* A server object never stores two events under one id, whatever the number
\* of threads that take ids before the lock and store them in any order.
THEOREM EventIdsUnique == Spec => []UniqueEventIds
<1>1. EventInv => UniqueEventIds
  BY DEF EventInv
<1> QED
  BY InitEventInv, NextEventInv, <1>1, PTL DEF Spec

\* The events of a PutLogEvents are stored all or none, and none of a request
\* that was answered with an error, whatever fails and whenever the process
\* dies.
THEOREM BatchAtomic == Spec => []AllOrNothing
<1>1. EventInv => AllOrNothing
  BY DEF EventInv
<1> QED
  BY InitEventInv, NextEventInv, <1>1, PTL DEF Spec

----------------------------------------------------------------------------
(* Deletions and acknowledgements: what an acknowledged DeleteLogGroup has *)
(* removed, what may have removed an acknowledged PutLogEvents, and, for   *)
(* one listener, what leaves events without their group.                   *)

\* Request n was given this answer, or its worker is about to give it.
Decided(n, answer) ==
  \/ history[n].status = answer
  \/ \E w \in Worker :
       pc[w] = "reply" /\ serving[w] = n /\ outcome[w] = answer

\* A DeleteLogGroup of group g that was not over when request n began.
Deletes(m, g, n) ==
  /\ history[m].req.op = "DeleteLogGroup"
  /\ history[m].req.log_group = g
  /\ ~Precedes(m, n)

\* DeletedDiscarded, from the moment the events are deleted on.
DiscardInv ==
  \A m \in 1..Len(history) : \A e \in events :
    /\ history[m].req.op = "DeleteLogGroup"
    /\ history[m].req.log_group = e.log_group
    /\ Decided(m, "ok")
    => ~Precedes(e.put, m)

\* AcknowledgedKept, from the moment the events are stored on.
KeptInv ==
  \A n \in 1..Len(history) :
    /\ history[n].req.op = "PutLogEvents"
    /\ history[n].req.batch # << >>
    /\ Decided(n, "ok")
    => \/ StoredOf(n) # {}
       \/ \E m \in 1..Len(history) :
            /\ Deletes(m, history[n].req.log_group, n)
            /\ Decided(m, "ok") \/ history[m].status = "lost"

\* A request that is between the statements of DeleteLogGroup, or ended there.
HalfDeleted(m) ==
  \/ history[m].status = "lost"
  \/ Decided(m, "server_error")
  \/ \E w \in Worker : pc[w] = "delete_events" /\ serving[w] = m

\* The group and the stream of an event are listed.
Listed(e) ==
  GroupExists(e.log_group) /\ StreamExists(e.log_group, e.log_stream)

\* OrphansExplained, with the deletion that explains an orphan.
OrphanInv ==
  \A e \in events :
    \/ Listed(e)
    \/ \E m \in 1..Len(history) :
         Deletes(m, e.log_group, e.put) /\ HalfDeleted(m)

----------------------------------------------------------------------------
(* What single steps do to requests, answers and events.                   *)

\* Only a pending request ends, and it ends after every request that began.
LEMMA EntryStep ==
  ASSUME EventInv, [Next]_vars
  PROVE  /\ Len(history) <= Len(history')
         /\ \A n \in 1..Len(history) :
              /\ history'[n].req = history[n].req
              /\ history[n].status # "pending" => history'[n] = history[n]
              /\ history[n].status = "pending" /\ history'[n].status # "pending"
                   => history'[n].ended = Len(history)
         /\ \A n \in 1..Len(history') :
              n \in 1..Len(history) \/ history'[n].status = "pending"
<1> USE DEF EventInv, tables, object
<1>0. history \in Seq(Entry) /\ Len(history) \in Nat
  BY DEF TypeOK
<1>1. /\ Len(history) <= Len(history')
      /\ \A n \in 1..Len(history) : history'[n].req = history[n].req
  BY HistoryKept
<1>2. ASSUME NEW n \in 1..Len(history), NEW status \in Status
      PROVE  Ended(history[n], status).ended = Len(history)
  <2>1. history[n] \in Entry
    BY <1>0
  <2> QED
    BY <2>1 DEF Ended, Entry
<1> DEFINE Ends ==
        /\ Len(history') = Len(history)
        /\ \A n \in 1..Len(history) :
             \/ history'[n] = history[n]
             \/ /\ history[n].status = "pending"
                /\ history'[n].ended = Len(history)
<1>3. ASSUME NEW w \in Worker, Reply(w) PROVE Ends
  <2>1. /\ serving[w] \in 1..Len(history) /\ outcome[w] \in Status
        /\ history[serving[w]].status = "pending"
    BY <1>3, ServingType DEF Reply, ServingInv, TypeOK, Status
  <2>2. history' = [history EXCEPT ![serving[w]] =
                      Ended(history[serving[w]], outcome[w])]
    BY <1>3 DEF Reply
  <2>3. Len(history') = Len(history)
    BY <1>0, <2>2
  <2>4. ASSUME NEW n \in 1..Len(history), n # serving[w]
        PROVE  history'[n] = history[n]
    BY <1>0, <2>2, <2>4
  <2>5. history'[serving[w]].ended = Len(history)
    BY <1>0, <1>2, <2>1, <2>2
  <2> QED
    BY <2>1, <2>3, <2>4, <2>5
<1>4. ASSUME Crash PROVE Ends
  <2>1. history' = [n \in 1..Len(history) |->
                      IF history[n].status = "pending"
                      THEN Ended(history[n], "lost") ELSE history[n]]
    BY <1>0, <1>4 DEF Crash
  <2>2. Len(history') = Len(history)
    BY <1>0, <2>1
  <2>3. "lost" \in Status
    BY DEF Status
  <2>4. ASSUME NEW n \in 1..Len(history)
        PROVE  \/ history'[n] = history[n]
               \/ /\ history[n].status = "pending"
                  /\ history'[n].ended = Len(history)
    BY <1>2, <2>1, <2>3
  <2> QED
    BY <2>2, <2>4
<1>5. ASSUME UNCHANGED history PROVE Ends
  BY <1>5
<1>6. ASSUME NEW w \in Worker, NEW req \in Request, Accept(w, req)
      PROVE  /\ \A n \in 1..Len(history) : history'[n] = history[n]
             /\ Len(history') = Len(history) + 1
             /\ history'[Len(history) + 1].status = "pending"
  BY <1>0, <1>6 DEF Accept
<1>7. ASSUME NEW w \in Worker, Serve(w), ~Reply(w) PROVE UNCHANGED history
  BY <1>7 DEF Serve, Execute, BuildRow, RejectBatch, BatchBuilt, Acquire,
     CheckGroup, InsertGroup, CheckStream, InsertStream, AppendRows,
     DeleteGroups, DeleteEvents, UpdateRetention, AppendMetrics, Read,
     StatementFails
<1>8. ASSUME NEW s \in Server, Restart(s) PROVE UNCHANGED history
  BY <1>8 DEF Restart
<1>9. \/ Ends
      \/ \E w \in Worker, req \in Request : Accept(w, req)
  BY <1>3, <1>4, <1>5, <1>7, <1>8 DEF Next, Quiet, vars
<1>10. CASE Ends
  BY <1>0, <1>1, <1>10
<1>11. CASE \E w \in Worker, req \in Request : Accept(w, req)
  <2>1. \A n \in 1..(Len(history) + 1) :
          n \in 1..Len(history) \/ n = Len(history) + 1
    BY <1>0
  <2> QED
    BY <1>1, <1>6, <1>11, <2>1
<1> HIDE DEF Ends
<1> QED
  BY <1>9, <1>10, <1>11

\* Whether a request was over before another began never changes.
LEMMA PrecedesKept ==
  ASSUME EventInv, [Next]_vars,
         NEW m \in 1..Len(history), NEW n \in 1..Len(history)
  PROVE  Precedes(m, n)' <=> Precedes(m, n)
<1>1. Len(history) \in Nat
  BY DEF EventInv, TypeOK
<1>2. /\ history[m].status # "pending" => history'[m] = history[m]
      /\ history[m].status = "pending" /\ history'[m].status # "pending"
           => history'[m].ended = Len(history)
  BY EntryStep
<1>3. CASE history[m].status # "pending"
  BY <1>2, <1>3 DEF Precedes
<1>4. CASE history[m].status = "pending"
  BY <1>1, <1>2, <1>4 DEF Precedes
<1> QED
  BY <1>3, <1>4

\* Handlers that finish with "ok" have executed the last statement of their
\* operation, and only these two statements change the events.
Stores(w)   == AppendRows(w) /\ Req(w).op = "PutLogEvents"
Discards(w) == DeleteEvents(w) /\ Req(w).op = "DeleteLogGroup"

\* What a worker decides in this step.
Decides(w, answer) ==
  /\ pc[w] \notin {"idle", "reply"}
  /\ pc'[w] = "reply" /\ outcome'[w] = answer
  /\ UNCHANGED <<serving, history>>
  /\ answer = "ok" =>
       /\ Req(w).op = "PutLogEvents" => Stores(w)
       /\ Req(w).op = "DeleteLogGroup" => Discards(w)

\* A busy worker's step, but for its reply.
LEMMA WorkStep ==
  ASSUME EventInv, NEW w \in Worker, Serve(w), ~Reply(w)
  PROVE  /\ UNCHANGED <<serving, history>>
         /\ pc[w] \notin {"idle", "reply"}
         /\ pc'[w] # "idle"
         /\ \A v \in Worker :
              v # w => pc'[v] = pc[v] /\ outcome'[v] = outcome[v]
         /\ pc'[w] = "reply" => Decides(w, outcome'[w])
         /\ pc'[w] # "reply" => UNCHANGED events
         /\ UNCHANGED events \/ Stores(w) \/ Discards(w)
<1> USE DEF EventInv, LabelInv, tables, object, Goto, Finish, Decides
<1>0. pc \in [Worker -> Pc] /\ outcome \in [Worker -> Answers]
  BY DEF TypeOK
<1>1. CASE BuildRow(w)
  BY <1>0, <1>1 DEF BuildRow
<1>2. CASE RejectBatch(w) \/ BatchBuilt(w) \/ Acquire(w)
  BY <1>0, <1>2 DEF RejectBatch, BatchBuilt, Acquire, FirstStatement
<1>3. CASE CheckGroup(w) \/ CheckStream(w)
  BY <1>0, <1>3 DEF CheckGroup, CheckStream, AfterCheckGroup
<1>4. CASE InsertGroup(w) \/ InsertStream(w)
  BY <1>0, <1>4 DEF InsertGroup, InsertStream
<1>5. CASE AppendRows(w) \/ DeleteEvents(w)
  <2>1. CASE AppendRows(w)
    <3>1. Stores(w)
      BY <2>1 DEF Stores, AppendRows
    <3> QED
      BY <1>0, <2>1, <3>1 DEF AppendRows, Stores
  <2>2. CASE DeleteEvents(w)
    <3>1. Discards(w)
      BY <2>2 DEF Discards, DeleteEvents
    <3> QED
      BY <1>0, <2>2, <3>1 DEF DeleteEvents, Discards
  <2> QED
    BY <1>5, <2>1, <2>2
<1>6. CASE DeleteGroups(w) \/ UpdateRetention(w)
  BY <1>0, <1>6 DEF DeleteGroups, UpdateRetention
<1>7. CASE AppendMetrics(w) \/ Read(w)
  BY <1>0, <1>7 DEF AppendMetrics, Read, GroupOps
<1>8. CASE StatementFails(w)
  BY <1>0, <1>8 DEF StatementFails, Statements
<1> QED
  BY <1>1, <1>2, <1>3, <1>4, <1>5, <1>6, <1>7, <1>8 DEF Serve, Execute

\* Every other step leaves the events and the decisions being taken alone.
LEMMA OtherStep ==
  ASSUME EventInv, [Next]_vars, \A w \in Worker : Serve(w) => Reply(w)
  PROVE  /\ UNCHANGED events
         /\ \/ UNCHANGED <<pc, serving, outcome, history>>
            \/ \E w \in Worker, req \in Request : Accept(w, req)
            \/ \E w \in Worker : Reply(w)
            \/ Crash
  BY DEF Next, Quiet, Restart, Crash, Accept, Reply, vars, tables, object

\* An answer is decided by a handler's last statement and by nothing else.
LEMMA DecidedStep ==
  ASSUME EventInv, [Next]_vars, NEW answer \in Answers,
         NEW n \in 1..Len(history'), Decided(n, answer)'
  PROVE  /\ n \in 1..Len(history)
         /\ \/ Decided(n, answer)
            \/ \E w \in Worker : serving[w] = n /\ Decides(w, answer)
<1> USE DEF EventInv
<1>0. /\ history \in Seq(Entry) /\ Len(history) \in Nat
      /\ pc \in [Worker -> Pc] /\ serving \in [Worker -> Nat]
      /\ outcome \in [Worker -> Answers]
      /\ answer \notin {"pending", "lost"}
  BY DEF TypeOK, Answers
<1>1. ASSUME NEW w \in Worker, Serve(w), ~Reply(w)
      PROVE  /\ n \in 1..Len(history)
             /\ \/ Decided(n, answer)
                \/ \E v \in Worker : serving[v] = n /\ Decides(v, answer)
  BY <1>1, WorkStep DEF Decided
<1>2. CASE UNCHANGED <<pc, serving, outcome, history>>
  BY <1>2 DEF Decided
<1>3. ASSUME NEW w \in Worker, NEW req \in Request, Accept(w, req)
      PROVE  n \in 1..Len(history) /\ Decided(n, answer)
  <2>1. /\ \A v \in Worker : v # w => pc'[v] = pc[v] /\ serving'[v] = serving[v]
        /\ pc'[w] # "reply"
        /\ outcome' = outcome
        /\ \A k \in 1..Len(history) : history'[k] = history[k]
    BY <1>0, <1>3 DEF Accept, Goto
  <2>2. CASE history'[n].status = answer
    <3>1. n \in 1..Len(history)
      BY <1>0, <2>2, EntryStep
    <3> QED
      BY <2>1, <2>2, <3>1 DEF Decided
  <2>3. ASSUME NEW v \in Worker, pc'[v] = "reply", serving'[v] = n,
               outcome'[v] = answer
        PROVE  n \in 1..Len(history) /\ Decided(n, answer)
    <3>1. pc[v] = "reply" /\ serving[v] = n /\ outcome[v] = answer
      BY <2>1, <2>3
    <3> QED
      BY <3>1, ServingType DEF Decided
  <2> QED
    BY <2>2, <2>3 DEF Decided
<1>4. ASSUME NEW w \in Worker, Reply(w)
      PROVE  n \in 1..Len(history) /\ Decided(n, answer)
  <2>1. /\ serving[w] \in 1..Len(history) /\ pc[w] = "reply"
        /\ history[serving[w]] \in Entry
        /\ history' = [history EXCEPT ![serving[w]] =
                        Ended(history[serving[w]], outcome[w])]
    BY <1>4, ServingType DEF Reply, TypeOK
  <2>2. /\ Len(history') = Len(history)
        /\ \A k \in 1..Len(history) :
             k # serving[w] => history'[k] = history[k]
        /\ history'[serving[w]].status = outcome[w]
    <3>1. Ended(history[serving[w]], outcome[w]).status = outcome[w]
      BY <2>1 DEF Ended, Entry
    <3> QED
      BY <1>0, <2>1, <3>1
  <2>3. /\ \A v \in Worker : v # w =>
             /\ pc'[v] = pc[v] /\ serving'[v] = serving[v]
             /\ outcome'[v] = outcome[v]
        /\ pc'[w] = "idle"
    BY <1>0, <1>4 DEF Reply, Goto
  <2>4. CASE history'[n].status = answer
    BY <2>1, <2>2, <2>4 DEF Decided
  <2>5. CASE \E v \in Worker :
               pc'[v] = "reply" /\ serving'[v] = n /\ outcome'[v] = answer
    BY <2>2, <2>3, <2>5 DEF Decided
  <2> QED
    BY <2>4, <2>5 DEF Decided
<1>5. CASE Crash
  <2>1. /\ \A v \in Worker : pc'[v] = "idle"
        /\ history' = [k \in 1..Len(history) |->
                         IF history[k].status = "pending"
                         THEN Ended(history[k], "lost") ELSE history[k]]
    BY <1>0, <1>5 DEF Crash
  <2>2. Len(history') = Len(history) /\ history[n] \in Entry
    BY <1>0, <2>1
  <2>3. Ended(history[n], "lost").status = "lost"
    BY <2>2 DEF Ended, Entry
  <2>4. history'[n].status \in {history[n].status, "lost"}
    BY <2>1, <2>2, <2>3
  <2> QED
    BY <1>0, <2>1, <2>2, <2>4 DEF Decided
<1> QED
  BY <1>1, <1>2, <1>3, <1>4, <1>5, OtherStep

\* A decided answer is given, unless the process dies first.
LEMMA DecidedKept ==
  ASSUME EventInv, [Next]_vars, NEW answer \in Answers,
         NEW n \in 1..Len(history), Decided(n, answer)
  PROVE  Decided(n, answer)' \/ history'[n].status = "lost"
<1> USE DEF EventInv
<1>0. /\ history \in Seq(Entry) /\ Len(history) \in Nat
      /\ pc \in [Worker -> Pc] /\ serving \in [Worker -> Nat]
      /\ outcome \in [Worker -> Answers]
      /\ answer \notin {"pending", "lost"}
  BY DEF TypeOK, Answers
<1>1. CASE history[n].status = answer
  BY <1>0, <1>1, EntryStep DEF Decided
<1>2. ASSUME NEW v \in Worker, pc[v] = "reply", serving[v] = n,
             outcome[v] = answer
      PROVE  Decided(n, answer)' \/ history'[n].status = "lost"
  <2>1. ASSUME NEW w \in Worker, Serve(w), ~Reply(w)
        PROVE  Decided(n, answer)'
    BY <1>2, <2>1, WorkStep DEF Decided
  <2>2. CASE UNCHANGED <<pc, serving, outcome, history>>
    BY <1>2, <2>2 DEF Decided
  <2>3. ASSUME NEW w \in Worker, NEW req \in Request, Accept(w, req)
        PROVE  Decided(n, answer)'
    <3>1. v # w
      BY <1>2, <2>3 DEF Accept
    <3>2. pc'[v] = pc[v] /\ serving'[v] = serving[v] /\ outcome'[v] = outcome[v]
      BY <1>0, <2>3, <3>1 DEF Accept, Goto
    <3> QED
      BY <1>2, <3>2 DEF Decided
  <2>4. ASSUME NEW w \in Worker, Reply(w), w # v
        PROVE  Decided(n, answer)'
    <3>1. pc'[v] = pc[v] /\ serving'[v] = serving[v] /\ outcome'[v] = outcome[v]
      BY <1>0, <2>4 DEF Reply, Goto
    <3> QED
      BY <1>2, <3>1 DEF Decided
  <2>5. ASSUME Reply(v) PROVE Decided(n, answer)'
    <3>1. history[n] \in Entry
      BY <1>0
    <3>2. Ended(history[n], answer).status = answer
      BY <3>1 DEF Ended, Entry
    <3>3. history'[n].status = answer
      BY <1>0, <1>2, <2>5, <3>2 DEF Reply
    <3> QED
      BY <3>3 DEF Decided
  <2>6. CASE Crash
    <3>1. history[n] \in Entry /\ history[n].status = "pending"
      BY <1>0, <1>2 DEF ServingInv
    <3>2. Ended(history[n], "lost").status = "lost"
      BY <3>1 DEF Ended, Entry
    <3>3. history'[n] = Ended(history[n], "lost")
      BY <1>0, <2>6, <3>1 DEF Crash
    <3> QED
      BY <3>2, <3>3
  <2> QED
    BY <2>1, <2>2, <2>3, <2>4, <2>5, <2>6, OtherStep
<1> QED
  BY <1>1, <1>2 DEF Decided

----------------------------------------------------------------------------
(* The invariants and what follows from them.                              *)

\* The request a busy worker serves is over before no other.
LEMMA ServedNotOver ==
  ASSUME EventInv, NEW w \in Worker, pc[w] # "idle", NEW n
  PROVE  /\ serving[w] \in 1..Len(history)
         /\ history[serving[w]].req = Req(w)
         /\ ~Precedes(serving[w], n)
  BY ServingType DEF EventInv, ServingInv, Precedes, Req

\* Stored rows come from earlier requests or from the batch being stored.
LEMMA StoredStep ==
  ASSUME EventInv, [Next]_vars, NEW e \in events'
  PROVE  \/ e \in events /\ e.put \in 1..Len(history)
         \/ \E w \in Worker :
              /\ Stores(w) /\ e.put = serving[w]
              /\ e.log_group = Req(w).log_group
              /\ e.log_stream = Req(w).log_stream
<1> USE DEF EventInv, SourceInv
<1>1. CASE e \in events
  BY <1>1
<1>2. CASE e \notin events
  <2>1. PICK w \in Worker : Serve(w) /\ ~Reply(w)
    BY <1>2, OtherStep
  <2>2. Stores(w)
    BY <1>2, <2>1, WorkStep DEF Discards, DeleteEvents
  <2> QED
    BY <1>2, <2>2 DEF Stores, AppendRows, EventRows
<1> QED
  BY <1>1, <1>2

\* An acknowledged deletion stays ahead of what it deleted.
LEMMA NextDiscardInv == EventInv /\ DiscardInv /\ [Next]_vars => DiscardInv'
<1> SUFFICES ASSUME EventInv, DiscardInv, [Next]_vars,
                    NEW m \in 1..Len(history'), NEW e \in events',
                    history'[m].req.op = "DeleteLogGroup",
                    history'[m].req.log_group = e.log_group,
                    Decided(m, "ok")'
             PROVE  ~Precedes(e.put, m)'
  BY DEF DiscardInv
<1>1. /\ m \in 1..Len(history)
      /\ \/ Decided(m, "ok")
         \/ \E w \in Worker : serving[w] = m /\ Decides(w, "ok")
  BY DecidedStep DEF Answers
<1>2. history'[m].req = history[m].req
  BY <1>1, EntryStep
<1>3. CASE e \in events /\ e.put \in 1..Len(history)
  <2>1. CASE Decided(m, "ok")
    BY <1>1, <1>2, <1>3, <2>1, PrecedesKept DEF DiscardInv
  <2>2. ASSUME NEW w \in Worker, serving[w] = m, Decides(w, "ok") PROVE FALSE
    <3>1. Discards(w) /\ Req(w) = history[m].req
      BY <1>2, <2>2 DEF Decides, Req
    <3> QED
      BY <1>2, <3>1 DEF Discards, DeleteEvents
  <2> QED
    BY <1>1, <2>1, <2>2
<1>4. ASSUME NEW w \in Worker, Stores(w), e.put = serving[w]
      PROVE  ~Precedes(e.put, m)'
  <2>1. pc[w] # "idle"
    BY <1>4 DEF Stores, AppendRows
  <2> QED
    BY <1>1, <1>4, <2>1, ServedNotOver, PrecedesKept
<1> QED
  BY <1>3, <1>4, StoredStep

\* Acknowledged events are removed by a deletion that says so or is cut off.
LEMMA NextKeptInv == EventInv /\ KeptInv /\ [Next]_vars => KeptInv'
<1> DEFINE Removed(n) ==
      \E m \in 1..Len(history) :
        /\ Deletes(m, history[n].req.log_group, n)
        /\ Decided(m, "ok") \/ history[m].status = "lost"
<1> SUFFICES ASSUME EventInv, KeptInv, [Next]_vars,
                    NEW n \in 1..Len(history'),
                    history'[n].req.op = "PutLogEvents",
                    history'[n].req.batch # << >>,
                    Decided(n, "ok")',
                    StoredOf(n)' = {}
             PROVE  Removed(n)'
  BY DEF KeptInv
<1>1. /\ n \in 1..Len(history)
      /\ \/ Decided(n, "ok")
         \/ \E w \in Worker : serving[w] = n /\ Decides(w, "ok")
  BY DecidedStep DEF Answers
<1>2. /\ history'[n].req = history[n].req
      /\ Len(history) \in Nat /\ Len(history') \in Nat
      /\ Len(history) <= Len(history')
  BY <1>1, EntryStep, NextEventInv DEF EventInv, TypeOK
<1>3. ASSUME NEW m \in 1..Len(history),
             Deletes(m, history[n].req.log_group, n),
             Decided(m, "ok")' \/ history'[m].status = "lost"
      PROVE  Removed(n)'
  <2>1. m \in 1..Len(history') /\ history'[m].req = history[m].req
    BY <1>2, EntryStep
  <2>2. Precedes(m, n)' <=> Precedes(m, n)
    BY <1>1, PrecedesKept
  <2>3. Deletes(m, history[n].req.log_group, n)'
    BY <1>2, <1>3, <2>1, <2>2 DEF Deletes
  <2> QED
    BY <1>3, <2>1, <2>3
<1>4. CASE Decided(n, "ok") /\ StoredOf(n) = {}
  <2>1. PICK m \in 1..Len(history) :
          /\ Deletes(m, history[n].req.log_group, n)
          /\ Decided(m, "ok") \/ history[m].status = "lost"
    BY <1>1, <1>2, <1>4 DEF KeptInv
  <2>2. CASE Decided(m, "ok")
    BY <1>3, <2>1, <2>2, DecidedKept DEF Answers
  <2>3. CASE history[m].status = "lost"
    BY <1>3, <2>1, <2>3, EntryStep
  <2> QED
    BY <2>1, <2>2, <2>3
<1>5. CASE StoredOf(n) # {}
  <2>1. PICK e \in events : e.put = n
    BY <1>5 DEF StoredOf
  <2>2. PICK w \in Worker : Serve(w) /\ ~Reply(w)
    BY <2>1, OtherStep DEF StoredOf
  <2>3. Discards(w)
    BY <2>1, <2>2, WorkStep DEF StoredOf, Stores, AppendRows
  <2>4. e.log_group = Req(w).log_group /\ pc[w] # "idle"
    BY <2>1, <2>3 DEF StoredOf, Discards, DeleteEvents
  <2>5. history[n].req.log_group = e.log_group
    BY <2>1 DEF EventInv, SourceInv
  <2>6. PICK m \in 1..Len(history) : m = serving[w]
    BY <2>4, ServedNotOver
  <2>7. Deletes(m, history[n].req.log_group, n)
    BY <2>3, <2>4, <2>5, <2>6, ServedNotOver DEF Deletes, Discards
  <2>8. pc'[w] = "reply" /\ outcome'[w] = "ok" /\ serving' = serving
    BY <2>3 DEF Discards, DeleteEvents, Finish, Goto, EventInv, TypeOK
  <2>9. Decided(m, "ok")'
    BY <2>6, <2>8 DEF Decided
  <2> QED
    BY <1>3, <2>7, <2>9
<1>6. ASSUME NEW w \in Worker, serving[w] = n, Decides(w, "ok") PROVE FALSE
  <2>1. Req(w) = history[n].req /\ Stores(w)
    BY <1>2, <1>6 DEF Decides, Req
  <2>2. pc[w] = "append_rows" /\ pc[w] # "idle"
    BY <2>1 DEF Stores, AppendRows
  <2>3. Len(built[w]) = Len(Req(w).batch)
    BY <2>1, <2>2 DEF EventInv, LengthInv, Stores, PutOps, Statements
  <2>4. 1 \in 1..Len(built[w])
    <3>1. Req(w).batch \in Seq(Time) /\ Req(w).batch # << >>
      BY <1>2, <2>1, <2>2, ServingType DEF EventInv
    <3> QED
      BY <2>3, <3>1
  <2> DEFINE row == [log_group |-> Req(w).log_group,
                     log_stream |-> Req(w).log_stream,
                     timestamp_ms |-> Req(w).batch[1],
                     event_id |-> built[w][1],
                     put |-> serving[w], index |-> 1]
  <2>5. row \in events'
    BY <2>1, <2>4 DEF Stores, AppendRows, EventRows
  <2>6. row.put = n
    BY <1>6
  <2> QED
    BY <2>5, <2>6 DEF StoredOf
<1> QED
  BY <1>1, <1>4, <1>5, <1>6

\* A deletion between its statements goes on, fails or is cut off.
LEMMA HalfDeletedStep ==
  ASSUME EventInv, [Next]_vars, NEW m \in 1..Len(history), HalfDeleted(m)
  PROVE  \/ HalfDeleted(m)'
         \/ \E w \in Worker : Discards(w) /\ serving[w] = m
<1> USE DEF EventInv
<1>1. CASE history[m].status = "lost"
  BY <1>1, EntryStep DEF HalfDeleted
<1>2. CASE Decided(m, "server_error")
  BY <1>2, DecidedKept DEF HalfDeleted, Answers
<1>3. ASSUME NEW w \in Worker, pc[w] = "delete_events", serving[w] = m
      PROVE  \/ HalfDeleted(m)'
             \/ \E v \in Worker : Discards(v) /\ serving[v] = m
  <2>0. /\ pc \in [Worker -> Pc] /\ serving \in [Worker -> Nat]
        /\ outcome \in [Worker -> Answers]
        /\ history \in Seq(Entry)
    BY DEF TypeOK
  <2>1. ASSUME NEW v \in Worker, Serve(v), ~Reply(v), v # w
        PROVE  HalfDeleted(m)'
    BY <1>3, <2>1, WorkStep DEF HalfDeleted
  <2>2. ASSUME Serve(w), ~Reply(w)
        PROVE  HalfDeleted(m)' \/ Discards(w)
    <3>1. DeleteEvents(w) \/ StatementFails(w)
      BY <1>3, <2>2 DEF Serve, Execute, BuildRow, RejectBatch, BatchBuilt,
         Acquire, CheckGroup, InsertGroup, CheckStream, InsertStream,
         AppendRows, DeleteGroups, UpdateRetention, AppendMetrics, Read
    <3>2. CASE DeleteEvents(w)
      BY <1>3, <3>2 DEF Discards, LabelInv
    <3>3. CASE StatementFails(w)
      <4>1. /\ pc'[w] = "reply" /\ outcome'[w] = "server_error"
            /\ serving' = serving
        BY <2>0, <3>3 DEF StatementFails, Finish, Goto
      <4> QED
        BY <1>3, <4>1 DEF HalfDeleted, Decided
    <3> QED
      BY <3>1, <3>2, <3>3
  <2>3. CASE UNCHANGED <<pc, serving, outcome, history>>
    BY <1>3, <2>3 DEF HalfDeleted
  <2>4. ASSUME NEW v \in Worker,
               Reply(v) \/ \E req \in Request : Accept(v, req)
        PROVE  HalfDeleted(m)'
    <3>1. v # w
      BY <1>3, <2>4 DEF Accept, Reply
    <3>2. pc'[w] = pc[w] /\ serving'[w] = serving[w]
      BY <2>0, <2>4, <3>1 DEF Accept, Reply, Goto
    <3> QED
      BY <1>3, <3>2 DEF HalfDeleted
  <2>5. CASE Crash
    <3>1. history[m] \in Entry /\ history[m].status = "pending"
      BY <1>3, <2>0 DEF ServingInv
    <3>2. Ended(history[m], "lost").status = "lost"
      BY <3>1 DEF Ended, Entry
    <3>3. history'[m] = Ended(history[m], "lost")
      BY <2>0, <2>5, <3>1 DEF Crash
    <3> QED
      BY <3>2, <3>3 DEF HalfDeleted
  <2> QED
    BY <1>3, <2>1, <2>2, <2>3, <2>4, <2>5, OtherStep
<1> QED
  BY <1>1, <1>2, <1>3 DEF HalfDeleted

\* Only DeleteLogGroup takes a name off the group table.
LEMMA ListedStep ==
  ASSUME EventInv, [Next]_vars, NEW e, Listed(e)
  PROVE  \/ Listed(e)'
         \/ \E w \in Worker : DeleteGroups(w) /\ e.log_group = Req(w).log_group
<1> USE DEF Listed, GroupExists, StreamExists
<1>1. ASSUME NEW w \in Worker, InsertGroup(w) \/ InsertStream(w)
      PROVE  Listed(e)'
  BY <1>1 DEF InsertGroup, InsertStream
<1>2. ASSUME NEW w \in Worker, DeleteGroups(w), e.log_group # Req(w).log_group
      PROVE  Listed(e)'
  BY <1>2 DEF DeleteGroups
<1>3. ASSUME NEW w \in Worker, UpdateRetention(w) PROVE Listed(e)'
  <2> DEFINE kept(r) ==
        IF r.log_group = Req(w).log_group /\ r.log_stream = NoStream
        THEN [r EXCEPT !.retention_in_days = Req(w).days] ELSE r
  <2>1. groups' = {kept(r) : r \in groups}
    BY <1>3 DEF UpdateRetention
  <2>2. \A r \in groups : /\ kept(r).log_group = r.log_group
                          /\ kept(r).log_stream = r.log_stream
    BY DEF EventInv, TypeOK, GroupRow
  <2> HIDE DEF kept
  <2> QED
    BY <2>1, <2>2
<1>4. ASSUME UNCHANGED groups PROVE Listed(e)'
  BY <1>4
<1>5. \/ UNCHANGED groups
      \/ \E w \in Worker : \/ InsertGroup(w) \/ InsertStream(w)
                           \/ DeleteGroups(w) \/ UpdateRetention(w)
  BY DEF Next, Quiet, Restart, Crash, Accept, Serve, Execute, BuildRow,
     RejectBatch, BatchBuilt, Acquire, CheckGroup, CheckStream, AppendRows,
     DeleteEvents, AppendMetrics, Read, StatementFails, Reply, vars, tables
<1> QED
  BY <1>1, <1>2, <1>3, <1>4, <1>5

\* An event is listed when it is stored, and stays so until a deletion begins.
LEMMA NextOrphanInv ==
  EventInv /\ KnownInv /\ OrphanInv /\ [Next]_vars => OrphanInv'
<1> SUFFICES ASSUME EventInv, KnownInv, OrphanInv, [Next]_vars,
                    NEW e \in events', ~Listed(e)'
             PROVE  \E m \in 1..Len(history') :
                      Deletes(m, e.log_group, e.put)' /\ HalfDeleted(m)'
  BY DEF OrphanInv
<1>0. /\ Len(history) \in Nat /\ Len(history') \in Nat
      /\ Len(history) <= Len(history')
  BY EntryStep, NextEventInv DEF EventInv, TypeOK
<1>1. e \in events /\ e.put \in 1..Len(history)
  <2>1. ASSUME NEW w \in Worker, Stores(w), e.log_group = Req(w).log_group,
               e.log_stream = Req(w).log_stream
        PROVE  FALSE
    <3>1. Listed(e) /\ groups' = groups
      BY <2>1 DEF Stores, AppendRows, KnownInv, Listed
    <3> QED
      BY <3>1 DEF Listed, GroupExists, StreamExists
  <2> QED
    BY <2>1, StoredStep
<1>2. ASSUME NEW m \in 1..Len(history), Deletes(m, e.log_group, e.put),
             HalfDeleted(m)'
      PROVE  \E k \in 1..Len(history') :
               Deletes(k, e.log_group, e.put)' /\ HalfDeleted(k)'
  <2>1. m \in 1..Len(history') /\ history'[m].req = history[m].req
    BY <1>0, EntryStep
  <2>2. Precedes(m, e.put)' <=> Precedes(m, e.put)
    BY <1>1, PrecedesKept
  <2>3. Deletes(m, e.log_group, e.put)'
    BY <1>2, <2>1, <2>2 DEF Deletes
  <2> QED
    BY <1>2, <2>1, <2>3
<1>3. CASE Listed(e)
  <2>1. PICK w \in Worker : DeleteGroups(w) /\ e.log_group = Req(w).log_group
    BY <1>3, ListedStep
  <2>2. pc[w] # "idle" /\ pc[w] = "delete_groups"
    BY <2>1 DEF DeleteGroups
  <2>3. PICK m \in 1..Len(history) : m = serving[w]
    BY <2>2, ServedNotOver
  <2>4. Deletes(m, e.log_group, e.put)
    BY <2>1, <2>2, <2>3, ServedNotOver DEF Deletes, EventInv, LabelInv
  <2>5. pc'[w] = "delete_events" /\ serving' = serving
    BY <2>1 DEF DeleteGroups, Goto, EventInv, TypeOK
  <2>6. HalfDeleted(m)'
    BY <2>3, <2>5 DEF HalfDeleted
  <2> QED
    BY <1>2, <2>4, <2>6
<1>4. CASE ~Listed(e)
  <2>1. PICK m \in 1..Len(history) :
          Deletes(m, e.log_group, e.put) /\ HalfDeleted(m)
    BY <1>1, <1>4 DEF OrphanInv
  <2>2. ASSUME NEW w \in Worker, Discards(w), serving[w] = m PROVE FALSE
    BY <2>1, <2>2 DEF Discards, DeleteEvents, Deletes, Req
  <2> QED
    BY <1>2, <2>1, <2>2, HalfDeletedStep
<1> QED
  BY <1>3, <1>4

\* An acknowledged DeleteLogGroup has removed the events of every request that
\* was over before it began, whatever else the pool threads were doing.
THEOREM DeletionComplete == Spec => []DeletedDiscarded
<1>1. Init => DiscardInv
  BY DEF Init, DiscardInv
<1>2. EventInv /\ DiscardInv => DeletedDiscarded
  <2> SUFFICES ASSUME EventInv, DiscardInv,
                      NEW m \in DOMAIN history, NEW e \in events,
                      history[m].req.op = "DeleteLogGroup",
                      history[m].req.log_group = e.log_group,
                      history[m].status = "ok"
               PROVE  ~Precedes(e.put, m)
    BY DEF DeletedDiscarded
  <2>1. m \in 1..Len(history)
    BY DEF EventInv, TypeOK
  <2>2. Decided(m, "ok")
    BY DEF Decided
  <2> QED
    BY <2>1, <2>2 DEF DiscardInv
<1> QED
  BY InitEventInv, NextEventInv, NextDiscardInv, <1>1, <1>2, PTL DEF Spec

\* An acknowledged PutLogEvents is still stored, or a DeleteLogGroup of its
\* group that was not over when it began has removed it: no failure, crash or
\* restart, and no other request, loses what was acknowledged.
THEOREM AcknowledgedDurable == Spec => []AcknowledgedKept
<1>1. Init => KeptInv
  BY DEF Init, KeptInv
<1>2. EventInv /\ KeptInv => AcknowledgedKept
  <2> SUFFICES ASSUME EventInv, KeptInv,
                      NEW n \in DOMAIN history,
                      history[n].req.op = "PutLogEvents",
                      history[n].req.batch # << >>,
                      history[n].status = "ok",
                      StoredOf(n) = {}
               PROVE  \E m \in DOMAIN history :
                        /\ history[m].req.op = "DeleteLogGroup"
                        /\ history[m].req.log_group = history[n].req.log_group
                        /\ history[m].status # "client_error"
                        /\ ~Precedes(m, n)
    BY DEF AcknowledgedKept
  <2>1. DOMAIN history = 1..Len(history)
    BY DEF EventInv, TypeOK
  <2>2. PICK m \in 1..Len(history) :
          /\ Deletes(m, history[n].req.log_group, n)
          /\ Decided(m, "ok") \/ history[m].status = "lost"
    BY <2>1 DEF KeptInv, Decided
  <2>3. history[m].status # "client_error"
    BY <2>2 DEF Decided, EventInv, ServingInv
  <2> QED
    BY <2>1, <2>2, <2>3 DEF Deletes
<1> QED
  BY InitEventInv, NextEventInv, NextKeptInv, <1>1, <1>2, PTL DEF Spec

\* With one listener, events outlive the rows of their group and stream only
\* behind a DeleteLogGroup that is between its statements, failed there or was
\* cut off there.
THEOREM OrphansOfDeletions ==
  ASSUME OneListener PROVE Spec => []OrphansExplained
<1>1. Init => OrphanInv
  BY DEF Init, OrphanInv
<1>2. CatalogInv /\ [Next]_vars => CatalogInv'
  BY NextCatalogInv
<1>3. EventInv /\ CatalogInv /\ OrphanInv /\ [Next]_vars => OrphanInv'
  BY NextOrphanInv DEF CatalogInv
<1>4. EventInv /\ OrphanInv => OrphansExplained
  <2> SUFFICES ASSUME EventInv, OrphanInv, NEW e \in events, ~Listed(e)
               PROVE  \E m \in DOMAIN history :
                        /\ history[m].req.op = "DeleteLogGroup"
                        /\ history[m].req.log_group = e.log_group
                        /\ history[m].status
                             \in {"pending", "server_error", "lost"}
                        /\ ~Precedes(m, e.put)
    BY DEF OrphansExplained, Listed
  <2>1. PICK m \in 1..Len(history) :
          Deletes(m, e.log_group, e.put) /\ HalfDeleted(m)
    BY DEF OrphanInv
  <2>2. history[m].status \in {"pending", "server_error", "lost"}
    BY <2>1 DEF HalfDeleted, Decided, EventInv, ServingInv
  <2>3. DOMAIN history = 1..Len(history)
    BY DEF EventInv, TypeOK
  <2> QED
    BY <2>1, <2>2, <2>3 DEF Deletes
<1> QED
  BY InitCatalogInv, InitEventInv, NextEventInv, <1>1, <1>2, <1>3, <1>4, PTL
  DEF Spec

=============================================================================
