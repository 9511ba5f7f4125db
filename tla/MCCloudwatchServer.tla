------------------------- MODULE MCCloudwatchServer -------------------------
(* Small instances of CloudwatchServer: one group and one stream, since every *)
(* statement selects by group, and requests that meet on them.                *)
EXTENDS CloudwatchServer

CONSTANTS w1, w2, s1, g1, st1, d1

OneServer == [w \in Worker |-> s1]

RequestOf(op, batch) ==
  [op |-> op, log_group |-> g1, log_stream |-> st1, batch |-> batch, days |-> d1]

Put(batch) == RequestOf("PutLogEvents", batch)

\* Every operation, a batch of two events with equal timestamps, batches with
\* a malformed item, and an empty one.
AllRequests ==
  {RequestOf(op, << >>) : op \in {"CreateLogGroup", "DeleteLogGroup",
     "CreateLogStream", "PutRetentionPolicy", "FilterLogEvents", "PutMetricData"}}
  \cup {Put(<<1, 1>>), Put(<<1, Malformed>>), RequestOf("PutMetricData", <<1>>)}

\* The operations that change the log tables.
LogRequests ==
  {RequestOf(op, << >>) : op \in {"CreateLogGroup", "DeleteLogGroup",
     "CreateLogStream"}} \cup {Put(<<1, 1>>)}

\* A third request only where all three change the log tables.
LongMix ==
  Len(history) > 2 => \A n \in DOMAIN history : history[n].req \in LogRequests

\* Threads are alike: when both are free, the first takes the request.
FirstFree == pc[w2] = "idle" /\ pc'[w2] # "idle" => pc[w1] # "idle"

MCSpec == Init /\ [][Next /\ LongMix' /\ FirstFree]_vars
               /\ \A w \in Worker : WF_vars(Serve(w))

\* Puts that race with the creation and deletion of their group.
PutDelete == {Put(<<1>>), RequestOf("DeleteLogGroup", << >>)}
=============================================================================
