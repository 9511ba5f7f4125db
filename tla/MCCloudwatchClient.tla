------------------------- MODULE MCCloudwatchClient -------------------------
(* One call of each retry policy: PutLogEvents (a write that is not idempotent), *)
(* StartQuery (not idempotent, LimitExceeded retried), and CreateLogGroup (an   *)
(* idempotent write).                                                           *)
EXTENDS CloudwatchClient

CONSTANTS put, start, create

\* StartQuery shares neither connection nor mutex with the writes: it begins when
\* they are done, with their delayed requests still on their way.
QueryLast == pc[start] # "idle" => \A c \in Write : pc[c] = "done"

MCSpec == Init /\ [][Next /\ QueryLast']_vars
               /\ \A c \in Call : WF_vars(Progress(c) /\ QueryLast')

=============================================================================
