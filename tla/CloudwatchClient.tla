-------------------------- MODULE CloudwatchClient --------------------------
(***************************************************************************)
(* CloudwatchClient::PostInternal (src/src/cloudwatch_client.cpp): the loop *)
(* that signs and sends one AWS call, classifies what came back, refreshes *)
(* expired credentials once, and retries with a back-off.  Calls run side  *)
(* by side; those that write share one client object and its write_mutex.  *)
(*                                                                         *)
(* The network may lose a request or its answer, and may still deliver a   *)
(* request the client has given up on.  The service is external: it        *)
(* carries a request out or refuses it, and may answer 500 in either case. *)
(***************************************************************************)
EXTENDS Naturals

CONSTANTS
  Call,         \* the calls a program makes, one PostInternal each
  Write,        \* those made under write_mutex
  Idempotent,   \* those with CloudwatchRetryPolicy.idempotent
  LimitRetried, \* those with CloudwatchRetryPolicy.retry_on_limit_exceeded
  Retries,      \* the client's `retries' setting
  NoCall        \* the owner of a free write_mutex

ASSUME CallAssumption ==
  /\ Write \subseteq Call /\ Idempotent \subseteq Call
  /\ LimitRetried \subseteq Call
  /\ NoCall \notin Call

ASSUME RetriesAssumption == Retries \in Nat

VARIABLES
  pc,           \* where PostInternal is
  attempt,      \* its loop counter
  refreshed,    \* refreshed_credentials
  outcome,      \* how the call ended
  interrupted,  \* context.interrupted, of the statement that makes the calls
  write_mutex,  \* the call that holds it
  wire,         \* requests on their way to the service
  answer,       \* the response on a call's connection, if any
  executed      \* how often the service carried the call out

client == <<pc, attempt, refreshed, outcome, write_mutex>>
network == <<wire, answer, executed>>
vars == <<client, interrupted, network>>

Pc == {"idle", "loop", "wait", "sleep", "done"}

\* Answers that prove the service did nothing: throttling, the limit on
\* concurrent queries, expired credentials, any other 4xx.
Rejections == {"throttled", "limit", "expired", "client_error"}
Statuses   == Rejections \cup {"success", "server_error"}
Outcomes   == {"none", "ok", "rejected", "failed", "interrupted"}

\* How a request fails without an answer: before anything was sent, in the TLS
\* handshake, or after it was sent.
PreSend == {"connection", "certificate"}

Request == [call: Call, attempt: Nat]

Init ==
  /\ pc = [c \in Call |-> "idle"]
  /\ attempt = [c \in Call |-> 0]
  /\ refreshed = [c \in Call |-> FALSE]
  /\ outcome = [c \in Call |-> "none"]
  /\ interrupted = FALSE
  /\ write_mutex = NoCall
  /\ wire = {}
  /\ answer = [c \in Call |-> "none"]
  /\ executed = [c \in Call |-> 0]

----------------------------------------------------------------------------
(* PostInternal.                                                           *)

\* Mutant: the call ends without saying how.
EndSilently(c, result) ==
  /\ pc' = [pc EXCEPT ![c] = "done"]
  /\ write_mutex' = IF c \in Write THEN NoCall ELSE write_mutex
  /\ UNCHANGED <<attempt, refreshed, outcome>>

\* Mutant: an interrupt leaves write_mutex locked.
EndLeaksMutex(c, result) ==
  /\ pc' = [pc EXCEPT ![c] = "done"]
  /\ outcome' = [outcome EXCEPT ![c] = result]
  /\ write_mutex' = IF c \in Write /\ result # "interrupted"
                    THEN NoCall ELSE write_mutex
  /\ UNCHANGED <<attempt, refreshed>>

\* A return or an exception; the lock_guard of a write gives write_mutex back.
End(c, result) ==
  /\ pc' = [pc EXCEPT ![c] = "done"]
  /\ outcome' = [outcome EXCEPT ![c] = result]
  /\ write_mutex' = IF c \in Write THEN NoCall ELSE write_mutex
  /\ UNCHANGED <<attempt, refreshed>>

Goto(c, label) ==
  /\ pc' = [pc EXCEPT ![c] = label]
  /\ UNCHANGED <<attempt, refreshed, outcome, write_mutex>>

\* Mutant: only calls that are not idempotent wait for write_mutex.
BeginUnlocked(c) ==
  /\ pc[c] = "idle"
  /\ c \in Write \ Idempotent => write_mutex = NoCall
  /\ write_mutex' = IF c \in Write THEN c ELSE write_mutex
  /\ pc' = [pc EXCEPT ![c] = "loop"]
  /\ UNCHANGED <<attempt, refreshed, outcome, interrupted, network>>

\* The lock_guard of a write, then the first turn of the loop.
Begin(c) ==
  /\ pc[c] = "idle"
  /\ c \in Write => write_mutex = NoCall
  /\ write_mutex' = IF c \in Write THEN c ELSE write_mutex
  /\ pc' = [pc EXCEPT ![c] = "loop"]
  /\ UNCHANGED <<attempt, refreshed, outcome, interrupted, network>>

\* Mutant: any failure of the transport may be retried.
SafeRetryAlways(c, failure) == failure # "certificate"

\* safe_retry: an idempotent call retries all but certificate failures, any
\* other call only those that sent nothing.
SafeRetry(c, failure) ==
  IF c \in Idempotent THEN failure # "certificate" ELSE failure = "connection"

\* Mutant: a request whose answer was lost counts as refused.
TransportRejects(c, failure) ==
  /\ answer' = [answer EXCEPT ![c] = "none"]
  /\ IF attempt[c] >= Retries \/ ~SafeRetry(c, failure)
     THEN End(c, "rejected") ELSE Goto(c, "sleep")

\* There is no response; connection.reset() gives up on a later one.
TransportFails(c, failure) ==
  /\ answer' = [answer EXCEPT ![c] = "none"]
  /\ IF attempt[c] >= Retries \/ ~SafeRetry(c, failure)
     THEN End(c, "failed") ELSE Goto(c, "sleep")

\* The top of the loop: the interrupt check, then sign and send.
Send(c) ==
  /\ pc[c] = "loop"
  /\ \/ /\ interrupted
        /\ End(c, "interrupted")
        /\ UNCHANGED <<wire, answer>>
     \/ /\ ~interrupted
        /\ wire' = wire \cup {[call |-> c, attempt |-> attempt[c]]}
        /\ Goto(c, "wait")
        /\ UNCHANGED answer
     \/ /\ ~interrupted
        /\ \E failure \in PreSend : TransportFails(c, failure)
        /\ UNCHANGED wire
  /\ UNCHANGED <<interrupted, executed>>

\* The response does not come: a read error, a reset, or the timeout.  The
\* request may be lost, being served, or still to be delivered.
LoseAnswer(c) ==
  /\ pc[c] = "wait"
  /\ TransportFails(c, "read")
  /\ UNCHANGED <<interrupted, wire, executed>>

\* Mutant: a call that is not idempotent is retried after a 500.
RetryableResponseToo(c, status) ==
  \/ status = "throttled"
  \/ status = "limit" /\ c \in LimitRetried
  \/ status = "server_error"

\* retryable_response: IsRetryableStatus or IsDefinitelyRejectedThrottle.
RetryableResponse(c, status) ==
  \/ status = "throttled"
  \/ status = "limit" /\ c \in LimitRetried
  \/ status = "server_error" /\ c \in Idempotent

\* Mutant: the credentials are refreshed as often as they are refused.
RefreshAgain(c) ==
  /\ attempt' = [attempt EXCEPT ![c] = @ + 1]
  /\ pc' = [pc EXCEPT ![c] = "loop"]
  /\ UNCHANGED <<refreshed, outcome, write_mutex>>

\* `continue': the next turn of the loop without a sleep, whatever `retries'.
Refresh(c) ==
  /\ attempt' = [attempt EXCEPT ![c] = @ + 1]
  /\ refreshed' = [refreshed EXCEPT ![c] = TRUE]
  /\ pc' = [pc EXCEPT ![c] = "loop"]
  /\ UNCHANGED <<outcome, write_mutex>>

Classify(c, status) ==
  \/ status = "success" /\ End(c, "ok")
  \/ /\ status = "expired" /\ ~refreshed[c]
     /\ Refresh(c) \/ End(c, "failed")
  \/ /\ status # "success"
     /\ status = "expired" => refreshed[c]
     /\ IF attempt[c] >= Retries \/ ~RetryableResponse(c, status)
        THEN End(c, IF status = "server_error" THEN "failed" ELSE "rejected")
        ELSE Goto(c, "sleep")

Receive(c) ==
  /\ pc[c] = "wait"
  /\ answer[c] # "none"
  /\ answer' = [answer EXCEPT ![c] = "none"]
  /\ Classify(c, answer[c])
  /\ UNCHANGED <<interrupted, wire, executed>>

\* SleepCheckingInterrupt(RetryDelay(attempt)), then attempt++.
Wake(c) ==
  /\ pc[c] = "sleep"
  /\ \/ interrupted /\ End(c, "interrupted")
     \/ /\ attempt' = [attempt EXCEPT ![c] = @ + 1]
        /\ pc' = [pc EXCEPT ![c] = "loop"]
        /\ UNCHANGED <<refreshed, outcome, write_mutex>>
  /\ UNCHANGED <<interrupted, network>>

----------------------------------------------------------------------------
(* Everything else.                                                        *)

Interrupt ==
  /\ ~interrupted
  /\ interrupted' = TRUE
  /\ UNCHANGED <<client, network>>

\* The client reads the answer of a request only while it waits for it.
Answer(m, status) ==
  answer' = IF pc[m.call] = "wait" /\ attempt[m.call] = m.attempt
            THEN [answer EXCEPT ![m.call] = status] ELSE answer

\* The service carries a request out, and may answer 500 all the same.
Execute(m) ==
  /\ wire' = wire \ {m}
  /\ executed' = [executed EXCEPT ![m.call] = @ + 1]
  /\ \E status \in {"success", "server_error"} : Answer(m, status)
  /\ UNCHANGED <<client, interrupted>>

\* The service refuses a request, or fails without a trace.
Refuse(m) ==
  /\ wire' = wire \ {m}
  /\ \E status \in Rejections \cup {"server_error"} : Answer(m, status)
  /\ UNCHANGED <<client, interrupted, executed>>

LoseRequest(m) ==
  /\ wire' = wire \ {m}
  /\ UNCHANGED <<client, interrupted, answer, executed>>

Progress(c) == Begin(c) \/ Send(c) \/ LoseAnswer(c) \/ Receive(c) \/ Wake(c)

\* Every call has ended and no request is left to serve.
Quiet ==
  /\ \A c \in Call : pc[c] = "done"
  /\ UNCHANGED vars

Next ==
  \/ \E c \in Call : Progress(c)
  \/ \E m \in wire : Execute(m) \/ Refuse(m) \/ LoseRequest(m)
  \/ Interrupt
  \/ Quiet

Spec == Init /\ [][Next]_vars

\* A thread in PostInternal runs on, and its waits end (set_read_timeout and the
\* back-off).  The mutex need not be fair: each call takes it once, so a thread
\* that waits for it finds it free for good after the others.
FairSpec == Spec /\ \A c \in Call : WF_vars(Progress(c))

----------------------------------------------------------------------------
(* Properties.                                                             *)

\* Types, with the bound on the loop counter: a call sends at most Retries + 1
\* requests, and one more when it has refreshed its credentials.
TypeOK ==
  /\ pc \in [Call -> Pc]
  /\ attempt \in [Call -> Nat]
  /\ refreshed \in [Call -> BOOLEAN]
  /\ outcome \in [Call -> Outcomes]
  /\ interrupted \in BOOLEAN
  /\ write_mutex \in Write \cup {NoCall}
  /\ wire \subseteq Request
  /\ answer \in [Call -> Statuses \cup {"none"}]
  /\ executed \in [Call -> Nat]
  /\ \A c \in Call : pc[c] = "done" <=> outcome[c] # "none"

\* The refresh of expired credentials is not counted against `retries' and
\* bypasses its check, yet the loop stays bounded: Retries + 1 requests, and one
\* more when the credentials were refreshed.
RequestsBounded ==
  \A c \in Call :
    attempt[c] <= IF refreshed[c] THEN Retries + 1 ELSE Retries

\* "Not idempotent: ... a retry after a response we never saw would double-count
\* the datums" (cloudwatch_client.cpp:492): however answers are lost and
\* requests delayed, PutLogEvents, PutMetricData and StartQuery are carried out
\* at most once.
AtMostOnce == \A c \in Call \ Idempotent : executed[c] <= 1

\* A call that is not idempotent ends with the truth: reported as refused, it
\* was not carried out by any of its requests, nor will be by one still on its
\* way; reported as done, it was done once and nothing is left to do it again.
OutcomeTruthful ==
  \A c \in Call \ Idempotent :
    outcome[c] \in {"ok", "rejected"}
      => /\ executed[c] = IF outcome[c] = "ok" THEN 1 ELSE 0
         /\ \A m \in wire : m.call # c

\* "writes through this client are serialized" (cloudwatch_client.hpp:89): the
\* transport object is never used by two writes, not even while one sleeps.
WritesSerialized ==
  \A c, d \in Write :
    pc[c] \in {"loop", "wait", "sleep"} /\ pc[d] \in {"loop", "wait", "sleep"}
      => c = d

\* The callers' view: RemoteCall is what PostInternal amounts to, with the calls
\* that are not idempotent as those that may not be repeated.
Promise == INSTANCE RemoteCall WITH Once <- Call \ Idempotent

\* PostInternal implements RemoteCall: whatever is lost, delayed, refused or
\* retried, each of its steps takes effect at most where RemoteCall allows it,
\* and each of its answers is one RemoteCall could give at that moment.
ImplementsRemoteCall == Promise!Spec

\* Every call ends, those that wait for write_mutex included.
CallsEnd == \A c \in Call : <>(pc[c] = "done")

=============================================================================
