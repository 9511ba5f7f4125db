--------------------------- MODULE LogGroupAdmin ---------------------------
(***************************************************************************)
(* The administration functions (src/src/log_group_admin.cpp): a statement *)
(* checks its arguments, makes one AWS call through PostInternal and turns *)
(* the answer into a word.  The calls are idempotent to PostInternal, so a *)
(* request that was carried out and not answered is sent again, and what   *)
(* the service answers then is about the first one's effect.               *)
(*                                                                         *)
(* Statements of several sessions run side by side on one group and one    *)
(* stream in it; each has a client of its own, so no write_mutex is shared. *)
(***************************************************************************)
EXTENDS Naturals

CONSTANTS
  Call,     \* the statements, one call each
  Retries,  \* the client's `retries' setting
  NoCall    \* the owner of a free write_mutex

Ops == {"CreateLogGroup", "DeleteLogGroup", "CreateLogStream",
        "PutRetentionPolicy"}

VARIABLES
  pc, attempt, refreshed, outcome, interrupted, write_mutex,
  wire, answer, executed,
  op,          \* the function a statement calls
  store,       \* the service: what there is of the group
  error_body,  \* the error code in the answer a statement reads next
  said,        \* what the statement returned
  seen         \* observer: every state of the store while it ran

client == <<pc, attempt, refreshed, outcome, interrupted, write_mutex,
            wire, answer, executed>>
vars == <<client, op, store, error_body, said, seen>>

Client == INSTANCE CloudwatchClient
  WITH Write <- {}, Idempotent <- Call, LimitRetried <- {}

Store == [group: BOOLEAN, stream: BOOLEAN, retention: BOOLEAN]
Absent == [group |-> FALSE, stream |-> FALSE, retention |-> FALSE]

Init ==
  /\ Client!Init
  /\ op \in [Call -> Ops]
  /\ store \in {Absent, [Absent EXCEPT !.group = TRUE]}
  /\ error_body = [c \in Call |-> "none"]
  /\ said = [c \in Call |-> "none"]
  /\ seen = [c \in Call |-> {}]

----------------------------------------------------------------------------
(* The service.                                                            *)

There(o, s) == IF o = "CreateLogStream" THEN s.stream ELSE s.group

Creating == {"CreateLogGroup", "CreateLogStream"}

\* An operation inside the group needs the group.
Applies(o, s) ==
  /\ o # "CreateLogGroup" => s.group
  /\ o \in Creating => ~There(o, s)

Applied(o, s) ==
  CASE o = "CreateLogGroup"     -> [s EXCEPT !.group = TRUE]
    [] o = "DeleteLogGroup"     -> Absent
    [] o = "CreateLogStream"    -> [s EXCEPT !.stream = TRUE]
    [] o = "PutRetentionPolicy" -> [s EXCEPT !.retention = TRUE]

\* ResourceAlreadyExistsException and ResourceNotFoundException.
ErrorOf(o, s) == IF o \in Creating /\ There(o, s) THEN "exists" ELSE "not_found"

\* The answer's body, if the client still waits for this request.
Body(m, code) ==
  error_body' = IF pc[m.call] = "wait" /\ attempt[m.call] = m.attempt
                THEN [error_body EXCEPT ![m.call] = code] ELSE error_body

Running(c) == pc[c] \notin {"idle", "done"}

Apply(m) ==
  /\ Applies(op[m.call], store)
  /\ Client!Execute(m)
  /\ store' = Applied(op[m.call], store)
  /\ seen' = [c \in Call |-> IF Running(c) THEN seen[c] \cup {store'} ELSE seen[c]]
  /\ Body(m, "other")
  /\ UNCHANGED <<op, said>>

\* Throttled, expired, denied, over a limit, failed; or the operation does not
\* apply and the answer says why.
Refuse(m) ==
  /\ Client!Refuse(m)
  /\ \/ Body(m, "other")
     \/ /\ ~Applies(op[m.call], store)
        /\ answer'[m.call] \in {answer[m.call], "client_error"}
        /\ Body(m, ErrorOf(op[m.call], store))
  /\ UNCHANGED <<op, store, said, seen>>

Lose(m) ==
  /\ Client!LoseRequest(m)
  /\ UNCHANGED <<op, store, error_body, said, seen>>

----------------------------------------------------------------------------
(* The statement.                                                          *)

\* ValidateLogGroupName, ValidateLogStreamName and the retention period: nothing
\* is sent.
RefuseArguments(c) ==
  /\ pc[c] = "idle" /\ said[c] = "none"
  /\ said' = [said EXCEPT ![c] = "invalid"]
  /\ UNCHANGED <<client, op, store, error_body, seen>>

Begin(c) ==
  /\ said[c] = "none"
  /\ Client!Begin(c)
  /\ seen' = [seen EXCEPT ![c] = {store}]
  /\ UNCHANGED <<op, store, error_body, said>>

\* Each function's success_outcome, tolerated_exception and tolerated_outcome.
Word(o) ==
  CASE o \in Creating           -> [done |-> "created", tolerated |-> "exists", say |-> "exists"]
    [] o = "DeleteLogGroup"     -> [done |-> "deleted", tolerated |-> "not_found", say |-> "absent"]
    [] o = "PutRetentionPolicy" -> [done |-> "ok", tolerated |-> "nullptr", say |-> "nullptr"]

\* Mutant: any refusal counts as the tolerated one.
RunAdminCallTolerant(c, result) ==
  IF result = "ok" THEN Word(op[c]).done
  ELSE IF result = "rejected" /\ op[c] # "PutRetentionPolicy"
       THEN Word(op[c]).say ELSE "error"

\* RunAdminCall, given how PostInternal ended with the answer just read.
RunAdminCall(c, result) ==
  IF result = "ok" THEN Word(op[c]).done
  ELSE IF error_body[c] = Word(op[c]).tolerated
       THEN Word(op[c]).say ELSE "error"

Receive(c) ==
  /\ Client!Receive(c)
  /\ said' = IF outcome'[c] = "none" THEN said
             ELSE [said EXCEPT ![c] = RunAdminCall(c, outcome'[c])]
  /\ UNCHANGED <<op, store, error_body, seen>>

\* The steps of PostInternal that read no answer; one that ends it throws.
Proceed(c) ==
  /\ Client!Send(c) \/ Client!LoseAnswer(c) \/ Client!Wake(c)
  /\ said' = IF outcome'[c] = "none" THEN said
             ELSE [said EXCEPT ![c] = "error"]
  /\ UNCHANGED <<op, store, error_body, seen>>

Interrupt ==
  /\ Client!Interrupt
  /\ UNCHANGED <<op, store, error_body, said, seen>>

Ended ==
  /\ \A c \in Call : said[c] # "none"
  /\ UNCHANGED vars

Next ==
  \/ \E c \in Call : RefuseArguments(c) \/ Begin(c) \/ Receive(c) \/ Proceed(c)
  \/ \E m \in wire : Apply(m) \/ Refuse(m) \/ Lose(m)
  \/ Interrupt
  \/ Ended

Spec == Init /\ [][Next]_vars

----------------------------------------------------------------------------
(* Properties.                                                             *)

\* While the statement ran there was a moment at which its target was, or was not.
Moment(c, there) == \E s \in seen[c] : There(op[c], s) = there

\* "mapping the AWS `already exists'/`not found' errors onto an outcome string
\* so the SQL surface is idempotent" (log_group_admin.cpp:128): whatever was lost
\* and sent again, the word a statement returns was true while it ran.  It says
\* created or deleted only if it was, by one of its own requests, and exists or
\* absent only if the target was so at some moment between its start and its
\* end, if only because its own first request had made it so.
AnswersExplained ==
  \A c \in Call :
    /\ said[c] \in {"created", "deleted", "ok"} => executed[c] > 0
    /\ said[c] \in {"created", "exists"} => Moment(c, TRUE)
    /\ said[c] \in {"deleted", "absent"} => Moment(c, FALSE)
    /\ said[c] = "invalid" => executed[c] = 0

=============================================================================
