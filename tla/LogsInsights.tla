---------------------------- MODULE LogsInsights ----------------------------
(***************************************************************************)
(* RunInsightsQuery (src/src/logs_insights.cpp): a statement starts a      *)
(* CloudWatch Logs Insights query, polls it until it is complete, and is   *)
(* to stop it when it gives up, since the service bills for what it scans. *)
(*                                                                         *)
(* A call of the client is one step: it throws when the statement is       *)
(* interrupted (the first test of PostInternal), and otherwise reaches the *)
(* service, is refused, or fails with or without having had its effect.    *)
(* StartQuery has its effect at most once: CloudwatchClient shows why.     *)
(***************************************************************************)

VARIABLES
  pc,          \* where RunInsightsQuery is
  error,       \* the exception to throw once StopQuery is done
  query_id,    \* whether StartQuery returned the id of the query
  status,      \* results.status
  outcome,     \* how the call ended
  interrupted, \* context.interrupted
  late,        \* NowMs() >= deadline
  query,       \* the query at the service
  stop         \* what became of StopQuery

caller == <<pc, error, query_id, status, outcome>>
insights_vars == <<caller, interrupted, late, query, stop>>

Pc       == {"start", "poll", "decide", "stop", "sleep", "done"}
Errors   == {"interrupted", "failed", "timed_out"}
Outcomes == Errors \cup {"none", "rows"}

\* CloudwatchInsightsStatus; the query itself is never Unknown, but the service
\* or the parser may say so.
Live     == {"Scheduled", "Running"}
Statuses == Live \cup {"Complete", "Failed", "Cancelled", "Timeout"}

InsightsInit ==
  /\ pc = "start"
  /\ error = "failed"
  /\ query_id = FALSE
  /\ status = "Scheduled"
  /\ outcome = "none"
  /\ interrupted = FALSE
  /\ late = FALSE
  /\ query = "none"
  /\ stop = "unsent"

----------------------------------------------------------------------------
(* RunInsightsQuery.                                                       *)

End(result) ==
  /\ pc' = "done"
  /\ outcome' = result
  /\ UNCHANGED <<error, query_id, status>>

Goto(label) ==
  /\ pc' = label
  /\ UNCHANGED <<error, query_id, status, outcome>>

\* StopQuery, best effort, then the exception e.
StopAndThrow(e) ==
  /\ pc' = "stop"
  /\ error' = e
  /\ UNCHANGED <<query_id, status, outcome>>

\* StartQuery.  When its answer is lost there is no id to stop the query by.
Start ==
  /\ pc = "start"
  /\ \/ interrupted /\ End("interrupted") /\ UNCHANGED query
     \/ End("failed") /\ UNCHANGED query
     \/ /\ ~interrupted
        /\ query' = "Scheduled"
        /\ \/ End("failed")
           \/ /\ pc' = "poll"
              /\ query_id' = TRUE
              /\ UNCHANGED <<error, status, outcome>>
  /\ UNCHANGED <<interrupted, late, stop>>

\* Mutant: GetQueryResults fails outside the try block.
PollUncaught ==
  /\ pc = "poll"
  /\ \/ interrupted /\ End("interrupted")
     \/ End("failed")
     \/ /\ ~interrupted
        /\ pc' = "decide"
        /\ status' \in {query, "Unknown"}
        /\ UNCHANGED <<error, query_id, outcome>>
  /\ UNCHANGED <<interrupted, late, query, stop>>

\* GetQueryResults, inside the try block: it fails for good, throws because of
\* an interrupt before or between its requests, or brings a status.
Poll ==
  /\ pc = "poll"
  /\ \/ interrupted /\ StopAndThrow("interrupted")
     \/ StopAndThrow("failed")
     \/ /\ ~interrupted
        /\ pc' = "decide"
        /\ status' \in {query, "Unknown"}
        /\ UNCHANGED <<error, query_id, outcome>>
  /\ UNCHANGED <<interrupted, late, query, stop>>

\* Mutant: when the time is up, the rows so far are the result.
DecidePartial ==
  /\ pc = "decide"
  /\ \/ status = "Complete" /\ End("rows")
     \/ status \notin Live \cup {"Complete"} /\ End("failed")
     \/ status \in Live /\ late /\ End("rows")
     \/ status \in Live /\ ~late /\ Goto("sleep")
  /\ UNCHANGED <<interrupted, late, query, stop>>

\* Mutant: the deadline is not looked at.
DecideForever ==
  /\ pc = "decide"
  /\ \/ status = "Complete" /\ End("rows")
     \/ status \notin Live \cup {"Complete"} /\ End("failed")
     \/ status \in Live /\ Goto("sleep")
  /\ UNCHANGED <<interrupted, late, query, stop>>

\* What the status says: the rows, an error, giving up, or another wait.
Decide ==
  /\ pc = "decide"
  /\ \/ status = "Complete" /\ End("rows")
     \/ status \notin Live \cup {"Complete"} /\ End("failed")
     \/ status \in Live /\ late /\ StopAndThrow("timed_out")
     \/ status \in Live /\ ~late /\ Goto("sleep")
  /\ UNCHANGED <<interrupted, late, query, stop>>

\* Mutant: what StopQuery throws is reported in place of the error at hand.
StopMasks ==
  /\ pc = "stop"
  /\ \/ interrupted /\ End("none") /\ UNCHANGED <<query, stop>>
     \/ ~interrupted /\ End("none") /\ stop' = "lost" /\ UNCHANGED query
     \/ /\ ~interrupted
        /\ End(error)
        /\ stop' = "received"
        /\ query' = IF query \in Live THEN "Cancelled" ELSE query
  /\ UNCHANGED <<interrupted, late>>

\* StopQuery; what it throws is swallowed.
Stop ==
  /\ pc = "stop"
  /\ End(error)
  /\ \/ interrupted /\ UNCHANGED <<query, stop>>
     \/ ~interrupted /\ stop' = "lost" /\ UNCHANGED query
     \/ /\ ~interrupted
        /\ stop' = "received"
        /\ query' = IF query \in Live THEN "Cancelled" ELSE query
  /\ UNCHANGED <<interrupted, late>>

\* SleepCheckingInterrupt throws outside the try block; an interrupt after its
\* last look at the flag does not end it.
Sleep ==
  /\ pc = "sleep"
  /\ \/ interrupted /\ End("interrupted")
     \/ Goto("poll")
  /\ UNCHANGED <<interrupted, late, query, stop>>

----------------------------------------------------------------------------
(* Everything else.                                                        *)

Interrupt ==
  /\ pc # "done" /\ ~interrupted
  /\ interrupted' = TRUE
  /\ UNCHANGED <<caller, late, query, stop>>

\* max_wait has gone by since StartQuery returned.
DeadlinePasses ==
  /\ pc \notin {"start", "done"} /\ ~late
  /\ late' = TRUE
  /\ UNCHANGED <<caller, interrupted, query, stop>>

\* The service runs the query; somebody else may cancel it.
QueryAdvances ==
  /\ query \in Live
  /\ query' \in Statuses \ {"Scheduled", query}
  /\ UNCHANGED <<caller, interrupted, late, stop>>

Progress == Start \/ Poll \/ Decide \/ Stop \/ Sleep

InsightsNext == Progress \/ Interrupt \/ DeadlinePasses \/ QueryAdvances

InsightsSpec == InsightsInit /\ [][InsightsNext]_insights_vars

\* The statement's thread runs, its calls and sleeps end (CallsEnd of
\* CloudwatchClient), and the clock moves on.  Nothing is asked of the service.
FairSpec == InsightsSpec /\ WF_insights_vars(Progress) /\ WF_insights_vars(DeadlinePasses)

----------------------------------------------------------------------------
(* Properties.                                                             *)

\* Types; the call is over exactly when it has an outcome, and from the first
\* poll on the query exists and its id is known.
InsightsTypeOK ==
  /\ pc \in Pc
  /\ error \in Errors
  /\ query_id \in BOOLEAN
  /\ status \in Statuses \cup {"Unknown"}
  /\ outcome \in Outcomes
  /\ interrupted \in BOOLEAN
  /\ late \in BOOLEAN
  /\ query \in Statuses \cup {"none"}
  /\ stop \in {"unsent", "lost", "received"}
  /\ pc = "done" <=> outcome # "none"
  /\ query_id => query # "none"
  /\ pc \notin {"start", "done"} => query_id

\* The call is over and the service still scans, and bills, for it.
Abandoned == pc = "done" /\ query \in Live

\* RunInsightsQuery abandons a query only after an interrupt, when StopQuery
\* was sent and lost, when StartQuery's answer was, or on a status it does not
\* know: never on a failed poll or a timeout it could report to the service.
AbandonedExplained ==
  Abandoned =>
    interrupted \/ stop = "lost" \/ ~query_id \/ status = "Unknown"

\* Rows are only returned of a query that ran to its end, however the query,
\* the deadline and the interrupt overtake one another.
RowsComplete == outcome = "rows" => query = "Complete"

\* RunInsightsQuery ends, even when the service never finishes the query.
StatementEnds == <>(pc = "done")

\* "If the query is interrupted or exceeds `max_wait`, `StopQuery` is called so
\* the scan stops being billed" (README.md:263).
InterruptStops ==
  Abandoned /\ outcome = "interrupted" /\ query_id => stop # "unsent"

=============================================================================
