----------------------------- MODULE AlarmScan -----------------------------
(***************************************************************************)
(* The catalog table alerts.open (src/src/alerts_table.cpp): DescribeAlarms *)
(* is swept once for ALARM and once for INSUFFICIENT_DATA, page by page,   *)
(* while alarms change state.  An alarm is a position in the order the     *)
(* service lists them in; a token is the position a page ended at.         *)
(***************************************************************************)
EXTENDS Selections

CONSTANTS
  Alarms,        \* the account's alarms: [container, arn, name, type], "" if absent
  AlarmPageSize, \* rows of a page
  ChunkSize,     \* STANDARD_VECTOR_SIZE
  MaxMoves       \* bound on the changes of state

\* The members of a DescribeAlarms response that hold alarms.
Containers == {"MetricAlarms", "CompositeAlarms", "LogAlarms"}

AlarmAssumption ==
  /\ Alarms \in Seq([container : Containers, arn : STRING, name : STRING, type : STRING])
  /\ AlarmPageSize \in Nat \ {0} /\ ChunkSize \in Nat \ {0} /\ MaxMoves \in Nat

VARIABLES
  condition,   \* the service: the state of each alarm
  service,     \* how it answers: see Services
  moves,       \* changes of state, against MaxMoves
  state_index, \* AlertsGlobalState.state_index
  token,       \* its next_token; 0 if empty
  seen,        \* its seen, the keys of the rows so far
  seen_tokens, \* its seen_page_tokens
  rows,        \* its buffer
  given,       \* the rows given to DuckDB
  done,        \* its finished
  open,        \* observer: the alarms that were not OK at the start
  strayed      \* observer: those that changed since, but for ALARM to INSUFFICIENT_DATA

account == <<condition, service, moves>>
position == <<state_index, token, seen, seen_tokens>>
vars == <<account, position, rows, given, done, open, strayed>>

Alarm == DOMAIN Alarms
Conditions == {"OK", "ALARM", "INSUFFICIENT_DATA"}

\* A service that pages as asked, one that ignores StateValue, and one whose
\* last page names a token again.
Services == {"exact", "unfiltered", "looping"}

Init ==
  /\ condition \in [Alarm -> Conditions] /\ service \in Services /\ moves = 0
  /\ state_index = 0 /\ token = 0 /\ seen = {} /\ seen_tokens = {}
  /\ rows = << >> /\ given = << >> /\ done = FALSE
  /\ open = {a \in Alarm : condition[a] # "OK"} /\ strayed = {}

----------------------------------------------------------------------------
(* The service.                                                            *)

BuildDescribeAlarmsRequest(state, next) == [StateValue |-> state, NextToken |-> next]

DescribeAlarms(request) ==
  LET from == request.NextToken
      listed == {a \in Alarm : /\ a > from
                               /\ service = "unfiltered" \/ condition[a] = request.StateValue}
      page == {a \in listed : Cardinality({b \in listed : b <= a}) <= AlarmPageSize}
      last == IF page = {} THEN from ELSE Max(page)
      more == IF page # listed THEN {last}
              ELSE IF service = "looping" THEN Alarm ELSE {0}
  IN {[members |-> {[alarm |-> a, status |-> condition[a]] : a \in page},
       token |-> t] : t \in more}

ChangeState(a, to) ==
  /\ moves < MaxMoves /\ to # condition[a]
  /\ moves' = moves + 1
  /\ condition' = [condition EXCEPT ![a] = to]
  /\ strayed' = IF condition[a] = "ALARM" /\ to = "INSUFFICIENT_DATA"
                THEN strayed ELSE strayed \cup {a}
  /\ UNCHANGED <<service, position, rows, given, done, open>>

----------------------------------------------------------------------------
(* The scan.                                                               *)

\* Mutant: the sweeps in the other order.
StatesReversed == <<"INSUFFICIENT_DATA", "ALARM">>

States == <<"ALARM", "INSUFFICIENT_DATA">>

DefaultType(container) ==
  CASE container = "MetricAlarms"    -> "MetricAlarm"
    [] container = "CompositeAlarms" -> "CompositeAlarm"
    [] OTHER                         -> "LogAlarm"

\* ParseAlarm, as far as rows are told apart.
ParseAlarm(member) ==
  LET a == Alarms[member.alarm]
  IN [alarm_arn |-> a.arn, alarm_name |-> a.name, status |-> member.status,
      alarm_type |-> IF a.type = "" THEN DefaultType(a.container) ELSE a.type]

\* A container after another, the rows in the expected state only.
ParseDescribeAlarmsResponse(response, expected) ==
  LET members(c) == {m \in response.members : Alarms[m.alarm].container = c /\ m.status = expected}
      alarms(c) == Ascending({m.alarm : m \in members(c)})
      parsed(c) == [i \in DOMAIN alarms(c) |->
                      ParseAlarm([alarm |-> alarms(c)[i], status |-> expected])]
  IN parsed("MetricAlarms") \o parsed("CompositeAlarms") \o parsed("LogAlarms")

\* The ARN, or type and name: tuples of different lengths.
Key(row) == IF row.alarm_arn # "" THEN <<row.alarm_arn>>
            ELSE <<row.alarm_type, row.alarm_name>>

\* `seen.insert(key).second' for each row in turn.
Unseen(page, known) ==
  Kept(page, {i \in DOMAIN page : /\ Key(page[i]) \notin known
                                  /\ \A j \in 1 .. (i - 1) : Key(page[j]) # Key(page[i])})

IsRepeatedAlarmToken(next) == next # 0 /\ next \in seen_tokens

FetchAlarmsPage ==
  /\ rows = << >> /\ ~done
  /\ \E response \in DescribeAlarms(
                        BuildDescribeAlarmsRequest(States[state_index + 1], token)) :
       LET page == ParseDescribeAlarmsResponse(response, States[state_index + 1])
           next == response.token
       IN /\ rows' = Unseen(page, seen)
          /\ seen' = seen \cup {Key(page[i]) : i \in DOMAIN page}
          /\ IF next = 0 \/ IsRepeatedAlarmToken(next)
             THEN /\ state_index' = state_index + 1
                  /\ token' = 0 /\ seen_tokens' = {}
                  /\ done' = (state_index' >= Len(States))
             ELSE /\ token' = next /\ seen_tokens' = seen_tokens \cup {next}
                  /\ UNCHANGED <<state_index, done>>
  /\ UNCHANGED <<account, given, open, strayed>>

\* DescribeAlarms throws, and the statement with it.
PageFails ==
  /\ rows = << >> /\ ~done
  /\ done' = TRUE
  /\ UNCHANGED <<account, position, rows, given, open, strayed>>

\* AlertsScan fills one chunk.
AlertsScan ==
  /\ rows # << >>
  /\ LET count == Min({Len(rows), ChunkSize})
     IN /\ given' = given \o SubSeq(rows, 1, count)
        /\ rows' = SubSeq(rows, count + 1, Len(rows))
  /\ UNCHANGED <<account, position, done, open, strayed>>

Scan == FetchAlarmsPage \/ AlertsScan

Next ==
  \/ Scan \/ PageFails
  \/ \E a \in Alarm, to \in Conditions : ChangeState(a, to)

Spec == Init /\ [][Next]_vars

----------------------------------------------------------------------------
(* Properties.                                                             *)

Result == given \o rows

KeyOf(a) == Key(ParseAlarm([alarm |-> a, status |-> condition[a]]))

\* Whatever the service answers and however alarms move meanwhile, the table
\* lists no alarm twice and none that was OK when its page was read; and it
\* lists every alarm that was open at the start and has not left its state
\* since, unless from ALARM to INSUFFICIENT_DATA, because ALARM is swept first.
AlarmsExact ==
  /\ \A i, j \in DOMAIN Result : Key(Result[i]) = Key(Result[j]) => i = j
  /\ \A i \in DOMAIN Result : Result[i].status # "OK"
  /\ state_index = Len(States) /\ service # "looping" =>
       \A a \in open \ strayed : \E i \in DOMAIN Result : Key(Result[i]) = KeyOf(a)

=============================================================================
