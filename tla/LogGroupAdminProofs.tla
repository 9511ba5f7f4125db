------------------------ MODULE LogGroupAdminProofs -------------------------
(***************************************************************************)
(* AnswersExplained of LogGroupAdmin, for any number of statements and any *)
(* number of retries.                                                      *)
(*                                                                         *)
(* The words a statement returns are about answers, and an answer is about *)
(* the store as it was when the service gave it.  AdminInv says so of each *)
(* answer from the moment it is on the wire: a success was executed and    *)
(* left the target as the word will say (AnswerInv), and an error code was *)
(* true of a store the statement saw (BodyInv).  A later attempt may leave *)
(* an earlier one's error code behind; it is still true of its moment,     *)
(* because `seen' only grows once the statement runs (RunInv, StartInv).   *)
(***************************************************************************)
EXTENDS LogGroupAdmin, TLAPS

Codes == {"none", "other", "exists", "not_found"}
Words == {"none", "invalid", "created", "exists", "deleted", "absent", "ok",
          "nullptr", "error"}

Types ==
  /\ pc \in [Call -> Client!Pc]
  /\ attempt \in [Call -> Nat]
  /\ outcome \in [Call -> Client!Outcomes]
  /\ wire \subseteq Client!Request
  /\ answer \in [Call -> Client!Statuses \cup {"none"}]
  /\ executed \in [Call -> Nat]
  /\ op \in [Call -> Ops]
  /\ store \in Store
  /\ error_body \in [Call -> Codes]
  /\ said \in [Call -> Words]
  /\ seen \in [Call -> SUBSET Store]

\* Nothing is on its way for a statement that has not begun.
WireInv == \A m \in wire : pc[m.call] # "idle"

RunInv(c) == Running(c) => store \in seen[c]

StartInv(c) ==
  /\ pc[c] = "idle" => /\ executed[c] = 0
                       /\ answer[c] = "none"
                       /\ error_body[c] = "none"
                       /\ said[c] \in {"none", "invalid"}
  /\ said[c] = "invalid" => pc[c] = "idle"

OutcomeInv(c) == pc[c] # "done" => outcome[c] = "none"

AnswerInv(c) ==
  answer[c] = "success" =>
    /\ executed[c] > 0
    /\ op[c] \in Creating => Moment(c, TRUE)
    /\ op[c] = "DeleteLogGroup" => Moment(c, FALSE)

BodyInv(c) ==
  /\ op[c] \in Creating /\ error_body[c] = "exists" => Moment(c, TRUE)
  /\ op[c] = "DeleteLogGroup" /\ error_body[c] = "not_found" => Moment(c, FALSE)

SaidInv(c) ==
  /\ said[c] \in {"created", "deleted", "ok"} => executed[c] > 0
  /\ said[c] \in {"created", "exists"} => Moment(c, TRUE)
  /\ said[c] \in {"deleted", "absent"} => Moment(c, FALSE)

StatementInv(c) ==
  RunInv(c) /\ StartInv(c) /\ OutcomeInv(c) /\ AnswerInv(c) /\ BodyInv(c) /\ SaidInv(c)

AdminInv == Types /\ WireInv /\ \A c \in Call : StatementInv(c)

----------------------------------------------------------------------------

\* Nothing has begun: AdminInv holds at first.
LEMMA InitAdminInv == Init => AdminInv
<1> SUFFICES ASSUME Init PROVE AdminInv
  OBVIOUS
<1> USE DEF Init, Client!Init
<1>1. Types
  <2>1. Absent \in Store /\ [Absent EXCEPT !.group = TRUE] \in Store
    BY DEF Absent, Store
  <2>2. /\ pc \in [Call -> Client!Pc]
        /\ attempt \in [Call -> Nat]
        /\ outcome \in [Call -> Client!Outcomes]
        /\ wire \subseteq Client!Request
    BY DEF Client!Pc, Client!Outcomes
  <2>3. /\ answer \in [Call -> Client!Statuses \cup {"none"}]
        /\ executed \in [Call -> Nat]
        /\ op \in [Call -> Ops]
    OBVIOUS
  <2>4. /\ error_body \in [Call -> Codes]
        /\ said \in [Call -> Words]
        /\ seen \in [Call -> SUBSET Store]
    BY DEF Codes, Words
  <2> QED
    BY <2>1, <2>2, <2>3, <2>4 DEF Types
<1>2. WireInv
  BY DEF WireInv
<1>3. ASSUME NEW c \in Call PROVE StatementInv(c)
  BY DEF StatementInv, RunInv, StartInv, OutcomeInv, AnswerInv, BodyInv, SaidInv, Running
<1> QED
  BY <1>1, <1>2, <1>3 DEF AdminInv

\* A moment stays one as long as what was seen only grows.
LEMMA MomentKept ==
  ASSUME NEW c \in Call, NEW b \in BOOLEAN, Moment(c, b),
         seen[c] \subseteq seen'[c], op' = op
  PROVE  Moment(c, b)'
BY DEF Moment

\* What a step of one statement leaves of the others' parts, and of its own.
LEMMA StatementStep ==
  ASSUME AdminInv, NEW c \in Call,
         seen[c] \subseteq seen'[c], op' = op,
         executed[c] <= executed'[c], executed'[c] \in Nat,
         said'[c] = said[c],
         pc'[c] = "idle" => /\ pc[c] = "idle"
                            /\ executed'[c] = executed[c]
                            /\ answer'[c] = answer[c]
                            /\ error_body'[c] = error_body[c],
         pc[c] = "idle" /\ said[c] = "invalid" => pc'[c] = "idle",
         RunInv(c)', OutcomeInv(c)',
         answer'[c] = answer[c] \/ answer'[c] # "success" \/ AnswerInv(c)',
         error_body'[c] = error_body[c] \/ BodyInv(c)'
  PROVE  StatementInv(c)'
<1> USE DEF AdminInv, StatementInv
<1>0. \A i, j \in Nat : i > 0 /\ i <= j => j > 0
  OBVIOUS
<1>00. executed[c] \in Nat
  BY DEF Types
<1>1. StartInv(c)'
  BY DEF StartInv
<1>2. AnswerInv(c)'
  <2>1. CASE AnswerInv(c)'
    BY <2>1
  <2>2. CASE answer'[c] = answer[c] \/ answer'[c] # "success"
    <3> SUFFICES ASSUME answer[c] = "success", answer'[c] = "success"
                 PROVE  AnswerInv(c)'
      BY <2>2 DEF AnswerInv
    <3>1. executed'[c] > 0
      BY <1>0, <1>00 DEF AnswerInv
    <3>2. op[c] \in Creating => Moment(c, TRUE)'
      BY MomentKept DEF AnswerInv
    <3>3. op[c] = "DeleteLogGroup" => Moment(c, FALSE)'
      BY MomentKept DEF AnswerInv
    <3> QED
      BY <3>1, <3>2, <3>3 DEF AnswerInv
  <2> QED
    BY <2>1, <2>2
<1>3. BodyInv(c)'
  <2>1. CASE error_body'[c] = error_body[c]
    <3>1. op[c] \in Creating /\ error_body[c] = "exists" => Moment(c, TRUE)'
      BY MomentKept DEF BodyInv
    <3>2. op[c] = "DeleteLogGroup" /\ error_body[c] = "not_found"
            => Moment(c, FALSE)'
      BY MomentKept DEF BodyInv
    <3> QED
      BY <2>1, <3>1, <3>2 DEF BodyInv
  <2> QED
    BY <2>1
<1>4. SaidInv(c)'
  <2>1. said[c] \in {"created", "deleted", "ok"} => executed'[c] > 0
    BY <1>0, <1>00 DEF SaidInv
  <2>2. said[c] \in {"created", "exists"} => Moment(c, TRUE)'
    BY MomentKept DEF SaidInv
  <2>3. said[c] \in {"deleted", "absent"} => Moment(c, FALSE)'
    BY MomentKept DEF SaidInv
  <2> QED
    BY <2>1, <2>2, <2>3 DEF SaidInv
<1> QED
  BY <1>1, <1>2, <1>3, <1>4

----------------------------------------------------------------------------
(* One step of the service.                                                *)

\* An operation that applies leaves its target as its word will say.
LEMMA AppliedStore ==
  ASSUME NEW o \in Ops, NEW s \in Store, Applies(o, s)
  PROVE  /\ Applied(o, s) \in Store
         /\ o \in Creating => There(o, Applied(o, s))
         /\ o = "DeleteLogGroup" => ~There(o, Applied(o, s))
<1>1. CASE o = "CreateLogGroup"
  BY <1>1 DEF Applied, Store, There, Creating
<1>2. CASE o = "DeleteLogGroup"
  BY <1>2 DEF Applied, Store, There, Creating, Absent
<1>3. CASE o = "CreateLogStream"
  BY <1>3 DEF Applied, Store, There, Creating
<1>4. CASE o = "PutRetentionPolicy"
  BY <1>4 DEF Applied, Store, There, Creating
<1> QED
  BY <1>1, <1>2, <1>3, <1>4 DEF Ops

\* An answer and its error code go to the statement that waits, or nowhere.
LEMMA AnswerGoes ==
  ASSUME AdminInv, NEW m \in wire, NEW status \in Client!Statuses,
         NEW code \in Codes, Client!Answer(m, status), Body(m, code)
  PROVE  /\ answer' \in [Call -> Client!Statuses \cup {"none"}]
         /\ error_body' \in [Call -> Codes]
         /\ \A c \in Call : \/ answer'[c] = answer[c]
                            \/ c = m.call /\ pc[c] = "wait" /\ answer'[c] = status
         /\ \A c \in Call : \/ error_body'[c] = error_body[c]
                            \/ c = m.call /\ pc[c] = "wait" /\ error_body'[c] = code
<1>1. /\ answer \in [Call -> Client!Statuses \cup {"none"}]
      /\ error_body \in [Call -> Codes]
      /\ m.call \in Call
  BY DEF AdminInv, Types, Client!Request
<1>2. \/ answer' = answer
      \/ pc[m.call] = "wait" /\ answer' = [answer EXCEPT ![m.call] = status]
  BY DEF Client!Answer
<1>3. \/ error_body' = error_body
      \/ pc[m.call] = "wait" /\ error_body' = [error_body EXCEPT ![m.call] = code]
  BY DEF Body
<1>4. answer' \in [Call -> Client!Statuses \cup {"none"}]
  BY <1>1, <1>2
<1>5. error_body' \in [Call -> Codes]
  BY <1>1, <1>3
<1> QED
  BY <1>1, <1>2, <1>3, <1>4, <1>5

\* A request carried out: its success, if anyone waits for it, is about the store
\* it leaves, which the waiting statement sees.
LEMMA ApplyKeeps ==
  ASSUME AdminInv, NEW m \in wire, Apply(m)
  PROVE  AdminInv'
<1> DEFINE d == m.call
<1>1. /\ d \in Call /\ pc[d] # "idle" /\ op[d] \in Ops /\ store \in Store
      /\ Applies(op[d], store)
  BY DEF AdminInv, Types, WireInv, Client!Request, Apply
<1>2. /\ wire' = wire \ {m} /\ UNCHANGED <<pc, attempt, outcome, op, said>>
      /\ store' = Applied(op[d], store)
  BY DEF Apply, Client!Execute, Client!client
<1>3. /\ executed' \in [Call -> Nat]
      /\ executed'[d] > 0
      /\ \A c \in Call : executed[c] <= executed'[c]
      /\ \A c \in Call \ {d} : executed'[c] = executed[c]
  BY <1>1 DEF AdminInv, Types, Apply, Client!Execute
<1>4. PICK status \in {"success", "server_error"} : Client!Answer(m, status)
  BY DEF Apply, Client!Execute
<1>5. status \in Client!Statuses /\ "other" \in Codes /\ Body(m, "other")
  BY DEF Apply, Client!Statuses, Codes
<1>6. /\ answer' \in [Call -> Client!Statuses \cup {"none"}]
      /\ error_body' \in [Call -> Codes]
      /\ \A c \in Call : \/ answer'[c] = answer[c]
                         \/ c = d /\ pc[c] = "wait"
      /\ \A c \in Call : \/ error_body'[c] = error_body[c]
                         \/ c = d /\ pc[c] = "wait" /\ error_body'[c] = "other"
  BY <1>4, <1>5, AnswerGoes
<1>7. /\ store' \in Store
      /\ op[d] \in Creating => There(op[d], store')
      /\ op[d] = "DeleteLogGroup" => ~There(op[d], store')
  BY <1>1, <1>2, AppliedStore
<1>8. /\ seen' \in [Call -> SUBSET Store]
      /\ \A c \in Call : /\ seen[c] \subseteq seen'[c]
                         /\ Running(c) => store' \in seen'[c]
  BY <1>7 DEF AdminInv, Types, Apply
<1>9. Types'
  BY <1>2, <1>3, <1>6, <1>7, <1>8 DEF AdminInv, Types
<1>10. WireInv'
  BY <1>2 DEF AdminInv, WireInv
<1>11. ASSUME NEW c \in Call PROVE StatementInv(c)'
  <2>1. RunInv(c)' /\ OutcomeInv(c)'
    BY <1>2, <1>8 DEF AdminInv, StatementInv, RunInv, OutcomeInv, Running
  <2>2. ASSUME c = d, pc[c] = "wait" PROVE AnswerInv(c)'
    <3>1. store' \in seen'[c]
      BY <1>8, <2>2 DEF Running
    <3>2. op[c] \in Creating => Moment(c, TRUE)'
      BY <1>2, <1>7, <2>2, <3>1 DEF Moment, There
    <3>3. op[c] = "DeleteLogGroup" => Moment(c, FALSE)'
      BY <1>2, <1>7, <2>2, <3>1 DEF Moment, There
    <3> QED
      BY <1>2, <1>3, <2>2, <3>2, <3>3 DEF AnswerInv
  <2>3. error_body'[c] = "other" => BodyInv(c)'
    BY DEF BodyInv
  <2>4. /\ executed'[c] \in Nat /\ said'[c] = said[c] /\ pc'[c] = pc[c]
        /\ executed[c] <= executed'[c] /\ seen[c] \subseteq seen'[c]
    BY <1>2, <1>3, <1>8
  <2>5. pc[c] = "idle" => /\ executed'[c] = executed[c]
                          /\ answer'[c] = answer[c]
                          /\ error_body'[c] = error_body[c]
    BY <1>1, <1>3, <1>6
  <2> QED
    BY <1>2, <1>6, <2>1, <2>2, <2>3, <2>4, <2>5, StatementStep
<1> QED
  BY <1>9, <1>10, <1>11 DEF AdminInv

\* A refusal: its error code is true of the store as it is, which the waiting
\* statement has seen.
LEMMA RefuseKeeps ==
  ASSUME AdminInv, NEW m \in wire, Refuse(m)
  PROVE  AdminInv'
<1> DEFINE d == m.call
<1>1. d \in Call /\ pc[d] # "idle" /\ op[d] \in Ops /\ store \in Store
  BY DEF AdminInv, Types, WireInv, Client!Request
<1>2. /\ wire' = wire \ {m}
      /\ UNCHANGED <<pc, attempt, outcome, executed, op, store, said, seen>>
  BY DEF Refuse, Client!Refuse, Client!client
<1>3. PICK status \in Client!Rejections \cup {"server_error"} :
         Client!Answer(m, status)
  BY DEF Refuse, Client!Refuse
<1>4. PICK code \in Codes :
         /\ Body(m, code)
         /\ code = "exists" /\ op[d] \in Creating => There(op[d], store)
         /\ code = "not_found" /\ op[d] = "DeleteLogGroup"
              => ~There(op[d], store)
  <2>1. CASE Body(m, "other")
    BY <2>1 DEF Codes
  <2>2. CASE ~Applies(op[d], store) /\ Body(m, ErrorOf(op[d], store))
    <3>1. ErrorOf(op[d], store) \in {"exists", "not_found"}
      BY DEF ErrorOf
    <3>2. ErrorOf(op[d], store) = "exists" => There(op[d], store)
      BY DEF ErrorOf
    <3>3. op[d] = "DeleteLogGroup" => ~There(op[d], store)
      BY <2>2 DEF Applies, There, Creating
    <3> QED
      BY <2>2, <3>1, <3>2, <3>3 DEF Codes
  <2> QED
    BY <2>1, <2>2 DEF Refuse
<1>5. /\ status \in Client!Statuses /\ status # "success"
  BY DEF Client!Statuses, Client!Rejections
<1>6. /\ answer' \in [Call -> Client!Statuses \cup {"none"}]
      /\ error_body' \in [Call -> Codes]
      /\ \A c \in Call : \/ answer'[c] = answer[c]
                         \/ c = d /\ pc[c] = "wait" /\ answer'[c] # "success"
      /\ \A c \in Call : \/ error_body'[c] = error_body[c]
                         \/ c = d /\ pc[c] = "wait" /\ error_body'[c] = code
  BY <1>3, <1>4, <1>5, AnswerGoes
<1>7. Types'
  BY <1>2, <1>6 DEF AdminInv, Types
<1>8. WireInv'
  BY <1>2 DEF AdminInv, WireInv
<1>9. ASSUME NEW c \in Call PROVE StatementInv(c)'
  <2>1. RunInv(c)' /\ OutcomeInv(c)'
    BY <1>2 DEF AdminInv, StatementInv, RunInv, OutcomeInv, Running
  <2>2. ASSUME c = d, pc[c] = "wait", error_body'[c] = code
        PROVE  BodyInv(c)'
    <3>1. store \in seen[c] /\ There(op[c], store) \in BOOLEAN
      BY <1>1, <2>2 DEF AdminInv, StatementInv, RunInv, Running, There, Store
    <3>2. op[c] \in Creating /\ code = "exists" => Moment(c, TRUE)'
      BY <1>2, <1>4, <2>2, <3>1 DEF Moment, There
    <3>3. op[c] = "DeleteLogGroup" /\ code = "not_found" => Moment(c, FALSE)'
      BY <1>2, <1>4, <2>2, <3>1 DEF Moment, There
    <3> QED
      BY <1>2, <2>2, <3>2, <3>3 DEF BodyInv
  <2>3. executed[c] \in Nat
    BY DEF AdminInv, Types
  <2>4. /\ executed'[c] \in Nat /\ executed[c] <= executed'[c]
        /\ said'[c] = said[c] /\ pc'[c] = pc[c] /\ seen'[c] = seen[c]
    BY <1>2, <2>3
  <2>5. pc[c] = "idle" => /\ executed'[c] = executed[c]
                          /\ answer'[c] = answer[c]
                          /\ error_body'[c] = error_body[c]
    BY <1>1, <1>2, <1>6
  <2> QED
    BY <1>2, <1>6, <2>1, <2>2, <2>4, <2>5, StatementStep
<1> QED
  BY <1>7, <1>8, <1>9 DEF AdminInv

----------------------------------------------------------------------------
(* One step of a statement.                                                *)

\* The client's own steps change neither the service nor other statements, and
\* make no answer.
LEMMA ProgressKeeps ==
  ASSUME AdminInv, NEW c \in Call,
         Client!Send(c) \/ Client!LoseAnswer(c) \/ Client!Wake(c)
           \/ Client!Receive(c)
  PROVE  /\ pc[c] \notin {"idle", "done"}
         /\ pc' \in [Call -> Client!Pc] /\ pc'[c] # "idle"
         /\ \A d \in Call \ {c} : pc'[d] = pc[d]
         /\ attempt' \in [Call -> Nat]
         /\ outcome' \in [Call -> Client!Outcomes]
         /\ pc'[c] # "done" => outcome'[c] = "none"
         /\ \A d \in Call \ {c} : outcome'[d] = outcome[d]
         /\ wire' \subseteq Client!Request
         /\ \A m \in wire' : m \in wire \/ m.call = c
         /\ answer' \in [Call -> Client!Statuses \cup {"none"}]
         /\ \A d \in Call : answer'[d] = answer[d] \/ answer'[d] = "none"
         /\ executed' = executed
<1> USE DEF AdminInv, Types
<1>0. pc[c] # "done" => outcome[c] = "none"
  BY DEF StatementInv, OutcomeInv
<1>1. ASSUME NEW result \in Client!Outcomes, Client!End(c, result)
      PROVE  /\ pc' \in [Call -> Client!Pc] /\ pc'[c] # "idle"
             /\ \A d \in Call \ {c} : pc'[d] = pc[d]
             /\ attempt' \in [Call -> Nat]
             /\ outcome' \in [Call -> Client!Outcomes]
             /\ pc'[c] # "done" => outcome'[c] = "none"
             /\ \A d \in Call \ {c} : outcome'[d] = outcome[d]
  BY <1>1 DEF Client!End, Client!Pc
<1>2. ASSUME NEW label \in {"wait", "sleep"}, Client!Goto(c, label),
             pc[c] # "done"
      PROVE  /\ pc' \in [Call -> Client!Pc] /\ pc'[c] # "idle"
             /\ \A d \in Call \ {c} : pc'[d] = pc[d]
             /\ attempt' \in [Call -> Nat]
             /\ outcome' \in [Call -> Client!Outcomes]
             /\ pc'[c] # "done" => outcome'[c] = "none"
             /\ \A d \in Call \ {c} : outcome'[d] = outcome[d]
  BY <1>0, <1>2 DEF Client!Goto, Client!Pc
<1>3. ASSUME attempt' = [attempt EXCEPT ![c] = @ + 1],
             pc' = [pc EXCEPT ![c] = "loop"], outcome' = outcome,
             pc[c] # "done"
      PROVE  /\ pc' \in [Call -> Client!Pc] /\ pc'[c] # "idle"
             /\ \A d \in Call \ {c} : pc'[d] = pc[d]
             /\ attempt' \in [Call -> Nat]
             /\ outcome' \in [Call -> Client!Outcomes]
             /\ pc'[c] # "done" => outcome'[c] = "none"
             /\ \A d \in Call \ {c} : outcome'[d] = outcome[d]
  BY <1>0, <1>3 DEF Client!Pc
<1>4. {"ok", "rejected", "failed", "interrupted"} \subseteq Client!Outcomes
  BY DEF Client!Outcomes
<1>5. ASSUME NEW failure, Client!TransportFails(c, failure),
             pc[c] # "done"
      PROVE  /\ pc' \in [Call -> Client!Pc] /\ pc'[c] # "idle"
             /\ \A d \in Call \ {c} : pc'[d] = pc[d]
             /\ attempt' \in [Call -> Nat]
             /\ outcome' \in [Call -> Client!Outcomes]
             /\ pc'[c] # "done" => outcome'[c] = "none"
             /\ \A d \in Call \ {c} : outcome'[d] = outcome[d]
             /\ answer' = [answer EXCEPT ![c] = "none"]
  <2>1. Client!End(c, "failed") \/ Client!Goto(c, "sleep")
    BY <1>5 DEF Client!TransportFails
  <2> QED
    BY <1>1, <1>2, <1>4, <1>5, <2>1 DEF Client!TransportFails
<1>6. ASSUME answer' = [answer EXCEPT ![c] = "none"]
      PROVE  /\ answer' \in [Call -> Client!Statuses \cup {"none"}]
             /\ \A d \in Call : answer'[d] = answer[d] \/ answer'[d] = "none"
  BY <1>6
<1>7. CASE Client!Send(c)
  <2>1. pc[c] = "loop" /\ executed' = executed
    BY <1>7 DEF Client!Send
  <2>2. CASE Client!End(c, "interrupted") /\ UNCHANGED <<wire, answer>>
    BY <1>1, <1>4, <2>1, <2>2
  <2>3. CASE /\ wire' = wire \cup {[call |-> c, attempt |-> attempt[c]]}
             /\ Client!Goto(c, "wait") /\ UNCHANGED answer
    <3>1. /\ [call |-> c, attempt |-> attempt[c]] \in Client!Request
          /\ [call |-> c, attempt |-> attempt[c]].call = c
      BY DEF Client!Request
    <3> QED
      BY <1>2, <2>1, <2>3, <3>1
  <2>4. CASE /\ \E failure \in Client!PreSend : Client!TransportFails(c, failure)
             /\ UNCHANGED wire
    BY <1>5, <1>6, <2>1, <2>4
  <2> QED
    BY <1>7, <2>2, <2>3, <2>4 DEF Client!Send
<1>8. CASE Client!LoseAnswer(c)
  <2>1. pc[c] = "wait" /\ UNCHANGED <<wire, executed>>
        /\ Client!TransportFails(c, "read")
    BY <1>8 DEF Client!LoseAnswer
  <2> QED
    BY <1>5, <1>6, <2>1
<1>9. CASE Client!Wake(c)
  <2>1. /\ pc[c] = "sleep"
        /\ UNCHANGED <<wire, answer, executed>>
    BY <1>9 DEF Client!Wake, Client!network
  <2>2. CASE Client!End(c, "interrupted")
    BY <1>1, <1>4, <2>1, <2>2
  <2>3. CASE /\ attempt' = [attempt EXCEPT ![c] = @ + 1]
             /\ pc' = [pc EXCEPT ![c] = "loop"] /\ outcome' = outcome
    BY <1>3, <2>1, <2>3
  <2> QED
    BY <1>9, <2>2, <2>3 DEF Client!Wake
<1>10. CASE Client!Receive(c)
  <2>1. /\ pc[c] = "wait" /\ UNCHANGED <<wire, executed>>
        /\ answer' = [answer EXCEPT ![c] = "none"]
        /\ Client!Classify(c, answer[c])
    BY <1>10 DEF Client!Receive
  <2>2. \/ \E result \in {"ok", "failed", "rejected"} : Client!End(c, result)
        \/ Client!Goto(c, "sleep")
        \/ Client!Refresh(c)
    BY <2>1 DEF Client!Classify
  <2>3. CASE \E result \in {"ok", "failed", "rejected"} : Client!End(c, result)
    BY <1>1, <1>4, <1>6, <2>1, <2>3
  <2>4. CASE Client!Goto(c, "sleep")
    BY <1>2, <1>6, <2>1, <2>4
  <2>5. CASE Client!Refresh(c)
    BY <1>3, <1>6, <2>1, <2>5 DEF Client!Refresh
  <2> QED
    BY <2>2, <2>3, <2>4, <2>5
<1> QED
  BY <1>7, <1>8, <1>9, <1>10

\* A success is read as `ok', and nothing else is.
LEMMA ReceiveOk ==
  ASSUME AdminInv, NEW c \in Call, Client!Receive(c)
  PROVE  outcome'[c] = "ok" => answer[c] = "success"
<1>1. outcome \in [Call -> Client!Outcomes] /\ outcome[c] = "none"
  BY DEF AdminInv, Types, StatementInv, OutcomeInv, Client!Receive
<1> QED
  BY <1>1 DEF Client!Receive, Client!Classify, Client!End, Client!Goto,
              Client!Refresh

\* What a statement says of an answer is what AdminInv knows of the answer.
LEMMA WordTrue ==
  ASSUME AdminInv, NEW c \in Call, NEW result,
         result = "ok" => answer[c] = "success"
  PROVE  LET word == RunAdminCall(c, result) IN
         /\ word \in Words \ {"none", "invalid"}
         /\ word \in {"created", "deleted", "ok"} => executed[c] > 0
         /\ word \in {"created", "exists"} => Moment(c, TRUE)
         /\ word \in {"deleted", "absent"} => Moment(c, FALSE)
<1>1. op[c] \in Ops /\ AnswerInv(c) /\ BodyInv(c)
  BY DEF AdminInv, Types, StatementInv
<1>2. /\ RunAdminCall(c, result) = Word(op[c]).done /\ answer[c] = "success"
      \/ RunAdminCall(c, result) = "error"
      \/ /\ RunAdminCall(c, result) = Word(op[c]).say
         /\ error_body[c] = Word(op[c]).tolerated
  BY DEF RunAdminCall
<1>3. CASE op[c] \in Creating
  BY <1>1, <1>2, <1>3 DEF Word, Creating, Words, AnswerInv, BodyInv
<1>4. CASE op[c] = "DeleteLogGroup"
  BY <1>1, <1>2, <1>4 DEF Word, Creating, Words, AnswerInv, BodyInv
<1>5. CASE op[c] = "PutRetentionPolicy"
  BY <1>1, <1>2, <1>5 DEF Word, Creating, Words, AnswerInv
<1> QED
  BY <1>1, <1>3, <1>4, <1>5 DEF Ops, Creating

\* A statement that reads an answer, or that goes on without one.
LEMMA StatementKeeps ==
  ASSUME AdminInv, NEW c \in Call, Receive(c) \/ Proceed(c)
  PROVE  AdminInv'
<1>1. /\ Client!Send(c) \/ Client!LoseAnswer(c) \/ Client!Wake(c)
           \/ Client!Receive(c)
      /\ UNCHANGED <<op, store, error_body, seen>>
  BY DEF Receive, Proceed
<1>2. /\ pc[c] \notin {"idle", "done"}
      /\ pc' \in [Call -> Client!Pc] /\ pc'[c] # "idle"
      /\ \A d \in Call \ {c} : pc'[d] = pc[d]
      /\ attempt' \in [Call -> Nat]
      /\ outcome' \in [Call -> Client!Outcomes]
      /\ pc'[c] # "done" => outcome'[c] = "none"
      /\ \A d \in Call \ {c} : outcome'[d] = outcome[d]
      /\ wire' \subseteq Client!Request
      /\ \A m \in wire' : m \in wire \/ m.call = c
      /\ answer' \in [Call -> Client!Statuses \cup {"none"}]
      /\ \A d \in Call : answer'[d] = answer[d] \/ answer'[d] = "none"
      /\ executed' = executed
  BY <1>1, ProgressKeeps
<1>3. PICK word \in Words \ {"none", "invalid"} :
        /\ \/ said' = said
           \/ said' = [said EXCEPT ![c] = word]
        /\ word \in {"created", "deleted", "ok"} => executed[c] > 0
        /\ word \in {"created", "exists"} => Moment(c, TRUE)
        /\ word \in {"deleted", "absent"} => Moment(c, FALSE)
  <2>1. CASE Receive(c)
    <3>1. outcome'[c] = "ok" => answer[c] = "success"
      BY <2>1, ReceiveOk DEF Receive
    <3>2. \/ said' = said
          \/ said' = [said EXCEPT ![c] = RunAdminCall(c, outcome'[c])]
      BY <2>1 DEF Receive
    <3> QED
      BY <3>1, <3>2, WordTrue
  <2>2. CASE Proceed(c)
    <3>1. said' = said \/ said' = [said EXCEPT ![c] = "error"]
      BY <2>2 DEF Proceed
    <3>2. "error" \in Words \ {"none", "invalid"}
      BY DEF Words
    <3> WITNESS "error" \in Words \ {"none", "invalid"}
    <3> QED
      BY <3>1
  <2> QED
    BY <2>1, <2>2
<1>4. said \in [Call -> Words]
  BY DEF AdminInv, Types
<1>5. Types'
  <2>1. said' \in [Call -> Words]
    BY <1>3, <1>4
  <2> QED
    BY <1>1, <1>2, <2>1 DEF AdminInv, Types
<1>6. WireInv'
  <2> SUFFICES ASSUME NEW m \in wire' PROVE pc'[m.call] # "idle"
    BY DEF WireInv
  <2>1. m.call \in Call
    BY <1>2 DEF Client!Request
  <2> QED
    BY <1>2, <2>1 DEF AdminInv, WireInv
<1>7. ASSUME NEW d \in Call PROVE StatementInv(d)'
  <2> USE DEF AdminInv, StatementInv
  <2>1. RunInv(d)'
    BY <1>1, <1>2 DEF RunInv, Running
  <2>2. StartInv(d)'
    <3>1. CASE d = c
      <4>1. pc'[d] # "idle" /\ pc[d] # "idle"
        BY <1>2, <3>1
      <4>2. said'[d] # "invalid"
        BY <1>3, <1>4, <3>1, <4>1 DEF StartInv
      <4> QED
        BY <4>1, <4>2 DEF StartInv
    <3>2. CASE d # c
      <4>1. /\ pc'[d] = pc[d] /\ said'[d] = said[d]
            /\ executed'[d] = executed[d] /\ error_body'[d] = error_body[d]
            /\ answer[d] = "none" => answer'[d] = "none"
        BY <1>1, <1>2, <1>3, <1>4, <3>2
      <4> QED
        BY <4>1 DEF StartInv
    <3> QED
      BY <3>1, <3>2
  <2>3. OutcomeInv(d)'
    BY <1>2 DEF OutcomeInv
  <2>4. AnswerInv(d)'
    <3>1. answer'[d] = "success" => answer[d] = "success"
      BY <1>2
    <3>2. ASSUME NEW b \in BOOLEAN PROVE Moment(d, b)' <=> Moment(d, b)
      BY <1>1 DEF Moment
    <3> QED
      BY <1>1, <1>2, <3>1, <3>2 DEF AnswerInv
  <2>5. BodyInv(d)'
    BY <1>1 DEF BodyInv, Moment
  <2>6. SaidInv(d)'
    <3>1. ASSUME NEW b \in BOOLEAN PROVE Moment(d, b)' <=> Moment(d, b)
      BY <1>1 DEF Moment
    <3>2. said'[d] = said[d] \/ (d = c /\ said'[d] = word)
      BY <1>3, <1>4
    <3> QED
      BY <1>2, <1>3, <3>1, <3>2 DEF SaidInv
  <2> QED
    BY <2>1, <2>2, <2>3, <2>4, <2>5, <2>6
<1> QED
  BY <1>5, <1>6, <1>7 DEF AdminInv

\* A statement that is refused or begins, before it sends anything.
LEMMA EnterKeeps ==
  ASSUME AdminInv, NEW c \in Call, RefuseArguments(c) \/ Begin(c)
  PROVE  AdminInv'
<1>1. /\ pc[c] = "idle" /\ said[c] = "none"
      /\ UNCHANGED <<attempt, outcome, wire, answer, executed, op, store,
                     error_body>>
  BY DEF RefuseArguments, Begin, Client!Begin, client, Client!network
<1>2. CASE RefuseArguments(c)
  <2>1. /\ said' = [said EXCEPT ![c] = "invalid"]
        /\ UNCHANGED <<pc, seen>>
    BY <1>2 DEF RefuseArguments, client
  <2>2. Types'
    BY <1>1, <2>1 DEF AdminInv, Types, Words
  <2>3. WireInv'
    BY <1>1, <2>1 DEF AdminInv, WireInv
  <2>4. said \in [Call -> Words]
    BY DEF AdminInv, Types
  <2>5. ASSUME NEW d \in Call PROVE StatementInv(d)'
    BY <1>1, <2>1, <2>4, <2>5 DEF AdminInv, StatementInv, RunInv, StartInv, OutcomeInv,
       AnswerInv, BodyInv, SaidInv, Running, Moment
  <2> QED
    BY <2>2, <2>3, <2>5 DEF AdminInv
<1>3. CASE Begin(c)
  <2>1. /\ pc' = [pc EXCEPT ![c] = "loop"]
        /\ seen' = [seen EXCEPT ![c] = {store}]
        /\ said' = said
    BY <1>3 DEF Begin, Client!Begin
  <2>2. /\ pc \in [Call -> Client!Pc] /\ seen \in [Call -> SUBSET Store]
        /\ store \in Store
    BY DEF AdminInv, Types
  <2>3. Types'
    BY <1>1, <2>1, <2>2 DEF AdminInv, Types, Client!Pc
  <2>4. WireInv'
    BY <1>1, <2>1, <2>2 DEF AdminInv, WireInv
  <2>5. ASSUME NEW d \in Call PROVE StatementInv(d)'
    <3>1. CASE d = c
      <4>1. /\ answer[d] = "none" /\ error_body[d] = "none" /\ said[d] = "none"
            /\ outcome[d] = "none"
        BY <1>1, <3>1 DEF AdminInv, StatementInv, StartInv, OutcomeInv
      <4>2. /\ pc'[d] = "loop" /\ seen'[d] = {store}
        BY <2>1, <2>2, <3>1
      <4> QED
        BY <1>1, <2>1, <4>1, <4>2 DEF StatementInv, RunInv, StartInv, OutcomeInv,
           AnswerInv, BodyInv, SaidInv
    <3>2. CASE d # c
      <4>1. pc'[d] = pc[d] /\ seen'[d] = seen[d]
        BY <2>1, <2>2, <3>2
      <4> QED
        BY <1>1, <2>1, <4>1 DEF AdminInv, StatementInv, RunInv, StartInv,
           OutcomeInv, AnswerInv, BodyInv, SaidInv, Running, Moment
    <3> QED
      BY <3>1, <3>2
  <2> QED
    BY <2>3, <2>4, <2>5 DEF AdminInv
<1> QED
  BY <1>2, <1>3

----------------------------------------------------------------------------

\* Every step keeps AdminInv.
LEMMA NextAdminInv == AdminInv /\ [Next]_vars => AdminInv'
<1> SUFFICES ASSUME AdminInv, [Next]_vars PROVE AdminInv'
  OBVIOUS
<1>1. ASSUME NEW c \in Call,
             RefuseArguments(c) \/ Begin(c) \/ Receive(c) \/ Proceed(c)
      PROVE  AdminInv'
  BY <1>1, EnterKeeps, StatementKeeps
<1>2. ASSUME NEW m \in wire, Apply(m)
      PROVE  AdminInv'
  BY <1>2, ApplyKeeps
<1>3. ASSUME NEW m \in wire, Refuse(m)
      PROVE  AdminInv'
  BY <1>3, RefuseKeeps
<1>4. ASSUME UNCHANGED <<pc, attempt, outcome, answer, executed, op, store,
                         error_body, said, seen>>,
             wire' \subseteq wire
      PROVE  AdminInv'
  <2>1. Types'
    BY <1>4 DEF AdminInv, Types
  <2>2. WireInv'
    BY <1>4 DEF AdminInv, WireInv
  <2>3. ASSUME NEW c \in Call PROVE StatementInv(c)'
    BY <1>4 DEF AdminInv, StatementInv, RunInv, StartInv, OutcomeInv,
       AnswerInv, BodyInv, SaidInv, Running, Moment
  <2> QED
    BY <2>1, <2>2, <2>3 DEF AdminInv
<1>5. CASE \E m \in wire : Lose(m)
  BY <1>4, <1>5 DEF Lose, Client!LoseRequest, Client!client
<1>6. CASE Interrupt
  BY <1>4, <1>6 DEF Interrupt, Client!Interrupt, Client!client, Client!network
<1>7. CASE Ended
  BY <1>4, <1>7 DEF Ended, vars, client
<1>8. CASE UNCHANGED vars
  BY <1>4, <1>8 DEF vars, client
<1> QED
  BY <1>1, <1>2, <1>3, <1>5, <1>6, <1>7, <1>8 DEF Next

\* What AdminInv says of the words is AnswersExplained.
LEMMA AdminInvExplains == AdminInv => AnswersExplained
<1> SUFFICES ASSUME AdminInv, NEW c \in Call
             PROVE  /\ SaidInv(c)
                    /\ said[c] = "invalid" => executed[c] = 0
  BY DEF AnswersExplained, SaidInv
<1> QED
  BY DEF AdminInv, StatementInv, StartInv

\* AnswersExplained for any statements and retries: the word RunAdminCall returns
\* was true while its statement ran.
THEOREM AnswersAreExplained == Spec => []AnswersExplained
<1>1. Init => AdminInv
  BY InitAdminInv
<1>2. AdminInv /\ [Next]_vars => AdminInv'
  BY NextAdminInv
<1>3. AdminInv => AnswersExplained
  BY AdminInvExplains
<1> QED
  BY <1>1, <1>2, <1>3, PTL DEF Spec

============================================================================
