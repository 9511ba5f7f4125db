----------------------- MODULE CloudwatchClientProofs -----------------------
(***************************************************************************)
(* Proofs about CloudwatchClient for any calls, retry policies and number  *)
(* of retries.  The argument for AtMostOnce and OutcomeTruthful is OnceInv: *)
(* a call that is not idempotent is only ever back in the loop or asleep   *)
(* when none of its requests was carried out or is still on its way.       *)
(***************************************************************************)
EXTENDS CloudwatchClient, TLAPS

\* No request of the call was carried out or can be.
Untouched(c) == executed[c] = 0 /\ \A m \in wire : m.call # c

\* What is known of the requests of a call that is not idempotent.
OnceOf(c) ==
  /\ pc[c] \in {"idle", "loop", "sleep"} => Untouched(c)
  /\ answer[c] \in Rejections => Untouched(c)
  /\ answer[c] # "none" => pc[c] = "wait" /\ \A m \in wire : m.call # c
  /\ answer[c] = "success" => executed[c] = 1
  /\ \A m \in wire :
       m.call = c => m.attempt = attempt[c] /\ executed[c] = 0
  /\ executed[c] <= 1
  /\ outcome[c] = "rejected" => Untouched(c)
  /\ outcome[c] = "ok" => executed[c] = 1 /\ \A m \in wire : m.call # c

OnceInv == \A c \in Call \ Idempotent : OnceOf(c)

\* A call sleeps only when it has a retry left.
CountInv ==
  /\ \A c \in Call : pc[c] = "sleep" => attempt[c] < Retries
  /\ RequestsBounded

\* A write that runs holds write_mutex.
MutexInv ==
  \A c \in Write : pc[c] \in {"loop", "wait", "sleep"} => write_mutex = c

----------------------------------------------------------------------------

\* Types, and that a call is done exactly when it has an outcome (End).
LEMMA TypeInit == Init => TypeOK
<1> SUFFICES ASSUME Init PROVE TypeOK
  OBVIOUS
<1>1. pc \in [Call -> Pc] /\ outcome \in [Call -> Outcomes]
  BY DEF Init, Pc, Outcomes
<1>2. attempt \in [Call -> Nat] /\ executed \in [Call -> Nat]
  BY DEF Init
<1>3. refreshed \in [Call -> BOOLEAN] /\ interrupted \in BOOLEAN
  BY DEF Init
<1>4. answer \in [Call -> Statuses \cup {"none"}]
  BY DEF Init
<1>5. write_mutex \in Write \cup {NoCall} /\ wire \subseteq Request
  BY DEF Init
<1>6. \A c \in Call : pc[c] = "done" <=> outcome[c] # "none"
  BY DEF Init
<1>7. QED
  BY <1>1, <1>2, <1>3, <1>4, <1>5, <1>6 DEF TypeOK

LEMMA TypeStep == ASSUME TypeOK, [Next]_vars PROVE TypeOK'
<1> USE CallAssumption, RetriesAssumption
<1>1. ASSUME NEW c \in Call, Progress(c) PROVE TypeOK'
  <2>1. CASE Begin(c)
    BY <2>1 DEF TypeOK, Begin, Pc, network
  <2>2. CASE Send(c)
    BY <2>2 DEF TypeOK, Send, End, Goto, TransportFails, Pc, Outcomes,
                Statuses, Request, PreSend
  <2>3. CASE LoseAnswer(c)
    BY <2>3 DEF TypeOK, LoseAnswer, End, Goto, TransportFails, Pc, Outcomes,
                Statuses
  <2>4. CASE Receive(c)
    <3>1. answer' \in [Call -> Statuses \cup {"none"}]
      BY <2>4 DEF TypeOK, Receive
    <3>2. CASE Refresh(c)
      BY <2>4, <3>1, <3>2 DEF TypeOK, Receive, Refresh, Pc
    <3>3. CASE Goto(c, "sleep")
      BY <2>4, <3>1, <3>3 DEF TypeOK, Receive, Goto, Pc
    <3>4. ASSUME NEW result \in {"ok", "rejected", "failed"}, End(c, result)
          PROVE  TypeOK'
      BY <2>4, <3>1, <3>4 DEF TypeOK, Receive, End, Pc, Outcomes
    <3>5. \/ Refresh(c) \/ Goto(c, "sleep")
          \/ \E result \in {"ok", "rejected", "failed"} : End(c, result)
      BY <2>4 DEF Receive, Classify
    <3>6. QED
      BY <3>2, <3>3, <3>4, <3>5
  <2>5. CASE Wake(c)
    BY <2>5 DEF TypeOK, Wake, End, Pc, Outcomes, network
  <2>6. QED
    BY <1>1, <2>1, <2>2, <2>3, <2>4, <2>5 DEF Progress
<1>2. ASSUME NEW m \in wire, Execute(m) \/ Refuse(m) \/ LoseRequest(m)
      PROVE TypeOK'
  <2>1. m.call \in Call /\ wire' \subseteq Request
    BY <1>2 DEF TypeOK, Request, Execute, Refuse, LoseRequest
  <2>2. answer' \in [Call -> Statuses \cup {"none"}]
    BY <1>2, <2>1 DEF TypeOK, Execute, Refuse, LoseRequest, Answer, Statuses
  <2>3. executed' \in [Call -> Nat]
    BY <1>2, <2>1 DEF TypeOK, Execute, Refuse, LoseRequest
  <2>4. QED
    BY <1>2, <2>1, <2>2, <2>3
       DEF TypeOK, Execute, Refuse, LoseRequest, client
<1>3. CASE Interrupt
  BY <1>3 DEF TypeOK, Interrupt, client, network
<1>4. CASE UNCHANGED vars
  BY <1>4 DEF TypeOK, vars, client, network
<1>5. QED
  BY <1>1, <1>2, <1>3, <1>4 DEF Next, Quiet

\* Every reachable state is well typed.
THEOREM ClientTypeCorrect == Spec => []TypeOK
<1>1. TypeOK /\ [Next]_vars => TypeOK'
  BY TypeStep
<1>2. QED
  BY <1>1, TypeInit, PTL DEF Spec

----------------------------------------------------------------------------

LEMMA CountStep == ASSUME TypeOK, CountInv, [Next]_vars PROVE CountInv'
<1> USE RetriesAssumption DEF TypeOK, CountInv, RequestsBounded
<1>1. ASSUME NEW c \in Call, Progress(c) PROVE CountInv'
  <2>1. CASE Begin(c)
    BY <2>1 DEF Begin
  <2>2. CASE Send(c)
    BY <2>2 DEF Send, End, Goto, TransportFails
  <2>3. CASE LoseAnswer(c)
    BY <2>3 DEF LoseAnswer, End, Goto, TransportFails
  <2>4. CASE Receive(c)
    BY <2>4 DEF Receive, Classify, Refresh, End, Goto
  <2>5. CASE Wake(c)
    BY <2>5 DEF Wake, End
  <2>6. QED
    BY <1>1, <2>1, <2>2, <2>3, <2>4, <2>5 DEF Progress
<1>2. ASSUME NEW m \in wire, Execute(m) \/ Refuse(m) \/ LoseRequest(m)
      PROVE CountInv'
  BY <1>2 DEF Execute, Refuse, LoseRequest, client
<1>3. CASE Interrupt \/ UNCHANGED vars
  BY <1>3 DEF Interrupt, vars, client
<1>4. QED
  BY <1>1, <1>2, <1>3 DEF Next, Quiet

\* PostInternal sends at most Retries + 1 requests, and one more when it has
\* refreshed its credentials.
THEOREM RequestsAreBounded == Spec => []RequestsBounded
<1>1. Init => CountInv
  BY RetriesAssumption DEF Init, CountInv, RequestsBounded
<1>2. TypeOK /\ CountInv /\ [Next]_vars => CountInv'
  BY CountStep
<1>3. CountInv => RequestsBounded
  BY DEF CountInv
<1>4. QED
  BY <1>1, <1>2, <1>3, ClientTypeCorrect, PTL DEF Spec

----------------------------------------------------------------------------

LEMMA MutexStep == ASSUME TypeOK, MutexInv, [Next]_vars PROVE MutexInv'
<1> USE CallAssumption DEF TypeOK, MutexInv
<1>1. ASSUME NEW c \in Call, Progress(c) PROVE MutexInv'
  <2>1. CASE Begin(c)
    BY <2>1 DEF Begin
  <2>2. CASE Send(c)
    BY <2>2 DEF Send, End, Goto, TransportFails
  <2>3. CASE LoseAnswer(c)
    BY <2>3 DEF LoseAnswer, End, Goto, TransportFails
  <2>4. CASE Receive(c)
    BY <2>4 DEF Receive, Classify, Refresh, End, Goto
  <2>5. CASE Wake(c)
    BY <2>5 DEF Wake, End
  <2>6. QED
    BY <1>1, <2>1, <2>2, <2>3, <2>4, <2>5 DEF Progress
<1>2. ASSUME NEW m \in wire, Execute(m) \/ Refuse(m) \/ LoseRequest(m)
      PROVE MutexInv'
  BY <1>2 DEF Execute, Refuse, LoseRequest, client
<1>3. CASE Interrupt \/ UNCHANGED vars
  BY <1>3 DEF Interrupt, vars, client
<1>4. QED
  BY <1>1, <1>2, <1>3 DEF Next, Quiet

\* Two writes never run at the same time: write_mutex is held from before the
\* first request until after the last answer, the back-off included.
THEOREM WritesExclude == Spec => []WritesSerialized
<1>1. Init => MutexInv
  BY CallAssumption DEF Init, MutexInv
<1>2. TypeOK /\ MutexInv /\ [Next]_vars => MutexInv'
  BY MutexStep
<1>3. MutexInv => WritesSerialized
  BY DEF MutexInv, WritesSerialized
<1>4. QED
  BY <1>1, <1>2, <1>3, ClientTypeCorrect, PTL DEF Spec

----------------------------------------------------------------------------

\* A step of another call leaves what is known of c as it was.
LEMMA OnceOfOthers ==
  ASSUME TypeOK, NEW c \in Call \ Idempotent, NEW d \in Call, d # c,
         Progress(d)
  PROVE  /\ pc'[c] = pc[c] /\ attempt'[c] = attempt[c]
         /\ outcome'[c] = outcome[c] /\ answer'[c] = answer[c]
         /\ executed'[c] = executed[c]
         /\ \A m \in wire' : m.call = c => m \in wire
<1> USE DEF TypeOK
<1>1. CASE Begin(d)
  BY <1>1 DEF Begin, network
<1>2. CASE Send(d)
  BY <1>2 DEF Send, End, Goto, TransportFails
<1>3. CASE LoseAnswer(d)
  BY <1>3 DEF LoseAnswer, End, Goto, TransportFails
<1>4. CASE Receive(d)
  BY <1>4 DEF Receive, Classify, Refresh, End, Goto
<1>5. CASE Wake(d)
  BY <1>5 DEF Wake, End, network
<1>6. QED
  BY <1>1, <1>2, <1>3, <1>4, <1>5 DEF Progress

\* The steps of the call itself.
LEMMA OnceOfOwn ==
  ASSUME TypeOK, NEW c \in Call \ Idempotent, OnceOf(c), Progress(c)
  PROVE  OnceOf(c)'
<1> USE DEF TypeOK
<1>1. CASE Begin(c)
  BY <1>1 DEF Begin, OnceOf, Untouched, Rejections, network
<1>2. CASE Send(c)
  <2>1. Untouched(c) /\ answer[c] = "none" /\ pc[c] = "loop" /\ outcome[c] = "none"
    BY <1>2 DEF Send, OnceOf
  <2>2. CASE End(c, "interrupted") /\ UNCHANGED <<wire, answer, executed>>
    BY <2>1, <2>2 DEF End, OnceOf, Untouched, Rejections
  <2>3. CASE /\ wire' = wire \cup {[call |-> c, attempt |-> attempt[c]]}
             /\ Goto(c, "wait") /\ UNCHANGED <<answer, executed>>
    BY <2>1, <2>3 DEF Goto, OnceOf, Untouched, Rejections
  <2>4. ASSUME NEW failure \in PreSend, TransportFails(c, failure),
               UNCHANGED <<wire, executed>>
        PROVE  OnceOf(c)'
    BY <2>1, <2>4 DEF TransportFails, End, Goto, OnceOf, Untouched, Rejections
  <2>5. QED
    BY <1>2, <2>2, <2>3, <2>4 DEF Send
<1>3. CASE LoseAnswer(c)
  <2>1. End(c, "failed") /\ answer' = [answer EXCEPT ![c] = "none"]
        /\ UNCHANGED <<wire, executed>>
    BY <1>3 DEF LoseAnswer, TransportFails, SafeRetry
  <2>2. pc[c] = "wait" /\ outcome[c] = "none"
    BY <1>3 DEF LoseAnswer
  <2>3. QED
    BY <2>1, <2>2 DEF End, OnceOf, Untouched, Rejections
<1>4. CASE Receive(c)
  <2>1. /\ answer' = [answer EXCEPT ![c] = "none"]
        /\ UNCHANGED <<wire, executed>>
        /\ pc[c] = "wait" /\ outcome[c] = "none"
        /\ \A m \in wire : m.call # c
    BY <1>4 DEF Receive, OnceOf
  <2>2. CASE answer[c] = "success" /\ End(c, "ok")
    BY <2>1, <2>2 DEF End, OnceOf, Untouched, Rejections
  <2>3. CASE End(c, "failed")
    BY <2>1, <2>3 DEF End, OnceOf, Untouched, Rejections
  <2>4. CASE Untouched(c) /\ End(c, "rejected")
    BY <2>1, <2>4 DEF End, OnceOf, Untouched, Rejections
  <2>5. CASE Untouched(c) /\ (Refresh(c) \/ Goto(c, "sleep"))
    BY <2>1, <2>5 DEF Refresh, Goto, OnceOf, Untouched, Rejections
  <2>6. answer[c] \in Rejections => Untouched(c)
    BY DEF OnceOf
  <2>7. answer[c] \in Rejections \cup {"success", "server_error"}
    BY <1>4 DEF Receive, Statuses
  <2>8. QED
    <3>1. CASE answer[c] = "success"
      BY <1>4, <2>2, <3>1 DEF Receive, Classify
    <3>2. CASE answer[c] = "server_error"
      BY <1>4, <2>3, <3>2 DEF Receive, Classify, RetryableResponse
    <3>3. CASE answer[c] \in Rejections
      <4>1. answer[c] # "success" /\ answer[c] # "server_error"
        BY <3>3 DEF Rejections
      <4>2. \/ Refresh(c) \/ End(c, "failed") \/ End(c, "rejected")
            \/ Goto(c, "sleep")
        BY <1>4, <4>1 DEF Receive, Classify
      <4>3. QED
        BY <2>3, <2>4, <2>5, <2>6, <3>3, <4>2
    <3>4. QED
      BY <2>7, <3>1, <3>2, <3>3
<1>5. CASE Wake(c)
  BY <1>5 DEF Wake, End, OnceOf, Untouched, Rejections, network
<1>6. QED
  BY <1>1, <1>2, <1>3, <1>4, <1>5 DEF Progress

\* The service and the network.
LEMMA OnceOfNetwork ==
  ASSUME TypeOK, NEW c \in Call \ Idempotent, OnceOf(c), NEW m \in wire,
         Execute(m) \/ Refuse(m) \/ LoseRequest(m)
  PROVE  OnceOf(c)'
<1> USE DEF TypeOK
<1>0. m.call \in Call /\ wire' = wire \ {m} /\ UNCHANGED client
  BY DEF Request, Execute, Refuse, LoseRequest
<1>1. CASE m.call # c
  <2>1. executed'[c] = executed[c] /\ answer'[c] = answer[c]
    BY <1>0, <1>1 DEF Execute, Refuse, LoseRequest, Answer
  <2>2. QED
    BY <1>0, <2>1 DEF OnceOf, Untouched, client
<1>2. CASE m.call = c
  <2>1. /\ m.attempt = attempt[c] /\ executed[c] = 0 /\ answer[c] = "none"
        /\ pc[c] \notin {"idle", "loop", "sleep"}
        /\ outcome[c] \notin {"ok", "rejected"}
    BY <1>2 DEF OnceOf, Untouched
  <2>2. \A n \in wire' : n.call # c
    BY <1>0, <1>2, <2>1 DEF OnceOf, Request
  <2>3. pc'[c] = pc[c] /\ outcome'[c] = outcome[c]
    BY <1>0 DEF client
  <2>4. CASE Execute(m)
    <3>1. executed'[c] = 1
      BY <1>2, <2>1, <2>4 DEF Execute
    <3>2. /\ answer'[c] \in {"none", "success", "server_error"}
          /\ answer'[c] # "none" => pc[c] = "wait"
      BY <1>2, <2>1, <2>4 DEF Execute, Answer
    <3>3. QED
      BY <2>1, <2>2, <2>3, <3>1, <3>2 DEF OnceOf, Untouched, Rejections
  <2>5. CASE Refuse(m) \/ LoseRequest(m)
    <3>1. executed'[c] = 0
      BY <2>1, <2>5 DEF Refuse, LoseRequest
    <3>2. /\ answer'[c] # "success"
          /\ answer'[c] # "none" => pc[c] = "wait"
      BY <1>2, <2>1, <2>5 DEF Refuse, LoseRequest, Answer, Rejections
    <3>3. QED
      BY <2>1, <2>2, <2>3, <3>1, <3>2 DEF OnceOf, Untouched
  <2>6. QED
    BY <2>4, <2>5
<1>3. QED
  BY <1>1, <1>2

LEMMA OnceStep == ASSUME TypeOK, OnceInv, [Next]_vars PROVE OnceInv'
<1> SUFFICES ASSUME NEW c \in Call \ Idempotent PROVE OnceOf(c)'
  BY DEF OnceInv
<1>0. OnceOf(c)
  BY DEF OnceInv
<1>1. ASSUME NEW d \in Call, Progress(d) PROVE OnceOf(c)'
  <2>1. CASE d = c
    BY <1>0, <1>1, <2>1, OnceOfOwn
  <2>2. CASE d # c
    <3>1. /\ pc'[c] = pc[c] /\ attempt'[c] = attempt[c]
          /\ outcome'[c] = outcome[c] /\ answer'[c] = answer[c]
          /\ executed'[c] = executed[c]
          /\ \A m \in wire' : m.call = c => m \in wire
      BY <1>1, <2>2, OnceOfOthers
    <3>2. QED
      BY <1>0, <3>1 DEF OnceOf, Untouched
  <2>3. QED
    BY <2>1, <2>2
<1>2. ASSUME NEW m \in wire, Execute(m) \/ Refuse(m) \/ LoseRequest(m)
      PROVE OnceOf(c)'
  BY <1>0, <1>2, OnceOfNetwork
<1>3. CASE Interrupt \/ UNCHANGED vars
  BY <1>0, <1>3 DEF Interrupt, vars, client, network, OnceOf, Untouched
<1>4. QED
  BY <1>1, <1>2, <1>3 DEF Next, Quiet

\* OnceInv is an invariant: the retries of a call that is not idempotent start
\* from nothing done.
THEOREM OnceCorrect == Spec => []OnceInv
<1>1. ASSUME Init PROVE OnceInv
  <2> SUFFICES ASSUME NEW c \in Call PROVE OnceOf(c)
    BY DEF OnceInv
  <2>1. /\ pc[c] = "idle" /\ answer[c] = "none" /\ outcome[c] = "none"
        /\ executed[c] = 0 /\ wire = {}
    BY <1>1 DEF Init
  <2>2. QED
    BY <2>1 DEF OnceOf, Untouched, Rejections
<1>2. TypeOK /\ OnceInv /\ [Next]_vars => OnceInv'
  BY OnceStep
<1>3. QED
  BY <1>1, <1>2, ClientTypeCorrect, PTL DEF Spec

\* PutLogEvents, PutMetricData and StartQuery are carried out at most once,
\* however requests and answers are lost or delayed.
THEOREM WrittenAtMostOnce == Spec => []AtMostOnce
<1>1. OnceInv => AtMostOnce
  BY DEF OnceInv, OnceOf, AtMostOnce
<1>2. QED
  BY <1>1, OnceCorrect, PTL

\* A call that is not idempotent ends as done only when it was done once, and
\* as refused only when it was not done and never will be.
THEOREM OutcomeIsTrue == Spec => []OutcomeTruthful
<1>1. OnceInv => OutcomeTruthful
  BY DEF OnceInv, OnceOf, OutcomeTruthful, Untouched
<1>2. QED
  BY <1>1, OnceCorrect, PTL

----------------------------------------------------------------------------
(* CloudwatchClient implements RemoteCall.                                 *)

\* A success is only ever answered to a call that was carried out.
DoneInv == \A c \in Call : answer[c] = "success" => executed[c] > 0

LEMMA DoneStep == ASSUME TypeOK, DoneInv, [Next]_vars PROVE DoneInv'
<1> USE DEF TypeOK, DoneInv
<1>1. ASSUME NEW c \in Call, Progress(c) PROVE DoneInv'
  <2>1. UNCHANGED executed
    BY <1>1 DEF Progress, Begin, Send, LoseAnswer, Receive, Wake, network
  <2>2. \A d \in Call : answer'[d] = "success" => answer[d] = "success"
    BY <1>1 DEF Progress, Begin, Send, LoseAnswer, Receive, Wake, network,
                TransportFails, PreSend
  <2>3. QED
    BY <2>1, <2>2
<1>2. ASSUME NEW m \in wire, Execute(m) \/ Refuse(m) \/ LoseRequest(m)
      PROVE DoneInv'
  <2>1. m.call \in Call
    BY DEF Request
  <2>2. CASE Execute(m)
    <3>1. \A d \in Call : d # m.call =>
            answer'[d] = answer[d] /\ executed'[d] = executed[d]
      BY <2>1, <2>2 DEF Execute, Answer
    <3>2. executed'[m.call] > 0
      BY <2>1, <2>2 DEF Execute
    <3>3. QED
      BY <3>1, <3>2
  <2>3. CASE Refuse(m) \/ LoseRequest(m)
    <3>1. UNCHANGED executed
      BY <2>3 DEF Refuse, LoseRequest
    <3>2. \A d \in Call : answer'[d] = "success" => answer[d] = "success"
      BY <2>1, <2>3 DEF Refuse, LoseRequest, Answer, Rejections
    <3>3. QED
      BY <3>1, <3>2
  <2>4. QED
    BY <1>2, <2>2, <2>3
<1>3. CASE Interrupt \/ UNCHANGED vars
  BY <1>3 DEF Interrupt, vars, network
<1>4. QED
  BY <1>1, <1>2, <1>3 DEF Next, Quiet

\* What a step that ends a call, if it ends one, says of it.
LEMMA EndsTruthfully ==
  ASSUME TypeOK, OnceInv, DoneInv, NEW c \in Call, Progress(c)
  PROVE  /\ UNCHANGED executed
         /\ \/ UNCHANGED outcome
            \/ /\ outcome[c] = "none"
               /\ \/ End(c, "ok") /\ executed[c] > 0
                  \/ End(c, "rejected") /\ (c \notin Idempotent => executed[c] = 0)
                  \/ End(c, "failed") \/ End(c, "interrupted")
<1> USE DEF TypeOK
<1>1. CASE Begin(c)
  BY <1>1 DEF Begin, network
<1>2. CASE Send(c)
  BY <1>2 DEF Send, Goto, TransportFails
<1>3. CASE LoseAnswer(c)
  BY <1>3 DEF LoseAnswer, Goto, TransportFails
<1>4. CASE Receive(c)
  <2>1. UNCHANGED executed /\ outcome[c] = "none"
    BY <1>4 DEF Receive
  <2>2. answer[c] \in Rejections /\ c \notin Idempotent => executed[c] = 0
    BY DEF OnceInv, OnceOf, Untouched
  <2>3. CASE answer[c] = "success"
    BY <1>4, <2>1, <2>3 DEF Receive, Classify, DoneInv
  <2>4. CASE answer[c] = "server_error"
    BY <1>4, <2>1, <2>4 DEF Receive, Classify, Goto
  <2>5. CASE answer[c] \in Rejections
    <3>1. answer[c] # "success" /\ answer[c] # "server_error"
      BY <2>5 DEF Rejections
    <3>2. \/ Refresh(c) \/ End(c, "failed") \/ End(c, "rejected")
          \/ Goto(c, "sleep")
      BY <1>4, <3>1 DEF Receive, Classify
    <3>3. QED
      BY <2>1, <2>2, <2>5, <3>2 DEF Refresh, Goto
  <2>6. QED
    BY <1>4, <2>3, <2>4, <2>5 DEF Receive, Statuses
<1>5. CASE Wake(c)
  BY <1>5 DEF Wake, network
<1>6. QED
  BY <1>1, <1>2, <1>3, <1>4, <1>5 DEF Progress

LEMMA RefinementStep ==
  ASSUME TypeOK, OnceInv, DoneInv, [Next]_vars
  PROVE  [Promise!Next]_<<executed, outcome>>
<1> USE DEF Promise!Next, Promise!TakeEffect, Promise!Succeed,
            Promise!Refused, Promise!GiveUp, Promise!End, Promise!Settled
<1>1. ASSUME NEW c \in Call, Progress(c)
      PROVE  Promise!Next \/ UNCHANGED <<executed, outcome>>
  BY <1>1, EndsTruthfully DEF End
<1>2. ASSUME NEW m \in wire, Execute(m)
      PROVE  Promise!Next
  <2>1. m.call \in Call /\ UNCHANGED outcome
    BY <1>2 DEF TypeOK, Request, Execute, client
  <2>2. executed' = [executed EXCEPT ![m.call] = @ + 1]
    BY <1>2 DEF Execute
  <2>3. m.call \in Call \ Idempotent =>
          executed[m.call] = 0 /\ ~Promise!Settled(m.call)
    BY DEF OnceInv, OnceOf, Untouched
  <2>4. Promise!TakeEffect(m.call)
    BY <2>1, <2>2, <2>3
  <2>5. QED
    BY <2>1, <2>4
<1>3. ASSUME NEW m \in wire, Refuse(m) \/ LoseRequest(m)
      PROVE  UNCHANGED <<executed, outcome>>
  BY <1>3 DEF Refuse, LoseRequest, client
<1>4. CASE Interrupt \/ UNCHANGED vars
  BY <1>4 DEF Interrupt, vars, client, network
<1>5. QED
  BY <1>1, <1>2, <1>3, <1>4 DEF Next, Quiet

\* PostInternal implements RemoteCall: its steps take effect and its answers
\* settle a call only where RemoteCall allows it.
THEOREM ClientImplementsRemoteCall == Spec => ImplementsRemoteCall
<1>1. Init => Promise!Init
  BY DEF Init, Promise!Init
<1>2. Init => DoneInv
  BY DEF Init, DoneInv
<1>3. TypeOK /\ DoneInv /\ [Next]_vars => DoneInv'
  BY DoneStep
<1>4. TypeOK /\ OnceInv /\ DoneInv /\ [Next]_vars
        => [Promise!Next]_<<executed, outcome>>
  BY RefinementStep
<1>5. QED
  BY <1>1, <1>2, <1>3, <1>4, ClientTypeCorrect, OnceCorrect, PTL
     DEF Spec, Promise!Spec, ImplementsRemoteCall

=============================================================================
