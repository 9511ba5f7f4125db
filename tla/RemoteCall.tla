----------------------------- MODULE RemoteCall -----------------------------
(***************************************************************************)
(* What a caller of CloudwatchClient may rely on, whatever the network does: *)
(* how often a call takes effect at the service and what its outcome says   *)
(* of that.  CloudwatchClient implements it (ImplementsRemoteCall).        *)
(***************************************************************************)
EXTENDS Naturals

CONSTANTS
  Call,  \* the calls a program makes
  Once   \* those that may not be repeated

VARIABLES
  executed,  \* how often a call took effect
  outcome    \* how it ended for its caller

Init ==
  /\ executed = [c \in Call |-> 0]
  /\ outcome = [c \in Call |-> "none"]

\* The caller knows what became of its call.
Settled(c) == outcome[c] \in {"ok", "rejected"}

\* A call takes effect while it runs or, when its requests are delayed, after
\* it ended; one that may not be repeated only once, and never when it settled.
TakeEffect(c) ==
  /\ c \in Once => executed[c] = 0 /\ ~Settled(c)
  /\ executed' = [executed EXCEPT ![c] = @ + 1]
  /\ UNCHANGED outcome

End(c, how) ==
  /\ outcome[c] = "none"
  /\ outcome' = [outcome EXCEPT ![c] = how]
  /\ UNCHANGED executed

\* Success is reported only of what took effect ...
Succeed(c) == executed[c] > 0 /\ End(c, "ok")

\* ... and a refusal of a call that may not be repeated only when it did not.
Refused(c) == (c \in Once => executed[c] = 0) /\ End(c, "rejected")

\* Any other error leaves the caller in doubt.
GiveUp(c) == End(c, "failed") \/ End(c, "interrupted")

Next == \E c \in Call : TakeEffect(c) \/ Succeed(c) \/ Refused(c) \/ GiveUp(c)

Spec == Init /\ [][Next]_<<executed, outcome>>

=============================================================================
