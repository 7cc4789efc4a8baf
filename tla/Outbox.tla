------------------------------ MODULE Outbox -------------------------------
(***************************************************************************)
(* What comm::Channel promises to the callers of asyncSendMessage: a       *)
(* message is refused at once or waits its turn, and the handlers of the   *)
(* waiting ones are called once each, first come first served.             *)
(***************************************************************************)
EXTENDS Naturals, Sequences

CONSTANTS Messages, Limit

VARIABLES
  waiting,  \* messages whose handler is still to be called, oldest first
  said      \* what each message's handler was told

vars == <<waiting, said>>

Reasons == {"NoError", "ioError", "NotOpened"}

Init ==
  /\ waiting = <<>>
  /\ said = [m \in Messages |-> "none"]

New(m) == said[m] = "none" /\ \A i \in 1..Len(waiting) : waiting[i] # m

Accept(m) ==
  /\ New(m)
  /\ Len(waiting) < Limit
  /\ waiting' = Append(waiting, m)
  /\ said' = said

\* The message being answered may still occupy its place.
Refuse(m) ==
  /\ New(m)
  /\ Len(waiting) + 1 >= Limit
  /\ said' = [said EXCEPT ![m] = "DeviceBusy"]
  /\ waiting' = waiting

Answer(v) ==
  /\ waiting # <<>>
  /\ said[Head(waiting)] = "none"
  /\ said' = [said EXCEPT ![Head(waiting)] = v]
  /\ waiting' = Tail(waiting)

Next ==
  \/ \E m \in Messages : Accept(m) \/ Refuse(m)
  \/ \E v \in Reasons : Answer(v)

Spec == Init /\ [][Next]_vars
=============================================================================
