-------------------------- MODULE WebhookDelivery --------------------------
(***************************************************************************)
(* What Keep promises of one domain event, with no table, no batch, no     *)
(* dispatcher process and no clock: it is tried, and it ends either        *)
(* delivered, after a try the consumer answered with a 2xx, or failed,     *)
(* after at least MAX_ATTEMPTS tries.                                      *)
(*                                                                         *)
(* Spec is the promise of one dispatcher: an ended event is neither sent   *)
(* nor changed again.  SharedSpec is what is left of it when dispatchers   *)
(* share the table: a late one may send an ended event and end it its own  *)
(* way, but only on the same grounds, and never reopens it.                *)
(* DomainEventOutbox is shown to implement the first with one dispatcher   *)
(* and the second with any number.                                         *)
(***************************************************************************)
EXTENDS Naturals

CONSTANTS Events, MAX_ATTEMPTS

VARIABLES
  stage,   \* stage[e]: how far event e is
  tries,   \* tries[e]: how many times e was sent
  answered \* events of which some try was answered with a 2xx

vars == <<stage, tries, answered>>

Stages == {"absent", "pending", "delivered", "failed"}

Init ==
  /\ stage = [e \in Events |-> "absent"]
  /\ tries = [e \in Events |-> 0]
  /\ answered = {}

Publish(e) ==
  /\ stage[e] = "absent"
  /\ stage' = [stage EXCEPT ![e] = "pending"]
  /\ UNCHANGED <<tries, answered>>

Send(e, ok) ==
  /\ tries' = [tries EXCEPT ![e] = @ + 1]
  /\ answered' = IF ok THEN answered \union {e} ELSE answered
  /\ UNCHANGED stage

\* The end of a batch ends any number of its events at once.
End(done, gone) ==
  /\ done \union gone # {}
  /\ done \intersect gone = {}
  /\ done \subseteq answered
  /\ \A e \in gone : tries[e] >= MAX_ATTEMPTS
  /\ stage' = [e \in Events |-> IF e \in done THEN "delivered"
                                ELSE IF e \in gone THEN "failed"
                                ELSE stage[e]]
  /\ UNCHANGED <<tries, answered>>

Try(e, ok) == stage[e] = "pending" /\ Send(e, ok)

Settle(done, gone) ==
  /\ \A e \in done \union gone : stage[e] = "pending"
  /\ End(done, gone)

Next ==
  \/ \E e \in Events : Publish(e)
  \/ \E e \in Events, ok \in BOOLEAN : Try(e, ok)
  \/ \E done, gone \in SUBSET Events : Settle(done, gone)

Spec == Init /\ [][Next]_vars

-----------------------------------------------------------------------------
TryAgain(e, ok) == stage[e] # "absent" /\ Send(e, ok)

SettleAgain(done, gone) ==
  /\ \A e \in done \union gone : stage[e] # "absent"
  /\ End(done, gone)

SharedNext ==
  \/ \E e \in Events : Publish(e)
  \/ \E e \in Events, ok \in BOOLEAN : TryAgain(e, ok)
  \/ \E done, gone \in SUBSET Events : SettleAgain(done, gone)

SharedSpec == Init /\ [][SharedNext]_vars
=============================================================================
