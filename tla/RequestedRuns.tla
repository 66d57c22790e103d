--------------------------- MODULE RequestedRuns ---------------------------
(***************************************************************************)
(* What a request for a run of a workflow gets, with no processes, queues, *)
(* pools, locks or crashes: one execution and, after that, one run, which  *)
(* reports its end once or is lost.  An execution never opens again, and   *)
(* only a run ends it with success.  It may be set to error at any time,   *)
(* before, during or after its run: the timeout check acts on what it read *)
(* before.  WorkflowScheduler is shown to implement this.                  *)
(***************************************************************************)
EXTENDS Naturals

CONSTANTS Requests, Manual

VARIABLES
  accepted,   \* requests that were made
  executions, \* executions[r]: how many executions were created for r
  status,     \* status[r]: the status of r's execution
  starts,     \* starts[r]: how many runs were started for r
  active      \* requests whose workflow runs

vars == <<accepted, executions, status, starts, active>>

Init ==
  /\ accepted = {}
  /\ executions = [r \in Requests |-> 0]
  /\ status = [r \in Requests |-> "none"]
  /\ starts = [r \in Requests |-> 0]
  /\ active = {}

Accept(r) ==
  /\ r \notin accepted \union Manual
  /\ accepted' = accepted \union {r}
  /\ UNCHANGED <<executions, status, starts, active>>

Open(r) ==
  /\ executions[r] = 0 /\ status[r] = "none"
  /\ executions' = [executions EXCEPT ![r] = 1]
  /\ status' = [status EXCEPT ![r] = "in_progress"]
  /\ UNCHANGED <<starts, active>>

AcceptManual(r) ==
  /\ r \in Manual \ accepted
  /\ accepted' = accepted \union {r}
  /\ Open(r)

Create(r) ==
  /\ r \in accepted \ Manual
  /\ Open(r)
  /\ UNCHANGED accepted

Start(r) ==
  /\ status[r] # "none" /\ starts[r] = 0
  /\ starts' = [starts EXCEPT ![r] = 1]
  /\ active' = active \union {r}
  /\ UNCHANGED <<accepted, executions, status>>

Report(r) ==
  /\ r \in active
  /\ active' = active \ {r}
  /\ \E end \in {"success", "error"} : status' = [status EXCEPT ![r] = end]
  /\ UNCHANGED <<accepted, executions, starts>>

\* A run whose end is not recorded, or all those of a process that died.
Lose(lost) ==
  /\ active' = active \ lost
  /\ UNCHANGED <<accepted, executions, status, starts>>

\* The execution timed out, or its run could not be prepared.
Fail(r) ==
  /\ status[r] # "none"
  /\ status' = [status EXCEPT ![r] = "error"]
  /\ UNCHANGED <<accepted, executions, starts, active>>

Next ==
  \/ \E r \in Requests :
       Accept(r) \/ AcceptManual(r) \/ Create(r) \/ Start(r) \/ Report(r) \/ Fail(r)
  \/ \E lost \in SUBSET active : Lose(lost)

Spec == Init /\ [][Next]_vars
=============================================================================
