------------------------- MODULE WorkflowScheduler -------------------------
(***************************************************************************)
(* Runs of workflows that an alert, an incident or a user triggers:        *)
(* keep/workflowmanager/workflowscheduler.py and the table of executions   *)
(* it shares with the other API worker processes.                          *)
(*                                                                         *)
(* Each process has one scheduler: an in-memory queue, a loop that drains  *)
(* it once a second, and a thread pool that runs the workflows.  The only  *)
(* thing the processes share is the table, whose unique constraint on      *)
(* (workflow_id, execution_number, is_running, timeslot) serves as a lock. *)
(* Workflows with an interval take the same lock in another way and are    *)
(* not in this module.                                                     *)
(***************************************************************************)
EXTENDS Naturals, Sequences, FiniteSets

CONSTANTS
  Requests,    \* the times a workflow is triggered
  Manual,      \* the ones a user triggers; the others come from events
  Key,         \* Key[r]: the workflow and the fingerprint r is about
  Strategy,    \* Strategy[r]: the workflow_strategy of r's workflow
  Instances,   \* the API worker processes
  MAX_WORKERS, \* KEEP_MAX_WORKFLOW_WORKERS, one of which is the loop itself
  TIMEOUT,     \* WORKFLOWS_TIMEOUT, in timeslots of 120 seconds
  MaxCrashes,  \* bound: how many processes may die
  MaxFaults    \* bound: how many calls may raise

Strategies == {"nonparallel", "nonparallel_with_retry", "parallel"}

ASSUME SchedulerAssumption ==
  /\ Manual \subseteq Requests
  /\ Strategy \in [Requests -> Strategies]
  /\ \A r, s \in Requests : Key[r] = Key[s] => Strategy[r] = Strategy[s]
  /\ MAX_WORKERS \in Nat \ {0}
  /\ TIMEOUT \in Nat \ {0}
  /\ MaxCrashes \in Nat
  /\ MaxFaults \in Nat

VARIABLES
  arrived,   \* requests that were made
  execution, \* execution[r]: the row of r in the table workflowexecution
  queue,     \* queue[n]: workflows_to_run of instance n
  batch,     \* batch[n]: what n's loop has still to handle of a drained queue
  expired,   \* expired[n]: executions n's loop has read and is timing out
  waiting,   \* waiting[n]: requests submitted to n's pool and not started
  running,   \* running[n]: requests whose workflow a thread of n runs
  crashes,   \* processes that died so far
  faults,    \* calls that raised so far
  created,   \* history: created[r] counts the rows inserted for r
  runs       \* history: runs[r] counts the runs started for r

loopVars == <<queue, batch, expired>>
poolVars == <<waiting, running>>
boundVars == <<crashes, faults>>
historyVars == <<created, runs>>
vars == <<arrived, execution, loopVars, poolVars, boundVars, historyVars>>

-----------------------------------------------------------------------------
(***************************************************************************)
(* age is the number of timeslots that began since the row was inserted;   *)
(* it saturates at TIMEOUT, the last difference the code looks at.  locked *)
(* stands for is_running = 1: finishing a row draws a random is_running,   *)
(* so that no later row can collide with it.  No property tells the        *)
(* statuses error and providers_not_configured apart; both are "error".    *)
(* ExecutedOnce is why one row per request is enough.                      *)
(***************************************************************************)
Ended == {"success", "error"}
Execution == [status : {"none", "in_progress"} \union Ended,
              locked : BOOLEAN, age : 0..TIMEOUT]
NoExecution == [status |-> "none", locked |-> FALSE, age |-> 0]
NewExecution == [status |-> "in_progress", locked |-> TRUE, age |-> 0]

\* retry: the item has no parsed workflow and takes fresh enrichments.
Item == [request : Requests, retry : BOOLEAN]

HasExecution(r) == execution[r].status # "none"

\* Mutant of Locked: every execution gets a random number.
LockedNever(r) == FALSE

\* Does inserting a row for r violate the unique constraint?  Manual runs and
\* parallel workflows have random numbers; the others' is a hash of the key.
Locked(r) ==
  /\ Strategy[r] # "parallel"
  /\ \E s \in Requests \ Manual :
       Key[s] = Key[r] /\ execution[s].locked /\ execution[s].age = 0

\* Mutant of TimedOut: an off-by-one no row can reach.
TimedOutLate ==
  {r \in Requests : execution[r].status = "in_progress" /\ execution[r].age > TIMEOUT}

TimedOut ==
  {r \in Requests : execution[r].status = "in_progress" /\ execution[r].age >= TIMEOUT}

\* Mutant of FinishExecution: a status the table does not know.
FinishAsTimeout(r, status) ==
  execution' = [execution EXCEPT ![r] = [status |-> "timeout", locked |-> FALSE,
                                         age |-> @.age]]

\* finish_workflow_execution: whatever the status of the row was.
FinishExecution(r, status) ==
  execution' = [execution EXCEPT ![r] = [status |-> status, locked |-> FALSE,
                                         age |-> @.age]]

-----------------------------------------------------------------------------
Init ==
  /\ arrived = {}
  /\ execution = [r \in Requests |-> NoExecution]
  /\ queue = [n \in Instances |-> <<>>]
  /\ batch = [n \in Instances |-> <<>>]
  /\ expired = [n \in Instances |-> {}]
  /\ waiting = [n \in Instances |-> {}]
  /\ running = [n \in Instances |-> {}]
  /\ crashes = 0
  /\ faults = 0
  /\ created = [r \in Requests |-> 0]
  /\ runs = [r \in Requests |-> 0]

\* insert_events and insert_incident, once they found the workflow to run.
InsertEvent(n, r) ==
  /\ r \notin arrived \union Manual
  /\ arrived' = arrived \union {r}
  /\ queue' = [queue EXCEPT ![n] = Append(@, [request |-> r, retry |-> FALSE])]
  /\ UNCHANGED <<execution, batch, expired, poolVars, boundVars, historyVars>>

\* The caller of a manual run gets the id of an execution that exists already.
handle_manual_event_workflow(n, r) ==
  /\ r \in Manual \ arrived
  /\ arrived' = arrived \union {r}
  /\ execution' = [execution EXCEPT ![r] = NewExecution]
  /\ created' = [created EXCEPT ![r] = @ + 1]
  /\ queue' = [queue EXCEPT ![n] = Append(@, [request |-> r, retry |-> TRUE])]
  /\ UNCHANGED <<batch, expired, poolVars, boundVars, runs>>

(***************************************************************************)
(* _handle_event_workflows: drain the queue, then take the items one by    *)
(* one.  An item is done when it is submitted, put back, or given up; an   *)
(* exception out of it ends the loop's iteration and drops the others.     *)
(***************************************************************************)
Drain(n) ==
  /\ batch[n] = <<>>
  /\ expired[n] = {}
  /\ queue[n] # <<>>
  /\ batch' = [batch EXCEPT ![n] = queue[n]]
  /\ queue' = [queue EXCEPT ![n] = <<>>]
  /\ UNCHANGED <<arrived, execution, expired, poolVars, boundVars, historyVars>>

DropHead(n) == batch' = [batch EXCEPT ![n] = Tail(@)]
DropBatch(n) == batch' = [batch EXCEPT ![n] = <<>>]

CreateExecution(n) ==
  /\ batch[n] # <<>>
  /\ LET r == Head(batch[n]).request
     IN  /\ ~HasExecution(r)
         /\ ~Locked(r)
         /\ execution' = [execution EXCEPT ![r] = NewExecution]
         /\ created' = [created EXCEPT ![r] = @ + 1]
  /\ UNCHANGED <<arrived, loopVars, poolVars, boundVars, runs>>

\* Mutant of Collide: the `continue` after the item was put back is missing.
CollideAndKeep(n) ==
  /\ batch[n] # <<>>
  /\ LET r == Head(batch[n]).request
     IN  /\ ~HasExecution(r)
         /\ Locked(r)
         /\ queue' = [queue EXCEPT ![n] = Append(@, [request |-> r, retry |-> TRUE])]
  /\ UNCHANGED <<arrived, execution, batch, expired, poolVars, boundVars, historyVars>>

\* Mutant of Collide: no strategy puts the item back.
CollideAndSkip(n) ==
  /\ batch[n] # <<>>
  /\ LET r == Head(batch[n]).request
     IN  /\ ~HasExecution(r)
         /\ Locked(r)
         /\ DropHead(n)
  /\ UNCHANGED <<arrived, execution, queue, expired, poolVars, boundVars, historyVars>>

\* IntegrityError.  With retry the item goes to the end of the queue.  Without,
\* _finish_workflow_execution is called with the id None, finds no such row
\* and raises ValueError.
Collide(n) ==
  /\ batch[n] # <<>>
  /\ LET r == Head(batch[n]).request
     IN  /\ ~HasExecution(r)
         /\ Locked(r)
         /\ \/ /\ Strategy[r] = "nonparallel_with_retry"
               /\ queue' = [queue EXCEPT ![n] =
                              Append(@, [request |-> r, retry |-> TRUE])]
               /\ DropHead(n)
            \/ /\ Strategy[r] = "nonparallel"
               /\ DropBatch(n)
               /\ UNCHANGED queue
  /\ UNCHANGED <<arrived, execution, expired, poolVars, boundVars, historyVars>>

Submit(n) ==
  /\ batch[n] # <<>>
  /\ LET r == Head(batch[n]).request
     IN  /\ HasExecution(r)
         /\ waiting' = [waiting EXCEPT ![n] = @ \union {r}]
  /\ DropHead(n)
  /\ UNCHANGED <<arrived, execution, queue, expired, running, boundVars, historyVars>>

Fault ==
  /\ faults < MaxFaults
  /\ faults' = faults + 1

\* create_workflow_execution raises something else: logged, and the item is gone.
CreateFails(n) ==
  /\ Fault
  /\ batch[n] # <<>>
  /\ ~HasExecution(Head(batch[n]).request)
  /\ DropHead(n)
  /\ UNCHANGED <<arrived, execution, queue, expired, poolVars, crashes, historyVars>>

\* The workflow of a retried or manual item cannot be loaded, or its
\* enrichments cannot be read, and the item has an execution to finish.
FailItem(n) ==
  /\ Fault
  /\ batch[n] # <<>>
  /\ LET item == Head(batch[n])
     IN  /\ item.retry
         /\ HasExecution(item.request)
         /\ FinishExecution(item.request, "error")
  /\ DropHead(n)
  /\ UNCHANGED <<arrived, queue, expired, poolVars, crashes, historyVars>>

\* An exception out of the loop's iteration: a retried item without an
\* execution cannot be loaded, or finishing an execution raises.
IterationRaises(n) ==
  /\ Fault
  /\ batch[n] # <<>> \/ expired[n] # {}
  /\ DropBatch(n)
  /\ expired' = [expired EXCEPT ![n] = {}]
  /\ UNCHANGED <<arrived, execution, queue, poolVars, crashes, historyVars>>

(***************************************************************************)
(* _run_workflow on a thread of the pool.                                  *)
(***************************************************************************)
StartRun(n, r) ==
  /\ r \in waiting[n]
  /\ Cardinality(running[n]) < MAX_WORKERS - 1
  /\ waiting' = [waiting EXCEPT ![n] = @ \ {r}]
  /\ running' = [running EXCEPT ![n] = @ \union {r}]
  /\ runs' = [runs EXCEPT ![r] = @ + 1]
  /\ UNCHANGED <<arrived, execution, loopVars, boundVars, created>>

\* The workflow ends, with or without errors; recording that may raise.
FinishRun(n, r) ==
  /\ r \in running[n]
  /\ running' = [running EXCEPT ![n] = @ \ {r}]
  /\ \/ /\ \E status \in Ended : FinishExecution(r, status)
        /\ UNCHANGED faults
     \/ /\ Fault
        /\ UNCHANGED execution
  /\ UNCHANGED <<arrived, loopVars, waiting, crashes, historyVars>>

(***************************************************************************)
(* _timeout_workflows, on every hundredth iteration of a loop: one query,  *)
(* then one transaction for each execution it returned.                    *)
(***************************************************************************)
TimeoutCheck(n) ==
  /\ batch[n] = <<>>
  /\ expired[n] = {}
  /\ TimedOut # {}
  /\ expired' = [expired EXCEPT ![n] = TimedOut]
  /\ UNCHANGED <<arrived, execution, queue, batch, poolVars, boundVars, historyVars>>

TimeoutFinish(n, r) ==
  /\ r \in expired[n]
  /\ expired' = [expired EXCEPT ![n] = @ \ {r}]
  /\ FinishExecution(r, "error")
  /\ UNCHANGED <<arrived, queue, batch, poolVars, boundVars, historyVars>>

NextTimeslot ==
  /\ execution' = [r \in Requests |->
       IF HasExecution(r) /\ execution[r].age < TIMEOUT
         THEN [execution[r] EXCEPT !.age = @ + 1]
         ELSE execution[r]]
  /\ UNCHANGED <<arrived, loopVars, poolVars, boundVars, historyVars>>

\* The process dies, or is stopped: its queue and its threads are gone.
Crash(n) ==
  /\ crashes < MaxCrashes
  /\ crashes' = crashes + 1
  /\ queue' = [queue EXCEPT ![n] = <<>>]
  /\ batch' = [batch EXCEPT ![n] = <<>>]
  /\ expired' = [expired EXCEPT ![n] = {}]
  /\ waiting' = [waiting EXCEPT ![n] = {}]
  /\ running' = [running EXCEPT ![n] = {}]
  /\ UNCHANGED <<arrived, execution, faults, historyVars>>

ItemStep(n) == CreateExecution(n) \/ Collide(n) \/ Submit(n)
ItemError(n) == CreateFails(n) \/ FailItem(n) \/ IterationRaises(n)

Next ==
  \/ NextTimeslot
  \/ \E n \in Instances :
       \/ Drain(n)
       \/ ItemStep(n)
       \/ ItemError(n)
       \/ TimeoutCheck(n)
       \/ Crash(n)
       \/ \E r \in Requests :
            \/ InsertEvent(n, r)
            \/ handle_manual_event_workflow(n, r)
            \/ StartRun(n, r)
            \/ FinishRun(n, r)
            \/ TimeoutFinish(n, r)

Spec == Init /\ [][Next]_vars

(***************************************************************************)
(* Time passes, and the loop of every process goes on: it swallows every   *)
(* exception and reaches the timeout check again and again, whatever its   *)
(* queue holds (strong fairness).  A workflow that runs need not end: its  *)
(* steps call providers that may hang.                                     *)
(***************************************************************************)
FairSpec ==
  /\ Spec
  /\ WF_vars(NextTimeslot)
  /\ \A n \in Instances :
       /\ WF_vars(Drain(n))
       /\ WF_vars(ItemStep(n))
       /\ SF_vars(TimeoutCheck(n))
       /\ WF_vars(\E r \in Requests : TimeoutFinish(n, r))

-----------------------------------------------------------------------------
\* Type invariant of the table, the queues and the pools.
TypeOK ==
  /\ arrived \subseteq Requests
  /\ execution \in [Requests -> Execution]
  /\ queue \in [Instances -> Seq(Item)]
  /\ batch \in [Instances -> Seq(Item)]
  /\ expired \in [Instances -> SUBSET Requests]
  /\ waiting \in [Instances -> SUBSET Requests]
  /\ running \in [Instances -> SUBSET Requests]
  /\ crashes \in 0..MaxCrashes
  /\ faults \in 0..MaxFaults
  /\ created \in [Requests -> Nat]
  /\ runs \in [Requests -> Nat]

InSeq(r, s) == \E k \in DOMAIN s : s[k].request = r

Held(r) ==
  \E n \in Instances :
    InSeq(r, queue[n]) \/ InSeq(r, batch[n]) \/ r \in waiting[n] \union running[n]

\* A request gets one execution and one run at most, however often it is put
\* back, whichever calls fail and whatever happens to its process.
ExecutedOnce == \A r \in Requests : created[r] <= 1 /\ runs[r] <= 1

\* Unless a process died or a call raised, a request stays in a queue, a
\* batch or a pool until its execution has ended; only an event of a
\* nonparallel workflow may be skipped (WorkflowStrategy).
RequestKept ==
  (crashes = 0 /\ faults = 0) =>
    \A r \in arrived :
      (Strategy[r] # "nonparallel" \/ r \in Manual) =>
        (Held(r) \/ execution[r].status \in Ended)

\* In one timeslot, of all processes one holds the lock of a workflow and a
\* fingerprint, until its execution ends.
OneHolderPerTimeslot ==
  \A r, s \in Requests \ Manual :
    (/\ r # s /\ Key[r] = Key[s] /\ Strategy[r] # "parallel"
     /\ execution[r].locked /\ execution[s].locked
     /\ execution[r].age < TIMEOUT)
      => execution[r].age # execution[s].age

\* What callers are promised, with no processes, queues, pools and locks.
Runs == INSTANCE RequestedRuns WITH
  accepted <- arrived,
  executions <- created,
  status <- [r \in Requests |-> execution[r].status],
  starts <- runs,
  active <- UNION {running[n] : n \in Instances}

\* However often a request is put back, whichever calls fail and whatever
\* happens to its process: it gets one execution, then one run, whose end is
\* recorded once; only that run makes the execution a success, and an ended
\* execution is not opened again.
ImplementsRequestedRuns == Runs!Spec

\* Every execution ends, also when its process died, its workflow hangs or
\* its end could not be recorded: the timeout check finds it.
EveryExecutionEnds ==
  \A r \in Requests : execution[r].status = "in_progress" ~>
                        execution[r].status \in Ended

\* A request that collides gets its execution in the end, even while every
\* run before it hangs, unless its process dies or a call raises.
CollidingRequestProceeds ==
  \A r \in Requests :
    (r \in arrived /\ Strategy[r] # "nonparallel") ~>
      (HasExecution(r) \/ crashes + faults > 0)
=============================================================================
