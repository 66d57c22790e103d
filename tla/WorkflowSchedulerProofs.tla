---------------------- MODULE WorkflowSchedulerProofs ----------------------
(***************************************************************************)
(* Safety of WorkflowScheduler for any requests, processes, pool size,     *)
(* timeout, and any number of crashes and raised calls.                    *)
(*                                                                         *)
(* OneHolderPerTimeslot needs only that a locked row exists: a row is      *)
(* inserted in a timeslot in which no other holds the lock, and timeslots  *)
(* age all rows alike.  ExecutedOnce needs to know where a request can be: *)
(* in one queue, one batch or one pool (Places), whose rows and runs are   *)
(* counted as far as the request has come (Rows).  The refinement adds     *)
(* that a run is in one pool only (RunsInOnePool).                         *)
(***************************************************************************)
EXTENDS WorkflowScheduler, SequenceTheorems, TLAPS

Distinct(s) ==
  \A j, k \in DOMAIN s : s[j].request = s[k].request => j = k

LockedRowsExist ==
  \A r \in Requests : execution[r].locked => execution[r].status # "none"

Rows ==
  \A r \in Requests :
    /\ created[r] = IF execution[r].status = "none" THEN 0 ELSE 1
    /\ execution[r].status # "none" => r \in arrived
    /\ r \notin arrived => runs[r] = 0
    /\ runs[r] <= 1
    /\ \A n \in Instances :
         r \in waiting[n] \union running[n] \union expired[n]
           => execution[r].status # "none"

InQueue(r, n) == InSeq(r, queue[n])
InBatch(r, n) == InSeq(r, batch[n])

Places ==
  /\ \A n \in Instances : Distinct(queue[n]) /\ Distinct(batch[n])
  /\ \A r \in Requests, m, n \in Instances :
       /\ InQueue(r, m) /\ InQueue(r, n) => m = n
       /\ InBatch(r, m) /\ InBatch(r, n) => m = n
       /\ r \in waiting[m] /\ r \in waiting[n] => m = n
       /\ ~(InQueue(r, m) /\ InBatch(r, n))
       /\ r \in waiting[m] => ~InQueue(r, n) /\ ~InBatch(r, n)
  /\ \A r \in Requests, n \in Instances :
       InQueue(r, n) \/ InBatch(r, n) \/ r \in waiting[n]
         => r \in arrived /\ runs[r] = 0

-----------------------------------------------------------------------------
(***************************************************************************)
(* Requests in sequences of items.                                         *)
(***************************************************************************)
LEMMA InEmpty == \A r : ~InSeq(r, <<>>)
  BY DEF InSeq

LEMMA DistinctEmpty == Distinct(<<>>)
  BY DEF Distinct

LEMMA InAppend ==
  ASSUME NEW s \in Seq(Item), NEW item \in Item, NEW r
  PROVE  InSeq(r, Append(s, item)) <=> InSeq(r, s) \/ r = item.request
<1>1. /\ DOMAIN s = 1..Len(s)
      /\ Len(s) \in Nat
      /\ DOMAIN Append(s, item) = 1..(Len(s) + 1)
      /\ \A k \in 1..Len(s) : Append(s, item)[k] = s[k]
      /\ Append(s, item)[Len(s) + 1] = item
  BY AppendProperties, LenProperties
<1> QED
  BY <1>1 DEF InSeq

LEMMA DistinctAppend ==
  ASSUME NEW s \in Seq(Item), NEW item \in Item,
         Distinct(s), ~InSeq(item.request, s)
  PROVE  Distinct(Append(s, item))
<1>1. /\ DOMAIN s = 1..Len(s)
      /\ Len(s) \in Nat
      /\ DOMAIN Append(s, item) = 1..(Len(s) + 1)
      /\ \A k \in 1..Len(s) : Append(s, item)[k] = s[k]
      /\ Append(s, item)[Len(s) + 1] = item
  BY AppendProperties, LenProperties
<1> QED
  BY <1>1 DEF InSeq, Distinct

LEMMA HeadOfSeq ==
  ASSUME NEW s \in Seq(Item), s # <<>>
  PROVE  /\ Head(s) \in Item
         /\ InSeq(Head(s).request, s)
         /\ Tail(s) \in Seq(Item)
<1>1. /\ Head(s) \in Item
      /\ Tail(s) \in Seq(Item)
      /\ Head(s) = s[1]
  BY HeadTailProperties
<1>2. 1 \in DOMAIN s
  BY LenProperties, EmptySeq
<1> QED
  BY <1>1, <1>2 DEF InSeq

LEMMA InTail ==
  ASSUME NEW s \in Seq(Item), s # <<>>, Distinct(s), NEW r
  PROVE  InSeq(r, Tail(s)) <=> InSeq(r, s) /\ r # Head(s).request
<1>1. /\ Head(s) = s[1]
      /\ DOMAIN s = 1..Len(s)
      /\ Len(s) \in Nat \ {0}
      /\ DOMAIN Tail(s) = 1..(Len(s) - 1)
      /\ \A k \in 1..(Len(s) - 1) : Tail(s)[k] = s[k + 1]
  BY HeadTailProperties, LenProperties, EmptySeq
<1>2. ASSUME InSeq(r, Tail(s))
      PROVE  InSeq(r, s) /\ r # Head(s).request
  <2>1. PICK k \in 1..(Len(s) - 1) : s[k + 1].request = r
    BY <1>1, <1>2 DEF InSeq
  <2> QED
    BY <1>1, <2>1 DEF InSeq, Distinct
<1>3. ASSUME InSeq(r, s), r # Head(s).request
      PROVE  InSeq(r, Tail(s))
  <2>1. PICK k \in 1..Len(s) : s[k].request = r
    BY <1>1, <1>3 DEF InSeq
  <2>2. k - 1 \in 1..(Len(s) - 1) /\ Tail(s)[k - 1] = s[k]
    BY <1>1, <1>3, <2>1
  <2> QED
    BY <1>1, <2>1, <2>2 DEF InSeq
<1> QED
  BY <1>2, <1>3

LEMMA DistinctTail ==
  ASSUME NEW s \in Seq(Item), s # <<>>, Distinct(s)
  PROVE  Distinct(Tail(s))
<1>1. /\ DOMAIN s = 1..Len(s)
      /\ Len(s) \in Nat \ {0}
      /\ DOMAIN Tail(s) = 1..(Len(s) - 1)
      /\ \A k \in 1..(Len(s) - 1) : Tail(s)[k] = s[k + 1]
  BY HeadTailProperties, LenProperties, EmptySeq
<1> QED
  BY <1>1 DEF Distinct

-----------------------------------------------------------------------------
(***************************************************************************)
(* Types.                                                                  *)
(***************************************************************************)
LEMMA InitTypes == Init => TypeOK
  BY EmptySeq, SchedulerAssumption DEF Init, TypeOK, NoExecution, Execution, Ended

LEMMA FinishTypes ==
  ASSUME TypeOK, NEW r \in Requests, NEW status \in Ended,
         FinishExecution(r, status)
  PROVE  execution' \in [Requests -> Execution]
<1>1. execution[r].age \in 0..TIMEOUT
  BY DEF TypeOK, Execution
<1>2. [status |-> status, locked |-> FALSE, age |-> execution[r].age] \in Execution
  BY <1>1 DEF Execution
<1>3. execution' = [execution EXCEPT ![r] =
                      [status |-> status, locked |-> FALSE, age |-> execution[r].age]]
  BY DEF FinishExecution
<1> QED
  BY <1>2, <1>3 DEF TypeOK

LEMMA NewExecutionType == NewExecution \in Execution
  BY SchedulerAssumption DEF NewExecution, Execution

\* What an item of a batch is, and what is left of the batch without it.
LEMMA BatchHead ==
  ASSUME TypeOK, NEW n \in Instances, batch[n] # <<>>
  PROVE  /\ Head(batch[n]) \in Item
         /\ Head(batch[n]).request \in Requests
         /\ Head(batch[n]).retry \in BOOLEAN
         /\ DropHead(n) => batch' \in [Instances -> Seq(Item)]
         /\ DropBatch(n) => batch' \in [Instances -> Seq(Item)]
<1>1. batch[n] \in Seq(Item)
  BY DEF TypeOK
<1>2. Head(batch[n]) \in Item /\ Tail(batch[n]) \in Seq(Item)
  BY <1>1, HeadOfSeq
<1>3. Head(batch[n]).request \in Requests /\ Head(batch[n]).retry \in BOOLEAN
  BY <1>2 DEF Item
<1> QED
  BY <1>2, <1>3, EmptySeq DEF TypeOK, DropHead, DropBatch

LEMMA AppendType ==
  ASSUME TypeOK, NEW n \in Instances, NEW r \in Requests, NEW retry \in BOOLEAN,
         queue' = [queue EXCEPT ![n] =
                     Append(@, [request |-> r, retry |-> retry])]
  PROVE  queue' \in [Instances -> Seq(Item)]
<1>1. [request |-> r, retry |-> retry] \in Item
  BY DEF Item
<1>2. Append(queue[n], [request |-> r, retry |-> retry]) \in Seq(Item)
  BY <1>1, AppendProperties DEF TypeOK
<1> QED
  BY <1>2 DEF TypeOK

LEMMA StepTypes == TypeOK /\ [Next]_vars => TypeOK'
<1> SUFFICES ASSUME TypeOK, [Next]_vars
             PROVE  TypeOK'
  OBVIOUS
<1> USE DEF vars, loopVars, poolVars, boundVars, historyVars
<1>1. CASE UNCHANGED vars
  BY <1>1 DEF TypeOK
<1>2. CASE NextTimeslot
  <2>1. ASSUME NEW r \in Requests, execution[r].age < TIMEOUT
        PROVE  [execution[r] EXCEPT !.age = @ + 1] \in Execution
    <3>1. execution[r] \in Execution
      BY DEF TypeOK
    <3>2. execution[r].age + 1 \in 0..TIMEOUT
      BY <2>1, <3>1, SchedulerAssumption DEF Execution
    <3> QED
      BY <3>1, <3>2 DEF Execution
  <2> QED
    BY <1>2, <2>1 DEF NextTimeslot, TypeOK
<1>3. ASSUME NEW n \in Instances, Drain(n)
      PROVE  TypeOK'
  BY <1>3, EmptySeq DEF Drain, TypeOK
<1>4. ASSUME NEW n \in Instances, ItemStep(n)
      PROVE  TypeOK'
  <2>0. batch[n] # <<>> /\ Head(batch[n]).request \in Requests
    BY <1>4, BatchHead DEF ItemStep, CreateExecution, Collide, Submit
  <2>1. CASE CreateExecution(n)
    BY <2>0, <2>1, NewExecutionType DEF CreateExecution, TypeOK
  <2>2. CASE Collide(n)
    <3>1. queue' \in [Instances -> Seq(Item)]
      BY <2>0, <2>2, AppendType DEF Collide, TypeOK
    <3>2. batch' \in [Instances -> Seq(Item)]
      BY <2>0, <2>2, BatchHead DEF Collide
    <3> QED
      BY <2>2, <3>1, <3>2 DEF Collide, TypeOK
  <2>3. CASE Submit(n)
    <3>1. batch' \in [Instances -> Seq(Item)]
      BY <2>0, <2>3, BatchHead DEF Submit
    <3> QED
      BY <2>0, <2>3, <3>1 DEF Submit, TypeOK
  <2> QED
    BY <1>4, <2>1, <2>2, <2>3 DEF ItemStep
<1>5. ASSUME NEW n \in Instances, ItemError(n)
      PROVE  TypeOK'
  <2>1. Fault => faults' \in 0..MaxFaults
    BY SchedulerAssumption DEF Fault, TypeOK
  <2>2. CASE CreateFails(n)
    <3>1. batch' \in [Instances -> Seq(Item)]
      BY <2>2, BatchHead DEF CreateFails
    <3> QED
      BY <2>1, <2>2, <3>1 DEF CreateFails, TypeOK
  <2>3. CASE FailItem(n)
    <3>1. batch' \in [Instances -> Seq(Item)]
      BY <2>3, BatchHead DEF FailItem
    <3>2. execution' \in [Requests -> Execution]
      BY <2>3, BatchHead, FinishTypes DEF FailItem, Ended
    <3> QED
      BY <2>1, <2>3, <3>1, <3>2 DEF FailItem, TypeOK
  <2>4. CASE IterationRaises(n)
    <3>1. batch' \in [Instances -> Seq(Item)]
      BY <2>4, EmptySeq DEF IterationRaises, DropBatch, TypeOK
    <3> QED
      BY <2>1, <2>4, <3>1 DEF IterationRaises, TypeOK
  <2> QED
    BY <1>5, <2>2, <2>3, <2>4 DEF ItemError
<1>6. ASSUME NEW n \in Instances, TimeoutCheck(n)
      PROVE  TypeOK'
  BY <1>6 DEF TimeoutCheck, TimedOut, TypeOK
<1>7. ASSUME NEW n \in Instances, Crash(n)
      PROVE  TypeOK'
  <2>1. crashes' \in 0..MaxCrashes
    BY <1>7, SchedulerAssumption DEF Crash, TypeOK
  <2> QED
    BY <1>7, <2>1, EmptySeq DEF Crash, TypeOK
<1>8. ASSUME NEW n \in Instances, NEW r \in Requests,
             InsertEvent(n, r) \/ handle_manual_event_workflow(n, r)
      PROVE  TypeOK'
  <2>1. queue' \in [Instances -> Seq(Item)]
    BY <1>8, AppendType DEF InsertEvent, handle_manual_event_workflow
  <2>2. CASE InsertEvent(n, r)
    BY <2>1, <2>2 DEF InsertEvent, TypeOK
  <2>3. CASE handle_manual_event_workflow(n, r)
    BY <2>1, <2>3, NewExecutionType DEF handle_manual_event_workflow, TypeOK
  <2> QED
    BY <1>8, <2>2, <2>3
<1>9. ASSUME NEW n \in Instances, NEW r \in Requests, StartRun(n, r)
      PROVE  TypeOK'
  BY <1>9 DEF StartRun, TypeOK
<1>10. ASSUME NEW n \in Instances, NEW r \in Requests, FinishRun(n, r)
       PROVE  TypeOK'
  <2>1. execution' \in [Requests -> Execution]
    BY <1>10, FinishTypes DEF FinishRun, TypeOK
  <2>2. faults' \in 0..MaxFaults
    BY <1>10, SchedulerAssumption DEF FinishRun, Fault, TypeOK
  <2> QED
    BY <1>10, <2>1, <2>2 DEF FinishRun, TypeOK
<1>11. ASSUME NEW n \in Instances, NEW r \in Requests, TimeoutFinish(n, r)
       PROVE  TypeOK'
  <2>1. execution' \in [Requests -> Execution]
    BY <1>11, FinishTypes DEF TimeoutFinish, Ended
  <2> QED
    BY <1>11, <2>1 DEF TimeoutFinish, TypeOK
<1> QED
  BY <1>1, <1>2, <1>3, <1>4, <1>5, <1>6, <1>7, <1>8, <1>9, <1>10, <1>11 DEF Next

\* The table, the queues and the pools have their types in every state.
THEOREM SchedulerTypeCorrect == Spec => []TypeOK
  BY InitTypes, StepTypes, PTL DEF Spec

-----------------------------------------------------------------------------
(***************************************************************************)
(* The lock.                                                               *)
(***************************************************************************)
LockInv == LockedRowsExist /\ OneHolderPerTimeslot

LEMMA InitLock == Init => LockInv
  BY DEF Init, LockInv, LockedRowsExist, OneHolderPerTimeslot, NoExecution

\* A row that ends, or is inserted when no row of its key holds the lock in
\* this timeslot, keeps the lock exclusive.
LEMMA LockOneRow ==
  ASSUME TypeOK, LockInv, NEW r \in Requests, NEW row \in Execution,
         row.status # "none",
         row.locked => /\ r \in Manual \/ ~Locked(r)
                       /\ row.age = 0,
         execution' = [execution EXCEPT ![r] = row]
  PROVE  LockInv'
<1>1. execution'[r] = row /\ \A s \in Requests \ {r} : execution'[s] = execution[s]
  BY DEF TypeOK
<1>2. LockedRowsExist'
  BY <1>1 DEF LockInv, LockedRowsExist
<1>3. ASSUME NEW x \in Requests \ Manual, NEW y \in Requests \ Manual,
             x # y, Key[x] = Key[y], Strategy[x] # "parallel",
             execution'[x].locked, execution'[y].locked,
             execution'[x].age = execution'[y].age, execution'[x].age < TIMEOUT
      PROVE  FALSE
  <2>1. CASE x = r
    BY <1>1, <1>3, <2>1 DEF Locked
  <2>2. CASE y = r
    BY <1>1, <1>3, <2>2, SchedulerAssumption DEF Locked
  <2>3. CASE x # r /\ y # r
    BY <1>1, <1>3, <2>3 DEF LockInv, OneHolderPerTimeslot
  <2> QED
    BY <2>1, <2>2, <2>3
<1>4. OneHolderPerTimeslot'
  BY <1>3 DEF OneHolderPerTimeslot
<1> QED
  BY <1>2, <1>4 DEF LockInv

LEMMA LockFinish ==
  ASSUME TypeOK, LockInv, NEW r \in Requests, NEW status \in Ended,
         FinishExecution(r, status)
  PROVE  LockInv'
<1> DEFINE row == [status |-> status, locked |-> FALSE, age |-> execution[r].age]
<1>1. execution[r].age \in 0..TIMEOUT
  BY DEF TypeOK, Execution
<1>2. row \in Execution /\ row.status # "none" /\ ~row.locked
  BY <1>1 DEF Execution, Ended
<1>3. execution' = [execution EXCEPT ![r] = row]
  BY DEF FinishExecution
<1> HIDE DEF row
<1> QED
  BY <1>2, <1>3, LockOneRow

LEMMA LockTick == TypeOK /\ LockInv /\ NextTimeslot => LockInv'
<1> SUFFICES ASSUME TypeOK, LockInv, NextTimeslot
             PROVE  LockInv'
  OBVIOUS
<1>1. ASSUME NEW r \in Requests
      PROVE  /\ execution'[r].locked = execution[r].locked
             /\ execution'[r].status = execution[r].status
             /\ execution[r].age \in 0..TIMEOUT
             /\ execution'[r].age = IF HasExecution(r) /\ execution[r].age < TIMEOUT
                                      THEN execution[r].age + 1
                                      ELSE execution[r].age
  BY DEF NextTimeslot, TypeOK, Execution
<1>2. LockedRowsExist'
  BY <1>1 DEF LockInv, LockedRowsExist
<1>3. \A r \in Requests : execution[r].locked => HasExecution(r)
  BY DEF LockInv, LockedRowsExist, HasExecution
<1>4. ASSUME NEW x \in Requests \ Manual, NEW y \in Requests \ Manual,
             x # y, Key[x] = Key[y], Strategy[x] # "parallel",
             execution'[x].locked, execution'[y].locked,
             execution'[x].age = execution'[y].age, execution'[x].age < TIMEOUT
      PROVE  FALSE
  <2>1. /\ execution'[x].age = execution[x].age + 1
        /\ execution[x].age < TIMEOUT
        /\ execution[x].age \in 0..TIMEOUT
    BY <1>1, <1>3, <1>4, SchedulerAssumption
  <2>2. /\ execution'[y].age = execution[y].age + 1
        /\ execution[y].age \in 0..TIMEOUT
    BY <1>1, <1>3, <1>4, SchedulerAssumption
  <2>3. execution[x].age = execution[y].age
    <3>1. execution[x].age + 1 = execution[y].age + 1
      BY <1>4, <2>1, <2>2
    <3>2. execution[x].age \in Int /\ execution[y].age \in Int
      BY <2>1, <2>2, SchedulerAssumption
    <3> QED
      BY <3>1, <3>2
  <2> QED
    BY <1>1, <1>4, <2>1, <2>3 DEF LockInv, OneHolderPerTimeslot
<1>5. OneHolderPerTimeslot'
  BY <1>4 DEF OneHolderPerTimeslot
<1> QED
  BY <1>2, <1>5 DEF LockInv

LEMMA LockUnchanged ==
  ASSUME LockInv, UNCHANGED execution
  PROVE  LockInv'
  BY DEF LockInv, LockedRowsExist, OneHolderPerTimeslot

LEMMA StepLock == TypeOK /\ LockInv /\ [Next]_vars => LockInv'
<1> SUFFICES ASSUME TypeOK, LockInv, [Next]_vars
             PROVE  LockInv'
  OBVIOUS
<1>0. /\ NewExecution \in Execution
      /\ NewExecution.status # "none"
      /\ NewExecution.age = 0
  BY NewExecutionType DEF NewExecution
<1>1. CASE UNCHANGED vars
  BY <1>1, LockUnchanged DEF vars
<1>2. CASE NextTimeslot
  BY <1>2, LockTick
<1>3. ASSUME NEW n \in Instances, Drain(n) \/ TimeoutCheck(n) \/ Crash(n)
      PROVE  LockInv'
  BY <1>3, LockUnchanged DEF Drain, TimeoutCheck, Crash
<1>4. ASSUME NEW n \in Instances, ItemStep(n)
      PROVE  LockInv'
  <2>1. CASE CreateExecution(n)
    BY <1>0, <2>1, BatchHead, LockOneRow DEF CreateExecution
  <2>2. CASE Collide(n) \/ Submit(n)
    BY <2>2, LockUnchanged DEF Collide, Submit
  <2> QED
    BY <1>4, <2>1, <2>2 DEF ItemStep
<1>5. ASSUME NEW n \in Instances, ItemError(n)
      PROVE  LockInv'
  <2>1. CASE FailItem(n)
    BY <2>1, BatchHead, LockFinish DEF FailItem, Ended
  <2>2. CASE CreateFails(n) \/ IterationRaises(n)
    BY <2>2, LockUnchanged DEF CreateFails, IterationRaises
  <2> QED
    BY <1>5, <2>1, <2>2 DEF ItemError
<1>6. ASSUME NEW n \in Instances, NEW r \in Requests,
             InsertEvent(n, r) \/ StartRun(n, r)
      PROVE  LockInv'
  BY <1>6, LockUnchanged DEF InsertEvent, StartRun
<1>7. ASSUME NEW n \in Instances, NEW r \in Requests,
             handle_manual_event_workflow(n, r)
      PROVE  LockInv'
  BY <1>0, <1>7, LockOneRow DEF handle_manual_event_workflow
<1>8. ASSUME NEW n \in Instances, NEW r \in Requests,
             FinishRun(n, r) \/ TimeoutFinish(n, r)
      PROVE  LockInv'
  BY <1>8, LockFinish, LockUnchanged DEF FinishRun, TimeoutFinish, Ended
<1> QED
  BY <1>1, <1>2, <1>3, <1>4, <1>5, <1>6, <1>7, <1>8 DEF Next

\* In one timeslot the table grants the lock of a workflow and a fingerprint
\* to one execution, whatever the processes do.
THEOREM LockIsExclusive == Spec => []OneHolderPerTimeslot
<1>1. Init => TypeOK /\ LockInv
  BY InitTypes, InitLock
<1>2. TypeOK /\ LockInv /\ [Next]_vars => (TypeOK /\ LockInv)'
  BY StepTypes, StepLock
<1>3. TypeOK /\ LockInv => OneHolderPerTimeslot
  BY DEF LockInv
<1> QED
  BY <1>1, <1>2, <1>3, PTL DEF Spec

-----------------------------------------------------------------------------
(***************************************************************************)
(* Where a request is.                                                     *)
(***************************************************************************)
PlaceInv == Rows /\ Places

LEMMA InitPlaces == Init => PlaceInv
  BY InEmpty, DistinctEmpty
     DEF Init, PlaceInv, Rows, Places, InQueue, InBatch, NoExecution

\* The queues after an item was appended to the queue of n.
LEMMA Enqueued ==
  ASSUME TypeOK, NEW n \in Instances, NEW r \in Requests, NEW retry \in BOOLEAN,
         Distinct(queue[n]), ~InQueue(r, n),
         queue' = [queue EXCEPT ![n] =
                     Append(@, [request |-> r, retry |-> retry])]
  PROVE  /\ Distinct(queue'[n])
         /\ \A m \in Instances \ {n} : queue'[m] = queue[m]
         /\ \A x \in Requests, m \in Instances :
              InSeq(x, queue'[m]) <=> InQueue(x, m) \/ (x = r /\ m = n)
<1> DEFINE item == [request |-> r, retry |-> retry]
<1>1. item \in Item /\ item.request = r
  BY DEF Item
<1>2. queue[n] \in Seq(Item)
  BY DEF TypeOK
<1>3. queue'[n] = Append(queue[n], item)
  BY DEF TypeOK
<1>4. \A m \in Instances \ {n} : queue'[m] = queue[m]
  BY DEF TypeOK
<1> HIDE DEF item
<1>5. Distinct(queue'[n])
  BY <1>1, <1>2, <1>3, DistinctAppend DEF InQueue
<1>6. \A x : InSeq(x, queue'[n]) <=> InSeq(x, queue[n]) \/ x = r
  BY <1>1, <1>2, <1>3, InAppend
<1> QED
  BY <1>4, <1>5, <1>6 DEF InQueue

\* The batches after n's loop is done with its first item.
LEMMA Dequeued ==
  ASSUME TypeOK, NEW n \in Instances, batch[n] # <<>>, Distinct(batch[n]),
         DropHead(n)
  PROVE  /\ Distinct(batch'[n])
         /\ \A m \in Instances \ {n} : batch'[m] = batch[m]
         /\ InBatch(Head(batch[n]).request, n)
         /\ \A x \in Requests, m \in Instances :
              InSeq(x, batch'[m]) <=>
                InBatch(x, m) /\ ~(x = Head(batch[n]).request /\ m = n)
<1>1. batch[n] \in Seq(Item)
  BY DEF TypeOK
<1>2. batch'[n] = Tail(batch[n])
  BY DEF DropHead, TypeOK
<1>3. \A m \in Instances \ {n} : batch'[m] = batch[m]
  BY DEF DropHead, TypeOK
<1>4. Distinct(batch'[n])
  BY <1>1, <1>2, DistinctTail
<1>5. \A x : InSeq(x, batch'[n]) <=> InSeq(x, batch[n]) /\ x # Head(batch[n]).request
  BY <1>1, <1>2, InTail
<1>6. InSeq(Head(batch[n]).request, batch[n])
  BY <1>1, HeadOfSeq
<1> QED
  BY <1>3, <1>4, <1>5, <1>6 DEF InBatch

\* A step that only takes requests out of places keeps each at one place.
LEMMA PlacesShrink ==
  ASSUME Places, UNCHANGED <<arrived, runs>>,
         \A n \in Instances : Distinct(queue'[n]) /\ Distinct(batch'[n]),
         \A x \in Requests, n \in Instances :
           /\ InSeq(x, queue'[n]) => InQueue(x, n)
           /\ InSeq(x, batch'[n]) => InBatch(x, n)
           /\ x \in waiting'[n] => x \in waiting[n]
  PROVE  Places'
<1>1. \A x \in Requests, n \in Instances :
        /\ InQueue(x, n)' => InQueue(x, n)
        /\ InBatch(x, n)' => InBatch(x, n)
  BY DEF InQueue, InBatch
<1> QED
  BY <1>1 DEF Places

LEMMA PlacesUnchanged ==
  ASSUME Places, UNCHANGED <<arrived, runs, queue, batch, waiting>>
  PROVE  Places'
  BY DEF Places, InQueue, InBatch

\* Finishing an execution neither creates nor removes a row.
LEMMA RowsFinish ==
  ASSUME TypeOK, Rows, NEW r \in Requests, NEW status \in Ended,
         execution[r].status # "none", FinishExecution(r, status)
  PROVE  \A x \in Requests :
           execution'[x].status = "none" <=> execution[x].status = "none"
  BY DEF FinishExecution, Ended, TypeOK

LEMMA RowsShrink ==
  ASSUME TypeOK, Rows, UNCHANGED <<arrived, created, runs>>,
         \A x \in Requests :
           execution'[x].status = "none" <=> execution[x].status = "none",
         \A x \in Requests, n \in Instances :
           x \in waiting'[n] \union running'[n] \union expired'[n]
             => execution[x].status # "none"
  PROVE  Rows'
  BY DEF Rows

\* A request that was just made is in no place yet.
LEMMA PlacesInsert ==
  ASSUME TypeOK, PlaceInv, NEW n \in Instances, NEW r \in Requests,
         NEW retry \in BOOLEAN, r \notin arrived,
         arrived' = arrived \union {r},
         queue' = [queue EXCEPT ![n] =
                     Append(@, [request |-> r, retry |-> retry])],
         UNCHANGED <<batch, waiting, runs>>
  PROVE  Places'
<1>1. /\ \A m \in Instances : ~InQueue(r, m) /\ ~InBatch(r, m) /\ r \notin waiting[m]
      /\ runs[r] = 0
      /\ Distinct(queue[n])
  BY DEF PlaceInv, Places, Rows
<1>2. /\ Distinct(queue'[n])
      /\ \A m \in Instances \ {n} : queue'[m] = queue[m]
      /\ \A x \in Requests, m \in Instances :
           InQueue(x, m)' <=> InQueue(x, m) \/ (x = r /\ m = n)
  BY <1>1, Enqueued DEF InQueue
<1>3. \A x \in Requests, m \in Instances : InBatch(x, m)' <=> InBatch(x, m)
  BY DEF InBatch
<1>4. \A m \in Instances : Distinct(queue[m]) /\ Distinct(batch[m])
  BY DEF PlaceInv, Places
<1> QED
  BY <1>1, <1>2, <1>3, <1>4 DEF PlaceInv, Places

LEMMA PlacesDrain ==
  ASSUME TypeOK, Places, NEW n \in Instances, Drain(n)
  PROVE  Places'
<1>1. /\ queue'[n] = <<>>
      /\ batch'[n] = queue[n]
      /\ \A m \in Instances \ {n} : queue'[m] = queue[m] /\ batch'[m] = batch[m]
      /\ batch[n] = <<>>
  BY DEF Drain, TypeOK
<1>2. \A m \in Instances : Distinct(queue'[m]) /\ Distinct(batch'[m])
  BY <1>1, DistinctEmpty DEF Places
<1>3. \A x \in Requests, m \in Instances :
        /\ InQueue(x, m)' <=> InQueue(x, m) /\ m # n
        /\ InBatch(x, m)' <=> InBatch(x, m) \/ (InQueue(x, m) /\ m = n)
  BY <1>1, InEmpty DEF InQueue, InBatch
<1>4. UNCHANGED <<arrived, waiting, runs>>
  BY DEF Drain, poolVars, historyVars
<1> QED
  BY <1>2, <1>3, <1>4 DEF Places

\* The item of a collision goes from the batch of n to its queue.
LEMMA PlacesRetry ==
  ASSUME TypeOK, Places, NEW n \in Instances, batch[n] # <<>>, DropHead(n),
         queue' = [queue EXCEPT ![n] =
           Append(@, [request |-> Head(batch[n]).request, retry |-> TRUE])],
         UNCHANGED <<arrived, waiting, runs>>
  PROVE  Places'
<1> DEFINE r == Head(batch[n]).request
<1>1. r \in Requests
  BY BatchHead
<1>2. Distinct(batch[n]) /\ Distinct(queue[n])
  BY DEF Places
<1>3. /\ Distinct(batch'[n])
      /\ \A m \in Instances \ {n} : batch'[m] = batch[m]
      /\ InBatch(r, n)
      /\ \A x \in Requests, m \in Instances :
           InBatch(x, m)' <=> InBatch(x, m) /\ ~(x = r /\ m = n)
  BY <1>2, Dequeued DEF InBatch
<1>4. ~InQueue(r, n)
  BY <1>1, <1>3 DEF Places
<1>5. queue' = [queue EXCEPT ![n] = Append(@, [request |-> r, retry |-> TRUE])]
  OBVIOUS
<1> HIDE DEF r
<1>6. /\ Distinct(queue'[n])
      /\ \A m \in Instances \ {n} : queue'[m] = queue[m]
      /\ \A x \in Requests, m \in Instances :
           InQueue(x, m)' <=> InQueue(x, m) \/ (x = r /\ m = n)
  BY <1>1, <1>2, <1>4, <1>5, Enqueued DEF InQueue
<1>7. \A m \in Instances : Distinct(queue[m]) /\ Distinct(batch[m])
  BY DEF Places
<1> QED
  BY <1>1, <1>3, <1>6, <1>7 DEF Places

\* The first item of the batch of n is submitted to its pool.
LEMMA PlacesSubmit ==
  ASSUME TypeOK, Places, NEW n \in Instances, batch[n] # <<>>, DropHead(n),
         waiting' = [waiting EXCEPT ![n] = @ \union {Head(batch[n]).request}],
         UNCHANGED <<arrived, queue, runs>>
  PROVE  Places'
<1> DEFINE r == Head(batch[n]).request
<1>1. r \in Requests
  BY BatchHead
<1>2. Distinct(batch[n])
  BY DEF Places
<1>3. /\ Distinct(batch'[n])
      /\ \A m \in Instances \ {n} : batch'[m] = batch[m]
      /\ InBatch(r, n)
      /\ \A x \in Requests, m \in Instances :
           InBatch(x, m)' <=> InBatch(x, m) /\ ~(x = r /\ m = n)
  BY <1>2, Dequeued DEF InBatch
<1>4. \A x \in Requests, m \in Instances :
        x \in waiting'[m] <=> x \in waiting[m] \/ (x = r /\ m = n)
  BY DEF TypeOK
<1>5. \A x \in Requests, m \in Instances : InQueue(x, m)' <=> InQueue(x, m)
  BY DEF InQueue
<1> HIDE DEF r
<1>6. \A m \in Instances : Distinct(queue[m]) /\ Distinct(batch[m])
  BY DEF Places
<1> QED
  BY <1>1, <1>3, <1>4, <1>5, <1>6 DEF Places

LEMMA PlacesDropHead ==
  ASSUME TypeOK, Places, NEW n \in Instances, batch[n] # <<>>, DropHead(n),
         UNCHANGED <<arrived, queue, waiting, runs>>
  PROVE  Places'
<1>1. \A m \in Instances : Distinct(queue[m]) /\ Distinct(batch[m])
  BY DEF Places
<1>2. /\ \A m \in Instances : Distinct(batch'[m])
      /\ \A x \in Requests, m \in Instances : InSeq(x, batch'[m]) => InBatch(x, m)
  BY <1>1, Dequeued
<1> QED
  BY <1>1, <1>2, PlacesShrink DEF InQueue

LEMMA PlacesDropBatch ==
  ASSUME TypeOK, Places, NEW n \in Instances, DropBatch(n),
         UNCHANGED <<arrived, queue, waiting, runs>>
  PROVE  Places'
<1>1. \A m \in Instances : Distinct(queue[m]) /\ Distinct(batch[m])
  BY DEF Places
<1>2. batch'[n] = <<>> /\ \A m \in Instances \ {n} : batch'[m] = batch[m]
  BY DEF DropBatch, TypeOK
<1>3. /\ \A m \in Instances : Distinct(batch'[m])
      /\ \A x \in Requests, m \in Instances : InSeq(x, batch'[m]) => InBatch(x, m)
  BY <1>1, <1>2, InEmpty, DistinctEmpty DEF InBatch
<1> QED
  BY <1>1, <1>3, PlacesShrink DEF InQueue

LEMMA StepPlaces == TypeOK /\ PlaceInv /\ [Next]_vars => PlaceInv'
<1> SUFFICES ASSUME TypeOK, PlaceInv, [Next]_vars
             PROVE  PlaceInv'
  OBVIOUS
<1> USE DEF loopVars, poolVars, boundVars, historyVars
<1>0. Rows /\ Places
  BY DEF PlaceInv
<1>1. CASE UNCHANGED vars
  <2>1. Rows'
    BY <1>0, <1>1 DEF vars, Rows
  <2> QED
    BY <1>0, <1>1, <2>1, PlacesUnchanged DEF vars, PlaceInv
<1>2. CASE NextTimeslot
  <2>1. \A x \in Requests :
          execution'[x].status = "none" <=> execution[x].status = "none"
    BY <1>2 DEF NextTimeslot, TypeOK, Execution
  <2>2. Rows'
    BY <1>0, <1>2, <2>1, RowsShrink DEF NextTimeslot, Rows
  <2> QED
    BY <1>0, <1>2, <2>2, PlacesUnchanged DEF NextTimeslot, PlaceInv
<1>3. ASSUME NEW n \in Instances, Drain(n)
      PROVE  PlaceInv'
  <2>1. Rows'
    BY <1>0, <1>3, RowsShrink DEF Drain, Rows
  <2> QED
    BY <1>0, <1>3, <2>1, PlacesDrain DEF PlaceInv
<1>4. ASSUME NEW n \in Instances, CreateExecution(n)
      PROVE  PlaceInv'
  <2> DEFINE r == Head(batch[n]).request
  <2>1. r \in Requests /\ InBatch(r, n)
    BY <1>0, <1>4, BatchHead, HeadOfSeq DEF CreateExecution, InBatch, TypeOK
  <2>2. r \in arrived /\ execution[r].status = "none"
    BY <1>0, <1>4, <2>1 DEF Places, CreateExecution, HasExecution
  <2>3. /\ execution'[r].status # "none"
        /\ created'[r] = created[r] + 1
        /\ \A x \in Requests \ {r} :
             execution'[x] = execution[x] /\ created'[x] = created[x]
    BY <1>4, <2>1 DEF CreateExecution, TypeOK, NewExecution
  <2>4. UNCHANGED <<arrived, queue, batch, expired, waiting, running, runs>>
    BY <1>4 DEF CreateExecution
  <2> HIDE DEF r
  <2>5. Rows'
    BY <1>0, <2>1, <2>2, <2>3, <2>4 DEF Rows
  <2> QED
    BY <1>0, <2>4, <2>5, PlacesUnchanged DEF PlaceInv
<1>5. ASSUME NEW n \in Instances, Collide(n)
      PROVE  PlaceInv'
  <2>1. Rows'
    BY <1>0, <1>5, RowsShrink DEF Collide, Rows
  <2>2. Places'
    BY <1>0, <1>5, PlacesRetry, PlacesDropBatch DEF Collide
  <2> QED
    BY <2>1, <2>2 DEF PlaceInv
<1>6. ASSUME NEW n \in Instances, Submit(n)
      PROVE  PlaceInv'
  <2>1. /\ execution[Head(batch[n]).request].status # "none"
        /\ waiting' = [waiting EXCEPT ![n] = @ \union {Head(batch[n]).request}]
    BY <1>6 DEF Submit, HasExecution
  <2>2. \A x \in Requests, m \in Instances :
          x \in waiting'[m] => x \in waiting[m] \/ execution[x].status # "none"
    BY <2>1 DEF TypeOK
  <2>3. Rows'
    BY <1>0, <1>6, <2>2, RowsShrink DEF Submit, Rows
  <2>4. Places'
    BY <1>0, <1>6, PlacesSubmit DEF Submit
  <2> QED
    BY <2>3, <2>4 DEF PlaceInv
<1>7. ASSUME NEW n \in Instances, CreateFails(n)
      PROVE  PlaceInv'
  <2>1. Rows'
    BY <1>0, <1>7, RowsShrink DEF CreateFails, Rows
  <2> QED
    BY <1>0, <1>7, <2>1, PlacesDropHead DEF CreateFails, PlaceInv
<1>8. ASSUME NEW n \in Instances, FailItem(n)
      PROVE  PlaceInv'
  <2>1. \A x \in Requests :
          execution'[x].status = "none" <=> execution[x].status = "none"
    BY <1>0, <1>8, BatchHead, RowsFinish DEF FailItem, HasExecution, Ended
  <2>2. Rows'
    BY <1>0, <1>8, <2>1, RowsShrink DEF FailItem, Rows
  <2> QED
    BY <1>0, <1>8, <2>2, PlacesDropHead DEF FailItem, PlaceInv
<1>9. ASSUME NEW n \in Instances, IterationRaises(n)
      PROVE  PlaceInv'
  <2>1. \A x \in Requests, m \in Instances : x \in expired'[m] => x \in expired[m]
    BY <1>9 DEF IterationRaises, TypeOK
  <2>2. Rows'
    BY <1>0, <1>9, <2>1, RowsShrink DEF IterationRaises, Rows
  <2> QED
    BY <1>0, <1>9, <2>2, PlacesDropBatch DEF IterationRaises, PlaceInv
<1>10. ASSUME NEW n \in Instances, TimeoutCheck(n)
       PROVE  PlaceInv'
  <2>1. \A x \in Requests, m \in Instances :
          x \in expired'[m] => x \in expired[m] \/ execution[x].status # "none"
    BY <1>10 DEF TimeoutCheck, TimedOut, TypeOK
  <2>2. Rows'
    BY <1>0, <1>10, <2>1, RowsShrink DEF TimeoutCheck, Rows
  <2> QED
    BY <1>0, <1>10, <2>2, PlacesUnchanged DEF TimeoutCheck, PlaceInv
<1>11. ASSUME NEW n \in Instances, Crash(n)
       PROVE  PlaceInv'
  <2>1. \A m \in Instances :
          /\ queue'[m] = <<>> \/ queue'[m] = queue[m]
          /\ batch'[m] = <<>> \/ batch'[m] = batch[m]
          /\ expired'[m] \subseteq expired[m]
          /\ waiting'[m] \subseteq waiting[m]
          /\ running'[m] \subseteq running[m]
    BY <1>11 DEF Crash, TypeOK
  <2>2. Rows'
    BY <1>0, <1>11, <2>1, RowsShrink DEF Crash, Rows
  <2>3. \A m \in Instances : Distinct(queue'[m]) /\ Distinct(batch'[m])
    BY <1>0, <2>1, DistinctEmpty DEF Places
  <2>4. Places'
    BY <1>0, <1>11, <2>1, <2>3, InEmpty, PlacesShrink DEF Crash, InQueue, InBatch
  <2> QED
    BY <2>2, <2>4 DEF PlaceInv
<1>12. ASSUME NEW n \in Instances, NEW r \in Requests, InsertEvent(n, r)
       PROVE  PlaceInv'
  <2>1. Rows'
    BY <1>0, <1>12 DEF InsertEvent, Rows
  <2>2. Places'
    BY <1>12, PlacesInsert DEF InsertEvent
  <2> QED
    BY <2>1, <2>2 DEF PlaceInv
<1>13. ASSUME NEW n \in Instances, NEW r \in Requests,
              handle_manual_event_workflow(n, r)
       PROVE  PlaceInv'
  <2>1. /\ execution'[r].status # "none"
        /\ created'[r] = created[r] + 1
        /\ \A x \in Requests \ {r} :
             execution'[x] = execution[x] /\ created'[x] = created[x]
    BY <1>13 DEF handle_manual_event_workflow, TypeOK, NewExecution
  <2>2. Rows'
    BY <1>0, <1>13, <2>1 DEF handle_manual_event_workflow, Rows
  <2>3. Places'
    BY <1>13, PlacesInsert DEF handle_manual_event_workflow
  <2> QED
    BY <2>2, <2>3 DEF PlaceInv
<1>14. ASSUME NEW n \in Instances, NEW r \in Requests, StartRun(n, r)
       PROVE  PlaceInv'
  <2>1. /\ \A m \in Instances, x \in Requests :
             /\ x \in waiting'[m] <=> x \in waiting[m] /\ ~(x = r /\ m = n)
             /\ x \in running'[m] <=> x \in running[m] \/ (x = r /\ m = n)
        /\ r \in waiting[n]
        /\ runs'[r] = runs[r] + 1
        /\ \A x \in Requests \ {r} : runs'[x] = runs[x]
        /\ UNCHANGED <<arrived, execution, queue, batch, expired, created>>
    BY <1>14 DEF StartRun, TypeOK
  <2>2. runs[r] = 0 /\ r \in arrived /\ execution[r].status # "none"
    BY <1>0, <2>1 DEF Places, Rows
  <2>3. Rows'
    BY <1>0, <2>1, <2>2 DEF Rows
  <2>4. \A m \in Instances :
          /\ ~InQueue(r, m) /\ ~InBatch(r, m)
          /\ r \notin waiting'[m]
    BY <1>0, <2>1 DEF Places
  <2>5. \A x \in Requests, m \in Instances :
          /\ InQueue(x, m)' <=> InQueue(x, m)
          /\ InBatch(x, m)' <=> InBatch(x, m)
    BY <2>1 DEF InQueue, InBatch
  <2>6. Places'
    BY <1>0, <2>1, <2>4, <2>5 DEF Places
  <2> QED
    BY <2>3, <2>6 DEF PlaceInv
<1>15. ASSUME NEW n \in Instances, NEW r \in Requests, FinishRun(n, r)
       PROVE  PlaceInv'
  <2>1. execution[r].status # "none"
    BY <1>0, <1>15 DEF FinishRun, Rows
  <2>2. \A x \in Requests :
          execution'[x].status = "none" <=> execution[x].status = "none"
    BY <1>0, <1>15, <2>1, RowsFinish DEF FinishRun
  <2>3. \A x \in Requests, m \in Instances : x \in running'[m] => x \in running[m]
    BY <1>15 DEF FinishRun, TypeOK
  <2>4. Rows'
    BY <1>0, <1>15, <2>2, <2>3, RowsShrink DEF FinishRun, Rows
  <2> QED
    BY <1>0, <1>15, <2>4, PlacesUnchanged DEF FinishRun, PlaceInv
<1>16. ASSUME NEW n \in Instances, NEW r \in Requests, TimeoutFinish(n, r)
       PROVE  PlaceInv'
  <2>1. execution[r].status # "none"
    BY <1>0, <1>16 DEF TimeoutFinish, Rows
  <2>2. \A x \in Requests :
          execution'[x].status = "none" <=> execution[x].status = "none"
    BY <1>0, <1>16, <2>1, RowsFinish DEF TimeoutFinish, Ended
  <2>3. \A x \in Requests, m \in Instances : x \in expired'[m] => x \in expired[m]
    BY <1>16 DEF TimeoutFinish, TypeOK
  <2>4. Rows'
    BY <1>0, <1>16, <2>2, <2>3, RowsShrink DEF TimeoutFinish, Rows
  <2> QED
    BY <1>0, <1>16, <2>4, PlacesUnchanged DEF TimeoutFinish, PlaceInv
<1> QED
  BY <1>1, <1>2, <1>3, <1>4, <1>5, <1>6, <1>7, <1>8, <1>9, <1>10, <1>11, <1>12,
     <1>13, <1>14, <1>15, <1>16 DEF Next, ItemStep, ItemError

\* No request gets a second execution or a second run.
THEOREM NothingRunsTwice == Spec => []ExecutedOnce
<1>1. Init => TypeOK /\ PlaceInv
  BY InitTypes, InitPlaces
<1>2. TypeOK /\ PlaceInv /\ [Next]_vars => (TypeOK /\ PlaceInv)'
  BY StepTypes, StepPlaces
<1>3. TypeOK /\ PlaceInv => ExecutedOnce
  BY DEF PlaceInv, Rows, ExecutedOnce
<1> QED
  BY <1>1, <1>2, <1>3, PTL DEF Spec

-----------------------------------------------------------------------------
(***************************************************************************)
(* Nothing is forgotten.  A nonparallel item that collides drops the rest  *)
(* of its batch, so there must be none.                                    *)
(***************************************************************************)
NoNonparallel == \A r \in Requests : Strategy[r] # "nonparallel"

Kept(r) == Held(r) \/ execution[r].status \in Ended

\* A step that takes no request out of a queue, a batch or a pool, unless it
\* ends its execution or puts it elsewhere.
LEMMA KeptUnlessMoved ==
  ASSUME NEW r \in Requests, Kept(r),
         \/ execution'[r].status \in Ended
         \/ /\ execution[r].status \in Ended => execution'[r].status \in Ended
            /\ \A n \in Instances :
                 /\ InSeq(r, queue[n]) => InSeq(r, queue'[n]) \/ InSeq(r, batch'[n])
                 /\ InSeq(r, batch[n]) => \/ InSeq(r, batch'[n])
                                         \/ InSeq(r, queue'[n])
                                         \/ r \in waiting'[n]
                 /\ r \in waiting[n] \union running[n] =>
                      r \in waiting'[n] \union running'[n]
  PROVE  Kept(r)'
<1>1. CASE execution'[r].status \in Ended
  BY <1>1 DEF Kept
<1>2. CASE execution'[r].status \notin Ended
  <2>1. PICK n \in Instances : \/ InSeq(r, queue[n]) \/ InSeq(r, batch[n])
                              \/ r \in waiting[n] \union running[n]
    BY <1>2 DEF Kept, Held
  <2>2. \/ InSeq(r, queue'[n]) \/ InSeq(r, batch'[n])
        \/ r \in waiting'[n] \union running'[n]
    BY <1>2, <2>1
  <2> QED
    BY <2>2 DEF Kept, Held, InSeq
<1> QED
  BY <1>1, <1>2

LEMMA RetriedStays ==
  ASSUME TypeOK, Places, NEW n \in Instances, batch[n] # <<>>, NEW retry \in BOOLEAN,
         queue' = [queue EXCEPT ![n] =
                     Append(@, [request |-> Head(batch[n]).request, retry |-> retry])],
         DropHead(n)
  PROVE  \A r \in Requests, m \in Instances :
           /\ InSeq(r, queue[m]) => InSeq(r, queue'[m])
           /\ InSeq(r, batch[m]) => InSeq(r, batch'[m]) \/ InSeq(r, queue'[m])
<1> PICK h \in Requests : h = Head(batch[n]).request
  BY BatchHead
<1>1. Distinct(batch[n]) /\ Distinct(queue[n])
  BY DEF Places
<1>2. InBatch(h, n) /\ ~InQueue(h, n)
  BY <1>1, Dequeued DEF Places
<1>3. \A r \in Requests, m \in Instances :
        InSeq(r, queue'[m]) <=> InQueue(r, m) \/ (r = h /\ m = n)
  BY <1>1, <1>2, Enqueued
<1>4. \A r \in Requests, m \in Instances :
        InSeq(r, batch'[m]) <=> InBatch(r, m) /\ ~(r = h /\ m = n)
  BY <1>1, Dequeued
<1> QED
  BY <1>3, <1>4 DEF InQueue, InBatch

LEMMA StepKept ==
  ASSUME NoNonparallel, TypeOK, PlaceInv, [Next]_vars,
         crashes' = 0, faults' = 0, NEW r \in Requests, r \in arrived',
         crashes = 0 /\ faults = 0 => (r \in arrived => Kept(r))
  PROVE  Kept(r)'
<1>1. crashes \in Nat /\ faults \in Nat /\ MaxCrashes \in Nat /\ MaxFaults \in Nat
  BY SchedulerAssumption DEF TypeOK
<1> USE DEF PlaceInv
<1>2. CASE UNCHANGED vars
  BY <1>2 DEF vars, loopVars, poolVars, boundVars, Kept, Held, InSeq
<1>3. CASE NextTimeslot
  <2>1. Kept(r)
    BY <1>3 DEF NextTimeslot, boundVars
  <2>2. execution'[r].status = execution[r].status
    BY <1>3 DEF NextTimeslot, TypeOK, Execution
  <2> QED
    BY <1>3, <2>1, <2>2, KeptUnlessMoved DEF NextTimeslot, loopVars, poolVars
<1>4. ASSUME NEW n \in Instances, Drain(n) PROVE Kept(r)'
  <2>1. Kept(r)
    BY <1>4 DEF Drain, boundVars
  <2>2. \A m \in Instances : /\ m # n => queue'[m] = queue[m] /\ batch'[m] = batch[m]
                             /\ batch'[n] = queue[n] /\ batch[n] = <<>>
    BY <1>4 DEF Drain, TypeOK
  <2>3. UNCHANGED <<execution, waiting, running>>
    BY <1>4 DEF Drain, poolVars
  <2> QED
    BY <2>1, <2>2, <2>3, InEmpty, KeptUnlessMoved
<1>5. ASSUME NEW n \in Instances, CreateExecution(n) PROVE Kept(r)'
  <2>1. Kept(r)
    BY <1>5 DEF CreateExecution, boundVars
  <2>2. execution[r].status \in Ended => execution'[r] = execution[r]
    BY <1>5 DEF CreateExecution, HasExecution, TypeOK, Ended
  <2> QED
    BY <1>5, <2>1, <2>2, KeptUnlessMoved DEF CreateExecution, loopVars, poolVars
<1>6. ASSUME NEW n \in Instances, Collide(n) PROVE Kept(r)'
  <2>1. Kept(r)
    BY <1>6 DEF Collide, boundVars
  <2>2. Head(batch[n]).request \in Requests /\ batch[n] # <<>>
    BY <1>6, BatchHead DEF Collide
  <2>3. /\ queue' = [queue EXCEPT ![n] =
                       Append(@, [request |-> Head(batch[n]).request, retry |-> TRUE])]
        /\ DropHead(n)
        /\ UNCHANGED <<execution, waiting, running>>
    BY <1>6, <2>2 DEF Collide, NoNonparallel, poolVars
  <2>4. \A m \in Instances :
           /\ InSeq(r, queue[m]) => InSeq(r, queue'[m])
           /\ InSeq(r, batch[m]) => InSeq(r, batch'[m]) \/ InSeq(r, queue'[m])
    BY <2>2, <2>3, RetriedStays
  <2> QED
    BY <2>1, <2>3, <2>4, KeptUnlessMoved
<1>7. ASSUME NEW n \in Instances, Submit(n) PROVE Kept(r)'
  <2>1. Kept(r)
    BY <1>7 DEF Submit, boundVars
  <2>2. batch[n] # <<>> /\ DropHead(n) /\ Distinct(batch[n])
    BY <1>7 DEF Submit, Places
  <2>3. \A m \in Instances :
          InSeq(r, batch'[m]) <=>
            InBatch(r, m) /\ ~(r = Head(batch[n]).request /\ m = n)
    BY <2>2, Dequeued
  <2>4. /\ UNCHANGED <<execution, queue, running>>
        /\ Head(batch[n]).request \in waiting'[n]
        /\ \A m \in Instances : waiting[m] \subseteq waiting'[m]
    BY <1>7 DEF Submit, TypeOK
  <2> QED
    BY <2>1, <2>3, <2>4, KeptUnlessMoved DEF InBatch
<1>8. ASSUME NEW n \in Instances, ItemError(n) PROVE FALSE
  BY <1>1, <1>8 DEF ItemError, CreateFails, FailItem, IterationRaises, Fault
<1>9. ASSUME NEW n \in Instances, TimeoutCheck(n) PROVE Kept(r)'
  BY <1>9 DEF TimeoutCheck, boundVars, poolVars, Kept, Held, InSeq
<1>10. ASSUME NEW n \in Instances, Crash(n) PROVE FALSE
  BY <1>1, <1>10 DEF Crash
<1>11. ASSUME NEW n \in Instances, NEW s \in Requests,
              InsertEvent(n, s) \/ handle_manual_event_workflow(n, s)
       PROVE  Kept(r)'
  <2>1. PICK retry \in BOOLEAN :
          queue' = [queue EXCEPT ![n] = Append(@, [request |-> s, retry |-> retry])]
    BY <1>11 DEF InsertEvent, handle_manual_event_workflow
  <2>2. Distinct(queue[n]) /\ s \notin arrived /\ arrived' = arrived \union {s}
    BY <1>11 DEF Places, InsertEvent, handle_manual_event_workflow
  <2>3. ~InQueue(s, n)
    BY <2>2 DEF Places
  <2>4. \A m \in Instances : InSeq(r, queue'[m]) <=> InQueue(r, m) \/ (r = s /\ m = n)
    BY <2>1, <2>2, <2>3, Enqueued
  <2>5. CASE r = s
    BY <2>4, <2>5 DEF Kept, Held
  <2>6. CASE r # s
    <3>1. Kept(r)
      BY <1>11, <2>2, <2>6 DEF InsertEvent, handle_manual_event_workflow, boundVars
    <3>2. UNCHANGED <<batch, waiting, running>> /\ execution'[r] = execution[r]
      BY <1>11, <2>6 DEF InsertEvent, handle_manual_event_workflow, poolVars, TypeOK
    <3> QED
      BY <2>4, <3>1, <3>2, KeptUnlessMoved DEF InQueue
  <2> QED
    BY <2>5, <2>6
<1>12. ASSUME NEW n \in Instances, NEW s \in Requests, StartRun(n, s) PROVE Kept(r)'
  <2>1. Kept(r)
    BY <1>12 DEF StartRun, boundVars
  <2>2. \A m \in Instances : r \in waiting[m] \union running[m] =>
                               r \in waiting'[m] \union running'[m]
    BY <1>12 DEF StartRun, TypeOK
  <2> QED
    BY <1>12, <2>1, <2>2, KeptUnlessMoved DEF StartRun, loopVars
<1>13. ASSUME NEW n \in Instances, NEW s \in Requests, FinishRun(n, s) PROVE Kept(r)'
  <2>1. PICK status \in Ended : FinishExecution(s, status) /\ UNCHANGED faults
    BY <1>1, <1>13 DEF FinishRun, Fault
  <2>2. Kept(r)
    BY <1>13, <2>1 DEF FinishRun
  <2>3. CASE r = s
    BY <2>1, <2>2, <2>3, KeptUnlessMoved DEF FinishExecution, TypeOK
  <2>4. CASE r # s
    <3>1. execution'[r] = execution[r]
      BY <2>1, <2>4 DEF FinishExecution, TypeOK
    <3>2. /\ UNCHANGED <<queue, batch, waiting>>
          /\ \A m \in Instances : r \in running[m] => r \in running'[m]
      BY <1>13, <2>4 DEF FinishRun, loopVars, TypeOK
    <3> QED
      BY <2>2, <3>1, <3>2, KeptUnlessMoved
  <2> QED
    BY <2>3, <2>4
<1>14. ASSUME NEW n \in Instances, NEW s \in Requests, TimeoutFinish(n, s)
       PROVE  Kept(r)'
  <2>1. Kept(r) /\ FinishExecution(s, "error") /\ "error" \in Ended
    BY <1>14 DEF TimeoutFinish, boundVars, Ended
  <2>2. CASE r = s
    BY <2>1, <2>2, KeptUnlessMoved DEF FinishExecution, TypeOK
  <2>3. CASE r # s
    <3>1. execution'[r] = execution[r]
      BY <2>1, <2>3 DEF FinishExecution, TypeOK
    <3> QED
      BY <1>14, <2>1, <3>1, KeptUnlessMoved DEF TimeoutFinish, poolVars
  <2> QED
    BY <2>2, <2>3
<1> QED
  BY <1>2, <1>3, <1>4, <1>5, <1>6, <1>7, <1>8, <1>9, <1>10, <1>11, <1>12, <1>13, <1>14
     DEF Next, ItemStep

\* Without a nonparallel workflow, a request stays in a queue, a batch or a
\* pool until its execution has ended, as long as no process dies and no call
\* raises.
THEOREM NoRequestIsForgotten ==
  ASSUME NoNonparallel
  PROVE  Spec => []RequestKept
<1> DEFINE KeptInv == crashes = 0 /\ faults = 0 => \A r \in Requests : r \in arrived => Kept(r)
<1>1. Init => TypeOK /\ PlaceInv
  BY InitTypes, InitPlaces
<1>2. Init => KeptInv
  BY DEF Init
<1>3. TypeOK /\ PlaceInv /\ [Next]_vars => (TypeOK /\ PlaceInv)'
  BY StepTypes, StepPlaces
<1>4. TypeOK /\ PlaceInv /\ KeptInv /\ [Next]_vars => KeptInv'
  BY StepKept
<1>5. TypeOK /\ KeptInv => RequestKept
  BY DEF TypeOK, RequestKept, Kept
<1> QED
  BY <1>1, <1>2, <1>3, <1>4, <1>5, PTL DEF Spec
-----------------------------------------------------------------------------
(***************************************************************************)
(* What a request gets: RequestedRuns.                                     *)
(*                                                                         *)
(* A run is in one pool and is the only one of its request (RunsInOnePool),*)
(* so that it can end its execution once; with PlaceInv, which says that a *)
(* request that waits for a thread has an execution and no run yet, every  *)
(* step is one of RequestedRuns or shows nothing of it.                    *)
(***************************************************************************)
RunsInOnePool ==
  \A r \in Requests, m, n \in Instances :
    r \in running[m] => runs[r] = 1 /\ (r \in running[n] => m = n)

Statuses == [r \in Requests |-> execution[r].status]
Active == UNION {running[n] : n \in Instances}

RunsInv == TypeOK /\ PlaceInv /\ RunsInOnePool

LEMMA InitRuns == Init => RunsInv /\ Runs!Init
<1> SUFFICES ASSUME Init PROVE RunsInv /\ Runs!Init
  OBVIOUS
<1>1. RunsInOnePool
  BY DEF Init, RunsInOnePool
<1>2. Runs!Init
  BY DEF Init, Runs!Init, NoExecution
<1> QED
  BY <1>1, <1>2, InitTypes, InitPlaces DEF RunsInv

LEMMA StepRunsInOnePool == RunsInv /\ [Next]_vars => RunsInOnePool'
<1> SUFFICES ASSUME RunsInv, [Next]_vars PROVE RunsInOnePool'
  OBVIOUS
<1> USE DEF RunsInv, loopVars, poolVars, boundVars, historyVars
<1>1. CASE UNCHANGED <<running, runs>>
  BY <1>1 DEF RunsInOnePool
<1>2. ASSUME NEW n \in Instances, NEW r \in Requests, StartRun(n, r)
      PROVE  RunsInOnePool'
  <2>1. /\ \A m \in Instances, x \in Requests :
             x \in running'[m] <=> x \in running[m] \/ (x = r /\ m = n)
        /\ runs'[r] = runs[r] + 1
        /\ \A x \in Requests \ {r} : runs'[x] = runs[x]
    BY <1>2 DEF StartRun, TypeOK
  <2>2. runs[r] = 0
    BY <1>2 DEF StartRun, PlaceInv, Places
  <2>3. \A m \in Instances : r \notin running[m]
    BY <2>2 DEF RunsInOnePool
  <2> QED
    BY <2>1, <2>2, <2>3 DEF RunsInOnePool
<1>3. ASSUME \A m \in Instances : running'[m] \subseteq running[m], UNCHANGED runs
      PROVE  RunsInOnePool'
  BY <1>3 DEF RunsInOnePool
<1>4. ASSUME NEW n \in Instances, Crash(n)
      PROVE  RunsInOnePool'
  BY <1>3, <1>4 DEF Crash, TypeOK
<1>5. ASSUME NEW n \in Instances, NEW r \in Requests, FinishRun(n, r)
      PROVE  RunsInOnePool'
  BY <1>3, <1>5 DEF FinishRun, TypeOK
<1> QED
  BY <1>1, <1>2, <1>4, <1>5
     DEF Next, vars, NextTimeslot, Drain, ItemStep, CreateExecution, Collide, Submit,
         ItemError, CreateFails, FailItem, IterationRaises, TimeoutCheck,
         InsertEvent, handle_manual_event_workflow, TimeoutFinish

\* The row of one request is written.
LEMMA StatusWritten ==
  ASSUME TypeOK, NEW r \in Requests, NEW row,
         execution' = [execution EXCEPT ![r] = row]
  PROVE  Statuses' = [Statuses EXCEPT ![r] = row.status]
  BY DEF TypeOK, Statuses

LEMMA StatusFinished ==
  ASSUME TypeOK, NEW r \in Requests, NEW status, FinishExecution(r, status)
  PROVE  Statuses' = [Statuses EXCEPT ![r] = status]
<1> DEFINE row == [status |-> status, locked |-> FALSE, age |-> execution[r].age]
<1>1. execution' = [execution EXCEPT ![r] = row]
  BY DEF FinishExecution
<1>2. row.status = status
  OBVIOUS
<1> HIDE DEF row
<1> QED
  BY <1>1, <1>2, StatusWritten

\* A request without a row gets one, and the row is counted.
LEMMA RowOpened ==
  ASSUME RunsInv, NEW r \in Requests, execution[r].status = "none",
         execution' = [execution EXCEPT ![r] = NewExecution],
         created' = [created EXCEPT ![r] = @ + 1],
         UNCHANGED <<runs, running>>
  PROVE  Runs!Open(r)
<1>1. created[r] = 0
  BY DEF RunsInv, PlaceInv, Rows
<1>2. Statuses' = [Statuses EXCEPT ![r] = "in_progress"]
  <2>1. Statuses' = [Statuses EXCEPT ![r] = NewExecution.status]
    BY StatusWritten DEF RunsInv
  <2> QED
    BY <2>1 DEF NewExecution
<1>3. created' = [created EXCEPT ![r] = 1]
  BY <1>1
<1>4. Statuses[r] = "none"
  BY DEF Statuses
<1> QED
  BY <1>1, <1>2, <1>3, <1>4 DEF Runs!Open, Statuses

\* Steps that show nothing: they move requests between places.
LEMMA QuietSteps ==
  ASSUME NEW n \in Instances,
         \/ Drain(n) \/ Collide(n) \/ Submit(n) \/ CreateFails(n)
         \/ IterationRaises(n) \/ TimeoutCheck(n)
  PROVE  UNCHANGED Runs!vars
  BY DEF Drain, Collide, Submit, CreateFails, IterationRaises, TimeoutCheck,
         poolVars, historyVars, Runs!vars

LEMMA RequestSteps ==
  ASSUME RunsInv, NEW n \in Instances, NEW r \in Requests
  PROVE  /\ InsertEvent(n, r) => Runs!Accept(r)
         /\ handle_manual_event_workflow(n, r) => Runs!AcceptManual(r)
<1>1. ASSUME InsertEvent(n, r) PROVE Runs!Accept(r)
  BY <1>1 DEF InsertEvent, poolVars, historyVars, Runs!Accept
<1>2. ASSUME handle_manual_event_workflow(n, r) PROVE Runs!AcceptManual(r)
  <2>1. execution[r].status = "none"
    BY <1>2 DEF handle_manual_event_workflow, RunsInv, PlaceInv, Rows
  <2>2. Runs!Open(r)
    BY <1>2, <2>1, RowOpened DEF handle_manual_event_workflow, poolVars
  <2> QED
    BY <1>2, <2>2 DEF handle_manual_event_workflow, Runs!AcceptManual
<1> QED
  BY <1>1, <1>2

\* The loop creates the row of an event only: a manual request in a batch has
\* one from the start, which ManualHasRow says.
ManualHasRow == \A r \in Manual : r \in arrived => execution[r].status # "none"

LEMMA CreateOpens ==
  ASSUME RunsInv, ManualHasRow, NEW n \in Instances, CreateExecution(n)
  PROVE  \E r \in Requests : Runs!Create(r)
<1> PICK r \in Requests : r = Head(batch[n]).request
  BY BatchHead DEF CreateExecution, RunsInv
<1>1. InBatch(r, n)
  BY HeadOfSeq DEF CreateExecution, InBatch, RunsInv, TypeOK
<1>2. r \in arrived /\ execution[r].status = "none"
  BY <1>1 DEF RunsInv, PlaceInv, Places, CreateExecution, HasExecution
<1>3. r \notin Manual
  BY <1>2 DEF ManualHasRow
<1>4. /\ execution' = [execution EXCEPT ![r] = NewExecution]
      /\ created' = [created EXCEPT ![r] = @ + 1]
      /\ UNCHANGED <<arrived, runs, running>>
  BY DEF CreateExecution, poolVars
<1>5. Runs!Open(r)
  BY <1>2, <1>4, RowOpened
<1> QED
  BY <1>2, <1>3, <1>4, <1>5 DEF Runs!Create

LEMMA StartStarts ==
  ASSUME RunsInv, NEW n \in Instances, NEW r \in Requests, StartRun(n, r)
  PROVE  Runs!Start(r)
<1>1. runs[r] = 0 /\ execution[r].status # "none"
  BY DEF RunsInv, StartRun, PlaceInv, Places, Rows
<1>2. runs' = [runs EXCEPT ![r] = 1]
  BY <1>1 DEF StartRun
<1>3. \A m \in Instances : running'[m] = IF m = n THEN running[m] \union {r} ELSE running[m]
  BY DEF RunsInv, StartRun, TypeOK
<1>4. Active' = Active \union {r}
  BY <1>3 DEF Active
<1> QED
  BY <1>1, <1>2, <1>4 DEF Runs!Start, StartRun, Active, historyVars

\* The run of r leaves its pool, the only one it is in.
LEMMA RunLeaves ==
  ASSUME RunsInv, NEW n \in Instances, NEW r \in Requests, FinishRun(n, r)
  PROVE  r \in Active /\ Active' = Active \ {r}
<1>1. r \in running[n]
  BY DEF FinishRun
<1>2. \A m \in Instances : running'[m] = IF m = n THEN running[m] \ {r} ELSE running[m]
  BY DEF RunsInv, FinishRun, TypeOK
<1>3. \A m \in Instances : r \in running[m] => m = n
  BY <1>1 DEF RunsInv, RunsInOnePool
<1> QED
  BY <1>1, <1>2, <1>3 DEF Active

LEMMA FinishReports ==
  ASSUME RunsInv, NEW n \in Instances, NEW r \in Requests, FinishRun(n, r)
  PROVE  Runs!Report(r) \/ \E lost \in SUBSET Active : Runs!Lose(lost)
<1>1. r \in Active /\ Active' = Active \ {r}
  BY RunLeaves
<1>2. UNCHANGED <<arrived, created, runs>>
  BY DEF FinishRun, historyVars
<1>3. ASSUME NEW status \in Ended, FinishExecution(r, status)
      PROVE  Runs!Report(r)
  <2>1. Statuses' = [Statuses EXCEPT ![r] = status]
    BY <1>3, StatusFinished DEF RunsInv
  <2> QED
    BY <1>1, <1>2, <2>1 DEF Runs!Report, Statuses, Active, Ended
<1>4. ASSUME UNCHANGED execution
      PROVE  {r} \in SUBSET Active /\ Runs!Lose({r})
  <2>1. Statuses' = Statuses
    BY <1>4 DEF Statuses
  <2> QED
    BY <1>1, <1>2, <2>1 DEF Runs!Lose, Statuses, Active
<1> QED
  BY <1>3, <1>4 DEF FinishRun

LEMMA FailFails ==
  ASSUME RunsInv, NEW r \in Requests, execution[r].status # "none",
         FinishExecution(r, "error"), UNCHANGED <<arrived, created, runs, running>>
  PROVE  Runs!Fail(r)
<1>1. Statuses' = [Statuses EXCEPT ![r] = "error"]
  BY StatusFinished DEF RunsInv
<1> QED
  BY <1>1 DEF Runs!Fail, Statuses

LEMMA CrashLoses ==
  ASSUME RunsInv, NEW n \in Instances, Crash(n)
  PROVE  \E lost \in SUBSET Active : Runs!Lose(lost)
<1>1. \A m \in Instances : running'[m] = IF m = n THEN {} ELSE running[m]
  BY DEF RunsInv, Crash, TypeOK
<1>2. \A x \in Requests, m \in Instances : x \in running[n] /\ x \in running[m] => m = n
  BY DEF RunsInv, RunsInOnePool
<1>3. PICK lost \in SUBSET Active : lost = running[n] /\ lost \subseteq Requests
  BY DEF RunsInv, TypeOK, Active
<1>4. Active' = Active \ lost
  BY <1>1, <1>2, <1>3 DEF Active
<1>5. UNCHANGED <<arrived, execution, created, runs>>
  BY DEF Crash, historyVars
<1>6. Runs!Lose(lost)
  BY <1>4, <1>5 DEF Runs!Lose, Active
<1> QED
  BY <1>6

\* A row, once there, stays; and a manual request has one when it is accepted.
LEMMA StepManual == RunsInv /\ ManualHasRow /\ [Next]_vars => ManualHasRow'
<1> SUFFICES ASSUME RunsInv, ManualHasRow, [Next]_vars PROVE ManualHasRow'
  OBVIOUS
<1>1. PlaceInv' /\ PlaceInv /\ \A r \in Manual : r \in Requests
  BY StepPlaces, SchedulerAssumption DEF RunsInv
<1>2. \A r \in Requests : created[r] \in Nat
  BY DEF RunsInv, TypeOK
<1>3. ASSUME NEW n \in Instances, NEW r \in Requests, handle_manual_event_workflow(n, r)
      PROVE  ManualHasRow'
  <2>1. \A x \in Requests : execution'[x] = IF x = r THEN NewExecution ELSE execution[x]
    BY <1>3 DEF handle_manual_event_workflow, RunsInv, TypeOK
  <2>2. arrived' = arrived \union {r}
    BY <1>3 DEF handle_manual_event_workflow
  <2> QED
    BY <1>1, <2>1, <2>2 DEF ManualHasRow, NewExecution
<1>4. ASSUME NEW n \in Instances, NEW r \in Requests, InsertEvent(n, r)
      PROVE  ManualHasRow'
  BY <1>4 DEF InsertEvent, ManualHasRow
<1>5. ASSUME NEW n \in Instances, CreateExecution(n)
      PROVE  ManualHasRow'
  <2>1. /\ created' = [created EXCEPT ![Head(batch[n]).request] = @ + 1]
        /\ arrived' = arrived
    BY <1>5 DEF CreateExecution
  <2>2. \A x \in Requests : created'[x] = created[x] \/ created'[x] = created[x] + 1
    BY <2>1 DEF RunsInv, TypeOK
  <2> QED
    BY <1>1, <1>2, <2>1, <2>2 DEF ManualHasRow, PlaceInv, Rows
<1>6. CASE UNCHANGED <<created, arrived>>
  BY <1>1, <1>6 DEF ManualHasRow, PlaceInv, Rows
<1> QED
  BY <1>3, <1>4, <1>5, <1>6
     DEF Next, vars, historyVars, NextTimeslot, Drain, ItemStep, Collide, Submit,
         ItemError, CreateFails, FailItem, IterationRaises, TimeoutCheck, Crash,
         StartRun, FinishRun, TimeoutFinish

LEMMA StepRuns ==
  RunsInv /\ ManualHasRow /\ [Next]_vars => [Runs!Next]_(Runs!vars)
<1> SUFFICES ASSUME RunsInv, ManualHasRow, [Next]_vars
             PROVE  Runs!Next \/ UNCHANGED Runs!vars
  OBVIOUS
<1>1. CASE UNCHANGED vars
  BY <1>1 DEF vars, poolVars, historyVars, Runs!vars
<1>2. ASSUME NEW n \in Instances,
             \/ Drain(n) \/ Collide(n) \/ Submit(n) \/ CreateFails(n)
             \/ IterationRaises(n) \/ TimeoutCheck(n)
      PROVE  UNCHANGED Runs!vars
  BY <1>2, QuietSteps
<1>3. CASE NextTimeslot
  <2>1. Statuses' = Statuses
    BY <1>3 DEF NextTimeslot, RunsInv, TypeOK, Execution, Statuses
  <2> QED
    BY <1>3, <2>1 DEF NextTimeslot, poolVars, historyVars, Runs!vars, Statuses
<1>4. ASSUME NEW n \in Instances, CreateExecution(n)
      PROVE  Runs!Next
  BY <1>4, CreateOpens DEF Runs!Next
<1>5. ASSUME NEW n \in Instances, FailItem(n)
      PROVE  Runs!Next
  <2>1. PICK r \in Requests : r = Head(batch[n]).request
    BY <1>5, BatchHead DEF FailItem, RunsInv
  <2>2. Runs!Fail(r)
    BY <1>5, <2>1, FailFails DEF FailItem, HasExecution, poolVars, historyVars
  <2> QED
    BY <2>2 DEF Runs!Next
<1>6. ASSUME NEW n \in Instances, Crash(n)
      PROVE  Runs!Next
  BY <1>6, CrashLoses DEF Runs!Next, Active
<1>7. ASSUME NEW n \in Instances, NEW r \in Requests,
             InsertEvent(n, r) \/ handle_manual_event_workflow(n, r)
      PROVE  Runs!Next
  BY <1>7, RequestSteps DEF Runs!Next
<1>8. ASSUME NEW n \in Instances, NEW r \in Requests, StartRun(n, r)
      PROVE  Runs!Next
  BY <1>8, StartStarts DEF Runs!Next
<1>9. ASSUME NEW n \in Instances, NEW r \in Requests, FinishRun(n, r)
      PROVE  Runs!Next
  BY <1>9, FinishReports DEF Runs!Next, Active
<1>10. ASSUME NEW n \in Instances, NEW r \in Requests, TimeoutFinish(n, r)
       PROVE  Runs!Next
  <2>1. execution[r].status # "none"
    BY <1>10 DEF TimeoutFinish, RunsInv, PlaceInv, Rows
  <2>2. Runs!Fail(r)
    BY <1>10, <2>1, FailFails DEF TimeoutFinish, poolVars, historyVars
  <2> QED
    BY <2>2 DEF Runs!Next
<1> QED
  BY <1>1, <1>2, <1>3, <1>4, <1>5, <1>6, <1>7, <1>8, <1>9, <1>10
     DEF Next, ItemStep, ItemError

\* Whatever is put back, fails, times out or dies: a request gets one execution
\* and then one run, which records its end once; only it makes the execution a
\* success, and nothing opens an ended execution again
\* (create_workflow_execution, _run_workflow, finish_workflow_execution).
THEOREM SchedulerImplementsRequestedRuns == Spec => ImplementsRequestedRuns
<1>1. Init => RunsInv /\ ManualHasRow /\ Runs!Init
  BY InitRuns DEF Init, ManualHasRow
<1>2. RunsInv /\ ManualHasRow /\ [Next]_vars => (RunsInv /\ ManualHasRow)'
  BY StepTypes, StepPlaces, StepRunsInOnePool, StepManual DEF RunsInv
<1>3. RunsInv /\ ManualHasRow /\ [Next]_vars => [Runs!Next]_(Runs!vars)
  BY StepRuns
<1> QED
  BY <1>1, <1>2, <1>3, PTL DEF Spec, ImplementsRequestedRuns, Runs!Spec
=============================================================================
