------------------------ MODULE InvestigationProofs ------------------------
(***************************************************************************)
(* The safety properties of Investigation, for any incidents, events, size *)
(* of the gate and number of restarts.                                     *)
(*                                                                         *)
(* Two facts carry the proof.  The row of an incident is created once and  *)
(* never removed, so the history of its single run is readable from the    *)
(* status and the stage of its task (RunHistory).  And a task holds a slot *)
(* exactly while it is past the gate, so free slots and holders add up     *)
(* (SlotsAccounted), which is also what keeps slots in its range.          *)
(*                                                                         *)
(* To show that RcaReport is implemented, the status of the row has to     *)
(* follow the stage of the task as well (RunFollows): no event and no      *)
(* sweep changes the status while the run is alive.                        *)
(***************************************************************************)
EXTENDS Investigation, FiniteSetTheorems, TLAPS

RunHistory(i) ==
  /\ task[i] # "none" => investigation[i].status \notin {"none", "failed"}
  /\ runs[i] = IF investigation[i].status = "none" THEN 0 ELSE 1
  /\ comments[i] \in {0, 1}
  /\ investigation[i].status = "none" => comments[i] = 0
  /\ task[i] \in {"scheduled", "started", "gathering", "comment"} => comments[i] = 0
  /\ task[i] = "enrich" => comments[i] = 1
  /\ task[i] \in {"comment", "enrich"} => investigation[i].draft
  /\ comments[i] = 1 => investigation[i].draft
  /\ i \in enriched => comments[i] = 1

Types ==
  /\ processed \subseteq Events
  /\ handling \subseteq Events
  /\ investigation \in [Incidents -> InvestigationRow]
  /\ task \in [Incidents -> TaskStates]
  /\ slots \in Nat
  /\ restarts \in 0..MaxRestarts
  /\ runs \in [Incidents -> Nat]
  /\ comments \in [Incidents -> Nat]
  /\ enriched \subseteq Incidents

InvestigationInv ==
  /\ Types
  /\ SlotsAccounted
  /\ \A i \in Incidents : RunHistory(i)

-----------------------------------------------------------------------------
(***************************************************************************)
(* Counting the runs that hold a slot.                                     *)
(***************************************************************************)
LEMMA HoldersFinite == IsFiniteSet(Holders) /\ Cardinality(Holders) \in Nat
  BY InvestigationAssumption, FS_Subset, FS_CardinalityType DEF Holders

\* A task that passes the gate is one more holder.
LEMMA HolderAdded ==
  ASSUME Types, NEW i \in Incidents, task[i] \notin Holding,
         NEW s \in Holding, task' = [task EXCEPT ![i] = s]
  PROVE  Cardinality(Holders') = Cardinality(Holders) + 1
<1>1. Holders' = Holders \union {i}
  BY DEF Types, Holders
<1>2. i \notin Holders
  BY DEF Holders
<1> QED
  BY <1>1, <1>2, HoldersFinite, FS_AddElement

\* A task that ends is one holder less.
LEMMA HolderRemoved ==
  ASSUME Types, NEW i \in Incidents, task[i] \in Holding,
         task' = [task EXCEPT ![i] = "none"]
  PROVE  Cardinality(Holders') = Cardinality(Holders) - 1
<1>1. Holders' = Holders \ {i}
  BY DEF Types, Holders, Holding
<1>2. i \in Holders
  BY DEF Holders
<1> QED
  BY <1>1, <1>2, HoldersFinite, FS_RemoveElement

\* A task that moves on the same side of the gate changes nothing.
LEMMA HoldersKept ==
  ASSUME Types, NEW i \in Incidents, NEW s \in TaskStates,
         task[i] \in Holding <=> s \in Holding,
         task' = [task EXCEPT ![i] = s]
  PROVE  Holders' = Holders
  BY DEF Types, Holders

-----------------------------------------------------------------------------
LEMMA InitInv == Init => InvestigationInv
<1> SUFFICES ASSUME Init PROVE InvestigationInv
  OBVIOUS
<1>1. Types
  BY InvestigationAssumption
     DEF Init, Types, InvestigationRow, NoInvestigation, Statuses, TaskStates
<1>2. SlotsAccounted
  <2>1. Holders = {}
    BY DEF Init, Holders, Holding
  <2> QED
    BY <2>1, FS_EmptySet, InvestigationAssumption DEF Init, SlotsAccounted
<1>3. ASSUME NEW i \in Incidents PROVE RunHistory(i)
  BY DEF Init, RunHistory, NoInvestigation
<1> QED
  BY <1>1, <1>2, <1>3 DEF InvestigationInv

(***************************************************************************)
(* The receiver.                                                           *)
(***************************************************************************)
\* Creating the row starts its run: none of it has happened before.
LEMMA CreatedKeepsInv ==
  ASSUME InvestigationInv, NEW e \in Events, HandleCreated(e)
  PROVE  InvestigationInv'
<1> DEFINE i == e.subject
<1> i \in Incidents
  BY InvestigationAssumption DEF Envelope
<1> USE DEF InvestigationInv
<1>1. CASE e.severe /\ investigation[i].status = "none"
  <2>1. /\ investigation' = [investigation EXCEPT ![i].status = "queued"]
        /\ task' = [task EXCEPT ![i] = "scheduled"]
        /\ runs' = [runs EXCEPT ![i] = @ + 1]
        /\ handling' = {}
        /\ UNCHANGED <<processed, slots, restarts, keepVars>>
    BY <1>1 DEF HandleCreated, ScheduleIfCreated
  <2>2. RunHistory(i) /\ task[i] = "none"
    BY <1>1 DEF RunHistory
  <2>3. Types'
    BY <2>1 DEF Types, InvestigationRow, Statuses, TaskStates, keepVars
  <2>4. SlotsAccounted'
    BY <2>1, <2>2, HoldersKept DEF SlotsAccounted, TaskStates, Holding
  <2>5. ASSUME NEW j \in Incidents PROVE RunHistory(j)'
    BY <2>1, <2>2, <1>1 DEF Types, InvestigationRow, RunHistory, keepVars
  <2> QED
    BY <2>3, <2>4, <2>5
<1>2. CASE ~(e.severe /\ investigation[i].status = "none")
  <2>1. handling' = {}
        /\ UNCHANGED <<rowVars, task, slots, restarts, runs, keepVars>>
    BY <1>2 DEF HandleCreated, ScheduleIfCreated, rowVars
  <2> QED
    BY <2>1 DEF Types, SlotsAccounted, Holders, RunHistory, rowVars, keepVars
<1> QED
  BY <1>1, <1>2

LEMMA ResolvedKeepsInv ==
  ASSUME InvestigationInv, NEW e \in Events, HandleResolved(e)
  PROVE  InvestigationInv'
<1> DEFINE i == e.subject
<1> i \in Incidents
  BY InvestigationAssumption DEF Envelope
<1> USE DEF InvestigationInv
<1>1. /\ handling' = {}
      /\ UNCHANGED <<processed, task, slots, restarts, runs, keepVars>>
  BY DEF HandleResolved
<1>2. /\ investigation' \in [Incidents -> InvestigationRow]
      /\ \A j \in Incidents :
           /\ investigation'[j].status = investigation[j].status
           /\ investigation'[j].draft = investigation[j].draft
  BY DEF HandleResolved, Types, InvestigationRow
<1>3. Types'
  BY <1>1, <1>2 DEF Types, keepVars
<1>4. SlotsAccounted'
  BY <1>1 DEF SlotsAccounted, Holders
<1>5. ASSUME NEW j \in Incidents PROVE RunHistory(j)'
  BY <1>1, <1>2 DEF RunHistory, keepVars
<1> QED
  BY <1>3, <1>4, <1>5

\* The receiver steps that change no row of an investigation.
LEMMA ReceiverKeepsInv ==
  ASSUME InvestigationInv, NEW e \in Events,
         receive_keep_event(e) \/ HandleUpdated(e) \/ HandleRaises(e)
  PROVE  InvestigationInv'
<1> USE DEF InvestigationInv
<1>1. /\ processed' \subseteq Events /\ handling' \subseteq Events
      /\ UNCHANGED <<investigation, task, slots, restarts, runs, keepVars>>
  BY DEF receive_keep_event, HandleUpdated, HandleRaises, Types, rowVars
<1> QED
  BY <1>1 DEF Types, SlotsAccounted, Holders, RunHistory, keepVars

(***************************************************************************)
(* The run.                                                                *)
(***************************************************************************)
LEMMA AcquireKeepsInv ==
  ASSUME InvestigationInv, NEW i \in Incidents, AcquireGate(i)
  PROVE  InvestigationInv'
<1> USE DEF InvestigationInv
<1>1. Types'
  BY DEF AcquireGate, Types, TaskStates, Holding, rowVars, keepVars
<1>2. SlotsAccounted'
  <2>1. Cardinality(Holders') = Cardinality(Holders) + 1
    BY HolderAdded DEF AcquireGate, Holding
  <2> QED
    BY <2>1, HoldersFinite, InvestigationAssumption
       DEF AcquireGate, SlotsAccounted, Types
<1>3. ASSUME NEW j \in Incidents PROVE RunHistory(j)'
  BY DEF AcquireGate, Types, RunHistory, rowVars, keepVars
<1> QED
  BY <1>1, <1>2, <1>3

\* Steps of a run that keep its slot.
LEMMA WorkKeepsInv ==
  ASSUME InvestigationInv, NEW i \in Incidents,
         Fails(i) \/ StartGathering(i) \/ GenerateRca(i) \/ AddComment(i)
  PROVE  InvestigationInv'
<1> USE DEF InvestigationInv
<1>1. PICK s \in Holding : task' = [task EXCEPT ![i] = s]
  BY DEF Fails, StartGathering, GenerateRca, AddComment, Holding
<1>2. task[i] \in Holding
  BY DEF Fails, StartGathering, GenerateRca, AddComment, Holding
<1>3. investigation' \in [Incidents -> InvestigationRow]
  BY DEF Fails, StartGathering, GenerateRca, AddComment, Types,
         InvestigationRow, Statuses, rowVars
<1>4. comments' \in [Incidents -> Nat]
  BY DEF Fails, StartGathering, GenerateRca, AddComment, Types, keepVars
<1>5. UNCHANGED <<processed, handling, slots, restarts, runs, enriched>>
  BY DEF Fails, StartGathering, GenerateRca, AddComment, rowVars, keepVars
<1>6. Types'
  BY <1>1, <1>3, <1>4, <1>5 DEF Types, TaskStates
<1>7. SlotsAccounted'
  BY <1>1, <1>2, <1>5, HoldersKept DEF SlotsAccounted, TaskStates
<1>8. ASSUME NEW j \in Incidents PROVE RunHistory(j)'
  <2> RunHistory(j)
    OBVIOUS
  <2>1. CASE Fails(i)
    BY <2>1 DEF Fails, Types, RunHistory, Holding, rowVars, keepVars
  <2>2. CASE StartGathering(i)
    BY <2>2 DEF StartGathering, Types, InvestigationRow, RunHistory, keepVars
  <2>3. CASE GenerateRca(i)
    BY <2>3 DEF GenerateRca, Types, InvestigationRow, RunHistory, keepVars
  <2>4. CASE AddComment(i)
    BY <2>4 DEF AddComment, Types, RunHistory, rowVars
  <2> QED
    BY <2>1, <2>2, <2>3, <2>4
<1> QED
  BY <1>6, <1>7, <1>8

\* Ending a run gives back the slot that it held.
LEMMA EndRunSlots ==
  ASSUME Types, SlotsAccounted, NEW i \in Incidents, task[i] \in Holding, EndRun(i)
  PROVE  SlotsAccounted' /\ slots' \in Nat
<1>1. Cardinality(Holders') = Cardinality(Holders) - 1
  BY HolderRemoved DEF EndRun
<1> QED
  BY <1>1, HoldersFinite, InvestigationAssumption DEF EndRun, SlotsAccounted, Types

LEMMA EnrichKeepsInv ==
  ASSUME InvestigationInv, NEW i \in Incidents, EnrichIncident(i)
  PROVE  InvestigationInv'
<1> USE DEF InvestigationInv
<1>1. /\ task[i] = "enrich"
      /\ enriched' = enriched \union {i}
      /\ UNCHANGED <<rowVars, handling, restarts, runs, comments>>
  BY DEF EnrichIncident
<1>2. PICK s \in {"none", "failing"} : task' = [task EXCEPT ![i] = s]
  BY DEF EnrichIncident, EndRun
<1>3. SlotsAccounted' /\ slots' \in Nat
  <2>1. CASE EndRun(i)
    BY <1>1, <2>1, EndRunSlots DEF Holding
  <2>2. CASE task' = [task EXCEPT ![i] = "failing"] /\ UNCHANGED slots
    <3>1. Holders' = Holders
      BY <1>1, <2>2, HoldersKept DEF TaskStates, Holding
    <3> QED
      BY <2>2, <3>1 DEF SlotsAccounted, Types
  <2> QED
    BY <2>1, <2>2 DEF EnrichIncident
<1>4. Types'
  BY <1>1, <1>2, <1>3 DEF Types, TaskStates, Holding, rowVars
<1>5. ASSUME NEW j \in Incidents PROVE RunHistory(j)'
  BY <1>1, <1>2 DEF Types, RunHistory, rowVars
<1> QED
  BY <1>3, <1>4, <1>5

LEMMA MarkFailedKeepsInv ==
  ASSUME InvestigationInv, NEW i \in Incidents, MarkFailed(i)
  PROVE  InvestigationInv'
<1> USE DEF InvestigationInv
<1>1. /\ task[i] = "failing"
      /\ task' = [task EXCEPT ![i] = "none"]
      /\ UNCHANGED <<processed, handling, restarts, runs, keepVars>>
  BY DEF MarkFailed, EndRun
<1>2. SlotsAccounted' /\ slots' \in Nat
  BY EndRunSlots DEF MarkFailed, Holding
<1>3. /\ investigation' \in [Incidents -> InvestigationRow]
      /\ \A j \in Incidents : /\ investigation'[j].draft = investigation[j].draft
                              /\ j # i => investigation'[j] = investigation[j]
      /\ investigation'[i].status \in {investigation[i].status, "failed"}
  BY DEF MarkFailed, Types, InvestigationRow, Statuses
<1>4. Types'
  BY <1>1, <1>2, <1>3 DEF Types, TaskStates, keepVars
<1>5. ASSUME NEW j \in Incidents PROVE RunHistory(j)'
  BY <1>1, <1>3 DEF Types, RunHistory, keepVars
<1> QED
  BY <1>2, <1>4, <1>5

\* A restart forgets every holder and frees every slot.
LEMMA RestartKeepsInv ==
  ASSUME InvestigationInv, Restart
  PROVE  InvestigationInv'
<1> USE DEF InvestigationInv
<1>1. /\ handling' = {} /\ restarts' \in 0..MaxRestarts
      /\ task' = [i \in Incidents |-> "none"]
      /\ slots' = MaxConcurrentInvestigations
      /\ UNCHANGED <<processed, runs, keepVars>>
  BY InvestigationAssumption DEF Restart, Types
<1>2. /\ investigation' \in [Incidents -> InvestigationRow]
      /\ \A i \in Incidents :
           /\ investigation'[i].draft = investigation[i].draft
           /\ investigation'[i].status = "none" <=> investigation[i].status = "none"
  BY DEF Restart, Types, InvestigationRow, Statuses, RUNNING_STATUSES
<1>3. Types'
  BY <1>1, <1>2, InvestigationAssumption DEF Types, TaskStates, keepVars
<1>4. SlotsAccounted'
  <2>1. Holders' = {}
    BY <1>1 DEF Holders, Holding
  <2> QED
    BY <1>1, <2>1, FS_EmptySet, InvestigationAssumption DEF SlotsAccounted
<1>5. ASSUME NEW i \in Incidents PROVE RunHistory(i)'
  BY <1>1, <1>2 DEF RunHistory, keepVars
<1> QED
  BY <1>3, <1>4, <1>5

LEMMA StepKeepsInv == InvestigationInv /\ [Next]_vars => InvestigationInv'
<1> SUFFICES ASSUME InvestigationInv, [Next]_vars PROVE InvestigationInv'
  OBVIOUS
<1>1. ASSUME NEW e \in Events, receive_keep_event(e) \/ HandleStep(e)
      PROVE  InvestigationInv'
  BY <1>1, ReceiverKeepsInv, CreatedKeepsInv, ResolvedKeepsInv DEF HandleStep
<1>2. ASSUME NEW i \in Incidents, RunStep(i)
      PROVE  InvestigationInv'
  BY <1>2, AcquireKeepsInv, WorkKeepsInv, EnrichKeepsInv, MarkFailedKeepsInv
     DEF RunStep
<1>3. CASE UNCHANGED vars
  BY <1>3 DEF InvestigationInv, Types, SlotsAccounted, Holders, RunHistory,
             vars, rowVars, keepVars
<1> QED
  BY <1>1, <1>2, <1>3, RestartKeepsInv DEF Next

\* The inductive invariant holds in every reachable state.
THEOREM InvestigationInvariance == Spec => []InvestigationInv
  BY InitInv, StepKeepsInv, PTL DEF Spec

-----------------------------------------------------------------------------
\* Tables, tasks and slots always have their types; slots stays in range
\* because the holders account for what is missing.
THEOREM InvestigationTypeCorrect == Spec => []TypeOK
<1>1. InvestigationInv => TypeOK
  BY HoldersFinite, InvestigationAssumption
     DEF InvestigationInv, Types, SlotsAccounted, TypeOK
<1> QED
  BY InvestigationInvariance, <1>1, PTL

\* The concurrency gate bounds the runs past it and loses no slot.
THEOREM GateIsSound == Spec => []SlotsAccounted
<1>1. InvestigationInv => SlotsAccounted
  BY DEF InvestigationInv
<1> QED
  BY InvestigationInvariance, <1>1, PTL

\* Redelivery, duplicates and restarts never start a second run.
THEOREM SingleRun == Spec => []OneRunPerIncident
<1>1. InvestigationInv => OneRunPerIncident
  BY DEF InvestigationInv, RunHistory, OneRunPerIncident
<1> QED
  BY InvestigationInvariance, <1>1, PTL

\* Keep gets one RCA comment at most, always of a persisted draft.
THEOREM SingleComment == Spec => []CommentedOnceWithDraft
<1>1. InvestigationInv => CommentedOnceWithDraft
  BY DEF InvestigationInv, RunHistory, CommentedOnceWithDraft
<1> QED
  BY InvestigationInvariance, <1>1, PTL

\* An incident shown as rca_ready in Keep has its comment.
THEOREM EnrichedAfterComment == Spec => []EnrichedHasComment
<1>1. InvestigationInv => EnrichedHasComment
  BY DEF InvestigationInv, Types, RunHistory, EnrichedHasComment
<1> QED
  BY InvestigationInvariance, <1>1, PTL

\* No step revives a failed investigation: its task is gone, and nothing
\* schedules a second one.
THEOREM FailedStaysFailed == Spec => FailedIsFinal
<1>1. InvestigationInv /\ [Next]_vars =>
        [\A i \in Incidents : investigation[i].status = "failed" =>
                                investigation'[i].status = "failed"]_vars
  <2> SUFFICES ASSUME InvestigationInv, Next,
                      NEW i \in Incidents, investigation[i].status = "failed"
               PROVE  investigation'[i].status = "failed"
    OBVIOUS
  <2>1. task[i] = "none"
    BY DEF InvestigationInv, RunHistory
  <2>2. ASSUME NEW e \in Events, receive_keep_event(e) \/ HandleStep(e)
        PROVE  investigation'[i].status = "failed"
    <3>1. e.subject \in Incidents
      BY InvestigationAssumption DEF Envelope
    <3>2. investigation \in [Incidents -> InvestigationRow]
      BY DEF InvestigationInv, Types
    <3>3. CASE receive_keep_event(e)
      BY <3>3 DEF receive_keep_event
    <3>4. CASE HandleCreated(e)
      <4>1. CASE ScheduleIfCreated(e.subject)
        BY <3>1, <3>2, <4>1 DEF ScheduleIfCreated
      <4> QED
        BY <3>4, <4>1 DEF HandleCreated
    <3>5. CASE HandleUpdated(e) \/ HandleRaises(e)
      BY <3>5 DEF HandleUpdated, HandleRaises, rowVars
    <3>6. CASE HandleResolved(e)
      <4>1. CASE investigation' = investigation
        BY <4>1
      <4>2. CASE investigation' =
                   [investigation EXCEPT ![e.subject].incident_resolved = TRUE]
        BY <3>1, <3>2, <4>2 DEF InvestigationRow
      <4> QED
        BY <3>6, <4>1, <4>2 DEF HandleResolved
    <3> QED
      BY <2>2, <3>3, <3>4, <3>5, <3>6 DEF HandleStep
  <2>3. ASSUME NEW j \in Incidents, RunStep(j)
        PROVE  investigation'[i].status = "failed"
    BY <2>1, <2>3
       DEF RunStep, AcquireGate, Fails, StartGathering, GenerateRca, AddComment,
           EnrichIncident, MarkFailed, InvestigationInv, Types, InvestigationRow,
           Holding, rowVars
  <2>4. CASE Restart
    BY <2>4 DEF Restart, InvestigationInv, Types, InvestigationRow, RUNNING_STATUSES
  <2> QED
    BY <2>2, <2>3, <2>4 DEF Next
<1> QED
  BY InvestigationInvariance, <1>1, PTL DEF Spec, FailedIsFinal

-----------------------------------------------------------------------------
(***************************************************************************)
(* Every step is a step of RcaReport, or none.                             *)
(***************************************************************************)
RunFollows(i) ==
  /\ task[i] \in {"scheduled", "started", "gathering"} => investigation[i].status \in Open
  /\ task[i] \in {"comment", "enrich"} => investigation[i].status = "rca_ready"

ReportInv == InvestigationInv /\ \A i \in Incidents : RunFollows(i)

Shown == [i \in Incidents |-> Phase(investigation[i].status)]
Drafted == {i \in Incidents : investigation[i].draft}

Reported == Report!Next \/ UNCHANGED Report!vars

LEMMA InitReport == Init => ReportInv /\ Report!Init
<1> SUFFICES ASSUME Init PROVE ReportInv /\ Report!Init
  OBVIOUS
<1>1. \A i \in Incidents : RunFollows(i)
  BY DEF Init, RunFollows
<1>2. Report!Init
  BY DEF Init, Report!Init, NoInvestigation, Phase, Open, RUNNING_STATUSES
<1> QED
  BY <1>1, <1>2, InitInv DEF ReportInv

\* A step that leaves status and draft of every row shows as no step.
LEMMA SameRows ==
  ASSUME \A i \in Incidents : /\ investigation'[i].status = investigation[i].status
                              /\ investigation'[i].draft = investigation[i].draft
  PROVE  Shown' = Shown /\ Drafted' = Drafted
BY DEF Shown, Drafted, Phase

\* The step of one run that writes a status.
LEMMA StatusWritten ==
  ASSUME Types, NEW i \in Incidents, NEW s,
         investigation' = [investigation EXCEPT ![i].status = s]
  PROVE  /\ investigation'[i].status = s
         /\ \A j \in Incidents \ {i} : investigation'[j] = investigation[j]
         /\ Shown' = [Shown EXCEPT ![i] = Phase(s)]
         /\ Drafted' = Drafted
<1>1. \A j \in Incidents \ {i} : investigation'[j] = investigation[j]
  BY DEF Types
<1>2. investigation'[i].status = s /\ investigation'[i].draft = investigation[i].draft
  BY DEF Types, InvestigationRow
<1>3. Drafted' = Drafted
  BY <1>1, <1>2 DEF Drafted
<1>4. Shown' = [j \in Incidents |-> IF j = i THEN Phase(s) ELSE Shown[j]]
  BY <1>1, <1>2 DEF Shown
<1>5. Shown = [j \in Incidents |-> Shown[j]]
  BY DEF Shown
<1>6. Shown' = [Shown EXCEPT ![i] = Phase(s)]
  BY <1>4, <1>5
<1> QED
  BY <1>1, <1>2, <1>3, <1>6

LEMMA HandleReports ==
  ASSUME ReportInv, NEW e \in Events, receive_keep_event(e) \/ HandleStep(e)
  PROVE  Reported /\ \A i \in Incidents : RunFollows(i)'
<1> USE DEF ReportInv, InvestigationInv
<1> PICK i \in Incidents : i = e.subject
  BY InvestigationAssumption DEF Envelope
<1>1. UNCHANGED <<comments, enriched>>
  BY DEF receive_keep_event, HandleStep, HandleCreated, HandleUpdated, HandleResolved,
         HandleRaises, keepVars
<1>2. CASE HandleCreated(e) /\ e.severe /\ investigation[i].status = "none"
  <2>1. /\ investigation' = [investigation EXCEPT ![i].status = "queued"]
        /\ task' = [task EXCEPT ![i] = "scheduled"]
    BY <1>2 DEF HandleCreated, ScheduleIfCreated
  <2>2. /\ Shown' = [Shown EXCEPT ![i] = "open"] /\ Drafted' = Drafted
        /\ investigation'[i].status = "queued"
        /\ \A j \in Incidents \ {i} : investigation'[j] = investigation[j]
    BY <2>1, StatusWritten DEF Phase, Open
  <2>3. Shown[i] = "none"
    BY <1>2 DEF Shown, Phase, Open, RUNNING_STATUSES
  <2>4. Report!Begin(i)
    BY <1>1, <2>2, <2>3 DEF Report!Begin, Shown, Drafted
  <2>5. \A j \in Incidents : RunFollows(j)'
    BY <2>1, <2>2 DEF RunFollows, Types, Open
  <2> QED
    BY <2>4, <2>5 DEF Reported, Report!Next
<1>3. CASE ~(HandleCreated(e) /\ e.severe /\ investigation[i].status = "none")
  <2>1. /\ task' = task
        /\ \A j \in Incidents : /\ investigation'[j].status = investigation[j].status
                                /\ investigation'[j].draft = investigation[j].draft
    <3>1. CASE HandleResolved(e)
      BY <3>1 DEF HandleResolved, Types, InvestigationRow
    <3>2. CASE ~HandleResolved(e)
      BY <1>3, <3>2 DEF receive_keep_event, HandleStep, HandleCreated, ScheduleIfCreated,
                        HandleUpdated, HandleRaises, rowVars
    <3> QED
      BY <3>1, <3>2
  <2>2. Shown' = Shown /\ Drafted' = Drafted
    BY <2>1, SameRows
  <2> QED
    BY <1>1, <2>1, <2>2 DEF RunFollows, Reported, Report!vars, Shown, Drafted
<1> QED
  BY <1>2, <1>3

LEMMA RunReports ==
  ASSUME ReportInv, NEW i \in Incidents, RunStep(i)
  PROVE  Reported /\ \A j \in Incidents : RunFollows(j)'
<1> USE DEF ReportInv, InvestigationInv
<1>1. CASE AcquireGate(i) \/ Fails(i)
  <2>1. UNCHANGED <<investigation, comments, enriched>>
    BY <1>1 DEF AcquireGate, Fails, rowVars, keepVars
  <2>2. \A j \in Incidents : RunFollows(j)'
    BY <1>1, <2>1 DEF AcquireGate, Fails, RunFollows, Types
  <2>3. Shown' = Shown /\ Drafted' = Drafted
    BY <2>1, SameRows
  <2> QED
    BY <2>1, <2>2, <2>3 DEF Reported, Report!vars, Shown, Drafted
<1>2. CASE StartGathering(i)
  <2>1. /\ task[i] = "started" /\ task' = [task EXCEPT ![i] = "gathering"]
        /\ investigation' = [investigation EXCEPT ![i].status = "gathering"]
        /\ UNCHANGED <<comments, enriched>>
    BY <1>2 DEF StartGathering, keepVars
  <2>2. /\ Shown' = [Shown EXCEPT ![i] = "open"] /\ Drafted' = Drafted
        /\ investigation'[i].status = "gathering"
        /\ \A j \in Incidents \ {i} : investigation'[j] = investigation[j]
    BY <2>1, StatusWritten DEF Phase, Open, RUNNING_STATUSES
  <2>3. Shown[i] = "open"
    BY <2>1 DEF RunFollows, Shown, Phase
  <2>4. Shown' = Shown
    BY <2>2, <2>3 DEF Shown
  <2>5. \A j \in Incidents : RunFollows(j)'
    BY <2>1, <2>2 DEF RunFollows, Types, Open, RUNNING_STATUSES
  <2> QED
    BY <2>1, <2>2, <2>4, <2>5 DEF Reported, Report!vars, Shown, Drafted
<1>3. CASE GenerateRca(i)
  <2>1. /\ task[i] = "gathering" /\ task' = [task EXCEPT ![i] = "comment"]
        /\ UNCHANGED <<comments, enriched>>
        /\ \A j \in Incidents \ {i} : investigation'[j] = investigation[j]
        /\ investigation'[i].status = "rca_ready" /\ investigation'[i].draft
    BY <1>3 DEF GenerateRca, keepVars, Types, InvestigationRow
  <2>2. Shown[i] = "open"
    BY <2>1 DEF RunFollows, Shown, Phase
  <2>3. Phase("rca_ready") = "ready"
    BY DEF Phase, Open, RUNNING_STATUSES
  <2>4. Shown' = [Shown EXCEPT ![i] = "ready"] /\ Drafted' = Drafted \union {i}
    BY <2>1, <2>3 DEF Shown, Drafted
  <2>5. Report!Finish(i)
    BY <2>1, <2>2, <2>4 DEF Report!Finish, Shown, Drafted
  <2>6. \A j \in Incidents : RunFollows(j)'
    BY <2>1 DEF RunFollows, Types
  <2> QED
    BY <2>5, <2>6 DEF Reported, Report!Next
<1>4. CASE AddComment(i) \/ EnrichIncident(i)
  <2>1. /\ task[i] \in {"comment", "enrich"} /\ UNCHANGED investigation
        /\ \E s \in {"none", "enrich", "failing"} : task' = [task EXCEPT ![i] = s]
        /\ task[i] = "comment" => /\ comments' = [comments EXCEPT ![i] = @ + 1]
                                  /\ UNCHANGED enriched
        /\ task[i] = "enrich" => /\ enriched' = enriched \union {i}
                                 /\ UNCHANGED comments
    BY <1>4 DEF AddComment, EnrichIncident, EndRun, rowVars
  <2>2. /\ Shown' = Shown /\ Drafted' = Drafted
        /\ Shown[i] = "ready" /\ i \in Drafted
        /\ task[i] = "comment" => comments[i] = 0
        /\ task[i] = "enrich" => comments[i] = 1
    <3>1. Shown' = Shown /\ Drafted' = Drafted
      BY <2>1, SameRows
    <3>2. Shown[i] = "ready"
      BY <2>1 DEF RunFollows, Shown, Phase, Open, RUNNING_STATUSES
    <3> QED
      BY <2>1, <3>1, <3>2 DEF RunHistory, Drafted
  <2>3. Report!Comment(i) \/ Report!Enrich(i)
    <3>1. CASE task[i] = "comment"
      <4>1. comments' = [comments EXCEPT ![i] = 1]
        BY <2>1, <2>2, <3>1
      <4> QED
        BY <2>1, <2>2, <3>1, <4>1 DEF Report!Comment, Shown, Drafted
    <3>2. CASE task[i] = "enrich"
      BY <2>1, <2>2, <3>2 DEF Report!Enrich, Shown, Drafted
    <3> QED
      BY <2>1, <3>1, <3>2
  <2>4. \A j \in Incidents : RunFollows(j)'
    BY <1>4, <2>1 DEF AddComment, EnrichIncident, EndRun, RunFollows, Types
  <2> QED
    BY <2>3, <2>4 DEF Reported, Report!Next
<1>5. CASE MarkFailed(i)
  <2>1. /\ task[i] = "failing" /\ task' = [task EXCEPT ![i] = "none"]
        /\ UNCHANGED <<comments, enriched>>
        /\ \/ investigation' = [investigation EXCEPT ![i].status = "failed"]
           \/ investigation' = investigation
    BY <1>5 DEF MarkFailed, EndRun, keepVars
  <2>2. \A j \in Incidents : RunFollows(j)'
    BY <2>1 DEF RunFollows, Types
  <2>3. CASE investigation' = investigation
    BY <2>1, <2>2, <2>3, SameRows DEF Reported, Report!vars, Shown, Drafted
  <2>4. CASE investigation' = [investigation EXCEPT ![i].status = "failed"]
    <3>1. Shown' = [Shown EXCEPT ![i] = "failed"] /\ Drafted' = Drafted
      <4>1. Phase("failed") = "failed"
        BY DEF Phase, Open, RUNNING_STATUSES
      <4> QED
        BY <2>4, <4>1, StatusWritten
    <3>2. Shown[i] \in {"open", "ready"}
      <4>1. investigation[i].status \in Statuses \ {"none", "failed"}
        BY <2>1 DEF RunHistory, Types, InvestigationRow
      <4> QED
        BY <4>1 DEF Statuses, Shown, Phase, Open, RUNNING_STATUSES
    <3>3. CASE Shown[i] = "ready"
      <4>1. Report!Withdraw(i)
        BY <2>1, <3>1, <3>3 DEF Report!Withdraw, Shown, Drafted
      <4> QED
        BY <2>2, <4>1 DEF Reported, Report!Next
    <3>4. CASE Shown[i] = "open"
      <4>1. Shown' = [j \in Incidents |-> IF j \in {i} THEN "failed" ELSE Shown[j]]
        BY <3>1 DEF Shown
      <4>2. Report!GiveUp({i})
        BY <2>1, <3>1, <3>4, <4>1 DEF Report!GiveUp, Shown, Drafted
      <4> QED
        BY <2>2, <4>2 DEF Reported, Report!Next
    <3> QED
      BY <3>2, <3>3, <3>4
  <2> QED
    BY <2>1, <2>3, <2>4
<1> QED
  BY <1>1, <1>2, <1>3, <1>4, <1>5 DEF RunStep

LEMMA RestartReports ==
  ASSUME ReportInv, Restart
  PROVE  Reported /\ \A i \in Incidents : RunFollows(i)'
<1> USE DEF ReportInv, InvestigationInv
<1>1. PICK lost \in SUBSET {i \in Incidents : investigation[i].status \in RUNNING_STATUSES} :
        investigation' = [i \in Incidents |->
          IF i \in lost THEN [investigation[i] EXCEPT !.status = "failed"]
                        ELSE investigation[i]]
  BY DEF Restart
<1>2. /\ task' = [i \in Incidents |-> "none"]
      /\ UNCHANGED <<comments, enriched>>
  BY DEF Restart, keepVars
<1>3. ASSUME NEW i \in Incidents
      PROVE  /\ i \in lost => Shown[i] = "open"
             /\ Shown'[i] = IF i \in lost THEN "failed" ELSE Shown[i]
             /\ investigation'[i].draft = investigation[i].draft
  BY <1>1 DEF Shown, Phase, Open, RUNNING_STATUSES, Types, InvestigationRow
<1>4. Drafted' = Drafted
  BY <1>3 DEF Drafted
<1>5. Shown' = [i \in Incidents |-> IF i \in lost THEN "failed" ELSE Shown[i]]
  BY <1>3 DEF Shown
<1>6. Report!GiveUp(lost)
  BY <1>1, <1>2, <1>3, <1>4, <1>5 DEF Report!GiveUp, Shown, Drafted
<1>7. \A i \in Incidents : RunFollows(i)'
  BY <1>2 DEF RunFollows
<1> QED
  BY <1>1, <1>6, <1>7 DEF Reported, Report!Next

LEMMA StepReports == ReportInv /\ [Next]_vars => ReportInv' /\ Reported
<1> SUFFICES ASSUME ReportInv, [Next]_vars PROVE ReportInv' /\ Reported
  OBVIOUS
<1>1. InvestigationInv'
  BY StepKeepsInv DEF ReportInv
<1>2. CASE UNCHANGED vars
  <2>1. UNCHANGED <<investigation, task, comments, enriched>>
    BY <1>2 DEF vars, rowVars, keepVars
  <2> QED
    BY <1>1, <2>1, SameRows DEF ReportInv, RunFollows, Reported, Report!vars, Shown, Drafted
<1> QED
  BY <1>1, <1>2, HandleReports, RunReports, RestartReports DEF Next, ReportInv

\* Whatever is redelivered, fails or restarts: an incident is investigated and
\* commented once, Keep is told only of what is drafted, and a given up
\* investigation stays so (receive_keep_event, run_investigation,
\* fail_orphaned_investigations).
THEOREM InvestigationImplementsReport == Spec => ImplementsReport
<1>1. ReportInv /\ [Next]_vars => [Report!Next]_(Report!vars)
  BY StepReports DEF Reported
<1> QED
  BY InitReport, StepReports, <1>1, PTL DEF Spec, ImplementsReport, Report!Spec
=============================================================================
