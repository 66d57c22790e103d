--------------------------- MODULE Investigation ---------------------------
(***************************************************************************)
(* The keep-aiops control plane from the signed webhook to the written     *)
(* back RCA: the event receiver (event_bridge/router.py) and the           *)
(* investigation state machine (orchestrator/service.py).                  *)
(*                                                                         *)
(* One uvicorn process (Dockerfile, replicaCount 1).  The receiver is an   *)
(* async function that makes blocking calls only, so two requests never    *)
(* interleave inside it; the runs are background tasks on threads, and     *)
(* interleave with the receiver and with each other between any two        *)
(* commits.  A restart loses every task and every handler; the tables and  *)
(* what was written to Keep survive it.                                    *)
(***************************************************************************)
EXTENDS Naturals, FiniteSets

CONSTANTS
  Incidents,                   \* the incidents (of one tenant) events are about
  Events,                      \* the envelopes Keep may POST, any number of times
  MaxConcurrentInvestigations, \* settings.max_concurrent_investigations
  MaxRestarts                  \* bound: how often the process may restart

EventTypes == {"incident.created", "incident.updated", "incident.resolved"}

\* severe: the severity is in the tenant's auto_investigate_severities.
Envelope == [id : Nat, type : EventTypes, subject : Incidents, severe : BOOLEAN]

ASSUME InvestigationAssumption ==
  /\ Events \subseteq Envelope
  /\ MaxConcurrentInvestigations \in Nat \ {0}
  /\ MaxRestarts \in Nat
  /\ IsFiniteSet(Incidents)

VARIABLES
  processed,     \* the table processed_event
  handling,      \* the event (at most one) between its commit and handle_event's end
  investigation, \* investigation[i]: the row of incident i, in the table investigation
  task,          \* task[i]: where the background run of i's investigation is
  slots,         \* free slots of the concurrency gate
  restarts,      \* restarts so far
  runs,          \* history: runs[i] counts the runs scheduled for i
  comments,      \* Keep: comments[i] counts the RCA comments on incident i
  enriched       \* Keep: incidents enriched with aiops.status = rca_ready

rowVars == <<processed, investigation>>
keepVars == <<comments, enriched>>
vars == <<rowVars, handling, task, slots, restarts, runs, keepVars>>

-----------------------------------------------------------------------------
Statuses == {"none", "queued", "gathering", "hypothesizing", "rca_ready", "failed"}
RUNNING_STATUSES == {"gathering", "hypothesizing"}
Open == {"queued"} \union RUNNING_STATUSES

\* draft: rca_draft, the evidence and the hypotheses are persisted.
InvestigationRow == [status : Statuses, draft : BOOLEAN, incident_resolved : BOOLEAN]
NoInvestigation == [status |-> "none", draft |-> FALSE, incident_resolved |-> FALSE]

(***************************************************************************)
(* none: no run.  scheduled: added to the background tasks, or waiting for *)
(* a slot.  started: holds a slot.  gathering: the status gathering is     *)
(* committed.  comment, enrich: the draft is committed and is being        *)
(* written back.  failing: in an except branch of run_investigation.       *)
(***************************************************************************)
Holding == {"started", "gathering", "comment", "enrich", "failing"}
TaskStates == {"none", "scheduled"} \union Holding

Holders == {i \in Incidents : task[i] \in Holding}

-----------------------------------------------------------------------------
Init ==
  /\ processed = {}
  /\ handling = {}
  /\ investigation = [i \in Incidents |-> NoInvestigation]
  /\ task = [i \in Incidents |-> "none"]
  /\ slots = MaxConcurrentInvestigations
  /\ restarts = 0
  /\ runs = [i \in Incidents |-> 0]
  /\ comments = [i \in Incidents |-> 0]
  /\ enriched = {}

(***************************************************************************)
(* The receiver.  A duplicate is answered 202 and nothing else happens, so *)
(* it is a stuttering step and needs no disjunct.                          *)
(***************************************************************************)
receive_keep_event(e) ==
  /\ handling = {}
  /\ e \notin processed
  /\ processed' = processed \union {e}
  /\ handling' = {e}
  /\ UNCHANGED <<investigation, task, slots, restarts, runs, keepVars>>

\* Mutant of ScheduleIfCreated: an investigation that ended is opened again.
ScheduleUnlessOpen(i) ==
  IF investigation[i].status \notin Open
    THEN /\ investigation' = [investigation EXCEPT ![i].status = "queued"]
         /\ task' = [task EXCEPT ![i] = "scheduled"]
         /\ runs' = [runs EXCEPT ![i] = @ + 1]
    ELSE UNCHANGED <<investigation, task, runs>>

\* get_or_create_investigation, and the run scheduled when it created the row.
ScheduleIfCreated(i) ==
  IF investigation[i].status = "none"
    THEN /\ investigation' = [investigation EXCEPT ![i].status = "queued"]
         /\ task' = [task EXCEPT ![i] = "scheduled"]
         /\ runs' = [runs EXCEPT ![i] = @ + 1]
    ELSE UNCHANGED <<investigation, task, runs>>

HandleCreated(e) ==
  /\ e \in handling
  /\ e.type = "incident.created"
  /\ handling' = {}
  /\ IF e.severe THEN ScheduleIfCreated(e.subject)
                 ELSE UNCHANGED <<investigation, task, runs>>
  /\ UNCHANGED <<processed, slots, restarts, keepVars>>

HandleUpdated(e) ==
  /\ e \in handling
  /\ e.type = "incident.updated"
  /\ handling' = {}
  /\ UNCHANGED <<rowVars, task, slots, restarts, runs, keepVars>>

HandleResolved(e) ==
  /\ e \in handling
  /\ e.type = "incident.resolved"
  /\ handling' = {}
  /\ investigation' =
       IF investigation[e.subject].status = "none" THEN investigation
       ELSE [investigation EXCEPT ![e.subject].incident_resolved = TRUE]
  /\ UNCHANGED <<processed, task, slots, restarts, runs, keepVars>>

\* handle_event raises (the database is locked or gone): the request fails
\* with a 500, and the row in processed_event stays.
HandleRaises(e) ==
  /\ e \in handling
  /\ handling' = {}
  /\ UNCHANGED <<rowVars, task, slots, restarts, runs, keepVars>>

(***************************************************************************)
(* run_investigation, from one commit or outside call to the next.  Every  *)
(* step may raise instead, which leads to an except branch.                *)
(***************************************************************************)
AcquireGate(i) ==
  /\ task[i] = "scheduled"
  /\ slots > 0
  /\ slots' = slots - 1
  /\ task' = [task EXCEPT ![i] = "started"]
  /\ UNCHANGED <<rowVars, handling, restarts, runs, keepVars>>

Fails(i) ==
  /\ task[i] \in Holding \ {"failing"}
  /\ task' = [task EXCEPT ![i] = "failing"]
  /\ UNCHANGED <<rowVars, handling, slots, restarts, runs, keepVars>>

StartGathering(i) ==
  /\ task[i] = "started"
  /\ task' = [task EXCEPT ![i] = "gathering"]
  /\ investigation' = [investigation EXCEPT ![i].status = "gathering"]
  /\ UNCHANGED <<processed, handling, slots, restarts, runs, keepVars>>

\* Mutant of GenerateRca: the draft is written back before it is committed.
GenerateRcaUncommitted(i) ==
  /\ task[i] = "gathering"
  /\ task' = [task EXCEPT ![i] = "comment"]
  /\ investigation' = [investigation EXCEPT ![i].status = "rca_ready"]
  /\ UNCHANGED <<processed, handling, slots, restarts, runs, keepVars>>

\* One transaction: context pack, evidence, the status hypothesizing,
\* hypotheses, draft and the status rca_ready are committed together.
GenerateRca(i) ==
  /\ task[i] = "gathering"
  /\ task' = [task EXCEPT ![i] = "comment"]
  /\ investigation' =
       [investigation EXCEPT ![i].status = "rca_ready", ![i].draft = TRUE]
  /\ UNCHANGED <<processed, handling, slots, restarts, runs, keepVars>>

\* Mutant of AddComment: a failed comment call is ignored.
AddCommentBestEffort(i) ==
  /\ task[i] = "comment"
  /\ comments' \in {comments, [comments EXCEPT ![i] = @ + 1]}
  /\ task' = [task EXCEPT ![i] = "enrich"]
  /\ UNCHANGED <<rowVars, handling, slots, restarts, runs, enriched>>

\* _writeback: comment, then enrich.  Either call may take effect in Keep and
\* still fail on the way back.
AddComment(i) ==
  /\ task[i] = "comment"
  /\ comments' = [comments EXCEPT ![i] = @ + 1]
  /\ \E next \in {"enrich", "failing"} : task' = [task EXCEPT ![i] = next]
  /\ UNCHANGED <<rowVars, handling, slots, restarts, runs, enriched>>

\* The end of the run: the finally branch gives the slot back.
EndRun(i) ==
  /\ task' = [task EXCEPT ![i] = "none"]
  /\ slots' = slots + 1

EnrichIncident(i) ==
  /\ task[i] = "enrich"
  /\ enriched' = enriched \union {i}
  /\ \/ EndRun(i)
     \/ /\ task' = [task EXCEPT ![i] = "failing"]
        /\ UNCHANGED slots
  /\ UNCHANGED <<rowVars, handling, restarts, runs, comments>>

\* Mutants of MarkFailed: a status outside the state machine,
MarkFailedAsError(i) ==
  /\ task[i] = "failing"
  /\ investigation' = [investigation EXCEPT ![i].status = "error"]
  /\ EndRun(i)
  /\ UNCHANGED <<processed, handling, restarts, runs, keepVars>>

\* and an except branch that does not give the slot back.
MarkFailedKeepsSlot(i) ==
  /\ task[i] = "failing"
  /\ investigation' = [investigation EXCEPT ![i].status = "failed"]
  /\ task' = [task EXCEPT ![i] = "none"]
  /\ UNCHANGED <<processed, handling, slots, restarts, runs, keepVars>>

\* _mark_failed swallows its own failure: the status may stay as it is.
MarkFailed(i) ==
  /\ task[i] = "failing"
  /\ \/ investigation' = [investigation EXCEPT ![i].status = "failed"]
     \/ UNCHANGED investigation
  /\ EndRun(i)
  /\ UNCHANGED <<processed, handling, restarts, runs, keepVars>>

\* Mutant of Restart: the sweep runs beside the live runs, not at startup.
SweepWhileRunning ==
  /\ restarts < MaxRestarts
  /\ restarts' = restarts + 1
  /\ \E orphans \in SUBSET {i \in Incidents :
                              investigation[i].status \in RUNNING_STATUSES} :
       investigation' = [i \in Incidents |->
         IF i \in orphans THEN [investigation[i] EXCEPT !.status = "failed"]
                          ELSE investigation[i]]
  /\ UNCHANGED <<processed, handling, task, slots, runs, keepVars>>

(***************************************************************************)
(* The process dies and a new one starts.  At startup                      *)
(* fail_orphaned_investigations marks failed the running rows whose        *)
(* updated_at is old enough: any subset of them, as the process may have   *)
(* been away for a second or a day, and none if the sweep raises.          *)
(***************************************************************************)
Restart ==
  /\ restarts < MaxRestarts
  /\ restarts' = restarts + 1
  /\ handling' = {}
  /\ task' = [i \in Incidents |-> "none"]
  /\ slots' = MaxConcurrentInvestigations
  /\ \E orphans \in SUBSET {i \in Incidents :
                              investigation[i].status \in RUNNING_STATUSES} :
       investigation' = [i \in Incidents |->
         IF i \in orphans THEN [investigation[i] EXCEPT !.status = "failed"]
                          ELSE investigation[i]]
  /\ UNCHANGED <<processed, runs, keepVars>>

RunStep(i) ==
  \/ AcquireGate(i)
  \/ StartGathering(i)
  \/ GenerateRca(i)
  \/ AddComment(i)
  \/ EnrichIncident(i)
  \/ Fails(i)
  \/ MarkFailed(i)

HandleStep(e) ==
  \/ HandleCreated(e)
  \/ HandleUpdated(e)
  \/ HandleResolved(e)
  \/ HandleRaises(e)

Next ==
  \/ \E e \in Events : receive_keep_event(e) \/ HandleStep(e)
  \/ \E i \in Incidents : RunStep(i)
  \/ Restart

Spec == Init /\ [][Next]_vars

(***************************************************************************)
(* A handler that was entered ends, and a run that can move moves: every   *)
(* outside call has a timeout, and a thread waiting on the gate is woken   *)
(* when a slot is free.  Nothing makes Keep send an event.                 *)
(***************************************************************************)
FairSpec ==
  /\ Spec
  /\ WF_vars(\E e \in Events : HandleStep(e))
  /\ \A i \in Incidents : WF_vars(RunStep(i))

-----------------------------------------------------------------------------
\* Type invariant of the two tables, the tasks and what Keep received.
TypeOK ==
  /\ processed \subseteq Events
  /\ handling \subseteq Events
  /\ investigation \in [Incidents -> InvestigationRow]
  /\ task \in [Incidents -> TaskStates]
  /\ slots \in 0..MaxConcurrentInvestigations
  /\ restarts \in 0..MaxRestarts
  /\ runs \in [Incidents -> Nat]
  /\ comments \in [Incidents -> Nat]
  /\ enriched \subseteq Incidents

\* The gate neither leaks nor invents a slot, on any path through a run: no
\* more than MaxConcurrentInvestigations runs are past it, and the ones that
\* wait are not kept out for good.
SlotsAccounted == slots + Cardinality(Holders) = MaxConcurrentInvestigations

\* An incident is investigated once, however often its events are delivered,
\* whatever their order and however often the process restarts.
OneRunPerIncident == \A i \in Incidents : runs[i] <= 1

\* Keep gets at most one RCA comment per incident, and the draft it shows is
\* one the control plane has persisted.
CommentedOnceWithDraft ==
  \A i \in Incidents :
    /\ comments[i] <= 1
    /\ comments[i] = 1 => investigation[i].draft

\* An incident that Keep shows as rca_ready has its RCA comment.
EnrichedHasComment == \A i \in enriched : comments[i] = 1

\* A failed investigation stays failed: no run and no event revives it after
\* the sweep or an except branch gave up on it.
FailedIsFinal ==
  [][\A i \in Incidents : investigation[i].status = "failed" =>
                            investigation'[i].status = "failed"]_vars

\* While the process lives, every scheduled run gets through the gate and
\* ends, whatever fails on the way.
EveryRunEnds == \A i \in Incidents : task[i] = "scheduled" ~> task[i] = "none"

\* Receiver docstring, "202 once the event is durably accepted": an accepted
\* incident.created of an eligible severity has its investigation as soon as
\* its handler is done.
AcceptedIsInvestigated ==
  \A e \in processed \ handling :
    (e.type = "incident.created" /\ e.severe) =>
      investigation[e.subject].status # "none"

-----------------------------------------------------------------------------
Phase(status) == IF status \in Open THEN "open"
                 ELSE IF status = "rca_ready" THEN "ready" ELSE status

Report == INSTANCE RcaReport WITH
  phase <- [i \in Incidents |-> Phase(investigation[i].status)],
  drafted <- {i \in Incidents : investigation[i].draft}

\* Redelivered and reordered events, the gate, the runs, their failures and the
\* restarts together implement what RcaReport promises of each incident.
ImplementsReport == Report!Spec
=============================================================================
