------------------------ MODULE IncidentCorrelation ------------------------
(***************************************************************************)
(* From a saved alert to an incident: what process_event does after        *)
(* AlertIngestion saved the alert, in keep/rulesengine/rulesengine.py, the *)
(* incident queries of keep/api/core/db.py and IncidentBl.                 *)
(*                                                                         *)
(* One rule, and one value of its grouping: all alerts of the module match *)
(* and belong together.  An incident is found or created by a query and an *)
(* insert with nothing unique between them, an alert is linked and counted *)
(* in two transactions, and what a job knows of the incident is a copy:    *)
(* __save_to_db turned expire_on_commit off.  Every transaction is a step. *)
(***************************************************************************)
EXTENDS AlertIngestion, Sequences

CONSTANTS
  THRESHOLD, \* rule.threshold
  MaxUpsets  \* bound: how many jobs raise or die, and quiet periods pass

ASSUME CorrelationAssumption ==
  /\ THRESHOLD \in Nat \ {0}
  /\ MaxUpsets \in Nat
  /\ IsFiniteSet(Fingerprints)

VARIABLES
  incident,  \* the table incident, in the order of creation
  links,     \* links[n]: the fingerprints lastalerttoincident links to n
  target,    \* target[j]: the incident job j has to do with, 0 if none
  view,      \* view[j]: j's copy of target[j]
  checking,  \* checking[j]: incidents of its alert j has still to check
  resolving, \* resolving[j]: incidents j found to have only resolved alerts
  quiet,     \* alerts with a timestamp up to quiet are older than the timeframe
  pauses,    \* quiet periods so far
  faults,    \* jobs that raised or died so far
  announced, \* incidents whose creation was announced to Keep AIOps and workflows
  cutOff     \* history: incidents on which a job raised or died in these steps

incidentVars == <<incident, links, target, view, checking, resolving, quiet, pauses,
                  faults, announced, cutOff>>
vars == <<ingestionVars, incidentVars>>

-----------------------------------------------------------------------------
Row == [status : {"firing", "resolved"}, visible : BOOLEAN, count : Nat]
NewRow == [status |-> "firing", visible |-> FALSE, count |-> 0]

(***************************************************************************)
(* visible and count are the columns as j last read them.  fired is the    *)
(* sum of unresolvedCounter over the alerts read with an existing incident *)
(* and send is send_created_event.                                         *)
(***************************************************************************)
View == [visible : BOOLEAN, count : Nat, fired : Nat, send : BOOLEAN]
NoView == [visible |-> FALSE, count |-> 0, fired |-> 0, send |-> FALSE]

Numbers == 1..Len(incident)

\* The sum of unresolvedCounter over the last alerts of S, as the size of the
\* disjoint union of so many elements for each.
Total(S) == Cardinality(UNION {{f} \X (1..last[f].unresolved) : f \in S})

\* get_incident_for_grouping_rule: the newest incident of the rule, unless it
\* is closed or its last alerts are older than the timeframe.
Expired(n) ==
  \/ incident[n].status = "resolved"
  \/ /\ incident[n].count > 0
     /\ \A f \in links[n] : last[f].stamp <= quiet

Open(n) == n # 0 /\ ~Expired(n)

\* is_all_alerts_resolved, of the last alerts of an incident.
AllResolved(n) == \A f \in links[n] : last[f].job \notin Firing

-----------------------------------------------------------------------------
Init ==
  /\ InitIngestion
  /\ incident = <<>>
  /\ links = <<>>
  /\ target = [j \in Jobs |-> 0]
  /\ view = [j \in Jobs |-> NoView]
  /\ checking = [j \in Jobs |-> {}]
  /\ resolving = [j \in Jobs |-> {}]
  /\ quiet = 0
  /\ pauses = 0
  /\ faults = 0
  /\ announced = {}
  /\ cutOff = {}

(***************************************************************************)
(* The end of __save_to_db: a resolved alert may close the incidents it is *)
(* already in.  Which ones are active is read at once; then the incidents  *)
(* are looked at one by one, and each status is written by a later         *)
(* transaction.                                                            *)
(***************************************************************************)
ReadIncidents(j) ==
  /\ stage[j] = "saved"
  /\ checking' = [checking EXCEPT ![j] =
       {n \in Numbers : /\ Fingerprint[j] \in links[n]
                        /\ incident[n].status = "firing"
                        /\ incident[n].count > 0}]
  /\ Goto(j, "closing")
  /\ UNCHANGED <<tries, alert, last, clock, counter, incident, links, target,
                 view, resolving, quiet, pauses, faults, announced, cutOff>>

\* resolve_incident_if_require, what it reads ...
CheckIncident(j) ==
  /\ stage[j] = "closing"
  /\ resolving[j] = {}
  /\ \E n \in checking[j] :
       /\ checking' = [checking EXCEPT ![j] = @ \ {n}]
       /\ resolving' = [resolving EXCEPT ![j] = IF AllResolved(n) THEN {n} ELSE {}]
  /\ UNCHANGED <<ingestionVars, incident, links, target, view, quiet, pauses, faults,
                 announced, cutOff>>

\* ... and its commit.
Resolve(j) ==
  \E n \in resolving[j] :
    /\ incident' = [incident EXCEPT ![n].status = "resolved"]
    /\ resolving' = [resolving EXCEPT ![j] = @ \ {n}]
    /\ UNCHANGED <<ingestionVars, links, target, view, checking, quiet, pauses, faults,
                   announced, cutOff>>

\* All are checked, and the rules engine takes over.
EndChecks(j) ==
  /\ stage[j] = "closing"
  /\ checking[j] = {} /\ resolving[j] = {}
  /\ Goto(j, "rules")
  /\ UNCHANGED <<tries, alert, last, clock, counter, incidentVars>>

(***************************************************************************)
(* _run_cel_rules.                                                         *)
(***************************************************************************)
Found(j, n) ==
  /\ target' = [target EXCEPT ![j] = n]
  /\ view' = [view EXCEPT ![j] =
       [visible |-> incident[n].visible, count |-> incident[n].count,
        fired |-> IF incident[n].count > 0 THEN Total(links[n]) ELSE 0,
        send |-> FALSE]]

\* _get_or_create_incident, its query: only a firing alert creates an incident.
get_incident_for_grouping_rule(j) ==
  /\ stage[j] = "rules"
  /\ LET n == Len(incident)
     IN  \/ /\ Open(n)
            /\ Found(j, n)
            /\ Goto(j, "link")
         \/ /\ ~Open(n)
            /\ IF j \in Firing THEN Goto(j, "create") ELSE Goto(j, "done")
            /\ UNCHANGED <<target, view>>
  /\ UNCHANGED <<tries, alert, last, clock, counter, incident, links, checking, resolving,
                 quiet, pauses, faults, announced, cutOff>>

\* A running_number that another job took meanwhile raises IntegrityError, and
\* retry_on_db_error inserts the row again with the next one.
create_incident_for_grouping_rule(j) ==
  /\ stage[j] = "create"
  /\ incident' = Append(incident, NewRow)
  /\ links' = Append(links, {})
  /\ target' = [target EXCEPT ![j] = Len(incident) + 1]
  /\ view' = [view EXCEPT ![j] = [NoView EXCEPT !.send = TRUE]]
  /\ Goto(j, "link")
  /\ UNCHANGED <<tries, alert, last, clock, counter, checking, resolving, quiet, pauses,
                 faults, announced, cutOff>>

\* add_alerts_to_incident, its first transaction.  A fingerprint that is linked
\* already leaves the incident, and j's copy of it, as they are.
LinkAlert(j) ==
  /\ stage[j] = "link"
  /\ IF Fingerprint[j] \in links[target[j]]
       THEN Goto(j, "judge") /\ UNCHANGED links
       ELSE /\ links' = [links EXCEPT ![target[j]] = @ \union {Fingerprint[j]}]
            /\ Goto(j, "count")
  /\ UNCHANGED <<tries, alert, last, clock, counter, incident, target, view,
                 checking, resolving, quiet, pauses, faults, announced, cutOff>>

\* Mutant of CountAlerts: the count of j's copy is incremented.
CountFromCopy(j) ==
  /\ stage[j] = "count"
  /\ incident' = [incident EXCEPT ![target[j]].count = view[j].count + 1]
  /\ view' = [view EXCEPT ![j].count = view[j].count + 1,
                          ![j].visible = incident[target[j]].visible]
  /\ Goto(j, "judge")
  /\ UNCHANGED <<tries, alert, last, clock, counter, links, target, checking, resolving,
                 quiet, pauses, faults, announced, cutOff>>

\* Its second one: alerts_count is set by a subquery over the links, and the
\* copy is refreshed.
CountAlerts(j) ==
  /\ stage[j] = "count"
  /\ LET n == Cardinality(links[target[j]])
     IN  /\ incident' = [incident EXCEPT ![target[j]].count = n]
         /\ view' = [view EXCEPT ![j].count = n,
                                 ![j].visible = incident[target[j]].visible]
  /\ Goto(j, "judge")
  /\ UNCHANGED <<tries, alert, last, clock, counter, links, target, checking, resolving,
                 quiet, pauses, faults, announced, cutOff>>

\* Mutant of JudgeVisibility: only the job that created the incident announces it.
JudgeByCreator(j) ==
  /\ stage[j] = "judge"
  /\ LET reached == view[j].visible \/ view[j].count >= THRESHOLD
                                    \/ view[j].fired >= THRESHOLD
     IN  /\ incident' = [incident EXCEPT ![target[j]].visible = @ \/ reached]
         /\ view' = [view EXCEPT ![j].visible = reached, ![j].send = @ /\ reached]
  /\ Goto(j, "check")
  /\ UNCHANGED <<tries, alert, last, clock, counter, links, target, checking, resolving,
                 quiet, pauses, faults, announced, cutOff>>

\* Mutant of JudgeVisibility: more than one alert is enough for any threshold.
JudgeEarly(j) ==
  /\ stage[j] = "judge"
  /\ LET reached == view[j].count >= THRESHOLD - 1 \/ view[j].fired >= THRESHOLD - 1
     IN  IF view[j].visible
           THEN UNCHANGED <<incident, view>>
           ELSE /\ incident' = [incident EXCEPT ![target[j]].visible = @ \/ reached]
                /\ view' = [view EXCEPT ![j].visible = reached, ![j].send = reached]
  /\ Goto(j, "check")
  /\ UNCHANGED <<tries, alert, last, clock, counter, links, target, checking, resolving,
                 quiet, pauses, faults, announced, cutOff>>

\* The incident becomes visible at the threshold.  A copy that is visible
\* already keeps send_created_event: TRUE for the job that created it.
JudgeVisibility(j) ==
  /\ stage[j] = "judge"
  /\ LET reached == view[j].count >= THRESHOLD \/ view[j].fired >= THRESHOLD
     IN  IF view[j].visible
           THEN UNCHANGED <<incident, view>>
           ELSE /\ incident' = [incident EXCEPT ![target[j]].visible = @ \/ reached]
                /\ view' = [view EXCEPT ![j].visible = reached, ![j].send = reached]
  /\ Goto(j, "check")
  /\ UNCHANGED <<tries, alert, last, clock, counter, links, target, checking, resolving,
                 quiet, pauses, faults, announced, cutOff>>

\* Mutant of CheckResolution: the incident is checked for resolved alerts only.
CheckIfResolved(j) ==
  /\ stage[j] = "check"
  /\ resolving' = [resolving EXCEPT ![j] =
       IF j \notin Firing /\ view[j].count > 0 /\ AllResolved(target[j])
         THEN {target[j]} ELSE {}]
  /\ Goto(j, "announce")
  /\ UNCHANGED <<tries, alert, last, clock, counter, incident, links, target, view,
                 checking, quiet, pauses, faults, announced, cutOff>>

\* resolve_incident_if_require again, whatever the alert and the status are.
CheckResolution(j) ==
  /\ stage[j] = "check"
  /\ resolving' = [resolving EXCEPT ![j] =
       IF view[j].count > 0 /\ AllResolved(target[j]) THEN {target[j]} ELSE {}]
  /\ Goto(j, "announce")
  /\ UNCHANGED <<tries, alert, last, clock, counter, incident, links, target, view,
                 checking, quiet, pauses, faults, announced, cutOff>>

Forget(j) ==
  /\ target' = [target EXCEPT ![j] = 0]
  /\ view' = [view EXCEPT ![j] = NoView]
  /\ checking' = [checking EXCEPT ![j] = {}]
  /\ resolving' = [resolving EXCEPT ![j] = {}]

Announce(j) ==
  /\ stage[j] = "announce"
  /\ resolving[j] = {}
  /\ announced' = IF view[j].send THEN announced \union {target[j]} ELSE announced
  /\ Goto(j, "done")
  /\ Forget(j)
  /\ UNCHANGED <<tries, alert, last, clock, counter, incident, links, quiet, pauses, faults,
                 cutOff>>

(***************************************************************************)
(* A job that raises, or whose worker dies, is tried again from the start; *)
(* an exception in the checks of __save_to_db, or in the rules engine, is  *)
(* only logged.                                                            *)
(***************************************************************************)
JobRaises(j) ==
  /\ stage[j] \notin {"queued", "done", "failed"}
  /\ faults + pauses < MaxUpsets
  /\ faults' = faults + 1
  /\ \/ Retry(j)
     \/ /\ stage[j] \in {"saved", "closing"}
        /\ Goto(j, "rules")
        /\ UNCHANGED tries
     \/ /\ stage[j] \in Evaluated \ {"saved", "closing"}
        /\ Goto(j, "done")
        /\ UNCHANGED tries
  /\ cutOff' = cutOff \union {target[j]}
  /\ Forget(j)
  /\ counter' = [counter EXCEPT ![j] = 0]
  /\ UNCHANGED <<alert, last, clock, incident, links, quiet, pauses, announced>>

\* rule.timeframe passes: all alerts saved so far are old.
QuietPeriod ==
  /\ faults + pauses < MaxUpsets
  /\ quiet < clock
  /\ pauses' = pauses + 1
  /\ quiet' = clock
  /\ UNCHANGED <<ingestionVars, incident, links, target, view, checking, resolving, faults,
                 announced, cutOff>>

Correlate(j) ==
  \/ ReadIncidents(j)
  \/ CheckIncident(j)
  \/ Resolve(j)
  \/ EndChecks(j)
  \/ get_incident_for_grouping_rule(j)
  \/ create_incident_for_grouping_rule(j)
  \/ LinkAlert(j)
  \/ CountAlerts(j)
  \/ JudgeVisibility(j)
  \/ CheckResolution(j)
  \/ Announce(j)

Next ==
  \/ QuietPeriod
  \/ \E j \in Jobs :
       \/ Ingest(j) /\ UNCHANGED incidentVars
       \/ Correlate(j)
       \/ JobRaises(j)

Spec == Init /\ [][Next]_vars

-----------------------------------------------------------------------------
\* Type invariant of the tables of alerts and incidents and of the jobs.
TypeOK ==
  /\ IngestionTypeOK
  /\ incident \in Seq(Row)
  /\ links \in Seq(SUBSET Fingerprints)
  /\ Len(links) = Len(incident)
  /\ target \in [Jobs -> 0..Len(incident)]
  /\ view \in [Jobs -> View]
  /\ checking \in [Jobs -> SUBSET Numbers]
  /\ resolving \in [Jobs -> SUBSET Numbers]
  /\ quiet \in 0..clock
  /\ pauses + faults \in 0..MaxUpsets
  /\ pauses \in Nat /\ faults \in Nat
  /\ announced \subseteq Numbers
  /\ cutOff \subseteq 0..Len(incident)

At(j, n, stages) == target[j] = n /\ stage[j] \in stages

\* alerts_count is the number of linked alerts, however jobs that link and
\* jobs that count overlap, unless one of them has still to count or was cut
\* off before it did.
CountMatchesLinks ==
  \A n \in Numbers \ cutOff :
    (\A j \in Jobs : ~At(j, n, {"count"})) =>
      incident[n].count = Cardinality(links[n])

\* A visible incident was announced as created, by whichever job made it
\* visible, or is about to be.
VisibleIsAnnounced ==
  \A n \in Numbers \ cutOff :
    incident[n].visible =>
      \/ n \in announced
      \/ \E j \in Jobs : At(j, n, {"check", "announce"}) /\ view[j].send

\* The firing alerts of S saved so far.
Fired(S) == {j \in Firing : alert[j].stamp # 0 /\ Fingerprint[j] \in S}

\* An incident surfaces no earlier than its rule says: THRESHOLD fingerprints
\* are linked to it, or as many firing alerts of them were saved, although the
\* job that makes it visible judges by sums and counts it read earlier, in
\* several transactions.  A job that is tried again may save its alert, and
\* count it, twice.
VisibleIsDue ==
  (\A j \in Jobs : tries[j] = 1) =>
    \A n \in Numbers : incident[n].visible =>
      \/ Cardinality(links[n]) >= THRESHOLD
      \/ Cardinality(Fired(links[n])) >= THRESHOLD

\* When no job is left that could do it, an incident all of whose last alerts
\* are resolved is resolved: whichever of the alerts is saved, linked or
\* counted last, its job sees the others.  A job that raised may be the one:
\* its retry takes its own alert for a duplicate.
NothingLeftOpen ==
  \A n \in Numbers :
    (/\ faults = 0
     /\ AllResolved(n)
     /\ \A j \in Jobs : stage[j] \notin Evaluated)
      => incident[n].status = "resolved"
=============================================================================
