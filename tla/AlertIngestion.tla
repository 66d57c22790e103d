--------------------------- MODULE AlertIngestion ---------------------------
(***************************************************************************)
(* From a received alert to the tables alert and lastalert: process_event  *)
(* of keep/api/tasks/process_event_task.py up to the rules engine, which   *)
(* IncidentCorrelation adds.                                               *)
(*                                                                         *)
(* Every alert is one job.  Jobs run on the threads of several processes   *)
(* and share nothing but the database: a duplicate is recognised by the    *)
(* hash of the last alert, which another transaction of another job        *)
(* writes.  With Redis a job that raises is tried again from the start.    *)
(***************************************************************************)
EXTENDS Naturals, FiniteSets

CONSTANTS
  Jobs,         \* the alerts received, each the event of one process_event
  Fingerprints, \* what the alerts are about
  Fingerprint,  \* Fingerprint[j]: the fingerprint of j's alert
  Firing,       \* the jobs whose alert is firing; the others' is resolved
  Content,      \* Content[j]: what alert_hash is computed from
  MaxTries      \* max_tries of arq; 1 when there is no Redis

ASSUME IngestionAssumption ==
  /\ Fingerprint \in [Jobs -> Fingerprints]
  /\ Firing \subseteq Jobs
  /\ \A j, k \in Jobs : Content[j] = Content[k] =>
       Fingerprint[j] = Fingerprint[k] /\ (j \in Firing <=> k \in Firing)
  /\ MaxTries \in Nat \ {0}

VARIABLES
  stage,  \* stage[j]: where the job is
  tries,  \* tries[j]: how often it was started
  alert,  \* alert[j]: the newest row j inserted into the table alert
  last,   \* last[f]: the row of f in the table lastalert
  clock,  \* alerts saved so far, for the column timestamp
  counter \* counter[j]: the unresolvedCounter of the alert j is about to save

ingestionVars == <<stage, tries, alert, last, clock, counter>>

-----------------------------------------------------------------------------
\* Before and after the last alert is set; the later ones are taken by
\* IncidentCorrelation.
Unsaved == {"queued", "previous", "save", "set", "insert"}
Evaluated == {"saved", "closing", "rules", "create", "link", "count", "judge",
              "check", "announce"}
Stages == Unsaved \union Evaluated \union {"done", "failed"}

(***************************************************************************)
(* stamp is the order of timestamp, the time a row of alert was built; 0   *)
(* means that there is no row.  unresolved is event["unresolvedCounter"].  *)
(***************************************************************************)
AlertRow == [stamp : Nat, unresolved : Nat]
NoAlert == [stamp |-> 0, unresolved |-> 0]

\* A row of lastalert and, with it, the row of alert it points to.
NoLastAlert == [job |-> "none", stamp |-> 0, unresolved |-> 0]
LastAlertOf(j) ==
  [job |-> j, stamp |-> alert[j].stamp, unresolved |-> alert[j].unresolved]

HasLastAlert(f) == last[f].stamp # 0

Goto(j, s) == stage' = [stage EXCEPT ![j] = s]

\* Only a resolved alert is looked up in existing incidents.
AfterSave(j) == IF j \in Firing THEN "rules" ELSE "saved"

\* calculated_unresolved_counter, from the newest saved alert of j's fingerprint.
UnresolvedCounter(j) ==
  LET earlier == {k \in Jobs : Fingerprint[k] = Fingerprint[j] /\ alert[k].stamp # 0}
      newest  == CHOOSE k \in earlier : \A i \in earlier : alert[i].stamp <= alert[k].stamp
  IN  IF j \notin Firing THEN 0
      ELSE IF earlier = {} \/ newest \notin Firing THEN 1
      ELSE alert[newest].unresolved + 1

-----------------------------------------------------------------------------
InitIngestion ==
  /\ stage = [j \in Jobs |-> "queued"]
  /\ tries = [j \in Jobs |-> 1]
  /\ alert = [j \in Jobs |-> NoAlert]
  /\ last = [f \in Fingerprints |-> NoLastAlert]
  /\ clock = 0
  /\ counter = [j \in Jobs |-> 0]

\* A full duplicate of the last alert is dropped: nothing is saved, and neither
\* the workflows nor the rules see it.
apply_deduplication(j) ==
  /\ stage[j] = "queued"
  /\ LET f == Fingerprint[j]
     IN  IF HasLastAlert(f) /\ Content[last[f].job] = Content[j]
           THEN Goto(j, "done")
           ELSE Goto(j, "previous")
  /\ UNCHANGED <<tries, alert, last, clock, counter>>

\* __save_to_db: the previous alert is read, in a session of its own ...
ReadPrevious(j) ==
  /\ stage[j] = "previous"
  /\ counter' = [counter EXCEPT ![j] = UnresolvedCounter(j)]
  /\ Goto(j, "save")
  /\ UNCHANGED <<tries, alert, last, clock>>

\* ... and the row of alert is committed before lastalert is looked at.
SaveAlert(j) ==
  /\ stage[j] = "save"
  /\ clock' = clock + 1
  /\ alert' = [alert EXCEPT ![j] = [stamp |-> clock + 1,
                                    unresolved |-> counter[j]]]
  /\ counter' = [counter EXCEPT ![j] = 0]
  /\ Goto(j, "set")
  /\ UNCHANGED <<tries, last>>

\* Mutant of set_last_alert: the timestamps are not compared.
SetLastAlertAlways(j) ==
  /\ stage[j] = "set"
  /\ IF HasLastAlert(Fingerprint[j])
       THEN /\ last' = [last EXCEPT ![Fingerprint[j]] = LastAlertOf(j)]
            /\ Goto(j, AfterSave(j))
       ELSE /\ Goto(j, "insert")
            /\ UNCHANGED last
  /\ UNCHANGED <<tries, alert, clock, counter>>

\* SELECT ... FOR UPDATE, and the UPDATE if the row is older.  A row that does
\* not exist cannot be locked.
set_last_alert(j) ==
  /\ stage[j] = "set"
  /\ IF HasLastAlert(Fingerprint[j])
       THEN /\ last' = [last EXCEPT ![Fingerprint[j]] =
                          IF @.stamp < alert[j].stamp THEN LastAlertOf(j) ELSE @]
            /\ Goto(j, AfterSave(j))
       ELSE /\ Goto(j, "insert")
            /\ UNCHANGED last
  /\ UNCHANGED <<tries, alert, clock, counter>>

\* Mutant of Retry: one start too many.
RetryOnceMore(j) ==
  IF tries[j] <= MaxTries
    THEN /\ tries' = [tries EXCEPT ![j] = @ + 1]
         /\ Goto(j, "queued")
    ELSE /\ Goto(j, "failed")
         /\ UNCHANGED tries

\* process_event's except branch: arq starts the job again, up to MaxTries times.
Retry(j) ==
  IF tries[j] < MaxTries
    THEN /\ tries' = [tries EXCEPT ![j] = @ + 1]
         /\ Goto(j, "queued")
    ELSE /\ Goto(j, "failed")
         /\ UNCHANGED tries

\* The first row of a fingerprint.  If another job was faster the primary key
\* raises IntegrityError, which set_last_alert does not catch.
InsertLastAlert(j) ==
  /\ stage[j] = "insert"
  /\ \/ /\ ~HasLastAlert(Fingerprint[j])
        /\ last' = [last EXCEPT ![Fingerprint[j]] = LastAlertOf(j)]
        /\ Goto(j, AfterSave(j))
        /\ UNCHANGED tries
     \/ /\ HasLastAlert(Fingerprint[j])
        /\ Retry(j)
        /\ UNCHANGED last
  /\ UNCHANGED <<alert, clock, counter>>

Ingest(j) ==
  \/ apply_deduplication(j)
  \/ ReadPrevious(j)
  \/ SaveAlert(j)
  \/ set_last_alert(j)
  \/ InsertLastAlert(j)

-----------------------------------------------------------------------------
\* Type of the two tables and of the jobs.
IngestionTypeOK ==
  /\ stage \in [Jobs -> Stages]
  /\ tries \in [Jobs -> 1..MaxTries]
  /\ alert \in [Jobs -> AlertRow]
  /\ last \in [Fingerprints -> [job : Jobs \union {"none"}, stamp : Nat, unresolved : Nat]]
  /\ clock \in Nat
  /\ counter \in [Jobs -> Nat]

\* While a job evaluates workflows and rules, the last alert of its
\* fingerprint is its own or a later one, in whichever order jobs save and set
\* ("to prevent rare, but possible race condition", set_last_alert).
LastAlertIsLatest ==
  \A j \in Jobs :
    stage[j] \in Evaluated => last[Fingerprint[j]].stamp >= alert[j].stamp
=============================================================================
