---------------------- MODULE IncidentCorrelationProofs ----------------------
(***************************************************************************)
(* The safety properties of IncidentCorrelation and AlertIngestion, for    *)
(* any jobs, fingerprints, threshold and number of retries.                *)
(*                                                                         *)
(* The count, the visibility and the resolution of an incident are each    *)
(* settled by some job that still works on it.  The invariant names that   *)
(* job: one that has linked and not counted (Counted), one that will       *)
(* announce (Visible), one that has seen, or will see, that all alerts are *)
(* resolved (Closing).  The types it needs are the few these parts rest    *)
(* on; those of the remaining columns are proved on top of it, at the end. *)
(***************************************************************************)
EXTENDS IncidentCorrelation, SequenceTheorems, FunctionTheorems, FiniteSetTheorems, TLAPS

Working == {"link", "count", "judge", "check", "announce"}

IngestionTypes ==
  /\ stage \in [Jobs -> Stages]
  /\ clock \in Nat
  /\ DOMAIN alert = Jobs /\ \A j \in Jobs : alert[j].stamp \in Nat
  /\ last = [f \in Fingerprints |-> last[f]]
  /\ \A f \in Fingerprints : last[f].stamp \in Nat

IsView(v) ==
  /\ v = [visible |-> v.visible, count |-> v.count, fired |-> v.fired, send |-> v.send]
  /\ v.count \in Nat

TableTypes ==
  /\ incident \in Seq(Row)
  /\ links \in Seq(SUBSET Fingerprints)
  /\ Len(links) = Len(incident)

JobTypes ==
  /\ target \in [Jobs -> 0..Len(incident)]
  /\ DOMAIN view = Jobs /\ \A j \in Jobs : IsView(view[j])
  /\ checking \in [Jobs -> SUBSET Numbers]
  /\ resolving \in [Jobs -> SUBSET Numbers]
  /\ faults \in Nat

\* Where a job is says what it has in hand.
Holds(j) ==
  /\ stage[j] \in Working => target[j] \in Numbers
  /\ stage[j] = "count" => Fingerprint[j] \in links[target[j]]
  /\ resolving[j] # {} => stage[j] \in {"closing", "announce"}
  /\ checking[j] # {} => stage[j] = "closing"

Latest(j) == stage[j] \in Evaluated => alert[j].stamp <= last[Fingerprint[j]].stamp

Counted(n) ==
  (n \notin cutOff /\ \A j \in Jobs : ~At(j, n, {"count"})) =>
    incident[n].count = Cardinality(links[n])

Visible(n) ==
  (n \notin cutOff /\ incident[n].visible) =>
    \/ n \in announced
    \/ \E j \in Jobs : At(j, n, {"check", "announce"}) /\ view[j].send

\* j is about to resolve n, or will find it resolved.
Closes(j, n) ==
  \/ At(j, n, {"link"}) /\ links[n] = {}
  \/ At(j, n, {"count"})
  \/ At(j, n, {"judge", "check"}) /\ view[j].count > 0
  \/ n \in resolving[j]
  \/ n \in checking[j]
  \/ stage[j] = "saved" /\ Fingerprint[j] \in links[n]

Closing(n) ==
  (faults = 0 /\ incident[n].status = "firing" /\ AllResolved(n)) =>
    \E j \in Jobs : Closes(j, n)

CorrelationInv ==
  /\ IngestionTypes /\ TableTypes /\ JobTypes
  /\ \A j \in Jobs : Holds(j) /\ Latest(j)
  /\ faults = 0 => cutOff = {}
  /\ \A n \in Numbers : Counted(n) /\ Visible(n) /\ Closing(n)

-----------------------------------------------------------------------------
LEMMA InitInv == Init => CorrelationInv
<1> SUFFICES ASSUME Init PROVE CorrelationInv
  OBVIOUS
<1>1. Numbers = {} /\ Len(incident) = 0 /\ Len(links) = 0
  BY DEF Init, Numbers
<1>2. IngestionTypes /\ TableTypes
  BY <1>1 DEF Init, InitIngestion, IngestionTypes, TableTypes, NoAlert, NoLastAlert,
              Stages, Unsaved
<1>3. JobTypes
  BY <1>1 DEF Init, JobTypes, IsView, NoView
<1>4. ASSUME NEW j \in Jobs PROVE Holds(j) /\ Latest(j)
  BY DEF Init, InitIngestion, Holds, Latest, Working, Evaluated
<1> QED
  BY <1>1, <1>2, <1>3, <1>4 DEF CorrelationInv, Init

-----------------------------------------------------------------------------
(***************************************************************************)
(* Facts about the tables.                                                 *)
(***************************************************************************)
LEMMA TableFacts ==
  ASSUME TableTypes
  PROVE  /\ Len(incident) \in Nat
         /\ Numbers = 1..Len(incident)
         /\ \A n \in Numbers : incident[n] \in Row /\ links[n] \in SUBSET Fingerprints
<1>1. Len(incident) \in Nat /\ Numbers = 1..Len(incident)
  BY LenProperties DEF TableTypes, Numbers
<1>2. \A n \in Numbers : incident[n] \in Row /\ links[n] \in SUBSET Fingerprints
  BY <1>1, ElementOfSeq DEF TableTypes
<1> QED
  BY <1>1, <1>2

LEMMA LinksFinite ==
  ASSUME TableTypes, NEW n \in Numbers
  PROVE  /\ IsFiniteSet(links[n])
         /\ Cardinality(links[n]) \in Nat
         /\ links[n] # {} => Cardinality(links[n]) > 0
<1>1. IsFiniteSet(links[n])
  BY TableFacts, CorrelationAssumption, FS_Subset
<1>2. Cardinality(links[n]) \in Nat /\ (Cardinality(links[n]) = 0 <=> links[n] = {})
  BY <1>1, FS_CardinalityType, FS_EmptySet
<1> QED
  BY <1>1, <1>2

\* A row of the table incident is written.
LEMMA IncidentWritten ==
  ASSUME TableTypes, NEW n \in Numbers, NEW row \in Row,
         incident' = [incident EXCEPT ![n] = row], UNCHANGED links
  PROVE  /\ TableTypes'
         /\ Numbers' = Numbers /\ Len(incident') = Len(incident)
         /\ incident'[n] = row
         /\ \A m \in Numbers \ {n} : incident'[m] = incident[m]
<1>1. n \in 1..Len(incident)
  BY TableFacts
<1>2. /\ incident' \in Seq(Row) /\ Len(incident') = Len(incident)
      /\ \A m \in 1..Len(incident) : incident'[m] = IF m = n THEN row ELSE incident[m]
  BY <1>1, ExceptSeq DEF TableTypes
<1> QED
  BY <1>1, <1>2, TableFacts DEF TableTypes, Numbers

\* Of two jobs, what the one has in hand does not depend on the other's stage.
LEMMA OtherStage ==
  ASSUME IngestionTypes, NEW j \in Jobs, NEW s, Goto(j, s)
  PROVE  /\ stage'[j] = s
         /\ \A k \in Jobs \ {j} : stage'[k] = stage[k]
  BY DEF IngestionTypes, Goto

(***************************************************************************)
(* A step of ingestion: j is not at an incident, before or after it.       *)
(***************************************************************************)
LEMMA IngestFrame ==
  ASSUME CorrelationInv, NEW j \in Jobs, NEW s \in Stages, Goto(j, s),
         stage[j] \in Unsaved, s \notin Working,
         IngestionTypes', UNCHANGED incidentVars,
         \A k \in Jobs : Latest(k)',
         \A n \in Numbers : AllResolved(n)' /\ ~AllResolved(n) =>
           s = "saved" /\ Fingerprint[j] \in links[n]
  PROVE  CorrelationInv'
<1> USE DEF CorrelationInv
<1>1. /\ stage'[j] = s /\ \A k \in Jobs \ {j} : stage'[k] = stage[k]
      /\ stage[j] \notin Working /\ stage[j] \notin {"closing", "saved"}
  BY OtherStage DEF Unsaved, Working
<1>2. TableTypes' /\ JobTypes' /\ Numbers' = Numbers
  BY DEF incidentVars, TableTypes, JobTypes, Numbers
<1>3. ASSUME NEW k \in Jobs PROVE Holds(k)'
  BY <1>1, <1>2 DEF incidentVars, Holds, Working
<1>4. ASSUME NEW k \in Jobs, NEW n, NEW S \in SUBSET Working
      PROVE  At(k, n, S)' <=> At(k, n, S)
  BY <1>1 DEF incidentVars, At
<1>5. ASSUME NEW n \in Numbers PROVE Counted(n)' /\ Visible(n)'
  BY <1>4 DEF incidentVars, Counted, Visible, Working
<1>6. ASSUME NEW n \in Numbers PROVE Closing(n)'
  <2> SUFFICES ASSUME faults = 0, incident[n].status = "firing", AllResolved(n)'
               PROVE  \E k \in Jobs : Closes(k, n)'
    BY DEF Closing, incidentVars
  <2>1. CASE AllResolved(n)
    <3>1. PICK k \in Jobs : Closes(k, n)
      BY <2>1 DEF Closing
    <3>2. Closes(k, n)'
      BY <1>1, <1>4, <3>1 DEF Closes, incidentVars, Holds, Working
    <3> QED
      BY <3>2
  <2>2. CASE ~AllResolved(n)
    <3>1. Closes(j, n)'
      BY <1>1, <2>2 DEF Closes, incidentVars
    <3> QED
      BY <3>1
  <2> QED
    BY <2>1, <2>2
<1> QED
  BY <1>2, <1>3, <1>5, <1>6 DEF incidentVars

-----------------------------------------------------------------------------
(***************************************************************************)
(* The steps of ingestion.                                                 *)
(***************************************************************************)
LEMMA DeduplicationKeepsInv ==
  ASSUME CorrelationInv, NEW j \in Jobs, apply_deduplication(j), UNCHANGED incidentVars
  PROVE  CorrelationInv'
<1> USE DEF CorrelationInv
<1>1. PICK s \in {"done", "previous"} : Goto(j, s)
  BY DEF apply_deduplication
<1>2. /\ stage[j] = "queued" /\ s \in Stages /\ s \notin Working
      /\ UNCHANGED <<alert, last, clock>>
  BY DEF apply_deduplication, Stages, Unsaved, Evaluated, Working
<1>3. IngestionTypes'
  BY <1>1, <1>2 DEF IngestionTypes, Goto
<1>4. \A k \in Jobs : Latest(k)'
  BY <1>1, <1>2, OtherStage DEF Latest, Evaluated
<1>5. \A n \in Numbers : AllResolved(n)' <=> AllResolved(n)
  BY <1>2 DEF AllResolved, incidentVars
<1> QED
  BY <1>1, <1>2, <1>3, <1>4, <1>5, IngestFrame DEF Unsaved

LEMMA ReadPreviousKeepsInv ==
  ASSUME CorrelationInv, NEW j \in Jobs, ReadPrevious(j), UNCHANGED incidentVars
  PROVE  CorrelationInv'
<1> USE DEF CorrelationInv
<1>1. /\ stage[j] = "previous" /\ Goto(j, "save") /\ "save" \in Stages \ Working
      /\ UNCHANGED <<alert, last, clock>>
  BY DEF ReadPrevious, Stages, Unsaved, Evaluated, Working
<1>2. IngestionTypes'
  BY <1>1 DEF IngestionTypes, Goto
<1>3. \A k \in Jobs : Latest(k)'
  BY <1>1, OtherStage DEF Latest, Evaluated
<1>4. \A n \in Numbers : AllResolved(n)' <=> AllResolved(n)
  BY <1>1 DEF AllResolved, incidentVars
<1> QED
  BY <1>1, <1>2, <1>3, <1>4, IngestFrame DEF Unsaved

LEMMA SaveKeepsInv ==
  ASSUME CorrelationInv, NEW j \in Jobs, SaveAlert(j), UNCHANGED incidentVars
  PROVE  CorrelationInv'
<1> USE DEF CorrelationInv
<1>1. /\ stage[j] = "save" /\ Goto(j, "set") /\ "set" \in Stages \ Working
      /\ last' = last /\ clock' = clock + 1
  BY DEF SaveAlert, Stages, Unsaved, Evaluated, Working
<1>2. /\ DOMAIN alert' = Jobs /\ alert'[j].stamp = clock + 1
      /\ \A k \in Jobs \ {j} : alert'[k] = alert[k]
  BY DEF SaveAlert, IngestionTypes
<1>3. IngestionTypes'
  <2>1. stage' \in [Jobs -> Stages]
    BY <1>1 DEF IngestionTypes, Goto
  <2>2. clock' \in Nat /\ \A k \in Jobs : alert'[k].stamp \in Nat
    BY <1>1, <1>2 DEF IngestionTypes
  <2> QED
    BY <1>1, <1>2, <2>1, <2>2 DEF IngestionTypes
<1>4. \A k \in Jobs : Latest(k)'
  BY <1>1, <1>2, OtherStage DEF Latest, Evaluated
<1>5. \A n \in Numbers : AllResolved(n)' <=> AllResolved(n)
  BY <1>1 DEF AllResolved, incidentVars
<1> QED
  BY <1>1, <1>3, <1>4, <1>5, IngestFrame DEF Unsaved

\* last[Fingerprint[j]] becomes j's alert, which is later than the one it was.
LEMMA LastAlertWritten ==
  ASSUME IngestionTypes, NEW j \in Jobs,
         last' = [last EXCEPT ![Fingerprint[j]] = LastAlertOf(j)]
  PROVE  /\ last' = [f \in Fingerprints |-> last'[f]]
         /\ last'[Fingerprint[j]].stamp = alert[j].stamp
         /\ last'[Fingerprint[j]].job = j
         /\ \A f \in Fingerprints \ {Fingerprint[j]} : last'[f] = last[f]
<1>1. Fingerprint[j] \in Fingerprints
  BY IngestionAssumption
<1> QED
  BY <1>1 DEF IngestionTypes, LastAlertOf

LEMMA SavedFrame ==
  ASSUME CorrelationInv, NEW j \in Jobs, stage[j] \in {"set", "insert"},
         Goto(j, AfterSave(j)), last[Fingerprint[j]].stamp <= alert[j].stamp,
         last' = [last EXCEPT ![Fingerprint[j]] = LastAlertOf(j)],
         UNCHANGED <<alert, clock>>, UNCHANGED incidentVars
  PROVE  CorrelationInv'
<1> USE DEF CorrelationInv
<1>1. /\ AfterSave(j) \in {"rules", "saved"}
      /\ j \notin Firing => AfterSave(j) = "saved"
      /\ AfterSave(j) \in Stages \ Working
  BY DEF AfterSave, Stages, Evaluated, Working
<1>2. /\ last' = [f \in Fingerprints |-> last'[f]]
      /\ last'[Fingerprint[j]].stamp = alert[j].stamp
      /\ last'[Fingerprint[j]].job = j
      /\ \A f \in Fingerprints \ {Fingerprint[j]} : last'[f] = last[f]
  BY LastAlertWritten
<1>3. IngestionTypes'
  <2>1. stage' \in [Jobs -> Stages]
    BY <1>1 DEF IngestionTypes, Goto
  <2>2. \A f \in Fingerprints : last'[f].stamp \in Nat
    BY <1>2 DEF IngestionTypes
  <2> QED
    BY <1>2, <2>1, <2>2 DEF IngestionTypes
<1>4. ASSUME NEW k \in Jobs PROVE Latest(k)'
  <2>1. Fingerprint[k] \in Fingerprints
    BY IngestionAssumption
  <2>2. last[Fingerprint[k]].stamp <= last'[Fingerprint[k]].stamp
    BY <1>2, <2>1 DEF IngestionTypes
  <2>3. /\ alert[k].stamp \in Nat /\ last[Fingerprint[k]].stamp \in Nat
        /\ last'[Fingerprint[k]].stamp \in Nat
    BY <2>1, <1>3 DEF IngestionTypes
  <2>4. CASE k = j
    BY <1>2, <2>3, <2>4 DEF Latest
  <2>5. CASE k # j
    <3>1. stage'[k] = stage[k]
      BY <2>5, OtherStage
    <3>2. SUFFICES ASSUME stage[k] \in Evaluated
                   PROVE  alert[k].stamp <= last'[Fingerprint[k]].stamp
      BY <3>1 DEF Latest
    <3>3. alert[k].stamp <= last[Fingerprint[k]].stamp
      BY <3>2 DEF Latest
    <3> QED
      BY <2>2, <2>3, <3>3
  <2> QED
    BY <2>4, <2>5
<1>5. ASSUME NEW n \in Numbers, AllResolved(n)', ~AllResolved(n)
      PROVE  AfterSave(j) = "saved" /\ Fingerprint[j] \in links[n]
  <2>1. PICK f \in links[n] : last[f].job \in Firing
    BY <1>5 DEF AllResolved
  <2>2. last'[f].job \notin Firing
    BY <1>5, <2>1 DEF AllResolved, incidentVars
  <2>3. f \in Fingerprints
    BY TableFacts
  <2>4. f = Fingerprint[j]
    BY <1>2, <2>1, <2>2, <2>3
  <2> QED
    BY <1>1, <1>2, <2>1, <2>2, <2>4
<1> QED
  BY <1>1, <1>3, <1>4, <1>5, IngestFrame DEF Unsaved

LEMMA LastUntouched ==
  ASSUME CorrelationInv, NEW j \in Jobs, NEW s \in Stages \ Working, Goto(j, s),
         stage[j] \in Unsaved,
         s \in Evaluated => alert[j].stamp <= last[Fingerprint[j]].stamp,
         UNCHANGED <<alert, last, clock>>, UNCHANGED incidentVars
  PROVE  CorrelationInv'
<1> USE DEF CorrelationInv
<1>1. IngestionTypes'
  BY DEF IngestionTypes, Goto
<1>2. \A k \in Jobs : Latest(k)'
  BY OtherStage DEF Latest
<1>3. \A n \in Numbers : AllResolved(n)' <=> AllResolved(n)
  BY DEF AllResolved, incidentVars
<1> QED
  BY <1>1, <1>2, <1>3, IngestFrame

LEMMA SetLastKeepsInv ==
  ASSUME CorrelationInv, NEW j \in Jobs, set_last_alert(j), UNCHANGED incidentVars
  PROVE  CorrelationInv'
<1> USE DEF CorrelationInv
<1>1. stage[j] = "set" /\ UNCHANGED <<alert, clock>>
  BY DEF set_last_alert
<1>2. Fingerprint[j] \in Fingerprints
  BY IngestionAssumption
<1>3. alert[j].stamp \in Nat /\ last[Fingerprint[j]].stamp \in Nat
  BY <1>2 DEF IngestionTypes
<1>4. CASE ~HasLastAlert(Fingerprint[j])
  <2>1. Goto(j, "insert") /\ last' = last
    BY <1>4 DEF set_last_alert
  <2> QED
    BY <1>1, <2>1, LastUntouched DEF Stages, Unsaved, Evaluated, Working
<1>5. CASE /\ HasLastAlert(Fingerprint[j])
           /\ last[Fingerprint[j]].stamp < alert[j].stamp
  <2>1. /\ Goto(j, AfterSave(j))
        /\ last' = [last EXCEPT ![Fingerprint[j]] = LastAlertOf(j)]
    BY <1>5 DEF set_last_alert
  <2>2. last[Fingerprint[j]].stamp <= alert[j].stamp
    BY <1>3, <1>5
  <2> QED
    BY <1>1, <2>1, <2>2, SavedFrame
<1>6. CASE /\ HasLastAlert(Fingerprint[j])
           /\ ~(last[Fingerprint[j]].stamp < alert[j].stamp)
  <2>1. /\ Goto(j, AfterSave(j))
        /\ last' = [last EXCEPT ![Fingerprint[j]] = last[Fingerprint[j]]]
    BY <1>6 DEF set_last_alert
  <2>2. last' = last
    BY <2>1, <1>2 DEF IngestionTypes
  <2>3. AfterSave(j) \in Stages \ Working
    BY DEF AfterSave, Stages, Evaluated, Working
  <2> QED
    BY <1>1, <1>3, <1>6, <2>1, <2>2, <2>3, LastUntouched DEF Unsaved
<1> QED
  BY <1>4, <1>5, <1>6

LEMMA InsertLastKeepsInv ==
  ASSUME CorrelationInv, NEW j \in Jobs, InsertLastAlert(j), UNCHANGED incidentVars
  PROVE  CorrelationInv'
<1> USE DEF CorrelationInv
<1>1. stage[j] = "insert" /\ UNCHANGED <<alert, clock>>
  BY DEF InsertLastAlert
<1>2. Fingerprint[j] \in Fingerprints
  BY IngestionAssumption
<1>3. alert[j].stamp \in Nat
  BY DEF IngestionTypes
<1>4. CASE ~HasLastAlert(Fingerprint[j])
  <2>1. /\ Goto(j, AfterSave(j))
        /\ last' = [last EXCEPT ![Fingerprint[j]] = LastAlertOf(j)]
    BY <1>4 DEF InsertLastAlert
  <2>2. last[Fingerprint[j]].stamp <= alert[j].stamp
    BY <1>3, <1>4 DEF HasLastAlert
  <2> QED
    BY <1>1, <2>1, <2>2, SavedFrame
<1>5. CASE HasLastAlert(Fingerprint[j])
  <2>1. last' = last /\ Retry(j)
    BY <1>5 DEF InsertLastAlert
  <2>2. PICK s \in {"queued", "failed"} : Goto(j, s)
    BY <2>1 DEF Retry
  <2> QED
    BY <1>1, <2>1, <2>2, LastUntouched DEF Stages, Unsaved, Evaluated, Working
<1> QED
  BY <1>4, <1>5

LEMMA IngestKeepsInv ==
  ASSUME CorrelationInv, NEW j \in Jobs, Ingest(j), UNCHANGED incidentVars
  PROVE  CorrelationInv'
BY DeduplicationKeepsInv, ReadPreviousKeepsInv, SaveKeepsInv, SetLastKeepsInv,
InsertLastKeepsInv DEF Ingest

-----------------------------------------------------------------------------
(***************************************************************************)
(* The steps of correlation: of the ingestion, only the job's own stage    *)
(* changes.                                                                *)
(***************************************************************************)
LEMMA CorrelateFrame ==
  ASSUME IngestionTypes, \A k \in Jobs : Latest(k),
         NEW j \in Jobs, stage[j] \in Evaluated,
         NEW s \in Evaluated \union {"done"}, Goto(j, s),
         UNCHANGED <<alert, last, clock>>
  PROVE  /\ IngestionTypes'
         /\ \A k \in Jobs : Latest(k)'
         /\ stage'[j] = s
         /\ \A k \in Jobs \ {j} : stage'[k] = stage[k]
<1>1. stage'[j] = s /\ \A k \in Jobs \ {j} : stage'[k] = stage[k]
  BY OtherStage
<1>2. IngestionTypes'
  BY DEF IngestionTypes, Goto, Stages
<1>3. \A k \in Jobs : Latest(k)'
  BY <1>1 DEF Latest
<1> QED
  BY <1>1, <1>2, <1>3

\* Steps of j in the checks of __save_to_db that write no table.  What j closes
\* it still closes, and an incident it is done with is closed by another job.
LEMMA ChecksFrame ==
  ASSUME CorrelationInv, NEW j \in Jobs,
         NEW s \in {"closing", "rules"}, stage[j] \in {"saved", "closing"}, Goto(j, s),
         UNCHANGED <<alert, last, clock, incident, links, target, view, faults,
                     announced, cutOff>>,
         checking' \in [Jobs -> SUBSET Numbers],
         resolving' \in [Jobs -> SUBSET Numbers],
         checking'[j] \union resolving'[j] # {} => s = "closing",
         \A k \in Jobs \ {j} : checking'[k] = checking[k] /\ resolving'[k] = resolving[k],
         \A n \in Numbers :
           faults = 0 /\ Closes(j, n) /\ AllResolved(n) /\ incident[n].status = "firing" =>
             \/ n \in checking'[j] \union resolving'[j]
             \/ \E i \in Jobs : At(i, n, {"count"})
  PROVE  CorrelationInv'
<1> USE DEF CorrelationInv
<1>1. /\ IngestionTypes' /\ \A k \in Jobs : Latest(k)'
      /\ stage'[j] = s /\ \A k \in Jobs \ {j} : stage'[k] = stage[k]
  BY CorrelateFrame DEF Evaluated
<1>2. TableTypes' /\ JobTypes' /\ Numbers' = Numbers
  BY DEF TableTypes, JobTypes, Numbers
<1>3. ASSUME NEW k \in Jobs PROVE Holds(k)'
  BY <1>1, <1>2 DEF Holds, Working
<1>4. ASSUME NEW k \in Jobs, NEW n, NEW S \in SUBSET Working
      PROVE  At(k, n, S)' <=> At(k, n, S)
  BY <1>1 DEF At, Working
<1>5. ASSUME NEW n \in Numbers PROVE Counted(n)' /\ Visible(n)'
  BY <1>4 DEF Counted, Visible, Working
<1>6. ASSUME NEW n \in Numbers PROVE Closing(n)'
  <2> SUFFICES ASSUME faults = 0, incident[n].status = "firing", AllResolved(n)
               PROVE  \E k \in Jobs : Closes(k, n)'
    BY DEF Closing, AllResolved
  <2>1. PICK k \in Jobs : Closes(k, n)
    BY DEF Closing
  <2>2. CASE k # j
    <3>1. Closes(k, n)'
      BY <1>1, <1>4, <2>1, <2>2 DEF Closes, Working
    <3> QED
      BY <3>1
  <2>3. CASE k = j /\ n \in checking'[j] \union resolving'[j]
    BY <2>3 DEF Closes
  <2>4. CASE k = j /\ n \notin checking'[j] \union resolving'[j]
    <3>1. PICK i \in Jobs : At(i, n, {"count"})
      BY <2>1, <2>4
    <3>2. At(i, n, {"count"})'
      BY <1>4, <3>1 DEF Working
    <3> QED
      BY <3>2 DEF Closes
  <2> QED
    BY <2>2, <2>3, <2>4
<1> QED
  BY <1>1, <1>2, <1>3, <1>5, <1>6

\* An incident that counts nothing yet has a job that will count.
LEMMA ReadIncidentsKeepsInv ==
  ASSUME CorrelationInv, NEW j \in Jobs, ReadIncidents(j)
  PROVE  CorrelationInv'
<1> USE DEF CorrelationInv
<1>1. /\ stage[j] = "saved" /\ Goto(j, "closing")
      /\ UNCHANGED <<alert, last, clock, incident, links, target, view, resolving, faults,
                     announced, cutOff>>
      /\ \A k \in Jobs \ {j} : checking'[k] = checking[k]
      /\ checking'[j] = {n \in Numbers : /\ Fingerprint[j] \in links[n]
                                         /\ incident[n].status = "firing"
                                         /\ incident[n].count > 0}
      /\ checking' \in [Jobs -> SUBSET Numbers]
  BY DEF ReadIncidents, JobTypes
<1>2. resolving[j] = {} /\ checking[j] = {}
  BY <1>1 DEF Holds
<1>3. ASSUME NEW n \in Numbers, Closes(j, n), incident[n].status = "firing",
             n \notin checking'[j], faults = 0
      PROVE  \E i \in Jobs : At(i, n, {"count"})
  <2>1. Fingerprint[j] \in links[n]
    BY <1>1, <1>2, <1>3 DEF Closes, At
  <2>2. ~(incident[n].count > 0)
    BY <1>1, <1>3, <2>1
  <2>3. incident[n].count # Cardinality(links[n])
    BY <2>1, <2>2, LinksFinite
  <2> QED
    BY <1>3, <2>3 DEF Counted
<1> QED
  BY <1>1, <1>2, <1>3, ChecksFrame DEF JobTypes

\* An incident that is not resolved at all stays for those that are to come.
LEMMA CheckIncidentKeepsInv ==
  ASSUME CorrelationInv, NEW j \in Jobs, CheckIncident(j)
  PROVE  CorrelationInv'
<1> USE DEF CorrelationInv
<1>1. PICK n \in checking[j] :
        /\ checking' = [checking EXCEPT ![j] = @ \ {n}]
        /\ resolving' = [resolving EXCEPT ![j] = IF AllResolved(n) THEN {n} ELSE {}]
  BY DEF CheckIncident
<1>2. /\ stage[j] = "closing" /\ resolving[j] = {} /\ n \in Numbers
      /\ UNCHANGED <<ingestionVars, incident, links, target, view, faults, announced,
                     cutOff>>
  BY DEF CheckIncident, JobTypes
<1>3. /\ checking' \in [Jobs -> SUBSET Numbers] /\ resolving' \in [Jobs -> SUBSET Numbers]
      /\ checking'[j] = checking[j] \ {n}
      /\ resolving'[j] = IF AllResolved(n) THEN {n} ELSE {}
      /\ \A k \in Jobs \ {j} : checking'[k] = checking[k] /\ resolving'[k] = resolving[k]
  BY <1>1, <1>2 DEF JobTypes
<1>4. Goto(j, "closing") /\ UNCHANGED <<alert, last, clock>>
  BY <1>2 DEF Goto, ingestionVars, IngestionTypes
<1>5. ASSUME NEW m \in Numbers, Closes(j, m), AllResolved(m)
      PROVE  m \in checking'[j] \union resolving'[j]
  BY <1>2, <1>3, <1>5 DEF Closes, At
<1> QED
  BY <1>2, <1>3, <1>4, <1>5, ChecksFrame

LEMMA EndChecksKeepsInv ==
  ASSUME CorrelationInv, NEW j \in Jobs, EndChecks(j)
  PROVE  CorrelationInv'
<1> USE DEF CorrelationInv
<1>1. /\ stage[j] = "closing" /\ Goto(j, "rules") /\ checking[j] = {} /\ resolving[j] = {}
      /\ UNCHANGED <<alert, last, clock, incidentVars>>
  BY DEF EndChecks
<1>2. ASSUME NEW n \in Numbers PROVE ~Closes(j, n)
  BY <1>1 DEF Closes, At
<1> QED
  BY <1>1, <1>2, ChecksFrame DEF incidentVars, JobTypes

LEMMA ResolveKeepsInv ==
  ASSUME CorrelationInv, NEW j \in Jobs, Resolve(j)
  PROVE  CorrelationInv'
<1> USE DEF CorrelationInv
<1>1. PICK n \in resolving[j] :
        /\ incident' = [incident EXCEPT ![n].status = "resolved"]
        /\ resolving' = [resolving EXCEPT ![j] = @ \ {n}]
        /\ UNCHANGED <<ingestionVars, links, target, view, checking, faults, announced,
                       cutOff>>
  BY DEF Resolve
<1>2. n \in Numbers /\ UNCHANGED <<stage, alert, last, clock>>
  BY <1>1 DEF JobTypes, ingestionVars
<1> DEFINE row == [incident[n] EXCEPT !.status = "resolved"]
<1>3. row \in Row /\ row.status = "resolved"
      /\ row.visible = incident[n].visible /\ row.count = incident[n].count
  BY <1>2, TableFacts DEF Row
<1>4. incident' = [incident EXCEPT ![n] = row]
  BY <1>1
<1>5. /\ TableTypes' /\ Numbers' = Numbers /\ Len(incident') = Len(incident)
      /\ incident'[n] = row /\ \A m \in Numbers \ {n} : incident'[m] = incident[m]
  <2> HIDE DEF row
  <2> QED
    BY <1>1, <1>2, <1>3, <1>4, IncidentWritten
<1>6. \A m \in Numbers : /\ incident'[m].visible = incident[m].visible
                         /\ incident'[m].count = incident[m].count
                         /\ incident'[m].status = "firing" =>
                              m # n /\ incident[m].status = "firing"
  <2> HIDE DEF row
  <2> QED
    BY <1>3, <1>5
<1> HIDE DEF row
<1>7. IngestionTypes' /\ \A k \in Jobs : Latest(k)'
  BY <1>2 DEF IngestionTypes, Latest
<1>8. /\ resolving' \in [Jobs -> SUBSET Numbers]
      /\ \A k \in Jobs : \A m \in Numbers \ {n} : m \in resolving'[k] <=> m \in resolving[k]
      /\ \A k \in Jobs : resolving'[k] # {} => resolving[k] # {}
  BY <1>1 DEF JobTypes
<1>9. JobTypes'
  BY <1>1, <1>5, <1>8 DEF JobTypes
<1>10. ASSUME NEW k \in Jobs PROVE Holds(k)'
  BY <1>1, <1>2, <1>5, <1>8 DEF Holds
<1>11. ASSUME NEW m \in Numbers PROVE Counted(m)' /\ Visible(m)'
  BY <1>1, <1>2, <1>6 DEF Counted, Visible, At
<1>12. ASSUME NEW m \in Numbers PROVE Closing(m)'
  <2> SUFFICES ASSUME faults = 0, m # n, incident[m].status = "firing", AllResolved(m)
               PROVE  \E k \in Jobs : Closes(k, m)'
    BY <1>1, <1>2, <1>6 DEF Closing, AllResolved
  <2>1. PICK k \in Jobs : Closes(k, m)
    BY DEF Closing
  <2>2. Closes(k, m)'
    BY <1>1, <1>2, <1>8, <2>1 DEF Closes, At
  <2> QED
    BY <2>2
<1> QED
  BY <1>1, <1>5, <1>7, <1>9, <1>10, <1>11, <1>12

\* Steps of j that leave the tables as they are, and what j resolves.
LEMMA TablesFrame ==
  ASSUME CorrelationInv, NEW j \in Jobs, stage[j] = "rules",
         NEW s \in {"link", "create", "done"}, Goto(j, s),
         UNCHANGED <<alert, last, clock, incident, links, checking, resolving, faults,
                     announced, cutOff>>,
         target' \in [Jobs -> 0..Len(incident)],
         DOMAIN view' = Jobs, \A k \in Jobs : IsView(view'[k]),
         s = "link" => target'[j] \in Numbers,
         \A k \in Jobs \ {j} : target'[k] = target[k] /\ view'[k] = view[k]
  PROVE  CorrelationInv'
<1> USE DEF CorrelationInv
<1>1. /\ IngestionTypes' /\ \A k \in Jobs : Latest(k)'
      /\ stage'[j] = s /\ \A k \in Jobs \ {j} : stage'[k] = stage[k]
  BY CorrelateFrame DEF Evaluated
<1>2. TableTypes' /\ JobTypes' /\ Numbers' = Numbers
  BY DEF TableTypes, JobTypes, Numbers
<1>3. ASSUME NEW k \in Jobs PROVE Holds(k)'
  BY <1>1, <1>2 DEF Holds, Working
<1>4. ASSUME NEW k \in Jobs, NEW n, NEW S \in SUBSET (Working \ {"link"})
      PROVE  At(k, n, S)' <=> At(k, n, S)
  BY <1>1 DEF At, Working
<1>5. \A k \in Jobs \ {j} : \A n : At(k, n, {"link"})' <=> At(k, n, {"link"})
  BY <1>1 DEF At
<1>6. \A n, S : ~At(j, n, S \intersect Working)
  BY DEF At, Working
<1>7. ASSUME NEW n \in Numbers PROVE Counted(n)' /\ Visible(n)'
  <2>1. Counted(n)'
    BY <1>4 DEF Counted, Working
  <2>2. Visible(n)'
    <3>1. ASSUME NEW k \in Jobs, At(k, n, {"check", "announce"}) PROVE k # j
      BY <3>1 DEF At
    <3> QED
      BY <1>4, <3>1 DEF Visible, Working
  <2> QED
    BY <2>1, <2>2
<1>8. ASSUME NEW n \in Numbers PROVE Closing(n)'
  <2> SUFFICES ASSUME faults = 0, incident[n].status = "firing", AllResolved(n)
               PROVE  \E k \in Jobs : Closes(k, n)'
    BY DEF Closing, AllResolved
  <2>1. PICK k \in Jobs : Closes(k, n)
    BY DEF Closing
  <2>2. k # j
    BY <2>1 DEF Closes, At, Holds
  <2>3. Closes(k, n)'
    BY <1>1, <2>1, <2>2 DEF Closes, At
  <2> QED
    BY <2>3
<1> QED
  BY <1>1, <1>2, <1>3, <1>7, <1>8

LEMMA FindKeepsInv ==
  ASSUME CorrelationInv, NEW j \in Jobs, get_incident_for_grouping_rule(j)
  PROVE  CorrelationInv'
<1> USE DEF CorrelationInv
<1> DEFINE n == Len(incident)
<1>1. /\ stage[j] = "rules"
      /\ UNCHANGED <<alert, last, clock, incident, links, checking, resolving, faults,
                     announced, cutOff>>
  BY DEF get_incident_for_grouping_rule
<1>2. CASE ~Open(n)
  <2>1. PICK s \in {"create", "done"} : Goto(j, s)
    BY <1>2 DEF get_incident_for_grouping_rule
  <2>2. UNCHANGED <<target, view>>
    BY <1>2 DEF get_incident_for_grouping_rule
  <2> QED
    BY <1>1, <2>1, <2>2, TablesFrame DEF JobTypes
<1>3. CASE Open(n)
  <2>1. Found(j, n) /\ Goto(j, "link")
    BY <1>3 DEF get_incident_for_grouping_rule
  <2>2. n \in Numbers /\ n \in 0..Len(incident)
    BY <1>3, TableFacts DEF Open
  <2>3. incident[n].count \in Nat
    BY <2>2, TableFacts DEF Row
  <2>4. /\ target' \in [Jobs -> 0..Len(incident)] /\ target'[j] = n
        /\ DOMAIN view' = Jobs
        /\ \A k \in Jobs \ {j} : target'[k] = target[k] /\ view'[k] = view[k]
    BY <2>1, <2>2 DEF Found, JobTypes
  <2>5. IsView(view'[j])
    BY <2>1, <2>3 DEF Found, IsView, JobTypes
  <2>6. \A k \in Jobs : IsView(view'[k])
    BY <2>4, <2>5 DEF JobTypes
  <2> QED
    BY <1>1, <2>1, <2>2, <2>4, <2>6, TablesFrame
<1> QED
  BY <1>2, <1>3

LEMMA CreateKeepsInv ==
  ASSUME CorrelationInv, NEW j \in Jobs, create_incident_for_grouping_rule(j)
  PROVE  CorrelationInv'
<1> USE DEF CorrelationInv
<1> PICK new : new = Len(incident) + 1
  OBVIOUS
<1>1. /\ stage[j] = "create" /\ Goto(j, "link")
      /\ incident' = Append(incident, NewRow) /\ links' = Append(links, {})
      /\ target' = [target EXCEPT ![j] = new]
      /\ view' = [view EXCEPT ![j] = [NoView EXCEPT !.send = TRUE]]
      /\ UNCHANGED <<alert, last, clock, checking, resolving, faults, announced, cutOff>>
  BY DEF create_incident_for_grouping_rule
<1>2. /\ IngestionTypes' /\ \A k \in Jobs : Latest(k)'
      /\ stage'[j] = "link" /\ \A k \in Jobs \ {j} : stage'[k] = stage[k]
  BY <1>1, CorrelateFrame DEF Evaluated
<1>3. NewRow \in Row
  BY DEF NewRow, Row
<1>4. /\ TableTypes'
      /\ Len(incident') = new /\ incident'[new] = NewRow /\ links'[new] = {}
      /\ \A n \in 1..Len(incident) : incident'[n] = incident[n] /\ links'[n] = links[n]
  BY <1>1, <1>3, AppendProperties DEF TableTypes
<1>5. /\ Len(incident) \in Nat
      /\ Numbers = 1..Len(incident) /\ Numbers' = 1..new
      /\ Numbers' = Numbers \union {new} /\ new \notin 0..Len(incident)
      /\ 0..Len(incident) \subseteq 0..new
  <2>1. Numbers = 1..Len(incident) /\ Numbers' = 1..new /\ Len(incident) \in Nat
    BY <1>4, TableFacts DEF Numbers
  <2> QED
    BY <2>1
<1>6. /\ target' \in [Jobs -> 0..new] /\ target'[j] = new
      /\ \A k \in Jobs \ {j} : target'[k] = target[k] /\ view'[k] = view[k]
      /\ view'[j] = [NoView EXCEPT !.send = TRUE]
      /\ DOMAIN view' = Jobs
  BY <1>1, <1>5 DEF JobTypes
<1>7. JobTypes'
  <2>1. IsView(view'[j])
    <3>1. view'[j] = [visible |-> FALSE, count |-> 0, fired |-> 0, send |-> TRUE]
      BY <1>6 DEF NoView
    <3> QED
      BY <3>1 DEF IsView
  <2>2. \A k \in Jobs : IsView(view'[k])
    BY <1>6, <2>1 DEF JobTypes
  <2> QED
    BY <1>1, <1>4, <1>5, <1>6, <2>2 DEF JobTypes
<1>8. \A k \in Jobs \ {j} : target[k] \in Numbers \union {0}
  BY <1>5 DEF JobTypes
<1>9. ASSUME NEW k \in Jobs PROVE Holds(k)'
  <2>1. CASE k = j
    BY <1>1, <1>2, <1>5, <1>6, <2>1 DEF Holds, Working
  <2>2. CASE k # j
    <3>1. /\ stage'[k] = stage[k] /\ target'[k] = target[k]
          /\ checking'[k] = checking[k] /\ resolving'[k] = resolving[k]
          /\ Holds(k)
      BY <1>1, <1>2, <1>6, <2>2
    <3>2. stage[k] \in Working =>
            target[k] \in Numbers /\ target[k] \in Numbers' /\ links'[target[k]] =
            links[target[k]]
      BY <1>4, <1>5, <3>1 DEF Holds
    <3> QED
      BY <3>1, <3>2 DEF Holds, Working
  <2> QED
    BY <2>1, <2>2
<1>10. \A n \in Numbers : n # new
  BY <1>5
<1>11. ASSUME NEW n \in Numbers, NEW k \in Jobs, NEW S \in SUBSET Working
       PROVE  At(k, n, S)' <=> At(k, n, S)
  <2>1. CASE k = j
    BY <1>1, <1>6, <1>10, <2>1 DEF At, Working
  <2>2. CASE k # j
    BY <1>2, <1>6, <2>2 DEF At
  <2> QED
    BY <2>1, <2>2
<1>12. ASSUME NEW n \in Numbers PROVE Counted(n)' /\ Visible(n)' /\ Closing(n)'
  <2>1. incident'[n] = incident[n] /\ links'[n] = links[n]
    BY <1>4, <1>5
  <2>2. Counted(n)'
    BY <1>1, <1>11, <2>1 DEF Counted, Working
  <2>3. Visible(n)'
    <3>1. ASSUME NEW k \in Jobs, At(k, n, {"check", "announce"}) PROVE k # j
      BY <1>1, <3>1 DEF At
    <3> QED
      BY <1>1, <1>6, <1>11, <2>1, <3>1 DEF Visible, Working
  <2>4. Closing(n)'
    <3> SUFFICES ASSUME faults = 0, incident[n].status = "firing", AllResolved(n)
                 PROVE  \E k \in Jobs : Closes(k, n)'
      BY <1>1, <2>1 DEF Closing, AllResolved
    <3>1. PICK k \in Jobs : Closes(k, n)
      BY DEF Closing
    <3>2. k # j
      BY <1>1, <3>1 DEF Closes, At, Holds
    <3>3. Closes(k, n)'
      BY <1>1, <1>2, <1>6, <2>1, <3>1, <3>2 DEF Closes, At
    <3> QED
      BY <3>3
  <2> QED
    BY <2>2, <2>3, <2>4
<1>13. Counted(new)' /\ Visible(new)' /\ Closing(new)'
  <2>1. Counted(new)'
    BY <1>4, FS_EmptySet DEF Counted, NewRow
  <2>2. Visible(new)'
    BY <1>4 DEF Visible, NewRow
  <2>3. Closes(j, new)'
    BY <1>2, <1>4, <1>6 DEF Closes, At
  <2> QED
    BY <2>1, <2>2, <2>3 DEF Closing
<1> QED
  BY <1>1, <1>2, <1>4, <1>5, <1>7, <1>9, <1>12, <1>13

LEMMA LinkKeepsInv ==
  ASSUME CorrelationInv, NEW j \in Jobs, LinkAlert(j)
  PROVE  CorrelationInv'
<1> USE DEF CorrelationInv
<1> PICK t : t = target[j]
  OBVIOUS
<1> PICK s \in {"judge", "count"} : Goto(j,
s) /\ (s = "judge" <=> Fingerprint[j] \in links[t])
  BY DEF LinkAlert
<1>1. /\ stage[j] = "link"
      /\ UNCHANGED <<alert, last, clock, incident, target, view, checking, resolving,
                     faults, announced, cutOff>>
      /\ links' = IF s = "judge" THEN links
                  ELSE [links EXCEPT ![t] = @ \union {Fingerprint[j]}]
  BY DEF LinkAlert
<1>2. /\ IngestionTypes' /\ \A k \in Jobs : Latest(k)'
      /\ stage'[j] = s /\ \A k \in Jobs \ {j} : stage'[k] = stage[k]
  BY <1>1, CorrelateFrame DEF Evaluated
<1>3. t \in Numbers /\ Fingerprint[j] \in Fingerprints /\ resolving[j] = {} /\ checking[j]
= {}
  BY <1>1, IngestionAssumption DEF Holds, Working
<1>4. /\ TableTypes' /\ Numbers' = Numbers
      /\ links'[t] = links[t] \union {Fingerprint[j]}
      /\ \A n \in Numbers \ {t} : links'[n] = links[n]
  <2>1. CASE s = "judge"
    BY <1>1, <2>1 DEF TableTypes, Numbers
  <2>2. CASE s = "count"
    <3>1. t \in 1..Len(links) /\ links[t] \union {Fingerprint[j]} \in SUBSET Fingerprints
      BY <1>3, TableFacts DEF TableTypes
    <3>2. links' = [links EXCEPT ![t] = links[t] \union {Fingerprint[j]}]
      BY <1>1, <2>2
    <3>3. /\ links' \in Seq(SUBSET Fingerprints) /\ Len(links') = Len(links)
          /\ links'[t] = links[t] \union {Fingerprint[j]}
          /\ \A n \in 1..Len(links) \ {t} : links'[n] = links[n]
      BY <3>1, <3>2, ExceptSeq DEF TableTypes
    <3> QED
      BY <1>1, <3>3, TableFacts DEF TableTypes, Numbers
  <2> QED
    BY <2>1, <2>2
<1>5. JobTypes'
  BY <1>1, <1>4 DEF JobTypes
<1>6. ASSUME NEW k \in Jobs PROVE Holds(k)'
  <2>1. CASE k = j
    BY <1>1, <1>2, <1>3, <1>4, <2>1 DEF Holds
  <2>2. CASE k # j
    BY <1>1, <1>2, <1>4, <2>2 DEF Holds, Working
  <2> QED
    BY <2>1, <2>2
<1>7. ASSUME NEW n \in Numbers PROVE Counted(n)'
  <2>1. CASE n = t /\ s = "count"
    BY <1>1, <1>2, <2>1 DEF Counted, At
  <2>2. CASE ~(n = t /\ s = "count")
    <3>1. links'[n] = links[n]
      BY <1>1, <1>4, <2>2
    <3>2. \A k \in Jobs : At(k, n, {"count"})' <=> At(k, n, {"count"})
      BY <1>1, <1>2, <2>2 DEF At
    <3> QED
      BY <1>1, <3>1, <3>2 DEF Counted
  <2> QED
    BY <2>1, <2>2
<1>8. ASSUME NEW n \in Numbers PROVE Visible(n)'
  BY <1>1, <1>2 DEF Visible, At
<1>9. ASSUME NEW n \in Numbers PROVE Closing(n)'
  <2> SUFFICES ASSUME faults = 0, incident[n].status = "firing", AllResolved(n)'
               PROVE  \E k \in Jobs : Closes(k, n)'
    BY <1>1 DEF Closing
  <2>1. CASE n = t /\ s = "count"
    <3>1. Closes(j, n)'
      BY <1>1, <1>2, <2>1 DEF Closes, At
    <3> QED
      BY <3>1
  <2>2. CASE ~(n = t /\ s = "count")
    <3>1. links'[n] = links[n] /\ AllResolved(n)
      BY <1>1, <1>4, <2>2 DEF AllResolved
    <3>2. PICK k \in Jobs : Closes(k, n)
      BY <3>1 DEF Closing
    <3>3. k # j
      BY <1>1, <1>2, <1>3, <2>2, <3>2 DEF Closes, At
    <3>4. Closes(k, n)'
      BY <1>1, <1>2, <3>1, <3>2, <3>3 DEF Closes, At
    <3> QED
      BY <3>4
  <2> QED
    BY <2>1, <2>2
<1> QED
  BY <1>1, <1>2, <1>4, <1>5, <1>6, <1>7, <1>8, <1>9

LEMMA CountKeepsInv ==
  ASSUME CorrelationInv, NEW j \in Jobs, CountAlerts(j)
  PROVE  CorrelationInv'
<1> USE DEF CorrelationInv
<1> PICK t : t = target[j]
  OBVIOUS
<1> PICK c : c = Cardinality(links[t])
  OBVIOUS
<1>1. /\ stage[j] = "count" /\ Goto(j, "judge")
      /\ UNCHANGED <<alert, last, clock, links, target, checking, resolving, faults,
                     announced, cutOff>>
      /\ incident' = [incident EXCEPT ![t].count = c]
      /\ view' = [view EXCEPT ![j].count = c, ![j].visible = incident[t].visible]
  BY DEF CountAlerts
<1>2. /\ IngestionTypes' /\ \A k \in Jobs : Latest(k)'
      /\ stage'[j] = "judge" /\ \A k \in Jobs \ {j} : stage'[k] = stage[k]
  BY <1>1, CorrelateFrame DEF Evaluated
<1>3. t \in Numbers /\ Fingerprint[j] \in links[t] /\ resolving[j] = {} /\ checking[j] = {}
  BY <1>1 DEF Holds, Working
<1>4. c \in Nat /\ c > 0
  BY <1>3, LinksFinite
<1>5. PICK row \in Row :
        /\ incident' = [incident EXCEPT ![t] = row]
        /\ row.count = c
        /\ row.visible = incident[t].visible /\ row.status = incident[t].status
  <2> DEFINE r == [incident[t] EXCEPT !.count = c]
  <2>1. /\ r \in Row /\ r.count = c
        /\ r.visible = incident[t].visible /\ r.status = incident[t].status
    BY <1>3, <1>4, TableFacts DEF Row
  <2>2. incident' = [incident EXCEPT ![t] = r]
    BY <1>1
  <2> HIDE DEF r
  <2> QED
    BY <2>1, <2>2
<1>6. /\ TableTypes' /\ Numbers' = Numbers /\ Len(incident') = Len(incident)
      /\ incident'[t] = row /\ \A m \in Numbers \ {t} : incident'[m] = incident[m]
  <2>1. TableTypes /\ UNCHANGED links
    BY <1>1
  <2> QED
    BY <2>1, <1>3, <1>5, IncidentWritten
<1>7. \A n \in Numbers : /\ incident'[n].visible = incident[n].visible
                         /\ incident'[n].status = incident[n].status
  BY <1>5, <1>6
<1>8. /\ DOMAIN view' = Jobs
      /\ view'[j] = [visible |-> incident[t].visible, count |-> c,
                     fired |-> view[j].fired, send |-> view[j].send]
      /\ \A k \in Jobs \ {j} : view'[k] = view[k]
  <2>1. DOMAIN view' = Jobs /\ \A k \in Jobs \ {j} : view'[k] = view[k]
    BY <1>1 DEF JobTypes
  <2>2. view[j] = [visible |-> view[j].visible, count |-> view[j].count,
                   fired |-> view[j].fired, send |-> view[j].send]
    BY DEF JobTypes, IsView
  <2>3. view'[j] = [[view[j] EXCEPT !.count = c] EXCEPT !.visible = incident[t].visible]
    BY <1>1 DEF JobTypes
  <2> QED
    BY <2>1, <2>2, <2>3
<1>9. JobTypes'
  <2>1. IsView(view'[j])
    BY <1>4, <1>8 DEF IsView
  <2> QED
    BY <1>1, <1>6, <1>8, <2>1 DEF JobTypes
<1>10. ASSUME NEW k \in Jobs PROVE Holds(k)'
  BY <1>1, <1>2, <1>3, <1>6 DEF Holds, Working
<1>11. ASSUME NEW n \in Numbers PROVE Counted(n)'
  <2>1. CASE n = t
    BY <1>1, <1>5, <1>6, <2>1 DEF Counted
  <2>2. CASE n # t
    BY <1>1, <1>2, <1>6, <2>2 DEF Counted, At
  <2> QED
    BY <2>1, <2>2
<1>12. ASSUME NEW n \in Numbers PROVE Visible(n)'
  BY <1>1, <1>2, <1>7, <1>8 DEF Visible, At
<1>13. ASSUME NEW n \in Numbers PROVE Closing(n)'
  <2> SUFFICES ASSUME faults = 0, incident[n].status = "firing", AllResolved(n)
               PROVE  \E k \in Jobs : Closes(k, n)'
    BY <1>1, <1>7 DEF Closing, AllResolved
  <2>1. PICK k \in Jobs : Closes(k, n)
    BY DEF Closing
  <2>2. CASE k = j
    <3>1. n = t
      BY <1>1, <1>3, <2>1, <2>2 DEF Closes, At
    <3>2. Closes(j, n)'
      BY <1>1, <1>2, <1>4, <1>8, <3>1 DEF Closes, At
    <3> QED
      BY <3>2
  <2>3. CASE k # j
    <3>1. Closes(k, n)'
      BY <1>1, <1>2, <1>8, <2>1, <2>3 DEF Closes, At
    <3> QED
      BY <3>1
  <2> QED
    BY <2>2, <2>3
<1> QED
  BY <1>1, <1>2, <1>6, <1>9, <1>10, <1>11, <1>12, <1>13

LEMMA JudgeKeepsInv ==
  ASSUME CorrelationInv, NEW j \in Jobs, JudgeVisibility(j)
  PROVE  CorrelationInv'
<1> USE DEF CorrelationInv
<1> PICK t : t = target[j]
  OBVIOUS
<1>1. /\ stage[j] = "judge" /\ Goto(j, "check")
      /\ UNCHANGED <<alert, last, clock, links, target, checking, resolving, faults,
                     announced, cutOff>>
  BY DEF JudgeVisibility
<1>2. /\ IngestionTypes' /\ \A k \in Jobs : Latest(k)'
      /\ stage'[j] = "check" /\ \A k \in Jobs \ {j} : stage'[k] = stage[k]
  BY <1>1, CorrelateFrame DEF Evaluated
<1>3. t \in Numbers /\ resolving[j] = {} /\ checking[j] = {}
  BY <1>1 DEF Holds, Working
<1>4. /\ DOMAIN view' = Jobs
      /\ \A k \in Jobs \ {j} : view'[k] = view[k]
      /\ IsView(view'[j]) /\ view'[j].count = view[j].count
  <2>1. CASE view[j].visible
    BY <2>1 DEF JudgeVisibility, JobTypes
  <2>2. CASE ~view[j].visible
    <3>1. PICK reached : view' = [view EXCEPT ![j].visible = reached, ![j].send = reached]
      BY <2>2 DEF JudgeVisibility
    <3>2. /\ DOMAIN view' = Jobs /\ \A k \in Jobs \ {j} : view'[k] = view[k]
          /\ view'[j] = [[view[j] EXCEPT !.visible = reached] EXCEPT !.send = reached]
      BY <3>1 DEF JobTypes
    <3>3. view[j] = [visible |-> view[j].visible, count |-> view[j].count,
                     fired |-> view[j].fired, send |-> view[j].send]
          /\ view[j].count \in Nat
      BY DEF JobTypes, IsView
    <3>4. view'[j] = [visible |-> reached, count |-> view[j].count,
                      fired |-> view[j].fired, send |-> reached]
      BY <3>2, <3>3
    <3>5. IsView(view'[j]) /\ view'[j].count = view[j].count
      BY <3>3, <3>4 DEF IsView
    <3> QED
      BY <3>2, <3>5
  <2> QED
    BY <2>1, <2>2
<1>5. PICK row \in Row :
        /\ incident' = [incident EXCEPT ![t] = row]
        /\ row.count = incident[t].count /\ row.status = incident[t].status
        /\ row.visible => incident[t].visible \/ view'[j].send
  <2>1. incident[t] \in Row /\ incident = [incident EXCEPT ![t] = incident[t]]
    BY <1>3, TableFacts DEF TableTypes
  <2>2. CASE view[j].visible
    <3>1. incident' = incident
      BY <2>2 DEF JudgeVisibility
    <3> QED
      BY <2>1, <3>1
  <2>3. CASE ~view[j].visible
    <3>1. PICK reached \in BOOLEAN :
            /\ incident' = [incident EXCEPT ![t].visible = @ \/ reached]
            /\ view' = [view EXCEPT ![j].visible = reached, ![j].send = reached]
      BY <2>3 DEF JudgeVisibility
    <3>2. view'[j].send = reached
      <4>1. view'[j] = [[view[j] EXCEPT !.visible = reached] EXCEPT !.send = reached]
        BY <3>1 DEF JobTypes
      <4>2. view[j] = [visible |-> view[j].visible, count |-> view[j].count,
                       fired |-> view[j].fired, send |-> view[j].send]
        BY DEF JobTypes, IsView
      <4> QED
        BY <4>1, <4>2
    <3> DEFINE r == [incident[t] EXCEPT !.visible = @ \/ reached]
    <3>3. r \in Row /\ r.count = incident[t].count /\ r.status = incident[t].status
          /\ r.visible = (incident[t].visible \/ reached)
      BY <2>1 DEF Row
    <3>4. incident' = [incident EXCEPT ![t] = r]
      BY <3>1
    <3> HIDE DEF r
    <3>5. r.visible => incident[t].visible \/ view'[j].send
      BY <3>2, <3>3
    <3> QED
      BY <3>3, <3>4, <3>5
  <2> QED
    BY <2>2, <2>3
<1>6. /\ TableTypes' /\ Numbers' = Numbers /\ Len(incident') = Len(incident)
      /\ incident'[t] = row /\ \A m \in Numbers \ {t} : incident'[m] = incident[m]
  <2>1. TableTypes /\ UNCHANGED links
    BY <1>1
  <2> QED
    BY <2>1, <1>3, <1>5, IncidentWritten
<1>7. \A n \in Numbers : /\ incident'[n].count = incident[n].count
                         /\ incident'[n].status = incident[n].status
  BY <1>5, <1>6
<1>8. JobTypes'
  BY <1>1, <1>4, <1>6 DEF JobTypes
<1>9. ASSUME NEW k \in Jobs PROVE Holds(k)'
  BY <1>1, <1>2, <1>3, <1>6 DEF Holds, Working
<1>10. ASSUME NEW n \in Numbers PROVE Counted(n)'
  BY <1>1, <1>2, <1>7 DEF Counted, At
<1>11. ASSUME NEW n \in Numbers PROVE Visible(n)'
  <2> SUFFICES ASSUME n \notin cutOff, incident'[n].visible, n \notin announced
               PROVE  \E k \in Jobs : At(k, n, {"check", "announce"})' /\ view'[k].send
    BY <1>1 DEF Visible
  <2>1. CASE n = t /\ view'[j].send
    BY <1>1, <1>2, <2>1 DEF At
  <2>2. CASE ~(n = t /\ view'[j].send)
    <3>1. incident[n].visible
      BY <1>5, <1>6, <2>2
    <3>2. PICK k \in Jobs : At(k, n, {"check", "announce"}) /\ view[k].send
      BY <3>1 DEF Visible
    <3>3. k # j
      BY <1>1, <3>2 DEF At
    <3>4. At(k, n, {"check", "announce"})' /\ view'[k].send
      BY <1>1, <1>2, <1>4, <3>2, <3>3 DEF At
    <3> QED
      BY <3>4
  <2> QED
    BY <2>1, <2>2
<1>12. ASSUME NEW n \in Numbers PROVE Closing(n)'
  <2> SUFFICES ASSUME faults = 0, incident[n].status = "firing", AllResolved(n)
               PROVE  \E k \in Jobs : Closes(k, n)'
    BY <1>1, <1>7 DEF Closing, AllResolved
  <2>1. PICK k \in Jobs : Closes(k, n)
    BY DEF Closing
  <2>2. CASE k = j
    <3>1. Closes(j, n)'
      BY <1>1, <1>2, <1>3, <1>4, <2>1, <2>2 DEF Closes, At
    <3> QED
      BY <3>1
  <2>3. CASE k # j
    <3>1. Closes(k, n)'
      BY <1>1, <1>2, <1>4, <2>1, <2>3 DEF Closes, At
    <3> QED
      BY <3>1
  <2> QED
    BY <2>2, <2>3
<1> QED
  BY <1>1, <1>2, <1>6, <1>8, <1>9, <1>10, <1>11, <1>12

LEMMA CheckResolutionKeepsInv ==
  ASSUME CorrelationInv, NEW j \in Jobs, CheckResolution(j)
  PROVE  CorrelationInv'
<1> USE DEF CorrelationInv
<1>1. /\ stage[j] = "check" /\ Goto(j, "announce")
      /\ UNCHANGED <<alert, last, clock, incident, links, target, view, checking, faults,
                     announced, cutOff>>
  BY DEF CheckResolution
<1>2. /\ IngestionTypes' /\ \A k \in Jobs : Latest(k)'
      /\ stage'[j] = "announce" /\ \A k \in Jobs \ {j} : stage'[k] = stage[k]
  BY <1>1, CorrelateFrame DEF Evaluated
<1>3. target[j] \in Numbers /\ resolving[j] = {} /\ checking[j] = {}
  BY <1>1 DEF Holds, Working
<1>4. /\ resolving' \in [Jobs -> SUBSET Numbers]
      /\ \A k \in Jobs \ {j} : resolving'[k] = resolving[k]
      /\ view[j].count > 0 /\ AllResolved(target[j]) => target[j] \in resolving'[j]
  BY <1>3 DEF CheckResolution, JobTypes
<1>5. TableTypes' /\ JobTypes' /\ Numbers' = Numbers
  BY <1>1, <1>4 DEF TableTypes, JobTypes, Numbers
<1>6. ASSUME NEW k \in Jobs PROVE Holds(k)'
  BY <1>1, <1>2, <1>3, <1>4, <1>5 DEF Holds, Working
<1>7. ASSUME NEW n \in Numbers PROVE Counted(n)' /\ Visible(n)'
  BY <1>1, <1>2 DEF Counted, Visible, At
<1>8. ASSUME NEW n \in Numbers PROVE Closing(n)'
  <2> SUFFICES ASSUME faults = 0, incident[n].status = "firing", AllResolved(n)
               PROVE  \E k \in Jobs : Closes(k, n)'
    BY <1>1 DEF Closing, AllResolved
  <2>1. PICK k \in Jobs : Closes(k, n)
    BY DEF Closing
  <2>2. CASE k = j
    <3>1. n = target[j] /\ view[j].count > 0
      BY <1>1, <1>3, <2>1, <2>2 DEF Closes, At
    <3>2. Closes(j, n)'
      BY <1>4, <3>1 DEF Closes
    <3> QED
      BY <3>2
  <2>3. CASE k # j
    <3>1. Closes(k, n)'
      BY <1>1, <1>2, <1>4, <2>1, <2>3 DEF Closes, At
    <3> QED
      BY <3>1
  <2> QED
    BY <2>2, <2>3
<1> QED
  BY <1>1, <1>2, <1>5, <1>6, <1>7, <1>8

LEMMA ForgetFrame ==
  ASSUME JobTypes, NEW j \in Jobs, Forget(j), UNCHANGED incident, faults' \in Nat
  PROVE  /\ JobTypes'
         /\ target'[j] = 0 /\ checking'[j] = {} /\ resolving'[j] = {}
         /\ \A k \in Jobs \ {j} : /\ target'[k] = target[k]
                                   /\ view'[k] = view[k]
                                   /\ checking'[k] = checking[k]
                                   /\ resolving'[k] = resolving[k]
<1>1. /\ target' \in [Jobs -> 0..Len(incident)] /\ target'[j] = 0
      /\ DOMAIN view' = Jobs /\ view'[j] = NoView
      /\ checking' \in [Jobs -> SUBSET Numbers] /\ checking'[j] = {}
      /\ resolving' \in [Jobs -> SUBSET Numbers] /\ resolving'[j] = {}
      /\ \A k \in Jobs \ {j} : /\ target'[k] = target[k]
                                /\ view'[k] = view[k]
                                /\ checking'[k] = checking[k]
                                /\ resolving'[k] = resolving[k]
  <2>1. 0 \in 0..Len(incident)
    BY DEF JobTypes
  <2> QED
    BY <2>1 DEF Forget, JobTypes
<1>2. IsView(NoView)
  BY DEF IsView, NoView
<1>3. \A k \in Jobs : IsView(view'[k])
  BY <1>1, <1>2 DEF JobTypes
<1> QED
  BY <1>1, <1>3 DEF JobTypes, Numbers

LEMMA AnnounceKeepsInv ==
  ASSUME CorrelationInv, NEW j \in Jobs, Announce(j)
  PROVE  CorrelationInv'
<1> USE DEF CorrelationInv
<1>1. /\ stage[j] = "announce" /\ Goto(j, "done") /\ resolving[j] = {} /\ Forget(j)
      /\ announced \subseteq announced'
      /\ view[j].send => target[j] \in announced'
      /\ UNCHANGED <<alert, last, clock, incident, links, faults, cutOff>>
  BY DEF Announce
<1>2. /\ IngestionTypes' /\ \A k \in Jobs : Latest(k)'
      /\ stage'[j] = "done" /\ \A k \in Jobs \ {j} : stage'[k] = stage[k]
  BY <1>1, CorrelateFrame DEF Evaluated
<1>3. TableTypes' /\ Numbers' = Numbers
  BY <1>1 DEF TableTypes, Numbers
<1>4. /\ JobTypes'
      /\ target'[j] = 0 /\ checking'[j] = {} /\ resolving'[j] = {}
      /\ \A k \in Jobs \ {j} : /\ target'[k] = target[k]
                                /\ view'[k] = view[k]
                                /\ checking'[k] = checking[k]
                                /\ resolving'[k] = resolving[k]
  <2>1. faults' \in Nat /\ UNCHANGED incident
    BY <1>1 DEF JobTypes
  <2> QED
    BY <1>1, <2>1, ForgetFrame
<1>5. ASSUME NEW k \in Jobs PROVE Holds(k)'
  BY <1>1, <1>2, <1>3, <1>4 DEF Holds, Working
<1>6. ASSUME NEW n \in Numbers PROVE Counted(n)'
  <2>1. \A k \in Jobs : At(k, n, {"count"}) => k # j /\ At(k, n, {"count"})'
    BY <1>1, <1>2, <1>4 DEF At
  <2> QED
    BY <1>1, <2>1 DEF Counted
<1>7. ASSUME NEW n \in Numbers PROVE Visible(n)'
  <2> SUFFICES ASSUME n \notin cutOff, incident[n].visible, n \notin announced'
               PROVE  \E k \in Jobs : At(k, n, {"check", "announce"})' /\ view'[k].send
    BY <1>1 DEF Visible
  <2>1. PICK k \in Jobs : At(k, n, {"check", "announce"}) /\ view[k].send
    BY <1>1 DEF Visible
  <2>2. k # j
    BY <1>1, <2>1 DEF At
  <2>3. At(k, n, {"check", "announce"})' /\ view'[k].send
    BY <1>2, <1>4, <2>1, <2>2 DEF At
  <2> QED
    BY <2>3
<1>8. ASSUME NEW n \in Numbers PROVE Closing(n)'
  <2> SUFFICES ASSUME faults = 0, incident[n].status = "firing", AllResolved(n)
               PROVE  \E k \in Jobs : Closes(k, n)'
    BY <1>1 DEF Closing, AllResolved
  <2>1. PICK k \in Jobs : Closes(k, n)
    BY DEF Closing
  <2>2. k # j
    BY <1>1, <2>1 DEF Closes, At, Holds
  <2>3. Closes(k, n)'
    BY <1>1, <1>2, <1>4, <2>1, <2>2 DEF Closes, At
  <2> QED
    BY <2>3
<1> QED
  BY <1>1, <1>2, <1>3, <1>4, <1>5, <1>6, <1>7, <1>8

LEMMA JobRaisesKeepsInv ==
  ASSUME CorrelationInv, NEW j \in Jobs, JobRaises(j)
  PROVE  CorrelationInv'
<1> USE DEF CorrelationInv
<1>1. /\ faults' = faults + 1 /\ cutOff' = cutOff \union {target[j]} /\ Forget(j)
      /\ UNCHANGED <<alert, last, clock, incident, links, announced>>
  BY DEF JobRaises
<1>2. PICK s \in {"queued", "failed", "done", "rules"} :
        Goto(j, s) /\ (s = "rules" => stage[j] \in Evaluated)
  BY DEF JobRaises, Retry, Evaluated
<1>3. /\ stage'[j] = s /\ \A k \in Jobs \ {j} : stage'[k] = stage[k]
  BY <1>2, OtherStage
<1>4. IngestionTypes'
  BY <1>1, <1>2 DEF IngestionTypes, Goto, Stages, Unsaved, Evaluated
<1>5. \A k \in Jobs : Latest(k)'
  BY <1>1, <1>2, <1>3 DEF Latest, Evaluated
<1>6. TableTypes' /\ Numbers' = Numbers
  BY <1>1 DEF TableTypes, Numbers
<1>7. faults' \in Nat /\ faults' # 0
  BY <1>1 DEF JobTypes
<1>8. /\ JobTypes'
      /\ target'[j] = 0 /\ checking'[j] = {} /\ resolving'[j] = {}
      /\ \A k \in Jobs \ {j} : /\ target'[k] = target[k]
                                /\ view'[k] = view[k]
                                /\ checking'[k] = checking[k]
                                /\ resolving'[k] = resolving[k]
  BY <1>1, <1>7, ForgetFrame
<1>9. ASSUME NEW k \in Jobs PROVE Holds(k)'
  BY <1>1, <1>3, <1>6, <1>8 DEF Holds, Working
<1>10. ASSUME NEW n \in Numbers, n \notin cutOff', NEW k \in Jobs, NEW S, At(k, n, S)
       PROVE  k # j /\ At(k, n, S)'
  BY <1>1, <1>3, <1>8, <1>10 DEF At
<1>11. ASSUME NEW n \in Numbers PROVE Counted(n)'
  BY <1>1, <1>10 DEF Counted
<1>12. ASSUME NEW n \in Numbers PROVE Visible(n)'
  BY <1>1, <1>8, <1>10 DEF Visible
<1> QED
  BY <1>4, <1>5, <1>6, <1>7, <1>8, <1>9, <1>11, <1>12 DEF Closing

LEMMA QuietPeriodKeepsInv ==
  ASSUME CorrelationInv, UNCHANGED <<ingestionVars, incident, links, target, view, checking,
                                     resolving, faults, announced, cutOff>>
  PROVE  CorrelationInv'
<1>1. IngestionTypes' /\ TableTypes' /\ JobTypes' /\ Numbers' = Numbers
  BY DEF CorrelationInv, ingestionVars, IngestionTypes, TableTypes, JobTypes, Numbers
<1>2. \A j \in Jobs : Holds(j)' /\ Latest(j)'
  BY <1>1 DEF CorrelationInv, ingestionVars, Holds, Latest
<1>3. \A n \in Numbers : Counted(n)' /\ Visible(n)'
  BY DEF CorrelationInv, ingestionVars, Counted, Visible, At
<1>4. \A n \in Numbers : Closing(n)'
  BY DEF CorrelationInv, ingestionVars, Closing, Closes, At, AllResolved
<1> QED
  BY <1>1, <1>2, <1>3, <1>4 DEF CorrelationInv

LEMMA NextKeepsInv == CorrelationInv /\ [Next]_vars => CorrelationInv'
<1> SUFFICES ASSUME CorrelationInv, [Next]_vars PROVE CorrelationInv'
  OBVIOUS
<1>1. CASE QuietPeriod
  BY <1>1, QuietPeriodKeepsInv DEF QuietPeriod
<1>2. ASSUME NEW j \in Jobs, Ingest(j), UNCHANGED incidentVars PROVE CorrelationInv'
  BY <1>2, IngestKeepsInv
<1>3. ASSUME NEW j \in Jobs, Correlate(j) PROVE CorrelationInv'
  BY <1>3, ReadIncidentsKeepsInv, CheckIncidentKeepsInv, ResolveKeepsInv, EndChecksKeepsInv,
     FindKeepsInv, CreateKeepsInv, LinkKeepsInv, CountKeepsInv, JudgeKeepsInv,
     CheckResolutionKeepsInv,
     AnnounceKeepsInv DEF Correlate
<1>4. ASSUME NEW j \in Jobs, JobRaises(j) PROVE CorrelationInv'
  BY <1>4, JobRaisesKeepsInv
<1>5. CASE UNCHANGED vars
  BY <1>5, QuietPeriodKeepsInv DEF vars, incidentVars
<1> QED
  BY <1>1, <1>2, <1>3, <1>4, <1>5 DEF Next

LEMMA InvHolds == Spec => []CorrelationInv
BY InitInv, NextKeepsInv, PTL DEF Spec

-----------------------------------------------------------------------------
(***************************************************************************)
(* The types of all tables and copies.  CorrelationInv says which numbers  *)
(* of incidents jobs have in hand; the rest is the types of what is        *)
(* written: a counter, a sum over the last alerts, a copy, a bound.        *)
(***************************************************************************)
LastRow == [job : Jobs \union {"none"}, stamp : Nat, unresolved : Nat]

AlertTypes ==
  /\ tries \in [Jobs -> 1..MaxTries]
  /\ alert \in [Jobs -> AlertRow]
  /\ last \in [Fingerprints -> LastRow]
  /\ counter \in [Jobs -> Nat]

UpsetTypes ==
  /\ pauses \in Nat /\ faults \in Nat /\ pauses + faults <= MaxUpsets
  /\ quiet \in Nat /\ quiet <= clock
  /\ announced \subseteq Numbers
  /\ cutOff \subseteq 0..Len(incident)

FullTypes == AlertTypes /\ view \in [Jobs -> View] /\ UpsetTypes

\* calculated_unresolved_counter is a natural number: the newest alert is
\* looked at only if it is one of a firing job.
LEMMA UnresolvedCounterType ==
  ASSUME alert \in [Jobs -> AlertRow], NEW j \in Jobs
  PROVE  UnresolvedCounter(j) \in Nat
<1> DEFINE earlier == {k \in Jobs : Fingerprint[k] = Fingerprint[j] /\ alert[k].stamp # 0}
           newest  == CHOOSE k \in earlier : \A i \in earlier : alert[i].stamp <=
           alert[k].stamp
<1>1. UnresolvedCounter(j) = IF j \notin Firing THEN 0
                             ELSE IF earlier = {} \/ newest \notin Firing THEN 1
                             ELSE alert[newest].unresolved + 1
  BY DEF UnresolvedCounter
<1> HIDE DEF earlier, newest
<1>2. newest \in Firing => alert[newest].unresolved \in Nat
  BY IngestionAssumption DEF AlertRow
<1> QED
  BY <1>1, <1>2

\* The sum over the last alerts of an incident is a natural number: what an
\* incident links is finite, and so is what each fingerprint adds.
LEMMA TotalType ==
  ASSUME last \in [Fingerprints -> LastRow], NEW S \in SUBSET Fingerprints
  PROVE  Total(S) \in Nat
<1> DEFINE part == [f \in S |-> {f} \X (1..last[f].unresolved)]
           parts == {part[f] : f \in S}
<1>1. IsFiniteSet(S)
  BY CorrelationAssumption, FS_Subset
<1>2. IsFiniteSet(parts)
  <2>1. part \in Surjection(S, parts)
    BY Fun_IsSurj DEF Surjection
  <2> QED
    BY <1>1, <2>1, FS_Surjection
<1>3. ASSUME NEW T \in parts PROVE IsFiniteSet(T)
  <2>1. PICK f \in S : T = {f} \X (1..last[f].unresolved)
    BY <1>3
  <2>2. last[f].unresolved \in Nat
    BY DEF LastRow
  <2>3. PICK A, B : A = {f} /\ B = 1..last[f].unresolved
    OBVIOUS
  <2>4. IsFiniteSet(A)
    BY <2>3, FS_Singleton
  <2>5. IsFiniteSet(B)
    BY <2>2, <2>3, FS_Interval
  <2>6. IsFiniteSet(A \X B)
    BY <2>4, <2>5, FS_Product
  <2> QED
    BY <2>1, <2>3, <2>6
<1>4. IsFiniteSet(UNION parts)
  BY <1>2, <1>3, FS_UNION
<1>5. Total(S) = Cardinality(UNION parts)
  BY DEF Total
<1> QED
  BY <1>4, <1>5, FS_CardinalityType

LEMMA InitTypes == Init => FullTypes
<1> SUFFICES ASSUME Init PROVE FullTypes
  OBVIOUS
<1>1. AlertTypes
  BY IngestionAssumption DEF Init, InitIngestion, AlertTypes, NoAlert, NoLastAlert,
                             AlertRow, LastRow
<1>2. view \in [Jobs -> View]
  BY DEF Init, NoView, View
<1>3. UpsetTypes
  BY CorrelationAssumption DEF Init, InitIngestion, UpsetTypes
<1> QED
  BY <1>1, <1>2, <1>3 DEF FullTypes

\* An unsuccessful job is started again at most until the last try.
LEMMA RetryTypes ==
  ASSUME tries \in [Jobs -> 1..MaxTries], NEW j \in Jobs, Retry(j)
  PROVE  tries' \in [Jobs -> 1..MaxTries]
<1>1. MaxTries \in Nat /\ tries[j] \in 1..MaxTries
  BY IngestionAssumption
<1>2. CASE tries[j] < MaxTries
  <2>1. tries' = [tries EXCEPT ![j] = tries[j] + 1] /\ tries[j] + 1 \in 1..MaxTries
    BY <1>1, <1>2 DEF Retry
  <2> QED
    BY <2>1
<1>3. CASE ~(tries[j] < MaxTries)
  BY <1>3 DEF Retry
<1> QED
  BY <1>2, <1>3

LEMMA IngestTypes ==
  ASSUME CorrelationInv, FullTypes, NEW j \in Jobs, Ingest(j), UNCHANGED incidentVars
  PROVE  FullTypes'
<1> USE DEF FullTypes
<1>1. Fingerprint[j] \in Fingerprints
  BY IngestionAssumption
<1>2. view' \in [Jobs -> View]
  BY DEF incidentVars
<1>3. LastAlertOf(j) \in LastRow
  BY DEF AlertTypes, LastAlertOf, AlertRow, LastRow
<1>4. /\ AlertTypes' /\ clock' \in Nat /\ clock <= clock'
  <2> USE DEF AlertTypes
  <2>0. clock \in Nat
    BY DEF CorrelationInv, IngestionTypes
  <2>1. CASE apply_deduplication(j)
    BY <2>0, <2>1 DEF apply_deduplication
  <2>2. CASE ReadPrevious(j) \/ SaveAlert(j)
    <3>1. UnresolvedCounter(j) \in Nat /\ counter[j] \in Nat
      BY UnresolvedCounterType
    <3>2. [stamp |-> clock + 1, unresolved |-> counter[j]] \in AlertRow
      BY <2>0, <3>1 DEF AlertRow
    <3> QED
      BY <2>0, <2>2, <3>1, <3>2 DEF ReadPrevious, SaveAlert
  <2>3. CASE set_last_alert(j)
    <3>1. PICK row \in LastRow : \/ last' = last
                                 \/ last' = [last EXCEPT ![Fingerprint[j]] = row]
      BY <2>3, <1>1, <1>3 DEF set_last_alert
    <3>2. last' \in [Fingerprints -> LastRow]
      BY <3>1, <1>1
    <3> QED
      BY <2>0, <2>3, <3>2 DEF set_last_alert
  <2>4. CASE InsertLastAlert(j)
    <3>1. UNCHANGED <<alert, clock, counter>>
      BY <2>4 DEF InsertLastAlert
    <3>2. last' \in [Fingerprints -> LastRow]
      BY <2>4, <1>1, <1>3 DEF InsertLastAlert
    <3>3. tries' \in [Jobs -> 1..MaxTries]
      BY <2>4, RetryTypes DEF InsertLastAlert
    <3> QED
      BY <2>0, <3>1, <3>2, <3>3
  <2> QED
    BY <2>1, <2>2, <2>3, <2>4 DEF Ingest
<1>5. UpsetTypes'
  BY <1>4 DEF UpsetTypes, incidentVars, Numbers, CorrelationInv, IngestionTypes
<1> QED
  BY <1>2, <1>4, <1>5

\* A copy of an incident is written by its own job.
LEMMA ViewWritten ==
  ASSUME view \in [Jobs -> View], NEW j \in Jobs, NEW v \in View,
         view' = [view EXCEPT ![j] = v]
  PROVE  view' \in [Jobs -> View]
OBVIOUS

LEMMA CorrelateTypes ==
  ASSUME CorrelationInv, CorrelationInv', FullTypes, NEW j \in Jobs, Correlate(j)
  PROVE  FullTypes'
<1> USE DEF FullTypes
<1>1. /\ UNCHANGED <<tries, alert, last, clock, counter, quiet, pauses, faults, cutOff>>
      /\ Len(incident) <= Len(incident')
      /\ Numbers \subseteq Numbers'
      /\ 0..Len(incident) \subseteq 0..Len(incident')
  <2>1. UNCHANGED <<tries, alert, last, clock, counter, quiet, pauses, faults, cutOff>>
    BY DEF Correlate, ReadIncidents, CheckIncident, Resolve, EndChecks,
           get_incident_for_grouping_rule, create_incident_for_grouping_rule, LinkAlert,
           CountAlerts, JudgeVisibility,
           CheckResolution, Announce, ingestionVars, incidentVars
  <2>2. Len(incident') \in {Len(incident), Len(incident) + 1}
    <3>1. CASE create_incident_for_grouping_rule(j)
      BY <3>1, AppendProperties DEF create_incident_for_grouping_rule, CorrelationInv,
                                    TableTypes
    <3>2. CASE ~create_incident_for_grouping_rule(j)
      <4>1. \/ incident' = incident
            \/ \E n, row : incident' = [incident EXCEPT ![n] = row]
        BY <3>2 DEF Correlate, ReadIncidents, CheckIncident, Resolve, EndChecks,
                    get_incident_for_grouping_rule, LinkAlert, CountAlerts, JudgeVisibility,
                    CheckResolution, Announce, incidentVars
      <4>2. DOMAIN incident' = DOMAIN incident
        BY <4>1
      <4> QED
        BY <4>2, LenProperties DEF CorrelationInv, TableTypes
    <3> QED
      BY <3>1, <3>2
  <2>3. Len(incident) \in Nat
    BY TableFacts DEF CorrelationInv
  <2> QED
    BY <2>1, <2>2, <2>3 DEF Numbers
<1>2. AlertTypes'
  BY <1>1 DEF AlertTypes
<1>3. view' \in [Jobs -> View]
  <2>1. CASE get_incident_for_grouping_rule(j)
    <3>1. CASE UNCHANGED view
      BY <3>1
    <3>2. CASE ~UNCHANGED view
      <4>1. Open(Len(incident)) /\ Found(j, Len(incident))
        BY <2>1, <3>2 DEF get_incident_for_grouping_rule
      <4> PICK n : n = Len(incident)
        OBVIOUS
      <4>2. incident[n] \in Row /\ links[n] \in SUBSET Fingerprints
        BY <4>1, TableFacts DEF Open, CorrelationInv
      <4>3. Total(links[n]) \in Nat
        BY <4>2, TotalType DEF AlertTypes
      <4> PICK total \in Nat : total = Total(links[n])
        BY <4>3
      <4>4. [visible |-> incident[n].visible, count |-> incident[n].count,
             fired |-> IF incident[n].count > 0 THEN total ELSE 0,
             send |-> FALSE] \in View
        BY <4>2 DEF Row, View
      <4> QED
        BY <4>1, <4>4, ViewWritten DEF Found
    <3> QED
      BY <3>1, <3>2
  <2>2. CASE create_incident_for_grouping_rule(j)
    <3>1. [NoView EXCEPT !.send = TRUE] \in View
      BY DEF NoView, View
    <3> QED
      BY <2>2, <3>1 DEF create_incident_for_grouping_rule
  <2>3. CASE CountAlerts(j)
    <3> PICK c : c = Cardinality(links[target[j]])
      OBVIOUS
    <3>1. target[j] \in Numbers
      BY <2>3 DEF CountAlerts, CorrelationInv, Holds, Working
    <3>2. c \in Nat /\ incident[target[j]] \in Row
      BY <3>1, TableFacts, LinksFinite DEF CorrelationInv
    <3>3. view' = [view EXCEPT ![j].count = c, ![j].visible = incident[target[j]].visible]
      BY <2>3 DEF CountAlerts
    <3>4. incident[target[j]].visible \in BOOLEAN
      BY <3>2 DEF Row
    <3> QED
      BY <3>2, <3>3, <3>4 DEF View
  <2>4. CASE JudgeVisibility(j)
    <3>1. PICK reached \in BOOLEAN :
            view' = view \/ view' = [view EXCEPT ![j].visible = reached,
            ![j].send = reached]
      <4>1. CASE view[j].visible
        BY <2>4, <4>1 DEF JudgeVisibility
      <4>2. CASE ~view[j].visible
        BY <2>4, <4>2, Zenon DEF JudgeVisibility
      <4> QED
        BY <4>1, <4>2
    <3> QED
      BY <3>1 DEF View
  <2>5. CASE Announce(j)
    BY <2>5 DEF Announce, Forget, NoView, View
  <2> QED
    BY <2>1, <2>2, <2>3, <2>4, <2>5
       DEF Correlate, ReadIncidents, CheckIncident, Resolve, EndChecks, LinkAlert,
           CheckResolution, incidentVars
<1>4. announced' \subseteq Numbers'
  <2>1. CASE Announce(j)
    <3>1. target[j] \in Numbers
      BY <2>1 DEF Announce, CorrelationInv, Holds, Working
    <3> QED
      BY <1>1, <2>1, <3>1 DEF Announce, UpsetTypes
  <2>2. CASE ~Announce(j)
    <3>1. announced' = announced
      BY <2>2 DEF Correlate, ReadIncidents, CheckIncident, Resolve, EndChecks,
                  get_incident_for_grouping_rule, create_incident_for_grouping_rule,
                  LinkAlert, CountAlerts, JudgeVisibility, CheckResolution, incidentVars
    <3> QED
      BY <1>1, <3>1 DEF UpsetTypes
  <2> QED
    BY <2>1, <2>2
<1>5. UpsetTypes'
  BY <1>1, <1>4 DEF UpsetTypes
<1> QED
  BY <1>2, <1>3, <1>5

LEMMA JobRaisesTypes ==
  ASSUME CorrelationInv, FullTypes, NEW j \in Jobs, JobRaises(j)
  PROVE  FullTypes'
<1> USE DEF FullTypes
<1>1. AlertTypes'
  <2>1. tries' \in [Jobs -> 1..MaxTries]
    BY RetryTypes DEF JobRaises, AlertTypes
  <2> QED
    BY <2>1 DEF JobRaises, AlertTypes
<1>2. view' \in [Jobs -> View]
  BY DEF JobRaises, Forget, NoView, View
<1>3. target[j] \in 0..Len(incident)
  BY DEF CorrelationInv, JobTypes
<1>4. /\ faults' = faults + 1 /\ cutOff' = cutOff \union {target[j]}
      /\ faults + pauses < MaxUpsets
      /\ UNCHANGED <<clock, incident, quiet, pauses, announced>>
  BY DEF JobRaises
<1>5. pauses' \in Nat /\ faults' \in Nat /\ pauses' + faults' <= MaxUpsets
  BY <1>4, CorrelationAssumption DEF UpsetTypes
<1>6. UpsetTypes'
  BY <1>3, <1>4, <1>5 DEF UpsetTypes, Numbers
<1> QED
  BY <1>1, <1>2, <1>6

LEMMA NextKeepsTypes ==
  CorrelationInv /\ CorrelationInv' /\ FullTypes /\ [Next]_vars => FullTypes'
<1> SUFFICES ASSUME CorrelationInv, CorrelationInv', FullTypes, [Next]_vars
             PROVE  FullTypes'
  OBVIOUS
<1>1. CASE QuietPeriod
  <2>1. clock \in Nat
    BY DEF CorrelationInv, IngestionTypes
  <2> QED
    BY <1>1, <2>1, CorrelationAssumption
       DEF QuietPeriod, FullTypes, AlertTypes, UpsetTypes, ingestionVars, Numbers
<1>2. CASE UNCHANGED vars
  BY <1>2 DEF vars, ingestionVars, incidentVars, FullTypes, AlertTypes, UpsetTypes, Numbers
<1> QED
  BY <1>1, <1>2, IngestTypes, CorrelateTypes, JobRaisesTypes DEF Next

\* The tables, the copies and the jobs have their types, whatever the number of
\* jobs, retries and fingerprints: the sums and counters that decide about an
\* incident are natural numbers (process_event, _run_cel_rules).
THEOREM CorrelationTypeCorrect == Spec => []TypeOK
<1>1. FullTypes /\ CorrelationInv => TypeOK
  <2> SUFFICES ASSUME FullTypes, CorrelationInv PROVE TypeOK
    OBVIOUS
  <2>1. IngestionTypeOK
    BY DEF FullTypes, AlertTypes, LastRow, CorrelationInv, IngestionTypes, IngestionTypeOK
  <2>2. quiet \in 0..clock /\ pauses + faults \in 0..MaxUpsets
    BY CorrelationAssumption DEF FullTypes, UpsetTypes, CorrelationInv, IngestionTypes
  <2> QED
    BY <2>1, <2>2 DEF FullTypes, UpsetTypes, CorrelationInv, TableTypes, JobTypes, TypeOK
<1> QED
  BY <1>1, InitTypes, NextKeepsTypes, InvHolds, PTL DEF Spec

-----------------------------------------------------------------------------
\* In whatever order jobs save, compare and insert, the last alert of a
\* fingerprint is never older than that of a job that goes on to the workflows
\* and rules (set_last_alert).
THEOREM LastAlertsAdvance == Spec => []LastAlertIsLatest
<1>1. CorrelationInv => LastAlertIsLatest
  <2> SUFFICES ASSUME CorrelationInv, NEW j \in Jobs, stage[j] \in Evaluated
               PROVE  last[Fingerprint[j]].stamp >= alert[j].stamp
    BY DEF LastAlertIsLatest
  <2>1. Fingerprint[j] \in Fingerprints
    BY IngestionAssumption
  <2>2. alert[j].stamp \in Nat /\ last[Fingerprint[j]].stamp \in Nat
    BY <2>1 DEF CorrelationInv, IngestionTypes
  <2> QED
    BY <2>2 DEF CorrelationInv, Latest
<1> QED
  BY <1>1, InvHolds, PTL

\* However jobs that link and jobs that count overlap, alerts_count ends as the
\* number of linked alerts (add_alerts_to_incident).
THEOREM CountsAreRight == Spec => []CountMatchesLinks
<1>1. CorrelationInv => CountMatchesLinks
  BY DEF CorrelationInv, CountMatchesLinks, Counted
<1> QED
  BY <1>1, InvHolds, PTL

\* Whichever job makes an incident visible announces it (_run_cel_rules).
THEOREM VisibilityIsAnnounced == Spec => []VisibleIsAnnounced
<1>1. CorrelationInv => VisibleIsAnnounced
  BY DEF CorrelationInv, VisibleIsAnnounced, Visible
<1> QED
  BY <1>1, InvHolds, PTL

\* Without a failure no incident is left firing with only resolved alerts
\* (the two calls of resolve_incident_if_require).
THEOREM ResolutionIsNotLost == Spec => []NothingLeftOpen
<1>1. CorrelationInv => NothingLeftOpen
  <2> SUFFICES ASSUME CorrelationInv, NEW n \in Numbers, faults = 0, AllResolved(n),
                      \A j \in Jobs : stage[j] \notin Evaluated
               PROVE  incident[n].status = "resolved"
    BY DEF NothingLeftOpen
  <2>1. incident[n].status \in {"firing", "resolved"}
    BY TableFacts DEF CorrelationInv, Row
  <2>2. ASSUME NEW j \in Jobs PROVE ~Closes(j, n)
    BY DEF CorrelationInv, Holds, Closes, At, Evaluated
  <2> QED
    BY <2>1, <2>2 DEF CorrelationInv, Closing
<1> QED
  BY <1>1, InvHolds, PTL

-----------------------------------------------------------------------------
(***************************************************************************)
(* The threshold.                                                          *)
(*                                                                         *)
(* Every number a job judges by was read earlier, from tables that only    *)
(* grow: an unresolvedCounter counts firing alerts that are saved          *)
(* (CountersDue), and a copy of an incident counts fingerprints that are   *)
(* linked and sums such counters (CopyDue).  Without retries no alert is   *)
(* saved, and so counted, twice (SavedOnce).                               *)
(***************************************************************************)
Saved(a) == {j \in Jobs : a[j].stamp # 0}
FiredIn(a, S) == {j \in Firing : a[j].stamp # 0 /\ Fingerprint[j] \in S}
DueIn(a, S) == Cardinality(S) >= THRESHOLD \/ Cardinality(FiredIn(a, S)) >= THRESHOLD

NoRetry == \A j \in Jobs : tries[j] = 1

SavedOnce ==
  \A j \in Jobs : tries[j] = 1 /\ stage[j] \in {"queued", "previous",
  "save"} => alert[j].stamp = 0

\* The newest alert of every fingerprint, which the next one is counted from.
IsNewest(i) ==
  \A k \in Jobs : Fingerprint[k] = Fingerprint[i] => alert[k].stamp <= alert[i].stamp

NewestKnown ==
  /\ \A k \in Jobs : alert[k].stamp <= clock
  /\ \A k \in Saved(alert) : \E i \in Saved(alert) :
       Fingerprint[i] = Fingerprint[k] /\ IsNewest(i)

CountersDue ==
  /\ \A j \in Jobs :
       alert[j].unresolved <= Cardinality(FiredIn(alert, {Fingerprint[j]}))
  /\ \A f \in Fingerprints : last[f].unresolved <= Cardinality(FiredIn(alert, {f}))

\* A counter that was read and is not saved yet.
CounterDue(j, c) ==
  c <= IF j \in Firing THEN Cardinality(FiredIn(alert, {Fingerprint[j]})) + 1 ELSE 0

PendingDue(j) == stage[j] = "save" => CounterDue(j, counter[j])

CopyDue(j) ==
  stage[j] \in Working =>
    /\ view[j].count <= Cardinality(links[target[j]])
    /\ view[j].fired <= Cardinality(FiredIn(alert, links[target[j]]))
    /\ view[j].visible => DueIn(alert, links[target[j]])

RowDue(n) ==
  /\ incident[n].count <= Cardinality(links[n])
  /\ incident[n].visible => DueIn(alert, links[n])

AllDue ==
  /\ CountersDue
  /\ \A j \in Jobs : PendingDue(j) /\ CopyDue(j)
  /\ \A n \in Numbers : RowDue(n)

ThresholdInv ==
  /\ IsFiniteSet(Saved(alert))
  /\ NewestKnown
  /\ SavedOnce
  /\ NoRetry => AllDue

\* What every step is taken from and leads to.
Typed == CorrelationInv /\ FullTypes

\* The firing alerts of more fingerprints, and later, are more.
LEMMA FiredGrows ==
  ASSUME NEW a, NEW b, NEW S, NEW T, S \subseteq T, IsFiniteSet(Saved(b)),
         Saved(a) \subseteq Saved(b)
  PROVE  /\ FiredIn(a, S) \subseteq FiredIn(b, T)
         /\ IsFiniteSet(FiredIn(b, T))
         /\ Cardinality(FiredIn(a, S)) \in Nat /\ Cardinality(FiredIn(b, T)) \in Nat
         /\ Cardinality(FiredIn(a, S)) <= Cardinality(FiredIn(b, T))
<1>1. FiredIn(b, T) \subseteq Saved(b)
  BY IngestionAssumption DEF FiredIn, Saved
<1>2. IsFiniteSet(FiredIn(b, T))
  BY <1>1, FS_Subset
<1>3. FiredIn(a, S) \subseteq FiredIn(b, T)
  BY IngestionAssumption DEF FiredIn, Saved
<1>4. /\ IsFiniteSet(FiredIn(a, S))
      /\ Cardinality(FiredIn(a, S)) <= Cardinality(FiredIn(b, T))
  BY <1>2, <1>3, FS_Subset
<1> QED
  BY <1>2, <1>3, <1>4, FS_CardinalityType

\* Each fingerprint has at least as many saved firing alerts as its
\* unresolvedCounter says, so that these can be numbered.
LEMMA FiredNumbered ==
  ASSUME NEW f \in Fingerprints, last \in [Fingerprints -> LastRow],
         IsFiniteSet(Saved(alert)), CountersDue
  PROVE  \E b : \A k, l \in 1..last[f].unresolved :
           b[k] \in FiredIn(alert, {f}) /\ (b[k] = b[l] => k = l)
<1> PICK own : own = FiredIn(alert, {f})
  OBVIOUS
<1> PICK c : c = last[f].unresolved
  OBVIOUS
<1>1. IsFiniteSet(own) /\ Cardinality(own) \in Nat
  BY FiredGrows
<1>2. c \in Nat /\ c <= Cardinality(own)
  BY DEF LastRow, CountersDue
<1>3. ExistsBijection(1..Cardinality(own), own)
  BY <1>1, FS_CardinalityType
<1>4. PICK b : b \in Bijection(1..Cardinality(own), own)
  BY <1>3 DEF ExistsBijection
<1>5. b \in Injection(1..Cardinality(own), own)
  BY <1>4, Fun_BijectionProperties
<1>6. /\ b \in [1..Cardinality(own) -> own]
      /\ \A k, l \in 1..Cardinality(own) : b[k] = b[l] => k = l
  <2> PICK places : places = 1..Cardinality(own)
    OBVIOUS
  <2>1. b \in Injection(places, own)
    BY <1>5
  <2>2. /\ b \in [places -> own]
        /\ \A k, l \in places : b[k] = b[l] => k = l
    BY <2>1 DEF Injection, IsInjective
  <2> QED
    BY <2>2
<1>7. \A k \in 1..c : k \in 1..Cardinality(own)
  BY <1>1, <1>2
<1>8. \A k, l \in 1..c : b[k] \in own /\ (b[k] = b[l] => k = l)
  BY <1>6, <1>7
<1> QED
  BY <1>8

\* The sum of the unresolvedCounters of S is at most the number of firing
\* alerts of S: they belong to one fingerprint each.
LEMMA TotalDue ==
  ASSUME NEW S \in SUBSET Fingerprints, last \in [Fingerprints -> LastRow],
         IsFiniteSet(Saved(alert)), CountersDue
  PROVE  Total(S) <= Cardinality(FiredIn(alert, S))
<1> DEFINE Numbering(f, b) ==
             \A k, l \in 1..last[f].unresolved :
               b[k] \in FiredIn(alert, {f}) /\ (b[k] = b[l] => k = l)
<1> DEFINE number == [f \in S |-> CHOOSE b : Numbering(f, b)]
<1>1. \A f \in S : Numbering(f, number[f])
  <2>1. ASSUME NEW f \in S PROVE \E b : Numbering(f, b)
    BY FiredNumbered
  <2> HIDE DEF Numbering
  <2> QED
    BY <2>1
<1> HIDE DEF number
<1> DEFINE pairs == UNION {{f} \X (1..last[f].unresolved) : f \in S}
           name == [p \in pairs |-> number[p[1]][p[2]]]
<1>2. \A p \in pairs : /\ p[1] \in S /\ p = <<p[1], p[2]>>
                       /\ p[2] \in 1..last[p[1]].unresolved
  OBVIOUS
<1> HIDE DEF pairs
<1>3. \A p \in pairs : name[p] \in FiredIn(alert, {p[1]})
  BY <1>1, <1>2
<1>4. name \in [pairs -> FiredIn(alert, S)]
  BY <1>2, <1>3 DEF FiredIn
<1>5. ASSUME NEW p \in pairs, NEW q \in pairs, name[p] = name[q] PROVE p = q
  <2>1. p[1] = q[1]
    BY <1>3, <1>5 DEF FiredIn
  <2>2. number[p[1]][p[2]] = number[p[1]][q[2]]
    BY <1>5, <2>1
  <2>3. p[2] = q[2]
    BY <1>1, <1>2, <2>1, <2>2
  <2> QED
    BY <1>2, <2>1, <2>3
<1> HIDE DEF name
<1>6. name \in Injection(pairs, FiredIn(alert, S))
  BY <1>4, <1>5, Fun_IsInj
<1>7. IsFiniteSet(FiredIn(alert, S))
  BY FiredGrows
<1>8. Cardinality(pairs) <= Cardinality(FiredIn(alert, S))
  BY <1>6, <1>7, FS_Injection
<1> QED
  BY <1>8 DEF Total, pairs

LEMMA InitThreshold == Init => ThresholdInv
<1> SUFFICES ASSUME Init PROVE ThresholdInv
  OBVIOUS
<1>1. /\ \A j \in Jobs : alert[j].stamp = 0 /\ alert[j].unresolved = 0
      /\ \A f \in Fingerprints : last[f].unresolved = 0
      /\ Numbers = {}
      /\ \A j \in Jobs : stage[j] \notin Working \union {"save"}
  BY DEF Init, InitIngestion, NoAlert, NoLastAlert, Numbers, Working
<1>2. IsFiniteSet(Saved(alert))
  BY <1>1, FS_EmptySet DEF Saved
<1>3. CountersDue
  BY <1>1, <1>2, FiredGrows DEF CountersDue
<1>4. NewestKnown
  BY <1>1 DEF NewestKnown, Saved, Init, InitIngestion
<1> QED
  BY <1>1, <1>2, <1>3, <1>4 DEF ThresholdInv, SavedOnce, AllDue, PendingDue, CopyDue

\* What is due stays due: links and saved alerts only get more.
LEMMA DueGrows ==
  ASSUME NEW a, NEW b, NEW S, NEW T, S \subseteq T, IsFiniteSet(T),
         IsFiniteSet(Saved(b)), Saved(a) \subseteq Saved(b)
  PROVE  /\ Cardinality(S) \in Nat /\ Cardinality(T) \in Nat
         /\ Cardinality(S) <= Cardinality(T)
         /\ Cardinality(FiredIn(a, S)) \in Nat /\ Cardinality(FiredIn(b, T)) \in Nat
         /\ Cardinality(FiredIn(a, S)) <= Cardinality(FiredIn(b, T))
         /\ DueIn(a, S) => DueIn(b, T)
<1>1. /\ Cardinality(S) \in Nat /\ Cardinality(T) \in Nat
      /\ Cardinality(S) <= Cardinality(T)
  BY FS_Subset, FS_CardinalityType
<1> QED
  BY <1>1, FiredGrows, CorrelationAssumption DEF DueIn

LEMMA NewLinksFinite ==
  ASSUME Typed', NEW n \in Numbers'
  PROVE  IsFiniteSet(links'[n])
<1>1. /\ links' \in Seq(SUBSET Fingerprints) /\ Len(links') = Len(incident')
      /\ n \in 1..Len(incident')
  BY DEF Typed, CorrelationInv, TableTypes, Numbers
<1>2. links'[n] \in SUBSET Fingerprints
  BY <1>1, ElementOfSeq
<1> QED
  BY <1>2, CorrelationAssumption, FS_Subset

\* A row, or a copy, whose numbers a step does not touch.
LEMMA RowKept ==
  ASSUME Typed, Typed', IsFiniteSet(Saved(alert')), Saved(alert) \subseteq Saved(alert'),
         NEW n \in Numbers, n \in Numbers', links[n] \subseteq links'[n],
         incident'[n].count = incident[n].count,
         incident'[n].visible = incident[n].visible,
         RowDue(n)
  PROVE  RowDue(n)'
<1>1. IsFiniteSet(links'[n])
  BY NewLinksFinite
<1>2. incident[n].count \in Nat
  BY TableFacts DEF Typed, CorrelationInv, Row
<1>3. /\ Cardinality(links[n]) \in Nat /\ Cardinality(links'[n]) \in Nat
      /\ Cardinality(links[n]) <= Cardinality(links'[n])
      /\ DueIn(alert, links[n]) => DueIn(alert', links'[n])
  BY <1>1, DueGrows
<1> QED
  BY <1>2, <1>3 DEF RowDue

LEMMA PendingKept ==
  ASSUME Typed, IsFiniteSet(Saved(alert')), Saved(alert) \subseteq Saved(alert'),
         NEW j \in Jobs, PendingDue(j),
         stage'[j] = "save" => stage[j] = "save" /\ counter'[j] = counter[j]
  PROVE  PendingDue(j)'
<1>1. counter[j] \in Nat
  BY DEF Typed, FullTypes, AlertTypes
<1>2. /\ Cardinality(FiredIn(alert, {Fingerprint[j]})) \in Nat
      /\ Cardinality(FiredIn(alert', {Fingerprint[j]})) \in Nat
      /\ Cardinality(FiredIn(alert, {Fingerprint[j]})) <=
           Cardinality(FiredIn(alert', {Fingerprint[j]}))
  BY FiredGrows
<1> QED
  BY <1>1, <1>2 DEF PendingDue, CounterDue

LEMMA CopyKept ==
  ASSUME Typed, Typed', IsFiniteSet(Saved(alert')), Saved(alert) \subseteq Saved(alert'),
         NEW j \in Jobs,
         stage'[j] \in Working =>
           /\ stage[j] \in Working
           /\ target'[j] = target[j]
           /\ links[target[j]] \subseteq links'[target[j]]
           /\ view'[j].count = view[j].count
           /\ view'[j].fired = view[j].fired
           /\ view'[j].visible = view[j].visible,
         CopyDue(j)
  PROVE  CopyDue(j)'
<1> SUFFICES ASSUME stage'[j] \in Working
             PROVE  /\ view'[j].count <= Cardinality(links'[target'[j]])
                    /\ view'[j].fired <= Cardinality(FiredIn(alert', links'[target'[j]]))
                    /\ view'[j].visible => DueIn(alert', links'[target'[j]])
  BY DEF CopyDue
<1> PICK n : n = target[j]
  OBVIOUS
<1>1. IsFiniteSet(links'[n])
  <2>1. target'[j] \in Numbers'
    BY DEF Typed, CorrelationInv, Holds
  <2> QED
    BY <2>1, NewLinksFinite
<1>2. view[j].count \in Nat /\ view[j].fired \in Nat
  BY DEF Typed, FullTypes, View
<1>3. /\ Cardinality(links[n]) \in Nat /\ Cardinality(links'[n]) \in Nat
      /\ Cardinality(links[n]) <= Cardinality(links'[n])
      /\ Cardinality(FiredIn(alert, links[n])) \in Nat
      /\ Cardinality(FiredIn(alert', links'[n])) \in Nat
      /\ Cardinality(FiredIn(alert, links[n])) <= Cardinality(FiredIn(alert', links'[n]))
      /\ DueIn(alert, links[n]) => DueIn(alert', links'[n])
  BY <1>1, DueGrows
<1> QED
  BY <1>2, <1>3 DEF CopyDue

\* A job that was tried again was not before this step.
LEMMA RetryStays ==
  ASSUME Typed, [Next]_vars, NoRetry'
  PROVE  NoRetry
<1> SUFFICES ASSUME NEW k \in Jobs PROVE tries[k] = 1
  BY DEF NoRetry
<1>1. tries \in [Jobs -> 1..MaxTries] /\ tries'[k] = 1 /\ MaxTries \in Nat
  BY IngestionAssumption DEF Typed, FullTypes, AlertTypes, NoRetry
<1>2. ASSUME NEW j \in Jobs, Retry(j) PROVE tries[k] = 1
  BY <1>1, <1>2 DEF Retry
<1>3. CASE UNCHANGED tries
  BY <1>1, <1>3
<1>4. ASSUME NEW j \in Jobs, Ingest(j) PROVE tries[k] = 1
  BY <1>2, <1>3, <1>4 DEF Ingest, apply_deduplication, ReadPrevious, SaveAlert,
                          set_last_alert, InsertLastAlert
<1>5. ASSUME NEW j \in Jobs, Correlate(j) PROVE tries[k] = 1
  BY <1>3, <1>5 DEF Correlate, ReadIncidents, CheckIncident, Resolve, EndChecks,
                    get_incident_for_grouping_rule,
     create_incident_for_grouping_rule, LinkAlert, CountAlerts, JudgeVisibility,
     CheckResolution, Announce, ingestionVars, incidentVars
<1>6. ASSUME NEW j \in Jobs, JobRaises(j) PROVE tries[k] = 1
  BY <1>2, <1>3, <1>6 DEF JobRaises
<1> QED
  BY <1>3, <1>4, <1>5, <1>6 DEF Next, vars, ingestionVars, QuietPeriod

\* The alert saved last is the newest.
LEMMA SaveIsNewest ==
  ASSUME Typed, IsFiniteSet(Saved(alert)), NewestKnown, NEW j \in Jobs, SaveAlert(j)
  PROVE  /\ IsFiniteSet(Saved(alert')) /\ Saved(alert) \subseteq Saved(alert')
         /\ NewestKnown'
<1>0. alert \in [Jobs -> AlertRow] /\ clock \in Nat
  BY DEF Typed, FullTypes, AlertTypes, CorrelationInv, IngestionTypes
<1>1. /\ alert'[j].stamp = clock + 1 /\ clock' = clock + 1
      /\ \A k \in Jobs \ {j} : alert'[k] = alert[k]
  BY <1>0 DEF SaveAlert
<1>2. \A k \in Jobs : alert[k].stamp \in Nat /\ alert[k].stamp <= clock
  BY <1>0 DEF AlertRow, NewestKnown
<1>3. \A k \in Jobs : alert'[k].stamp <= clock'
  BY <1>0, <1>1, <1>2
<1>4. j \in Saved(alert') /\ IsNewest(j)'
  BY <1>0, <1>1, <1>3 DEF Saved, IsNewest
<1>5. ASSUME NEW k \in Saved(alert')
      PROVE  \E i \in Saved(alert') : Fingerprint[i] = Fingerprint[k] /\ IsNewest(i)'
  <2>1. CASE Fingerprint[k] = Fingerprint[j]
    BY <1>4, <2>1
  <2>2. CASE Fingerprint[k] # Fingerprint[j]
    <3>1. k \in Saved(alert)
      BY <1>1, <2>2 DEF Saved
    <3>2. PICK i \in Saved(alert) : Fingerprint[i] = Fingerprint[k] /\ IsNewest(i)
      BY <3>1 DEF NewestKnown
    <3>3. i \in Saved(alert')
      BY <1>1, <2>2, <3>2 DEF Saved
    <3>4. IsNewest(i)'
      BY <1>1, <2>2, <3>2 DEF IsNewest, Saved
    <3> QED
      BY <3>2, <3>3, <3>4
  <2> QED
    BY <2>1, <2>2
<1>6. Saved(alert') = Saved(alert) \union {j}
  BY <1>0, <1>1 DEF Saved
<1>7. IsFiniteSet(Saved(alert')) /\ Saved(alert) \subseteq Saved(alert')
  BY <1>6, FS_AddElement
<1> QED
  BY <1>3, <1>5, <1>7 DEF NewestKnown

\* The counter of an alert counts it and those it follows, which were counted.
LEMMA CounterIsDue ==
  ASSUME Typed, IsFiniteSet(Saved(alert)), NewestKnown, CountersDue, NEW j \in Jobs
  PROVE  CounterDue(j, UnresolvedCounter(j))
<1> DEFINE earlier == {k \in Jobs : Fingerprint[k] = Fingerprint[j] /\ alert[k].stamp # 0}
           newest  == CHOOSE k \in earlier : \A i \in earlier : alert[i].stamp <=
           alert[k].stamp
<1>0. alert \in [Jobs -> AlertRow]
  BY DEF Typed, FullTypes, AlertTypes
<1>1. Cardinality(FiredIn(alert, {Fingerprint[j]})) \in Nat
  BY FiredGrows
<1>2. UnresolvedCounter(j) = IF j \notin Firing THEN 0
                             ELSE IF earlier = {} \/ newest \notin Firing THEN 1
                             ELSE alert[newest].unresolved + 1
  BY DEF UnresolvedCounter
<1>3. CASE j \notin Firing
  BY <1>2, <1>3 DEF CounterDue
<1>4. CASE j \in Firing /\ (earlier = {} \/ newest \notin Firing)
  <2>1. UnresolvedCounter(j) = 1
    BY <1>2, <1>4
  <2> QED
    BY <1>1, <1>4, <2>1 DEF CounterDue
<1>5. CASE j \in Firing /\ earlier # {} /\ newest \in Firing
  <2>1. UnresolvedCounter(j) = alert[newest].unresolved + 1
    BY <1>2, <1>5
  <2>2. newest \in earlier
    <3>1. PICK k \in earlier : TRUE
      BY <1>5
    <3>2. PICK i \in Saved(alert) : Fingerprint[i] = Fingerprint[k] /\ IsNewest(i)
      BY <3>1 DEF NewestKnown, Saved
    <3>3. i \in earlier /\ \A l \in earlier : alert[l].stamp <= alert[i].stamp
      BY <3>1, <3>2 DEF IsNewest, Saved
    <3> QED
      BY <3>3
  <2> PICK k \in Jobs : k = newest /\ Fingerprint[k] = Fingerprint[j]
    BY <2>2
  <2>3. alert[k].unresolved <= Cardinality(FiredIn(alert, {Fingerprint[j]}))
    BY DEF CountersDue
  <2>4. alert[k].unresolved \in Nat
    BY <1>0 DEF AlertRow
  <2> QED
    BY <1>1, <1>5, <2>1, <2>3, <2>4 DEF CounterDue
<1> QED
  BY <1>3, <1>4, <1>5

\* Saving an alert makes its counter, read earlier, count no more than there is.
LEMMA SaveCounts ==
  ASSUME Typed, IsFiniteSet(Saved(alert)), NewestKnown, CountersDue,
         NEW j \in Jobs, PendingDue(j), alert[j].stamp = 0, SaveAlert(j)
  PROVE  CountersDue'
<1>0. /\ alert \in [Jobs -> AlertRow] /\ last \in [Fingerprints -> LastRow]
      /\ clock \in Nat /\ counter[j] \in Nat
  BY DEF Typed, FullTypes, AlertTypes, CorrelationInv, IngestionTypes
<1>1. /\ alert'[j] = [stamp |-> clock + 1, unresolved |-> counter[j]]
      /\ \A k \in Jobs \ {j} : alert'[k] = alert[k]
      /\ last' = last
  BY <1>0 DEF SaveAlert
<1>3. IsFiniteSet(Saved(alert')) /\ Saved(alert) \subseteq Saved(alert')
  BY SaveIsNewest
<1>4. \A S : /\ Cardinality(FiredIn(alert, S)) \in Nat
             /\ Cardinality(FiredIn(alert', S)) \in Nat
             /\ Cardinality(FiredIn(alert, S)) <= Cardinality(FiredIn(alert', S))
  BY <1>3, FiredGrows
<1>5. ASSUME j \in Firing
      PROVE  Cardinality(FiredIn(alert', {Fingerprint[j]})) =
               Cardinality(FiredIn(alert, {Fingerprint[j]})) + 1
  <2>1. FiredIn(alert', {Fingerprint[j]}) = FiredIn(alert, {Fingerprint[j]}) \union {j}
    BY <1>0, <1>1, <1>5, IngestionAssumption DEF FiredIn
  <2>2. j \notin FiredIn(alert, {Fingerprint[j]})
    BY DEF FiredIn
  <2>3. IsFiniteSet(FiredIn(alert, {Fingerprint[j]}))
    BY FiredGrows
  <2> QED
    BY <2>1, <2>2, <2>3, FS_AddElement
<1>6. counter[j] <= Cardinality(FiredIn(alert', {Fingerprint[j]}))
  <2>1. CounterDue(j, counter[j])
    BY DEF SaveAlert, PendingDue
  <2> QED
    BY <1>0, <1>4, <1>5, <2>1 DEF CounterDue
<1>7. ASSUME NEW k \in Jobs
      PROVE  alert'[k].unresolved <= Cardinality(FiredIn(alert', {Fingerprint[k]}))
  <2>1. CASE k = j
    BY <1>1, <1>6, <2>1
  <2>2. CASE k # j
    <3>1. alert[k].unresolved \in Nat
      BY <1>0 DEF AlertRow
    <3> QED
      BY <1>1, <1>4, <2>2, <3>1 DEF CountersDue
  <2> QED
    BY <2>1, <2>2
<1>8. ASSUME NEW f \in Fingerprints
      PROVE  last'[f].unresolved <= Cardinality(FiredIn(alert', {f}))
  <2>1. last[f].unresolved \in Nat
    BY <1>0 DEF LastRow
  <2> QED
    BY <1>1, <1>4, <2>1 DEF CountersDue
<1> QED
  BY <1>7, <1>8 DEF CountersDue

\* The tables of alerts as a step of a job finds them are counted as it leaves them.
LEMMA LastCounts ==
  ASSUME Typed, CountersDue, NEW j \in Jobs, UNCHANGED alert,
         \/ last' = last
         \/ last' = [last EXCEPT ![Fingerprint[j]] = LastAlertOf(j)]
  PROVE  CountersDue'
<1>0. last \in [Fingerprints -> LastRow] /\ Fingerprint[j] \in Fingerprints
  BY IngestionAssumption DEF Typed, FullTypes, AlertTypes
<1>1. \A k \in Jobs : alert'[k].unresolved <= Cardinality(FiredIn(alert', {Fingerprint[k]}))
  BY Zenon DEF CountersDue
<1>2. ASSUME NEW f \in Fingerprints
      PROVE  last'[f].unresolved <= Cardinality(FiredIn(alert', {f}))
  <2> PICK fired : fired = FiredIn(alert, {f})
    OBVIOUS
  <2>0. FiredIn(alert', {f}) = fired
    OBVIOUS
  <2>1. last[f].unresolved <= Cardinality(fired)
    BY DEF CountersDue
  <2>2. f = Fingerprint[j] => LastAlertOf(j).unresolved <= Cardinality(fired)
    BY DEF CountersDue, LastAlertOf
  <2> QED
    BY <1>0, <2>0, <2>1, <2>2
<1> QED
  BY <1>1, <1>2 DEF CountersDue

LEMMA IngestKeepsDue ==
  ASSUME Typed, Typed', ThresholdInv, NEW j \in Jobs, Ingest(j), UNCHANGED incidentVars
  PROVE  ThresholdInv'
<1>0. /\ stage \in [Jobs -> Stages] /\ tries \in [Jobs -> 1..MaxTries]
      /\ alert \in [Jobs -> AlertRow] /\ MaxTries \in Nat
  BY IngestionAssumption
     DEF Typed, FullTypes, AlertTypes, CorrelationInv, IngestionTypes
<1>1. /\ \A k \in Jobs \ {j} : stage'[k] = stage[k] /\ tries'[k] = tries[k]
                                                  /\ alert'[k] = alert[k]
      /\ stage[j] \in Unsaved
      /\ stage'[j] \notin Working
  BY <1>0 DEF Ingest, apply_deduplication, SaveAlert, set_last_alert, InsertLastAlert,
              ReadPrevious, Retry, Goto, AfterSave, Working, Unsaved
<1>2. /\ IsFiniteSet(Saved(alert')) /\ Saved(alert) \subseteq Saved(alert')
      /\ NewestKnown'
  <2>1. CASE SaveAlert(j)
    BY <2>1, SaveIsNewest DEF ThresholdInv
  <2>2. CASE ~SaveAlert(j)
    <3>1. UNCHANGED <<alert, clock>>
      BY <2>2 DEF Ingest, apply_deduplication, ReadPrevious, set_last_alert, InsertLastAlert
    <3>2. NewestKnown'
      BY <3>1 DEF ThresholdInv, NewestKnown, IsNewest, Saved
    <3> QED
      BY <3>1, <3>2 DEF ThresholdInv
  <2> QED
    BY <2>1, <2>2
<1>3. SavedOnce'
  <2> SUFFICES ASSUME NEW k \in Jobs, tries'[k] = 1, stage'[k] \in {"queued", "previous",
  "save"}
               PROVE  alert'[k].stamp = 0
    BY DEF SavedOnce
  <2>1. CASE k # j
    BY <1>1, <2>1 DEF ThresholdInv, SavedOnce
  <2>2. CASE k = j
    <3>1. apply_deduplication(j) \/ ReadPrevious(j)
      BY <1>0, <2>2 DEF Ingest, SaveAlert, set_last_alert, InsertLastAlert, Retry, Goto,
                        AfterSave
    <3> QED
      BY <2>2, <3>1 DEF apply_deduplication, ReadPrevious, ThresholdInv, SavedOnce
  <2> QED
    BY <2>1, <2>2
<1>4. ASSUME NoRetry' PROVE AllDue'
  <2>1. NoRetry
    BY <1>4, RetryStays DEF Next
  <2>2. AllDue
    BY <2>1 DEF ThresholdInv
  <2>3. CountersDue'
    <3>1. CASE SaveAlert(j)
      <4>1. alert[j].stamp = 0
        BY <2>1, <3>1 DEF SaveAlert, ThresholdInv, SavedOnce, NoRetry
      <4> QED
        BY <2>2, <3>1, <4>1, SaveCounts DEF ThresholdInv, AllDue
    <3>2. CASE ~SaveAlert(j)
      <4>0. last \in [Fingerprints -> LastRow]
        BY DEF Typed, FullTypes, AlertTypes
      <4>1. /\ UNCHANGED alert
            /\ \/ last' = last
               \/ last' = [last EXCEPT ![Fingerprint[j]] = LastAlertOf(j)]
        BY <3>2, <4>0 DEF Ingest, apply_deduplication, ReadPrevious, set_last_alert,
                          InsertLastAlert
      <4> QED
        BY <2>2, <4>1, LastCounts DEF AllDue
    <3> QED
      BY <3>1, <3>2
  <2>4. ASSUME NEW k \in Jobs PROVE CopyDue(k)'
    BY <1>1, <1>2, <2>2, CopyKept DEF AllDue, incidentVars
  <2>5. ASSUME NEW n \in Numbers' PROVE RowDue(n)'
    BY <1>2, <2>2, RowKept DEF AllDue, incidentVars, Numbers
  <2>6. ASSUME NEW k \in Jobs PROVE PendingDue(k)'
    <3>1. CASE k = j /\ ReadPrevious(j)
      <4>1. UNCHANGED alert /\ counter'[j] = UnresolvedCounter(j)
        BY <3>1 DEF ReadPrevious, Typed, FullTypes, AlertTypes
      <4>2. CounterDue(j, UnresolvedCounter(j))
        BY <2>2, CounterIsDue DEF ThresholdInv, AllDue
      <4> QED
        BY <3>1, <4>1, <4>2 DEF PendingDue, CounterDue, FiredIn
    <3>2. CASE ~(k = j /\ ReadPrevious(j))
      <4>1. stage'[k] = "save" => stage[k] = "save" /\ counter'[k] = counter[k]
        <5>1. CASE k = j
          BY <1>0, <3>2, <5>1 DEF Ingest, apply_deduplication, SaveAlert, set_last_alert,
                                  InsertLastAlert, Retry, Goto, AfterSave
        <5>2. CASE k # j
          <6>1. counter' = counter \/ \E c : counter' = [counter EXCEPT ![j] = c]
            BY DEF Ingest, apply_deduplication, ReadPrevious, SaveAlert, set_last_alert,
                   InsertLastAlert
          <6> QED
            BY <1>1, <5>2, <6>1 DEF Typed, FullTypes, AlertTypes
        <5> QED
          BY <5>1, <5>2
      <4> QED
        BY <1>2, <2>2, <4>1, PendingKept DEF AllDue
    <3> QED
      BY <3>1, <3>2
  <2> QED
    BY <2>3, <2>4, <2>5, <2>6 DEF AllDue
<1> QED
  BY <1>2, <1>3, <1>4 DEF ThresholdInv

(***************************************************************************)
(* A step of j in _run_cel_rules saves no alert: what is left to show is   *)
(* that the rows and j's copy are due.                                     *)
(***************************************************************************)
LEMMA DueFrame ==
  ASSUME Typed, Typed', ThresholdInv, NEW j \in Jobs,
         UNCHANGED <<tries, alert, last, clock, counter>>,
         stage'[j] \notin {"queued", "previous", "save"},
         \A k \in Jobs \ {j} : /\ stage'[k] = stage[k] /\ target'[k] = target[k]
                               /\ view'[k] = view[k],
         \A n \in Numbers : links[n] \subseteq links'[n],
         AllDue => CopyDue(j)' /\ \A n \in Numbers' : RowDue(n)'
  PROVE  ThresholdInv'
<1>1. IsFiniteSet(Saved(alert')) /\ Saved(alert) \subseteq Saved(alert')
  BY DEF ThresholdInv
<1>2. NewestKnown'
  BY DEF ThresholdInv, NewestKnown, IsNewest, Saved
<1>3. SavedOnce'
  BY DEF ThresholdInv, SavedOnce
<1>4. ASSUME NoRetry' PROVE AllDue'
  <2>1. AllDue
    BY <1>4 DEF ThresholdInv, NoRetry
  <2>2. CountersDue'
    BY <2>1, LastCounts DEF AllDue
  <2>3. ASSUME NEW k \in Jobs PROVE PendingDue(k)' /\ CopyDue(k)'
    <3>0. PendingDue(k)'
      BY <1>1, <2>1, PendingKept DEF AllDue
    <3>1. CASE k = j
      BY <2>1, <3>0, <3>1
    <3>2. CASE k # j
      <4>1. stage[k] \in Working => target[k] \in Numbers
        BY DEF Typed, CorrelationInv, Holds
      <4> QED
        BY <1>1, <2>1, <3>0, <3>2, <4>1, CopyKept DEF AllDue
    <3> QED
      BY <3>1, <3>2
  <2> QED
    BY <2>1, <2>2, <2>3 DEF AllDue
<1> QED
  BY <1>1, <1>2, <1>3, <1>4 DEF ThresholdInv

\* What a job of _run_cel_rules leaves alone.
LEMMA CorrelateOthers ==
  ASSUME Typed, NEW j \in Jobs, Correlate(j)
  PROVE  /\ UNCHANGED <<tries, alert, last, clock, counter>>
         /\ stage'[j] \notin {"queued", "previous", "save"}
         /\ \A k \in Jobs \ {j} : /\ stage'[k] = stage[k] /\ target'[k] = target[k]
                                  /\ view'[k] = view[k]
<1>0. /\ stage \in [Jobs -> Stages] /\ target \in [Jobs -> 0..Len(incident)]
      /\ view \in [Jobs -> View]
  BY DEF Typed, FullTypes, CorrelationInv, IngestionTypes, JobTypes
<1>1. UNCHANGED <<tries, alert, last, clock, counter>>
  BY DEF Correlate, ReadIncidents, CheckIncident, Resolve, EndChecks,
         get_incident_for_grouping_rule, create_incident_for_grouping_rule, LinkAlert,
         CountAlerts, JudgeVisibility,
         CheckResolution, Announce, ingestionVars, incidentVars
<1>2. \/ \E s \in Evaluated \union {"done"} : Goto(j, s)
      \/ UNCHANGED stage /\ (resolving[j] # {} \/ stage[j] = "closing")
  BY DEF Correlate, ReadIncidents, CheckIncident, Resolve, EndChecks,
         get_incident_for_grouping_rule, create_incident_for_grouping_rule, LinkAlert,
         CountAlerts, JudgeVisibility,
         CheckResolution, Announce, ingestionVars, incidentVars, Evaluated
<1>3. resolving[j] # {} => stage[j] \in {"closing", "announce"}
  BY DEF Typed, CorrelationInv, Holds
<1>4. /\ stage'[j] \notin {"queued", "previous", "save"}
      /\ \A k \in Jobs \ {j} : stage'[k] = stage[k]
  BY <1>0, <1>2, <1>3 DEF Goto, Evaluated
<1>5. /\ target' = target \/ \E n : target' = [target EXCEPT ![j] = n]
      /\ view' = view \/ \E v : view' = [view EXCEPT ![j] = v]
  BY DEF Correlate, ReadIncidents, CheckIncident, Resolve, EndChecks,
         get_incident_for_grouping_rule, Found,
         create_incident_for_grouping_rule, LinkAlert, CountAlerts, JudgeVisibility,
         CheckResolution, Announce, Forget, incidentVars
<1>6. \A k \in Jobs \ {j} : target'[k] = target[k] /\ view'[k] = view[k]
  BY <1>0, <1>5
<1> QED
  BY <1>1, <1>4, <1>6

\* A step that writes neither a link nor a count nor the visibility of a row.
LEMMA RowsKept ==
  ASSUME Typed, Typed', IsFiniteSet(Saved(alert)), UNCHANGED <<alert, links>>,
         AllDue, Numbers' = Numbers,
         \A n \in Numbers : /\ incident'[n].count = incident[n].count
                            /\ incident'[n].visible = incident[n].visible
  PROVE  \A n \in Numbers' : RowDue(n)'
BY RowKept DEF AllDue

LEMMA FindKeepsDue ==
  ASSUME Typed, Typed', IsFiniteSet(Saved(alert)), AllDue, NEW j \in Jobs,
         get_incident_for_grouping_rule(j)
  PROVE  CopyDue(j)' /\ \A n \in Numbers' : RowDue(n)'
<1>1. UNCHANGED <<alert, last, incident, links>> /\ Numbers' = Numbers
  BY DEF get_incident_for_grouping_rule, Numbers
<1>2. \A n \in Numbers' : RowDue(n)'
  BY <1>1, RowsKept
<1>3. CopyDue(j)'
  <2>1. CASE Open(Len(incident)) /\ Found(j, Len(incident))
    <3> PICK n : n = Len(incident)
      OBVIOUS
    <3>1. n \in Numbers /\ incident[n] \in Row /\ links[n] \in SUBSET Fingerprints
      BY <2>1, TableFacts DEF Open, Typed, CorrelationInv, Numbers
    <3> PICK T : T = links[n]
      OBVIOUS
    <3>2. /\ target'[j] = n
          /\ view'[j].count = incident[n].count
          /\ view'[j].fired = IF incident[n].count > 0 THEN Total(T) ELSE 0
          /\ view'[j].visible = incident[n].visible
      BY <2>1 DEF Found, Typed, FullTypes, CorrelationInv, JobTypes
    <3>3. Total(T) <= Cardinality(FiredIn(alert, T))
      BY <3>1, TotalDue DEF AllDue, Typed, FullTypes, AlertTypes
    <3>4. Cardinality(FiredIn(alert, T)) \in Nat
      BY FiredGrows
    <3>5. /\ incident[n].count <= Cardinality(T)
          /\ incident[n].visible => DueIn(alert, T)
      BY <3>1 DEF AllDue, RowDue
    <3>6. links'[n] = T /\ FiredIn(alert', T) = FiredIn(alert, T)
          /\ (DueIn(alert', T) <=> DueIn(alert, T))
      BY <1>1 DEF FiredIn, DueIn
    <3>7. view'[j].fired <= Cardinality(FiredIn(alert, T))
      BY <3>2, <3>3, <3>4
    <3> QED
      BY <3>2, <3>5, <3>6, <3>7 DEF CopyDue
  <2>2. CASE ~(Open(Len(incident)) /\ Found(j, Len(incident)))
    <3>1. stage'[j] \notin Working
      BY <2>2, OtherStage
         DEF get_incident_for_grouping_rule, Working, Typed, CorrelationInv
    <3> QED
      BY <3>1 DEF CopyDue
  <2> QED
    BY <2>1, <2>2
<1> QED
  BY <1>2, <1>3

\* A new incident is linked to nothing, and counts nothing.
LEMMA CreateKeepsDue ==
  ASSUME Typed, Typed', IsFiniteSet(Saved(alert)), AllDue, NEW j \in Jobs,
         create_incident_for_grouping_rule(j)
  PROVE  /\ CopyDue(j)' /\ \A n \in Numbers' : RowDue(n)'
         /\ \A n \in Numbers : links[n] \subseteq links'[n]
<1> PICK m : m = Len(incident) + 1
  OBVIOUS
<1>0. incident \in Seq(Row) /\ links \in Seq(SUBSET Fingerprints) /\ Len(links) =
Len(incident)
  BY DEF Typed, CorrelationInv, TableTypes
<1>1. /\ Len(incident) \in Nat /\ Numbers = 1..Len(incident)
      /\ Numbers' = Numbers \union {m}
      /\ incident'[m] = NewRow /\ links'[m] = {}
      /\ \A n \in Numbers : incident'[n] = incident[n] /\ links'[n] = links[n]
  <2>1. Len(incident) \in Nat /\ Numbers = 1..Len(incident)
    BY TableFacts DEF Typed, CorrelationInv
  <2>2. /\ Len(incident') = m /\ incident'[m] = NewRow /\ links'[m] = {}
        /\ \A n \in 1..Len(incident) : incident'[n] = incident[n] /\ links'[n] = links[n]
    BY <1>0, AppendProperties DEF create_incident_for_grouping_rule, NewRow, Row
  <2> QED
    BY <2>1, <2>2 DEF Numbers
<1>2. Cardinality({}) = 0
  BY FS_EmptySet
<1>3. RowDue(m)'
  BY <1>1, <1>2 DEF RowDue, NewRow
<1>4. ASSUME NEW n \in Numbers PROVE RowDue(n)'
  BY <1>1, RowKept DEF AllDue, create_incident_for_grouping_rule
<1>5. CopyDue(j)'
  <2>1. target'[j] = m /\ view'[j] = [NoView EXCEPT !.send = TRUE]
    BY DEF create_incident_for_grouping_rule, Typed, FullTypes, CorrelationInv, JobTypes
  <2>2. view'[j].count = 0 /\ view'[j].fired = 0 /\ ~view'[j].visible
    BY <2>1 DEF NoView
  <2>3. /\ Cardinality(links'[target'[j]]) = 0
        /\ Cardinality(FiredIn(alert', links'[target'[j]])) = 0
    <3>1. links'[target'[j]] = {} /\ FiredIn(alert', links'[target'[j]]) = {}
      BY <1>1, <2>1 DEF FiredIn
    <3> QED
      BY <1>2, <3>1
  <2> QED
    BY <2>2, <2>3 DEF CopyDue
<1> QED
  BY <1>1, <1>3, <1>4, <1>5

LEMMA LinkKeepsDue ==
  ASSUME Typed, Typed', IsFiniteSet(Saved(alert)), AllDue, NEW j \in Jobs, LinkAlert(j)
  PROVE  /\ CopyDue(j)' /\ \A n \in Numbers' : RowDue(n)'
         /\ \A n \in Numbers : links[n] \subseteq links'[n]
<1>0. UNCHANGED <<alert, incident, target, view>> /\ Numbers' = Numbers
  BY DEF LinkAlert, Numbers
<1>1. ASSUME NEW n \in Numbers PROVE links[n] \subseteq links'[n]
  <2>1. n \in DOMAIN links
    BY DEF Numbers, Typed, CorrelationInv, TableTypes
  <2> QED
    BY <2>1 DEF LinkAlert
<1>2. stage[j] \in Working /\ target[j] \in Numbers
  BY DEF LinkAlert, Working, Typed, CorrelationInv, Holds
<1>3. CopyDue(j)'
  BY <1>0, <1>1, <1>2, CopyKept DEF AllDue
<1>4. ASSUME NEW n \in Numbers' PROVE RowDue(n)'
  BY <1>0, <1>1, RowKept DEF AllDue
<1> QED
  BY <1>1, <1>3, <1>4

\* The count is that of the links, and what is visible already is due.
LEMMA CountKeepsDue ==
  ASSUME Typed, Typed', IsFiniteSet(Saved(alert)), AllDue, NEW j \in Jobs, CountAlerts(j)
  PROVE  CopyDue(j)' /\ \A n \in Numbers' : RowDue(n)'
<1> PICK n : n = target[j]
  OBVIOUS
<1> PICK c : c = Cardinality(links[n])
  OBVIOUS
<1>1. stage[j] \in Working /\ n \in Numbers
  BY DEF CountAlerts, Working, Typed, CorrelationInv, Holds
<1>2. c \in Nat /\ incident[n] \in Row
  BY <1>1, TableFacts, LinksFinite DEF Typed, CorrelationInv
<1>3. /\ incident' = [incident EXCEPT ![n].count = c]
      /\ view' = [view EXCEPT ![j].count = c, ![j].visible = incident[n].visible]
      /\ UNCHANGED <<alert, links, target>>
  BY DEF CountAlerts
<1>4. /\ Numbers' = Numbers
      /\ incident'[n].count = c /\ incident'[n].visible = incident[n].visible
      /\ \A m \in Numbers \ {n} : incident'[m] = incident[m]
  <2>1. [incident[n] EXCEPT !.count = c] \in Row
    BY <1>2 DEF Row
  <2>2. incident' = [incident EXCEPT ![n] = [incident[n] EXCEPT !.count = c]]
    BY <1>3
  <2>3. /\ Numbers' = Numbers /\ incident'[n] = [incident[n] EXCEPT !.count = c]
        /\ \A m \in Numbers \ {n} : incident'[m] = incident[m]
    BY <1>1, <1>3, <2>1, <2>2, IncidentWritten DEF Typed, CorrelationInv
  <2> QED
    BY <1>2, <2>3 DEF Row
<1>5. incident[n].visible => DueIn(alert, links[n])
  BY <1>1 DEF AllDue, RowDue
<1>6. /\ view'[j].count = c /\ view'[j].visible = incident[n].visible
      /\ view'[j].fired = view[j].fired
  BY <1>3 DEF Typed, FullTypes, View
<1>7. CopyDue(j)'
  <2>1. view[j].fired <= Cardinality(FiredIn(alert, links[n]))
    BY <1>1 DEF AllDue, CopyDue
  <2>2. FiredIn(alert', links'[n]) = FiredIn(alert, links[n])
    BY <1>3 DEF FiredIn
  <2>3. DueIn(alert', links'[n]) <=> DueIn(alert, links[n])
    BY <1>3, <2>2 DEF DueIn
  <2> QED
    BY <1>2, <1>3, <1>5, <1>6, <2>1, <2>2, <2>3 DEF CopyDue
<1>8. ASSUME NEW m \in Numbers PROVE RowDue(m)'
  <2>1. CASE m = n
    <3>1. DueIn(alert', links'[n]) <=> DueIn(alert, links[n])
      BY <1>3 DEF DueIn, FiredIn
    <3> QED
      BY <1>2, <1>3, <1>4, <1>5, <2>1, <3>1 DEF RowDue
  <2>2. CASE m # n
    BY <1>3, <1>4, <2>2, RowKept DEF AllDue
  <2> QED
    BY <2>1, <2>2
<1> QED
  BY <1>4, <1>7, <1>8

\* What a copy says is at the threshold is due in the tables.
LEMMA JudgeKeepsDue ==
  ASSUME Typed, Typed', IsFiniteSet(Saved(alert)), AllDue, NEW j \in Jobs,
         JudgeVisibility(j)
  PROVE  CopyDue(j)' /\ \A n \in Numbers' : RowDue(n)'
<1> PICK n : n = target[j]
  OBVIOUS
<1>0. stage[j] \in Working /\ n \in Numbers /\ UNCHANGED <<alert, links, target>>
  BY DEF JudgeVisibility, Working, Typed, CorrelationInv, Holds
<1>1. CASE view[j].visible
  <2>1. UNCHANGED <<incident, view>>
    BY <1>1, Zenon DEF JudgeVisibility
  <2>2. CopyDue(j)'
    BY <1>0, <2>1, CopyKept DEF AllDue
  <2> QED
    BY <1>0, <2>1, <2>2, RowsKept DEF Numbers
<1>2. CASE ~view[j].visible
  <2> PICK reached \in BOOLEAN :
        reached = (view[j].count >= THRESHOLD \/ view[j].fired >= THRESHOLD)
    OBVIOUS
  <2>1. /\ incident' = [incident EXCEPT ![n].visible = @ \/ reached]
        /\ view' = [view EXCEPT ![j].visible = reached, ![j].send = reached]
    BY <1>2, Zenon DEF JudgeVisibility
  <2>2. incident[n] \in Row
    BY <1>0, TableFacts DEF Typed, CorrelationInv
  <2>3. /\ Numbers' = Numbers
        /\ incident'[n].count = incident[n].count
        /\ incident'[n].visible => incident[n].visible \/ reached
        /\ \A m \in Numbers \ {n} : incident'[m] = incident[m]
    <3> PICK seen \in BOOLEAN : seen = (incident[n].visible \/ reached)
      OBVIOUS
    <3>1. [incident[n] EXCEPT !.visible = seen] \in Row
      BY <2>2 DEF Row
    <3>2. incident' = [incident EXCEPT ![n] = [incident[n] EXCEPT !.visible = seen]]
      BY <2>1
    <3>3. /\ Numbers' = Numbers /\ incident'[n] = [incident[n] EXCEPT !.visible = seen]
          /\ \A m \in Numbers \ {n} : incident'[m] = incident[m]
      BY <1>0, <3>1, <3>2, IncidentWritten DEF Typed, CorrelationInv
    <3>4. /\ incident'[n].count = incident[n].count
          /\ incident'[n].visible = seen
      BY <2>2, <3>3 DEF Row
    <3> QED
      BY <3>3, <3>4
  <2>4. view'[j].count = view[j].count /\ view'[j].fired = view[j].fired
        /\ view'[j].visible = reached
    BY <2>1 DEF Typed, FullTypes, View
  <2>5. /\ view[j].count \in Nat /\ view[j].fired \in Nat
        /\ view[j].count <= Cardinality(links[n])
        /\ view[j].fired <= Cardinality(FiredIn(alert, links[n]))
    BY <1>0 DEF AllDue, CopyDue, Typed, FullTypes, View
  <2>6. reached => DueIn(alert, links[n])
    <3>1. Cardinality(links[n]) \in Nat
      BY <1>0, LinksFinite DEF Typed, CorrelationInv
    <3>2. Cardinality(FiredIn(alert, links[n])) \in Nat
      BY FiredGrows
    <3>3. /\ view[j].count >= THRESHOLD => DueIn(alert, links[n])
          /\ view[j].fired >= THRESHOLD => DueIn(alert, links[n])
      BY <2>5, <3>1, <3>2, CorrelationAssumption DEF DueIn
    <3> QED
      BY <3>3, Zenon
  <2>7. FiredIn(alert', links'[n]) = FiredIn(alert, links[n])
    BY <1>0 DEF FiredIn
  <2>8. DueIn(alert', links'[n]) <=> DueIn(alert, links[n])
    BY <1>0, <2>7 DEF DueIn
  <2>9. CopyDue(j)'
    BY <1>0, <2>4, <2>5, <2>6, <2>7, <2>8 DEF CopyDue
  <2>10. ASSUME NEW m \in Numbers PROVE RowDue(m)'
    <3>1. CASE m = n
      BY <1>0, <2>3, <2>6, <2>8, <3>1 DEF AllDue, RowDue
    <3>2. CASE m # n
      BY <1>0, <2>3, <3>2, RowKept DEF AllDue
    <3> QED
      BY <3>1, <3>2
  <2> QED
    BY <2>3, <2>9, <2>10
<1> QED
  BY <1>1, <1>2

LEMMA CorrelateKeepsDue ==
  ASSUME Typed, Typed', ThresholdInv, NEW j \in Jobs, Correlate(j)
  PROVE  ThresholdInv'
<1>1. /\ UNCHANGED <<tries, alert, last, clock, counter>>
      /\ stage'[j] \notin {"queued", "previous", "save"}
      /\ \A k \in Jobs \ {j} : /\ stage'[k] = stage[k] /\ target'[k] = target[k]
                               /\ view'[k] = view[k]
  BY CorrelateOthers
<1>2. IsFiniteSet(Saved(alert))
  BY DEF ThresholdInv
<1>3. ASSUME AllDue PROVE CopyDue(j)' /\ \A n \in Numbers' : RowDue(n)'
  <2>1. CASE get_incident_for_grouping_rule(j)
    BY <1>2, <1>3, <2>1, FindKeepsDue
  <2>2. CASE create_incident_for_grouping_rule(j)
    BY <1>2, <1>3, <2>2, CreateKeepsDue
  <2>3. CASE LinkAlert(j)
    BY <1>2, <1>3, <2>3, LinkKeepsDue
  <2>4. CASE CountAlerts(j)
    BY <1>2, <1>3, <2>4, CountKeepsDue
  <2>5. CASE JudgeVisibility(j)
    BY <1>2, <1>3, <2>5, JudgeKeepsDue
  <2>6. CASE Resolve(j)
    <3>1. UNCHANGED <<stage, alert, last, links, target, view>> /\ CopyDue(j)
      BY <1>3, <2>6 DEF Resolve, ingestionVars, AllDue
    <3>2. CopyDue(j)'
      BY <3>1 DEF CopyDue
    <3>3. PICK n \in resolving[j] : incident' = [incident EXCEPT ![n].status = "resolved"]
      BY <2>6 DEF Resolve
    <3>4. n \in Numbers /\ incident[n] \in Row
      BY TableFacts DEF Typed, CorrelationInv, JobTypes
    <3>5. [incident[n] EXCEPT !.status = "resolved"] \in Row
      BY <3>4 DEF Row
    <3>6. incident' = [incident EXCEPT ![n] = [incident[n] EXCEPT !.status = "resolved"]]
      BY <3>3
    <3>7. /\ Numbers' = Numbers
          /\ incident'[n] = [incident[n] EXCEPT !.status = "resolved"]
          /\ \A m \in Numbers \ {n} : incident'[m] = incident[m]
      BY <3>1, <3>4, <3>5, <3>6, IncidentWritten DEF Typed, CorrelationInv
    <3>8. \A m \in Numbers : /\ incident'[m].count = incident[m].count
                             /\ incident'[m].visible = incident[m].visible
      BY <3>4, <3>7 DEF Row
    <3> QED
      BY <1>2, <1>3, <3>1, <3>2, <3>7, <3>8, RowsKept
  <2>7. CASE \/ ReadIncidents(j) \/ CheckIncident(j) \/ EndChecks(j)
             \/ CheckResolution(j) \/ Announce(j)
    <3>1. UNCHANGED <<alert, links, incident>> /\ Numbers' = Numbers
      BY <2>7 DEF ReadIncidents, CheckIncident, EndChecks, CheckResolution, Announce,
                  ingestionVars, incidentVars, Numbers
    <3>2. \/ stage'[j] \notin Working
          \/ stage[j] \in Working /\ UNCHANGED <<target, view>>
      BY <2>7, OtherStage
         DEF ReadIncidents, CheckIncident, EndChecks, CheckResolution, Announce, Working,
             ingestionVars, Typed, CorrelationInv
    <3>3. CopyDue(j)'
      BY <1>2, <1>3, <3>1, <3>2, CopyKept DEF AllDue, CopyDue
    <3> QED
      BY <1>2, <1>3, <3>1, <3>3, RowsKept
  <2> QED
    BY <2>1, <2>2, <2>3, <2>4, <2>5, <2>6, <2>7 DEF Correlate
<1>4. ASSUME NEW n \in Numbers PROVE links[n] \subseteq links'[n]
  <2>1. CASE create_incident_for_grouping_rule(j)
    <3>1. /\ links \in Seq(SUBSET Fingerprints) /\ n \in 1..Len(links)
          /\ links' = Append(links, {})
      BY <2>1 DEF create_incident_for_grouping_rule, Typed, CorrelationInv, TableTypes,
                  Numbers
    <3> QED
      BY <3>1, AppendProperties
  <2>2. CASE LinkAlert(j)
    <3>1. n \in DOMAIN links
      BY DEF Numbers, Typed, CorrelationInv, TableTypes
    <3> QED
      BY <2>2, <3>1 DEF LinkAlert
  <2>3. CASE ~create_incident_for_grouping_rule(j) /\ ~LinkAlert(j)
    BY <2>3 DEF Correlate, ReadIncidents, CheckIncident, Resolve, EndChecks,
                get_incident_for_grouping_rule, CountAlerts, JudgeVisibility,
                CheckResolution, Announce, incidentVars
  <2> QED
    BY <2>1, <2>2, <2>3
<1> QED
  BY <1>1, <1>3, <1>4, DueFrame

\* A job that raises forgets its copy; what it wrote stays.
LEMMA JobRaisesKeepsDue ==
  ASSUME Typed, Typed', ThresholdInv, NEW j \in Jobs, JobRaises(j)
  PROVE  ThresholdInv'
<1>0. /\ stage \in [Jobs -> Stages] /\ tries \in [Jobs -> 1..MaxTries] /\ MaxTries \in Nat
      /\ target \in [Jobs -> 0..Len(incident)] /\ view \in [Jobs -> View]
  BY IngestionAssumption
     DEF Typed, FullTypes, AlertTypes, CorrelationInv, IngestionTypes, JobTypes
<1>1. /\ UNCHANGED <<alert, last, clock, incident, links>>
      /\ stage'[j] \in {"queued", "failed", "done", "rules"}
      /\ stage'[j] = "queued" => tries'[j] # 1
      /\ \A k \in Jobs \ {j} : counter'[k] = counter[k]
      /\ \A k \in Jobs \ {j} : /\ stage'[k] = stage[k] /\ tries'[k] = tries[k]
                               /\ target'[k] = target[k] /\ view'[k] = view[k]
  BY <1>0 DEF JobRaises, Retry, Goto, Forget, Typed, FullTypes, AlertTypes
<1>2. IsFiniteSet(Saved(alert')) /\ NewestKnown'
  BY <1>1 DEF ThresholdInv, NewestKnown, IsNewest, Saved
<1>3. SavedOnce'
  BY <1>1 DEF ThresholdInv, SavedOnce
<1>4. ASSUME NoRetry' PROVE AllDue'
  <2>1. NoRetry
    BY <1>4, RetryStays DEF Next
  <2>2. AllDue
    BY <2>1 DEF ThresholdInv
  <2>3. CountersDue' /\ \A n \in Numbers' : RowDue(n)'
    BY <1>1, <2>2, LastCounts DEF AllDue, RowDue, Numbers
  <2>4. ASSUME NEW k \in Jobs PROVE CopyDue(k)'
    <3>1. CASE k = j
      BY <1>1, <3>1 DEF CopyDue, Working
    <3>2. CASE k # j
      BY <1>1, <2>2, <3>2 DEF AllDue, CopyDue
    <3> QED
      BY <3>1, <3>2
  <2>5. ASSUME NEW k \in Jobs PROVE PendingDue(k)'
    BY <1>1, <1>2, <2>2, PendingKept DEF AllDue
  <2> QED
    BY <2>3, <2>4, <2>5 DEF AllDue
<1> QED
  BY <1>2, <1>3, <1>4 DEF ThresholdInv

LEMMA NextKeepsDue == Typed /\ Typed' /\ ThresholdInv /\ [Next]_vars => ThresholdInv'
<1> SUFFICES ASSUME Typed, Typed', ThresholdInv, [Next]_vars
             PROVE  ThresholdInv'
  OBVIOUS
<1>1. CASE QuietPeriod \/ UNCHANGED vars
  <2>1. UNCHANGED <<stage, tries, alert, last, clock, counter, incident, links, target,
                    view>>
    BY <1>1 DEF QuietPeriod, vars, ingestionVars, incidentVars
  <2>2. /\ IsFiniteSet(Saved(alert')) /\ NewestKnown' /\ SavedOnce'
        /\ NoRetry' => NoRetry
    BY <2>1 DEF ThresholdInv, NewestKnown, IsNewest, Saved, SavedOnce, NoRetry
  <2>3. ASSUME AllDue PROVE AllDue'
    <3>1. CountersDue' /\ Numbers' = Numbers
      BY <2>1, <2>3 DEF AllDue, CountersDue, Numbers
    <3>2. \A k \in Jobs : PendingDue(k)' /\ CopyDue(k)'
      BY <2>1, <2>3 DEF AllDue, CopyDue, PendingDue, CounterDue
    <3>3. \A n \in Numbers : RowDue(n)'
      BY <2>1, <2>3 DEF AllDue, RowDue
    <3> QED
      BY <3>1, <3>2, <3>3 DEF AllDue
  <2> QED
    BY <2>2, <2>3 DEF ThresholdInv
<1> QED
  BY <1>1, IngestKeepsDue, CorrelateKeepsDue, JobRaisesKeepsDue DEF Next

\* Without retries no incident surfaces before its rule's threshold is reached,
\* by distinct fingerprints or by firing alerts, although every job judges by
\* counters and copies it read earlier (_run_cel_rules,
\* calculated_unresolved_counter).  The invariant is in the text above.
THEOREM NothingSurfacesEarly == Spec => []VisibleIsDue
<1>1. Init => Typed /\ ThresholdInv
  BY InitInv, InitTypes, InitThreshold DEF Typed
<1>2. Typed /\ ThresholdInv /\ [Next]_vars => (Typed /\ ThresholdInv)'
  <2>1. Typed /\ [Next]_vars => Typed'
    BY NextKeepsInv, NextKeepsTypes DEF Typed
  <2> QED
    BY <2>1, NextKeepsDue
<1>3. Typed /\ ThresholdInv => VisibleIsDue
  <2> SUFFICES ASSUME ThresholdInv, NoRetry, NEW n \in Numbers, incident[n].visible
               PROVE  \/ Cardinality(links[n]) >= THRESHOLD
                      \/ Cardinality(Fired(links[n])) >= THRESHOLD
    BY DEF VisibleIsDue, NoRetry
  <2>1. DueIn(alert, links[n])
    BY DEF ThresholdInv, AllDue, RowDue
  <2>2. FiredIn(alert, links[n]) = Fired(links[n])
    BY DEF FiredIn, Fired
  <2> QED
    BY <2>1, <2>2 DEF DueIn
<1> QED
  BY <1>1, <1>2, <1>3, PTL DEF Spec
=============================================================================
