------------------------ MODULE WebhookDeliveryProofs ------------------------
(***************************************************************************)
(* DomainEventOutbox implements WebhookDelivery, for any events, limits    *)
(* and any number of abandoned batches: its Spec with one dispatcher, its  *)
(* SharedSpec with any number of them.                                     *)
(*                                                                         *)
(* With several dispatchers the rows of a batch can be settled by another  *)
(* one before they are written back; what holds with one is that the rows  *)
(* of its batch are as it read them (BatchIsFresh).  A POST the table does *)
(* not count is then one of the open batch or of an abandoned one.  What   *)
(* is left of this with several is BatchIsKnown: the rows of a batch were  *)
(* emitted, and what is in memory of them is a status to end with or none. *)
(***************************************************************************)
EXTENDS DomainEventOutboxProofs

OneDispatcher == \A c, d \in Dispatchers : c = d

RowsFollow ==
  \A e \in Events :
    /\ mutation[e] \in {"open", "committed"} => outbox[e].status = "none"
    /\ outbox[e].status = "none" => posts[e] = 0
    /\ outbox[e].attempts <= MAX_ATTEMPTS
    /\ outbox[e].status = "pending" => outbox[e].attempts < MAX_ATTEMPTS

BatchIsFresh ==
  \A d \in Dispatchers, e \in Events :
    /\ e \in todo[d] \union touched[d] => d \in busy /\ outbox[e].status = "pending"
    /\ e \in todo[d] => /\ e \notin touched[d]
                        /\ loaded[d][e].status = "pending"
                        /\ loaded[d][e].attempts = outbox[e].attempts
    /\ e \in touched[d] =>
         /\ loaded[d][e].attempts = outbox[e].attempts + 1
         /\ loaded[d][e].status \in {"pending", "delivered", "failed"}
         /\ loaded[d][e].status = "pending" => loaded[d][e].attempts < MAX_ATTEMPTS

Open(e) == IF \E d \in Dispatchers : e \in touched[d] THEN 1 ELSE 0

PostsCounted == \A e \in Events : posts[e] <= outbox[e].attempts + aborts + Open(e)

SingleInv == OutboxInv /\ RowsFollow /\ BatchIsFresh /\ PostsCounted

-----------------------------------------------------------------------------
LEMMA SingleInit == Init => SingleInv
<1> SUFFICES ASSUME Init PROVE SingleInv
  OBVIOUS
<1>1. RowsFollow /\ BatchIsFresh /\ PostsCounted
  BY OutboxAssumption DEF Init, RowsFollow, BatchIsFresh, PostsCounted, Open, NoRow
<1> QED
  BY <1>1, InitInv DEF SingleInv

LEMMA OutboxStep == OutboxInv /\ [Next]_vars => OutboxInv'
  BY EmitKeepsInv, BeginKeepsInv, DeliverKeepsInv, CommitKeepsInv,
     AbortKeepsInv, TickKeepsInv, OtherStepsKeepInv
     DEF Next

LEMMA EmitKeepsSingle ==
  ASSUME SingleInv, NEW e \in Events, emit_incident_event(e)
  PROVE  RowsFollow' /\ BatchIsFresh' /\ PostsCounted'
<1> USE DEF SingleInv, OutboxInv
<1>1. /\ outbox[e].status = "none" /\ posts[e] = 0
      /\ UNCHANGED <<busy, todo, touched, loaded, aborts, posts>>
  BY DEF emit_incident_event, RowsFollow, dispatcherVars, historyVars
<1>2. \A f \in Events \ {e} : outbox'[f] = outbox[f] /\ mutation'[f] = mutation[f]
  BY DEF emit_incident_event, TypeOK
<1>3. /\ mutation'[e] \in {"emitted", "dropped"}
      /\ \/ outbox'[e] = outbox[e]
         \/ outbox'[e].status = "pending" /\ outbox'[e].attempts = 0
  BY DEF emit_incident_event, TypeOK
<1>4. MAX_ATTEMPTS \in Nat \ {0}
  BY OutboxAssumption
<1>5. RowsFollow'
  BY <1>1, <1>2, <1>3, <1>4 DEF RowsFollow
<1>6. \A d \in Dispatchers : e \notin todo[d] \union touched[d]
  BY <1>1 DEF BatchIsFresh
<1>7. BatchIsFresh'
  BY <1>1, <1>2, <1>6 DEF BatchIsFresh
<1>8. PostsCounted'
  <2>1. \A f \in Events : Open(f)' = Open(f) /\ Open(f) \in {0, 1}
    BY <1>1 DEF Open
  <2>2. aborts \in Nat /\ outbox[e].attempts \in Nat
    BY DEF TypeOK, Row
  <2> QED
    BY <1>1, <1>2, <1>3, <2>1, <2>2 DEF PostsCounted
<1> QED
  BY <1>5, <1>7, <1>8

LEMMA BeginKeepsSingle ==
  ASSUME SingleInv, OneDispatcher, NEW d \in Dispatchers, BeginBatch(d)
  PROVE  RowsFollow' /\ BatchIsFresh' /\ PostsCounted'
<1> USE DEF SingleInv, OutboxInv
<1>1. /\ d \notin busy /\ busy' = busy \union {d}
      /\ UNCHANGED <<mutation, outbox, touched, aborts, posts>>
  BY DEF BeginBatch, historyVars
<1>2. touched[d] = {}
  BY <1>1 DEF BatchIsFresh, TypeOK
<1>3. /\ todo'[d] = Due
      /\ \A e \in Due : loaded'[d][e] = [status |-> outbox[e].status,
                                         attempts |-> outbox[e].attempts]
  BY DueRows DEF BeginBatch, TypeOK
<1>4. RowsFollow' /\ PostsCounted'
  BY <1>1 DEF RowsFollow, PostsCounted, Open
<1>5. BatchIsFresh'
  <2>1. ASSUME NEW e \in Due
        PROVE  /\ d \in busy' /\ outbox'[e].status = "pending" /\ e \notin touched'[d]
               /\ loaded'[d][e].status = "pending"
               /\ loaded'[d][e].attempts = outbox'[e].attempts
    <3>1. outbox[e].status = "pending"
      BY DueRows
    <3>2. loaded'[d][e] = [status |-> outbox[e].status, attempts |-> outbox[e].attempts]
      BY <1>3
    <3> QED
      BY <1>1, <1>2, <3>1, <3>2
  <2>2. touched'[d] = {}
    BY <1>1, <1>2
  <2>3. todo'[d] = Due
    BY <1>3
  <2> QED
    BY <2>1, <2>2, <2>3 DEF BatchIsFresh, OneDispatcher
<1> QED
  BY <1>4, <1>5

LEMMA DeliverKeepsSingle ==
  ASSUME SingleInv, OneDispatcher, NEW d \in Dispatchers, NEW e \in Events,
         DeliverEvent(d, e)
  PROVE  RowsFollow' /\ BatchIsFresh' /\ PostsCounted'
<1> USE DEF SingleInv, OutboxInv
<1>1. /\ e \in todo[d] /\ UNCHANGED <<mutation, outbox, busy, aborts>>
      /\ todo'[d] = todo[d] \ {e} /\ touched'[d] = touched[d] \union {e}
      /\ loaded'[d][e] = AfterAttempt(loaded[d][e], consumerUp)
      /\ \A f \in Events \ {e} : loaded'[d][f] = loaded[d][f] /\ posts'[f] = posts[f]
      /\ posts'[e] = posts[e] + 1
  BY DEF DeliverEvent, TypeOK
<1>2. /\ e \notin touched[d] /\ d \in busy /\ outbox[e].status = "pending"
      /\ loaded[d][e].status = "pending" /\ loaded[d][e].attempts = outbox[e].attempts
  BY <1>1 DEF BatchIsFresh
<1>3. RowsFollow'
  BY <1>1, <1>2 DEF RowsFollow
<1>4. /\ loaded'[d][e].attempts = outbox[e].attempts + 1
      /\ loaded'[d][e].status \in {"pending", "delivered", "failed"}
      /\ loaded'[d][e].status = "pending" => loaded'[d][e].attempts < MAX_ATTEMPTS
  <2>1. outbox[e].attempts \in Nat /\ MAX_ATTEMPTS \in Nat
    BY OutboxAssumption DEF TypeOK, Row
  <2> QED
    BY <1>1, <1>2, <2>1 DEF AfterAttempt
<1>5. BatchIsFresh'
  BY <1>1, <1>2, <1>4 DEF BatchIsFresh, OneDispatcher
<1>6. PostsCounted'
  <2>1. /\ Open(e) = 0 /\ Open(e)' = 1
        /\ \A f \in Events \ {e} : Open(f)' = Open(f)
    BY <1>1, <1>2 DEF Open, OneDispatcher
  <2>2. aborts \in Nat /\ outbox[e].attempts \in Nat /\ posts[e] \in Nat
    BY DEF TypeOK, Row
  <2> QED
    BY <1>1, <2>1, <2>2 DEF PostsCounted
<1> QED
  BY <1>3, <1>5, <1>6

\* The rows that a batch writes back were pending, and stay so or are settled.
LEMMA RowsWritten ==
  ASSUME SingleInv, OneDispatcher, NEW d \in Dispatchers, CommitBatch(d)
  PROVE  /\ \A e \in Events \ touched[d] : outbox'[e] = outbox[e]
         /\ \A e \in touched[d] :
              /\ e \in Events /\ outbox[e].status = "pending"
              /\ outbox'[e].status = loaded[d][e].status
              /\ outbox'[e].attempts = loaded[d][e].attempts
              /\ outbox'[e].attempts = outbox[e].attempts + 1
<1> USE DEF SingleInv, OutboxInv
<1>1. \A e \in touched[d] : e \in Events /\ outbox[e].status = "pending"
  BY DEF TypeOK, BatchIsFresh
<1>2. \A e \in touched[d] : outbox'[e] = Written(outbox[e], loaded[d][e], sinceStart[d])
  BY <1>1 DEF CommitBatch
<1>3. \A e \in Events \ touched[d] : outbox'[e] = outbox[e]
  BY DEF CommitBatch
<1>4. \A e \in touched[d] : loaded[d][e].attempts = outbox[e].attempts + 1
  BY <1>1 DEF BatchIsFresh
<1>5. ASSUME NEW e \in touched[d]
      PROVE  /\ outbox'[e].status = loaded[d][e].status
             /\ outbox'[e].attempts = loaded[d][e].attempts
  <2>1. outbox'[e] = [status   |-> IF loaded[d][e].status = "pending" THEN outbox[e].status
                                   ELSE loaded[d][e].status,
                      attempts |-> loaded[d][e].attempts,
                      age      |-> sinceStart[d],
                      created  |-> outbox[e].created]
    BY <1>2, Zenon DEF Written
  <2>2. /\ outbox'[e].attempts = loaded[d][e].attempts
        /\ outbox'[e].status = IF loaded[d][e].status = "pending" THEN outbox[e].status
                               ELSE loaded[d][e].status
    BY <2>1
  <2> QED
    BY <1>1, <2>2
<1> QED
  BY <1>1, <1>3, <1>4, <1>5

LEMMA CommitKeepsSingle ==
  ASSUME SingleInv, OneDispatcher, NEW d \in Dispatchers, CommitBatch(d)
  PROVE  RowsFollow' /\ BatchIsFresh' /\ PostsCounted'
<1> USE DEF SingleInv, OutboxInv
<1>1. /\ todo'[d] = {} /\ touched'[d] = {}
      /\ UNCHANGED <<mutation, aborts, posts>>
  BY DEF CommitBatch, EndBatch, TypeOK, historyVars
<1>2. /\ \A e \in Events \ touched[d] : outbox'[e] = outbox[e]
      /\ \A e \in touched[d] :
           /\ e \in Events /\ outbox[e].status = "pending"
           /\ outbox'[e].status = loaded[d][e].status
           /\ outbox'[e].attempts = loaded[d][e].attempts
           /\ outbox'[e].attempts = outbox[e].attempts + 1
  BY RowsWritten
<1>3. ASSUME NEW e \in Events
      PROVE  /\ outbox[e].attempts \in Nat /\ MAX_ATTEMPTS \in Nat /\ aborts \in Nat
             /\ posts[e] \in Nat
  BY OutboxAssumption DEF TypeOK, Row
<1>4. ASSUME NEW e \in touched[d]
      PROVE  /\ loaded[d][e].status \in {"pending", "delivered", "failed"}
             /\ loaded[d][e].status = "pending" => loaded[d][e].attempts < MAX_ATTEMPTS
  BY <1>2 DEF BatchIsFresh
<1>5. RowsFollow'
  <2> SUFFICES ASSUME NEW e \in Events
               PROVE  /\ mutation[e] \in {"open", "committed"} => outbox'[e].status = "none"
                      /\ outbox'[e].status = "none" => posts[e] = 0
                      /\ outbox'[e].attempts <= MAX_ATTEMPTS
                      /\ outbox'[e].status = "pending" => outbox'[e].attempts < MAX_ATTEMPTS
    BY <1>1 DEF RowsFollow
  <2>1. CASE e \in touched[d]
    <3>1. outbox[e].attempts < MAX_ATTEMPTS /\ mutation[e] \notin {"open", "committed"}
      BY <1>2, <2>1 DEF RowsFollow
    <3> QED
      BY <1>2, <1>3, <1>4, <2>1, <3>1
  <2>2. CASE e \notin touched[d]
    BY <1>2, <2>2 DEF RowsFollow
  <2> QED
    BY <2>1, <2>2
<1>6. BatchIsFresh'
  BY <1>1 DEF BatchIsFresh, OneDispatcher
<1>7. PostsCounted'
  <2>1. \A e \in Events : /\ Open(e)' = 0
                          /\ Open(e) = IF e \in touched[d] THEN 1 ELSE 0
    BY <1>1 DEF Open, OneDispatcher
  <2> QED
    BY <1>1, <1>2, <1>3, <2>1 DEF PostsCounted
<1> QED
  BY <1>5, <1>6, <1>7

LEMMA AbortKeepsSingle ==
  ASSUME SingleInv, OneDispatcher, NEW d \in Dispatchers, AbortBatch(d)
  PROVE  RowsFollow' /\ BatchIsFresh' /\ PostsCounted'
<1> USE DEF SingleInv, OutboxInv
<1>1. /\ todo'[d] = {} /\ touched'[d] = {} /\ aborts' = aborts + 1
      /\ UNCHANGED <<mutation, outbox, posts>>
  BY DEF AbortBatch, EndBatch, TypeOK, historyVars
<1>2. RowsFollow' /\ BatchIsFresh'
  BY <1>1 DEF RowsFollow, BatchIsFresh, OneDispatcher
<1>3. PostsCounted'
  <2>1. \A e \in Events : Open(e)' = 0 /\ Open(e) \in {0, 1}
    BY <1>1 DEF Open, OneDispatcher
  <2>2. \A e \in Events : outbox[e].attempts \in Nat /\ aborts \in Nat /\ posts[e] \in Nat
    BY DEF TypeOK, Row
  <2> QED
    BY <1>1, <2>1, <2>2 DEF PostsCounted
<1> QED
  BY <1>2, <1>3

\* Steps that leave the batches, the statuses and the counts as they are.
LEMMA OthersKeepSingle ==
  ASSUME SingleInv,
         \/ Tick
         \/ \E e \in Events : CommitMutation(e)
         \/ ToggleConsumer
         \/ UNCHANGED vars
  PROVE  /\ RowsFollow' /\ BatchIsFresh' /\ PostsCounted'
         /\ UNCHANGED <<posts, acked>>
         /\ \A e \in Events : /\ outbox'[e].status = outbox[e].status
                              /\ outbox'[e].attempts = outbox[e].attempts
<1> USE DEF SingleInv, OutboxInv
<1>1. UNCHANGED <<busy, todo, touched, loaded, aborts, posts, acked>>
  BY DEF Tick, CommitMutation, ToggleConsumer, vars, dispatcherVars, historyVars
<1>2. \A e \in Events : /\ outbox'[e].status = outbox[e].status
                        /\ outbox'[e].attempts = outbox[e].attempts
  BY DEF Tick, CommitMutation, ToggleConsumer, vars, TypeOK, Row
<1>3. \A e \in Events : mutation'[e] \in {"open", "committed"} =>
                          mutation[e] \in {"open", "committed"}
  BY DEF Tick, CommitMutation, ToggleConsumer, vars, TypeOK
<1> QED
  BY <1>1, <1>2, <1>3 DEF RowsFollow, BatchIsFresh, PostsCounted, Open

LEMMA SingleStep ==
  ASSUME OneDispatcher, SingleInv, [Next]_vars
  PROVE  SingleInv'
<1>1. OutboxInv'
  BY OutboxStep DEF SingleInv
<1>2. RowsFollow' /\ BatchIsFresh' /\ PostsCounted'
  BY EmitKeepsSingle, BeginKeepsSingle, DeliverKeepsSingle, CommitKeepsSingle,
     AbortKeepsSingle, OthersKeepSingle DEF Next
<1> QED
  BY <1>1, <1>2 DEF SingleInv

LEMMA SingleHolds == ASSUME OneDispatcher PROVE Spec => []SingleInv
<1>1. SingleInv /\ [Next]_vars => SingleInv'
  BY SingleStep
<1> QED
  BY SingleInit, <1>1, PTL DEF Spec

-----------------------------------------------------------------------------
\* A consumer gets an event MAX_ATTEMPTS times, plus once for every batch that
\* was lost after its POSTs, if one process dispatches.
THEOREM RedeliveriesAreBounded ==
  ASSUME OneDispatcher
  PROVE  Spec => []RedeliveriesBounded
<1>1. SingleInv => RedeliveriesBounded
  <2> SUFFICES ASSUME SingleInv, NEW e \in Events
               PROVE  posts[e] <= MAX_ATTEMPTS + aborts
    BY DEF RedeliveriesBounded
  <2>1. /\ outbox[e].attempts \in Nat /\ aborts \in Nat /\ posts[e] \in Nat
        /\ MAX_ATTEMPTS \in Nat
    BY OutboxAssumption DEF SingleInv, OutboxInv, TypeOK, Row
  <2>2. posts[e] <= outbox[e].attempts + aborts + Open(e)
    BY DEF SingleInv, PostsCounted
  <2>3. outbox[e].attempts <= MAX_ATTEMPTS
    BY DEF SingleInv, RowsFollow
  <2>4. CASE \E d \in Dispatchers : e \in touched[d]
    <3>1. outbox[e].attempts < MAX_ATTEMPTS /\ Open(e) = 1
      BY <2>4 DEF SingleInv, BatchIsFresh, RowsFollow, Open
    <3> QED
      BY <2>1, <2>2, <3>1
  <2>5. CASE ~\E d \in Dispatchers : e \in touched[d]
    BY <2>1, <2>2, <2>3, <2>5 DEF Open
  <2> QED
    BY <2>4, <2>5
<1> QED
  BY <1>1, SingleHolds, PTL

LEMMA StepSettles ==
  ASSUME OneDispatcher, SingleInv, [Next]_vars, NEW e \in Events
  PROVE  /\ outbox[e].status \in {"delivered", "failed"} => outbox'[e].status = outbox[e].status
         /\ outbox'[e].attempts >= outbox[e].attempts
<1>1. outbox[e].attempts \in Nat
  BY DEF SingleInv, OutboxInv, TypeOK, Row
<1>2. ASSUME NEW f \in Events, emit_incident_event(f)
      PROVE  outbox'[e] = outbox[e] \/ (e = f /\ outbox[e].status = "none"
                                             /\ outbox[e].attempts <= outbox'[e].attempts)
  <2>1. outbox[f].status = "none" /\ posts[f] = 0
    BY <1>2 DEF emit_incident_event, SingleInv, RowsFollow
  <2>2. outbox[f].attempts \in Nat /\ outbox[f].attempts <= posts[f]
    BY DEF SingleInv, OutboxInv, TypeOK, Row, RowsJustified, Justified
  <2>3. outbox'[f] = outbox[f] \/ outbox'[f].attempts = 0
    BY <1>2 DEF emit_incident_event, SingleInv, OutboxInv, TypeOK
  <2>4. e # f => outbox'[e] = outbox[e]
    BY <1>2 DEF emit_incident_event, SingleInv, OutboxInv, TypeOK
  <2> QED
    BY <2>1, <2>2, <2>3, <2>4
<1>3. ASSUME NEW d \in Dispatchers, CommitBatch(d)
      PROVE  outbox'[e] = outbox[e] \/ (outbox[e].status = "pending"
                                          /\ outbox'[e].attempts = outbox[e].attempts + 1)
  BY <1>3, RowsWritten
<1>4. ASSUME NEW d \in Dispatchers,
             BeginBatch(d) \/ AbortBatch(d) \/ \E f \in Events : DeliverEvent(d, f)
      PROVE  outbox'[e] = outbox[e]
  BY <1>4 DEF BeginBatch, AbortBatch, DeliverEvent
<1> QED
  BY <1>1, <1>2, <1>3, <1>4, OthersKeepSingle DEF Next

\* Once settled, a row stays settled, if one process dispatches.
THEOREM SettledForGood ==
  ASSUME OneDispatcher
  PROVE  Spec => SettledRowsStay
<1>1. SingleInv /\ [Next]_vars =>
        [\A e \in Events : outbox[e].status \in {"delivered", "failed"} =>
                             outbox'[e].status = outbox[e].status]_vars
  BY StepSettles
<1> QED
  BY <1>1, SingleHolds, PTL DEF Spec, SettledRowsStay

\* The attempts of a row only go up, if one process dispatches.
THEOREM AttemptsGoUp ==
  ASSUME OneDispatcher
  PROVE  Spec => AttemptsNeverDecrease
<1>1. SingleInv /\ [Next]_vars =>
        [\A e \in Events : outbox'[e].attempts >= outbox[e].attempts]_vars
  BY StepSettles
<1> QED
  BY <1>1, SingleHolds, PTL DEF Spec, AttemptsNeverDecrease

-----------------------------------------------------------------------------
(***************************************************************************)
(* Every step is a step of WebhookDelivery, or none.                       *)
(***************************************************************************)
LEMMA InitDelivers == Init => Delivery!Init
  BY DEF Init, Delivery!Init, Stage, NoRow

Shown == [e \in Events |-> Stage(outbox[e].status)]

\* Equal statuses show as equal stages.
LEMMA SameStatuses ==
  ASSUME \A e \in Events : outbox'[e].status = outbox[e].status
  PROVE  Shown' = Shown
BY DEF Shown, Stage

LEMMA EmitDelivers ==
  ASSUME SingleInv, NEW e \in Events, emit_incident_event(e)
  PROVE  Delivery!Next \/ UNCHANGED Delivery!vars
<1> USE DEF SingleInv, OutboxInv
<1>1. outbox[e].status = "none" /\ UNCHANGED <<posts, acked>>
  BY DEF emit_incident_event, RowsFollow, historyVars
<1>2. CASE outbox' = outbox
  BY <1>1, <1>2 DEF Delivery!vars
<1>3. CASE outbox' # outbox
  <2>1. /\ outbox'[e].status = "pending"
        /\ \A f \in Events \ {e} : outbox'[f] = outbox[f]
    BY <1>3 DEF emit_incident_event, TypeOK
  <2>2. Shown[e] = "absent" /\ Shown' = [Shown EXCEPT ![e] = "pending"]
    BY <1>1, <2>1 DEF Shown, Stage
  <2>3. Delivery!Publish(e)
    BY <1>1, <2>2 DEF Delivery!Publish, Shown
  <2> QED
    BY <2>3 DEF Delivery!Next
<1> QED
  BY <1>2, <1>3

LEMMA DeliverDelivers ==
  ASSUME SingleInv, NEW d \in Dispatchers, NEW e \in Events, DeliverEvent(d, e)
  PROVE  Delivery!Next
<1> USE DEF SingleInv, OutboxInv
<1>1. outbox[e].status = "pending" /\ outbox' = outbox
  BY DEF DeliverEvent, BatchIsFresh
<1>2. Shown[e] = "pending" /\ Shown' = Shown
  BY <1>1 DEF Shown, Stage
<1>3. consumerUp \in BOOLEAN
  BY DEF TypeOK
<1>4. Delivery!Try(e, consumerUp)
  BY <1>2 DEF DeliverEvent, Delivery!Try, Delivery!Send, Shown
<1> QED
  BY <1>3, <1>4 DEF Delivery!Next

LEMMA CommitDelivers ==
  ASSUME SingleInv, OneDispatcher, NEW d \in Dispatchers, CommitBatch(d)
  PROVE  Delivery!Next \/ UNCHANGED Delivery!vars
<1> USE DEF SingleInv, OutboxInv
<1> DEFINE done == {e \in touched[d] : loaded[d][e].status = "delivered"}
           gone == {e \in touched[d] : loaded[d][e].status = "failed"}
<1>1. /\ \A e \in Events \ touched[d] : outbox'[e] = outbox[e]
      /\ \A e \in touched[d] : /\ e \in Events /\ outbox[e].status = "pending"
                              /\ outbox'[e].status = loaded[d][e].status
  BY RowsWritten
<1>2. UNCHANGED <<posts, acked>>
  BY DEF CommitBatch, historyVars
<1>3. done \in SUBSET Events /\ gone \in SUBSET Events /\ done \intersect gone = {}
  BY <1>1
<1>4. \A e \in done \union gone : Shown[e] = "pending"
  BY <1>1 DEF Shown, Stage
<1>5. done \subseteq acked /\ \A e \in gone : posts[e] >= MAX_ATTEMPTS
  BY DEF LoadedJustified, Justified
<1>6. Shown' = [e \in Events |-> IF e \in done THEN "delivered"
                                ELSE IF e \in gone THEN "failed"
                                ELSE Shown[e]]
  <2>1. ASSUME NEW e \in Events
        PROVE  Stage(outbox'[e].status) = IF e \in done THEN "delivered"
                                          ELSE IF e \in gone THEN "failed"
                                          ELSE Stage(outbox[e].status)
    <3>1. CASE e \notin touched[d]
      BY <1>1, <3>1
    <3>2. CASE e \in touched[d]
      <4>1. loaded[d][e].status \in {"pending", "delivered", "failed"}
        BY <3>2 DEF BatchIsFresh
      <4> QED
        BY <1>1, <3>2, <4>1 DEF Stage
    <3> QED
      BY <3>1, <3>2
  <2> QED
    BY <2>1 DEF Shown
<1> HIDE DEF done, gone
<1>7. CASE done \union gone = {}
  <2>1. Shown' = Shown
    BY <1>6, <1>7 DEF Shown
  <2> QED
    BY <1>2, <2>1 DEF Delivery!vars, Shown
<1>8. CASE done \union gone # {}
  <2>1. Delivery!Settle(done, gone)
    BY <1>2, <1>3, <1>4, <1>5, <1>6, <1>8 DEF Delivery!Settle, Delivery!End, Shown
  <2> QED
    BY <1>3, <2>1 DEF Delivery!Next
<1> QED
  BY <1>7, <1>8

LEMMA StepDelivers ==
  ASSUME OneDispatcher, SingleInv, [Next]_vars
  PROVE  Delivery!Next \/ UNCHANGED Delivery!vars
<1>1. ASSUME NEW d \in Dispatchers, BeginBatch(d) \/ AbortBatch(d)
      PROVE  UNCHANGED Delivery!vars
  BY <1>1 DEF BeginBatch, AbortBatch, historyVars, Delivery!vars
<1>2. ASSUME \/ Tick
             \/ \E e \in Events : CommitMutation(e)
             \/ ToggleConsumer
             \/ UNCHANGED vars
      PROVE  UNCHANGED Delivery!vars
  <2>1. UNCHANGED <<posts, acked>> /\ Shown' = Shown
    BY <1>2, OthersKeepSingle, SameStatuses
  <2> QED
    BY <2>1 DEF Shown, Delivery!vars
<1> QED
  BY <1>1, <1>2, EmitDelivers, DeliverDelivers, CommitDelivers DEF Next

\* The table, the batches and their POSTs keep the promise of WebhookDelivery,
\* through lost batches and whatever the consumer answers, if one process
\* dispatches.
THEOREM OutboxImplementsDelivery ==
  ASSUME OneDispatcher
  PROVE  Spec => ImplementsDelivery
<1>1. SingleInv /\ [Next]_vars => [Delivery!Next]_(Delivery!vars)
  BY StepDelivers
<1> QED
  BY InitDelivers, <1>1, SingleHolds, PTL DEF Spec, ImplementsDelivery, Delivery!Spec

-----------------------------------------------------------------------------
(***************************************************************************)
(* Any number of dispatchers.                                              *)
(***************************************************************************)
RowsEmitted ==
  \A e \in Events : mutation[e] \in {"open", "committed"} => outbox[e].status = "none"

BatchIsKnown ==
  \A d \in Dispatchers : \A e \in todo[d] \union touched[d] :
    /\ d \in busy
    /\ outbox[e].status # "none"
    /\ loaded[d][e].status \in {"pending", "delivered", "failed"}

SharedInv == OutboxInv /\ RowsEmitted /\ BatchIsKnown

LEMMA SharedInit == Init => SharedInv
<1> SUFFICES ASSUME Init PROVE SharedInv
  OBVIOUS
<1>1. RowsEmitted /\ BatchIsKnown
  BY DEF Init, RowsEmitted, BatchIsKnown, NoRow
<1> QED
  BY <1>1, InitInv DEF SharedInv

LEMMA EmitShared ==
  ASSUME SharedInv, NEW e \in Events, emit_incident_event(e)
  PROVE  /\ RowsEmitted' /\ BatchIsKnown'
         /\ Delivery!SharedNext \/ UNCHANGED Delivery!vars
<1> USE DEF SharedInv, OutboxInv
<1>1. /\ outbox[e].status = "none" /\ mutation'[e] \in {"emitted", "dropped"}
      /\ UNCHANGED <<busy, todo, touched, loaded, posts, acked>>
      /\ \A f \in Events \ {e} : outbox'[f] = outbox[f] /\ mutation'[f] = mutation[f]
      /\ outbox' = outbox \/ outbox'[e].status = "pending"
  BY DEF emit_incident_event, RowsEmitted, dispatcherVars, historyVars, TypeOK
<1>2. RowsEmitted' /\ BatchIsKnown'
  <2>1. \A d \in Dispatchers : e \notin todo[d] \union touched[d]
    BY <1>1 DEF BatchIsKnown
  <2> QED
    BY <1>1, <2>1 DEF RowsEmitted, BatchIsKnown, TypeOK
<1>3. Delivery!SharedNext \/ UNCHANGED Delivery!vars
  <2>1. CASE outbox' = outbox
    BY <1>1, <2>1 DEF Delivery!vars
  <2>2. CASE outbox' # outbox
    <3>1. Shown[e] = "absent" /\ Shown' = [Shown EXCEPT ![e] = "pending"]
      BY <1>1, <2>2 DEF Shown, Stage
    <3>2. Delivery!Publish(e)
      BY <1>1, <3>1 DEF Delivery!Publish, Shown
    <3> QED
      BY <3>2 DEF Delivery!SharedNext
  <2> QED
    BY <2>1, <2>2
<1> QED
  BY <1>2, <1>3

LEMMA BeginShared ==
  ASSUME SharedInv, NEW d \in Dispatchers, BeginBatch(d)
  PROVE  RowsEmitted' /\ BatchIsKnown' /\ UNCHANGED Delivery!vars
<1> USE DEF SharedInv, OutboxInv
<1>1. /\ d \notin busy /\ busy' = busy \union {d}
      /\ UNCHANGED <<mutation, outbox, touched, posts, acked>>
      /\ todo'[d] = Due
      /\ \A e \in Due : loaded'[d][e] = [status |-> outbox[e].status,
                                         attempts |-> outbox[e].attempts]
      /\ \A c \in Dispatchers \ {d} : todo'[c] = todo[c] /\ loaded'[c] = loaded[c]
  BY DueRows DEF BeginBatch, historyVars, TypeOK
<1>2. touched'[d] = {}
  BY <1>1 DEF BatchIsKnown, TypeOK
<1>3. ASSUME NEW e \in Due
      PROVE  outbox'[e].status # "none" /\ loaded'[d][e].status = "pending"
  <2>1. outbox[e].status = "pending"
    BY DueRows
  <2>2. loaded'[d][e] = [status |-> outbox[e].status, attempts |-> outbox[e].attempts]
    BY <1>1
  <2> QED
    BY <1>1, <2>1, <2>2
<1>4. BatchIsKnown'
  BY <1>1, <1>2, <1>3 DEF BatchIsKnown
<1> QED
  BY <1>1, <1>4 DEF RowsEmitted, Delivery!vars

LEMMA DeliverShared ==
  ASSUME SharedInv, NEW d \in Dispatchers, NEW e \in Events, DeliverEvent(d, e)
  PROVE  RowsEmitted' /\ BatchIsKnown' /\ Delivery!SharedNext
<1> USE DEF SharedInv, OutboxInv
<1>1. /\ e \in todo[d] /\ UNCHANGED <<mutation, outbox, busy>>
      /\ todo'[d] = todo[d] \ {e} /\ touched'[d] = touched[d] \union {e}
      /\ loaded'[d][e] = AfterAttempt(loaded[d][e], consumerUp)
      /\ \A f \in Events \ {e} : loaded'[d][f] = loaded[d][f]
      /\ \A c \in Dispatchers \ {d} : /\ todo'[c] = todo[c] /\ touched'[c] = touched[c]
                                      /\ loaded'[c] = loaded[c]
  BY DEF DeliverEvent, TypeOK
<1>2. outbox[e].status # "none" /\ loaded[d][e].status \in {"pending", "delivered", "failed"}
  BY <1>1 DEF BatchIsKnown
<1>3. loaded'[d][e].status \in {"pending", "delivered", "failed"}
  BY <1>1, <1>2 DEF AfterAttempt
<1>4. RowsEmitted' /\ BatchIsKnown'
  <2>1. \A f \in todo'[d] \union touched'[d] :
          f \in todo[d] \union touched[d] /\ f \in Events
    BY <1>1 DEF TypeOK
  <2> QED
    BY <1>1, <1>2, <1>3, <2>1 DEF RowsEmitted, BatchIsKnown
<1>5. Shown[e] # "absent" /\ Shown' = Shown /\ consumerUp \in BOOLEAN
  BY <1>1, <1>2 DEF Shown, Stage, TypeOK, Row, Statuses
<1>6. Delivery!TryAgain(e, consumerUp)
  BY <1>5 DEF DeliverEvent, Delivery!TryAgain, Delivery!Send, Shown
<1> QED
  BY <1>4, <1>5, <1>6 DEF Delivery!SharedNext

LEMMA CommitShared ==
  ASSUME SharedInv, NEW d \in Dispatchers, CommitBatch(d)
  PROVE  /\ RowsEmitted' /\ BatchIsKnown'
         /\ Delivery!SharedNext \/ UNCHANGED Delivery!vars
<1> USE DEF SharedInv, OutboxInv
<1> DEFINE done == {e \in touched[d] : loaded[d][e].status = "delivered"}
           gone == {e \in touched[d] : loaded[d][e].status = "failed"}
<1>1. /\ todo'[d] = {} /\ touched'[d] = {} /\ busy' = busy \ {d}
      /\ \A c \in Dispatchers \ {d} : /\ todo'[c] = todo[c] /\ touched'[c] = touched[c]
                                      /\ loaded'[c] = loaded[c]
      /\ UNCHANGED <<mutation, posts, acked>>
      /\ \A e \in Events \ touched[d] : outbox'[e] = outbox[e]
  BY DEF CommitBatch, EndBatch, TypeOK, historyVars
<1>2. ASSUME NEW e \in touched[d]
      PROVE  /\ e \in Events /\ outbox[e].status # "none"
             /\ loaded[d][e].status \in {"pending", "delivered", "failed"}
             /\ outbox'[e].status = IF loaded[d][e].status = "pending" THEN outbox[e].status
                                    ELSE loaded[d][e].status
  <2>1. e \in Events
    BY DEF TypeOK
  <2>2. outbox'[e] = Written(outbox[e], loaded[d][e], sinceStart[d])
    BY <2>1 DEF CommitBatch
  <2>3. outbox'[e] = [status   |-> IF loaded[d][e].status = "pending" THEN outbox[e].status
                                   ELSE loaded[d][e].status,
                      attempts |-> loaded[d][e].attempts,
                      age      |-> sinceStart[d],
                      created  |-> outbox[e].created]
    BY <2>2, Zenon DEF Written
  <2>4. outbox'[e].status = IF loaded[d][e].status = "pending" THEN outbox[e].status
                            ELSE loaded[d][e].status
    BY <2>3
  <2> QED
    BY <2>1, <2>4 DEF BatchIsKnown
<1>3. \A e \in Events : (outbox'[e].status = "none") <=> (outbox[e].status = "none")
  BY <1>1, <1>2
<1>4. RowsEmitted' /\ BatchIsKnown'
  <2>1. \A c \in Dispatchers : \A e \in todo'[c] \union touched'[c] :
          c # d /\ e \in todo[c] \union touched[c] /\ e \in Events
    BY <1>1 DEF TypeOK
  <2> QED
    BY <1>1, <1>3, <2>1 DEF RowsEmitted, BatchIsKnown
<1>5. /\ done \in SUBSET Events /\ gone \in SUBSET Events /\ done \intersect gone = {}
      /\ \A e \in done \union gone : Shown[e] # "absent"
      /\ done \subseteq acked /\ \A e \in gone : posts[e] >= MAX_ATTEMPTS
  <2>1. \A e \in done \union gone : e \in Events /\ Shown[e] # "absent"
    BY <1>2 DEF Shown, Stage, TypeOK, Row, Statuses
  <2>2. done \subseteq acked /\ \A e \in gone : posts[e] >= MAX_ATTEMPTS
    BY DEF LoadedJustified, Justified
  <2> QED
    BY <2>1, <2>2
<1>6. Shown' = [e \in Events |-> IF e \in done THEN "delivered"
                                ELSE IF e \in gone THEN "failed"
                                ELSE Shown[e]]
  <2>1. ASSUME NEW e \in Events
        PROVE  Stage(outbox'[e].status) = IF e \in done THEN "delivered"
                                          ELSE IF e \in gone THEN "failed"
                                          ELSE Stage(outbox[e].status)
    <3>1. CASE e \notin touched[d]
      BY <1>1, <3>1
    <3>2. CASE e \in touched[d]
      BY <1>2, <3>2 DEF Stage
    <3> QED
      BY <3>1, <3>2
  <2> QED
    BY <2>1 DEF Shown
<1> HIDE DEF done, gone
<1>7. CASE done \union gone = {}
  <2>1. Shown' = Shown
    BY <1>6, <1>7 DEF Shown
  <2> QED
    BY <1>1, <1>4, <2>1 DEF Delivery!vars, Shown
<1>8. CASE done \union gone # {}
  <2>1. Delivery!SettleAgain(done, gone)
    BY <1>1, <1>5, <1>6, <1>8 DEF Delivery!SettleAgain, Delivery!End, Shown
  <2> QED
    BY <1>4, <1>5, <2>1 DEF Delivery!SharedNext
<1> QED
  BY <1>7, <1>8

LEMMA AbortShared ==
  ASSUME SharedInv, NEW d \in Dispatchers, AbortBatch(d)
  PROVE  RowsEmitted' /\ BatchIsKnown' /\ UNCHANGED Delivery!vars
<1> USE DEF SharedInv, OutboxInv
<1>1. /\ todo'[d] = {} /\ touched'[d] = {} /\ busy' = busy \ {d}
      /\ \A c \in Dispatchers \ {d} : /\ todo'[c] = todo[c] /\ touched'[c] = touched[c]
                                      /\ loaded'[c] = loaded[c]
      /\ UNCHANGED <<mutation, outbox, posts, acked>>
  BY DEF AbortBatch, EndBatch, TypeOK, historyVars
<1> QED
  BY <1>1 DEF RowsEmitted, BatchIsKnown, Delivery!vars

LEMMA OthersShared ==
  ASSUME SharedInv,
         \/ Tick
         \/ \E e \in Events : CommitMutation(e)
         \/ ToggleConsumer
         \/ UNCHANGED vars
  PROVE  RowsEmitted' /\ BatchIsKnown' /\ UNCHANGED Delivery!vars
<1> USE DEF SharedInv, OutboxInv
<1>1. UNCHANGED <<busy, todo, touched, loaded, posts, acked>>
  BY DEF Tick, CommitMutation, ToggleConsumer, vars, dispatcherVars, historyVars
<1>2. \A e \in Events : outbox'[e].status = outbox[e].status
  BY DEF Tick, CommitMutation, ToggleConsumer, vars, TypeOK, Row
<1>3. \A e \in Events : mutation'[e] \in {"open", "committed"} =>
                          mutation[e] \in {"open", "committed"}
  BY DEF Tick, CommitMutation, ToggleConsumer, vars, TypeOK
<1>4. RowsEmitted' /\ BatchIsKnown'
  BY <1>1, <1>2, <1>3 DEF RowsEmitted, BatchIsKnown, TypeOK
<1>5. Shown' = Shown
  BY <1>2, SameStatuses
<1> QED
  BY <1>1, <1>4, <1>5 DEF Shown, Delivery!vars

LEMMA SharedStep ==
  ASSUME SharedInv, [Next]_vars
  PROVE  SharedInv' /\ (Delivery!SharedNext \/ UNCHANGED Delivery!vars)
<1>1. OutboxInv'
  BY OutboxStep DEF SharedInv
<1>2. /\ RowsEmitted' /\ BatchIsKnown'
      /\ Delivery!SharedNext \/ UNCHANGED Delivery!vars
  BY EmitShared, BeginShared, DeliverShared, CommitShared, AbortShared, OthersShared
     DEF Next
<1> QED
  BY <1>1, <1>2 DEF SharedInv

\* However many processes dispatch, and however late one of them writes its
\* batch back over what another settled: each settlement has its grounds, and
\* no settled event gets back to pending (dispatch_pending_events).
THEOREM OutboxImplementsSharedDelivery == Spec => ImplementsSharedDelivery
<1>1. SharedInv /\ [Next]_vars => SharedInv'
  BY SharedStep
<1>2. SharedInv /\ [Next]_vars => [Delivery!SharedNext]_(Delivery!vars)
  BY SharedStep
<1> QED
  BY SharedInit, InitDelivers, <1>1, <1>2, PTL
     DEF Spec, ImplementsSharedDelivery, Delivery!SharedSpec
=============================================================================
