---------------------- MODULE DomainEventOutboxProofs ----------------------
(***************************************************************************)
(* The safety invariants of DomainEventOutbox, for any events, any number  *)
(* of dispatchers, any limits and any number of abandoned batches.         *)
(*                                                                         *)
(* What makes them inductive is a fact about the rows a dispatcher holds   *)
(* in memory: however stale they are, they too count only POSTs that were  *)
(* made, say delivered only of an answered POST, and failed only after     *)
(* enough of them.  The histories posts and acked only grow, so a row that *)
(* was right when it was loaded is still right when it is written back.    *)
(***************************************************************************)
EXTENDS DomainEventOutbox, FiniteSetTheorems, TLAPS

\* An attempt count and a status that the POSTs of e made so far justify.
Justified(e, status, attempts) ==
  /\ attempts <= posts[e]
  /\ status = "delivered" => e \in acked
  /\ status = "failed" => posts[e] >= MAX_ATTEMPTS

RowsJustified ==
  \A e \in Events : Justified(e, outbox[e].status, outbox[e].attempts)

LoadedJustified ==
  \A d \in Dispatchers : \A e \in todo[d] \union touched[d] :
    Justified(e, loaded[d][e].status, loaded[d][e].attempts)

OutboxInv == TypeOK /\ RowsJustified /\ LoadedJustified

-----------------------------------------------------------------------------
LEMMA OlderType == ASSUME NEW t \in Ages PROVE Older(t) \in Ages
  BY OutboxAssumption DEF Older, Ages

LEMMA DueRows == Due \subseteq Events /\ \A e \in Due : outbox[e].status = "pending"
  BY DEF Due, Batch, Pending

\* created is Cardinality of a set of events, which are finitely many.
LEMMA CreatedIsNat ==
  Cardinality({f \in Events : outbox[f].status # "none"}) \in Nat
  BY OutboxAssumption, FS_Subset, FS_CardinalityType

LEMMA InitInv == Init => OutboxInv
<1> SUFFICES ASSUME Init PROVE OutboxInv
  OBVIOUS
<1>1. TypeOK
  BY OutboxAssumption DEF Init, TypeOK, Row, NoRow, Statuses, Ages, Loaded, NotLoaded
<1>2. RowsJustified
  BY OutboxAssumption DEF Init, RowsJustified, Justified, NoRow
<1>3. LoadedJustified
  BY DEF Init, LoadedJustified
<1> QED
  BY <1>1, <1>2, <1>3 DEF OutboxInv

\* Writing an event: a new row was never attempted, so it claims nothing.
LEMMA EmitKeepsInv ==
  ASSUME OutboxInv, NEW e \in Events, emit_incident_event(e)
  PROVE  OutboxInv'
<1> USE DEF OutboxInv
<1>1. TypeOK'
  <2> DEFINE new == [status |-> "pending", attempts |-> 0, age |-> BACKOFF_MAX,
                     created |-> Cardinality({f \in Events :
                                                outbox[f].status # "none"})]
  <2>1. new \in Row
    BY CreatedIsNat, OutboxAssumption DEF Row, Statuses, Ages
  <2>2. outbox' \in [Events -> Row]
    BY <2>1 DEF emit_incident_event, TypeOK
  <2>3. mutation' \in [Events -> {"open", "committed", "emitted", "dropped"}]
    BY DEF emit_incident_event, TypeOK
  <2> QED
    BY <2>2, <2>3 DEF emit_incident_event, TypeOK, dispatcherVars, historyVars
<1>2. RowsJustified'
  BY DEF emit_incident_event, TypeOK, RowsJustified, Justified, historyVars
<1>3. LoadedJustified'
  BY DEF emit_incident_event, LoadedJustified, Justified, dispatcherVars, historyVars
<1> QED
  BY <1>1, <1>2, <1>3

\* Reading a batch copies rows that are justified.
LEMMA BeginKeepsInv ==
  ASSUME OutboxInv, NEW d \in Dispatchers, BeginBatch(d)
  PROVE  OutboxInv'
<1> USE DEF OutboxInv
<1>1. TypeOK'
  BY DueRows, OutboxAssumption
     DEF BeginBatch, TypeOK, Row, Loaded, NotLoaded, Statuses, Ages, historyVars
<1>2. RowsJustified'
  BY DEF BeginBatch, RowsJustified, Justified, historyVars
<1>3. LoadedJustified'
  <2> SUFFICES ASSUME NEW c \in Dispatchers,
                      NEW e \in todo'[c] \union touched'[c]
               PROVE  Justified(e, loaded[c][e].status, loaded[c][e].attempts)'
    BY DEF LoadedJustified
  <2> e \in Events
    BY <1>1 DEF TypeOK
  <2>1. CASE c # d
    BY <2>1 DEF BeginBatch, TypeOK, LoadedJustified, Justified, historyVars
  <2>2. CASE c = d /\ e \in Due
    BY <2>2 DEF BeginBatch, TypeOK, RowsJustified, Justified, historyVars
  <2>3. CASE c = d /\ e \notin Due
    <3>1. /\ loaded'[c][e] = NotLoaded
          /\ posts' = posts
      BY <2>3 DEF BeginBatch, TypeOK, historyVars
    <3> QED
      BY <3>1 DEF Justified, NotLoaded, TypeOK
  <2> QED
    BY <2>1, <2>2, <2>3
<1> QED
  BY <1>1, <1>2, <1>3

\* The heart of the argument: one POST adds one to posts and one to the loaded
\* count, and the loaded status follows the answer.
LEMMA DeliverKeepsInv ==
  ASSUME OutboxInv, NEW d \in Dispatchers, NEW e \in Events, DeliverEvent(d, e)
  PROVE  OutboxInv'
<1> USE DEF OutboxInv
<1> loaded[d][e] \in Loaded
  BY DEF TypeOK
<1>1. TypeOK'
  <2>1. AfterAttempt(loaded[d][e], consumerUp) \in Loaded
    BY OutboxAssumption DEF AfterAttempt, Loaded, Statuses
  <2>2. loaded' \in [Dispatchers -> [Events -> Loaded]]
    BY <2>1 DEF DeliverEvent, TypeOK
  <2>3. posts' \in [Events -> Nat]
    BY DEF DeliverEvent, TypeOK
  <2> QED
    BY <2>2, <2>3 DEF DeliverEvent, TypeOK
\* What was justified before the POST is justified after it.
<1>2. ASSUME NEW f \in Events, NEW s, NEW n \in Nat, Justified(f, s, n)
      PROVE  Justified(f, s, n)'
  BY <1>2, OutboxAssumption DEF DeliverEvent, TypeOK, Justified
<1>3. RowsJustified'
  BY <1>2 DEF DeliverEvent, TypeOK, RowsJustified, Row
<1>4. LoadedJustified'
  <2> SUFFICES ASSUME NEW c \in Dispatchers,
                      NEW f \in todo'[c] \union touched'[c]
               PROVE  Justified(f, loaded[c][f].status, loaded[c][f].attempts)'
    BY DEF LoadedJustified
  <2> f \in Events
    BY <1>1 DEF TypeOK
  <2>1. CASE c # d \/ f # e
    <3>1. f \in todo[c] \union touched[c] /\ loaded'[c][f] = loaded[c][f]
      BY <2>1 DEF DeliverEvent, TypeOK
    <3>2. loaded[c][f].attempts \in Nat
      BY DEF TypeOK, Loaded
    <3> QED
      BY <3>1, <3>2, <1>2 DEF LoadedJustified
  <2>2. CASE c = d /\ f = e
    <3>1. Justified(e, loaded[d][e].status, loaded[d][e].attempts)
      BY DEF DeliverEvent, LoadedJustified
    <3>2. /\ loaded'[d][e] = AfterAttempt(loaded[d][e], consumerUp)
          /\ posts'[e] = posts[e] + 1
          /\ acked' = IF consumerUp THEN acked \union {e} ELSE acked
      BY DEF DeliverEvent, TypeOK
    <3> QED
      BY <3>1, <3>2, <2>2, OutboxAssumption
         DEF AfterAttempt, Justified, TypeOK, Loaded
  <2> QED
    BY <2>1, <2>2
<1> QED
  BY <1>1, <1>3, <1>4

\* Writing a batch back copies loaded rows that are justified, however much
\* the table changed meanwhile.
LEMMA CommitKeepsInv ==
  ASSUME OutboxInv, NEW d \in Dispatchers, CommitBatch(d)
  PROVE  OutboxInv'
<1> USE DEF OutboxInv
<1>1. TypeOK'
  <2>1. ASSUME NEW e \in Events
        PROVE  Written(outbox[e], loaded[d][e], sinceStart[d]) \in Row
    <3>1. outbox[e] \in Row /\ loaded[d][e] \in Loaded /\ sinceStart[d] \in Ages
      BY DEF TypeOK
    <3> QED
      BY <3>1 DEF Written, Row, Loaded
  <2>2. outbox' \in [Events -> Row]
    BY <2>1 DEF CommitBatch, TypeOK
  <2> QED
    BY <2>2, OutboxAssumption
       DEF CommitBatch, EndBatch, TypeOK, Loaded, NotLoaded, Statuses, Ages, historyVars
<1>2. RowsJustified'
  <2> SUFFICES ASSUME NEW e \in Events
               PROVE  Justified(e, outbox[e].status, outbox[e].attempts)'
    BY DEF RowsJustified
  <2> posts' = posts /\ acked' = acked
    BY DEF CommitBatch, historyVars
  <2>1. CASE e \in touched[d]
    <3>1. Justified(e, loaded[d][e].status, loaded[d][e].attempts)
      BY <2>1 DEF LoadedJustified
    <3>2. outbox'[e] = Written(outbox[e], loaded[d][e], sinceStart[d])
      BY <2>1 DEF CommitBatch
    <3>3. /\ outbox[e] \in Row
          /\ Justified(e, outbox[e].status, outbox[e].attempts)
      BY DEF TypeOK, RowsJustified
    <3> QED
      BY <3>1, <3>2, <3>3 DEF Written, Justified, Row
  <2>2. CASE e \notin touched[d]
    BY <2>2 DEF CommitBatch, RowsJustified, Justified
  <2> QED
    BY <2>1, <2>2
<1>3. LoadedJustified'
  BY DEF CommitBatch, EndBatch, TypeOK, LoadedJustified, Justified, historyVars
<1> QED
  BY <1>1, <1>2, <1>3

\* An abandoned batch leaves the table as it was.
LEMMA AbortKeepsInv ==
  ASSUME OutboxInv, NEW d \in Dispatchers, AbortBatch(d)
  PROVE  OutboxInv'
<1> USE DEF OutboxInv
<1>1. TypeOK'
  BY OutboxAssumption
     DEF AbortBatch, EndBatch, TypeOK, Loaded, NotLoaded, Statuses, Ages, historyVars
<1>2. RowsJustified'
  BY DEF AbortBatch, RowsJustified, Justified, historyVars
<1>3. LoadedJustified'
  BY DEF AbortBatch, EndBatch, TypeOK, LoadedJustified, Justified, historyVars
<1> QED
  BY <1>1, <1>2, <1>3

LEMMA TickKeepsInv ==
  ASSUME OutboxInv, Tick
  PROVE  OutboxInv'
<1> USE DEF OutboxInv
<1>1. \A e \in Events : /\ outbox'[e] \in Row
                        /\ outbox'[e].status = outbox[e].status
                        /\ outbox'[e].attempts = outbox[e].attempts
  BY OlderType DEF Tick, TypeOK, Row
<1>2. TypeOK'
  <2>1. outbox' \in [Events -> Row]
    BY <1>1 DEF Tick
  <2> QED
    BY <2>1, OlderType DEF Tick, TypeOK
<1>3. RowsJustified'
  BY <1>1 DEF Tick, RowsJustified, Justified
<1>4. LoadedJustified'
  BY DEF Tick, LoadedJustified, Justified
<1> QED
  BY <1>2, <1>3, <1>4

\* Steps that touch neither rows nor batches.
LEMMA OtherStepsKeepInv ==
  ASSUME OutboxInv,
         \/ \E e \in Events : CommitMutation(e)
         \/ ToggleConsumer
         \/ UNCHANGED vars
  PROVE  OutboxInv'
<1> USE DEF OutboxInv
<1>1. UNCHANGED <<outbox, dispatcherVars, aborts, historyVars>>
  BY DEF CommitMutation, ToggleConsumer, vars
<1>2. mutation' \in [Events -> {"open", "committed", "emitted", "dropped"}]
  BY DEF CommitMutation, ToggleConsumer, vars, TypeOK
<1>3. consumerUp' \in BOOLEAN
  BY DEF CommitMutation, ToggleConsumer, vars, TypeOK
<1>4. TypeOK'
  BY <1>1, <1>2, <1>3 DEF TypeOK, dispatcherVars, historyVars
<1>5. RowsJustified' /\ LoadedJustified'
  BY <1>1 DEF RowsJustified, LoadedJustified, Justified, dispatcherVars, historyVars
<1> QED
  BY <1>4, <1>5

\* The inductive invariant holds in every reachable state.
THEOREM OutboxInvariance == Spec => []OutboxInv
<1>1. OutboxInv /\ [Next]_vars => OutboxInv'
  BY EmitKeepsInv, BeginKeepsInv, DeliverKeepsInv, CommitKeepsInv,
     AbortKeepsInv, TickKeepsInv, OtherStepsKeepInv
     DEF Next
<1> QED
  BY InitInv, <1>1, PTL DEF Spec

-----------------------------------------------------------------------------
\* Rows and in-memory batches always have their types.
THEOREM OutboxTypeCorrect == Spec => []TypeOK
<1>1. OutboxInv => TypeOK
  BY DEF OutboxInv
<1> QED
  BY OutboxInvariance, <1>1, PTL

\* The attempts of a row never exceed the POSTs that were made of it.
THEOREM AttemptsAreReal == Spec => []AttemptsWereMade
<1>1. OutboxInv => AttemptsWereMade
  BY DEF OutboxInv, RowsJustified, Justified, AttemptsWereMade
<1> QED
  BY OutboxInvariance, <1>1, PTL

\* No row is marked delivered without a 2xx, with any number of dispatchers
\* overwriting each other's rows.
THEOREM DeliveredIsTrue == Spec => []DeliveredWasAcked
<1>1. OutboxInv => DeliveredWasAcked
  BY DEF OutboxInv, RowsJustified, Justified, DeliveredWasAcked
<1> QED
  BY OutboxInvariance, <1>1, PTL

\* No row is given up before MAX_ATTEMPTS POSTs of it were made.
THEOREM NeverGivesUpEarly == Spec => []FailedAfterMaxAttempts
<1>1. OutboxInv => FailedAfterMaxAttempts
  BY DEF OutboxInv, RowsJustified, Justified, FailedAfterMaxAttempts
<1> QED
  BY OutboxInvariance, <1>1, PTL
=============================================================================
