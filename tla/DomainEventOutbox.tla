------------------------- MODULE DomainEventOutbox -------------------------
(***************************************************************************)
(* Keep's domain event bridge, keep/api/core/domain_events.py: incident    *)
(* mutations write one outbox row per event, and a polling loop in every   *)
(* API worker process POSTs the due rows to the webhook consumer.          *)
(*                                                                         *)
(* A dispatcher reads a batch, POSTs its due rows one by one while it      *)
(* changes only the objects it loaded, and writes all of them back in one  *)
(* commit at the end.  Nothing locks the rows in between: dispatchers of   *)
(* different processes work on the same rows, and a process that dies      *)
(* before its commit leaves no trace of the POSTs it made.                 *)
(***************************************************************************)
EXTENDS Naturals, FiniteSets

CONSTANTS
  Events,        \* the domain events incident mutations give rise to
  Dispatchers,   \* one dispatcher loop per API worker process
  MAX_ATTEMPTS,  \* KEEP_DOMAIN_EVENTS_MAX_ATTEMPTS
  BATCH_SIZE,    \* KEEP_DOMAIN_EVENTS_BATCH_SIZE
  BACKOFF_BASE,  \* KEEP_DOMAIN_EVENTS_BACKOFF_BASE, in ticks
  BACKOFF_MAX,   \* KEEP_DOMAIN_EVENTS_BACKOFF_MAX, in ticks
  MaxAborts      \* bound: how many batches may be abandoned

ASSUME OutboxAssumption ==
  /\ MAX_ATTEMPTS \in Nat \ {0}
  /\ BATCH_SIZE \in Nat \ {0}
  /\ BACKOFF_BASE \in Nat
  /\ BACKOFF_MAX \in Nat
  /\ MaxAborts \in Nat
  /\ IsFiniteSet(Events)

VARIABLES
  mutation,   \* mutation[e]: has the incident change behind e been committed?
  outbox,     \* outbox[e]: the row of e in the table domaineventoutbox
  busy,       \* the dispatchers that are between their SELECT and COMMIT
  todo,       \* todo[d]: due rows of the batch d has not POSTed yet
  touched,    \* touched[d]: rows of the batch d has POSTed
  loaded,     \* loaded[d][e]: d's in-memory copy of row e
  sinceStart, \* sinceStart[d]: ticks since d read the clock for its batch
  consumerUp, \* is the consumer answering?
  aborts,     \* batches abandoned so far
  posts,      \* history: posts[e] counts the POSTs of e
  acked       \* history: events some POST of which was answered with a 2xx

dispatcherVars == <<busy, todo, touched, loaded, sinceStart>>
historyVars == <<posts, acked>>
vars == <<mutation, outbox, dispatcherVars, consumerUp, aborts, historyVars>>

-----------------------------------------------------------------------------
Statuses == {"none", "pending", "delivered", "failed"}

(***************************************************************************)
(* age is the time since last_attempt_at.  It saturates at BACKOFF_MAX: no *)
(* comparison of the code tells longer times apart, and a row that was     *)
(* never attempted (last_attempt_at null) is due like one that old.        *)
(* created is the position of the row in the created_at order.             *)
(***************************************************************************)
Ages == 0..BACKOFF_MAX

Row == [status : Statuses, attempts : Nat, age : Ages, created : Nat]
NoRow == [status |-> "none", attempts |-> 0, age |-> BACKOFF_MAX, created |-> 0]

Loaded == [status : Statuses, attempts : Nat]
NotLoaded == [status |-> "none", attempts |-> 0]

Older(t) == IF t < BACKOFF_MAX THEN t + 1 ELSE t

_backoff_seconds(attempts) ==
  LET exponent == IF attempts > 1 THEN attempts - 1 ELSE 0
      delay    == BACKOFF_BASE * 2^exponent
  IN  IF delay < BACKOFF_MAX THEN delay ELSE BACKOFF_MAX

Pending == {e \in Events : outbox[e].status = "pending"}

\* Mutant of Batch: the LIMIT is applied before the WHERE.
BatchFilteredLate ==
  {e \in Pending :
     Cardinality({f \in Events : /\ outbox[f].status # "none"
                                 /\ outbox[f].created < outbox[e].created})
       < BATCH_SIZE}

\* SELECT ... WHERE status = 'pending' ORDER BY created_at LIMIT BATCH_SIZE.
Batch ==
  {e \in Pending :
     Cardinality({f \in Pending : outbox[f].created < outbox[e].created})
       < BATCH_SIZE}

\* The rows the loop over the batch does not skip.
Due == {e \in Batch : outbox[e].age >= _backoff_seconds(outbox[e].attempts)}

-----------------------------------------------------------------------------
Init ==
  /\ mutation = [e \in Events |-> "open"]
  /\ outbox = [e \in Events |-> NoRow]
  /\ busy = {}
  /\ todo = [d \in Dispatchers |-> {}]
  /\ touched = [d \in Dispatchers |-> {}]
  /\ loaded = [d \in Dispatchers |-> [e \in Events |-> NotLoaded]]
  /\ sinceStart = [d \in Dispatchers |-> 0]
  /\ consumerUp = TRUE
  /\ aborts = 0
  /\ posts = [e \in Events |-> 0]
  /\ acked = {}

(***************************************************************************)
(* The incident mutation commits first; the event is built and inserted by *)
(* a second transaction.  If that one fails it is rolled back, logged and  *)
(* forgotten, and a process that dies in between never starts it.          *)
(***************************************************************************)
CommitMutation(e) ==
  /\ mutation[e] = "open"
  /\ mutation' = [mutation EXCEPT ![e] = "committed"]
  /\ UNCHANGED <<outbox, dispatcherVars, consumerUp, aborts, historyVars>>

emit_incident_event(e) ==
  /\ mutation[e] = "committed"
  /\ \/ /\ mutation' = [mutation EXCEPT ![e] = "emitted"]
        /\ outbox' = [outbox EXCEPT
             ![e] = [status |-> "pending", attempts |-> 0, age |-> BACKOFF_MAX,
                     created |-> Cardinality({f \in Events :
                                                outbox[f].status # "none"})]]
     \/ /\ mutation' = [mutation EXCEPT ![e] = "dropped"]
        /\ UNCHANGED outbox
  /\ UNCHANGED <<dispatcherVars, consumerUp, aborts, historyVars>>

(***************************************************************************)
(* dispatch_pending_events, in its three kinds of step.                    *)
(***************************************************************************)
BeginBatch(d) ==
  /\ d \notin busy
  /\ Due # {}
  /\ busy' = busy \union {d}
  /\ todo' = [todo EXCEPT ![d] = Due]
  /\ loaded' = [loaded EXCEPT ![d] =
       [e \in Events |->
          IF e \in Due THEN [status |-> outbox[e].status,
                             attempts |-> outbox[e].attempts]
                       ELSE NotLoaded]]
  /\ sinceStart' = [sinceStart EXCEPT ![d] = 0]
  /\ UNCHANGED <<mutation, outbox, touched, consumerUp, aborts, historyVars>>

\* Mutants of AfterAttempt.  The name of a statistic is stored as the status:
AttemptMarkedRetried(row, delivered) ==
  [attempts |-> row.attempts + 1,
   status   |-> IF delivered THEN "delivered" ELSE "retried"]

\* the last attempt counts as delivered whatever the answer was:
AttemptTrusted(row, delivered) ==
  LET attempts == row.attempts + 1
  IN  [attempts |-> attempts,
       status   |-> IF delivered \/ attempts >= MAX_ATTEMPTS THEN "delivered"
                    ELSE row.status]

\* one attempt too few:
AttemptGivesUpEarly(row, delivered) ==
  LET attempts == row.attempts + 1
  IN  [attempts |-> attempts,
       status   |-> IF delivered THEN "delivered"
                    ELSE IF attempts >= MAX_ATTEMPTS - 1 THEN "failed"
                    ELSE row.status]

\* the counter is reset by a success:
AttemptResetsCounter(row, delivered) ==
  LET attempts == row.attempts + 1
  IN  [attempts |-> IF delivered THEN 0 ELSE attempts,
       status   |-> IF delivered THEN "delivered"
                    ELSE IF attempts >= MAX_ATTEMPTS THEN "failed"
                    ELSE row.status]

\* a request that raises is not counted:
AttemptUncounted(row, delivered) ==
  [attempts |-> IF delivered THEN row.attempts + 1 ELSE row.attempts,
   status   |-> IF delivered THEN "delivered"
                ELSE IF row.attempts >= MAX_ATTEMPTS THEN "failed"
                ELSE row.status]

\* What one POST makes of the loaded row: attempts counts it, and the status
\* changes on a 2xx or on the last allowed attempt.
AfterAttempt(row, delivered) ==
  LET attempts == row.attempts + 1
  IN  [attempts |-> attempts,
       status   |-> IF delivered THEN "delivered"
                    ELSE IF attempts >= MAX_ATTEMPTS THEN "failed"
                    ELSE row.status]

DeliverEvent(d, e) ==
  /\ e \in todo[d]
  /\ \A f \in todo[d] : outbox[e].created <= outbox[f].created
  /\ todo' = [todo EXCEPT ![d] = @ \ {e}]
  /\ touched' = [touched EXCEPT ![d] = @ \union {e}]
  /\ loaded' = [loaded EXCEPT ![d][e] = AfterAttempt(@, consumerUp)]
  /\ posts' = [posts EXCEPT ![e] = @ + 1]
  /\ acked' = IF consumerUp THEN acked \union {e} ELSE acked
  /\ UNCHANGED <<mutation, outbox, busy, sinceStart, consumerUp, aborts>>

EndBatch(d) ==
  /\ busy' = busy \ {d}
  /\ todo' = [todo EXCEPT ![d] = {}]
  /\ touched' = [touched EXCEPT ![d] = {}]
  /\ loaded' = [loaded EXCEPT ![d] = [e \in Events |-> NotLoaded]]
  /\ sinceStart' = [sinceStart EXCEPT ![d] = 0]

\* Mutant of Written: the count is added to the column instead of stored.
WrittenAsIncrement(row, mine, age) ==
  [status   |-> IF mine.status = "pending" THEN row.status ELSE mine.status,
   attempts |-> row.attempts + mine.attempts,
   age      |-> age,
   created  |-> row.created]

\* Mutant of Written: the whole row is written back, the status it was read with
\* included.
WrittenWhole(row, mine, age) ==
  [status |-> mine.status, attempts |-> mine.attempts, age |-> age,
   created |-> row.created]

\* The UPDATE of a row sets the columns the dispatcher changed, and no others:
\* attempts and last_attempt_at always, status only if it left pending.
Written(row, mine, age) ==
  [status   |-> IF mine.status = "pending" THEN row.status ELSE mine.status,
   attempts |-> mine.attempts,
   age      |-> age,
   created  |-> row.created]

CommitBatch(d) ==
  /\ d \in busy
  /\ todo[d] = {}
  /\ outbox' = [e \in Events |->
       IF e \in touched[d]
         THEN Written(outbox[e], loaded[d][e], sinceStart[d])
         ELSE outbox[e]]
  /\ EndBatch(d)
  /\ UNCHANGED <<mutation, consumerUp, aborts, historyVars>>

\* The process dies, or the commit raises: the batch is gone, its POSTs stay.
AbortBatch(d) ==
  /\ d \in busy
  /\ aborts < MaxAborts
  /\ aborts' = aborts + 1
  /\ EndBatch(d)
  /\ UNCHANGED <<mutation, outbox, consumerUp, historyVars>>

ToggleConsumer ==
  /\ consumerUp' = ~consumerUp
  /\ UNCHANGED <<mutation, outbox, dispatcherVars, aborts, historyVars>>

Tick ==
  /\ outbox' = [e \in Events |-> [outbox[e] EXCEPT !.age = Older(@)]]
  /\ sinceStart' = [d \in Dispatchers |->
       IF d \in busy THEN Older(sinceStart[d]) ELSE sinceStart[d]]
  /\ UNCHANGED <<mutation, busy, todo, touched, loaded, consumerUp, aborts,
                 posts, acked>>

Next ==
  \/ \E e \in Events : CommitMutation(e) \/ emit_incident_event(e)
  \/ \E d \in Dispatchers :
       \/ BeginBatch(d)
       \/ \E e \in Events : DeliverEvent(d, e)
       \/ CommitBatch(d)
       \/ AbortBatch(d)
  \/ ToggleConsumer
  \/ Tick

Spec == Init /\ [][Next]_vars

(***************************************************************************)
(* async_domain_events_dispatcher is a `while True` that swallows every    *)
(* exception, each POST has a timeout, and time passes.  Nothing is        *)
(* assumed of the consumer or of the processes that emit.                  *)
(***************************************************************************)
Fairness ==
  /\ WF_vars(Tick)
  /\ \A d \in Dispatchers :
       /\ WF_vars(BeginBatch(d))
       /\ WF_vars(\E e \in Events : DeliverEvent(d, e))
       /\ WF_vars(CommitBatch(d))

FairSpec == Spec /\ Fairness

-----------------------------------------------------------------------------
\* Type invariant of the rows and of the dispatchers' in-memory batches.
TypeOK ==
  /\ mutation \in [Events -> {"open", "committed", "emitted", "dropped"}]
  /\ outbox \in [Events -> Row]
  /\ busy \subseteq Dispatchers
  /\ todo \in [Dispatchers -> SUBSET Events]
  /\ touched \in [Dispatchers -> SUBSET Events]
  /\ loaded \in [Dispatchers -> [Events -> Loaded]]
  /\ sinceStart \in [Dispatchers -> Ages]
  /\ consumerUp \in BOOLEAN
  /\ aborts \in 0..MaxAborts
  /\ posts \in [Events -> Nat]
  /\ acked \subseteq Events

\* Every attempt the table counts was a POST, though dispatchers overwrite
\* each other's counts (`event.attempts += 1` on a stale row).
AttemptsWereMade == \A e \in Events : outbox[e].attempts <= posts[e]

\* A row is marked delivered only if some POST of it was answered with a 2xx,
\* whichever dispatcher wrote the status and however late.
DeliveredWasAcked ==
  \A e \in Events : outbox[e].status = "delivered" => e \in acked

\* A row is given up only after at least MAX_ATTEMPTS POSTs of it: stale
\* counts, aborted batches and retries never make the dispatcher give up
\* early (contract: at least five tries, then failed).
FailedAfterMaxAttempts ==
  \A e \in Events : outbox[e].status = "failed" => posts[e] >= MAX_ATTEMPTS

\* A row that lost its pending status never changes status again.
SettledRowsStay ==
  [][\A e \in Events : outbox[e].status \in {"delivered", "failed"} =>
                         outbox'[e].status = outbox[e].status]_vars

\* Contract, "success: 2xx": a row marked delivered is done with.
DeliveredIsFinal ==
  [][\A e \in Events : outbox[e].status = "delivered" =>
                         outbox'[e].status = "delivered"]_vars

\* The attempt count of a row never goes back.
AttemptsNeverDecrease ==
  [][\A e \in Events : outbox'[e].attempts >= outbox[e].attempts]_vars

\* A consumer sees an event at most MAX_ATTEMPTS times, plus once for every
\* batch that died after its POSTs and before its commit.
RedeliveriesBounded == \A e \in Events : posts[e] <= MAX_ATTEMPTS + aborts

\* Every row a mutation managed to write leaves the pending state in the end,
\* although older rows in backoff fill the batch ahead of it and dispatchers
\* overwrite each other's attempt counts.
EveryRowSettles ==
  \A e \in Events : outbox[e].status = "pending" ~>
                      outbox[e].status \in {"delivered", "failed"}

-----------------------------------------------------------------------------
Stage(s) == IF s = "none" THEN "absent" ELSE s

Delivery == INSTANCE WebhookDelivery WITH
  stage <- [e \in Events |-> Stage(outbox[e].status)],
  tries <- posts,
  answered <- acked

\* With one dispatcher the table, the batches and the aborts implement what
\* WebhookDelivery promises of each event.
ImplementsDelivery == Delivery!Spec

\* With any number of dispatchers: an event that was settled may be sent and
\* settled again by a late one, but each time because a POST of it was answered
\* or enough of them were made, and it never gets back to pending.
ImplementsSharedDelivery == Delivery!SharedSpec
=============================================================================
