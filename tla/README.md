# TLA+ models of Keep

Keep (`src/keep`) ingests alerts, correlates them into incidents and runs
workflows; Keep AIOps (`src/keep-aiops`) listens to incidents and investigates
them, and proposes correlation rules. This directory holds TLA+ models of the
parts of both in which processes, threads, retries and restarts interleave, the
TLC configurations that check them on small instances, and TLAPS proofs of all
their safety properties, among them that three of the models implement abstract
specifications.

    tlc -workers 2 -config OutboxConcurrent.cfg MCDomainEventOutbox.tla
    tlapm DomainEventOutboxProofs.tla

| module | what it is |
|---|---|
| `WebhookDelivery` | what Keep promises of one domain event (abstract specification) |
| `DomainEventOutbox` | the outbox table and the dispatchers, `keep/api/core/domain_events.py` |
| `RcaReport` | what Keep AIOps promises of one incident (abstract specification) |
| `Investigation` | event receiver and investigation runs of keep-aiops |
| `RequestedRuns` | what a request for a workflow run gets (abstract specification) |
| `WorkflowScheduler` | event and manual workflow runs, `keep/workflowmanager/workflowscheduler.py` |
| `AlertIngestion` | from a received alert to the last alert, `keep/api/tasks/process_event_task.py` |
| `IncidentCorrelation` | extends it: from a saved alert to an incident, `keep/rulesengine` and `IncidentBl` |
| `PolicyCache` | tool policies and their cache, `aiops_api/modules/policy` |
| `EvidenceGathering` | extends it: specialists under a budget, `aiops_api/modules/specialists` |
| `RuleSuggestions` | paced analysis and suggested rules, `aiops_api/modules/correlation` |
| `MC…` | values of the constants for TLC, where a cfg cannot write them |
| `…Proofs` | theorems and their proofs; those about the outbox and `WebhookDelivery` in `WebhookDeliveryProofs` |

`PROJECT.json` lists components, runs, the source lines of every definition,
disagreements between code and documentation, hazards and theorems. In every
module the definitions marked *Mutant of X* are wrong variants of X that
a plausible bug would give; each property has one that violates it.

# 1. Inventory

Keep's API runs as several gunicorn worker processes (`docker/Dockerfile.api`,
`--workers 4`), each of which starts, in `keep/api/api.py`, its own workflow
scheduler (lines 137-145) and its own event dispatcher (194-201). They share a
database and nothing else. keep-aiops is one uvicorn process.

## Keep

**Domain event bridge** (`api/core/domain_events.py`). State: the table
`domaineventoutbox`. Operations: `emit_incident_event`, called after an incident
change was committed; `dispatch_pending_events`, every few seconds in every
process. It calls the webhook of keep-aiops. Hard: several dispatchers work on
the same rows without locks, writes happen once per batch, POSTs cannot be
undone, the consumer is down for a while. Correct when: what the table says of
an event corresponds to POSTs that were made; a settled row stays settled; no
event is given up early; every event is settled; events survive outages.

**Workflow scheduler** (`workflowmanager/`). State: per process the list
`workflows_to_run`, a thread pool; shared, the table `workflowexecution`, whose
unique constraint is the lock. Operations: `insert_events`, `insert_incident`,
`handle_manual_event_workflow`, the loop `_start` with `_handle_event_workflows`,
`_handle_interval_workflows` and `_timeout_workflows`, `_run_workflow` on the
pool. Hard: collisions and putting requests back, the lock lapsing, crashes that
lose the memory, workflows that hang, timeouts racing with ends. Correct when:
a request runs once, is not lost, is not run beside another of its fingerprint;
every execution ends.

**Alert ingestion** (`api/tasks/process_event_task.py`, `api/alert_deduplicator`,
`api/core/db.py`). State: the tables `alert` and `lastalert`. Every alert is a
job: deduplicate, save the row, set the last alert, resolve the incidents the
alert is in, run the rules. Hard: deduplication reads what another job writes
two transactions later, the first row of a fingerprint cannot be locked, a job
that raises starts again after later alerts. Correct when: the last alert of a
fingerprint only moves forward, and nobody evaluates rules on an older one.

**Rules and incidents** (`rulesengine/`, `api/bl/incidents_bl.py`). State: the
tables `incident` and `lastalerttoincident`. Operations: find or create the
incident of a rule, link an alert, count, make visible, resolve, announce;
operators merge, delete and change the status. Hard: check-then-create by
several workers, each transaction on a copy of the row, optimistic retries
(`StaleDataError`). Correct when: the counter agrees with the links, an incident
that becomes visible is announced, one whose alerts are all resolved is
resolved.

**Watchers** (`maintenance_windows_bl.py`, `dismissal_expiry_bl.py`,
`topologies/topology_processor.py`). Polling loops that write back state
they read at the start of a pass.

**The rest** — steps and providers, parser and templates, CEL to SQL, REST
routes, identity, secrets, CLI, UI — is sequential, or an adapter of an outside
system, and is listed in `PROJECT.json` with the reason it is left out.

## Keep AIOps

**Event receiver and orchestrator** (`modules/event_bridge`,
`modules/orchestrator`). State: tables `processed_event` and `investigation`,
background tasks, a semaphore. Operations: `receive_keep_event`, `handle_event`,
`run_investigation`, `fail_orphaned_investigations`. It reads incidents from
Keep and writes a comment and an enrichment back. Hard: redelivered and
reordered events, a commit before the work it announces, restarts, partial
failure of the write-back. Correct when: one run and one comment per incident,
no leaked slot, every run ends, failures are recorded.

**Specialists and budget** (`modules/specialists`). State of one run: budget
tracker, plan, evidence. Each specialist calls tools through the policy engine.
Hard: a stage is skipped when the budget is used up and a call raises when it is
exceeded, specialists raise halfway, tools are denied. Correct when: no more
calls than the limit, every source is asked or skipped for a recorded reason.

**Policy engine** (`modules/policy`). State: table `policy` and a cache per
process. Hard: the cache is cleared when a write is flushed, not when it is
committed, is filled from a query made earlier, and is not cleared by the writes
of another replica. Correct when: an evaluation uses rules in force within the
time to live, and keeps replaced ones only after such a race.

**Correlation proposals** (`modules/correlation`). State: tables
`correlation_client` and `rule_suggestion`. Operations: a reminder from Keep
starts a paced analysis, which stores suggestions; an operator accepts one,
which creates a rule in Keep, or dismisses it. Hard: the analysis itself causes
the next reminder; accept calls Keep between two transactions. Correct when: a
pass does not cause a pass, a proposal does not come back, an accepted
suggestion has its rule, the analysis is made again.

**Knowledge, RCA, configuration, gateway** are reads, text and CRUD around one
investigation.

# 2. Plan

Done, in this order, the hardest to test first:

1. `DomainEventOutbox`, and that it implements `WebhookDelivery`;
2. `Investigation`, and that it implements `RcaReport`;
3. `WorkflowScheduler`, and that it implements `RequestedRuns`;
4. `AlertIngestion` and, on top of it, `IncidentCorrelation`;
5. `PolicyCache` and, on top of it, `EvidenceGathering`;
6. `RuleSuggestions`;

each with the proofs of its safety properties (section 9).

Next:

7. `IntervalWorkflows`: `_handle_interval_workflows` and `db.py:320-446`. The
   lock on execution n+1 is a constraint that also holds the timeslot, so two
   processes in different timeslots both get it, and a run longer than a
   timeslot is started again whatever the relaunch rule of 60 minutes
   (`db.py:402-413`) says; the number of a manual run may be the largest of the
   column, and the exception at +1 (`db.py:373`) drops the workflows that were
   locked in the same pass. Most of what one would ask of it is false, so it
   starts with the question what it should promise.
8. `AiopsPipeline`: `WebhookDelivery` and `RcaReport` behind a lossy webhook, in
   one module: an eligible incident is reported at most once, and at least once
   if nothing dies.
9. In `IncidentCorrelation`: deletion and merge of incidents with
   `StaleDataError`, status changes by operators, severity, rules that need
   approval. Then the topology processor, whose check-then-create has the same
   shape.
10. `MaintenanceWindows` with enrichments and dismissals, beside
    `AlertIngestion`.
11. Order of the events of one fingerprint in `WorkflowScheduler`; the overlap
    of the old and the new process of keep-aiops during a rolling update.

Runs are kept few: a new module joins an existing run, or replaces one that
asks less, where both fit one instance. Every module declares no `RECURSIVE`
operator, so that all can be proved about.

# 3. DomainEventOutbox

| model | code |
|---|---|
| `outbox[e]` | the row: `status`, `attempts`, `age` for `last_attempt_at`, `created` for the position in `created_at` |
| `loaded[d]`, `todo[d]`, `touched[d]` | the ORM objects of a batch, those not yet POSTed, those POSTed |
| `CommitMutation`, `emit_incident_event` | the two transactions of an incident change |
| `BeginBatch` | SELECT, LIMIT, and the `continue` of rows in backoff |
| `DeliverEvent` | one pass of the loop: count, POST, status |
| `CommitBatch` | `session.commit()`: one UPDATE per touched row of the columns that changed |
| `AbortBatch` | the process dies or the commit raises |
| `ToggleConsumer`, `Tick` | environment: the consumer goes down or up; time passes |

SQLAlchemy writes the columns that differ from what was loaded: `attempts` and
`last_attempt_at` always, `status` only if the batch changed it. `Written` says
so, and the difference matters: a batch that leaves a row pending does not undo
the status another one wrote. A row that is skipped changes nothing in memory,
so a batch is its due rows. A timeout of a request counts like any answer that
is not a 2xx; a POST that arrives although its answer is lost is not told
apart from one that fails. Time is in ticks of the backoff; ages
saturate at `BACKOFF_MAX`, beyond which the code compares nothing.
`CommitMutation` takes every kind of incident change (create, update, resolve)
as one.

Bounds. `OutboxConcurrent`: two events, two dispatchers, 2 attempts, batches of
one, so that LIMIT and the order of creation matter, and one aborted batch; two
dispatchers suffice for every pair of stale writes of a row. `OutboxSingle`: one
dispatcher, three attempts, batches of two, backoff 1 then 2, two aborts.
`OutboxOverwrite`: two dispatchers with batches of two, no aborts. `posts`
needs no bound: rows settle, and `MaxAborts` bounds the batches that do not
count. No symmetry, as liveness is checked in the same run.

Fairness (`FairSpec`). The loop catches every exception, each POST has a
timeout, so each dispatcher goes on; time passes. Nothing is assumed of the
consumer: `EveryRowSettles` holds when it is down for ever, as the row fails.
It is checked with one aborted batch at any point.

`ImplementsDelivery` maps `status` to `stage`, `posts` to `tries` and `acked` to
`answered`. It is checked, and proved for every instance, with one dispatcher.
With two it does not hold: `OutboxOverwrite`, a finding of `PROJECT.json`, shows
a delivered row being marked failed. What several dispatchers do keep is
`ImplementsSharedDelivery`: a settled event may be sent and settled again, but
delivered only after a 2xx and failed only after `MAX_ATTEMPTS` POSTs, and it is
never pending again. That is due to `Written`: writing the whole loaded row
(`WrittenWhole`) would reopen it. The two specifications imply what the runs do
not ask apart: that a settled row stays settled with one dispatcher
(`SettledRowsStay`), and that a delivered row was acknowledged
(`DeliveredWasAcked`); both have theorems of their own.

Also seen while modelling, without a run: a committed incident change has no
row when the process dies, or `emit_incident_event` fails, in between
(`incidents_bl.py:106`), though `models/db/domain_event.py:15-17` calls the row
`Written in the same session as the domain mutation`; the backoff counts from
the start of the batch and not from the POST (`domain_events.py:199`); rows
that failed during an outage are never sent again (`:187`), though the contract
calls them reprocessable (`docs/aiops/contracts/event-envelope.mdx:61`).

# 4. Investigation

| model | code |
|---|---|
| `processed`, `investigation` | the tables; `draft` stands for draft, hypotheses and evidence |
| `handling` | the event between its commit and the end of `handle_event` |
| `task[i]` | where `run_investigation` is; only steps between commits or outside calls are told apart |
| `slots` | the `BoundedSemaphore` |
| `comments`, `enriched` | what Keep received |
| `receive_keep_event`, `Handle…` | the receiver; `HandleRaises` when it answers 500 |
| `AcquireGate`, `StartGathering`, `GenerateRca`, `AddComment`, `EnrichIncident` | the run |
| `Fails`, `MarkFailed` | an exception anywhere in it, and the except and finally branches |
| `Restart` | the process dies; the new one sweeps |

`receive_keep_event` is an `async def` without an `await` after the body was
read, in one process, so requests do not interleave inside it; that is why
`handling` holds one event. A duplicate leaves everything as it is, so it is a
stuttering step. The background task is added by `handle_event` and runs on a
thread. `GenerateRca` is one step because it is one transaction. `AddComment` and
`EnrichIncident` may take effect in Keep and fail on the way back. The slot is
taken before the `try` whose `finally` returns it; the only call in between is
`_budget_for` (service.py:224), which reads a configuration that catches every
exception (`modules/config/service.py:259-280`), so no leak is modelled there.
The sweep fails any subset of the running rows: the cutoff compares clocks, and
the process may have been away for a second or a day.

Bounds. `MCEvents` has seven events about two incidents, with a redelivery
under another id, an update, a resolution before or after the creation, and one
below the severity threshold; one slot for two runs; two restarts, so that a
restart follows the recovery of another. Order and absence of deliveries are
unconstrained. One run, `InvestigationCorrect`, checks the invariants, the
action property, the refinement and liveness on this instance (358 000 states).
`InvestigationLostEvent` has one restart.

`ImplementsReport` maps the status of a row to a phase (`queued`, `gathering` and
`hypothesizing` are one), `draft` to `drafted`, and what Keep received to itself;
receiver, gate, tasks and restarts disappear. `RcaReport` says that the phases
go one way, that a comment needs a finished investigation with its draft and is
the only one, and that the enrichment needs the comment. It implies that an
enriched incident has its comment (`EnrichedHasComment`). A report that failed
may have reached Keep, and `RcaReport` takes nothing back: `Withdraw` is that
`failed` of an investigation whose draft exists.

Deadlock is not checked: when all events were processed, the runs have ended
and no restart is left, the model stops, and so may the system.

Fairness (`FairSpec`). A handler that was entered ends; a run that can move
moves: calls have timeouts, and a released slot wakes a waiter. For a run that
waits, weak fairness is enough in these instances, as only finitely many runs
exist and none comes back for the slot. Nothing forces Keep to send an event
or the process to restart.

Finding: `InvestigationLostEvent`, an accepted event gets no investigation
because the process died, or the handler raised, between two commits.

Also seen, without a run: a restart leaves a queued row queued for ever
(`RUNNING_STATUSES`, `service.py:398`, leaves out `queued`, though `main.py:31-33`
says `anything left mid-run by the previous process is gone. Mark it failed`);
rows younger than the cutoff are not swept and look
live (`service.py:426`, against `keep-ui/features/aiops/ui/OverviewClient.tsx:150`);
a resolution that overtakes the creation is dropped (`service.py:137`);
`hypothesizing` is never visible, because `rca_ready` is set in the same
transaction (`service.py:255`); a failed investigation blocks every later one of
its incident (`service.py:165`, against line 68 of the contract).

# 5. WorkflowScheduler

| model | code |
|---|---|
| `execution[r]` | the row of request r; `locked` is `is_running = 1`, `age` the timeslots since it was inserted |
| `queue[n]`, `batch[n]` | `workflows_to_run`, and the list drained from it |
| `expired[n]` | what the timeout query returned |
| `waiting[n]`, `running[n]` | the pool |
| `InsertEvent`, `handle_manual_event_workflow` | requests |
| `Drain`, `CreateExecution`, `Collide`, `Submit` | `_handle_event_workflows` |
| `CreateFails`, `FailItem`, `IterationRaises` | its error paths |
| `StartRun`, `FinishRun` | `_run_workflow` |
| `TimeoutCheck`, `TimeoutFinish` | `_timeout_workflows` |
| `NextTimeslot`, `Crash` | environment: time, death or stop of a process |

The execution number of a nonparallel run is a hash of fingerprint and
workflow, of manual and parallel runs a random number; collisions of random
numbers and of hashes are left out. Finishing a row draws a random
`is_running`, which releases the lock. A run is one step from start to end:
what its steps do is not the scheduler's. `StartRun` takes any waiting request,
though the pool is first in, first out: no property here depends on that order.
A crash also stands for `stop`, which drops the queue and waits for or cancels
the pool.

Bounds. Three requests: r1 and r2 collide, r3 belongs to another workflow
(manual in the passing runs, the second item of a batch in
`SchedulerBatchLost`). Two processes, because the lock is between processes.
`MAX_WORKERS = 2` leaves one thread for runs, so that submitted requests wait.
`TIMEOUT = 2` timeslots gives ages 0, 1 and 2: same timeslot, lapsed, timed out
(the code has 60). One crash and one raising call at any point. Symmetry
(processes; r1 and r2) in the safety run only.

`ImplementsRequestedRuns` maps queues, batches and both stages of the pool away:
what is left of a request is whether it was accepted, how many executions and
runs it had, the status of the execution and whether the workflow runs.
`RequestedRuns` has one execution and then one run for each, an end that is
reported once, and no way back to `in_progress`; it lets an execution be set to
error at any time, because `TimeoutFinish` acts on what `TimeoutCheck` read, so
that a run may start, go on and end successfully after its execution timed out.
It implies that nothing runs twice (`ExecutedOnce`).

Deadlock is not checked: with everything ended and every row as old as
`TIMEOUT`, only stuttering is left.

Fairness (`FairSpec`). Time passes and the loop goes on: it catches every
exception, sleeps a second and starts again. `TimeoutCheck` gets strong
fairness, because the loop reaches it on every hundredth iteration whatever is
in the queue, while a request that is put back disables it again and again.
`FinishRun` and `StartRun` get none: a workflow may hang for ever in a
provider, and so keep others from starting. `SchedulerLiveness` is checked with
one process that keeps working after the crash of its memory.

`RequestKept` speaks of behaviours in which no process died and no call raised,
as the queue is in memory only. `SchedulerSafety` checks it with the other
strategies; with a nonparallel workflow `SchedulerBatchLost` refutes it for the
requests beside the skipped one, so its theorem excludes that strategy.

Finding: `SchedulerBatchLost`, a collision of a nonparallel workflow drops the
rest of the batch.

Also seen, without a run: the lock holds for the timeslot of 120 s it was taken
in (`models/db/workflow.py:79`), so runs of one fingerprint overlap once it is
over, though `workflowscheduler.py:507` says `enforce that no workflow already
run with the same fingerprint`; an execution that ends between the timeout query and
its update is recorded as timed out (`workflowscheduler.py:400`).

# 6. AlertIngestion and IncidentCorrelation

| model | code |
|---|---|
| `stage[j]`, `tries[j]` | where the job of one alert is, and arq's `job_try` |
| `alert[j]`, `last[f]` | the newest row job j inserted into `alert`; the row of `lastalert` with the alert it points to |
| `apply_deduplication`, `ReadPrevious`, `SaveAlert`, `set_last_alert`, `InsertLastAlert` | `process_event` up to the last alert |
| `counter[j]` | the `unresolvedCounter` job j computed before it saves its alert |
| `Retry` | its except branch: arq starts the job again |
| `incident`, `links` | the tables `incident` and `lastalerttoincident` |
| `target[j]`, `view[j]` | the incident object a job holds, with `expire_on_commit` off |
| `ReadIncidents`, `CheckIncident`, `Resolve`, `EndChecks` | the end of `__save_to_db`, and `resolve_incident_if_require` |
| `checking[j]` | the incidents that loop has still to look at |
| `get_incident_for_grouping_rule`, `create_incident_for_grouping_rule` | `_get_or_create_incident` |
| `LinkAlert`, `CountAlerts` | the two transactions of `add_alerts_to_incident` |
| `JudgeVisibility`, `CheckResolution`, `Announce` | the rest of `_run_cel_rules` for the incident |
| `JobRaises` | an exception at any point, or the death of the worker |
| `QuietPeriod` | environment: the rule's timeframe passes |

A step is one transaction, or one read whose result is used in a later one. The
database commits in isolation *read committed*: a query sees what was committed
when it runs. So `unresolvedCounter` is computed from the alert before, which
another job may read too before either saves: a counter may be lower than the
alerts it stands for, never higher. The incidents of an alert are read at once
and checked and closed one by one; an exception there is logged, and the rules
follow. The order of the timestamps stands for the timestamps. A retry
that saves again gets a new one, as the code does (`formatted_events` are built
in every try). One rule and one value of its grouping are modelled, as rules and
groups share nothing but alerts; the rule has `resolve_on: all`, `create_on:
any` and needs no approval. A job has one event. `running_number` collides and
is retried inside `create_incident_for_grouping_rule`, which is one step. The
severity of the incident, maintenance windows, enrichments and the operator's
changes are left out.

`VisibleIsDue`: an incident is not visible before `THRESHOLD` fingerprints are
linked to it, or `THRESHOLD` firing alerts of these are saved. The code compares
the threshold with a count of links and with a sum of `unresolvedCounter`, each
read in an earlier transaction, and the sum may have been lowered since by a
resolved alert, but what they counted is still there. It is about jobs that are
not tried again: one that raises between saving its alert and setting the last
one saves the alert a second time, and the counter counts both.

`NothingLeftOpen` is about behaviours in which no job raised, and
`CountMatchesLinks` and `VisibleIsAnnounced` leave out incidents on which a job
was cut off (`cutOff`): a job that was, is taken for a duplicate when it is
retried, so nobody completes what it had begun.

Bounds. Three jobs: a firing and a resolved alert of one fingerprint, a firing
alert of another; so an incident is created twice, linked twice, resolved by
either alert. `THRESHOLD = 2` makes the first alert's incident invisible until
another one is linked. That the sum of counters reaches it needs two firing
alerts of one fingerprint, a fourth job, and more states than a run that is
repeated should have: the theorem `NothingSurfacesEarly` covers that branch of
`VisibleIsDue`, for any number of jobs. `MaxTries` is arq's
`max_tries`, 2 in the run: `InsertLastAlert` needs one retry and the second
failure gives up. One upset (`MaxUpsets`) at any point: a raising job or a
quiet period. Deadlock is not checked: when all jobs have ended the model stops.
No liveness: nothing here is retried until it succeeds.

Seen while modelling, without a run:

- a job that raises after the last alert was set takes its own alert for a full
  duplicate when it is retried, so neither workflows nor rules ever see it
  (`process_event_task.py:433-445`, `:828`);
- a job that raises after its alert was saved and before the last one was set
  saves it again when it is retried, `unresolvedCounter` counts it twice, and one
  alert may reach a threshold of two (`process_event_task.py:188-285`,
  `enrichment_helpers.py:152-180`);
- a job that is retried after a later alert of its fingerprint was saved gets a
  fresh timestamp and replaces it, though the comment at `db.py:5767-5769` says
  that the comparison prevents the race;
- two jobs that find no incident both create one (`rulesengine.py:361`): nothing
  is unique about rule and fingerprint. All properties hold of both incidents;
- an incident that is resolved while a firing alert is being linked to it stays
  resolved, and two jobs that both find it resolved both announce it
  (`incidents_bl.py:473`);
- for an incident that becomes visible already resolved, the event of its
  resolution is sent before that of its creation (`rulesengine.py:198`, `:215`);
- severity is computed from a copy, so that one of two jobs may undo the other's
  (`db.py:4471-4480`).

# 7. PolicyCache and EvidenceGathering

| model | code |
|---|---|
| `log[s]` | the rules committed for tenant or `*`, in the table `policy` |
| `cache[s]` | `_POLICY_CACHE`: expiry and the version that was read |
| `writing`, `Changes[w]` | the sessions between flush and commit; the scopes write w changes |
| `eval[e]` | a call of `evaluate`: `Lookup`, `Query`, `Store`, then decided |
| `QueryFails` | the except branch of `assert_tool_allowed`, the static default |
| `Flush`, `Commit`, `Rollback`, `EndWrite` | `upsert_policy`, with the mapper events that clear the cache |
| `place[r]`, `steps[r]` | `run_specialists` and the plan |
| `Start`, `ListTools` | the run begins; the catalog of tools is fetched, or fails the investigation before anything is gathered |
| `used[r]`, `started[r]` | `BudgetTracker` |
| `Visit`, `Decision` | the loop over stages, `should_enter` |
| `Call`, `Denied`, `Invoke` | `_safe_call`: budget, policy, gateway |
| `Return`, `GatherRaises`, `Absorb` | the end of one specialist and what it leaves |
| `Request` | a dry run of the API, `POST /v1/policies:evaluate` |
| `Tick` | environment: the clock |

A version of a scope is its position in the log, and the verdict of a version is
what its first matching rule says of the class of the tool. `approval_required`
stops a call like `deny`. What a tool answers is one of: evidence, evidence
that names the failing service, a gap. `BudgetExceeded` is the one exception that leaves
`gather`, and fails the investigation.

Bounds. One investigation, which consults `*`, and one dry run of a tenant, which
consults the tenant and then `*`, so that a scope is shared and a fall-through
happens. Two writes, one of a policy of `*` and one that moves a policy from the
tenant to `*`: they are rows of their own, so that both may be flushed and not
committed, in this replica or in another. Policies have one content: versions
tell old and new apart, and it allows one class and leaves the other to the
default. The clock goes to 1 with a time to live of 1 and a wall time of 0: an
entry expires at the tick, also between lookup and store, is then stored again,
and the run exceeds its time. The theorems are for any of these numbers.
The roster has a
specialist of a broad stage before one of the first stage, so that the order is
not that of the registry; the first asks once or four times against a limit of
2: below, at and over it. Deadlock is not checked: the run ends. No liveness:
specialists run one after the other and every call has a timeout.

Seen while modelling, without a run:

- a specialist that is entered with fewer calls left than it makes fails the
  whole investigation, and the evidence of the earlier ones is rolled back
  (`coordinator.py:303`, `base.py:110`, against the skip at `plan.py:157`);
- a specialist that raises leaves one gap: what its earlier calls found is lost;
- when the table cannot be read, the default (`policy/__init__.py:42-69`) allows
  read tools, also one the operator denied;
- an evaluation between flush and commit caches the replaced rules again for the
  time to live, the case the comment at `engine.py:54` means to exclude.
  `StaleOnlyAfterRace` says that only this race, a query overtaken by a write,
  or a write of another replica does so.

# 8. RuleSuggestions

| model | code |
|---|---|
| `lastRun` | `correlation_client.last_run_at`, as its age |
| `stage[p]`, `seen[p]` | one background task, and the row it read |
| `found[p]`, `fresh[p]`, `looked[p]` | the proposals it has still to look up, those that were new, and the batch it saw when it looked |
| `Remind`, `ReadClient`, `Gate`, `claim_run` | `remind_about_the_client`, `_run_safely`, `claim_run` |
| `ReadConfig`, `Analyse` | `run_for_client`: settings, alerts, grouping |
| `CheckProposal`, `AddProposals`, `Restamp` | `store_proposals`, and the stamp at the end |
| `suggestion` | `rule_suggestion`: a row per rule and batch |
| `BeginAccept`, `CreateRule`, `RecordAccept` | `accept_suggestion`: transaction, call of Keep, transaction |
| `Dismiss` | `dismiss_suggestion` |
| `rules` | environment: the rules created in Keep |

Times are ages that saturate at the window, beyond which the code compares
nothing. A rule is identified by its CEL, as `_existing_signature` does. What an
analysis finds is any set of rules. A call that fails may have created the rule
in Keep all the same. `claim_run` stamps the time it read just before its
transaction; the model takes the moment of the commit, so that no tick falls
between the two. Proposals are looked up one at a time, in any order, before any
is added. `since` and `earlier` are history: they say how long ago a
pass claimed, and whether another one could have read that claim.

Bounds. Two passes, two acceptances, one rule: the races are between two passes
that look and add, and between two requests about one suggestion; a second rule
would share nothing with the first but the numbers of the batches, and the
theorems are for any number of rules. `FLOOR = 1`
and `WINDOW = 2` give one age below the floor, one between and one at the window.
`SuggestionStarvation` needs one pass, no operator, and Keep always on.

Fairness (`FairSpec`). Tasks run, time passes, and reminders keep coming: Keep's
AI page polls `GET /ai/stats` every few seconds while it is open. The safety run
uses no fairness.

Finding: `SuggestionStarvation`. `claim_run` moves the stamp before the window
is compared with the stamp that was read earlier; a reminder between floor and
window moves it without an analysis, and while reminders come that often there
is none.

Also seen, without a run: two acceptances create two rules, of which the
suggestion names the later one recorded; a dismissal during the call of an
acceptance is overwritten, and dismissing an accepted suggestion leaves its rule
active (`service.py:377`, `:416`); the report at the end of a pass
(`report_execution`) reads the whole settings row and writes it back, so that a
change an operator makes in between is lost.

# 9. Proofs

All theorems hold for every value of the constants that satisfies the named
assumptions of the modules (`OutboxAssumption`, `InvestigationAssumption`,
`SchedulerAssumption`, `IngestionAssumption`, `CorrelationAssumption`,
`PolicyAssumption`, `GatheringAssumption`, `SuggestionAssumption`), which TLC
evaluates in the runs. They say that limits are natural numbers, that events,
incidents, fingerprints or specialists are finitely many, that requests with one
key belong to one workflow, and that alerts of equal content agree in
fingerprint and status. A theorem that needs more has it as a named hypothesis.
The bounds of the runs are constants too: the theorems hold for any of them.

**DomainEventOutboxProofs.** `AttemptsWereMade`, `DeliveredWasAcked` and
`FailedAfterMaxAttempts` are not inductive, as a commit writes what a dispatcher
holds in memory. `OutboxInv` adds that the loaded rows are justified in the same
way by the POSTs made so far. Justification is monotone in the histories, so
staleness does no harm. Theorems `OutboxTypeCorrect`, `AttemptsAreReal`,
`DeliveredIsTrue`, `NeverGivesUpEarly`.

**WebhookDeliveryProofs.** `OutboxImplementsSharedDelivery` needs, besides
`OutboxInv`, that a batch holds rows that exist (`BatchIsKnown`), so that its
commit writes none that is absent, and that an event is emitted once
(`RowsEmitted`). The rest has the hypothesis
`OneDispatcher`. `SingleInv` adds
what the status of a row implies (`RowsFollow`), that the loaded rows are those of
the table but for what the batch did (`BatchIsFresh`), and how many POSTs the
commits and aborts account for (`PostsCounted`). Theorems
`RedeliveriesAreBounded`, `SettledForGood`, `AttemptsGoUp`, and
`OutboxImplementsDelivery`: the initial states map to initial states of
`WebhookDelivery`, and each step to one of its steps or to a stutter.

**InvestigationProofs.** `RunHistory(i)` ties the status of a row, the stage of
its task, and what Keep received: the row is created once, so `runs`, `comments`
and `draft` can be read from them. `SlotsAccounted` is inductive with the types;
its lemmas `HolderAdded` and `HolderRemoved` count the runs past the gate. The
range of `slots` in `TypeOK` follows from it. `FailedStaysFailed` proves the
action property from the invariant: a task that exists belongs to a row that
has not failed. For `InvestigationImplementsReport` the stage of a task says which phase its row
is in (`RunFollows`): a step that writes the row moves the phase on, one that
reaches Keep finds the row ready and the comment missing, or there, and `Restart`
gives up a set of open ones. Theorems
`InvestigationTypeCorrect`, `GateIsSound`, `SingleRun`, `SingleComment`,
`EnrichedAfterComment`, `FailedStaysFailed`, `InvestigationImplementsReport`.

**WorkflowSchedulerProofs.** `LockInv` adds that a locked row exists: a row is
inserted at age 0 only if no row of its key is locked at age 0, and
`NextTimeslot` ages all rows alike. `PlaceInv` says where a request can be: in
one position of one queue, or of one batch, or in one pool (`Places`), with its
row and run counted as far as it has come (`Rows`); the lemmas `InAppend`,
`InTail` and `DistinctTail` do the work on sequences. For the refinement
`RunsInv` adds that a request runs in one pool only, so that the union of the
pools loses one request at an end and the requests of one process at a crash,
and that a manual request that was accepted has its row (`ManualHasRow`), as
`handle_manual_event_workflow` writes both. Theorems `SchedulerTypeCorrect`,
`LockIsExclusive`, `NothingRunsTwice`, `SchedulerImplementsRequestedRuns`, and,
with the hypothesis `NoNonparallel`, `NoRequestIsForgotten`.

**IncidentCorrelationProofs.** `CorrelationInv` has the types, what a stage
implies of the job's target and copy (`Holds`), and the four arguments. `Latest`:
the last alert of a fingerprint only moves forward, and its job's row is not
newer than it. `Counted`: whoever links has still to count, and a count is taken
of the links of that moment. `Visible`: the copy by which a job announces is of
the incident it made visible. `Closing`: when all last alerts of an incident are
resolved, the incident is resolved or some job has still to look: at all of its
incidents, or at this one of those in `checking`. `FullTypes`
adds the types of the remaining columns for `TypeOK`: the sum over the last
alerts of an incident is the size of a disjoint union (`Total`), so that it is a
natural number without induction, and `UnresolvedCounter` looks at the newest
alert only if that is one of a firing job.

`ThresholdInv` is for `VisibleIsDue`. Every number that decides is a lower bound
of something that only grows: an `unresolvedCounter`, of the saved firing alerts
of its fingerprint (`CountersDue`); a copy, of the links and of the saved firing
alerts of the incident (`CopyDue`); a row, of its links (`RowDue`). A new counter
is one more than that of the newest alert when it was read, and waits as a lower
bound until it is saved (`counter`); that newest alert exists because the saved stamps
of a fingerprint have a greatest one (`NewestKnown`), and its own alert was not
counted yet because it is saved once (`SavedOnce`). That the sum of the counters
is at most the number of alerts is `TotalDue`: the pairs that `Total` counts are
mapped into them by an injection, one fingerprint at a time. Theorems
`CorrelationTypeCorrect`, `LastAlertsAdvance`, `CountsAreRight`,
`VisibilityIsAnnounced`, `NothingSurfacesEarly`, `ResolutionIsNotLost`.

**PolicyCacheProofs** has the lemmas on the cache, **EvidenceGatheringProofs**
the invariant of both. `DecisionsAreRecent` needs that an entry, and a query on
its way into the cache, was in force less than the time to live before it
expires. `StaleOnlyAfterRace` needs the same of a query that no write overtook.
`EverySourceAccounted` rests on the lemma `OrderIsComplete`, that
`order_specialists` is a permutation of the roster, and on what each step of
the plan left behind when it was made. Theorems `GatheringTypeCorrect`,
`PoliciesAreRecent`, `StaleEntriesAreExplained`, `BudgetHolds`,
`NothingIsSilent`.

**RuleSuggestionsProofs.** `SuggestionsInv` is `Pace`, what a pass has read is
not older than the last claim it could read, and it is past the floor when the
pass claims; `Tables`, a rule that a pass found new was added since by later
batches only; and `Operator`, a request about to
record holds a rule created for its suggestion. Theorems
`SuggestionsTypeCorrect`, `ProposalsDoNotComeBack`, `AcceptanceIsReal`,
`FeedbackIsPaced`.

Only model-checked: liveness (`EveryRowSettles`, `EveryRunEnds`,
`EveryExecutionEnds`, `CollidingRequestProceeds`), because the prover does not
handle fairness and ENABLED. The implementations are of the safety part of the
abstract specifications: these state no fairness. Every other property of a
passing run has a theorem.

# 10. Not modelled

Payloads, signatures, severities beyond eligible or not, prompts, evidence and
texts; the matching of triggers and of CEL; interval workflows and the rest of
the plan in section 2; the components listed as `not_modelled` in
`PROJECT.json`. Most of the repository's lines are adapters of outside systems
(about a hundred providers), REST routes, queries for the user interface and the
command line: each is one call and its answer, with no state between two calls
that another actor could disturb. Tenants are independent of each other in all
parts, so the models have one, except `PolicyCache`, whose scopes they share.

Every bound that the code does not have is a constant whose comment begins with
*bound*: `MaxAborts`, `MaxRestarts`, `MaxCrashes`, `MaxFaults`, `MaxUpsets`,
`MaxClock`. `MaxTries`, `MAX_ATTEMPTS`, `LIMIT` and the like are the code's own.
