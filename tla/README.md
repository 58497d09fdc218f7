# A verification development for the multi-agent security platform

TLA+ models of `src/backend/app`, the TLC runs that check them on small
instances, and TLAPS proofs of what holds for every instance. The program is an
asyncio backend: HTTP requests and collectors hand security events to an
ingestion pipeline, a Kafka topic carries them to a worker that persists them,
and agents under a dispatcher analyse what detection and correlation find.

Coroutines of one event loop interleave only at `await`. That is the grain of
the models: an action is the code between two awaits of one coroutine, and
another coroutine, a cancellation or a failure of Redis, PostgreSQL or Kafka may
come in at each await. Where the code holds no await, the whole method is one
action.

## Inventory

| part | state it keeps | operations | hard behaviour | what makes it right |
|---|---|---|---|---|
| `ingestion/resilience/backpressure.py` | deque of timestamps; `_active_tasks`; an unused semaphore | `acquire`, `try_acquire`, `release` | a window that slides with the clock; a slot per call, given back on every path | no window over the rate; `active` = calls inside; never over `max_queue_size` |
| `ingestion/pipeline.py`, `metrics.py`, `dead_letter.py`, `retry.py` | counters, a bounded deque of dead letters, the topics | `ingest_single`, `ingest_batch`, `handle_invalid_event`, `retry_async` | awaits on the broker, retries, cancellation, batches of concurrent items under a semaphore | totals balance; nothing accepted that was not tried; dead letters agree in counter, deque and topic; every call and batch is answered |
| `workers/telemetry_worker.py`, `main.py` | `_is_running`, the loop task, counters; rows, cache and dead letters outside | `start`, `_consume_loop`, `process_event`, `stop`, the lifespan | no committed offsets, duplicates, lost commit acknowledgements, start with a timeout, stop and crash in mid-batch | every record a loop fetched gets a true fate, one row per event, in order |
| `agents/dispatcher/tracker.py`, `dispatcher.py` | a dict of tasks, Redis records, an index per status, metrics | `create_task`, `mark_*`, `update_status`, `dispatch_to_agent`, `handle_task_failure`, `clear_completed` | each operation is a read and up to four Redis commands with awaits in between; each may raise | retries within budget; both homes, index and metrics agree |
| `agents/base.py`, `models.py` | status, current task, three counters; records and tasks | `execute`, error handlers, `publish_result` | overlapping executions on one object, hooks that raise, cancellation | each execution counted once; concluded records final |
| `performance/__init__.py` | token bucket, breaker, cache with an access deque, pool with `id()`s, metric series | `acquire(_async)`, `can_execute`, `record_*`, `get/set/delete/clear`, `acquire/release` | reports that arrive in a later state; an eviction queue beside a dict; addresses that come back | bounds on windows, size, lent connections; trips exactly on streaks |
| `agents/registry.py` | agents by type, by id and by capability | `register`, `unregister`, `get_agent`, `get_by_capability`, `clear` | three indexes written one by one, several instances of one class | the indexes tell one story |
| `agents/dispatcher/router.py`, `dispatcher.py` | a sorted list of rules; the default agents | `add_rule`, `remove_rule`, `route`, `dispatch_event`, `dispatch_finding` | rules with equal priorities, added and removed between events | an event goes to the oldest matching rule that none outranks |
| `agents/specialized/log_analyzer.py`, `network_threat.py`, `correlation.py` | failures per source, flows per pair, an index of events, all kept from task to task | `process_task`, one detector after another | events out of order; a task that fails half-way, leaves what it added and is tried again | what is reported is of its window and its source; what keeps a beat, repeats or comes in stages is seen |
| `agents/specialized/email_verification.py`, `incident_prioritization.py`, `response_recommendation.py`, `threat_intelligence.py`, `report_generation.py` | none of their own, but they write to the lists of the caller's payload | `process_task` | scores cut into classes; a task tried again finds what its first attempt appended | more evidence never makes a case look better; a plan can be carried out in its order; a repeated report tells the same |
| `agents/specialized/investigation.py` | the active investigation per id | `process_task` | entries of one time, assets named many times, a task under a used id | timeline, evidence and assets hold all that was told |
| `core/broker.py` | a producer, started lazily, and an `asyncio.Lock` | `get_producer`, `publish_event`, `close` | a double-checked start with retries and cancellation under a lock | never two connected producers; everyone gets the lock |
| `core/redis.py` | keys in Redis: a lock per name, a sorted set per identifier | `acquire_lock`, `release_lock`, `check_rate_limit` | a lock that expires under its holder, lost commands and answers; requests that overtake one another | leases exclude; a late release takes nothing; the limit holds |
| `detection/` | an engine per rule type, its rules and which are disabled, the indicators, counters | `initialize`, `register_engine`, `reload_rules`, `add_rule`, `clear_rules`, `evaluate`, `evaluate_sync`, `evaluate_to_finding`; `_compile_rule` | engines replaced, cleared and reloaded between evaluations; an engine that raises; a condition expression reduced to "all" or "any" | what one engine raises costs only its own matches; a finding is as severe as its worst match; a compiled rule errs in one direction |
| `threat_intel/` | providers, a cache with one result per indicator | `lookup`, `register_provider`, `get_aggregated_reputation` | lookups interleave at each provider's await, while providers are added; the cached result stands for all providers | the strongest opinion is told, whoever failed |
| `incidents/` | incidents with status, dates and a timeline | `create_incident`, `update_status`, `close_incident`, `assign_incident`, `add_timeline_entry` | a timeline that some calls append to and one call sorts | the timeline tells status and dates |
| `evaluation/` | runs, confusion matrices, one list of latency samples | `create_run`, `start_run`, `record_*`, `complete_run` | runs that overlap and share the samples | each event in one cell, each sample in one report |
| `correlation/` | the correlations found | `correlate`, with grouping and scores | findings in any order, groups that only partly have something in common | a correlation is of one time and one matter |
| `investigation/` | cases, their evidence, hypotheses, steps and timeline | `create_investigation`, `add_evidence`, `add_hypothesis`, `update_hypothesis`, `complete_step`, `generate_timeline`, `close_investigation` | evidence between two timelines, evidence that cannot be sorted | a timeline is what was known when it was made |
| `alerting/` | alerts, handlers | `create_alert`, `register_handler`, `acknowledge_alert`, `resolve_alert`, `update_alert`, lists and counts, the score | handlers that raise, or register handlers while they are called | every handler is told once; each alert is counted once |
| `audit/`, `qa/`, `rag/` | lists of results, chunks and vectors | run, record, search | none: sequential, read by their own reports only | the figures are those of the records |
| `api/`, `schemas/`, `database/`, `models/`, `config/`, `reports/`, `observability/`, parsers and normalizers | tables, payloads, text | I/O, parsing, layout | text and external services | enter the models as verdicts and failures |

How they interact. `api` calls `ingest_single` / `ingest_batch`; the pipeline
calls backpressure, parser, normalizer, validation, the dead-letter manager and,
through `retry_async`, the broker. The worker reads the topic the pipeline
writes and uses the same dead-letter manager and `retry_async`. The dispatcher
stores tasks through the tracker and publishes them to the agents' topics; each
agent, found through router and registry, runs `BaseAgent.execute`, and that
calls the agent's `process_task`, which has no await that another coroutine
could use. Its findings go by way of the caller to correlation, alerts,
incidents and investigations. Everything else is called synchronously.

## Modules and the code they model

| module | models | notes |
|---|---|---|
| `Backpressure` | `RateLimiter` and `BackpressureController` of `backpressure.py` | an integer clock; `acquire` of n items is one action: it has no await inside its lock |
| `SlotPool` | what the controller promises: a bounded pool of slots | the abstract specification of `PoolSpec` |
| `IngestionPipeline` | `ingest_single` with metrics, dead letters, retries | one action per stretch between awaits; requests are model values with a verdict (`valid`, `invalid`); parser, normalizer and validation are that verdict |
| `BatchIngestion` | `ingest_batch` | items of batches and single requests are requests of an instance of the pipeline; `PipelineSpec` is the refinement |
| `TelemetryWorker` | the worker inside the lifespan of `main.py` | the topic is a log of events, some twice; the process crashes and boots again |
| `TaskTracker` | tracker and the dispatcher's retries | object identity is modelled (`heap`): the dict holds references, Redis copies |
| `AgentExecution` | `BaseAgent.execute` | several executions share one agent and possibly one task |
| `TokenBucket`, `CircuitBreaker`, `LruCache`, `ConnectionPool` | the four primitives of `performance/__init__.py` | in one run, one at a time: they share no state |
| `BrokerManager` | the producer of `core/broker.py` | coroutines that publish and close; the lock's queue is first come, first served, and a producer is an object with a life |
| `RedisManager` | `acquire_lock`, `release_lock`, `check_rate_limit` of `core/redis.py` | the lock: command, execution and answer are three steps, two of which may be lost; `age` is the time since a holder asked, all it could measure. The limit: a request reads its time in one step and runs its pipeline in another, up to `MaxDelay` later |
| `ThreatIntel` | `lookup`, its cache, the aggregated reputation | one step per provider's answer; providers are registered in between |
| `Incidents` | status, dates and timeline of `IncidentManager` | minutes are ticks; an entry remembers whether it was dated ahead |
| `Evaluation` | runs, matrices and samples of `EvaluationFramework` | a detection is recorded before its event, as the comments there have it |
| `DetectionEngine` | registry, engines and orchestrator of `detection/` | an engine is its rules, those disabled and its indicators; an event is the rules it satisfies; only an engine that a caller registered can raise, the built-in ones catch what a rule raises |
| `SigmaRules` | what `sigma_engine.py` makes of a rule, beside what the rule says | which pattern fits a value is data; conditions, selections and the expression are not |
| `AgentRegistry` | `agents/registry.py` | instances of one class share type, id and capabilities |
| `TaskRouter` | `router.py`, and the dispatch of one task in `dispatcher.py` | the default rules as they are; rules come and go between events |
| `LogAnalyzer` | `log_analyzer.py` | an event is what its detectors see of it; a bad event fails the task, what came before it stays |
| `NetworkThreat` | `network_threat.py` | a task is a flow; the history of a pair is what was heard, in the order of arrival |
| `CorrelationAgent` | `correlation.py` of the agents | one sequence for the three indexes, which hold the same events |
| `EmailVerification`, `Prioritization`, `IntelEnrichment` | `email_verification.py`, `incident_prioritization.py`, `threat_intelligence.py` of the agents | weights, cuts and caps are the code's, in hundredths; texts are the signs found in them |
| `ResponsePlan` | `response_recommendation.py` | the lists of the incident are the caller's: they grow from task to task |
| `InvestigationAgent` | `investigation.py` of the agents | each active investigation remembers its task, for the property only |
| `ReportGeneration` | `report_generation.py` | attempts of one task follow one another on the caller's lists |
| `CorrelationEngine` | `correlation/__init__.py` | grouping as written: from the first of a group that is not in one |
| `InvestigationEngine` | `investigation/__init__.py` | a timeline is made when asked for |
| `Alerting` | `alerting/__init__.py` | a handler returns, raises or registers another |
| `StableOrder` | `sorted()`, `list.sort()` and list comprehensions with an `if` | operators only, by places, so that they can be proved about |
| `ListProofs`, and a module `...Proofs` per group of components | | lemmas on lists, sums and folds; the theorems below |

Where a module of runs follows one of several components that share no state
(`MCServices`, `MCAgents`, `MCDetection`), `subject` is chosen in the
initial state and the others stay still.

Each operation is one action, or one per stretch between awaits; `pc`-like
fields (`call[c].pc`, `stage`, `loop`) are the coroutine's place in the code.
Operators named `Slip...` are forms of an action with a plausible mistake in
it: substituted for the definition they follow, each breaks a property.
They are never part of a specification.

## Runs

Eight runs check what holds.

- `ingestion` - three requests against a limiter, a pool of slots and a
  dead-letter deque too small for all of them; every publish may fail up to the
  retry bound and every call may be cancelled at each await. The rate window,
  the slots, the totals of the metrics and that what is accepted was tried
  (`BooksBalance`), the three places of a dead letter (`DeadLettersAgree`), and
  that the controller is a bounded pool (`PoolSpec`).
- `batch` - two batches and a single request with fewer permits than items.
  Batches are answered truthfully and to the end, permits bound the items in
  flight, and whatever a batch does is something the pipeline allows.
- `worker` - a log with a duplicate and a malformed event, fewer retries than
  failures, a crash or stop at each place, a restart. No fetched record is lost
  silently, fates are true (`Truthful`), one row per event, and what a loop
  fetched is concluded unless it stops.
- `tracker` - three calls on two tasks, one call per task at a time and at most
  `MaxRaises` failing Redis commands. Retries, those stored and those published,
  keep to their budget (`Budgets`); dict, Redis, index and metrics agree
  (`HomesAgree`).
- `execution` - three executions on one agent and two tasks: counters exact and
  only a cancellation strands a task (`Consistent`), concluded records are
  final, executions end.
- `detection` - two rule sources, built-in and custom rules, two lists of
  indicators, three events; engines registered, changed and reloaded between
  evaluations; and beside it every well-formed rule of two selections from four
  conditions, against every event on two fields. An engine that raises costs
  only its own matches (`NothingMissed`), a finding is as severe as its worst
  match (`FindingTruthful`), and a compiled rule that denies nothing errs in one
  direction (`ErrsOneWay`).
- `services` - two holders of the lock, four requests at the rate limit, three
  coroutines at the broker manager, two analysts at two providers, an incident,
  two overlapping benchmark runs, and the four primitives of `performance`.
  Leases exclude as long as each holder measures its own from when it asked
  (`LeasesExclude`), and a late release takes nothing from the next holder
  (`OnlyOwnRelease`); the limit holds in every window less the delay
  (`LimitHoldsLessDelay`); one connected producer, and nobody waits for ever
  (`OnlyOneConnected`, `EveryoneEnds`); the strongest opinion is told
  (`StrongestIsTold`); timeline, status and dates agree (`TimelineTellsTruth`);
  no window grants more tokens than refill and capacity (`WindowBounded`); the
  breaker trips on full streaks and recovers (`TripsOnStreaks`,
  `RecoversWhenHealthy`); the pool lends as promised (`LendingSpec`). In
  `ServicesConsistent`: types, the size of the cache and the victim of an
  eviction as long as no key was set twice, one owner per connection, matrices
  and samples that balance.
- `agents` - the registry with two instances and three types, the router with
  the default rules, two of an operator's and four that are removed, nine
  specialized agents with tasks that fail, repeat and come out of order, alerts,
  the correlation engine and the investigations, each on its own.
  `WorkFindsItsAgent`: indexes agree, and an event goes to the oldest rule that
  none outranks. `AlarmsAreTimely`: an alarm of guessed passwords counts one
  source in one window, tasks that failed included. `BeaconsAreHeard`: what
  keeps its beat is heard in whatever order it arrives. `AttacksAreSeen`: slow
  and orderly attacks are found across tasks. `EvidenceOnlyAccuses`: nothing
  added to a mail, and no indicator but by what is known of it, makes either
  look better. `GraverIsNoLater`: more severity, assets or tactics never move a
  deadline out. `CleanedWereIsolated`: a plan can be carried out in its order
  however long its lists grew. `NothingToldIsLost`: investigations, timelines
  and repeated reports keep all that was told. `EveryoneIsTold`: every handler
  hears of an alert once. `GroupsHoldTogether`: correlations are of one time and
  one matter.

Four runs show where the code and what is said of it part; each `findings` entry
of `PROJECT.json` quotes both sides.

- `ingestion_lost` - an event is answered "accepted" and is neither in the topic
  nor dead-lettered.
- `tracker_budget` - with calls of one task interleaved, a task is retried once
  more than `max_retries`.
- `sigma_rules` - a rule fires on an event it does not describe, or does not on
  one it does.
- `dispatch` - a task is published under an id that the tracker has never seen.

### Observed, not kept as runs

Seen while modelling, each in what the modules do and none stated as a property:

- the worker's consumer starts at the end of the topic and never commits
  (`broker.py:135`): records published while it was down are skipped;
- a start that times out leaves `is_running` true without a loop (`main.py:43`,
  `telemetry_worker.py:156`);
- an event dead-lettered as not persisted may have its row when the commit's
  acknowledgement was lost (`telemetry_worker.py:94`);
- `max_concurrent_tasks` bounds nothing, the semaphore it sizes is never
  acquired (`backpressure.py:77`);
- `mark_retry` leaves a task in the index of its old status when that was not
  FAILED (`tracker.py:290`);
- the first of two overlapping executions to end makes the agent say it is idle
  (`base.py:245`); a task whose agent returns a FAILED result is marked
  completed (`base.py:215`); failed executions are not counted as processed, so
  the success rate of `get_stats` may be negative (`base.py:250`, `:377`);
- `set()` of a key that is cached does not move it in the order of eviction, so
  the most recently used may be evicted (`performance/__init__.py:296`);
- when requests overtake one another a window may let more than `limit` through
  (`redis.py:97`): what does hold is `LimitHoldsLessDelay`;
- a reload adds the demo indicators to the configured ones
  (`ioc_engine.py:106`);
- an IoC engine without its default rules loads them in `evaluate`, so that
  rules which were cleared come back;
- an indicator's cache holds one verdict, of the provider that answered last,
  and later lookups get it for all of them (`threat_intel/__init__.py:226`); the
  `cached` flag is set on the result object that the first caller was given too
  (`threat_intel/__init__.py:176`);
- the first of two overlapping benchmark runs to complete reports the latencies
  of both (`evaluation/__init__.py:287`): each sample is reported once, but not
  by its own run;
- dispatcher: a direct dispatch and a failure to route are not counted;
- log analyzer: the configuration of `repeated_access` is never used;
- network agent: the windows of scans and exfiltration are never used; a task
  that is tried again counts its bytes again; one time without a zone makes
  every later task of its pair fail;
- correlation agent: `chain_timeout_sec` is never used; correlations of a
  source, target or user have no task id; one time without a zone makes every
  later task of its source, target or user fail; a repeated task is counted
  again; the search for a chain is greedy, so an early event of a late stage
  hides the stages after it;
- email agent: the verdict of DMARC is never used, attachments of an EML are not
  looked at, an event that is not a dict is benign;
- prioritization: severities of finding and event override the incident's;
  a breach that also has phishing or malware is classified as that, and loses
  the escalation a breach has; a tactic of reconnaissance scores below none;
  event types are appended to the caller's list;
- response plan: hosts and users of events stay in the caller's lists, twice
  after a retry; a host beyond the limit is neither isolated nor cleaned, though
  normal access is restored; the list of malicious domains is never filled;
- investigation agent: a task under a used id replaces what was kept; an asset
  was last seen when it was last listed, not when it was last active;
- report agent: findings are appended to the caller's investigation, so repeats
  count them again; the id of the investigation replaces the incident's;
  executive and investigation reports list no findings;
- threat intelligence agent: the score is a mean, so one more known indicator
  can lower the severity; an address under `hostname` is taken for a domain, and
  hides the same one under `source_ip`; URLs are never looked up;
- alerting: acknowledging a resolved alert opens it again with its date of
  resolution, `update_alert` resolves without one, and the throttle is never
  used;
- correlation engine: one finding in the window that has nothing in common with
  the others leaves them with no indicator in common; some weights are never
  used;
- investigation engine: evidence that cannot be sorted or read leaves the old
  timeline for good; a closed case takes whatever an open one does.

### Bounds

Every unbounded counter has a named bound: `MaxTime` (clocks), `MaxRaises`
(failing Redis commands), `MaxBoots` and the length of the log (worker),
`MaxStreak` (observed streaks), `MaxOrder` (the cache's access deque),
`MaxAttempts` (attempts of `retry_async`, a parameter of the code too),
`MaxAcquires` and `MaxNow` (lock and rate limit), `MaxProviders` and
`MaxLookups`, `MaxMinutes` and `MaxEntries` (incidents), `MaxRecords`
(evaluation), `MaxEvents` and `MaxChanges` (detection), `MaxSize` (conditions of
a selection); for the agents the number of tasks or calls (`MaxTasks`,
`MaxAnalyses`, `MaxFlows`, `MaxCorTasks`, `MaxInvTasks`, `MaxAlerts`,
`MaxCorrelations`), their clocks (`MaxLogTime`, `MaxCorTime`, `MaxAlertTime`),
and the lengths of lists that grow from task to task (`MaxAdded`, `MaxListed`,
`MaxReported`, `MaxEvidence`, `MaxHypotheses`). Limits of the code that are
large there (five hosts, twenty findings, ten requests for a baseline) are
constants, small here. They are chosen so that each limit of the code is reached
and passed: more requests than slots, more dead letters than the deque holds,
more keys than the cache, more failures than the breaker's threshold, more
instants than the window is long, more logins, flows and events than each
threshold asks for. Since the state of every component is per request, record,
task or key, and its interactions are pairwise (two calls racing for the last
slot, two failures of one task, a key and the one it evicts), two or three of
each meet every case; the proofs remove the bound where it matters most.

### Fairness

A coroutine that waits for the broker, the database or a sleep is resumed: those
calls have timeouts in their clients, so the actions in which an answer arrives,
good or bad, are weakly fair. Nothing makes a broker answer well, a client call,
a cancellation happen or a process crash. The clock of the token bucket and of
the breaker ticks, within its bound. At the broker manager each step of a
coroutine that is not its caller's decision is weakly fair: the event loop
resumes it, `start`, `stop` and `send_and_wait` have timeouts, and the
`asyncio.Lock` serves its queue in order, which the model has as a sequence. The
breaker's recovery is stated only for a callee that stays healthy and callers
that keep calling.

## Proofs

| module | theorem | of every |
|---|---|---|
| `IngestionProofs` | `WindowIsRespected`, `BooksAreBalanced`, `SlotsArePool`, `DeadLettersAreAccounted` | rate, window, sequence of batches; finite set of requests and all limits |
| | `BatchesArePipeline`, `ReportsAreTruthful` | set of finite batches, number of permits |
| `WorkerProofs` | `RecordsNeverVanish`, `ConclusionsAreTrue` | log, batch size, number of attempts |
| `TrackerProofs` | `BudgetsAreKept`, `HomesStayTogether` | set of tasks and of calls, budget, heap; calls on one task that do not overlap |
| `AgentProofs` | `EveryEndIsAccounted`, `RecordsStayFinal` | set of executions and tasks |
| | `WorkIsFound` | set of instances, types and capabilities; rules, events and calls |
| | `GraverNeverWaits`, `PlansCanBeCarriedOut` | incident, number of assets, confidence; findings, events, limits of a plan |
| | `CorrelationsHoldTogether`, `AlertsAreToldToAll` | list of findings, time window; set of handlers and alerts |
| | `EvidenceIsAgainst`, `NothingIsLost` | the two composed properties, from the theorems of `AnalysisProofs` |
| `AnalysisProofs` | `AlarmsCountTheWindow` | tasks, keys, thresholds, window |
| | `MailsAreOnlyAccused` | mails with finitely many URLs |
| | `AttacksSeen`, `BeaconsHeard` | tasks and events, thresholds, window; flows, pairs, tolerance |
| | `InvestigationsTell`, `ReportsStay` | tasks, events and findings; tasks, limits, number of attempts |
| `ServiceProofs` | `BreakerCountsStreaks`, `BreakerTripsOnStreaks` | threshold, probes, set of callers |
| | `CacheStaysBounded`, `EvictionIsLeastRecent`, `EveryWindowIsBounded` | size and set of keys; rate, capacity, set of clients |
| | `ConnectionsHaveOneOwner`, `ConnectionsAreSlots` | number of slots, set of clients and of addresses |
| | `LeasesNeverOverlap`, `LateReleaseTakesNothing`, `WindowKeepsLimit`, `NeverTwoConnected` | lease time, set of holders; limit, window, delay, finite set of requests; set of coroutines |
| | `TimelinesAreTrue`, `RecordedOnce`, `TellsTheStrongest` | set of incidents and entries; of runs; of analysts and opinions |
| | `ServicesAreIndependent`, `ServicesKeepConsistent` | the composition of all the services |
| `DetectionProofs` | `CompilationErrsOneWay`, `FailuresAreIsolated`, `FindingsAreTruthful` | set of conditions, selections and events; finite set of rules, severities, engines |

`ListProofs` has what the others need of lists, sums and folds: what a stable
sort and a selection of places give, how a left fold goes from one place to the
next, and a sum over a finite set as the cardinality of a set of units.

The arguments. *Window*: that no window is over the rate is not inductive; the
deque must also hold every acquisition younger than the window, in order
(`DequeCoversWindow`), since it is the deque the guard counts. *Pipeline*: the
number of slots is the cardinality of the calls that hold one, so the invariant
ties `active` to the stage of each call; the counters balance because each call
moves one unit between the same sets; `AcceptedWasTried` needs that the copies
in the topic and the failures together are the attempts made. `SlotsArePool`
uses the invariant to show each step enters, leaves or stutters in `SlotPool`.
*Dead letters*: the deque is the tail of a history numbered by the counter, so
what it drops is always the oldest. *Batches*: each step is one of the pipeline,
or leaves it alone, so the pipeline's invariant holds under batches too; with it
the report is a count of the items' ends, which never change again.
*Worker*: where the records in hand lie in the log (`Window`) and what the await
the loop is at has made true of the record in hand (`HandIsTrue`) make "nothing
vanishes" and "what is said is so" inductive across stops, crashes and restarts.
*Tracker*: `Structure` (types, who holds which object, how far a call is) holds
whatever Redis does; `Agreement` (record, object, index, metrics, copies sent and
budget) as long as no Redis command has raised, with one clause per place where
a call stands between two writes. Both need that calls on one task do not
overlap: the run `tracker_budget` shows that the budget fails when they do, so
`~Overlap` is the hypothesis of these theorems and no stronger one would be true.
*Execution*: the counters are cardinalities of sets of records, and a record is
concluded only by the execution that owns it. *Prioritization*: the weighted sum
grows with each of its parts, the tactic's part being a maximum over a set; the
cuts then fall, and what the kind of incident is told by is untouched. *Breaker*:
while it is closed the failure count is the true streak; other states keep what
was counted when it opened. *Cache*: the dict is bounded only because every key
in it is in the deque that eviction empties, so queueing and size are proved
together; as long as it is used in order the deque is the order of last use.
*Pool*: a connection is lent by its address, whose `id()` may be used again; the
invariant separates what is lent, what is idle and what `_in_use` still holds of
dropped connections. *Bucket*: what was spent since any instant and what is left
are bounded by what there was and what has been refilled, and the refill since
the last update is still to come. *Lock*: a holder cannot see the key; the
invariant says that while its lease, counted from when it asked, is not over, the
key has its token and at least as much time left. *Rate limit*: the set is trimmed
by requests that may be younger than those still waiting; what was allowed and
dropped is then a window older than the trimming request, and so at least a window
less the delay older than any request that still asks: in a window that much
shorter every allowed request was in the set that the last one counted. *Broker*:
whoever starts, stops or sleeps between attempts has the lock, and starts only
while the manager has no producer. *Incidents*: the last change of status in the
timeline is followed by none, which a stable sort keeps because only entries dated
ahead can move. *Evaluation* and *intelligence*: a cell or an answer is written
only by the step that owns it, so what is there is what was counted or told.
*Services*: the composition's step is a step of one service and stutters in the
others, so each service's theorems hold in it. *Sigma*: for a rule that denies
nothing the conditions counted are exactly those that hold, so "any" sees every
selection that holds, and "all" fires only when each of them does. *Findings*:
the fold of `add_match` is a recursive function over the subsets of the report;
that it has a solution is shown by giving one (the worst severity of each
subset), and that a finite report leaves it no other by taking a smallest subset
that disagrees (`WFMin` over the strict-subset order).

*Router*: the list of rules is always a sorted one, and a rule that is added
goes behind those of its priority; so the first that matches is outranked by
none. The three indexes agree because each is what the instances registered so
far make it. *Plans*: the actions are a concatenation of three lists, and that
of a host's cleaning is drawn from the same first few hosts as that of its
isolation, however long the caller's lists have grown. *Log analyzer*: the table
of a key is all of its failures from some place on, and no failure before that
place is in the window any more; a task's fold over its events keeps this and
the alarms true of it, and also when it ends half-way. *Groups*: the fold cuts
the sorted list into runs, so no place is in two groups and two findings of one
time are never cut apart; what is said to be shared is an intersection over the
members, and two addresses and a user in common are enough for the score
whatever else a group has. *Alerts*: those called are the handlers registered by
then and whomever they register meanwhile, which come behind; the counts add up
to the alerts because what they count is a partition; with the severity the
weight rises, and what it is multiplied with and added to does not depend on it.
*Mails*: a sum of risks is the cardinality of a set of units (`UnitsSplit`,
`SumsGrow`), so removing a URL removes units; each cut of the cascade then falls
or stays. *Indicators*: the claims that come first for a value decide what it is
taken for, and listed indicators come before fields, so that fields of the same
value cannot hide what is listed; a mean lies between its least and its
greatest. *Attacks*: the index holds every event that was ever read, so what is
related to a key is all of its events; a kind that is counted up to its
threshold is reported, since the first event of the task whose key decides is at
most the one in question. The chain is a fold over the sorted events; at each
place it holds exactly the stages up to that place when stages ascend with time.
*Beacons*: the times of a pair are a permutation of what was heard from it;
sorted and evenly spaced, each difference that is not zero is the gap, so the
sum of squares and the square of the sum agree and the deviation is zero.
*Investigations*: the timeline is a stable permutation of what was told
(`TimedTellsAll`); the fold that collects assets keeps a bijection between the
places of its list and the names seen; leaving an event out takes severe entries
and assets away and adds none, by an injection of what is left
(`NoMilderForMore`), so no cut of the severity rises. *Cases*: a piece's id is
the number of pieces before it, and a timeline is of the first so many pieces, a
prefix that later evidence extends (`CasesAreOfTheirTime`). *Reports*: a further
attempt finds the caller's list longer by findings that it already had; so the
first of the list, its set, the kind of report and each section's condition
stay, and what is listed keeps its prefix. *Agents*: as with the services, a
step of the composition is a step of one agent and stutters in the others
(`AgentsStepAlone`).

Assumptions are the named `ASSUME`s on the constants in each module, and TLC
evaluates them on the runs: limits are naturals, positive where the code would not
start otherwise; sets of requests and of rules are finite; model values for "no
record", "no list" or "no time" (`Absent`, `Unopened`, `NoTime`) are not themselves
records, lists or numbers; the findings that are weighed are in the ranges that
the agent's models validate; and for the agents a task's events, flows and findings
are lists of records with the fields that the code reads, their times integers.

Only model-checked: liveness under fairness (`BatchAnswered`, `FetchedIsConcluded`,
`ExecutionsEnd`, `EveryoneEnds`, `RecoversWhenHealthy`) and whatever needs
ENABLED, which TLAPS does not reach. All invariants of the passing runs are theorems. Induction over data is
replaced where it was needed: a sort, a selection, a sum and a fold are stated over
sets of places, and what holds at each place is proved over the naturals up to the
length (`UpTo`, `FoldGoes`); no theorem rests on a RECURSIVE operator or on
`SelectSeq` and `SortSeq`, which the provers see only as names.

## Not modelled, and why

Latencies and throughput in floats, Prometheus counters, log texts, PDF layout
and HTTP handlers hold no control. Parsing and normalising text enter as a
verdict, regular expressions and entropies as the signs they find. Wall clocks
are integers. Configuration values are constants.

The agents `ip_range_analyzer` and `vulnerability` are stubs that answer every
task alike. The checks of `audit/` are simulated by a hash of their ids. `qa/`
counts what it is told, `rag/` cuts text and compares vectors of floats;
`database/` and `models/` are tables, whose one rule that matters here, the
unique `event_id`, is part of `TelemetryWorker`. Of `alerting/` the alert rules
and the queue of notifications are stored and never read.
`ingestion/registry.py` is a lookup table, the collectors are loops around
`ingest_single`, and `schemas/` is validation.

## Plan

Done: ingestion, worker, tracker, execution, performance primitives, detection,
broker and Redis managers, threat intelligence, incidents, evaluation, registry
and router, nine specialized agents, correlation, alerting, investigations. The
modules map about two fifths of the lines of `backend/app`: all of its
concurrent core, and of the sequential rest what keeps state or decides.

1. Composition: findings of an agent through `CorrelationEngine` and `Alerting`
   to `Incidents`; the program has the parts, but no code that connects them
   yet.
2. `IngestionRegistry` with parsers as ordered matchers, once what they match is
   more than text; RAG chunking against a reference definition.
3. Abstract specifications still worth stating: a mutex for the lock of
   `RedisManager` with a fencing refinement, a task with a life cycle for
   `TaskTracker`.
