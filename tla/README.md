# Formal models of Alphora

Alphora is a research desk for US equities: a FastAPI service with background
workers (`src/services/api/app`), a Postgres database, a Redis queue, and a
Next.js front end (`src/apps/web`).  It produces briefs with language models,
keeps hypotheses and beliefs about them, and runs trading strategies against a
paper book or a broker, with people approving live orders.

This directory holds TLA+ models of the parts in which several actors touch the
same state, or in which a long sequence of steps must keep something true.  Each
is model-checked with TLC on small instances; twenty-two of them have proofs, checked
by TLAPS, for every value of their constants.

All paths below are relative to the repository root, `src/`; `app/` is short for
`src/services/api/app/`, `funnel/` for `app/services/strategies/funnel_research/`.

## Contents

| module | models | checked by | proved in |
|---|---|---|---|
| `ApprovalContract` | what the approval queue promises | as a property of `ApprovalQueue` | `ApprovalQueue_proofs` |
| `ApprovalQueue` | `app/services/approval_queue.py`, `app/api/routes/approvals.py`, `app/services/approval_expiry_sweeper.py` | `approval_*` | `ApprovalQueue_proofs` |
| `TrailManager` | `app/services/trail_manager.py` | `parts` | `Trading_proofs` |
| `StrategyRunner` | `app/services/strategy_runner.py`, `app/services/risk_caps.py` | `runner`, `runner_adoption` | `StrategyRunner_proofs` |
| `Judge` | `app/services/llm_judge.py`, `app/services/llm_judge_context.py` | `parts` | `Trading_proofs` |
| `BarStream` | the two streams of `app/brokers/alpaca.py` | `parts` | `Trading_proofs` |
| `Strategies` | `app/strategies/`, `app/services/strategy_indicator_window.py` | `parts`, `strategy_window` | `Trading_proofs` |
| `Backtest` | `app/services/backtest_engine.py` | `parts` | `Trading_proofs` |
| `RunLifecycle` | the run statuses and the moves between them | as a property of `ResearchRun` | `ResearchRun_proofs` |
| `ResearchRun` | `app/services/run_orchestrator.py`, `app/workers/tasks.py`, `app/api/routes/research_runs.py`, `funnel/core.py` | `run_*`, `parts` | `ResearchRun_proofs` |
| `LlmBudget` | `app/services/llm/client.py`, `app/services/budget.py`, `app/services/redis_lock.py` | `fanout`, `parts` | `Research_proofs` |
| `Fanout` | `runner.py` and `extraction.py` of `funnel/sector/` and `funnel/company/`; extends `LlmBudget` | `fanout`, `fanout_halt` | `Fanout_proofs` |
| `Briefs` | one brief from the first draft to its row (`funnel/macro`, `sector`, `company`: loop, verifier, judge, persist) | `parts` | `Research_proofs` |
| `Funnel` | the rows of a run: selectors, persisters, portfolio aggregation | `parts` | `ResearchRun_proofs` |
| `EventStream` | the event stream of `app/api/routes/research_runs.py` | `parts` | `Research_proofs` |
| `SourceClient` | `app/services/source_clients/`: token buckets, retries, cache | `parts` | `Research_proofs` |
| `Sources` | the ingesters of `app/services/ingestion/`, as the funnel calls them | `parts` | `Research_proofs` |
| `Ingest` | `app/services/ingestion/_persist.py`, `funnel/_ingest.py`, `funnel/company/evidence.py` | `parts` | `Research_proofs` |
| `Entities` | entity resolution, `app/services/entity_merge/core.py` | `parts` | `Research_proofs` |
| `Beliefs` | `app/services/belief*`, `app/services/hypothesis`, the routes that move hypotheses | `parts` | `Research_proofs` |
| `Counterfactual` | `app/services/evals/counterfactual.py` | `parts` | `Research_proofs` |
| `Watchlists` | watchlist routes and command, the research list, start of the runner service | `parts` | `Trading_proofs` |
| `Dataset` | `ml/`: features as of a bar, labels | `parts` | `Trading_proofs` |
| `PaperFiller` | `app/services/paper_filler.py`, `app/workers/paper_scheduler.py`, `app/api/routes/paper.py` | `paper` | `PaperFiller_proofs` |

`SumTheorems` has the lemmas about sums over finite sets that several of these
proofs need.

`MC*` modules give TLC its constants and symmetries and choose between instances;
`MCParts` is explained under *What the runs show*.  A definition that is called a
mutant in its comment, or that stands just before the one it resembles and is not
used by it (`DecidableStale` before `Decidable`, `LockOrderUnlocked` before
`LockOrder`), is the same operator with a plausible bug, kept so that each
property can be shown to catch one.

To reproduce, in this directory:

    tlasany ApprovalQueue.tla
    tlc -workers 2 -config approval_safety.cfg MCApprovalQueue
    tlapm ApprovalQueue_proofs.tla

## How the parts interact

Research: the API creates a run and a job; a worker carries the job through the
stages of the funnel (`ResearchRun`).  The macro stage ingests evidence (`Ingest`
for the statements, `Sources` for the documents, `SourceClient` for the requests);
sectors and then companies are worked on by fan-outs (`Fanout`), each item with
its budgeted calls (`LlmBudget`), its names resolved to entities (`Entities`), its
hypotheses and relations (`Beliefs`), and its brief (`Briefs`).  `Funnel` is what
remains of all this in rows, from stage to stage and attempt to attempt.
`EventStream` is how a page watches it.

Trading: the runner service looks for its list and spawns runs (`Watchlists`).  A
runner (`StrategyRunner`) takes bars (`BarStream`), asks its strategy for a
target (`Strategies`), moves the trail (`TrailManager`), asks the judge (`Judge`),
which reads what research wrote, and the approval queue (`ApprovalQueue`), and
sends the order to the broker.  Back-tests (`Backtest`) ask the same strategies,
the paper book (`PaperFiller`) takes orders by API, and `Dataset` prepares what
offline models learn from.

## Inventory

The components of the system, what they keep, what they do, and what makes them
correct.  `PROJECT.json` has the same list with the sources of each, and the
list of hazards, each at the line of code where it bites.

| component | state | operations | hard | correct if |
|---|---|---|---|---|
| approval queue | `pending_approvals` rows; a coroutine per request | request, approve, reject, sweep | three writers without a common lock; a deadline that passes while somebody decides; runners that die | a live order is released only by a person and in time; one call wins; the record says what was released; every wait ends |
| trail manager | mode, entry, stop, watermark | one update per bar | long sequences, moving thresholds, two sides | the stop only tightens, a promotion locks the entry, the exit reason says what happened |
| strategy runner | context (position, trail, throttle), mirror rows; the broker's position | adopt, process a bar, cancel, fail | every gate can drop an order after the trail has moved; partial and late fills; death at any await and restart | its position is the broker's; exposure within the cap; no flip; a stopped position is closed; no reentry on the closing bar |
| LLM judge | `judge_verdicts` rows | gather what research knows, call, parse, save, act | research writes between the reads; the call fails, or answers nonsense | no live order without a verdict given on research |
| broker streams | bounded queue, two tasks | callback, take, end | a busy reader, an end that races the last items | bars in order and once; the oldest are lost first, and only from a full queue |
| strategies | a window of bars | a target per bar | the window is shorter than the day, empty after a restart, bars are missing | nothing held overnight by who needs regular hours; exits before the hour have a cause |
| back-test engine | open trade, pending target, equity | one step per bar, report | no look-ahead, costs on both sides, what is open at the end | equity is cash and market value; report and trades agree |
| run lifecycle | run status, stage artifacts, RQ jobs | create, cancel, resume, claim, stage, pause, kill, fail, succeed, failure callback | read now and write later without lock or version; two jobs of one run; deaths | no run stranded; halts obeyed; terminal statuses final; runs move on |
| LLM client and budget | `llm_call_logs` | call, sum, decide, log | the lock is per run, the daily cap is not; cancellation inside a call | total cost within the caps up to calls in flight |
| fan-outs | tasks under two semaphores | start, extract, synthesise, judge, save, halt | a halt among finished, running and waiting items; orphaned tasks | nothing starts after a halt; a reached cap reaches the run; the fan-out ends |
| briefs | draft, verdict, row | regenerate, judge, refresh, save | which draft the verdict is about; failures between | verified means verified; the verdict is about what is saved |
| rows of a run | brief and portfolio rows | select, persist, aggregate, resume | duplicates, clashes, attempts after a halt | the portfolio lists what there is; selections are bounded; failure only with nothing to show |
| event stream | cursor of a connection | poll | events committed behind the cursor, bursts, the end | every event is sent |
| source clients | buckets, cache | acquire, send, retry | buckets shared by processes; stale reads | rate within burst and refill; the loop ends |
| ingestion | evidence rows and chunks | insert or get, replace, materialise | concurrent writers of one document, conflicts, live documents | chunks are those of the stored hash; a document is lost for a cause only |
| sources | document ids, profile fields | fetch per stage | answers that move, are revised or restated under an id; companies with no entity for their ticker, or two | feeds that move on are never in conflict; no old version is used unnoticed; the one entity has the last profile |
| entities | entities, aliases, relations | bootstrap, resolve, create, merge | two sessions at once; rows of one name; merges between resolution and commit, and before the next bootstrap | one live entity per name; merges stick; a row is one entity; relations are between live ones |
| hypotheses and beliefs | statuses, relations, beliefs | extract, judge, recompute, transition, sweep, supersede | overlapping sessions; a halt between relations and beliefs | beliefs agree with relations; archived only when gone; the sweep judges what it was shown |
| counterfactual gate | an outcome | perturb and compare | thresholds at their boundary | a brief fails for its first call only |
| watchlists | lists, members, runs | create, edit, rebuild, find or create, spawn | nothing unique in the schema | a member once, one list by the service, which runs its ticker |
| data sets | rows of a build | features and labels as of a bar | learning from the future | a row never changes in a later build |
| paper book | cash, positions, orders | submit, tick | two schedulers, lock order, crashes, missing quotes | booked once and in full; books balance; nothing negative; orders settle |

### Not modelled

| component | why |
|---|---|
| settings, secrets, logging | configuration, encryption primitives, text |
| web front end | presentation; the state it shows is the API's |
| data health and data sources | periodic probes of single tables and configuration rows: one writer, nothing depends on an earlier state |
| read endpoints, plain CRUD, response schemas | no state, or one row by one statement |
| provider clients above `SourceClient`, prompts, pricing tables | building URLs and texts, parsing answers |
| indicators, scores, feature columns from the bars alone | floating-point formulas; the models take any value they may give |
| leakage harness | a weighted score of two decisions and a mean over cases, held against two thresholds; the scores are floating-point sums, which the integers of a model would not show |
| ML storage, training, command lines | files and numerical libraries |
| ingesters without a caller (gdelt, finnhub_news, fed_press, cme_fedwatch, polymarket price history, SEC company tickers), `llm_disambiguator` | nothing in the service calls them |
| Redis form of the budget lock | off by default; its expiry is listed as a hazard |
| duplicate hypotheses by similarity, screening scores | embeddings and weights |

## The models

Every step of a model is what one transaction or one stretch of code between
two awaits does that another actor can see.  Database rows are read and written
at READ COMMITTED, as Postgres is configured by default; none of these tables
has a version column.

### ApprovalQueue and ApprovalContract

`row[r]` is the row of a request, `runner[r]` where the coroutine that asked is
(`idle`, `sleep`, `poll`, ... and what it finally returned), `handler[h]` an
endpoint call in flight, `sweep` the rows the sweeper has selected and not yet
flushed.  `now` is the wall clock in ticks; `ExpiresAfter` is the deadline.

| action | code |
|---|---|
| `RequestPaperNow`, `RequestPaperDelayed`, `RequestLive` | `request_approval`, by mode and delay |
| `Wake`, `ReadDecided`, `ReadPending` | one turn of the poll loop, or the end of the paper delay |
| `SelfApprove`, `SelfExpire`, `SelfExpireLost` | the runner's own writes; the last is rowcount 0 and a new read |
| `DecideStart`, `DecideUpdate`, `DecideReread` (`DecideLookup`, `DecideExpire`) | `_decide`: the clock is read, the conditional UPDATE, the lookup that tells 404, 409 and late expiry apart |
| `SweepSelect`, `SweepWrite` | the sweeper's SELECT and its flush by primary key |
| `RunnerCrash`, `Tick` | a runner dies; time passes |

A handler reads its clock before its UPDATE, so a decision can be written one
tick after it was timely; the model keeps the two apart.

`ApprovalContract` says what is promised without saying how: a request is
filed, decided once, and the requester's answer is that decision or an expiry.
`ApprovalQueue` implements it (`ImplementsContract`) in the default
configuration.

### TrailManager

The state is a record like `TrailState`, prices and thresholds are integers
(the comparison and the additions of `update_trail` are all that matters), each
step takes any bar and any thresholds from the given sets, since the ATR the
thresholds come from changes from bar to bar.  `TrailAssumption` asks of the
thresholds what the strategies give: positive, and distance at most trigger.

### StrategyRunner

One runner on one ticker.  `ProcessBar` is `_process_bar` up to the first await
that others can see, for any bar (each later than the last, or the last again,
since the stream may repeat one), any strategy signal, any trail outcome, on the
last minute of the day or not.  `Approved`/`NotApproved` is the approval,
`PlaceOrder` the broker call, `Record` the mirror row, the position and the
trail.  `BrokerFill` is a fill the runner does not see; `Crash`, `StepRaises`,
`Stop`, `Cancel` and `Start` end and begin runs; `Adopt` is what a new run
takes over.  `RiskPasses` is `check_pre_order`: closing orders pass every
opening cap, opening ones need room under the share cap and the throttle.  The
two caps that need prices (notional, number of open positions) only ever drop an
opening order, as `WantedOrder` may itself by not asking.

The trail is `none`, `armed` or `stopped` here: `TrailManager` has the prices.
`Outcomes` and `Gates` say which answers of the broker and which vetoes a run
allows, so that what the code handles and what it does not can be told apart.

### Judge

`evaluate` for one proposed order: `FindEntity`, `GatherHypotheses`,
`LatestThesis` and `LatestSectorBrief` are its reads, between which `Research`
may write anything; `VetoSparse`, `VetoFailed` and `CallAnswers` are the three
ways a verdict comes about, `PersistVerdict` saves it, `ActOnVerdict` is what
`_judge_gate` of the runner makes of it.  `Responses` is what the model may
answer, malformed sizes and unknown decisions included; an answer the parser
itself raises on (a decision that is a list, a size no float can hold) leaves
`evaluate` without a saved verdict (`AnswerRaises`), and no order goes on.

### BarStream

The generator of the Alpaca adapter.  `OnBar` is the connection's callback, which
throws the oldest bar away when the queue is full; `Wait`, `Get`, `Yield`,
`Proceed`, `Cancel` and `Drain` are the generator and the task that takes from
the queue for it; the connection may return or raise (`RunOver`) at any time.
The stream of order updates is the same code and is mapped to the same actions.

### Strategies

`OrbSafe`, `GapFill`, `Ict`, `MacdRsiAdx`, `BbRsi` and `ConfluenceLong` are the
targets each may give on a window of bars; `Appended` is the window of 250, cut
here to four; `BarArrives` may skip minutes and reaches the other side by way of
flat (`Towards`); `Restart` empties the window and keeps the position, `Flattened`
is the runner's forced close at the last minute.  What indicators say is any
choice; the hours, the opening range, the prior close and what is remembered from bar to bar are exact.

### Backtest

`simulate` step by step: the target asked for at one bar is filled at the next
one's open (`Opened`, `Closed` with `Fill` for the slippage), the last bar closes
what is open (`Finish`; `FinishMarked` is its mutant), the report is what
`persist_backtest_result` computes.  `cash` is not in the code: it is the
reference, the sum of what the fills cost and brought.  `BarPrices` are the opens
and closes a bar may have.

### ResearchRun and RunLifecycle

`row` is the status, `jobs` the number of jobs queued, `done` the stages with
an artifact, `work[w]` what each worker has in hand (the stage, the status it has
read or will write, the `fail` calls still to come), `user[u]` a request in
flight.  `UserRead`/`UserWrite`, `PauseRead`/`Write`, `FailRead`/`Write`,
`FinishRead`/`Write`, `Load`/`Claim` are the reads and writes of each transition;
`Ask` is the check in the route before it.  `Check` is `_run_is_halted` at a
stage boundary, `StartStage` finds or does not find the artifact, `Complete`,
`BudgetPause`, `BudgetKill`, `StageFails` are the outcomes of a stage,
`JobDies` the time-out or death after which RQ calls the failure callback
(`OnFailure`).  `RunLifecycle` is the status diagram: which moves the
orchestrator makes from which status.

### LlmBudget and Fanout

`LlmBudget` is one budgeted call: `Complete` asks OpenAI, `ReadSums` takes the
run's lock and sums what run, stage and day have cost, `Persist` decides
(`Evaluate`), logs the cost (`Logged`) and lets go; `CallFails` and `Cancelled`
are the ways out before.  A cancelled call is billed and not logged, as in the
code.

`Fanout` extends it with the tasks: `Start` under the item semaphore, `Fetch`,
`StartChunk`/`ChunkDone`/`ChunkFails` under the chunk semaphore of the item,
`Synthesise`, `Regenerate`, `Verified`, `Judged`, `Save`.  `Halt` is a budget
exception on its way through the orchestrator, `ItemHalts` the moment it leaves
the item's task and `_await_with_halt_cancellation` cancels the others.  `gather`
passes on the first exception of a chunk and leaves its other tasks running:
these orphans are what `Children` does not contain.  `UserCancel` may come at any
time, `JobEnds` cancels what is left.

### Briefs

One brief: `Synthesize` (or `SynthesisFails`, `Halt`), then `Accept`, `Regenerate`
or `KeepLast` by the verifier, `RunJudge` is the advisory verdict, `Refresh` the
macro brief's answer to a judge that flagged it, `Save` the row.  A draft is the set of
claims it cites and of names it gets wrong, so that `Valid`, the verifier of the
kind in question, has what it compares.

### Funnel

The rows of a run.  `WriteMacro`/`LoadMacro` begin an attempt, `CheckItem` is an item
of a fan-out finding its row, or nothing to work on, `SaveSector` and
`SaveThesis` write a row or clash with one, `SectorsOver` and `CompaniesOver` are
the ends of the fan-outs with the selection of the next items, `WritePortfolio`
aggregates; `Pause` and `Resume` end an attempt and begin one.  The selectors,
rank keys, coverage counts and the rollup of verification are operators.  `Sorted`,
which they share, is the list of a set by keys that are compared like tuples
(`Precedes`): at each place stands the element that as many others precede.

### EventStream

An event gets its time in `Flush` and is seen after `CommitEvent` (`EndRun` for
that of the transaction that ends the run); `ReadRun` and `ReadEvents` are the two
reads of a poll, which a commit may come between; `Batches` are the possible
answers of the query with its cursor, its `not in` of the ids seen, its order by time only, and its limit.

### SourceClient

`kind` chooses the bucket.  Local: an asyncio lock is held over refill and sleep.
Redis: what was read under WATCH is written only if nobody wrote meanwhile
(`valid`).  Each request looks into the cache, acquires a token, sends, and then
is done, fails, or backs off and tries again at most `MaxRetries` times.

### Sources and Ingest

`Sources` follows one source through successive runs.  `answer` is what the
source would say now, `DocumentOf` the id its ingester makes of an answer, with
the truncation to 200 characters where the code truncates; `AnswerChanges` changes the
answer the three ways that matter to an id: the list moves on, what it says is
revised, a dated field is restated.  Each stage that calls the source is an
action of its own.

A company's profile is also written into the entity that has its ticker, and only
if there is one: `holders` counts the entities with that `ticker_normalized`.  The
column is set by the registries of SEC, Polygon and Tiingo alone (`Registered`),
each of which finds its own rows only, so two of them leave two holders; entities
made by resolution have none, and companies are resolved by name or alias too.
Without a holder the profile is ingested and nobody is told (`Backfilled`); with
two the lookup raises inside the transaction, the evidence is rolled back with it,
and the company stage warns (`Undone`).  `EntityCurrent` is therefore a statement
about a company with exactly one holder, since the time it had one.

`Ingest` has the statements of one ingestion: `Insert` in a savepoint, `Lookup` by
document and `ByHash`, and for live documents `DeleteChunks`, `Update` and the
chunks; several stages work at once and wait for each other's row and key locks as
Postgres makes them.  A stage asks its sources in the order of `Docs`; `todo[r]`
are the places in it that are left.  `Raised` is what each stage does with an
exception, `Materialise` what it goes on to read.  That a payload is lost for a
cause only (`LostForCause`) is said of the step that loses it: the row that was in
the way may be replaced afterwards.

### Entities

Every run begins with a bootstrap of the GICS sectors: `LookUpRegistry` finds the
rows that are missing, by external id and among merged entities too, `InsertRow`
adds them one by one and `CommitRegistry` commits.  The registry has two rows of
one name (`gics_industries.json`: Energy is 10 and 1010, Materials 15 and 1510,
Utilities 55 and 5510), so these names are ambiguous from the first bootstrap on,
with no sessions overlapping.  Then
two sessions resolve candidates by alias, external id and similarity over the
rows they can see (`Visible`), `CreateEntity` makes a new one and
`PersistRelation` a relation;
`Merge` is the administrative merge with the rewiring of relations and the move
of aliases.  Nothing in the service calls the merge yet, only its tests do; two
merges at once are not modelled.

`NamesSound` says: a name that the registry does not give to two rows
(`ListedTwice`) has one live entity, unless two sessions created it at once;
merges stick; bootstrapping again brings no merged row back (`RowsOnce`: all that
carry the id of a row are one entity in the end, unless two bootstraps
overlapped); relations join live entities.

### Beliefs

`AddRelation`, `Load`, `FlushBelief`, `Commit` are a fan-out item's session from the
relation to the recomputed belief; `SelectInputs`, `Judge`, `Recompute`,
`HaltPass` the belief update pass; the editors are the sweep, event resolution,
the two transition endpoints and supersession, each a read and a later write.  A
belief is represented by the relations it was computed from, so that "agrees with
the relations" can be said without the formula.

### Counterfactual

A pure function: `RunGate` applies the perturbations to every decision in the
bounds and keeps the outcome: a perturbation counts if it is not the decision
itself, by its place.  `FailsForTopCall` is a reference definition of when
it may fail.

### Watchlists

`CreateByUser` creates a list under any name, the service's own included
(`Watchlist.name` is not unique), `Add`, `RemoveByApi`, `RemoveByCommand` edit
members, `Delete` and `Replace` rebuild a research list, `Find`/`FindNone`,
`Create`, `Spawn` and `Run` are a start of the runner service, `Dies` its end at
any point.  What a session has looked at (`session[s].seen`) is acted on a step
later.  `lists` are those of the service's
name, `byUser` those among them a user made; `OtherLists` are research lists of
other names.  `OneList` counts what the service created: with a user's list beside
its own every later start raises.  `RunsMine` lets the service run a foreign ticker
from a list that a user created or took a member out of, and from no other.

### Dataset

Bars and events arrive in any order the world may give them; `Features` is the
join as of a bar, `Label` the first barrier touched in the session, `BuildRows` what
a build gives now.  There is no state in the code: the question is whether the rows
of one moment are rows of every later moment.

### PaperFiller

One portfolio with cash, a position per ticker, orders numbered by age, and a
record per scheduler.  `Select` takes the oldest `Batch` open orders,
`LockOrder` takes the row lock and looks at the status again, `GetQuote` /
`NoQuote` the quote, `LockPortfolio` the portfolio lock and the read of the
cash, `Buy` / `Sell` / `Reject` the booking and the commit that frees both
locks.  A lock is held when the holder's program counter says so.  `Crash` ends
a tick anywhere; the transaction is rolled back.

## What the runs show

| run | properties | states (distinct) | bounds |
|---|---|---|---|
| `approval_safety` | `TypeOK`, `LiveReleaseIsHuman`, `OneWinner`, `EveryRequestAnswered`, `LiveRowsSettle` | 365 000 | one request of either mode, two endpoint calls, deadline 2 of 4 ticks, paper delay and sweeper on, runners may crash |
| `approval_contract` | `ReleaseMatchesRecord`, `HumanDecisionFinal`, `ImplementsContract` | 128 000 | as deployed by default: no delay, no sweeper |
| `runner` | `RunnerInv`, `NeverFlips`, `PaperStopFlattens` | 414 000 | a live runner with all gates, orders filled, refused or lost at once, crashes, 2 bars, 3 orders, 2 runs; or a paper one without vetoes, orders filled at once or later, 4 bars, 4 orders |
| `run_races` | `RunInv`, `HaltBounded` | 1 312 000 | two workers, two clients, cancel and resume, three stages, two jobs |
| `paper` | `PaperInv` (`TypeOK` and `Solvent`), `LedgerBalances`, `BookedOnce`, `FairOrdersSettle` | 220 000 | two schedulers, one ticker, three orders of 1 or 2 at prices 1 or 2 (of 1 where orders must settle), batch 2, cash 3, crashes, missing quotes |
| `fanout` | `FanoutInv`, `OnlyOrphansSpend`, `CapReachesStatus`, `FanoutEnds` | 335 000 | two items of three chunks, two at once of each, one regeneration, every call costs one, caps 6 and 7, stage cap 3 |
| `parts` | 19 properties, one or more of each part | 606 000 | one part at a time, see `MCParts` |

`parts` checks the modules that share no state with one another.  `MCParts` has the
variables of all of them and a variable `part`, chosen at the start, that says
which one moves: the states add up and do not multiply.  It extends the seventeen
parts with an assumption or a proof of their own, and their properties are checked as
their modules state them; a part that does not move stays in its initial state, of
which they are true.  The other one, `ResearchRun`, is an instance, whose property
says `part = ... =>`.  The events of `EventStream` differ
in nothing but when they happen, so that each of them is sent is checked of the
first.

Deadlock is checked in `paper`, whose schedulers go on for ever.  In the other
models the system may rightly stop (every request is answered, the run is settled,
the fan-out has ended), and the liveness properties say where it must not.

Why the bounds are enough.

* Approval rows interact only through a sweep that takes several at once, which a
  sweep of one row and of none already brings out; two handlers are the least that
  can race, and a third repeats what the second does, since all go through one
  conditional UPDATE (the proofs do not bound either).
* Orders of a runner go one at a time, so three are an entry, an exit and another
  entry, with a restart between any two; sizes 2 and 3 against a cap of 2 give an
  order that fits, one that does not and, with a throttle of one per minute, one
  that must wait.
* A research run has at most two jobs because a pause can be resumed while the
  paused job is still ending; a third needs a second such overlap.
* Three paper orders with a batch of two leave one outside the batch, and make the
  sequence buy, sell, sell in which the second sell was accepted against shares
  that are gone; sizes and prices of 1 and 2 and cash of 3 give buys that fit alone
  and not together.  The book whose orders must settle has orders of one share:
  size decides nothing about waiting.
* Two items of a fan-out, with three chunks of which two run at once, are the least
  with an item that halts while the other has a running chunk, a waiting chunk, and
  an orphan.  The caps let a halt come in extraction, in synthesis (by the stage)
  and in the judge, and a kill after a pause.
* Sources answer three changes, which is enough for an answer to return to a former
  value; a list of three items with an id that holds one key makes truncation bite.
* Two sessions (of entities, watchlists, ingestion, beliefs) are the least that can
  race.  The registry of the entities has two rows of one name, next to a name that
  is near; four entities are these two and two that resolution creates, enough for
  a chain of merges over the rows and a second bootstrap after it.  No candidate
  brings an external id of its own there; the proof does not ask that.
* Two lists of the service's name are the least that make it raise: its own and one
  by a user (`MaxByUser` is 1), or two of its own.  `OtherLists` is empty: what is done
  to a research list is done to one of the service's name, which a user may give the
  source research.  The proof bounds neither.
* Days of seven minutes, a window of four and thresholds inside them keep the order
  of the code's hours (range, morning, cut-offs, flat, close): a window that is
  shorter than the day is the point.  Two days show what is held overnight.
* A queue of two and five bars overflow twice; the proof is for any size.
* Three sectors, one without constituents, one called twice, and four ideas of
  three companies are what it takes for every clash and every skip of the funnel.

### Disagreements between the code and what is said of it

Five further runs each show one, with a counterexample; `PROJECT.json` quotes the
lines.

* `approval_sweeper_overwrite`: the sweeper flushes what it selected by primary
  key; a decision made in between is turned into an expiry (the runner that
  asked may already have acted on it).  The sweeper is off by default.
* `runner_adoption`: a restarted runner does not see orders still working at the
  broker, enters again, and both fill.
* `run_cancel_lost`: a cancel committed between a worker's read and its write is
  overwritten, and the cancelled run runs on.
* `fanout_halt`: after an item failed by one of its chunks, its other chunk tasks
  are orphans; a budget halt of another item does not cancel them, and they go on
  calling OpenAI.
* `strategy_window`: the opening range falls out of the window of 250 bars, and
  `orb_safe` goes flat hours before its `flat_at`.

What follows was met while modelling.  The models contain it; the properties
either name it as the exception, or the runs choose constants under which it does
not occur.

Trading:

* With `Mode = "live"` and `Gates = {"judge"}`, `StopFlattens` fails: the judge
  may veto a closing order (`app/services/strategy_runner.py:555`), also because
  its own call failed or the day's budget is spent; the trail is `stopped` by then
  and never asks again, so the position stays open without a stop.  A refused or
  expired approval does the same.
* With `"partial"` among the `Outcomes`, `RunnerInv` fails: a market order
  reported as partially filled leaves `current_position` where it was
  (`app/services/strategy_runner.py:670`).
* `gap_fill` loses the prior close from the window in the early afternoon and then
  leaves and enters again; after a restart the window is empty, so an adopted
  `orb_safe` position is closed at once; `ict` and `macd_rsi_adx` may enter on the
  last minute's bar and hold overnight; the UTC hours of the latter are those of
  summer time only.
* A second company with the ticker of a researched one, resolved with more
  confidence, hides its research from the judge, which then vetoes.  A sector
  brief is looked for only through a thesis, so the clause of `is_sparse` about it
  never decides.
* A list of the runner service with its ticker twice makes every later start raise,
  after it has inserted two more pending runs; two starts at once create two lists.
  Lists are found by name, and names are not unique: a list that a user creates
  under the name of the service is taken for its own, with whatever ticker it has,
  and one beside its own makes every later start raise.

Research:

* A job that paused its run at the macro or the portfolio stage goes on to fail
  it (`funnel/core.py:245`), which hits a run that was resumed in between.
  Queued to failed is a move of the lifecycle, so `ImplementsLifecycle` does not
  object.
* `pause` raises on a run that is already over, and then that exception fails the
  item in place of a halt: the other items are not cancelled.
* A flagged macro brief whose answering draft fails or cannot be parsed fails the
  whole run, although a verified brief was in hand.
* A resumed run selects companies anew, so theses may exceed the limit in sum; a
  portfolio row that was written before a pause stays as it is; the `selected`
  counts of its coverage count rows.
* A finished run with more than a batch of unsent events sends only the first 100;
  events committed behind the cursor are not sent.
* FRED's document id is constant and Kalshi's documents are live but ingested as
  archival, so a changed answer makes the macro stage fail; Polygon's aggregates of
  a second run of the day are lost to a conflict; SEC filings of a company are
  lost from their first change on; profile fields that return to former values
  stay at the ones in between.
* The belief of a hypothesis lags after a halt of the belief update pass, because
  what it judged is filtered out when the run is resumed; and when two items add
  relations to one hypothesis at once.  `valid_until` is set nowhere.
* Two sessions that create one name make it ambiguous for good: every later
  mention creates another entity.  So it is with Energy, Materials and Utilities
  from the first bootstrap on, each being a sector and an industry group of the GICS
  (`services/api/data/gics_industries.json:6`, 9 and 46).
* A company's profile reaches its entity only if a registry has given that entity
  its ticker, and no registry but the GICS is loaded at run time; if two
  registries have, every profile of the company is rolled back with its evidence.
* The counterfactual gate looks at the first call only; a quote without any call
  fails.
* The day's budget is not under the lock of a run (`DailyOvershoot` says by how
  much it may be exceeded).

## Fairness

* `ApprovalQueue!FairSpec`: time passes, a runner's poll loop goes on (asyncio
  wakes a sleeper), the sweeper's scheduler ticks.  People need not decide, and
  runners may die: a crash is never forced.
* `StrategyRunner!Fairness`: the task, once it has an order in hand, finishes it
  (the approval ends by expiry at the latest, the broker call returns, the row is
  written).  No fairness on bars or on fills: `StopFlattens` says that a position
  whose stop was hit is closed, or is being closed by an order the broker has.
* `MCParts!Scheduled`: an open connection polls (`StreamSends`), and a worker with
  a job goes on, because RQ's job time-out ends every stage, as do requests in
  flight (`LifecycleSound`).  Nobody has to resume or cancel, events need not be
  written, and there is no fairness on deaths.
* `Fanout!FairSpec`: some task of the job that can go on does (asyncio's loop
  runs what is ready, OpenAI answers or its client times out).  Weak fairness of
  the job as a whole is enough: every task has finitely much to do.
* `PaperFiller!Fairness`: each scheduler ticks (weak fairness on `Select` and
  `TickOver`), and, since Postgres grants a lock to a waiter in turn and a crash
  may take the turn away, strong fairness on the locked steps: a scheduler that
  is again and again able to go on does so, it does not crash every time, and
  the quote service (a stub that always answers) does not fail every time.  An
  order of a ticker without any quotes would hold its place in the batch for ever.

## Proofs

Eight modules hold theorems, each for all values of the constants under the
assumptions the component states.

`ApprovalQueue_proofs`.  `LiveReleaseIsHuman` is not inductive: that a live row
is approved only by a person needs that an approval by `auto` is a paper row's,
that a runner that reads again after a lost update finds a decided row, and that
rows exist for runners that wait.  `IInv` adds `RowsExist`, `LiveRows` and
`RereadDecided`.  `TypeCorrect` and `LiveRelease` follow for every
configuration.  `OneCallWins` needs in addition that the row a winner decided is
decided and stays so, whatever the sweeper and the delayed paper approval write
over it (`DecidedStays`), so that no second conditional UPDATE finds it pending.
Under `~SweeperEnabled` and `~PaperDelay`, `QuietInv` and `SignedRows` say that
nobody writes without a condition; from them `ContractImplemented` (each step is a
step of `ApprovalContract` or a stutter), `RecordKept` and `HumanDecisionsKept`.
The run `approval_sweeper_overwrite` shows that the first assumption cannot be
dropped.

`StrategyRunner_proofs`.  `TypeCorrect` and `NoReentry` hold for any caps, sizes,
gates, outcomes, crashes and restarts.  That no position is opened on the bar that
closed one speaks of two orders of the past, of which the context keeps one number,
`last_exit_bar_ts`: `ExitsKnown` says what it knows of the orders of this run,
`OpeningLater` that an opening order in hand is of a later bar, `InHand` and
`BarSeen` which order and bar are in hand.

`RunnerSafe` is `RunnerInv`: the position is the broker's up to what still works
there, exposure stays within the cap, a trail is there exactly with a position.  Its
hypothesis `Foreseen` says that no fill is partial, and that the broker answers at
once (`AtOnce`: a full fill, a refusal, or no order at all) or the runner is not
started a second time.  Neither half can be left out: with a partial fill the code
leaves the position where it was, and a restart with an order still working is what
`runner_adoption` shows.  The invariant `BookInv` adds what the orders of this run
still have to bring (`Booked`, a sum over the orders, from `SumTheorems`), that an
order in hand fits the position (`OrderFits`), which rows may still be working
(`WorkingRows`), and that a position is watched (`Watched`).
`ExposureMovesViaFlat` (`NeverFlips`) needs `AtOnce`: an order that fills after the
next one was sent may well carry the broker's position through zero.

`ResearchRun_proofs`.  `NoRunStranded` is the hard one: at the end of its job a
worker that finds the run queued leaves it, and relies on whoever queued it.
`QueuedServed` says who that is: another job in the queue, a request about to
enqueue one, or a worker that is not about to leave.  `HaltIsBounded` needs only
what a worker in each phase may have counted (`WorkOK`): a stage is begun late
only by a worker that had checked before the halt.  Both are for any finite set of
clients, any number of workers and any funnel.  `LifecycleImplemented` is the
refinement: each step is one of `RunLifecycle` or a stutter, if there is one worker
and one client that does not cancel (`Alone`, the configuration in which the code
may be trusted with its reads; `run_cancel_lost` is what a cancel does).  What a
job or a request has read is then still true when it writes (`AgreeInv`): a claim
of a queued run finds it queued, only a live run is failed, only a paused one
resumed.

`FunnelIsSound` is the other half of `ResearchRun_proofs`: what the rows of a run say
of one another, for any briefs, any resolution of ideas to entities, any limits and
number of attempts.  It assumes that convictions and ranks are numbers and that a
verdict is one of three (`FunnelAssumption`).

* The lists come first.  Keys of one length are totally ordered (`PrecedesOrders`),
  so each element has a place of its own below the number of elements
  (`PlacesDiffer`), and as many places as elements leave none empty: `SortedLists`
  says that `Sorted` has each value once and by rank.  From it follow what
  `select_sectors` and `select_companies` return (`SectorsSelected`,
  `CompaniesSelected`) and that the portfolio lists every row (`SectorsListed`,
  `CompaniesListed`).
* `FunnelSound` is not inductive.  That an attempt adds at most `MaxCompanies` theses
  needs that each thesis of it is of an item the fan-out was started with
  (`ThesesOfAttempt`, `PickedKnown`): distinct entities of at most so many items.
* That a fan-out fails only with nothing to show needs what the tasks say of the rows
  (`RowsTold`): of a row, either no task has failed or another has written it, so if
  all tasks failed there is no row.
* That an old portfolio misses only rows of later attempts needs that a portfolio
  found before the last stage is of an earlier attempt and lists rows that are still
  there (`PortfolioKept`), and that its macro brief is (`MacroFirst`).

`PaperFiller_proofs`.  `Solvent` needs that the cash a scheduler holds in its
session is the cash of the row, which holds because of the portfolio lock; `IInv`
states it (`CashCurrent`) together with: at most one scheduler is booking
(`OneBooking`), held orders are open and held by one (`HeldIsOpen`,
`HeldApart`), batches name orders that exist (`BatchKnown`).  `Solvency`
(`PaperInv`) and `BookingHappensOnce` follow for any number of schedulers,
tickers and orders.  `BooksBalance` is `LedgerBalances`: with the second of
them, a step either leaves the filled orders as they are or fills one more, whose
shares and price are what the position and the cash change by.

`Fanout_proofs`.  `MoneySound`, `OrphansOnly` and `CapStops` from one invariant, for
any items, chunks, limits, prices and caps (a hard cap of zero is left out: such a
run is over its cap before its first call, and nothing looks at the cap before
one).  `OneLock` is the mutual exclusion of the ledger lock, `SumsCurrent` what
it is for: the sums a call holds under it are the committed ones.  `Phases` says
for each phase of an item which of its tasks may have a call in hand: that is why
after a halt only the chunk tasks of an item that had raised by itself still call.
`CapReachesStatus` is inductive with these.

`Trading_proofs`:

* `StopTightens` and `TrailSafe` for all integer prices and all thresholds allowed
  by `TrailAssumption`.  The invariant relates stop, watermark and mode; the
  assumption distance <= trigger is what makes the step from break-even to trailing
  tighten, because the code does not compare there.
* `BarsStayInOrder`, for a queue of any size at least 1: the queue holds the latest
  bars without a gap, so the bar at place i is `arrived` less the length plus i, and
  a skipped bar is at least a full queue behind.
* `NoOrderIsBlind`, for any number of companies and whatever research writes: a
  decision is sound for the context it was made on, which is the one that is saved,
  and what the row says is what the runner acts on.
* `UniverseIsSound`, for any finite universe and any number of sessions and rows.
  The hard part is what a session may have overlooked: what it has looked for and
  not found is there now only if another overlapped with it (`SessionInv`), so unless
  sessions raced two rows of one list and ticker are one row (`OnceInv`), and unless
  starts of the service overlapped it creates a list only if there is none of its own
  (`OneInv`).  `MineInv` follows the service's own ticker
  from the list to the runs.
* `BacktestIsHonest`, for any prices, costs, bars and targets.  `Books` says that
  cash is what the trades made, less the costs of the open position so far and less
  what its shares were bought for; `Asking` that what is held or due was asked for on an
  earlier bar; `Reported` that the report is of the whole equity curve and nothing
  is held any more.
* `RowsAreStable`, for any bars, disclosures, session lengths, windows and lags of a
  day or more (the defaults are 1; with a lag of 0 a filing of the day would join
  bars of that day).  A bar has ended when it is there, and what is disclosed from now
  on is available from now on (`AvailableLater`), so that neither the features
  (`FeaturesFixed`) nor the label (`LabelFixed`) of a row move.
* `SignalsAreSound`, for any prices, any window and any restarts, if the hours in
  which orb_safe and gap_fill hold a position end before the close, as their defaults
  do.  What is held after the last minute was entered at it (`ClosedInv`), from flat
  (`TargetsAre`, `EntersInHours`); what
  orb_safe and gap_fill hold was entered after the opening range and after the wait
  (`EnteredInv`), so that on the same day only the cut-off, the fill of the gap or
  bars that the window has lost can end it.

`Research_proofs`:

* `BriefsAreHonest`, for any chunks, claims and number of regenerations: the
  invariant says for each phase how many drafts were asked for and which draft
  `brief` and `verdict` are about.
* `EntitiesAreSound`, for any registry, any number of sessions, candidates and
  entities.  `NameOnce` is `NamesUnique` for the rows that are not committed too.
  `RegistryInv` says that after a bootstrap every row has an entity (`CarriedInv`),
  that a row found missing has none and was found missing by no other session
  (`MissingInv`), and that nobody bears the name of a row before the row's entity
  (`RowNameInv`): resolution finds that name from then on.  The end
  of a chain of merges is a recursive function, of which the proof may use nothing but
  its equation.  The invariant (`ChainsEnd`) says that the equation has exactly one
  solution, and that it is live; a merge of two live entities keeps that true by
  moving the ends at the merged entity to the survivor (`EndsMoved`).
* `ClientIsSafe`, for any rate, burst, number of requests and back-offs: what has
  been granted since any moment, plus what is in the bucket, is at most a burst and
  what the rate has brought since (a sum over the moments since then).
* `DayIsBounded`, for any runs, callers, costs and caps.  The lock is per run, so a
  call may be decided on a day's sum that other runs have added to since.  Each
  caller of another run adds at most two calls to it, one that was decided on an
  earlier sum and one that is stopped by what it sees, and the last to read has seen
  all others' logs.  Finitely many callers are assumed.
* `EvidenceIsSound`, for any documents, contents and readers.  `HasFetched` says
  that what a reader is at it has fetched, `WritesRow` that the row it is about to
  write is there or missing as it read, `HasGot` that the rows it has got say what it
  fetched, `FindsAgain` that a reader which was alone still finds what was in its
  way; `Apart`, of two readers, that none adds the row the other is at (Postgres's
  key locks).
* `GateIsHonest`, for briefs with any calls.  A first call with an id of its own is
  the one its id stands for; if it has a direction, or a conviction of 0.2, flipping
  and lowering it both change the decision, and two of at most four is half.
* `BeliefsAreSound`, for any hypotheses, chunks, sessions and editors.  A session
  that missed no commit has read every relation but its own (`WritersKnow`), and
  the row lock lets one at a time go on from its UPDATE to its commit; the pass works
  when no fan-out does (`PassAlone`).  What an editor was shown still holds unless
  somebody wrote since, which is what `stale` records (`EditorsKnow`).
* `EndIsComplete`, for any number of events and any batch, is the safety half of
  `StreamSends`: the cursor has passed no event that was not sent, but those that
  were committed behind it (`CursorBehind`), because a batch has the oldest rows.
* `SourcesAreSound`, for any width of an id, length of a list and number of
  changes.  Every row is that of an answer that could have been given
  (`RowsKnown`), and an id that is cut short still tells the stretch of the feed it
  was made of (`ListedTells`, `FeedIdTells`), so two answers of a feed with one id
  have one body.  A profile under whose fields a row is stored was answered
  (`ProfilesTold`): only such a row can stand in the way of the next, while exactly
  one entity has the ticker.

`SumTheorems` is what makes sums provable.  `SumFunctionOnSet` of the community
modules folds over a set in an order `CHOOSE` picks.  An induction over finite sets
needs an operator as a parameter, which no installed prover can instantiate;
instead the lemmas take a least counterexample among the sizes of sets
(`LeastNatural`) and derive that a sum is any one of its summands plus the sum of
the rest.

Every safety property of every passing run is thus proved.  Only model-checked are the
liveness properties (`EveryRequestAnswered`, `LiveRowsSettle`, `StopFlattens`,
`Settles`, `FanoutEnds`, `EventSent`, `FairOrdersSettle`; liveness under fairness is
outside this prover's reach), and `RunnerInv` outside `Foreseen`, where it does not
hold.

## What is abstracted

* Money, prices and quantities are small integers; rounding of `Decimal` and of
  floats is not modelled, except where a comparison turns on it (0.6 - 0.4 < 0.2
  in `Counterfactual`).
* Order of events is exact, their text is not: logs and
  `strategy_run_events` are left out; of run events only time, commit and
  delivery remain.
* Indicators, scores, what a language model answers and the quote and broker
  services are nondeterministic choices.  A payload is its version, a draft what
  the verifier compares.
* A value that a data set joins is published at the time it is dated and is never
  restated (`Disclose`), and bars do not change: a provider's revisions, and
  Polygon's bars, which are adjusted for every later split, are not modelled.
* `Strategies` fills every order before the next bar, except that an opening one may
  be refused; closing orders go through there (`StrategyRunner` has those that do not).
* RQ and Redis are reliable: a job enqueued is taken once, and the failure
  callback runs.  `PROJECT.json` lists what happens when they are not as hazards:
  nothing in the code recovers from it.
* Postgres at READ COMMITTED: a statement sees what is committed, an UPDATE or an
  INSERT on a unique key waits for the transaction that holds it.
* One portfolio, one ticker per runner, one run: rows of different ones are not
  touched by the same transaction, except the daily budget, which `LlmBudget` has
  with two runs.

## Plan

Done: the modules above.  What would come next, in this order:

1. Compositions: the runner with `ApprovalContract` in place of its
   nondeterministic gate and `TrailManager` in place of the abstract trail;
   `ResearchRun` with `Fanout` in place of its fan-out stages.
2. The Redis form of the budget lock, whose lease of 30 seconds may run out while
   a call is being logged; merges that overlap.
