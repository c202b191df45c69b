# A formal model of the trading-agents web workbench

The repository is a Python service around a language-model analysis graph. A FastAPI process
(`src/web`) accepts analysis tasks, runs them one at a time on a worker thread, streams their
progress to browsers, checks the closing prices of holdings on a schedule and keeps everything in
one SQLite file. The graph itself (`src/tradingagents`) is mostly prompts and vendor calls; what can
go wrong in ways that tests hardly reach is the machinery around it: threads that meet in the
database, a process that dies between two transactions, state on disk that several tasks share,
connections that break. That machinery is what these TLA+ modules model, TLC checks and, in part,
TLAPS proves.

Line numbers in comments and below are those of the files under `src/`; `worker.py`, `store.py`,
`api.py`, `runner.py` and `settings.py` without a directory are the ones in `src/web`.

## 1. Inventory

| component | state it keeps | operations | talks to | what is hard | correct when |
|---|---|---|---|---|---|
| task store (`web/store.py`) | `tasks`, `sections`, `events` | one `BEGIN IMMEDIATE` transaction per write method | every thread of the process | crash between two transactions | status and event log agree |
| task worker and requests (`web/worker.py`, `web/api.py`, `web/server.py`) | worker thread, `_stopping`, `_wake`, handler locals | create, rerun, resume, delete; claim, execute, finish, fail; start, stop | store, runner, report directories | handlers against the worker, exit anywhere, a database that raises | one run at a time, nothing lost or done twice, stop claims nothing more |
| runner and checkpoints (`web/runner.py`, `graph/checkpointer.py`, `graph/trading_graph.py`) | checkpoint rows per graph thread, tag file, HMAC key, `_RUN_LOCK` | `can_resume`, `run` | worker, settings | tasks that share a thread, credentials that change, exit between clearing and binding | a run never continues another task's state |
| event stream and run page (`web/api.py`, `wait_for_events`, `Run.tsx`) | stream cursor; page cursor, snapshot, retry timer | SSE reads, reconnects, snapshot requests | store, condition variable | lost connections, answers overtaking events, lost wake-ups | every event once and in order, the end is shown |
| close check (`web/portfolio/worker.py`, `web/portfolio/store.py`) | `portfolio_checks`, `automatic`, worker thread, `_wake` | schedule, claim, fetch, finish, fail, recover; manual requests | market data | decisions from stale reads, calendar edges, stop during fetches, errors in the error handler | three paced attempts a day, the right day judged, nothing pending for ever |
| settings and providers (`web/settings.py`, `web/validation.py`) | rows of `settings`: list, default, models, keys | join, edit, remove, update defaults, resolve a run | task store | reads outside the writing transaction | the default and the providers of open tasks stay usable |
| plans and watchlist (`web/portfolio/store.py`, `web/portfolio/api.py`) | `portfolio_plans`, `watchlist` | create, revise, close; overview | close check | pages behind the database, overview read in pieces, limit of 100 stocks | edits build on what was seen, results tied to plans |
| observation rules (`web/portfolio/domain.py`) | none | `validate_plan`, `evaluate`, `summarize` | close check | incomplete data, sums over part of the plans | a result is what its row and price give |
| A-share market data (`web/portfolio/market.py`, `fetch.py`) | lists of stocks, per-exchange locks, child processes | single-flight refresh, bounded fetch, stop | close check, search | several callers, throttling, stop, failed publication | no older list, a reader is told why there is none, no child left behind, lists renewed |
| analysis graph (`graph/setup.py`, `conditional_logic.py`, `propagation.py`, the nodes in `agents/`) | graph state (messages, reports, debates), its checkpoints | nodes, routing, resuming | runner, models | rounds against the recursion limit, resuming from any saved state, state rebuilt by hand in each node | analysts in turn, debates whole when judged, only tools use up the limit |
| decision memory (`agents/utils/memory.py`, `graph/trading_graph.py`) | a log file | append, settle in batch, rotate, draw lessons | graph | read and replace around slow calls, a death in between, days that are not over | no decision lost, no lesson from later than the day analysed |
| vendor routing (`dataflows/interface.py`, `agents/utils/*_tools.py`) | cache of domestic news | chain of vendors, domestic additions | agents | failures of every kind in any order, caches | the outcome is that of the whole chain |
| data vendors (`dataflows/*.py`) | none | a function per tool | vendor routing | past days asked of sources that know the present | nothing later than the day the call gives |
| sentiment evidence (`agents/analysts/sentiment_analyst.py`) | none that outlives a call | collect, widen, abstain | vendors | what counts as evidence | abstains exactly when nothing it recognises was found |
| image release (`scripts/local_image_release.py`) | tags and images of a docker host | publish, clean up, roll back | none | publishers, cleanups and rollbacks side by side, a kill between docker calls | what is stable was tested; only an overtaken cleanup removes its release |
| language model clients, CLI, report text and redaction, symbol search and validation, other pages, synchronisation scripts | none that outlives a call | | | | not modelled |

`PROJECT.json` lists all of them with their sources, and every hazard with the line where it bites.

## 2. The modules

| module | models | builds on |
|---|---|---|
| `TaskStore` | the transactions of the task tables, one operator each | |
| `TaskLifecycle` | abstract: what the queue promises of a task's status and events | |
| `TaskQueue` | worker thread, request handlers, lifespan, crashes, database errors | extends `TaskStore`; implements `TaskLifecycle` |
| `EventStream` | SSE endpoint, network, run page | extends `TaskLifecycle`, the queue at its promise |
| `CheckpointBinding` | `runner.py` and the files of one shared graph thread | |
| `CloseCheck` | the close-check thread, its table, its requests | |
| `ProviderSettings` | provider list, defaults, keys, and tasks that rely on them | |
| `AgentGraph` | the graph that carries out one analysis, under crashes and resumption | stands alone; `CheckpointBinding` says whose checkpoint it is given |
| `PortfolioPlans` | plans, watchlist, overview and the rules of observation | beside `CloseCheck` in `MCHoldings` |
| `CatalogRefresh` | the lists of A-shares and their renewal | |
| `DecisionLog` | abstract: a decision waits, then becomes a lesson | |
| `MemoryLog` | the memory's file, its rewrites, the runs that use it | implements `DecisionLog` |
| `ImageRelease` | publish, clean up and roll back, docker call by docker call | |
| `VendorFunctions` | what each vendor function returns, raises and keeps (operators) | |
| `VendorRouting` | one tool call over its chain of vendors | extends `VendorFunctions` |
| `SentimentEvidence` | tool calls of models, and the sentiment analyst's collection | extends `VendorRouting` |
| `TaskQueueProofs`, `EventStreamProofs`, `CloseCheckProofs`, `ProviderSettingsProofs`, `CatalogRefreshProofs` | theorems | the modules they name |
| `SharedFilesProofs`, `HoldingsProofs`, `AnalysisProofs` | theorems about components side by side, and about the specification the run checks | `MCSharedFiles`; `MCHoldings` and `CloseCheckProofs`; `MCAnalysis` |
| `MCTaskQueue`, `MCEventStream`, `MCCheckpointBinding`, `MCCloseCheck`, `MCProviderSettings` | instances for TLC: symmetry, catalogs | |
| `MCSharedFiles`, `MCBackgroundThreads`, `MCHoldings`, `MCAnalysis` | instances of two or three components side by side | `INSTANCE` of each |

**Components side by side.** `MCSharedFiles` holds checkpoints, memory and releases;
`MCBackgroundThreads` the queue and the lists of stocks; `MCHoldings` plans and the close check;
`MCAnalysis` the graph and its evidence. In the code the components of one such module share no
state, or only through an interface that each models in the detail it needs. A variable `part`,
chosen at the start, says which of them a behaviour moves; the others rest. So one run answers for
all of them without the product of their state spaces, and nothing is claimed about their
interleaving, which their independence makes uninteresting. Components that do meet are composed in
earnest: `TaskQueue` is threads, handlers and process over `TaskStore`, `EventStream` runs over the
steps of `TaskLifecycle`, and `SentimentEvidence` calls through `VendorRouting`.

**Refinements.** `TaskQueue` implements `TaskLifecycle` (`ImplementsLifecycle`, checked and proved)
and `MemoryLog` implements `DecisionLog` (`KeepsDecisions`, checked, and proved for one process), both by
an explicit `INSTANCE ... WITH`.

Definitions carry the names of the source where they can, and `PROJECT.json` maps each one to the
lines it stands for. Definitions named `X_Something` in front of `X` are plausible wrong versions of
`X`: they are used by no specification and serve to show that the properties notice them.

**TaskStore and TaskQueue.** A store method is one transaction and one action; everything a thread
keeps between two transactions is explicit state (`request[c]`, `pc`, `current`, the locals of
`_execute`). `create_task` draws its time stamp before its transaction, so drawing and inserting are
two steps; deleting a row and removing its report directory are two, and the second may fail or find
nothing it may remove (`ReportsStay`); a run's section text and the
event announcing it are two transactions. The worker's loop is four steps: it takes the lifecycle lock and reads
the stop flag (`TakeLock`), claims under the lock, and without it waits for the wake event or a quarter of a
second and clears the event (`ClearWake`), a wake-up that came after the wait included. `Stop` needs the lock.
A run makes its report directory when it builds the graph, so failed and interrupted runs leave one too. `Exit` ends the process between any two steps, `Start`
runs `interrupt_running` and starts the thread, `Stop` is `TaskWorker.stop`, and `StoreRaises`
makes the next transaction raise. A section text is the number of the run that wrote it, so that
old and new text can be told apart. Handlers may still take a step after `Stop`; the server waits
for requests in flight before it stops the worker, so this allows more than the code does.

**TaskLifecycle.** Seven steps of a task as seen from outside, no threads. `TaskQueue` is checked,
and proved, to implement it with the identity mapping on `status` and `log`. `EventStream` takes
these steps as its environment, so what it shows holds for the queue.

**EventStream.** One page and one task. The generator behind `/events` is a program of its own
(`server`): the reads inside `wait_for_events` under the condition variable, the delivery of a batch, the
final snapshot and the trailing read. The network is a queue that a lost connection empties. The page has
the cursor, the snapshot in progress with the `pending` flag, the retry timer and the buttons.

**CheckpointBinding.** Tasks of one ticker, date and graph shape share a LangGraph thread. The tag
file holds an HMAC of task and credentials; the module keeps what it was computed from. `run` is a
chain of steps (check, clear, key, write, bind, begin, stream, clean up) and the process may die
between any two.

**CloseCheck.** Time in half hours. `tick` and `_schedule` are chains of steps, because the database
is read several times and the calendar and quote calls lie in between. The handler that fails the
latest check on an error, the clearing of the wake event and the stop of market children are steps of
their own.

**ProviderSettings.** Joining, editing and removing are one transaction each. `update` is two steps
(read and compute, then commit), creating a task three (validate, resolve, insert). The quick and
the deep model are one model. `joined_provider` reads the settings a second time within a step: that
read can only make the request fail, which `GiveUp` covers. Until the row `providers` exists the
list is derived from the default and the keys (`Listed`).

**AgentGraph.** A node is an operator from graph state to graph state, routing included, so the same
definitions serve the running state and a saved one. Arguments are numbered in the order they are
given and a speaker's history is the set of its numbers; a message list is the number of its opening
messages, the kind of its last message and whose answers are in it. A model may call tools in as
many answers as it likes; the sentiment analyst has none. LangGraph is external: it runs a node
while its steps are at most the limit (the version decides whether its own start counts, so both
are allowed), saves the state in the background (`Checkpoint` at any moment, or never), and when
invoked with nothing goes on from the saved state with a new count of steps. An empty answer counts as a
report; an empty decision fails the run.

**PortfolioPlans.** Every request is a transaction except the overview, which reads plans, then the
check, in two. The check that runs has a copy of the active plans; `Evaluate` and `Summary` are
`evaluate` and `summarize`, decimals small naturals. A page keeps what it was given and edits and closes
with the revision it shows, any number of changes later.

**CatalogRefresh.** Time is kept as ages that stop growing when nothing depends on them any more;
a list is the version of the upstream data it was made from. A thread's step ends where it waits,
for a lock, a child process or the disk. `stop` is a chain: the market stops, fetches are closed to new children,
the children there are at that moment are killed. A request for a list is three reads of
`_catalog`, with any steps of a refresh between them: the cached list, its status under the lock, and the file
once more (`Ask`, `ReadStatus`, `Answer`).
The program has one refreshing thread per exchange; the module allows any number, as the lock does.

**MemoryLog.** A run reads the log, fetches outcomes and reflections, reads it again, writes a temporary
file and replaces the log; each is a step, and a run may fail or its process die between any two.
`day` and `closed` are the calendar; all days trade. Text is reduced to what the code reads from a
block's tag line. `MemoryLog` is parameterised by processes, and `KeepsDecisions` is claimed for one
(see the observations below).

**ImageRelease.** Images are numbered as they are created; every docker call is a step that may fail, and a
process may be killed before any. The script has no lock, so any commands run side by side: publishers of one
commit or of several, their cleanups, and rollbacks. A build may return an image of before, when every
layer is cached. Containers come and go as their owners like, so a cleanup may find any set of images in use.

**VendorFunctions, VendorRouting, SentimentEvidence.** An item (price row, report, article, post) has
the day it is of. A vendor's server answers with a payload, a garbled body, throttling, an error, or
there is no key; each vendor function is an operator from that to what it returns (an answer, a sentence, a body
it could not filter) or raises. An item may be without a date and without what the sentiment analyst recognises an
article by. The models' calls for statements may leave `curr_date` out (`dated`): then nothing is filtered. Routing asks one vendor per step; the news tools then add the
domestic block, from its cache or not. The analyst's windows are read one by one.

## 3. What the runs check

| run | question | instance |
|---|---|---|
| `queue` | safety of the queue and refinement of `TaskLifecycle` | 2 tasks, 2 handlers, 1 section, 1 exit, 1 database error |
| `queue_blank_decision` | is the decision shown that of the last run? **Violated** | 1 task, 2 sections, 2 exits, runs may end with a decision that redacts to blank |
| `shared_files` | whose state a run continues, and that resumability is kept; no lesson from the future, decisions kept (refinement of `DecisionLog`); the stable image is tested and only an overtaken cleanup removes its release | 3 tasks on one thread, 2 credentials, 2 exits, 2 edits; 1 process, 2 tickers, 3 days, window 1, all caps 1, 4 runs; 2 publishers, 3 commits, keep 2, 3 builds |
| `checkpoint_clear_fails` | whose state a run continues when SQLite refuses to delete. **Violated** | 2 tasks |
| `stream` | events once, in order, promptly; fresh view; the end is shown | 2 events, 1 lost connection, 1 failed snapshot |
| `closecheck_attempts` | at most three automatic attempts, paced, none after a success; a check is taken up and ends | 4 checks on one day, a manual request, one of exit, database error and edit, with fairness |
| `closecheck_calendar` | is the last closed day judged on a weekend? **Violated** | a calendar that ends before the last weekdays |
| `providers` | list, default, names, keys, open tasks | 2 built-in providers, 1 custom, 2 requests at a time, 1 task |
| `providers_mixed_defaults` | do default provider and model fit? **Violated** | the same |
| `background_threads` | with fairness: every queued task is served and no run lasts for ever; lists are renewed, never with older data, who finds none is told why, no child is left behind | 2 tasks, 1 handler, 1 exit; 1 exchange, 2 refreshing threads, 1 reader, 2 upstream versions, ages 1 (fresh, retry) and 2 (usable) |
| `holdings` | edits build on what was seen, results and totals belong to their plans; the day judged, automatic checks keep their day, fetches ended by a stop, errors | 2 plans of one stock, 1 page, 2 prices, 2 dates, limit 1, 2 revisions; 3 days with a closed one between two trading days, 2 observed plans, 2 checks, an exit, an error and an edit |
| `analysis` | analysts in turn, debates whole; the verdict of the chain, nothing from the future for calls that give a day, abstaining | 2 selections out of 3 analysts, 1 to 3 rounds of each debate, limit 25; 3 days, chains of at most 2 vendors, cache of 1 entry, windows 1 and 2 |

**Why the bounds are enough.** Two tasks show every race of the queue: claiming is decided between two, and
a task's own rerun is a second one. One exit gives "interrupted, resumed, run again", and a database error a second way for a
run to end early; the finding about the decision has two exits. Two handlers can both have looked at a row before either
acts. Three tasks on one thread let an interrupted task, a fresh run and a resumed one meet, and two
credentials tell a changed one from the old. Four rows on one day exceed the three attempts allowed; with
fairness, exits, errors and edits come one to a behaviour, in `holdings` they meet.
Two half hours a day suffice where only the order of days matters (before and after the close); five where attempts
are paced. Two events are enough for a gap, a duplicate or a swap to appear, with one reconnection.
One custom provider, one that is joined and one that is not, and two overlapping requests are what
any of the settings races needs. The graph needs an analyst with tools, one without and a pair in sequence;
three rounds are more than one turn of either debate. Its tool rounds are bounded by the recursion limit: with
25, the largest of these graphs (22 steps without tools) ends with at most one tool round and
exceeds the limit with more. Four runs on three days with window 1 give a decision that waits while
another ticker's is settled, one settled on the day of its outcome and a later run that
draws both kinds of lesson; caps of 1 make every cap bite. Two publishers can pass the same check before
either tags; three builds with two kept make cleanup remove one, and one of the two can roll back or
publish while the other cleans up. Two threads of one exchange compete for
its lock, and two versions tell new data from old. A stock limit of 1 with two plans and a watchlist is
reached both ways; two revisions let a page be one behind. A chain of two vendors has a first failure and a
last, and three days have one before, at and after the day asked about.

Bounds stand in guards and are named constants; a run stops when they
are used up, hence `CHECK_DEADLOCK FALSE` in the bounded models. `providers` and `analysis` have no
such bound and are checked for deadlock. Every action of the parts of a composed run fires in it.

**Symmetry** is used for tasks, clients, credentials, publishers, commits and plans, in safety runs
only, where nothing orders them. `background_threads` checks liveness, so it has no symmetry; there the task that is inserted
first is called `First`, which renames behaviours and removes none.

**Fairness.** The queue (in `MCBackgroundThreads`): worker thread and handlers that can step do (the
scheduler), and a stopped process is started again (`restart: unless-stopped` in the compose file).
That a run ends is part of the worker's fairness: provider calls carry timeouts and the graph has a
recursion limit. No fairness for clients, exits, errors. `CatalogRefresh`: time passes and threads step
(weak); an exchange that is asked again and again answers well, passes validation and is stored again and again
(strong): without that no refresh can promise a list. `EventStream`: notify, stream, page and
answers. The 15 s heartbeat and the page's poll are left without fairness: the properties show they
are not needed. `CloseCheck`: thread, requests in flight, exit after stop, restart; the 30 s timer
only after a database error, when the thread has nothing else to wake it. Without one the
property shows that the timer is not needed.

## 4. What is proved

TLAPS checks, for all values of the constants:

* `TaskQueueProofs`. The inductive invariant is
  `IInv == TypeOK /\ RunningIsExecuted /\ (~up => pc = "off") /\ (pc = "claim" => ~stopping)`. Types alone are not inductive for
  what matters: that `finish` finds its row running needs that only the worker's own task is
  running, that `Start` finds no thread needs the third conjunct, and the last is what the lifecycle lock is for: a
  worker that has seen no stop still sees none when it claims.
  From it follow `TypeCorrect`, `OneRunOwned` (one run, owned by the thread), `LogTellsHowItEnded`
  (terminal status and last event agree), `StopEndsClaims` (nothing is claimed after `stop`), and
  `QueueImplementsLifecycle`: initial states map to initial states and every step to a lifecycle
  step or a stutter.
  `NewsCanBeRead` (an announced section can be read and is the announced run's) strengthens what a page may
  already know with what a run in progress is about to write, row by row (`NewsInv`): saving the text
  and announcing it are two transactions, and the process may die or the database raise between them.
  `ReportsOfTheDeletedStayGone`: what a delete request has removed is not made again by a run, since the thread
  executes only tasks whose row is there.
* `EventStreamProofs`, for any number of events, lost connections and restarts. The inductive invariant
  is `StreamInv == TypeOK /\ Queue /\ Flow /\ Behind /\ Fresh`. `Flow` is its core: what is in the
  network and in the server's batch is exactly the stretch of the log between the page's cursor and what was sent.
  `Fresh` adds that an old view, or an old answer on its way, implies a snapshot that is asked for.
  From it follow `EventsComeInOrder`, `ViewCatchesUp` and `StreamsEndComplete`.
* `CloseCheckProofs`. `CheckInv == Table /\ Thread /\ Deciding`. `Deciding` says that what `_schedule`
  read before its calendar call still holds when it inserts: other threads insert manual checks only,
  which do not count as attempts. From it follow `SuccessEndsTheDay`, `AttemptsArePaced`
  (at most three a day, in the order of their times), and, for use in `HoldingsProofs`, what is judged and who holds the latest check.
* `HoldingsProofs`. For the plans, the invariant asserts a history, the rows each plan has had by revision, such that
  every copy anywhere (table, running check, results, pages) is the row of its revision. No variable keeps that
  history; it is bound by an existential, and each step exhibits the next one. Two copies with equal revisions are
  therefore equal, which is what the guards on revisions rely on: `EditsAreOverWhatIsShown`, `OverviewBelongs`. For the
  check, the theorems of `CloseCheckProofs` carry over: `MCSpec` refines its `Spec`, step by step. That gives
  `NobodyWaitsInVain`, `AutomaticChecksKeepTheirDay`, `ShutdownIsNotAQuote` and `LastClosedDayIsJudged`. The last
  assumes `WeekendsAreCovered` (no calendar ends between a trading day and the weekend after it): finding 3 is
  what happens otherwise, so the assumption says exactly how far the code is right.
* `SharedFilesProofs`. Checkpoints, assuming `~ClearMayFail` (SQLite deletes what it is asked to delete; the run
  `checkpoint_clear_fails` shows that the assumption is needed): the invariant adds `Ownership`, which says of each step
  of `run` whose state the thread may hold there. From it follow `RunsOwnState`, `TagIsTruthful` and the action property
  `ResumableStays`, which also needs that only a fresh run ever clears (`FreshRunsClear`) and that a run that has bound the thread
  cannot meet somebody else's tag.
  Memory: `LogsAreSound` (the log, the file beside it and every copy a process has read hold only what was known by then)
  with `RunsAreDue` gives `LessonsWereKnownThen`, for any number of processes. `DecisionsAreKept` is the refinement of
  `DecisionLog`, under `OneProcess`: the invariant says of each step how a run's copy relates to the file, and every
  step maps to a step of `DecisionLog` or a stutter. For two processes it is false (see the observations).
  Releases, for any number of commands side by side: `ReleaseInv` says that every managed tag names a tested image
  (`TagsAreVouched`) and, for each place of a process, what it may rely on however far the others have come
  (`Relies`). It gives `StableWasTested` and `TagGoesOnlyToAnOvertakenCleanup`. `SharedFilesStaySound` and `SharedFilesKeepTheirPromises`
  put the parts together for the specification the run checks.
* `ProviderSettingsProofs`. The inductive invariant is the conjunction of `TypeOK`,
  `DefaultIsJoined`, `NamesUnique` (the default is listed, names differ) and `KeysListed` (a stored
  key belongs to a provider of the list, stored or derived). From it follow `ListStaysSound` and the
  action property `OpenTasksKeepProvider`.
* `AnalysisProofs`. For the graph, the invariant is `TypeOK /\ (\A s \in {state} \cup saved : Sound(s)) /\ Budget`.
  `Sound` is a property of graph states that every node preserves, one lemma per node; that is why
  it does not matter when a checkpoint was taken or which run goes on from it. It adds `Placed` to the
  checked properties: what each place implies for the counters and the speaker that route it.
  `Budget` bounds the steps of an invocation by the nodes passed plus two for each tool call. From it
  follow `AnalystsTakeTurns`, `DebatesEndWhole` and `LimitMeansTools`. The last says that with four
  analysts and five rounds of each debate, the most a task may ask for, a run costs 36 of the 100
  steps: the limit is reached only after 32 answers that were tool calls.
  For the evidence, the lemmas say of every vendor function, domestic source and cache entry that what it returns
  fits the days of the call (`ResultsFit`). `EvidenceInv` is `CallInv /\ AnalystInv`: the conjuncts of `CallInv` tie the
  chain still to be asked, what was noted (`first error`, `no data`) and the outcome to the log of the
  vendors' results so far, those of `AnalystInv` tie the window being read to those already found empty. It gives
  `OutcomeIsOfTheChain`, `ToldNothingOfTheFuture` and `AbstentionMeansNoEvidence`, for chains and windows of any length.
* `CatalogRefreshProofs`, for any exchanges and any number of threads. `ChildrenInv` says that every
  living child is in `_children` and, once fetches are closed, among those `stop` will kill, which gives
  `StopEndsChildren`. `NewsInv` says
  that a thread at work on a list holds its lock and that the version it was given lies
  between the file's and the exchange's; versions on file never fall (`ListsNeverRevert`). `ReadersInv` ties
  the reads of a request together: where no list was found and none is being loaded, a list has since been stored, the
  failure is recorded, or the market stops (`AbsenceHasItsReason`).

The assumptions are the named `ASSUME`s of the modules, which TLC evaluates in the runs, and the hypotheses named above.
Most say that bounds are natural numbers and that `None` is none of the values it stands beside. `ReplyBounds` says
what may come from outside: items of the modelled type and calls about days that have come. The last two conjuncts of
`SentimentEvidence!Bounds` state that sorting the windows and selecting from a tool's vendors give
sequences of windows and of its vendors. That holds for every value, but `SortSeq` and `SelectSeq` are defined by
recursion or choice and so opaque to the provers; TLC evaluates both for the values of the run.

`LogTellsHowItEnded` and `LimitMeansTools` are proved only: the first is implied by the refinement that
`queue` checks, the second needs arithmetic on a limit no small instance reaches.

Model-checked only: liveness (`TasksAreServed`, `ListsAreRenewed`, `CheckSettles`, `DeliveredPromptly`,
`EndIsShown`), which is outside the prover's reach, as is `ENABLED`. Every invariant and action property
of a passing run is stated by a theorem. What a theorem says of `Spec` holds of the component for every value of its
constants; the runs of components side by side check it of a specification that moves one of them at a time, for
which the conclusion is the same. Not proved, because false: `OwnStateOnly` when clearing may fail,
`KeepsDecisions` for several processes, `TargetIsLatest` for calendars that end early.

## 5. Findings

1. **The decision of an earlier run** (`queue_blank_decision`). `_execute` reads the saved decision section
   and hands that text to `finish`, whose comparison of the two therefore never fails. A resumed run
   whose decision is blank after redaction emits no section and completes with the interrupted run's.
2. **Silent failure to clear a checkpoint** (`checkpoint_clear_fails`). `clear_checkpoint` swallows
   `OperationalError`; the fresh run then binds the thread to itself and continues rows of another task.
3. **Weekends skip the coverage test** (`closecheck_calendar`). On Saturdays and Sundays
   `completed_date` accepts a calendar that ended before the last weekdays, against the design.
4. **Defaults mixed from two updates** (`providers_mixed_defaults`). `update` validates against
   settings read before its transaction; a change of the model that overlaps a change of the
   provider leaves a pair that every later use of the defaults refuses.

Observed while modelling, not stated as runs:

* Until the provider list is first written, it is derived from the default and the keys. Changing
  the default away from a provider without a key (a keyless one, or one whose key was cleared), or
  clearing a key, drops a provider that an open task uses; the guard of removal is not asked.
  `OutstandingKeepsProvider` is therefore about the stored list.
* A crash between creating and writing `hmac.key` leaves a short file: nothing resumes, and new runs
  with checkpoints fail, until it is removed by hand (`runner.py:77-82`).
* The close-check thread's error handler uses the database; a second error ends the thread while
  its check stays running, and every later request is referred to that check. A manual check
  stamped earlier but inserted later makes the handler fail another row than the claimed one.
* A crash after a successful run cleared its checkpoint and before `finish` leaves an interrupted
  task that cannot be resumed: the work is lost, not mixed up.
* The run page stops following an interrupted task; if it is resumed from another page, this one
  shows "interrupted" until it is reloaded.
* A delete request whose directory removal fails, or whose process ends before it, leaves the reports of a task that is
  gone, and nothing looks for them again (`api.py:282-292`). `ReportsStayGone` is about directories that were removed.
* `_catalog` reads a list, its status and the file again (`market.py:250-262`). A list that is stored between the first and
  the last of these is reported as expired, with its new date, and `resolve` refuses the stock; the next request finds it.
* A rollback or a publisher that moves `local-stable` after a cleanup has inspected it, to a release the cleanup is going to
  remove, leaves `local-stable` without its commit's tag, and the next cleanup refuses (`local_image_release.py:131-156`).
  `docs/plans/repository-initialization-gitea-local-release-implementation-plan-v1.1.1.md:199` says that the current
  commit of `local-stable` is never deleted, and leaves it to a workflow, which this repository does not hold, to keep
  commands apart. `OnlyAnOvertakenCleanup` says that this is the only way.
* Processes that share the memory log lose decisions: neither the reading nor the replacement is locked
  (`memory.py:183-229`), and one's temporary file is the other's. `README.md:327` promises that each
  completed run appends its decision, `tests/test_memory_log.py:340` that pending entries are never pruned.
  `KeepsDecisions` is checked for one process.
* A decision may be settled before the session of its last day has closed (`trading_graph.py:302-304`,
  `338` and following): its lesson then rests on a price that is not final.
* `errors.py:3-6` says that a vendor that cannot deliver raises `VendorError`, but several return an
  "Error ..." sentence instead (`y_finance.py:338`, `373`, `408`, `443`, `470`; `yfinance_news.py:120`,
  `208`; `alpha_vantage_indicator.py:215`), which routing takes for an answer: no other vendor is asked.
* `alpha_vantage_common.py:148` hands on a body it could not filter by date. `NothingFromTheFuture`
  excepts it (verdict `raw`).
* `curr_date` of the three statement tools is optional (`fundamental_data_tools.py:29`, `47`, `67`). Without it every
  period is returned, later ones than the day analysed included (`stockstats_utils.py:278`,
  `alpha_vantage_fundamentals.py:13`); `tests/test_alpha_vantage_hardening.py:88` asserts that. With it, a report of
  Alpha Vantage without `fiscalDateEnding` is still kept (line 25). `NothingFromTheFuture` therefore speaks of calls
  that give a day, and excepts reports that do not say their period.
* The sentiment analyst takes an undated article with a link for evidence (`sentiment_analyst.py:144`), where its docstring
  (lines 30-31), the notice it writes (line 96) and `docs/domestic-news.md:29` speak of *dated* company evidence. Vendors let
  undated articles through only for today.
* Alpha Vantage news are asked up to midnight at the start of the day analysed, so that day's own are left out.

## 6. Left out, and why

Language model clients, the command line, report text and redaction, symbol search, validation of a single
request, the other browser pages and the synchronisation scripts are not modelled: they are adapters,
presentation, string processing or straight-line shell, with no state that two steps could disagree about.

Of what is modelled: the text of sections, redaction and Markdown (only "blank or not" matters to
the queue); URL and name syntax; the connection test (pure I/O); authentication at the gateway; list
and search queries (reads); `wait_for_events` returning early on `stopping`, which the process exit
covers; prompt texts and the schemas of structured answers (what a model answers is arbitrary); the reason of a
watched stock, cost, profit and concentration of plans; parsing of exchange tables, of news pages and of quotes; the
paging of Reddit; the price files that `stockstats_utils` keeps for a day; the deployment script
beside the release script, which is straight-line shell.

## 7. Plan

Done: every module of section 2 and the proofs of section 4. What could come next, in this order:

1. What each observation of section 5 would take to go away, as a theorem about the changed model: a lock around the
   memory's read and replacement gives `KeepsDecisions` for any number of processes.
2. The price files of `stockstats_utils`, with two analyses that fetch the same symbol at once.

## 8. Running it

`tlc -workers 2 -config <cfg> <MC module>` for the pairs listed in `PROJECT.json` (each run takes
under five minutes), and `tlapm <module>` for each proof module.
