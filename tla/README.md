# Onside in TLA+

Onside replays and follows football matches: feeds are put on Redis streams as
immutable records, workers fold the append-only log of a match into a
document in DynamoDB, and every change of that document is pushed to the
browsers as a diff. This directory holds a TLA+ model of that system, the TLC
instances that check it, and TLAPS proofs of its central safety properties.
File and line references are relative to `backend/onside/` unless they start
elsewhere.

## 1. The system

| Component | State it keeps | Operations | Interacts with |
| --- | --- | --- | --- |
| ingest worker (`workers/ingest_worker.py`) | the leases it thinks it holds (`shards`, `lost`), one `MatchLog` per match in memory | `balance`, `heartbeat`, `release`, `run` (XREADGROUP, `handle`, XACK) | stream bus, match items, projector |
| reclaimer (`workers/reclaimer.py`) | none between sweeps | `reclaim_once`: XAUTOCLAIM, then the worker's own `handle` | stream bus, match items |
| projector (`workers/projector.py`) | none | `project_log`, `diff`, `project_match` | fold, document, match items, channel |
| stream bus (`streams/bus.py`) | shard streams and their group, `seq:` counters, `chanlog:` streams | `produce`, `publish`, `backlog` | everything that uses Redis |
| match items (`store/repo.py`) | DynamoDB items: `EVT#`, `CORR#`, `STATE`, `REPORT`, `WPSERIES`, `SHOTS`, `PASSNET` | `append_batch`, `read_log`, `write_projection`, `get_document`, `clear_log`, `delete_match` | workers, driver, API |
| match fold (`domain/match_state.py`, `corrections.py`) | none: a function of the log | `resolve`, `project`, `project_until`, `effective_events` | document, metrics, features, API |
| metrics, features (`domain/metrics.py`, `models/features.py`) | none | `team_metrics`, `minute_buckets`, `match_minute_rows` | fold |
| match document and narrative (`ingest/document.py`, `domain/narrative/`) | none: a function of the log and the win probabilities | `build_document`, `select`, `lede` | fold, metrics, projector |
| replay driver (`replay/driver.py`) | one thread per replay, `replay:<id>` hash, `live:*` keys | `_prepare`, `run`, `serve` | match items, stream bus, ops routes |
| WebSocket hub and read API (`api/ws.py`, `api/routes/matches.py`) | the clients of each channel, their queues, one subscription per channel | `join`, `leave`, `_read`, `_serve`; `match` | channel, match items |
| live client (`frontend/src/hooks/useLiveMatch.ts`) | the last `seq`, the query cache | `connect`, `apply` | hub, read API |
| ops routes (`api/routes/ops.py`) | the command fields of `replay:<id>` | `start`, `_command` | replay driver |
| fixtures poller (`workers/fixtures.py`, `feeds/http.py`) | cached fixtures, tables, a round queue, a rate limiter per feed | `Poller.tick` and what it refreshes | key-value store |
| social store and worker (`social/`, `workers/social.py`) | sorted sets of posts per topic, freshness markers, the X budget | `fresh`, `save`, `page`, `overview`, `cycle`, `X.collect` | key-value store |
| key-value layer (`store/kv.py`) | one DynamoDB item per key | the Redis commands the social store uses | social store |
| serverless entry (`serverless.py`) | loaded secret versions | `load_ssm`, `refresh_secrets` | API |
| league tables (`domain/tables.py`) | none | `compute`, `_break_tie` | catalogue |
| seeding and catalogue (`ingest/build.py`, `bootstrap.py`, `seed.py`, `catalog.py`, `archive/`) | Parquet files and documents on a volume, the table, the object store, the seed marker | `main` of each, `write_documents`, `mirror_archive_to_s3`, `season_tables` | match items, tables, archive |

What makes it hard: the heartbeat thread gives leases away while the
processing loop is in the middle of a batch; a lease does not fence what its
last owner has in flight; the reclaimer works beside live owners; a document
is two writes and an announcement is a third; feeds redeliver and reorder;
corrections rewrite what has been shown; every process may die between any two
calls.

What must be true of each part, in a sentence: ingest - nothing acknowledged is
lost and the document follows the log; fold - the result is a function of the
set of records and every view agrees with it; channel - a page misses nothing
and ends up showing the document; replay - one history does not leak into the
next; shards - each has one reader and none is forgotten; document - its views
tell one story; poller - requests are paced by the bucket (which is not the feed's limit, section
7) and everything keeps coming; social - the same words twice only while the first
copy is about to expire, nobody buries the rest, X within its budget but for a
bounded excess, paging misses nothing; catalogue - what counts as seeded is served, and a table is in
the order of its competition's rules. The hazards behind these, line by line,
are in `PROJECT.json`; what is not modelled is in section 8.

## 2. The modules and how they correspond to the code

| Module | Models | Its state in the code |
| --- | --- | --- |
| `Ingest` | one match and its shard: leases, the consumer group, `handle` step by step, the projection, acknowledgement, the reclaimer | `stream`, `cursor`, `pending`: the shard stream and the group's last-delivered id and pending list; `lease`, `owns`, `lost`: the lease key, `self.shards`, `self.lost`; `pc`, `batch`, `took`, `log`, `base`, `fresh`, `expected`: the locals of `run` and `handle` and the `MatchLog`; `slog`, `state`, `parts`: the `EVT#`/`CORR#` items, the `STATE` item, the other document items |
| `MatchLedger` | what the pipeline promises a reader: an append-only history and a document rebuilt from all of it | abstract; `Ingest!LedgerSpec` is the refinement mapping (`history <- slog`, `document <- state`) |
| `IngestProofs`, `ReplayProofs` | theorems about `Ingest`, with any writers and with one at a time, and about `Replay` with one writer | |
| `MatchFold` | `resolve`, `project`, `project_until`, `effective_events`, and the goals that metrics and training labels count | `log`, the delivered records; everything else is a function of it, as in the code |
| `Channel` | one match's channel: `publish`, the capped log, the WebSocket hubs, the match route and the pages | `seq`, `sent`, `chanlog`: the Redis keys; `orders`, `subscribed`, `wire`, `reading`: the hub's pubsub connection and reader task; `phase`, `since`, `lastSeq`, `replay`, `queue`, `closing`: one `_serve` call and its `Client`; `seen`, `page`, `refetch`: `seq.current` and the query cache of `useLiveMatch` |
| `Replay` (extends `Ingest`) | the API's commands, the control loop `serve`, the driver threads and the death of the service, feeding the pipeline of `Ingest` | `stage`, `sent`: where a driver thread is and its `i`; `status`, `command`: the fields of `replay:state:<id>`; `control`, `listening`, `fromNow`: the control stream and the loop's `last`; `current`: `running[lid]` |
| `Document` (extends `MatchFold`) | `build_document`: shot map, half-time, timeline, moments, lede, tags | none; a function of the log |
| `Schedule` (extends `Document`) | `build` of the replay's timeline, `inject`, `_target`, `score_at` | none; a function of the events of the log |
| `ShardLeases` | `balance`, `heartbeat` and `release` of all workers over all shards, one Redis call a step | `alive`, `holder`: the `worker:alive:` and `lease:ingest:` keys; `mine`: `self.shards`; `target`, `at`: the locals of `balance` |
| `ShardLeaseProofs`, `PollerProofs`, `ChannelProofs`, `SocialProofs`, `CatalogueProofs`, `MatchFoldProofs` | theorems about `ShardLeases`, `Poller`, `Channel`, `Social`, `Catalogue`, and `MatchFold` with `Document` | |
| `Poller` | `Poller.tick` request by request, the memory in the store, `RateLimiter` and `FeedClient.get` | `store`: the keys `fixtures:today` and `fd:poller` and which table was written last; `p`: the poller's attributes and locals; `tokens`: the bucket |
| `KeyValue` | the calls of `DynamoKV` as functions of the items of the table | the items: `str` with value and `exp`, `hash`, `zset` |
| `SocialPlan` | `plan`, `classify`, what each network hides, `_keep` | none |
| `Social` (over both) | `cycle`, each source's `collect`, `fresh`, `save` and `page`, in several environments | `kv`: the table; `wk`: the locals of one `cycle`; `reader`: a client that pages; `billed`: what X counted |
| `LeagueTables` | `build_rows`, the tie-breaking rules, `compute`, `infer_groups`, `season_tables` | none |
| `Catalogue` (extends `LeagueTables`) | `bootstrap`, `build` and `seed`, one write a step | `parquet`, `docs`: the local archive; `db`: the table and its marker; `bucket`: the object store; `job`: the running job's locals |
| `MC...` | instances for TLC | |

The components meet in three places. `Replay` extends `Ingest`: the drivers are
its feed. `Document` extends `MatchFold` and is what `Project` of `Ingest`
writes; `ShardLeases` is the arithmetic behind the `TakeLease`, `GiveBack` and
`NoticeLost` of `Ingest`, which are free to happen at any time there. `Social`
runs over `KeyValue`, and `Catalogue` writes the tables of `LeagueTables`.

`Ingest` has one action for each step after which another process may run. A
call of `handle` is `ApplyReset`, `LoadLog`, `LoadDoc`, `ApplyRecord` per
message, `EndOfBatch`, `AppendBatch`, `Project`, `PutState`, `PutParts`,
`Publish` and then `Ack` in `run`; the error paths are `SkipMessage` (a load
failed), `AppendFails`, `Conflict` and `ProjectFails`. `balance` runs in the
heartbeat thread, so `TakeLease`, `NoticeLost` and `GiveBack` interleave with
all of it. `Crash` and `Stop` may come between any two steps and between two
batches respectively. `Channel` has one action per `await` or Redis command.
In `Replay` the pipeline's own steps are those of `Ingest`, without
`Produce`: there the drivers are the only feed.

Abstractions that matter:

- A record is an element of a set. A document is represented by the set of
  records folded into it, which `MatchFold` justifies (`OrderIrrelevant`), and
  its version by the set's cardinality (`VersionOf` in `MatchFold`).
- `REPORT`, `WPSERIES`, `SHOTS` and `PASSNET` are written by one batch call and
  are one variable, `parts`, written in one step; so are `clear_log` and
  `delete_match`.
- A pending message keeps its record. A shard stream is capped near 200000
  entries (`bus.py:115`); one whose entry has been trimmed is acknowledged by the
  reclaimer without being applied (`reclaimer.py:56-60`), and `Claim` never meets
  one. What is said of acknowledged messages is said below that bound.
- `AppendBatch` writes the new records in any portions; `AppendFails` may come
  after any of them.
- In `Document` the win probability is the swing of each minute; names, places,
  missed penalties and substitutions are left out, and prose is the kind of
  sentence chosen.
- In `Schedule` an event has the second that `index` stands for elsewhere; what
  the seeded generator of `inject` chooses is any choice, and no goal is
  reassigned, as `_prepare` asks for none.
- In `ShardLeases` a call of `balance` is one step per shard, as its Redis
  calls are; a lease that a live worker did not renew in time is `Lapse`.
- In `Poller` a unit of time is what the bucket needs for one token and a
  minute is `CAPACITY` units. The age of the competition list is counted in
  ticks, and the tick number wraps where every rotation starts again. The
  sleeps between attempts only cost time and are `Unit`. `window` watches a
  stretch of time that any request may open; a new process brings a new bucket
  to the same key and does not end the stretch: `boots` counts those that came
  while the last bucket was not full.
- In `Social` a tick of the clock is a day for the expiries and the budget. A
  cycle takes minutes, so it may come at any point of one, once: what was claimed
  before it expires before what is written after it (`store.py:57`, `:83`), and
  the day of a charge may not be that of its check. A text is the set of names it
  mentions; the index entries of one post are written in one step. A failure of
  the store itself in the middle of a cycle is the `Kill` that leaves the same
  writes. A request to X that fails was refused, or was answered and billed and
  its answer lost (`FailRequest`; `spent.lost` counts the latter).
- In `Catalogue` a job runs alone, builds with one worker process, uploads in
  the order of the index and writes a chunk of documents in one step; volumes
  are lost only while no job runs. `intact` is a history variable: every loss
  of the bucket has been repaired since.
- Messages that cannot be parsed are left out, and so is the reclaimer's cursor
  over more than one page of pending entries.
- `MatchFold` keeps the fields that the score, the clock and the corrections
  depend on; events without a team, and substitutions, are left out.
- In `Channel` write n, message n and timeline item n are the same number: a
  match's channel has a single publisher, the owner of its shard. A page always
  connects with `since`, as `useLiveMatch` does.
- `PromptSubscribe = TRUE`: SUBSCRIBE travels on another connection than the
  XRANGE of the backlog, and the model assumes that Redis handles it first.
  `join` only waits for the command to be written.
- `ReaderDies` rests on Starlette raising when a socket is closed a second time
  (`ws.py:102` is outside the reader's `try`).
- The join of an old driver with a timeout of five seconds (`driver.py:261`) is
  `Joined` at any time; the first driver of `Replay` was started by
  `--autostart` and its first `_prepare` left what `Ingest!Init` says.

## 3. The runs

Passing runs, all without deadlock checking because producers, crashes and
connections are bounded and the models may come to rest:

| Run | Shows |
| --- | --- |
| `ingest_two_workers` | Two workers and the reclaimer, one event, one correction and redeliveries, through a crash or stop, a lapsed or given-back lease and a failing call (any two of these). `AckedIsDurable`: an acknowledged record is in the log. `MemoryIsBacked`: what makes a message look like a redelivery is durable or about to be. `DocumentIsBacked`: neither document nor diff says what the log does not. `AckedIsProjected`: an acknowledged event has been in a `STATE` item |
| `ingest_one_writer` | Two workers and the reclaimer, two events and a correction, any two mishaps, where a batch begins only when no other consumer has one in hand or remembers the match (`OneWriterSpec`, section 4). `AckedIsKept`: an acknowledged record is in the `STATE` item at every moment after. `SettledIsWhole`: whoever dies or fails between the two halves of a document and whoever takes over, once nothing is pending or in hand both are of one document, because the batch stays pending and is projected again. The refinement `LedgerSpec`, and with it `DocumentOnlyGrows` |
| `ingest_progress` | The lease key and the idle time of a message run out while their holder is alive and in the middle of its batch (`SlowBatch`), so the reclaimer handles what the worker still holds, through two more mishaps. `AckedIsProjected` all the same, and `EveryMessageAcked`: every message produced is acknowledged in the end, under the fairness of section 5 |
| `fold_any_order` | Every log of up to five deliveries, and of seven in order. The fold is a function of the set of records; a goal counts by its last decision (against a reference that does not fold); metrics and training labels count the goals of the score, stoppage time and amendments included; a goal once shown stays listed; the state asked for an earlier moment is the one shown then. Of the document: its views agree although they read different events (`ViewsAgree`), a goal is never suppressed by a chance (`GoalOutlivesChance`), and the first sentence claims only what the goals say (`LedeIsTrue`). Of a replay: at every minute, and asked later, it tells the archived score less the goals ruled out so far, for every delay of the invented decisions (`ReplayTellsTheMatch`) |
| `channel_hub` | Two pages on one hub. `NoGap`: a page that has a message has every earlier one since it loaded, those aside that had left the capped log when it returned. `SubscribedWhileWanted`: the reference count and the subscription agree through joins and leaves in flight |
| `channel_delivery` | One page, two tasks, a correction and its refetch. `NoGap`, and `EveryMessageArrives` under fairness, unless a hub has lost its reader |
| `replay_clean` | Two drivers with loop, start, stop, pause and the death of the service or of the worker. `CleanRestartIsOwn`: a restart that found the pipeline idle shows only what it has sent itself, although a worker remembers the old history. `CleanReplayIsComplete`: it ends with the whole match in log and document |
| `shard_leases` | Three workers and three shards. `OwnersHoldTheirLeases` and `LeaseNotStolen`: one reader a shard, until a worker is paused past its lease. `EveryShardServed`, when the number of workers divides that of the shards, and `SharesAreFair`, under fairness |
| `catalogue` | Bootstraps, builds and seeds that are killed between any two writes. `SeededIsServed`: what the marker calls seeded has its documents, tables, catalogue and, unless the bucket was lost since, its Parquet files. `TableFollowsRules`: every table is in the order that its competition's rules give, judged by a definition that compares pairs of teams and does not sort |
| `social` | Two environments, failing queries, lost answers, kills, expiries in the middle of a cycle and late sweeps. `WordingsMeetAtExpiry`: the same words are stored twice only in the last tick of the first copy; `AccountsAreCapped`, at less than twice the cap, although two environments count at once; `ReadsWithinBudget`, but for one page per race, per kill and per lost answer. In behaviours of their own, one environment collects while a reader pages: `NextReachesEverything`, but for posts of one time, scans that give up and posts past their age |
| `poller` | Failing, refused and repeated requests, kills, missed minutes, a fresh poller at any time. `PacedByBucket` and `FiveAsked` bound what is asked, the first by a bucket, its refill and a bucket more for each new process; `EverythingKeepsComing`: every table and every list of scorers is refreshed again and again, under fairness |

`ingest_handover` refutes what `docs/how-it-works.md:168-170` says, that a lease
which ends mid-batch is harmless: `MatchLog.load` reads the log and then the
document, so the version check passes for an older log, and a document loses an
event it had shown (`DocumentOnlyGrows`).

### Bounds

- Two workers are what a handover needs, and a third consumer, the reclaimer,
  is beside them; a lease names one worker at a time, so a third would only
  repeat the second's role. `MaxStream = 3` is the reset marker and two
  messages, so that a batch holds an event and a correction, a record and its
  redelivery, or two batches overlap. `MaxMishap = 2` lets any two kinds of
  trouble meet.
- Five deliveries in `MatchFold` hold a goal, its three corrections and a
  redelivery, or both lineups, two goals and a correction.
- `ingest_one_writer` has a message more: the reset marker, two events and a
  correction, or one of them twice, in batches of two, so that a batch that failed
  half-way is followed by one that goes through. One crash or stop, one lapse, one
  fault, two of them in all.
- `SlowBatch` is `TRUE` in `ingest_progress`, with one worker beside the reclaimer:
  it is what lets the reclaimer handle what a live worker still holds, and two
  consumers are what that takes. In `ingest_two_workers` it is `FALSE` (a message counts as idle only
  when its holder is dead, gone or done with it), which leaves room for the second
  worker; the proofs assume neither.
- `CHANLOG_MAXLEN = 1`, `MAX_QUEUE = 1` and three messages fill and overrun
  both; a drop and a restart let a page come back while the other one stays.
- `MaxStream = 6` in `Replay` is two complete runs of a goal and its
  correction, each with its marker; `MaxDeath = 1` and one command let a restart
  be caused by the API, by the loop or by the death of the service. There is
  one worker and no reclaimer in `replay_clean`: what it is about is the memory
  of the worker and the marker, and section 4 says what a second writer would break.
- `Schedule` has a goal in first-half stoppage time whose decision is sent after
  the second half's first goal or before it, and a goal in extra time.
- `Document` adds chances, own goals and cards close together in time, so that
  suppression has something to choose from.
- Three workers on three shards: one to join, one to die and one to take over,
  with shares that divide and that do not (two workers). One lapse or one
  failed call on top, which is what each property is conditional on.
- `Catalogue` has a group of four teams whose last two matches decide a
  three-way tie and a league that is complete only with both its matches; three
  starts, a kill, a failing match and a lost volume let every job meet what any
  other one left half done.
- `Social` has two wordings of one account found by two queries, a budget of one
  page, an index kept to three entries, chunks of two and pages of one, so that
  trims, page edges and equal times all occur; three days let everything expire.
  `AUTHOR_CAP = 2` is the least with which a counter can expire between two
  posts of its window, so that the bound of `AccountsAreCapped` is reached. The
  reader follows the feed in behaviours of its own (`ReaderAlone`, an action
  constraint), because it only reads the store: a second environment or a failing
  query changes which posts are stored and when, not what a page does with them,
  and one environment stores, expires and trims under the reader at every step of
  it. X is off there, Bluesky answers.
- `Poller` has three competitions in play, two of them big leagues, and
  rotations of period six; a bucket of three tokens is below what a tick asks
  for, so every tick waits for the refill. Two troubles of any kind.
- `OneScore` holds of the instance in `fold_any_order` because no own goal is
  disallowed there; see section 7.

## 4. Why one writer at a time

The worker says of a match that "at any moment every match has exactly one writer"
(`ingest_worker.py:4-5`), and `AckedIsKept`, `SettledIsWhole`, `DocumentOnlyGrows`
and `LedgerSpec` are what that is for. The code does not see to it: a lease given
back or lapsed in mid-batch lets two workers handle a match, and the reclaimer works
beside live owners. With two writers each of the four fails, as `ingest_handover`
shows for the third and section 7 says for the others.

`OneWriterSpec` is `Spec` with what the docstring claims: a consumer begins a
batch only when no other one has a batch in hand or remembers the match from an
earlier one. Everything else is as in `Spec` - workers that take over from one
another, the reclaimer, crashes between any two steps, faults, lapses, leases
that go while their batch is in hand, redeliveries. Not to overlap would
not be enough: a worker whose projection failed keeps its log and has no document
(`ingest_worker.py:232-236`), and overwrites a longer one when it is next given a
record, long after its own batch has ended. That is why the memory counts. What
holds for any number of writers is what `ingest_two_workers` and `ingest_progress`
check, and `IngestProofs` proves both.

## 5. Fairness

Each assumption is one the scheduling of the code gives:

- `ExpireDead`: Redis removes a key whose TTL has passed.
- `TakeLease`, `NoticeLost`: the heartbeat thread calls `balance` for ever.
- `Poll \/ Read \/ ReadNothing` and `Handle`: the processing loop runs for ever
  and every call in it returns or raises.
- `Claim`: `reclaimer.py` sweeps for ever.
- `Restart`: the services are restarted by their supervisor.
- `Publish`, `HandleOrder`, `FanOut \/ ReaderDies`, `Serve`: the loops of the
  publisher, Redis and the event loop of an API task.
- `Browser`: `useLiveMatch` reconnects until it succeeds.

- `Balance`, `AliveExpires`, `LeaseExpires` (`ShardLeases`): the heartbeat
  thread, and Redis removing keys whose TTL has passed. A worker that leaves
  need not come back.
- `Work`, `Unit` and, when the process is down, `Boot` (`Poller`): a tick goes
  on, time passes, and the schedule or the supervisor starts a process again
  (`free_stack.py:178`).

Nothing is assumed of feeds, faults, crashes, drops or lapses. All of it is weak
fairness. The bounds on mishaps are what makes liveness meaningful: a system
that fails for ever acknowledges nothing.

## 6. What is proved

For every set of events, corrections and workers, every batch size and every
bound (`IngestProofs`):

| Theorem | Statement |
| --- | --- |
| `TypeCorrect` | `Spec => []TypeOK` |
| `AckedDurable` | `Spec => []AckedIsDurable` |
| `MemoryBacked` | `Spec => []MemoryIsBacked` |
| `DocumentBacked` | `Spec => []DocumentIsBacked` |
| `AckedProjected` | `Spec => []AckedIsProjected` |

and, for as many, when one of them handles the match at a time (`OneWriterSpec`;
section 4 says why):

| Theorem | Statement |
| --- | --- |
| `OneWriterImplements` | `OneWriterSpec => LedgerSpec`: it implements `MatchLedger` |
| `OneWriterOnlyGrows` | `OneWriterSpec => DocumentOnlyGrows` |
| `OneWriterKeeps` | `OneWriterSpec => []AckedIsKept` |
| `OneWriterLeavesItWhole` | `OneWriterSpec => []SettledIsWhole` |

and for every schedule, set of drivers, loop and bound, when a single process handles
the match (`Sole(c)`; `ReplayProofs`):

| Theorem | Statement |
| --- | --- |
| `CleanRestartsAreOwn` | `ReplaySpec => []CleanRestartIsOwn` |
| `CleanReplaysAreComplete` | `ReplaySpec => []CleanReplayIsComplete`, when the match is registered (`LiveMeta`, which `_prepare` sees to, `driver.py:111`) |

For every number of workers and shards and every bound (`ShardLeaseProofs`):

| Theorem | Statement |
| --- | --- |
| `LeaseTypes` | `Spec => []TypeOK`, with a fair share between one shard and all |
| `OneOwner` | `Spec => []OwnersHoldTheirLeases` |
| `NothingStolen` | `Spec => LeaseNotStolen` |

For every number of pages, tasks, messages, drops and restarts, every length of
the capped log and of a queue (`ChannelProofs`):

| Theorem | Statement |
| --- | --- |
| `SubscribedAlways` | `Spec => []SubscribedWhileWanted` |
| `NeverAGap` | `PromptSubscribe => (Spec => []NoGap)`; section 2 says what `PromptSubscribe` assumes of Redis |

For every set of posts, networks, searches and environments, every cap, window,
budget and age, every size of page, chunk, scan and index (`SocialProofs`, over
`KeyValue` and `SocialPlan`):

| Theorem | Statement |
| --- | --- |
| `WordingsOnce` | `Spec => []WordingsMeetAtExpiry` |
| `NobodyBuriesTheRest` | `Spec => []AccountsAreCapped` |
| `WithinBudget` | `Spec => []ReadsWithinBudget` |
| `NextMissesNothing` | `Spec => []NextReachesEverything` |

and for every capacity, number of attempts, set of competitions and list of big
leagues (`PollerProofs`):

| Theorem | Statement |
| --- | --- |
| `AlwaysPaced` | `Spec => []PacedByBucket` |
| `NeverMoreThanFive` | `Spec => []FiveAsked` |

For every set of matches, every outcome, number of threads and bound
(`CatalogueProofs`):

| Theorem | Statement |
| --- | --- |
| `SeededServed` | `Spec => []SeededIsServed` |

and for every match, every set of corrections and every order and number of
deliveries (`MatchFoldProofs`):

| Theorem | Statement |
| --- | --- |
| `FoldIgnoresArrival` | `Spec => []OrderIrrelevant` |
| `AskedLaterAsShown` | `Spec => []AskedLaterAnswersAsThen` |
| `GoalsCountAsDecided` | `Spec => []GoalsCountByLastDecision` |
| `GoalsNeverLeave` | `Spec => GoalsStayVisible` |
| `MetricsCountTheScore` | `Spec => []OneScore`, when own goals stand (`OwnGoalsStand`) |
| `LabelCountsTheGoals` | `Spec => []LabelCountsEveryGoal`, when own goals stand |
| `GoalsOutliveChances` | `Spec => []GoalOutlivesChance` |

`OwnGoalsStand` says that no correction disallows an own goal and that none falls
in a shoot-out. It is where the promise of the code holds: `effective_events`
removes the goal of a disallowed shot and not a disallowed own goal, and the
label counts an own goal of any period (section 7). The instance of
`fold_any_order` satisfies it.

Assumptions: those named in each module, and the hypotheses in the tables. In
`MatchFold`, `FoldRecords` says of the feed's data that an id or an index names one
event, that a shot and an own goal have one of the two teams, and that a correction
names one of them if any; the fields the code reads are there. In
`Ingest` - consumers, records and the null values are distinct, the sets of
records are finite (a version is a cardinality) and the parameters have their
types.

### The arguments

**Ingest.** `AckedIsDurable` is not inductive: at `Ack` one must know that the
messages taken are in the log, and nothing in the property says so. `IInv` adds
what links a position in the loop to what it holds:

- `TakenIsHeld`: every record taken from the batch is in the log in memory;
- `PhaseOK`: from `projecting` on there is nothing left to write (`fresh` is
  empty), and an idle consumer holds no batch;
- `MemoryIsBacked`: so the log in memory, and with it every taken record, is
  durable at that point;
- `TakenIsShown`: from the `STATE` write on, the batch's events were shown;
- `OneReset` and `BatchOrdered`: a reset marker, which drops the log in memory,
  can only come first in a batch (`ResetFirst`), so it never drops taken records.

`IInv` also was checked by TLC before it was proved. Each step theorem splits
`Next` by action; actions that touch one consumer share the frame lemmas
`MemoryFrame`, `OthersUnchanged` and `OnlyGrows` (the durable log and the shown
records only grow).

**One writer.** `Exclusive`: of two consumers one knows nothing of the match. It is
inductive because only beginning a batch makes a consumer remember (`RemembersStep`).
`InStep` says of each that the log in memory, if there is one, is the durable log and
what is about to be written; another one's append cannot break it, since who
appends is the one that remembers. So `PutState` writes exactly the durable log,
which is `MatchLedger!Rebuild`. `AckedIsKept` needs little more (`Kept`): what has been
taken is in the document once the `STATE` item is written, and a document always
has an event. `RebuiltOrLeft` is the step: the item is left alone
or rebuilt from the whole log. A failure, a skip or a crash leaves the message
pending, and the theorem speaks of every acknowledged message all the while.

**Both halves.** `Halves`: both halves are of one document, or somebody is between the
two writes, or some record is `Owed` - pending, and in no hands but those of one
that has still to project and whose log has an event to project. A crash or a fault
between the halves turns the second case into the third, since the batch is not
acknowledged (`Turn`: it holds a record); whoever takes that record up, redelivered
as it is, projects before it acknowledges, which leads back to the second. So
`Settled`, with nothing pending and nothing in hand, leaves the first. Nobody claims
what another one holds (`ClaimedIdle`, `Apart`), because nobody else holds anything
when a batch begins, and nobody writes `STATE` between another one's two writes
(`Exclusive`).

**Replay.** A clearing that finds nothing under way leaves the pipeline with
nothing to do (`Still`) until the marker is on the stream. From then on there is
a position `k`, the last marker, such that (`Since`) what is pending lies at or
after it, the store holds only records played after it, each of those is pending
or in the store, and `Flow` holds: what the worker has in hand is pending, and *as
long as nothing else is pending* both halves of the document are equal but between
the two writes, and cover the log but between a batch's first write and its
projection. The worker may still remember the old history,
so `InStep` is not true of it; but then (`Due`) the marker is the next message it
looks at, and it touches the store only after that, when it has forgotten. A
crash in between forgets too. That the driver is the only one (`Alone`) is part of
the invariant, because a second one makes the next clearing unclean. The steps of
the pipeline and `Play` are steps of `Ingest!Next`, so the lemmas about it serve
here; the types and `PhasesOK` hold whatever the restarts find.

**Shard leases.** `OwnersHoldTheirLeases` is inductive with `TypeOK`: a lease key
goes only when its worker is gone, gives it back or was paused (`lapses`).

**Channel.** `NothingMissing`: for a page that is being served, every message
from where it started to where the hub has got is received, or expired from the
log before the page came back, or on its way - in the backlog it was read, in its
queue or on the hub's connection. What makes this inductive is that each of the
three is in order and continues the one before (`InOrder`, `Resumes`), that the
capped log is a tail of what was sent (`LogIsTail`), and that a hub that serves a
page was subscribed before the page's backlog was read (`SubscribedFirst`; the only
place where `PromptSubscribe` is used).

**Social.** `Claims`: what an environment is going to store has its wording claimed
since its cycle began, and what is stored has it claimed to within one tick of the
body's own expiry. A claim names one post, so two posts of one wording are both
stored only in the last tick of the first. That a cycle takes no more than one tick
(`Shapes`) is what makes it one. `Caps` counts, for each account and day, the bodies and the posts in
hand against the counter: at most the cap under the counter that is there, and at
most one less than the cap under an expired one that went on counting before it
was swept. `Reads`: what was billed today and not charged is at most a page for each
environment between request and charge, each kill there and each lost answer, and
one that may still request has read a budget that had room. `AUTHOR_CAP = 1` had hidden that two
counters can follow one another in one window; the proof of the bound `AUTHOR_CAP`
did not go through, and TLC found the run with `AUTHOR_CAP = 2`.

`NextReachesEverything` rests on two invariants. `Indexed`: an index holds at most one
entry of a post, and of posts that no cycle takes again. A cycle only has posts in
hand that were not too old when it began (`Fresh`), each in one cycle only and with its
fingerprint claimed since then (`InHands`); such a claim lasts as long as the post is
kept, so a post once indexed is not taken again until then (`Never`, `Settled`). It
need not hold longer, which is why the property is about posts that are kept. Therefore what a reader was
shown to be listed is still listed only if it was all the time, and the trims take
from the lower end of an index, so a newer post of the same time stays as long as the
older one (`IndexesSlip`). `Reading`: the pages and the page being filled are newest
first, above the time the scan has come to, and whatever is listed is in them, has a
newer twin, or lies below that time (`Ahead`), unless the scan gave up. A chunk keeps
this because what it leaves out comes after its last row (`ChunkIs`). TLC checked the
invariants on the instance of `social` before they were proved. They rest on
`IndexConstants`: an entry is a time and an id that can be compared, and a chunk is
not empty.

**Poller.** `PacedByBucket` is not inductive: whether a request may be sent depends
on the tokens left. `Paid` adds that the requests of a stretch of time and the
tokens left together are at most a bucket, its refill and a bucket for each process
that came with a full one in between. For `FiveAsked`, `Budget`
adds up what has been asked and what the rest of the tick may still ask, stage by
stage, and needs what memory and store can hold after any kill. The proof showed
that the property spoke of finished ticks with the next tick's number, which is false
for more than two big leagues; it is now about a tick that is under way.

**Catalogue.** `SeededIsServed` is not inductive: the marker says nothing of what a
later, unfinished seed has replaced. `Stages` says what is complete at each stage
of a seed - its documents after the documents, the seasons after the seasons, each
part of the catalogue once it has been put - for the cards the seed has read, and
that the archive stands still as long as it runs. `Archived` adds that a document
on disk has its Parquet file, `Served` that what the marker names stays served,
because a later seed's cards are those of the marker and more, and a put by name
covers what was there. No property of the tables is needed.

**Match fold.** The log only grows, so each property is one of what a log is folded
to. `EventsInOrder` and `DecisionsInOrder` say that what is folded is an enumeration
of the log's records by keys that differ; `OneOrder`, that there is one such
enumeration; so nothing depends on the order or the number of deliveries.
`FoldedVerdict` follows one event through the recursion of `Verdicts`: after each
decision its verdict is what the last of the decisions about it made it.
`GoalListIs` and `GoalsRead` take the places of what was read one to one, and in
their order, to the places of the list of goals; with `PickedCount` counting in the
list becomes counting among what was read, where the score, the metrics and the
labels meet. `GoalsNeverLeave` follows because a record read once is read in every
longer log.

**Document.** `suppress_duplicates` takes the candidates in the order of their swing.
A mandatory one therefore finds only moments of at least its swing kept, so it is
kept unless one of those is near (`KeptAfter`), and once kept it gives way only to
a mandatory one (`MandatoryStays`). `select` keeps every mandatory moment it is
handed (`SelectKeeps`). So a goal that is missing had another mandatory moment,
a goal or a card, near it, and `GoalOutlivesChance` follows. Swings are assumed to
be numbers (`DocumentConstants`).

The library's induction theorems cannot be used, because they take an operator as a
parameter. Induction over numbers goes through sets instead: `Least` (a set of
numbers has a least one, from the well-foundedness of `<`) gives `Steps` (a set that
holds zero and every successor holds every number), and a lemma about a recursive
function names the set of numbers for which it holds.

Only model-checked:

- liveness, under fairness: out of reach of the installed provers;
- `ViewsAgree` and `LedeIsTrue` of `Document`, `ReplayTellsTheMatch` of `Schedule`
  and `TableFollowsRules` of `Catalogue`: they sort and fold with operators handed to
  the operators of the community modules, which the provers cannot expand. The rules
  of `LeagueTables` are applied one after another on ever smaller groups by such a
  fold.

## 7. Disagreements that no run shows

Found while modelling, outside the runs above:

- `repo.py:415-416`, "Two projectors racing on the same match cannot interleave":
  only the `STATE` item is written on a condition (`repo.py:432`), so of two projectors
  that write it one after the other the first may write the remaining items last. Everything
  is acknowledged and the document stays mixed.
- `projector.py:162`, "raises VersionConflict if we were overtaken": a worker with a
  log and no `last_doc` takes the version from the table right before its write
  (`projector.py:161`), so the condition checks nothing, and a log that lacks
  what another process has appended and acknowledged overwrites its document,
  although no two batches ever overlap.
- `SPEC.md:114-116`, every consumer is notified of a diff: a process that dies
  between the document write and `publish` leaves a change that the retry's diff
  no longer contains.
- `reclaimer.py:6-8` and `ingest_worker.py:4-5`, one writer per match: the
  reclaimer writes without a lease.
- `document.py:135-136`, corrections move every number: the shot map, the
  timeline and the report are given the uncorrected events.
- `match_state.py:449-452`: `effective_events` removes a disallowed shot's goal,
  not a disallowed own goal, so metrics and score differ then.
- `matches.py:146-148`, a goal "still counts at a minute before the VAR decision":
  a decision of first-half stoppage time may be sent when the second half has
  begun (`build_timeline.py:56-61`) but is filed under the first; asked for those
  minutes afterwards, `score_at` leaves out a goal that viewers still saw. What
  holds is `ReplayTellsTheMatch`.
- `corrections.py:36`, a reassignment changes the "attribution, the score does
  not": one that names another team moves the goal to it.
- `match_state.py:243-244`, "a partial log still projects": with only one
  team's lineup delivered, home and away may be the other way round until the
  other one arrives, and an own goal before any event of the second team is
  credited to nobody.
- `ws.py:117-118`: on the feed channel, which has several publishers, a higher
  number may be sent first and the lower one is dropped; and a connection
  without `since` skips messages that were numbered and not yet sent.
- `ws.py:102`: closing a slow client's socket twice ends the reader of the hub.
  `EveryMessageArrives` excepts this.
- `driver.py:148`: a stop sent while a driver prepares is overwritten; after
  `join(timeout=5)` two drivers play the match.
- `driver.py:242`: a start sent between two XREADs from `$` is lost.
- `driver.py:114-116`, "A restarted replay is a new history": records of the old
  run that a worker holds, or that are unread before the marker, reach the
  cleared log. `CleanRestartIsOwn` is about restarts that found nothing under
  way.
- `match_state.py:400`: Half End of period 2 makes a match `finished`, also one
  that goes to extra time; `document.py:300-301` says that a live report never
  knows how the match ends.
- `ws.py:8-10`, "no gap, no duplicates": a connection that resumes with an empty
  backlog keeps `last_seq` 0 (`ws.py:116`) and may be sent again what its page
  has.
- `matches.py:39-40`, "continue exactly from this state": the document is read
  before `seq` (`matches.py:47`), so what is written between the two is in
  neither the page nor the stream.
- `ingest_worker.py:83-87`: the share is rounded down and nobody takes the
  rest, so with three workers two of eight shards are read by nobody until the
  number of workers changes; the autoscaling of `compute_stack.py` passes
  through such numbers.
- `writer.py:92`: a side can have "trailed for -1 minutes", when it fell behind in
  minute 47 of the first half's stoppage time and equalised in minute 46 of the
  second half, and for 0 in all, which is then not called a comeback
  (`writer.py:88-99`). "The decisive goal in the last ten minutes"
  (`templates.py:109`) is one of minute 80 or later in any period (`writer.py:102`): a
  winner in minute 93 of extra time, with the rest of it to come, gets that sentence.
  `LedeIsTrue` says it of matches of ninety minutes.
- `selector.py:103`, "Always include goals": two goals within ninety seconds
  suppress each other, which is why `GoalOutlivesChance` speaks of chances only;
  and a moment reads the last correction of its event only.
- `tables.py:291-292`: a comment of `_break_tie` re-ranks the smaller group "from
  the top of the rule list", the code goes on with `rules[i + 1:]`. A season counts as
  covered when the teams that are present have met (`catalog.py:114-158`).
  `put_tables` deletes no table of an earlier build.
- `bootstrap.py`: an interrupted first build is not resumed; a re-seed that is
  interrupted leaves the old marker; an interrupted restore of the bucket is not
  repaired once it holds one object (`seed.py:124-158`); the players and the
  statistics may be computed from such a bucket.
- `social/store.py:57`: a process that dies between the claim of a wording and
  the pipeline loses the post for 72 hours, one that dies within the pipeline
  leaves a body that no index lists; between INCR and EXPIRE (`store.py:60-62`)
  an account's counter never expires. On DynamoDB a counter that has expired and
  was not swept goes on counting (`kv.py:201`).
- `store.py:39-40`, "the same post, however many times a bot sends it": a fingerprint
  is claimed before the body is written and for as long (`store.py:57`, `:83`), so it
  expires first, and a repeat found between the two is stored beside the body.
- `sources.py:428-430`, "a hard daily cap": an answer that comes after the timeout or
  does not parse is billed and raises before it is counted (`sources.py:449-464`).
  Each such answer, each further environment, and each kill between a request and
  its charge, may add a page.
- `store.py:155-158`: posts with the time of the last one of a page or chunk are
  skipped; a scan of 1500 rows without enough posts ends the feed; a stored post
  that is found again under another topic is not listed there.
- `store.py:46-48`, eight posts every six hours: the window starts with the
  first post and not with each, so up to sixteen fit into six hours; on DynamoDB
  a counter that has expired and is swept only after further posts makes fifteen
  of them possible at one time (`AccountsAreCapped` with a cap of eight).
- `fixtures.py:16-17`, at most five requests a tick: the first tick asks for up
  to eight and one after an interrupted tick for six. `http.py:79`: the last
  429, or a 5xx, raises an error that `tick` does not catch; the tick is lost,
  and if a table always fails so, the memory is never saved and the rotation
  stays where it is. `http.py:81` is unreachable. A round is taken off the queue before it is fetched and lost when
  that fails; `next_rounds` is never emptied.
- `http.py:15-16`, ten requests a minute, "exceeding it gets the key suspended, so
  the client paces itself", and `fixtures.py:16-17`, "a burst of retries never trips
  the limit": the bucket starts with the minute's ten tokens and refills at ten a
  minute while it drains, so the first tick's eight requests and three retries
  are eleven within the minute, and each run on Lambda brings another full bucket
  to the same key. What holds is `PacedByBucket`.
- `serverless.py:109`: new versions of the secrets are recorded before they are
  loaded; a load that fails is not tried again.
- The reset marker (`driver.py:118`) is not what keeps a clean restart clean:
  `replay_clean` passes without it, because a worker that remembers the old
  history conflicts on the version and reloads - provided something retries
  the messages it leaves pending.

## 8. Not modelled, and what is left

- Model training and prediction, and the metrics other than goals: floating
  point arithmetic.
- The adapters of the feeds but for the poller's requests, the SQL of the
  archive, the item encoding: conversions without state of their own.
- The declarations of the infrastructure without behaviour, the read-only routes
  and the web pages but for the live client.
- In `Channel`: a break of a hub's connection to Redis, a connection without
  `since`, and the feed channel with its several publishers.
- In `Social`: the hashtag index and the overview computed from it.
- In `Schedule`: a reassignment, which only `inject`'s other callers may ask for.
- In `Poller`: two Lambda runs that overlap, and the poller without a key.
- `refresh_secrets`.

Worth proving next: `ViewsAgree` of `Document`, which compares two folds over
different selections of the same log.
