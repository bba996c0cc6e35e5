# TLA+ models of semconv-proxy

semconv-proxy sits between OTLP clients and a backend.  It forwards every export
request and, beside the request path, extracts attribute names and values from a
copy of the payload into an in-memory dictionary (persisted in Pebble) and a
cardinality tracker, both served by a REST API that also generates OpenTelemetry
Weaver registries.  The modules here model the parts whose correctness depends on
interleavings, bounds, failures and shutdown; TLC checks them on small instances
and TLAPS proves the central facts for every size.

## 1. Inventory

Paths are relative to `src/internal/` unless they start with `cmd/`.

| Component | State | Operations | Interacts with |
|---|---|---|---|
| Receiver `receiver/otlp.go` | HTTP and gRPC servers | three HTTP handlers, three gRPC `Export`s, `Start`, `Stop` | forwards through the forwarder, then writes a task into the ring buffer |
| Forwarder `exporter/forwarder.go` | sent/error/byte counters | `Forward*` with three attempts and backoff | backend; the request's context |
| Analysis buffer `analysis/ring_buffer.go` | ring, `head`, `tail`, `full`, counters, channel | `Write`, `Channel`, `Len`, `Count`, `Dropped` | written by request handlers, read by workers, sampled by the metrics updater |
| Worker pool `analysis/worker_pool.go` | goroutines, context, `processed` | `Start`, `Stop`, `work`, `processTask` | channel -> extractor -> dictionary and tracker |
| Extractor `analysis/extractor.go` | none | protobuf payload to (name, value, type) lists | worker pool |
| Dictionary `dictionary/` | shards of entries, `totalCount` | `Upsert`, `Get`, `Delete`, `List`, `Count`, `MarkStale`, `PurgeExpired`, `Filter` | workers, TTL sweeper, API, shutdown |
| Cardinality `cardinality/` | per-attribute exact map, HyperLogLog, top-k, totals | `TrackValue`, `Cardinality`, `TopValues`, `GlobalUtilization` | workers, API |
| Persister `storage/` | Pebble, two bounded channels, pending batch | `Enqueue`, `DeleteByName`, `LoadAll`, `drainLoop`, `Start`, `Stop` | shutdown, sweeper, startup |
| Lifecycle `lifecycle/`, `cmd/semconv-proxy/main.go` | component list, root context | `StartAll`, `StopAll`, signal loop, SIGHUP reload, TTL sweeper, metrics updater | everything |
| Health `health/` | status per component | `Register`, `Update`, `IsReady`, `IsAlive` | main, API |
| Config `config/` | settings | defaults, file, env, flags, `Validate`; reload in main | main, sweeper |
| REST API `api/` | handlers over the stores | dictionary, cardinality, compare, search, builder, export, health | dictionary, tracker, registry, weaver |
| Semconv registry `semconv/` | parsed embedded registry | `parse`, `Search`, lookups | API |
| Weaver export `export/` | none | `Generate`, policy emission, `BundleZip`, `Export` | API |
| Builder page `api/ui/builder.js` | form, debounce timer, preview | seed, edits, preview, validate, download | API, a browser |
| Metrics `metrics/` | Prometheus collectors | registration | all |

What is hard, and what correctness means, per component:

* **Analysis buffer.** `Write` stores into a ring under a mutex and then, outside
  it, offers the task to a channel.  The two stores have different overflow
  policies, and only the ring's is counted.  Correct: no task is duplicated, a
  task is lost only when the channel is full, no loss escapes the counters, the
  writer never waits.
* **Worker pool.** Every worker races a cancellation.  Correct: what was queued
  is processed once, a cancelled pool stops, a stopped pool is silent.
* **Dictionary.** `Upsert` reads under a lock, decides on the budget without one
  and writes under another; the sweeper deletes in between; a counter is kept by
  hand, and the start fills the dictionary from what earlier processes stored.
  Correct: the budget bounds the dictionary up to the number of racing workers, the
  counter agrees with the shards, the metrics account for every entry that was not
  restored, only idle attributes age out.
* **Persister and shutdown.** A consumer goroutine with two queues is cancelled by
  the same context as the workers that feed the dictionary, before the entries are
  written out.  Correct: what was observed survives a restart, what was purged
  does not come back.
* **Cardinality.** Workers race over a budget and, per attribute, a mutex; a
  reader of the top values takes no lock.  Correct: no more attributes than the
  budget, the count-min sketch never undercounts, counting is exact up to the cap,
  the answer leaves out no value that is more frequent than one it contains.
* **Forwarder.** Retries race the client's cancellation, the backend's answer and
  its late acceptance.  Correct: bounded attempts, each signal in at most one
  outcome counter, "sent" only for what the backend took, one analysis for each
  answered request.
* **Lifecycle, health.** Components start in order and stop in reverse order under
  one shared context, which cancels the store before the last entries are handed to
  it.  Correct: what the dictionary holds at the end is in the database or its loss
  is explained, a signalled process ends, a failed start closes what it opened, a
  process that says it is ready takes requests and holds what was stored.
* **Listing.** `List` copies one shard after the other, each page is cut from
  another copy, and what a filter lets through changes as entries gain signal types.
  Correct: what matches all the time is listed, what never did is not; pages over
  unchanged matches contain every match once.
* **Registry and compare.** The parser merges many mentions of a name into one
  item; the index, the search and the classification agree with it, although the
  dictionary changes while the comparison reads it.
* **Extraction.** A payload mentions a name at many levels, with several types and
  values; workers pass the results on one by one, interleaved.  Correct: the
  dictionary holds what some payload said, the first mention's type, all the signals;
  a value is tracked once for each payload that contains it.
* **Weaver, policies, builder.** File names are derived from what a user typed and
  may collide; the page asks again while answers are under way.  Correct: nothing
  authored is lost or doubled, a check reports what it was written to find and
  nothing else, what is validated is what is generated, the preview is current.
* **Configuration, reload.** Four sources in an order of precedence, a reload onto a
  copy, two fields written one by one while the sweeper reads them.  Correct: what is
  in force is what the sources say, new TTLs take effect, a sweep that meets a
  reload half-way purges nothing it should keep.

The hazards, each at its line and with the properties that would catch it going
wrong, are in `PROJECT.json` under `hazards`.

## 2. Plan

A component has a module, an `MC` module with its instances, one `.cfg` per
question, and a module of proofs where something is proved for every size.

Built, in this order:

1. `RingBuffer` with the abstract `LossyQueue`; `AnalysisPipeline` extends it by
   the worker pool; `PipelineProofs` for both.
2. `Dictionary` (upserts against the sweeper) and `DictionaryProofs`.
3. `Persister`, and `ProxyLifecycle`, which extends it by main, health, the
   receiver, the workers and the sweeper, reduced to what reaches the disk;
   `LifecycleProofs`.
4. `CardinalityTracker` and `CardinalityProofs`.
5. `Forwarding`, a request from its arrival to its answer.
6. `DictionaryListing`; `ApiProofs` for it and for the builder's session (9).
7. `SemconvRegistry` (operators) and `RegistryCompare`, which extends it by the
   two endpoints; `RegistryProofs`.
8. `Extraction`, from payloads to the dictionary and the tracker; `RequestProofs`
   for it and for `Forwarding`.
9. `WeaverBuilder` (operators) and `BuilderSession`, which extends it by the
   page and the API client.
10. `Housekeeping` (configuration, reload, the sweeper's ticker) and
    `HousekeepingProofs`.

To come, the most valuable first: the older endpoint `/weaver/export`
(`export/weaver.go` `Export`); the metrics updater, which reads what is modelled and
writes gauges; the ranges that `Validate` checks.

## 3. The modules

### RingBuffer, LossyQueue, AnalysisPipeline

`RingBuffer` keeps the fields of the Go struct (`buf`, `head`, `tail`, `full`, the
write and drop counters) and the channel.  A `Write` is three steps: the store
under the mutex, the counters after it, and the `select` with a default that offers
the task to the channel.  A fourth step before them stamps the task, since the
handler calls `time.Now()` before `Write`: two handlers may store in the other
order.  `AnalysisPipeline` adds the goroutines of `worker_pool.go` (`Take`,
`Finish`, `Exit`), the cancellation and `Stop`.

`LossyQueue` is the abstract specification: a queue of bounded length whose
producers never wait, where an item put into a full queue costs one counted item.
Its constant `Evicts` says whether the oldest pays or the newcomer.  Two refinement
mappings show what the code does: the ring implements it with `Evicts = TRUE`
(`RingEvictsOldest`), the channel, which is all the workers read, with
`Evicts = FALSE` (`DeliveryRefusesNewest`).

### Dictionary

The state is `dictionary.go`'s: the entries (each name in the shard its hash
says), `totalCount`, and the counters of entries added and removed.  `Upsert` is a
machine with a program counter per worker: look up under the read lock, compare
`totalCount` with the budget under no lock, merge under the write lock, add to the
counter, report the change to the metrics.  Before all this `main.go` upserts what
`LoadAll` returned (`toLoad`): an entry is new (`LoadNew`), a second key of a name
already there (`LoadAgain`) or over the budget (`LoadRefused`).  None of these counts
as added, and a name with two keys ends with the `last_seen` of the later key, be it
the older time; the history variables start from there.  `Sweep` is the goroutine in `main.go`:
it fixes the time, marks stale shard after shard, purges shard after shard, and
then counts the removals.  `Tick` is time.  `Delay` is the one assumption about the
environment: how old a stamp can be when its upsert reaches the dictionary.

### Persister, ProxyLifecycle

`Persister` has the two bounded channels, `drainLoop`'s pending batch and list of
names, and the database as a set of storage keys (signal type and name, as
`dictKey` builds them), which earlier processes may have left in any state.  A
commit may fail, after which its content is gone, as in the code; `LoadAll` skips
any entry it cannot read.  Once its context is cancelled `drainLoop` applies what it
has gathered (`LastWrite`, `LastDelete`) and does not look at its channels again.

`ProxyLifecycle` puts it in a process: boot with some budget, load entry after
entry, start (a port may be taken), serve, and on a signal cancel first and then
stop the components in reverse order.  `health` has the aggregator's statuses as
main sets them, and `/readyz` answers from them.  The receiver's `Stop` gives up on
HTTP handlers after five seconds (`HttpStopped`), so one may still hand in a task
while the rest is stopped; then `GracefulStop` waits for the gRPC calls under way
without a limit (`grpc = "held"` until `CallsEnd`, `GrpcStopped`).  A crash may happen
at any step and a new process loads what the database holds.

### CardinalityTracker

`TrackValue` in its three critical sections: the atomic `totalEntries`, the lookup
or creation of the attribute under `Tracker.mu`, the update under the attribute's
own mutex, in which every row of the count-min sketch is a step because
`TopValues` takes no such mutex.  `TopStart`, `TopVisit`, `TopLate` and `TopReturn`
are `TopValues`: Go's `range` over a map visits every value that was there when it
began and may or may not visit one added meanwhile.

### Forwarding

A request's handler goroutine from its arrival to its answer: `withRetry`'s loop,
the attempt, the `select` between the backoff timer and the request's context, the
counters, the hand-over to the analysis buffer.  Its specification is called
`ForwardSpec`, so that one module of proofs can extend it beside `Extraction`.  `wire` and `accepted` are the
network and the backend (external): a transmission may be accepted, refused or
lost at any time, also after the forwarder has given it up.

### DictionaryListing

`GET /api/v1/dictionary`: the limit and the offset as the handler parses and caps
them, the copy shard after shard, the filter, the sort and the page cut from the
copy.  The dictionary is the signal types of each entry, which `Upsert` extends; a
filter is the names `q` lets through and a `type`, and `Matching` is what both let
through now.  The copy holds live entries, so one that gains the type after it was
copied and before the filter ran may be found or not: these are `late`, and
`Answer` takes any of them.  `AskNext` is a client that reads on where the last page
ended.

### SemconvRegistry, RegistryCompare

`SemconvRegistry` translates `parse`, the backfill of an item from later mentions,
the index, the lookups and the ranked, faceted, paged search as operators; what
text matches what is a constant.  `read` is the history of the mentions parsed, in
order, which the properties speak of.  The search works on the places of the items:
those that match, those selected among them, and a ranking of these.  `RegistryCompare` is the handlers over them:
`Compare` takes the filtered entries, `CompareNext` classifies one after the other
by the type it has at that moment, and `Observe` changes types meanwhile, among those
the extractor can give (`WireTypes`).  `Seed` is the builder's variant.  What the
answer is checked against is stated over the types themselves (`OnTheWire`,
`Contradicts`), not with the code's conversion of them.

### Extraction

A payload is a tree of resources, scopes and items with an attribute map at each
level.  `Extract` is the worker's walk over it, with its two rounds of
deduplication: `AllAttrs` keeps each (name, value) pair once, `DedupByName` each name
once, the first mention deciding the type.  `Upsert` and `Track` are the loops of
`processTask`, one call a step, so that the calls of several workers interleave, and
`Finish` is the end of the task.  A value that renders as nothing is not passed on.  What
protobuf can decode is `Resource` and the sets it is made of: attributes of any type, on any
number of levels.  The budgets of the two stores belong to `Dictionary`
and `CardinalityTracker` and are left out here.

### WeaverBuilder, BuilderSession

`WeaverBuilder` translates `Generate` as operators from a posted project to the
manifest, the files of `groups/` and `policies/` by their names, and `.weaver.toml`:
groups merged by their sanitized namespace (`MergeGroup`), one rego file per policy with
a name made unique (`AddPolicy`), the manifest with its dependencies; `Respond` adds the
validation of the handler.  A content is a record of what the file says.  A brief is a
sequence of pieces of text, and it is dropped when it is a part of the brief so far, as
`strings.Contains` has it: at the boundaries of words or within one.  A sanitized name
is a stem and the numbers after it (`Name`), so that the suffix of `uniquePolicyName` is
one more number, and `mine_2` is the same name whether it was typed or suffixed.  What Weaver makes of the files (`Runs`, `Denies`, `Findings` in
`BuilderSession`) is read off the templates' text and is part of the properties, not
of the program.

`BuilderSession` has the clients.  `Post` is an API client's one request.  The page
is a form whose every edit restarts the debounce timer (`Edit`: one disjunct for the schema
URL, the rows, the checks and the configuration), posts when it ends
(`Fire`), shows an answer (`Arrive`) or an error (`Lose`); requests under way are not
cancelled, so answers come in any order.  `BuildState` is what the page posts: one
group per row, complete checks only (`KeepComplete`).  Its specification is called
`SessionSpec`, so that one module of proofs can extend it beside `DictionaryListing`.

### Housekeeping

`config.go` and the part of `main.go` that uses it: `Effective` overlays file,
environment and flags; `Hangup` is SIGHUP, which overlays a copy of the running
configuration, changes the log level at once, and then writes the two TTLs one by one
(`SetTTL`).  `Tick`, `Purge` are the sweeper: its interval is computed at boot, each
pass reads its TTL as it is then.  One setting stands for each kind: the endpoint
(read once, may not be empty), the level (reloaded if known), the TTLs (reloaded if
positive).

## 4. What is checked

Eleven runs pass, one finds a documented statement violated.  `CHECK_DEADLOCK
FALSE` stands where the system or the model's bounded input may really stop: every
task of the model is written and processed, every request answered, every edit made, the
process stopped for good.

| Run | Properties | Instance, and why it is enough |
|---|---|---|
| `analysis_pipeline` | `LossesAreCounted`, `EachTaskInOnePlace`, `RingEvictsOldest`, `DeliveryRefusesNewest`, `SentIsProcessed`, `CancelledStops` | capacity 2, two handlers, two workers, four tasks: ring and channel both overflow, indices wrap around, handlers overtake each other |
| `dictionary` | `CountAccounting`, `BudgetOvershoot`, `MetricsBalance`, `LastSeenLag`, `StaleIsOld`, `PurgedWasIdle`, `IdleIsPurged` | three names in two shards, two workers, budget 1, TTLs of one tick, a start at 1, a clock to 4, two upserts, and three databases (none; two names for a budget of one; one name under two keys, the later the older): 660,032 states in which the budget is overrun, the start is refused, a name goes stale, is purged and returns, a restored name is purged, a purge falls between lookup and store |
| `lifecycle` | `UnsavedIsExplained`, `OnlyForgottenLeave`, `ReadyIsTrue` | two names with two signal types (a name has two storage keys), any of the sixteen databases over them, batches of 2, commits and reads that fail, a budget of 1 or 2 (one refuses a stored name), one task (observed after two purges it fills the delete channel); the names are symmetric.  One process, for each begins with an empty memory and this one with any database: a second one adds nothing |
| `lifecycle_live` | `PurgeReachesStore`, `SignalStops` | one name with two storage keys, two tasks, so that its deletion may fill a batch, meet a full channel or a failing commit |
| `cardinality` | `AttrsWithinBudget`, `SketchNeverUndercounts`, `ExactUpToCap`, `TopIsTop` | two attributes for a budget of 1, three values for a cap of 1, a sketch of 2 by 2 with collisions, two workers, four calls, one reader |
| `forwarding` | `OutcomesBalance`, `SentWasAccepted`, `AnalysedOnce`, `ReadIsAnswered` | two requests with the code's three attempts: every pair of outcomes, late acceptance of an abandoned attempt |
| `dictionary_listing` | `WalkIsExact`, `PagesAgree` | three names, two of them in one shard so that copy order is not name order; two signal types, filtered by names or by a type; no limit, pages of one and of two |
| `registry_compare` | `LookupFindsFirst`, `SearchAgrees`, `CompareIsRight` | all snapshots of up to four mentions from five groups (a definition, a bare mention, a deprecation, a second type, signals that carry them), every query of 50, two observations (string, int, bool) around and during a comparison |
| `extraction` | `DictionaryIsWhatWasSaid`, `ValuesOncePerPayload` | two workers, any two payloads of 24 and an unreadable one: the three signals, names mentioned at several levels with another value or type, values that render alike, points against spans |
| `builder` | `NothingAuthoredIsLost`, `FindingsAreDeserved`, `ValidationCoversGeneration`, `PreviewIsCurrent` | some 1320 posted projects (up to three groups with colliding, missing and explicit namespaces, briefs of which one is part of another, between words or within one; up to three checks with equal names, raw text or missing parameters; manifests and configs) and every session of three edits after the seed: the least in which an answer to one edit comes after the answer to the next and a third clears the schema |
| `housekeeping` | `SettledIsWanted`, `TTLsTakeEffect`, `OnlyStalePurged` | seven files (one unreadable, one with a text that is no duration, unknown level, single and both TTLs), three environments, three sets of flags, two reloads, a clock to 9, a boot at 3, intervals of 1 and 2: several sweeps before, between and after the reloads |
| `graceful_shutdown` | `GracefulShutdown` violated | batches of 1, no commit fails: the loss is due to the order of the shutdown alone |

The bounds of the models are `MaxTasks`, `MaxUpserts`, `MaxTime`, `MaxCalls`,
`MaxBoots`, `MaxMentions`, `MaxObserved`, `MaxRows`, `MaxEdits`, `MaxClock` and
`MaxReloads`; each is a guard of the action it bounds or limits the set an input is
taken from.  Behind a queue of capacity 2 a further task only repeats an overflow; two
workers are the least that race, and the proofs cover the rest where there are any.

What the properties mean for a reader of the code:

* The pipeline may lose tasks (that is its design), never without counting, never
  twice; a task that reached the channel is processed unless the pool is cancelled.
* The added and removed metrics account for every entry *together with* what the start
  restored, which no metric counts; after a restart their difference is less than the
  number of entries by that much, and may be negative.
* `Count()` is *not* the number of entries; it is that number less the increments
  workers still owe and less the stores that found their name purged under them.
  The budget may be exceeded by the other workers and by those stores, not more.
* `last_seen` may lie behind the newest observation, because a merge overwrites it
  with an older stamp, but by at most the pipeline's delay; so nothing recently
  stored is purged, and nothing is marked stale but by a sweep that found it old or by
  the process that stored it.
* Only what the sweeper forgot leaves the database, whatever crashes; a purge
  eventually reaches the disk only if the process lives and the delete queue took it.
* When a process has ended, a name of its dictionary that the database lacks was turned
  away by the full channel, left in it because `drainLoop` had gone, part of a commit
  that failed, or purged before and deleted after it was written again.
* A process that answers ready takes requests on both protocols.  A stored name that it
  does not hold was turned away by the budget at the start; or could not be read,
  written or deleted; or was purged and is on its way out, was turned away by the full
  delete channel, or is left to the next start by a shutdown that has begun, for
  `drainLoop` may then end with its queue unread.  A budget below the number of stored
  names is allowed, and those it refuses stay in the database.
* A list shows what matches all the time it is made.  Reading page after page repeats a
  name only if something came to match -- a new entry, or an entry's new signal type --
  and misses one only if a match was purged.
* A signal is counted as sent only if the backend accepted it; the converse is
  false (it may accept an attempt whose answer was lost), as for any retry.
* An attribute's type is the one of its first mention in a payload, and the last
  payload upserted decides between payloads, in the order the workers happen to go on;
  a value is counted once per payload, however often it occurs in it.
* In a generated registry every authored attribute is in the one file of its sanitized
  namespace, and the *text* of every brief is in that file's brief; a brief that is a part
  of an earlier one, even within a word, is not repeated there as one of its own.  A policy
  with a name denies exactly what it was written to deny.  The page's
  preview is current only once it is at rest, and only if no answer was overtaken.
* A setting is what its highest source says, except that a reload keeps what the file
  no longer mentions; a name outlives a changed TTL by at most one interval of the boot.

### Fairness

* `AnalysisPipeline`: weak fairness of a handler with a task in hand, of `Finish`
  and `StopReturns` (goroutines that can run are run); strong fairness of `Take` and
  `Exit`, for Go picks uniformly among the ready cases of a `select`, so a case that
  is ready again and again is taken in the end.  No fairness of clients or of the
  cancellation.
* `Dictionary`: weak fairness of the load, the sweeper, time and a worker inside
  `Upsert`.
* `ProxyLifecycle`: weak fairness of the shutdown, the sweeper's hand-over, the drain
  loop and the workers; strong fairness of the drain loop's last write and of
  taking a deletion, again cases of a `select` beside a ticker.  None of `CallsEnd`:
  when a gRPC call ends is up to its client and the backend, and `GracefulStop` waits
  for it.  `SignalStops` therefore says that a signalled process ends *or* a gRPC call
  holds it for ever.
* `Forwarding`: weak fairness of a handler once it has begun; the HTTP client's
  timeout ends every attempt and a timer every backoff.

`Extraction`, `BuilderSession` and `Housekeeping` state no liveness: their deadlines
(`TTLsTakeEffect`) are safety properties of a clock.

### Where code and documentation differ

Shown by a run and listed under `findings`: a graceful shutdown loses what it should
persist.

Met while modelling, without a run of their own; the model follows the code:

* `docs/architecture/components.md:63` says the buffer drops the oldest: the channel
  refuses the newest.  `pipeline_drops_total` counts what the ring evicts, whether
  or not a worker saw it (`docs/api/metrics.md:70`), and `Len()` stays at the capacity
  once the ring is full, because nothing takes from it.
* `docs/architecture/data-flow.md:3,119` promise no loss on the forwarding path: a request
  whose attempts all failed is answered as a success and its signal is gone; nothing is
  retried "in the background" (`data-flow.md:59`).  `data-flow.md:56` says "up to 3 retries":
  three attempts.  A request cancelled by its client is in no outcome counter.  The
  forwarded metric has the label "http" for gRPC requests too.
* `docs/api/metrics.md:40` calls `Count()` the number of entries; it drifts
  (`dictionary/dictionary.go:66`, `CountAccounting`).  `metrics.md:41-43` has totals of
  entries added and removed: a restart adds entries no total counts and later counts
  their removal (`cmd/semconv-proxy/main.go:155-157`, `MetricsBalance`).
* `StopAll` gives the components a context with a timeout (`lifecycle/coordinator.go:45`)
  that `GracefulStop` does not know of (`receiver/otlp.go:97`): one gRPC call that does not
  end holds the process, and what it observed is not handed to the store meanwhile.
* `docs/getting-started/configuration.md:81` speaks of eviction at the budget: there is
  none, and racing workers exceed it.  `configuration.md:123` speaks of recovery after a
  crash and `components.md:114` of writing behind: only the stop function enqueues
  entries.  `components.md:120` says failed writes are retried and that the proxy goes
  on in memory: a failed batch is dropped and a failed open ends the start
  (`cmd/semconv-proxy/main.go:145-147`).  `components.md:182-188` gives another order of
  shutdown.
* `configuration.md:61` says all settings are environment variables: six are
  (`config/config.go:134-140`).  `configuration.md:148-156` reloads the log level only:
  the TTLs are reloaded too, an unknown level drops them, a key taken out of the file
  keeps its value, and `Validate` is not run again.
* `docs/api/health.md:34` makes "dictionary loaded" a condition of readiness: a load
  that failed, or stopped at the budget, is ready as well, and so is a degraded component.
* `docs/api/dictionary.md:19` gives a maximum of 1000: `limit=0`, a negative or an
  unreadable one returns every entry (`api/handlers.go:25-34`), and `total` counts the
  dictionary, not the matches.  `dictionary.md:45-48`: `sort=cardinality` compares a
  field nothing sets.
* `semconv/registry.go:185-187` says the first definition with a brief wins: the
  backfill is field by field, so type and brief may come from different groups.  A
  comparison calls an enum of integers observed as integers a mismatch
  (`api/handlers_compare.go:129-149`).
* `configuration.md:89`: beyond the per-attribute cap an estimate takes over
  (`cardinality/tracker.go:68`); it starts from nothing there, so it may say fewer than the
  values already seen.  The tracker's global budget counts calls of `TrackValue`, not
  attributes, so the attributes admitted may be fewer; `TopValues` ranges over a map that
  workers write, which the Go runtime may answer by ending the process (the model has the
  outcomes in which it does not).
* `docs/operations/weaver-builder.md:81`: two allow-lists without names share the helper rule
  `namespace_allowed_<base>`, and rego joins rules of one name, so each also allows what
  the other does.  `weaver-builder.md:91`: a list field of separators alone passes the
  page's check and ends in a 500.  `weaver-builder.md:33-35,44`: the preview may show an answer
  that was overtaken, and fills again after the schema was cleared.  `weaver-builder.md:42,114`
  name `registry_manifest.yaml`, `:116` `groups/acme.payments.yaml`; the code writes
  `manifest.yaml` and `groups/acme_payments.yaml`.  `export/weaver.go:187-189` says group ids are
  unique: two groups with the same authored id keep it.  `export/weaver.go:216` says
  distinct briefs are concatenated: one that is a part of the text so far is not
  (`:219`), "pay" after "payments due" for instance.
* `docs/api/weaver-export.md:51` says `type=metric` exports metric conventions only:
  `export/weaver.go:308-313` writes a group for every signal of each entry that has the
  type; ids of `a.b` and `a_b` collide; `prefix` (`weaver-export.md:17`) matches anywhere in
  a name; the group type is `metric_group`, not `metric` (`:84`).

## 5. What is proved

TLAPS checks `Spec => []P` (for the refinements `Spec => P`) for every value of the
constants that satisfies the module's named assumptions (finite sets of workers,
handlers or requests, positive sizes, a hash into the shards or columns).  An invariant
that is not inductive is strengthened first; TLC checked each strengthening.

| Module | Theorem | Property | Argument |
|---|---|---|---|
| `PipelineProofs` | `TypeCorrect` | types of the buffer | one step per action |
| | `LossesCounted` | `LossesAreCounted` | `CountingInv`: the ring fills before it evicts, the stores cover the outcomes, a task is lost only after the channel filled, what is queued was sent |
| | `RingCorrect` | `RingEvictsOldest` | `ContentsShape`: the slots from tail to head, in order, are the queue; a store is the abstract `Put`, every other step a stutter |
| | `DeliveryCorrect` | `DeliveryRefusesNewest` | `WithinCapacity`, `OwnTasks`: handlers hold distinct tasks, so a refused one is another loss |
| | `PlacesCorrect` | `EachTaskInOnePlace` | `PlaceInv`: handlers, channel, workers and the sets of finished and lost tasks are disjoint and without repetition |
| | `PipelineLossesCounted`, `PipelineRing`, `PipelineDelivery` | as for the buffer | the pipeline implements the buffer (`PipelineIsBuffer`), whose theorems then apply |
| `DictionaryProofs` | `TypeCorrect`, `CountCorrect` | types, `CountAccounting` | inductive as they stand, with lemmas on the cardinality of the sets of workers at a step |
| | `OvershootBounded` | `BudgetOvershoot` | `BudgetInv`: counter plus workers under way is at most budget plus workers less one; the last worker admitted saw the counter below the budget |
| | `LagBounded`, `StaleCorrect`, `PurgeCorrect` | `LastSeenLag`, `StaleIsOld`, `PurgedWasIdle` | `AgeInv`: stamps lie in the past and within the delay; staleness follows from the lag, but for entries still as the database had them |
| | `MetricsCorrect` | `MetricsBalance` | `MetricsInv`: what was added or restored, less what was removed, is what is there; what the sweep purged so far lies in the shards it has passed, so no name is purged twice in a pass |
| `ApiProofs` | `TypeCorrect`, `ListingCorrect` | types, `WalkIsExact` | `WalkInv`: what matched all through is in the copy once its shard is, and what the copy has or may still be found in it did match at some time |
| | `PagesCorrect` | `PagesAgree` | `NoneMissed`: a match not yet shown has at least `offset` matches before it; `NoneRepeated`: one already shown has at most `offset` up to it, as long as no name came to match.  The lemmas say which positions of a sorted list a page holds |
| | `PreviewCorrect` | `PreviewIsCurrent` | `EditsInv`: requests and answers belong to edits of the past; `AskedInv`: the latest edit is on its way, under way or was shown, and what is under way for it is the form as it is; `ShownInv`: shown last, the preview is the form's |
| | `ValidationCorrect` | `ValidationCoversGeneration` | `AnsweredInv`: the form's checks, and so those of every request of the page, are the templates' with a list the user typed; the fold that keeps the complete ones keeps only such, and `OnlyListsRefused` says which of them emit nothing |
| | `MergeCorrect` | `NothingAuthoredIsLost` | `GroupFilesSay`, by induction over the inputs: after each of them every file says all that the inputs of its namespace so far say (`MergeSays`), and the text of a brief that was taken in stays a part of every later one (`RunStays`, `WithBriefKeeps`) |
| | `FindingsCorrect` | `FindingsAreDeserved` | `FreshName`: of one more suffix than there are names one is free (pigeonhole), so no check replaces another (`PolicyFilesSay`); `AttributesOfFiles`, from the lemmas of the merge: Weaver sees the authored attributes with their defaults; `DenialDeserved`: a rule denies what its check and those of the same name forbid; `ConfigLeads` |
| `RequestProofs` | `SentCorrect`, `AnalysisCorrect`, `BalanceCorrect` | `SentWasAccepted`, `AnalysedOnce`, `OutcomesBalance` | `StageInv`: how a handler's place determines its outcome, its reply and its analysis; the counters by the handlers' places |
| | `TypeCorrect` | types of the work, the dictionary and the calls | each helper of the walk maps sequences of mentions to such |
| | `DictionaryCorrect` | `DictionaryIsWhatWasSaid` | `DictInv`: what a worker holds or an entry says was said by a payload taken; a name of a payload taken is recorded or in a worker's hands.  `ResultSummarises`: the two rounds of deduplication keep each name once, with its first type |
| | `ValuesCorrect` | `ValuesOncePerPayload` | `ValuesInv`: a pair was passed on as often as payloads had it, less the workers that still owe it; no worker owes one twice |
| `CardinalityProofs` | `BudgetCorrect` | `AttrsWithinBudget` | `CountedInv`: attributes tracked plus workers between the counter and the lookup never exceed the counter |
| | `SketchCorrect` | `SketchNeverUndercounts` | `MutexInv` and `RowInv`: one worker adds to an attribute at a time, and the rows it has passed are one ahead |
| | `ExactCorrect` | `ExactUpToCap` | `ExactInv`: what is kept exactly is what was given, until it is more than the cap |
| | `TypeCorrect`, `TopCorrect` | types, `TopIsTop` | `TopTypeInv`, `TopAll`: the heap holds at most K values of those looked at, and a value left out is below its minimum; that the minimum of a finite set exists is an induction over its size |
| `RegistryProofs` | `LookupCorrect` | `LookupFindsFirst` | `RegistryInv`: the items say what was read (`Say`): a key each, an item for every mention, every field the first mention's that has it; sorting leaves this so, and the index is the items' |
| | `CompareCorrect` | `CompareIsRight` | `LoopInv`: what is listed is what is still to come, in name order, and what is done; every name done is counted once, and one that kept its type lies in its bucket or found it full; `ConflictIs`: the code's conversion of types finds a conflict exactly where the reference does |
| | `SearchCorrect` | `SearchAgrees` | `SearchInv`: what was answered comes from one ranking of the matches.  Two items never each come before the other, so as many precede a match as its place says; the sets the facets count are those the narrower searches match |
| `LifecycleProofs` | `TypeCorrect` | types of the process | one step per action |
| | `UnsavedCorrect` | `UnsavedIsExplained` | `StoppingInv`: once the workers are gone the dictionary gains no name; `HandedInv`: each of them has yet to be handed over, is in the channel or the batch, in the database, or has met one of the fates |
| | `ForgetCorrect` | `OnlyForgottenLeave` | `OnlyForgotten`: what the sweeper hands over, the delete channel and the pending deletes are names this process forgot |
| | `ReadyCorrect` | `ReadyIsTrue` | `ServingInv`: while ready, main serves or has just been signalled; `LoadedInv`: a stored name has yet to be loaded (`Loading`), is in the dictionary, was refused or lost, or was purged and is where its deletion got to (`Due`, `Leaving`).  No assumption on the budget |
| `HousekeepingProofs` | `TypeCorrect` | types of settings and sweeper | one step per action |
| | `SettledCorrect` | `SettledIsWanted` | `SettledInv`: what is in force once the writes still to come are done |
| | `PurgeCorrect` | `OnlyStalePurged` | `BetweenInv`: between its two passes, without a reload, the sweeper left no active name older than the stale TTL |
| | `DeadlineCorrect` | `TTLsTakeEffect` | `DeadlineInv`: the next tick is at most an interval away, and the last one left nothing overdue by the TTLs of that moment |

Assumptions worth knowing: `HousekeepingProofs` takes from `Housekeeping` that
variables and flags say nothing of the TTLs (they have neither) and decode, and that no TTL
is negative, which `Validate` does not check.  `PayloadAssumption` says that a payload is what
protobuf decodes; `DepsAssumption` that there is at most one default dependency
(`api/handlers_builder.go` passes one, as `export/weaver.go:170-172` takes it).
`GroupsAssumption` and `QueriesAssumption` are types: a field is any text, a query what
the handler's parsing lets through; that no two groups of a snapshot describe the same
signal is a guard of `ParseGroup`.  `SanitizedAssumption` and `InputsAssumption` are types
too: sanitizing a text gives a name, and what is posted or typed has the types of the Go
structs.

Folds and recursive functions are reasoned about without a schema of induction: a
counterexample would have a least length (`WFMin` of the library, applied to a set of
numbers; `SetInduction`), and `FoldExists` and its like give the recursive definitions of the community modules the
equations the other lemmas use.  `NoText` and `Absent` are the empty string under a name of its own, which
the SMT backend can handle.

Only model-checked:

* liveness (`SentIsProcessed`, `CancelledStops`, `IdleIsPurged`, `PurgeReachesStore`,
  `SignalStops`, `ReadIsAnswered`), outside the provers' reach, as is `ENABLED`.

Every invariant of the passing runs is the property of a theorem.

## 6. What is not modelled

* `Export` (`export/weaver.go:304-359`) and the older endpoint over it; the metrics
  updater, a loop that copies modelled values to gauges; the settings besides the four of
  `Housekeeping`, whose kinds they share, and the ranges `Validate` checks.
* Formats and I/O: protobuf and YAML, HTTP routing and middleware, the bytes of an
  entry in Pebble, the zip archive's bytes, the widgets of the web UI, charts, the
  embedded snapshot's data.
* `HighCardinality` (a filter over `Cardinality`), the sketches' floating-point estimate
  (reduced to the registers that are set), sorting by `first_seen` and `last_seen`, the
  glob of `q` (reduced to the set of names it lets through).
* Functions without a caller: `Dictionary.Delete`, the trackers' `Reset`,
  `Coordinator.WaitForSignal`.
* An overflow of the channel of entries at shutdown (`storage/pebble.go:66`) is beyond
  the run, whose two names fit its capacity of two batches; the theorem
  `UnsavedCorrect` covers it for any number of names.
* Data races on the fields of live entries (`api/handlers.go:59`): a reader sees the
  value before or after a concurrent write; the torn reads that Go allows for slices
  and strings are left out.
