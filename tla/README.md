# Formal models of the ERC-8004 benchmarking backend

TLA+ models of the daemons that turn the logs of the ERC-8004 contracts into
agents, feedback and scores, and of what serves them; TLC runs that check the
models on small instances; TLAPS proofs of what matters most for every size.
The Go code under `internal/` and `cmd/` is the reference: every definition
names the lines it models in `PROJECT.json` (`map`).

## 1. The system

```
 RPC nodes        RabbitMQ raw_logs        MongoDB events
    |                   |                       |
 indexer  ---------> event-decoder -------> (rows, any order)
                                             |            |
                        uri-bootstrap producer            |
                              | uri.X.event_uri           |
                        event_uri consumers               |
                              | offchain_data, uri_fetched_X
                              +------------------> TrustRank (bound = uri_fetched_X)
                                                      | agents, feedback_history, wallets
                        feedback.others <-------------+---------> feedback.classified
                              |                                        |
                        feedback-others (LLM) ---------------> feedback-grader
                                                                       | agent_score_stats
                        score-refresh (cron + trigger) replays all feedback, overwrites stats
                        rescale, wallet-enrich, oasf-schema-refresh, API, WebSocket hub
```

All daemons are separate processes. They share only MongoDB documents, written
one at a time and without transactions, and RabbitMQ queues with manual
acknowledgement and no publisher confirms.

### Components, their state, operations and what makes them correct

| component | state | operations | hard part | correct when |
|---|---|---|---|---|
| indexer (`internal/crawler/evm`) | crawl cursor per contract, breaker per chain, lock per contract, semaphore | `RunOnce`, `crawlEvents`, RPC rotation | reorgs, nodes that disagree, crash between publish and cursor, concurrent jobs | no log of a final block is skipped; no orphaned log is sent; the breaker trips and recovers |
| event-decoder, ABI decoding | `events` rows | `Handle`, `DecodeLog`, `DecodeMetadataValue` | workers insert out of order; user-given bytes | every decodable log becomes one row; no slice leaves its bytes |
| uri-bootstrap producer | `uri_scanned_X` | `runChain`: list, publish, save | publish errors, crash, late rows | the cursor never passes a row that was not offered |
| event_uri consumer | `offchain_data`, `uri_fetched_X` | fetch, upsert, advance the cursor | unconditional cursor write by racing workers; redelivery | the cursor points at a resolved event |
| URI fetching | `offchain_data` rows | resolve, retry, store | three writers of one row, cancelled contexts | a row is what one fetch ended with |
| TrustRank driver | `trustrank_worker_X` | load checkpoint, bound, list, process, save | bound moves under it; batch not idempotent | chain order; checkpoint covers what was processed; never ahead of resolution |
| TrustRank processor | batch of documents | events in memory, then a flush of many writes | every write can fail after others were made; stale documents written back | a graded row keeps its grade; owners and wallets follow the events |
| wallets | `ownedAgentIds` | reconcile ownership | three separate writes | one owner per agent |
| rescale, tag statistics | tier votes, detected scale, corrections | vote, detect, claim, correct rows | votes, detection and correction fail one by one; two chains detect at once | the votes are those of the stored rows; every row has the scale |
| classifier, feedback-others | queue deliveries, category of a row | rules, LLM, persist, publish | LLM down, publish fails after the persist, two goroutines on one row | every undecided row is answered; only judgments score |
| feedback-grader | queue deliveries, a mutex per agent | read stats, add one increment, sync the agent, write the verdict | not transactional; races with replays | a row is counted once, and once more only after a failure or a race that has a name |
| score-refresh, scoring | none of its own | page agents, replay their feedback, overwrite stats, tally reviewers, rate wallets | two cycles at once; long windows between its writes; decay in integers | drift heals, scores settle, nothing overstates the evidence |
| wallet-enrich | batch of deliveries, job channels, permanent cache | micro-batch, cache, workers, sweep | shutdown, overlap of sweep and consumer, stale snapshots | fetched once, enriched in the end |
| ConsumerPool, GracefulConsumeLoop | readers, workers, jobs channel | consume, dispatch, settle, drain | shutdown with jobs in flight, dead connection | at-least-once; everyone leaves |
| API | token buckets, page cache | limit, cache, page through lists, merge | eviction, slow handlers, writes between pages | bursts bounded, pages fresh, no row lost between pages |
| WebSocket hub | client set, bounded channels | register, broadcast, drop | slow clients, unregister after drop | no gap in what a client sees |
| restart-trustrank | none | stop, drop, purge, start, wait | workers write while it drops | one clean replay |

`PROJECT.json` lists every component with its files and says which are
modelled, partly modelled or not (`components`), and every hazard with its line
(`hazards`).

## 2. Modules

| module | models | proofs |
|---|---|---|
| `LogFeed` | abstract: what the indexer promises the decoder | |
| `Crawler` | `crawlEvents` of one contract over several RPC nodes, chain with reorgs; implements `LogFeed` | `IndexerProofs` |
| `CircuitBreaker` | `RunOnce`: contract locks, semaphore, breaker, shutdown | `IndexerProofs` |
| `WorkQueue` | abstract: what a queue consumer promises its publishers | |
| `ConsumerPool` | the RabbitMQ consumer pool and the graceful loop with the broker's side; implements `WorkQueue` | `ConsumerPoolProofs` |
| `UriPipeline` | one chain: decoder's effect, producer, event_uri consumers, TrustRank's driver, config cursors | `UriPipelineProofs` |
| `AgentIdentity` | the processor's identity side: batches, flush, ownership of wallets, self-feedback | `ProcessorProofs` |
| `Classifier`, `Triage` | the rules and the hybrid classifier; how one row gets its category from three writers | `ProcessorProofs` |
| `TagScale` | votes, detection and correction of the scale of a tag pair (EXTENDS `Classifier`) | `ProcessorProofs` |
| `Decoder` | `DecodeLog`, metadata and tag values, on words of any width | `ProcessorProofs` |
| `Processor` | the four parts above, one per behaviour | `ProcessorProofs` |
| `FeedbackLifecycle` | TrustRank's flush, feedback-others, feedback-grader and score-refresh on one agent | `FeedbackLifecycleProofs` |
| `ScoreCycle` | the cycles of score-refresh: paging, statistics, reviewers' counts, wallet trust; feedback-grader's writes of the same statistics | `ScoreCycleProofs` |
| `Scoring`, `ServiceMatch`, `ScoreReplay` | the formulas in whole numbers; endpoint matching; one agent's live increments against its replay | `ServingProofs` |
| `WalletEnrich` | the batcher, the sweep, explorer and ENS workers, two databases | `WalletEnrichProofs` |
| `UriFetch` | resolver, HTTP client with retries, and the three writers of an off-chain row | `ServingProofs` |
| `ApiServer` | rate limiter and page cache | `ServingProofs` |
| `ReadSide` | lists read page by page, stars merged from several chains | `ServingProofs` |
| `WebSocketHub` | hub, handlers, pumps | `ServingProofs` |
| `ResetTool` | `restart-trustrank` beside the indexer, the decoder, the driver and the consumers | `ServingProofs` |
| `Serving` | the six parts above, one per behaviour | `ServingProofs` |
| `MC*` | model values and small constants for TLC | |

`Processor` and `Serving` put modules side by side whose variables are
disjoint. A behaviour takes one part and leaves the others in one initial
state: interleaving parts that share nothing shows nothing more, and every
property is about one part. Where parts do interact, one module has both:
`FeedbackLifecycle` is TrustRank, feedback-others, grader and score-refresh over
the same rows, `UriPipeline` the decoder, producer, consumers and driver over
the same cursors, `AgentIdentity` batches and the wallets they reconcile,
`TagScale` processors of several chains and the rescale worker, `ScoreCycle`
the cycles of score-refresh and the graders that write the same statistics.

Operators named `Mut...` or as an action with a variation, and commented
"Mutant of", are faulty forms of a definition. No specification uses them; each
shows that a property would notice that fault.

### LogFeed and Crawler

A block has a version; `Reorg` gives the last `ReorgDepth` blocks new ones. A
node knows a head and versions that may lag. A crawl reads the head
(`ReadHead`, with `safeLatestBlock`), filters a range, publishes its logs one
by one and saves the cursor; each RPC call may rotate to the next endpoint.
`excused` collects blocks that a node answered from an old view: no code can
know better. `LogFeed` states the promise (at least once, never past an unsent
log, cursor never back); `FeedSpec` instantiates it with Crawler's variables.

### CircuitBreaker

`Jobs` are the goroutines of one cycle, with the contract each crawls. The
steps are lock, semaphore, `Allow`, crawl, `RecordSuccess`/`RecordFailure`.
Time is a flag, `cooled`, that becomes true while the circuit is open. The
failure counter is capped at `FailureCap`, above the threshold.

### WorkQueue and ConsumerPool

A process in one of two styles, `pool` or `loop`. A queue has ready and
unacknowledged messages, an AMQP channel that is open, cancelled or lost, and a
buffer of deliveries of one session. A reader opens a channel, takes a
delivery, counts it in flight and pushes it on the jobs channel or gives it
back when the context ends; it drains its buffer with nacks and waits for what
is in flight. Workers handle, then ack or nack; an ack on a dead channel fails.
Whoever closes the jobs channel waits for the readers first. `QueueSpec` maps
this to `WorkQueue`: a message leaves the queue after its effect only.

### UriPipeline

A position (blockNumber, logIndex) is its rank in the chain's order; 0 is the
absent cursor. `Decode` inserts events in any order (four decoder goroutines).
`ScanStart/ScanList/ScanPublish/ScanSave/ScanDone/ScanAbort` are the steps of
the producer's `runChain`; a page is a listing, a publish per row, one cursor
save.
`Receive/FetchAndRecord/Requeue/GetFetched/SetFetchedIfAbsent/UpdateFetched/Ack`
are the calls of the consumer's handler in order: `advanceFetchedCursor` is
three store calls, so workers interleave between them. `Rank*` are TrustRank's
`runChain`. `BootstrapCrash` loses memory and returns deliveries to the queue.
Every call that may fail has a failing form that spends one of `MaxFaults`.
History variables (`offered`, `processed`, `lateForScan`, ...) record what no
store keeps.

### AgentIdentity

`Log` is the chain's list of events, decoded one after the other. A pass lists a
batch, prefetches the documents, applies the events to them in memory one by one
(`ProcessEvent`), then flushes: agents one by one in any order (an unordered
bulk write), history, feedback rows, owners, service URIs, checkpoint.
`Reconcile*` are the three writes of `ReconcileOwnership`, whose errors end the
reconcile of that agent and are only logged. A fault in the flush is followed by
the same batch again, or by a replay from the first event. Self-feedback is
decided in memory, from the document as the batch has it.

### Classifier, Triage, TagScale, Decoder

A tag is the set of patterns it matches (`ClassesOf`), so the cascade of rules
is a sequence of set tests. `Triage` has the processor's decision with the
detected scale, the goroutines of feedback-others with the value's own, the AI
service's free answer and the overrides. Each time a batch stores the row it
decides again whether the giver is the owner, since a batch that is replayed may
read documents that a failed flush has advanced; the stored flag only ever
becomes true (`SelfKept`). `TagScale` is in the order of `flushTierStats`: row,
vote, read, two updates, correction; the scale cache entry may expire at any
time, and the worker claims the oldest pending correction. `saved` is what the
checkpoint has passed: a batch that aborts before is flushed again. Bytes are,
in `Decoder`, a length, the number spelt by the word at each place and the
stretches that are text; an offset or length may be any number, including those
that do not fit an `int`.

### FeedbackLifecycle

One agent. The mass (A, B) is the bag of rows added to it, a composite the mass
it was computed from, so "counted twice" and "lost" are visible without
arithmetic; decay is in `ScoreReplay`. The fields each write touches are the
code's: `BulkUpsert` resets category, LLM answer and weight, but verdict and
revocation, empty in the new document, are omitted and survive; score-refresh
replaces the stats document; the grader's sync writes back a `totalFeedbacks`
read before the lock. `Batch*` is one flush of `ProcessBatch` per batch, with
retry from the checkpoint, `Other*` and `Grade*` are the handlers call by call
with nack and crash, `Replay*` one cycle, `Replayers` being the cron and the
trigger consumer.

### ScoreCycle, ScoreReplay, Scoring, ServiceMatch

`ScoreCycle` has two runners, the cron tick and the trigger consumer, each at
its own place of `runCycle`; statistics are the set of rows they were computed
from. A grader reads the statistics of its row's agent under the agent's lock
(`GradeRead`) and writes them back with the row (`GradeWrite`), while a cycle,
which takes no lock, writes what it has read a page earlier; `Backfill` stores
the verdicts a cycle has found missing, at its end. The revoked row a grader may
still hold is written like any other. `ScoreReplay` has the numbers: a mass in
units of 1/256 so that a half-life is exact, `LiveMass` for the grader's
increment, `Replay` for the single pass with its snapshots and services,
`ServiceMatch` for nested and repeated endpoints.

### WalletEnrich, UriFetch

Every job works on a snapshot of the external subdocument and writes fields back
later, into the runtime database and into the permanent cache. `WalletEnrich`
keeps these snapshots per pass and worker. The explorer worker takes a job
(`TakeJob`), asks the explorer and writes the runtime copy
(`EnrichOneExplorer`), then the cache (`WriteCache`), three steps between which
others write; the ENS worker's first two are one step, for what it writes
(`EnrichOneENS`) are its own fields and depend on nothing but its job. `Reset`
empties the runtime database, `Crash` loses everything in memory. `UriFetch`
makes an attempt per step: an answer, a body beyond the limit, a redirect, a
cancelled context; then the write that the caller chooses for the outcome.

### ApiServer, ReadSide, WebSocketHub, ResetTool

`ApiServer` counts time in units of a token; buckets fill, empty, are dropped
when idle and made anew; handlers read one version of the stores and store
their page in the cache later. `ReadSide` sorts and cuts lists as the queries
do, one page per step, with writes between; the stars of one chain are sorted by
the stored delta and shown with the rounded one (`Round2`), by which they are
merged and cut. `WebSocketHub` has bounded queues
and a send channel per client with a count of closes. `ResetTool` is the
sequence of the tool's steps with the services' own steps between them: logs
wait in the queue of the decoder, which the tool does not delete and starts
before it waits, so they are stored while the driver replays.

## 3. Runs

Passing runs:

| run | instance | shows |
|---|---|---|
| `uri_pipeline` | 3 events, 2 URIs, 2 workers, pages of 2 and 1, 1 fault | the scan cursor and the checkpoint cover what they passed; TrustRank stays behind resolution and goes in chain order |
| `uri_pipeline_live` | 2 events with a URI each, 2 workers, 1 fault, fair | URIs resolved; events below the newest resolved one processed, although racing workers move the bound back |
| `breaker` | 4 jobs, 3 contracts, 2 permits, threshold 3, fair | mutual exclusion per contract; jobs end, recovered endpoints close the circuit |
| `crawler` | 3 log blocks, 2 nodes, batches of 2, margin 1, 2 faults, fair | no log skipped; implements `LogFeed`; a confirmed log is sent in the end |
| `consumer_pool` | 2 queues, 3 messages (1 malformed), 2 workers, jobs channel of 1, 1 fault, fair | no send on a closed channel; implements `WorkQueue`; after a stop every goroutine ends |
| `feedback` | a row the rules decide, revoked later, and a row for the LLM; 2 goroutines of feedback-others, 2 of feedback-grader, 1 fault | no increment overwrites another, graded rows are counted, and counted again only for a copy that passed the guard together with another, or came again after its increment |
| `feedback_live` | 1 row for the LLM; grader, replayer, 1 fault, fair | the row is answered; mass, composite and count become exact in the end |
| `processor` | identity: 10 events of 2 agents in batches of 3, 1 fault; scale: 3 feedback on 2 chains, 1 fault; triage: 7 pairs of tags, 2 values, 2 goroutines; decoder: 9 values, words of 2 bytes | one wallet per agent, owners never behind, self-feedback caught, ownership settles; votes follow the rows; only judgments score; slices in bounds |
| `score_cycle` | 2 agents on 2 chains, 2 rows (1 with mass), cron, trigger of one chain and grader, 1 revocation, 1 fault, fair | a stored row leaves a score only to a reading from before it came; everything settles |
| `wallet_enrich` | 1 wallet, a sweep, an explorer and an ENS worker, 1 fault, 1 reset, fair | after a reset taken from the cache; what has settled stays; enriched in the end |
| `serving` | score: 2 rows, 3 units of time, 1 revocation; stream: 2 connections, queues of 1; API: 1 address, burst 2; fetch: 2 URIs, 2 workers; reset: 2 chains, 2 runs of the tool; read: 3 agents, 3 feedback, pages of 1, deltas of 0, 1 and 2 quarters of a hundredth | mass never overstated, snapshots are history, stream without gap, bursts bounded, pages fresh, rows are answers, a reset is one replay, pages lose nothing, stars are best |

The state space is never cut by a state constraint: every bound is in a guard.
`consumer_pool`, `processor` and `serving` do not check deadlock: a process that
was stopped, a decoded value and a list that is read to its end really stop.
`feedback` has no replayer: the proofs of section 4 cover its properties with
replays.

One run finds what the code does differently from what it says
(`findings` quotes both): `tag_scale_rows`. The correction's query asks for
`isRevoked: false` and `isSelfFeedback: false`, which are stored only when true,
so it matches no row. The passing run `processor` therefore says nothing of the
rows' scale; it has `VotesFollowRows`, on what the scale is detected from.

### Bounds

`NumEvents`, `MaxBlock`, `MaxVersion`, `Len(Log)`: length of the chain.
`MaxCopies`: copies of a message that a publish may add; a redelivery may exceed
it. `MaxFaults`, `MaxScaleFaults`: failed calls and crashes. `FailureCap`: the
counter's cap. `BufSize`, `JobCap`, `QueueCap`, `BroadcastCap`, `SendCap`: the
code's channels, made small so that they fill. `MaxRows`, `MaxNow`, `MaxTime`,
`MaxRevokes`, `MaxWrites`, `MaxHandling`, `MaxFeedback`, `MaxPages`,
`MaxDisturbs`, `MaxPayloads`, `MaxMessages`, `MaxChanges`, `MaxCancels`,
`MaxTry`, `MaxEvents`, `MaxRuns`, `MaxTriggers`, `MaxResets`, `MaxStores`,
`MaxAsked`: how often the environment does something. `MaxTry` is the code's
default of one retry.

Three events, two pages and two workers give every order of two cursor writers
and a reader; two graders on one agent give every interleaving of the lock; two
goroutines of feedback-others let one row be answered twice, which happens when
TrustRank repeats a batch; four jobs are one more than contracts, and three
contracts one more than permits; two faults of the crawler let a fault hit the
recovery of the first. Two chains detect a scale at once; two cycles of
score-refresh overlap in every order; a queue of one is full after one payload;
a page of one row makes every list several pages long; two runs of the reset
tool let the second find what the first left. For each property a mutant of the
model violates it within these bounds (`mutants`), so the interesting case is
in reach.

Where the theorems take over from the runs: `score_cycle` has one cycle over all
agents and one over a chain, two full cycles side by side are beyond its size;
`feedback` has no replayer; `wallet_enrich` has one explorer worker, and spends
its fault when the explorer refuses a chain (an explorer that refused for ever
would keep a wallet poor for ever). `Cent` is the number of parts a hundredth of
a delta has, `Deltas` the deltas an agent may have in such parts: two that round
to the same and one that does not.

### Fairness

Tickers and crons fire for ever, the broker hands ready messages to idle
consumers, a goroutine in a handler runs on (each call has a timeout), so the
steps of each actor are weakly fair. `sync.Mutex` and `semaphore.Weighted`
hand over in FIFO order, hence strong fairness of `Lock` and `Acquire`. A
container that crashed is restarted by compose (`WalletEnrich`). No fault,
crash, reorg, stop, revocation or recovery is ever required to happen.

## 4. Proofs

Checked by TLAPS, for every value of the constants that satisfies the
assumptions of the module.

* `UriPipelineProofs`. `TypeCorrect`. `RankBehindResolutionHolds` by
  `ResolutionInv`: TrustRank's claim alone is not inductive; one must know that
  a worker past its fetch holds a resolved event, that therefore `uri_fetched`,
  whatever order the writes land in, names a resolved event, and that the bound
  of a pass is such a value. `ScanCursorCoversHolds` by `ScanInv`, and
  `CheckpointCoversHolds` by `CheckpointInv`: the saved cursor is covered
  because the position in memory is, up to the page under way.
* `IndexerProofs`, for any chain, endpoints, batch size and margin, jobs,
  concurrency and threshold.
  * `crawlEvents`: `TypeCorrect`; `CrawlInv` (cursor, range and published blocks
    keep the margin from the head, so no reorg reaches them, and the range under
    way starts right after the cursor) gives `NoLogSkippedHolds` and
    `OnlyFinalSentHolds`; `CrawlerImplementsLogFeed` maps every step of the crawl
    to a step of `LogFeed` or a stutter.
  * `RunOnce`: `RunTypeCorrect`, `ClosedBelowThresholdHolds`,
    `OneCrawlPerContractHolds` by `LockInv` (one holder per contract lock),
    `ConcurrencyBoundedHolds` from the size of a set with one member more, and
    `TrippedIsOpenHolds` by `ProbeInv`: the circuit is half-open only while a
    probe is in flight, and whatever its outcome, it ends that state.
* `FeedbackLifecycleProofs`, for any chain, batch size, number of goroutines,
  copies and faults, score-refresh included. `TypeCorrect`.
  `NoLostIncrementHolds` by `LockInv`: the mutex has one holder, so between a
  grader's read and write only score-refresh can replace the stats.
  `MessageHasRowHolds` by `RowInv`: the filter leaves out only graded rows,
  which exist, the upsert precedes the publishes, replays grade rows they have
  read, and a nack or crash returns only messages whose row existed.
  `GradedIsCountedHolds` needs all of these and two more. `RouteInv` says what
  the queues carry: feedback-others sees undecided rows only, the graders see
  such a row only once it is answered, a decided row keeps the rules' category;
  so a row in the graders' hands changes category only by being written over.
  `CountInv` says that before the first replay the mass only grows, and that
  what a grader added is still there at its verdict.
* `ConsumerPoolProofs`, for any queues, messages, workers, prefetch, channel
  size, restarts and lost connections. `TypeCorrect` carries `HandInv` (a reader
  or worker past a receive holds a delivery). `NoSendAfterCloseHolds` by
  `CloseInv`: the jobs channel is closed only when every reader has left, and
  readers that left do not come back in that process.
  `ConsumerPoolImplementsWorkQueue` by `EffectInv`: a verdict to acknowledge
  stands for a write that was made, and what does not decode is settled by the
  reader and never reaches a hand; so what leaves the broker has its effect.
* `ScoreCycleProofs`, for any agents, chains, page size, wallets and runners.
  `NoScoreRegressHolds` by `CycleInv`, which holds for every number of cycles
  and graders side by side: what a cycle is about to write has every row of the
  agents it could read that was stored when it read them (`ReadCovers`), and
  scores and readings have rows of their own agent only (`OwnRows`), so a grader
  can take nothing from another's. Whatever is lost was then missing from the
  reading of whoever wrote (`LossExplained`).
* `ProcessorProofs`, for any events, batch size, chains, feedback, tags, values
  and word width.
  * `OneWalletHolds` by `ReconcileInv`: between the pull and the add of a
    reconcile no wallet but the owner's can hold the agent, and the batch that
    names the owner does not change under it.
  * `OwnerNotBehindHolds` by `BatchInv` and `OwnersInv`: the owner of every stored
    document is that of some prefix of the events, which may lie beyond what a
    failed batch has saved and, during a replay, before the checkpoint; so while
    a pass runs the bound is its own position, and only a pass that ends brings
    it back to the checkpoint.
  * `SelfCaughtHolds` by `RowsInv`: without a failure each batch starts from
    documents of exactly the events before it, except that a cleared wallet may
    still be stored, which only adds a self-feedback.
  * `VotesFollowRowsHolds` by `TallyInv`: a batch's feedback is not behind the
    checkpoint and is in one chain's hands, and a row that waits for its vote is
    quality (`BatchShape`); so a vote and the row it stands for come together, and
    only an abort, which spends a fault, parts them by one.
  * `OnlyJudgmentsScoreHolds` by `TriageInv`: only tags the rules leave open get
    to feedback-others, under any scale its rows have had; and a row once found
    to be the owner's keeps the flag, which the grader asks for beside the
    category.
  * `SlicesInBoundsHolds` by `DecoderInv` from `DecodedWithin`, which follows the
    comparisons of `decodeABIString` with offsets, lengths and sums that need not
    fit an `int`.
  * `ProcessorSafe`: a behaviour of `Processor` is one of each part
    (`PartsAsSpecified`), so what is proved of the parts holds of the composition.
* `WalletEnrichProofs`, for any wallets, overlapping sweeps, workers, channel
  sizes, faults and resets. `CacheHonouredHolds` by `EnrichInv`, in two parts.
  `CacheInv`: a complete cache entry has the cheap and the explorer data, and
  every snapshot on its way to the cache says so, whichever write is last; so
  the cache keeps what it held at a reset. `HonourInv`, while no lookup failed:
  such a wallet is no miss of a cheap pass; and one whose entry was complete
  gets its explorer data in the same write as its cheap data, so that no filter,
  channel or worker ever takes it for the explorer. That a wallet stays as it
  settled needs neither: with no job and no snapshot of it under way, only the
  ENS worker writes it, and that leaves the fetched data alone.
* `ServingProofs`, for any connections, capacities, addresses, pages, times to
  live, endpoints and workers, any number of rows, wallets, chains and agents,
  any page size, services and windows.
  * `NoPanicHolds` by `RegisterInv`: a registration is queued once and its channel
    is still open, since nothing closes the channel of a connection that is no
    client; what leaves the set of clients is closed once.
    `StreamWithoutGapHolds` adds `GapInv`: what a client was sent and what waits
    in its channel follow each other in the stream from where it joined.
  * `BurstBoundedHolds` by `BucketInv`: for every start of a window, what was let
    through plus what the bucket would let through now stays within the bound;
    a bucket is forgotten only after it would be full (`IdleTTL * Rate >= Burst`).
    `PageFreshHolds` by `FreshInv`: a page in the cache was read by a handler
    that answered in time, so its expiry is bounded by when its version ended.
  * `RowIsAnAnswerHolds` by `FetchInv`: what a worker is about to write is an
    outcome of its own fetch, unless that was cancelled, and then it writes none.
  * `FreshReplayHolds` by `ResetInv`, which says phase by phase of the tool what
    has stopped, what is empty and what stays so, and that what is derived is
    always one replay up to the checkpoint and the event after it.
  * `PagesLoseNothingHolds` by `ReadInv`: what a reader has seen of a quiet list
    is the beginning of the list, in its order (`FirstOf`). The n-th document of
    a strict total order is the one that n - 1 others precede, so two queries of
    one list agree, and pages that start where the last one ended meet. While a
    growing list is written, a reader of the newest first sees rows move down and
    may see one twice, one of the oldest first sees none move; in both, what is
    not seen yet of the rows of the beginning stays beyond the skip of the next
    page.
  * `StarsAreBestHolds` by `StarsInv`: the rows of one chain are the top of it,
    cut only at the limit of the answer (`TopOfChain`), and rounding turns no
    two deltas round (`RoundedDelta`). A row of the merged list that would be
    left out by a chain's cut has as many rows of its own chain in front of it
    as the answer shows.
  * `LiveNeverOverstatesHolds` by `ScoreInv`: doubled once for each half-life back
    to time 0, the stored mass is at most what the counted rows are worth there,
    unrounded (`StatsWithin`). Halving rounds down, so decay keeps it; a live
    increment adds the row it counts; a replay starts from nothing and
    ends within its rows by `Fair`, an invariant of the pass over them. There the
    mass of the services is at most the agent's (`ServicesWithin`), since
    `MatchService` credits one service and the roundings of several masses lose
    no less than that of their sum.
  * `SnapshotsAreHistoryHolds` by `Opened`: a window gets its snapshot from the
    accumulator as it is when the pass comes to the first later row. The whole
    pass and the pass that ends at the window agree on mass and streak up to that
    row (`SameCore`), and to decay in several steps is to decay at once.
  * `ServingSafe` carries what needs no further assumption to `Serving`.
* Also in modules above: `ChronologicalOrderHolds` (`UriPipelineProofs`) by
  `OrderInv`: what lies below a processed event is processed too or came late.
  `NoDoubleCountHolds` (`FeedbackLifecycleProofs`) by `OnceInv`: the mass a row
  has, stored or in a goroutine's hands, and the increments of it still to come
  (one for each goroutine past the guard that has not added it, one for a row that
  is not graded and in nobody's hands) stay within one, plus one for each copy
  that joined another past the guard (`again`), plus one for a replay that counted
  it early (`early`). It is counted with the sizes of sets of goroutines, so it
  holds for any number of them.

Assumptions beyond those of the modules' parameters stand in the theorems:

* `FromSomeone` (`SelfCaughtHolds`): feedback has a sender; events carry the
  address that called the contract.
* In `ReadSide` and `ScoreReplay` the parameters are assumed to be what a database
  or a configuration holds: finitely many reviewers, chains, agents and clients;
  lists of the wallet ranking ask for chains that exist; windows are ages, the
  oldest first; values and signals have the ranges the rules give them. TLC
  evaluates these.
* `"no-stop-indexer" \notin Options` (`FreshReplayHolds`): with that flag the
  tool stops no worker at all (section 5), and the run leaves it out for the
  same reason.

Working on these proofs has changed the models. `AgentIdentity` applied a batch
in one step and now takes one event per step, as the loop does. `NoDoubleCount`
was bought with "no fault and no replay", which left nothing for the guard to
do; it now counts what each race and failure may add, and holds for all of them.
`NoScoreRegress` was stated while no two cycles overlap; it now names the
readings a row can be lost to, and needs no such condition.
`LiveNeverOverstates` compared the stored mass with the sum of its rows' decayed
and rounded parts; one row's odd unit and another's make a whole one in the sum,
so with a small `Unit` that fails for no fault of the code, and the bound is now
the unrounded one. The merge of the stars and the composite were written with
library operators that are recursive; they are now an enumeration of the ordered
rows, and a sum over the components in their order.

Two things needed more than the provers offer. Induction: the library's theorems
take an operator as parameter, but `WFMin` takes sets, so `NatSetInduction` states
induction over the natural numbers with a set for the predicate. Recursive
functions: a function that is defined by recursion is the one its equation
describes, provided there is one; `HalvedHasFunction` and its like build it by
that induction, and after them each function is known from its first value and
its step (`HalvedSteps`).

Only model-checked:

* Liveness, which needs fairness or ENABLED and is outside the prover's reach:
  `UriResolvedEventually`, `BoundedEventProcessed`, `JobsFinish`,
  `RecoveryCloses`, `ConfirmedLogSent`, `OthersAnswered`, `DriftHealed`,
  `ShutdownCompletes`, `WalletEnriched`, `OwnershipSettles`, `ScoresSettle`.

Every invariant, action property and refinement that a passing run checks is
also a theorem; of a refinement, what its steps may do.

## 5. Known divergences

Where a comment or a document says one thing and the code does another, the
modules follow the code:

* `uri_fetched` "moves forward" (`consumer_event_uri.go:123`); racing workers
  can move it back (line 133: compare, then write). `BoundedEventProcessed` has
  the exception.
* The half-open breaker "allows one probe" (`breaker.go:19`); it admits every
  job (line 61).
* Reprocessing does not overwrite a grade (`processor_orchestration.go:243`);
  lookup and upsert are two calls (line 359), so it can: `clobbered`.
* Double increments come from failures only (`feedbackgrade/handler.go:20`); a
  replay that has read a row and backfills it later (`scorerefresh/app.go:277`)
  lets the grader count it again. The next replay heals it.
* Category "others" is never graded (`feedback_grade.go:22`); the LLM's answer
  "others" is published and graded (`feedbackother/handler.go:80`).
* "Let the LLM inspect" emoji-only tags (`classifier.go:92`): their source is
  "rule", so `HybridClassifier` never asks. A value without a bound is "never"
  quality; the LLM may still answer so. The overrides of `hybrid.go` for spam
  and noise cannot fire, the rules decided these before.
* feedback-others runs the rules again with the value's own tier, not with the
  scale detected for the tags, so the two may differ.
* `retry.Do` stops at errors that unwrap, so a wrapped transport error is final
  and a body beyond the limit is retried, the opposite of `https/client.go:88`;
  `defaultRetryMaxTry` is 1, two attempts, where the comment at line 21 says 3.
* `ENSFetched` is overwritten by an explorer job (`wallet/repo.go:558` says
  not), and after a reset a hit in the cache restores it without the name.
* Data "enriched in this or a prior lifetime" is "never re-fetched"
  (`extenrich/app.go:16`). Of a prior lifetime this holds (`CacheHonoured`).
  Within one lifetime a sweep and `enqueueDownstream` may both queue a job for one
  wallet, and `enrichOneExplorer` does not look again whether the data has come
  (`explorer_workers.go:66`): it is then fetched twice.
* The pool's reader logs "reconnecting" and never dials again; `app.Run` of its
  users returns without waiting for the drain; the service_uri consumer
  acknowledges a message whose fetch was cancelled by the shutdown.
* A registration cut from its mint by the end of a batch loses `createdAt`; a
  cleared agent wallet stays stored (omitempty); a failed reconcile is not
  retried.
* The first detection of a scale raises its version by two; two detections that
  read the same version leave one correction, and of two detections at once the
  older may leave the last; a correction that cannot be stored is not tried again,
  and a claimed or failed one is never taken up again; tier votes of a repeated
  batch count twice, those of a failed increment not at all.
* An error of `ListByAgent` writes the score of an agent without feedback; cron
  and trigger cycles may overlap and the older listing may win until the next,
  over what feedback-grader has added meanwhile.
* A replay may find that the giver owns the agent where the first pass did not, or
  the reverse: the flag stays true, and the LLM's answer to the first pass may
  still make the category "quality". Such a row does not score.
* `ListPenalties` in mode "fail", the status "anomalous" and the activity
  heatmap read the field `vi`, which nothing writes.
* The agent ranking and the list of clients have no last sort key, and
  `MinScore` is applied after paging: pages of these may repeat or miss rows.
  `PagesLoseNothing` leaves them out.
* The stars of several chains are merged by the delta rounded to hundredths
  (`leaderboard.go:374` and `435`): of 1.001 and 1.004 on two chains the lesser
  may be shown and the better left out. `StarsAreBest` compares across chains
  what is shown, within a chain what is stored.
* `-no-stop-indexer` stops no worker at all; the chains are listed before the
  services are stopped; the 12 seconds after the start of the driver bound
  nothing.

## 6. Not modelled, and why

* Wire formats, logging, DTO mapping, request parsing, the dashboard's
  aggregations: conversions and reads that no state depends on.
* The SSRF guard's address arithmetic, TLS, DNS: an answer of a site.
* Which strings a tag pattern matches: a constant of `Classifier`.
* The OASF schema download and its enrichment: one writer, shown only.
* Health probes of services, the score formulas of `extscore`, simulator,
  sensitivity analysis, benchmarks: they write nothing the pipeline reads, or
  only a number nothing branches on.
* Block timestamps and contract configuration of the indexer.
* Two logs at one (chain, block, logIndex) after a reorg: the unique index
  rejects the second for ever. It takes a node with an old view; listed as a
  hazard without property.

Chains are independent in most daemons, so most modules have one; `TagScale`,
`ScoreCycle`, `ReadSide` and `ResetTool` have two, because there they meet.

## 7. Plan

Done: the sections above.

Left, in this order:

1. A composition of `LogFeed` with the decoder's `WorkQueue` in front of
   `UriPipeline`, so that "a confirmed log is processed" is one statement.
2. What the components of `PROJECT.json` marked `partly` still lack.
