# Formal model of the Excel Data Navigator harness and its memory engine

The repository holds two programs:

- the **harness** (`src/src/`, JavaScript): a terminal application that ingests
  spreadsheets into SQLite tables, walks them row by row or answers questions about
  them, and keeps sessions, findings and a small vector index;
- the **memory engine** (`src/components/storage-local-first-spatial-memory-engine/`,
  TypeScript): a local-first store of text atoms in SQLite shards with one writer thread
  per shard, a CRDT blob per atom, an outbox with a background sync worker, and a
  federation layer (catalog, shard pool, ingest queue, connectors, federated search).

Most of the concurrency, the crash handling and the ordering problems are in the memory
engine; the harness adds multi-step changes that a crash can cut in two. The model covers
both. Paths below that begin with `sync/`, `workers/`, `federation/`
and so on are relative to the engine's `src/`.

## 1. Inventory

| Part | State it keeps | Operations | Talks to |
|---|---|---|---|
| Shard writer (`workers/write-ops.ts`, `db/schema.ts`) | tables `nodes`, `documents`, `outbox`, FTS and vector mirrors | insertNodes, replaceDocument, deleteDocument, deleteNode, saveAtomic, applyRemoteUpdate, compactAtom(s), commitMerge(s); each one `BEGIN IMMEDIATE` | called by the broker only |
| Reader ops (`workers/read-ops.ts`) | none (WAL snapshots) | searches, loadCrdt, dirtyOutbox | reader pool, sync worker |
| CRDT helpers (`sync/crdt.ts`), adapter (`sync/adapter.ts`), migrations | none | createAtomBlob, diffUpdate, mergeBlobs; load, saveAtomic, updateFields, migrate | engine, writer |
| Sync worker (`sync/sync-worker.ts`) | `inflight` set | interval poll, forced poll, committed | pipeline over a message port |
| Sync pipeline (`sync/pipeline.ts`) | waiters by token, `closed` | start, onMessage, commit, syncNow, close | worker, broker |
| Worker broker (`workers/broker.ts`) | writer, readers, pending calls, `scaling` | open, write, read, maybeScaleUp, close | worker threads |
| Engine (`engine.ts`) | broker, pipeline, graph ids | open, ingest, replace, delete, search, syncNow, close | all of the above |
| Catalog (`federation/catalog.ts`) | shards, checkpoints, ingest_queue, term statistics, replica vectors | open (recoverQueue), enqueue, claimNext, completeTask, statuses, putCheckpoint, recordTermStats | several processes share the file |
| Ingest scheduler (`federation/scheduler.ts`) | semaphore, shard locks, prefetch buffers | ingestDocs, drainQueue | catalog, pool |
| Shard pool (`federation/pool.ts`), federated engine (`federated-engine.ts`) | open engines with pins, openings in progress, LRU clock | acquire, release, evictIfNeeded, close; engine, releaseEngine | engines |
| Federated search, router, context (`federation/search.ts`, ...) | per-call wave state; router cache | federatedSearch, probeWaveShards, route | pool, catalog |
| Stability tracker (`federation/stability.ts`) | replica vectors in the catalog | ack, stableFrontier, compactStable | engine |
| Connectors and crawl runner (`connectors/`) | cursor per shard and connector | discover, fullCrawl, deltaCrawl, runCrawl, runOrgCrawl | catalog, engines, git and Confluence |
| Search algorithms (`search/`, `spatial/`) | none | rank fusion, query building, chunking, cluster routing | engine |
| Harness datasets (`db/`, `ingest/`) | dataset tables and their metadata rows | create, replace, append, new version | SQLite |
| Harness sessions, findings, row-by-row mode (`store/`, `findings/`, `modes/row-by-row/`) | session record with cursor and findings, navigator index | get, put, saveFinding, next, previous, jump, resume | datasets |
| Harness search mode, agent, RAG (`modes/search/`, `agent/`, `rag/`) | tool loop, JSON vector index | answerQuestion, index, retrieve | provider, datasets |
| CLI, configuration, providers, exports | none | prompts, HTTP calls, files | user |
| Requirement document types | none: data-only interfaces | - | - |

What is hard in each:

- **Sync.** The worker reads the outbox and the blobs over its own connection, merges, and
  sends the result through the main thread to the writer; until the commit the writer
  serves other calls. Whatever touches the same atom in that window is overwritten.
  Correct means: no acknowledged edit is lost for good, text and blob agree, the outbox
  drains, `syncNow` returns, an epoch's history stays out of the next epoch, and deleted
  content stays deleted.
- **Queue and scheduler.** Several processes claim tasks from one table; crashes leave
  RUNNING tasks. Correct means: one running task per shard, no task lost, a drained queue
  when `drainQueue` returns.
- **Shard pool.** Opening and closing an engine are asynchronous. Correct means: a pinned
  engine is not closed, one writer per shard file, a bound on open engines.
- **Connectors.** Checkpoints are written after the batches they cover. Correct means:
  after a crash and a resumed crawl the shard equals the source.
- **Federated search.** A wave ends by completion, quorum or deadline. Correct means: it
  ends, and each shard is accounted for once.
- **Broker.** Worker death and close with calls in flight. Correct means: every call settles.
- **Harness.** Multi-step table changes that are not one transaction, row ids that start
  again, session records written by read-change-put.

`PROJECT.json` lists every place (`hazards`) with the properties that watch it.

## 2. Modules

| Modules | Content |
|---|---|
| `AtomStore`, `AtomSync` | the writer operations of a shard, the sync pipeline composed with them (`MCSyncCalls` adds what each `syncNow` was called for); proofs in `AtomSyncProofs` |
| `AtomGraph` | what hangs on the atoms: indexes, vectors, edges, summaries, and a hybrid search beside the writer (`MCAtomGraph`); proofs in `EngineProofs` |
| `IngestQueue`, `IngestScheduler` | catalog queue, processes and their crashes, `runOrgCrawl`, `drainQueue`; `ingestDocs` with slots and shard locks; proofs in `IngestProofs` |
| `ShardPool` | acquire, eviction, close, the pins of the federated engine; proofs in `ShardPoolProofs` |
| `CrawlRunner` | one source, its connector, batches, deletes, checkpoints, crawls that break off; proofs in `CrawlProofs` |
| `Routing` | the routing signals of the catalog and each process's router cache (`MCRouting`); proofs in `CatalogProofs` |
| `SearchWave`, `Context` | routing and waves of one federated search (`MCSearchWave`, and `MCHungProbes` for one wave with probes that hang); chunks and the context assembled from hits, as operators (`MCContext`); proofs in `SearchWaveProofs` |
| `WorkerBroker`, `Prefetch`, `IngestStream` | calls, threads and their death; the prefetch buffer; `IngestStream` composes the two into one `ingestDocs`; proofs in `EngineProofs` |
| `Stability` | which history may be collapsed, as operators (`MCStability`); proofs in `CatalogProofs` |
| `Datasets`, `RagIndex`, `RowSession`, `GroundedAgent` | the parts of the harness; `Navigator` composes them into one process (`MCNavigator`); proofs in `NavigatorProofs` |
| `Notebook` | abstract specification: what has been noted stays noted, but for marks that replace the mark of their row; `RowSession` implements it |

An `MC...` module adds values of constants, symmetry, or assumptions that TLC evaluates.
Three do more: `MCSyncCalls` has a history variable beside the state of `AtomSync`,
`MCHungProbes` (`HungSpec`) and `MCNavigator` (`RunSpec`) take a part of the behaviours of
their module, to go deeper into it. A candidate for further work: two harness processes on one
set of files.

## 3. `AtomStore`: the tables and the writer

One action per writer operation. `better-sqlite3` runs each of them as one `BEGIN IMMEDIATE`
transaction in the only writer thread, so an operation is one atomic step.

| Model | Code |
|---|---|
| `nodes`, `docs`, `outbox` | the tables of the same name (`db/schema.ts`); only columns some operation decides on |
| `InsertNodes(k)`, `ReplaceDocument`, `DeleteDocument`, `DeleteNode` | `workers/write-ops.ts` operations of the same name; `k` is the number of chunks |
| `LoadForUpdate(n)`, `SaveAtomic(d)` | the two halves of `CRDTStorageAdapter.updateFields`, with anything in between |
| `ApplyRemoteUpdate(m, labelled)` | `applyRemoteUpdate` with its three outcomes; `labelled` is whether an epoch is given |
| `CompactAtom(n)` | `compactAtom`; a sweep of `compactAtoms` is a sequence of these without a step between, so every state after it is a state of the model |
| `PeerEdit`, `PeerCompact` | external: what a remote replica can send |

Data abstraction:

- A Yjs update is a number; a blob is the set of updates merged into it. `anc[u]` are the
  updates `u` was written on top of. Yjs integrates an update once those are present and
  keeps it pending until then: `Visible`. `Content` is what `readAtomFields` would read: the
  edits in effect. Which of two concurrent writes of one key wins depends on that set alone
  and is left out.
- A compacted snapshot is a new update that follows nothing and `covers` the edits it was
  built from.
- `garbled` marks updates whose bytes do not decode. Only a remote peer produces them.
- Row ids are given out as SQLite does without `AUTOINCREMENT`: one more than the largest.

## 4. `AtomSync`: the sync pipeline

| Model | Code |
|---|---|
| `inflight`, `toWorker` | the worker's set and its message port |
| `TimerPoll`, `HandlePoll` | `poll()` from the interval and from a message. `dirtyOutbox` is one SELECT that joins the blob in, hence one snapshot and one step |
| `PollFails`, `PollFindsNothing`, `PollMerges` | the outcomes of `computeMerges`: an exception half way through, nothing due, a round |
| `rounds`, `CommitMerges` | rounds on their way to the writer, and the transaction |
| `answers`, `CommitAnswered` | the writer's reply, then `committed` to the worker and the waiter resolved |
| `SyncNow(c)`, `waiting` | `syncNow` and its waiter |
| `Crash` | the process is gone, callers included |
| `CloseEngine`, `abandoned` | `close`: what is on its way is gone and so is the worker; a waiter that no late answer resolves stays as it is, in a pipeline that is closed |
| `Restart`, `Reopen` | either of the two, and the part they share: everything outside the tables starts anew. A rejected commit (the writer thread is gone) ends in the same place |

An empty poll result is resolved by the pipeline in the step of the poll: nothing the worker
or writer does in between can see the difference.

Between poll and commit every writer operation can happen: `Next` is the union of the sync
steps and all calls. `EditNext` leaves out calls that delete or change epochs.

### Properties

- `TypeOK` - one type invariant for both modules.
- `ViewAgrees` - `title`/`body` (which feed both FTS indexes) are what the blob reads as.
- `OneMergePerNode` - two rounds between poll and commit never share an atom.
- `SyncedEventsShown` - an event marked SYNCED is in its atom's text once the SYNCED events
  it depends on are; what a commit overwrote is still DIRTY.
- `EventuallyMerged` - the outbox drains.
- `SyncNowReturns` - a call does not hang at a pipeline that stays open: it is resolved, unless
  the process goes down or the engine is closed first.
- `SyncNowResolves`, `LandsBeforeReturn`, `BaselineKept` - what comments promise and the code
  does not keep (section 14).

### Fairness

Weak fairness on the interval timer, on message delivery to the worker, on the writer's
queue and on its reply. `setInterval` keeps firing while the engine is open, message ports
are FIFO and reliable within a process, and the writer thread handles its queue in order.
No fairness is assumed for callers, peers, `Restart` or remote delivery. Bounded `Restart`
stands for "crashes do not go on for ever", without which nothing drains.

## 5. `IngestQueue` and `IngestScheduler`

`IngestQueue` is the persistent queue of the catalog with the crawls that use it.

| Model | Code |
|---|---|
| `queue` | table `ingest_queue`; rows are never deleted, so it is a sequence and a task's id is its place. No caller passes a priority, which leaves `ORDER BY id` |
| `shardStatus` | `shards.status`; `EVICTED` is never written |
| `Open(p)`, `Crash(p)` | `Catalog.open` with `recoverQueue`; the end of a process, whose crawls are lost |
| `StartCrawl`, `Discover`, `DiscoveryFails`, `Drain`, `Return` | `runOrgCrawl`: list the source's shards, enqueue a task for each (an identical pending task stands for it), drain. `known` are the shards the source lists |
| `ClaimNext(w)`, `LeaveQueue(w)`, `CompleteTask(w)` | the worker loop of `drainQueue` around the catalog's transactions |
| `StartTask`, `CrawlEnds`, `CrawlThrows`, `SettleTask` | `runCrawl` as far as queue and status see it: INGESTING, the rollup that may find SPLIT, the error path, the last look |

A catalog call is one transaction and one step. A worker settles its task and claims the
next one without an `await` between; the model lets other workers in, because other
processes do come in there. A task of a shard the crawl does not know fails at once, as the
executor throws.

`IngestScheduler` extends it with `ingestDocs`: `IngestDocs` is the semaphore's `acquire`,
`QueueForShard`, `BeginIngest` and `Unlock` are `withShardLock`, `IngestEnds`, `SettleIngest`
and `IngestThrows` the body, `Release` the semaphore's `release`. `lockQueue` is the promise
chain of a shard. Crawls use neither slots nor locks, in the code as in the model; the two
share the shard's status only.

Properties:

- `QueueTypeOK`, `TypeOK` - types; proved (section 16).
- `OneTaskPerShard` - no two workers, of whichever process, have tasks of one shard in hand.
  It holds under `RestSpec`, where a catalog is opened only while nobody has a task in hand
  (`OpensAtRest`): several processes that open it at their start and then crawl side by side.
  Under `QueueSpec`, where a process may open it at any time, it is violated (section 14).
- `RunningIsHeld` - while a process has the catalog open, the RUNNING rows are exactly the
  tasks in hand: a crash leaves none that blocks its shard.
- `DrainedOnReturn`, `DrainsReturn` - drainQueue returns, and if nobody else is crawling it
  leaves nothing pending, although workers whose tasks are blocked return early.
- `IngestsSerialized`, `SlotsKept`, `IngestsReturn`, `IngestingIsBusy` - turns on the shard
  lock, no slot lost or doubled, nobody waits for ever for a slot or a lock, INGESTING
  means that somebody ingests (until something crashes; nothing resets it then).

Fairness: a worker's next step and the return of a crawl are weakly fair, since they follow
a promise that settles: a crawl ends or throws. So are the steps of an ingest once it has
its slot. No fairness for `Open`, `Crash`, new crawls, or new ingests. That a crawl or an
ingest ends is an assumption about connectors and shard engines.

## 6. `ShardPool`

| Model | Code |
|---|---|
| `entries`, `lru` | `ShardPool.entries`; the `lastUsed` clock only orders them |
| `opening` | the single-flight map, and how far its promise is: closing a victim or opening the engine |
| `engines` | every `MemoryEngine` so far and its state |
| `pinned` | `FederatedEngine.pinned` |
| `WithShard`, `PinEngine` | `acquire` up to its first `await`, called by `withShard` or `engine()`; `Retain` if the engine is there, else `Await` |
| `Evict`, `Open`, `VictimClosed` | the loop of `evictIfNeeded` and the opening after it |
| `OpenSettles`, `OpenFails` | the rest of `acquire`, for all who wait |
| `Finish`, `KeepPin`, `ReleaseEngine`, `Close`, `Terminated` | end of `withShard`, end of `engine()`, `releaseEngine`, the two `close` methods, the end of an engine's own close |

The code between two awaits is one step. Everybody who awaits one opening is resumed in the
same run of the microtask queue, before a caller that joins later can run, so `OpenSettles`
gives all of them their reference at once. An engine that fails to open leaves nothing
behind, and one that closes does not fail: both are assumptions about `MemoryEngine`.

Properties:

- `TypeOK` - proved (section 16).
- `InUseIsOpen` - what a call or a pin holds is the pool's engine for that shard, and open.
- `OneLiveEngine` - racing calls share one engine and one opening. An engine counts as gone
  once it is being closed.
- `EnginesTracked` - no engine is open outside the pool, so none is left running.
- `AcquireReturns` - also when everything is in use: the pool then exceeds its ceiling.

Fairness: an opening goes on, because engines open, fail or close. None for callers.

## 7. `AtomGraph`

| Model | Code |
|---|---|
| `db` | `nodes`, the two FTS indexes, `vec` and `edges`; `AfterInsert`, `AfterUpdate`, `AfterDelete` are the triggers of `db/schema.ts` |
| `Insert` (`IngestDocument`, `ReplaceDocument`), `Delete` (`DeleteDocument`, `DeleteNode`), `Rewrite` | the writer's operations as far as these tables see them; `Rewrite` is every path that writes title and body of an atom that is there |
| `AddEdges`, `DeleteEdge`, `RebuildSupernodes` | operations of the same name: all edges of a batch or none, summaries dropped where a cluster is empty |
| `BeginSearch`, `Lane`, `RouteToClusters`, `Expand`, `EndSearch` | `hybridSearch` with its lanes, `viaSupernodes` and `expandAlongEdges` |

Each lane and each neighbour list is a query of its own on a reader, so writes come in
between. What matches and how hits rank is any subset. A text is never used twice, which
lets the model tell an atom from the next one with the same id; a document is one atom and
an insert is one atom, since `AtomStore` has the batches.

- `LockStep` - the indexes hold the texts there are, no vector or edge outlives its atom,
  also when the id has gone to another.
- `SummariesTrue` - a summary tells its cluster as it is until the cluster changes.
- `Firewall` - an edge joins two atoms of one graph, and a search names an atom once and stays
  in its graph, unless the id of one of its hits was given to an atom of another graph
  meanwhile (`taken`, set by `Taking` in the insert that does it).
- `HitsInGraph` - without that exemption: violated (section 14).

## 8. `CrawlRunner`

| Model | Code |
|---|---|
| `trees` | the source, as the sequence of its states; a cursor names one (commit, manifest of the walk, watermark), and with Confluence a page |
| `Start(mode)` | `runCrawl` up to the first event; a git delta whose old commit is not in the clone cache throws |
| `Listed`, `Gone`, `Read` | what each connector yields, from which state of the source it decides and from which it reads |
| `NextBatch`, `NextLast` | the generator's next event: a batch; the deletes and the last cursor |
| `ReplaceDocument`, `DeleteDocument`, `PutCheckpoint` | the runner's handling, one call of the engine or the catalog at a time, in its order |
| `ReadThrows`, `BreakOff`, `LoseCache` | a file that vanished, a crash or failed call, an evicted clone |

The source changes between any two calls. A page cursor of Confluence names the last page
that was yielded: it goes on behind that page, whatever has changed before it. A path gets a new text (`WriteNew`) or one it has had (`WriteBack`,
for the connectors in `Reverting`). `overlooked` and `clean` are history; `overlooked` are the
paths that had been written since the checkpoint when a delta made its list, and are not on it:
a page in front of the cursor it resumes at, a file whose text is again that of the old commit.

- `CoveredIsStored` - a path that has not been written since the state of the checkpoint is in
  the shard as the source has it, wherever crawls broke off, unless it was overlooked.
- `SkippedIsStored` - whatever the next delta would pass over is in the shard: what the comments
  say, and what the code does not keep where a path was overlooked (section 14).
- `NoGhosts` - in a clean history, what the source has lost is deleted by the next delta.

The run covers the three connectors, each with sources that go back.

## 9. `Routing`

| Model | Code |
|---|---|
| `known`, `stats`, `df`, `signature` | `shards`, `shard_term_stats`, `term_df`, `shards.routing_terms` with its mirror `shard_terms` |
| `RecordTermStats`, `Score`, `SetRoutingTerms` | `recomputeRoutingTerms`: two transactions with reads between |
| `RefreshAllRoutingTerms`, `ScoreNext`, `EndRefresh` | the pass at the end of `drainQueue` |
| `ReadToken`, `ListShards`, `cache`, `moved` | `routingState` of `federation/router.ts`; a token differs from the one read last, or not |
| `EnsureShard`, `Dies` | registration; the end and restart of a process |

Frequencies only rank terms. So statistics, signatures and densities are sets, and what a cut
leaves of a set is any subset of that size (`Cut`): `MaxTerms` in the statistics (500 in the
code), `TopN` of the distinctive ones in a signature (200; `Scoring`, `Scored`), `HeadN` of those
in the densities that a router caches (32; `Heads`), `Limit` shards from the mirror (64).
Several reads of one pass before its write are one step.

For a term, `scoreCandidates` asks two lanes. The mirror has the words of a shard's key, name
and signature, and is asked anew each time: `Found` is any set of matches within the limit that
has what matches for certain (`Surely`) and only what may match (`Perhaps`). The densities
(`Densities`, `Fits`) come from the cache and match a keyword inside a text. Which terms are
inside which, share a word, or occur in a name is given by the constants `Inside`, `Shares` and
`Named`. How candidates are ranked, and the cut at `maxShards` behind it, belong to
`SearchWave`; the density cutoff has its default of 0, with which it drops nothing.

- `DfIsRecount` - the incremental count is at any time what a recount would give.
- `RoutedWhereHeld` - once a refresh has settled and until a signal changes, the candidates every
  router has for a term, through its cache, are shards whose last recording has a telling term
  (one that not all shards have) that is the term, is inside it or shares a word with it, or
  whose name has a word of it. And each shard that recorded the term as a telling one is among
  them, if its telling terms fit into a signature and the matches into the limit.

## 10. `SearchWave` and `Context`

| Model | Code |
|---|---|
| `asked`, `Route`, `Interleaved` | `ShardRouter.route`: hint, lists per term read in turns, the whole query, the most recent shards |
| `Begin`, `Answer(i)`, `Deadline`, `LeaveWave` | `federatedSearch` and `probeWaveShards`: workers of a wave, answers of any wave at any time, the timer, the decision to go on |
| `stragglers`, `fused`, `late`, `hung` | its sets and flags; probes that never answer |

A shard is its place in the order of recency. Which shards a term nominates, in which order,
is a constant (`Nominations`), from which every call chooses.

- `AllAccountedFor` - each probed shard is fused, failed or a straggler.
- `StrictIsExact` - a strict search waits for all; any search passes over candidates only
  where there was a hit.
- `SubjectsProbed` - the best shard of every term is among the first candidates.
- `SearchReturns` - if each wave has a quorum that does not hang (`Quorate`) and a worker that no
  hung probe holds (`Spared`). Probes have no limit of time of their own.
- `LateNotAwaited` - if each wave has a quorum that does not hang: violated (section 14).

Fairness: the search goes on, the timer fires, some probe that does not hang answers. All
are promises or timers of one event loop.

`Context` defines `chunkText` and `assembleContext` on positions of characters. `MCContext`
states as assumptions, evaluated over all small texts, windows, budgets and hit lists, that
chunks cover the text (`ChunksCoverText`) and that blocks are verbatim, within the budget and
hold each hit once (`ContextIsVerbatim`).

## 11. `WorkerBroker`, `Prefetch`, `IngestStream`

| Model | Code |
|---|---|
| `thread`, `inbox`, `outbox`, `pending` | a worker's thread, its port in both directions, and the map of its pending calls |
| `Boot`, `Serve`, `Die`, `Exit` | `workers/worker-main.ts`: ready message, one call after the other with its errors answered, an error event, `terminate()` |
| `OnReady`, `OnReply`, `OnError`, `opening` | the broker's handlers, and how far `open` is |
| `Write`, `Read`, `Close` | the calls; a read first looks whether to start a reader (`maybeScaleUp`), then takes the least busy one |
| `producer`, `consumer`, `Fire`, `queue` | `buffered()`: both loops, the one-shot latches, the batches between |
| `LookUp`, `Replace`, `Handled`, `Fail`, `Return` | the loop of `ingestDocs` over the documents |

What a reader's connection sees of the last commit is SQLite's (WAL) and not modelled. Batches
without documents are left out.

- `CallsInLine` - a call that is not settled is in one place: in line at its worker, or answered
  and not yet handled; workers answer in the order of the calls; no call is pending at two.
- `StreamIsWhole` - documents are handled in order and none is left out at the return.
- `CallsSettle` - a call settles unless its worker was already known to be dead, or `close`
  overtakes it.
- `IngestEnds` - no wake-up of the buffer is lost.

Fairness: some thread with something to do goes on, the event loop turns, and the stream's
next step follows a promise that settles. None for callers, deaths or `Close`.

## 12. `Stability`

`Clock`, `StableFrontier`, `IsStable` and `Collapses` are `stability.ts` as operators on state
vectors. `CollapsesIfAcknowledged` compares them with the definition in words: all replicas
have acknowledged all of the atom's history. The sweep around it is not modelled (section 15).

## 13. The harness

`Navigator` is one command-line process that does one thing at a time on files that outlive
it, and may die between two writes or in one (`Dies`, `DiesWriting`).

| Module | Model | Code |
|---|---|---|
| `Datasets` | `db.tables`, `db.catalog` | data tables and the rows of `datasets` |
| | `RouteIngest` | `routeIngest`: new, replace, append, new version |
| | `DropTable`, `CreateTable`, `BulkInsert`, `WriteDatasetMeta` | the statements of these four, each a transaction of its own |
| | `InsertFails`, `GiveUp` | an insert that throws (columns are found NOT NULL from the first 200 rows only), a process that dies |
| `RagIndex` | `index`, `IndexRows`, `IndexTorn`, `Retrieved` | the JSON vector index: upsert by `dataset:rowid`, a torn file, `retrieveRows` |
| `RowSession` | `record`, `desk` | a session's record on disk, the open session in memory |
| | `StartFresh`, `ResumeSession`, `ResumeAt` | choice of a session, resume with the clamped cursor |
| | `Move`, `Annotate` (`AddNote`, `SetMark`), `SaveFinding`, `Exit`, `TearRecord` | commands with persist behind each, the findings store, a torn record |
| `GroundedAgent` | `Question`, `RunSql`, `Aggregate`, `RagSearch`, `ToolThrows`, `BuildGroundedAnswer` | the tool loop and the evidence it keeps |
| | `AnswerRowQuestion` | a question about the row of an open session: the rows SQL gives, with their ids or without, related rows, retrieval |

A row's content is the number of its line, columns and texts are data, and a row id is its
place in the table. An entry of a session is of a kind and about a row; of the kinds in `Single`
(flag, briefing) a row has one, and the next takes its place (`With`). A declined prompt and columns that do not align change nothing.
`suspect` names the tables an ingest wrote to without finishing: nothing but a replace heals
them. A session can be resumed on any dataset, as nothing in the repository's modules ties it
to one (`main.mjs` only stubs the caller). A torn record keeps every session from being
chosen, and a torn index from being used, as the code parses without a guard. The sqlite
backend of sessions has the same interface and tears nothing. Generated SQL is assumed to
read the dataset it was given.

- `CatalogTrue` - the count in the catalog is that of the table, except for suspect tables.
- `IndexTrue` - what was indexed last is found under its row id with its content, whatever was
  indexed or appended since.
- `Grounded` - an answer of the search mode that is not the unknown response cites a row or a
  query. One about a row cites a row, unless it rests on what SQL returned. The rows an answer
  cites exist, although the index may know rows from before a replace.
- `RowAnswersCite` - any known answer about a row cites one: violated (section 14).
- `ImplementsNotebook` - `RowSession` implements `Notebook`, under a refinement mapping that
  takes a record to the union of its two fields: no writer of one field loses the other, a mark
  replaces that of its row and nothing else, and a crash spoils one record at most.
- `TypeOK` - includes that the cursor of an open session is on a row of its dataset, also when
  the dataset has shrunk since it was saved.

## 14. Runs

Bounds are the constants named `Max...`; `PollLimit` is the code's 1000 made small so that a
backlog spans several polls. Deadlock checking is off: the bounds stop the system, and a
search or an ingest is over when it has returned.

| Run | Module, specification | Bounds | Shows |
|---|---|---|---|
| `atom_edits` | `AtomSync`, `FairEditSpec` | 2 atoms, 4 events, 3 updates, 1 crash or close, 1 caller, polls of 2 | `SyncedEventsShown`, `EventuallyMerged`, `SyncNowReturns` |
| `atom_full` | `AtomSync`, `Spec` | 2 atoms, 4 events, 3 updates, 1 document, 2 hashes, 1 epoch change per atom, 1 undecodable update, 1 restart | `TypeOK`, `ViewAgrees`, `OneMergePerNode` |
| `atom_baseline` | `AtomSync`, `Spec` | 1 atom, 4 events, 1 epoch change | `BaselineKept` is violated |
| `graph` | `MCAtomGraph`, `Spec` | 3 texts, 3 clusters in 2 graphs, 1 document, 1 edge at a time | `LockStep`, `SummariesTrue`, `Firewall` |
| `ingest` | `IngestScheduler`, `FairSpec` | 1 process, 1 shard, 1 crawl at a time (any number one after another), 2 workers, 2 tasks, 3 ingests, 2 slots, 1 crash | `RunningIsHeld`, `DrainedOnReturn`, `DrainsReturn`, `IngestsSerialized`, `SlotsKept`, `IngestingIsBusy`, `IngestsReturn` |
| `ingest_reopen` | `IngestQueue`, `QueueSpec` | 2 processes, 1 shard, 2 crawls of 1 worker, 2 tasks | `OneTaskPerShard` is violated |
| `pool` | `ShardPool`, `FairSpec` | 3 shards, 2 open at most, 2 callers, 4 engines over the run, 2 references an entry | `InUseIsOpen`, `OneLiveEngine`, `EnginesTracked`, `AcquireReturns` |
| `crawl` | `CrawlRunner`, `Spec` | 3 connectors, 2 paths, 2 changes, 1 fault, batches of 1 | `CoveredIsStored`, `NoGhosts` |
| `routing` | `MCRouting`, `Spec` | 2 processes, 1 of them searching, 2 shards, 2 terms; 2 terms in the statistics, 1 in a signature and in the densities, 1 match; terms inside each other, sharing a word, in a name | `DfIsRecount`, `RoutedWhereHeld` |
| `search` | `MCSearchWave`, `FairSpec` | 7 shards, 6 candidates at most, waves of 5, 2 workers, 2 terms, 1 hung probe | `AllAccountedFor`, `StrictIsExact`, `SubjectsProbed`, `SearchReturns` |
| `broker` | `IngestStream`, `FairSpec` | 1 to 2 readers, 1 death, a buffer of 2 documents, batches of 2 at most, 2 documents, 1 call of others | `CallsInLine`, `StreamIsWhole`, `CallsSettle`, `IngestEnds` |
| `harness` | `MCNavigator`, `RunSpec` | 2 datasets, 2 versions, 4 lines, 2 sessions, 2 entries, flags as marks, 1 tool call, 1 hit is enough | `TypeOK`, `CatalogTrue`, `IndexTrue`, `Grounded`, `ImplementsNotebook` |

`search` also evaluates the assumptions of `MCContext` and `routing` that of `MCStability`.
Every module's assumptions about its constants are evaluated by the run that extends it.

Why these bounds:

- Atoms: two are enough for a round with several merges and for two rounds in flight; three
  updates give a genesis, an edit and an edit on top of it, in and out of the window; four
  event rows let an update be delivered twice. With an undecodable update `syncNow` does not
  return, so `atom_edits` has none.
- Graph: three texts give an atom, a neighbour, and a new atom that takes over an id in the
  other graph while a search is under way.
- Queue: two tasks of one shard (a `full` and a `delta`) and two workers let a worker meet a
  blocked task and return; a crawl whose discovery fails, or a crash, leaves a task to the next
  crawl. `MaxTasks` bounds the tasks ever enqueued: a drain that other crawls feed for ever is
  left out, and would not return. Another shard would add tasks that run side by side without
  meeting. In `ingest_reopen` a second process is enough.
- Slots: three ingests and two slots make one wait for a slot while another holds a slot and
  waits for the shard; a second shard would only let some of them pass each other.
- Pool: three shards compete for two places: an opener meets a victim, room, or a pool that
  filled up while its victim was closing; four engines let a shard be opened again after an
  eviction or a failure.
- Crawl: two paths in batches of one give a crawl with a stored and a missing half; two
  changes let a document change, go back or vanish on either side of it.
- Routing: with one of two shards a term is telling, with both it is common, and it becomes so
  while another process scores it. Of two terms recorded a signature holds one: a cut that came
  before the scoring would take the common one and drop the telling one.
- Search: six candidates make a wave of five, whose quorum is four, and a wave of one that
  needs them all; two workers leave probes that have not begun.
- Broker: one reader and a threshold of one start the second under load; one more call of
  others makes the writer busy when a document comes.
- Harness: two datasets and two sessions show that one does not disturb the other; four lines
  allow for two ingests with rows, the second one shorter or appended. Two entries let a mark
  replace another. A question needs of a session only the row it is at, so `RunSpec` has
  questions and indexing until the first entry is made; `Spec` has them at any time. With four
  lines a saved row is gone from its table only when the table is empty (an ingest takes one
  line more than it has rows); that the cursor is clamped to a shorter table too is what
  `NavigatorTyped` proves.

### Promises the code does not keep

Each is a promise of the repository's own text, stated as a property that TLC refutes. The first
two are runs, and findings in `PROJECT.json`; the others are configurations beside them, which
end in a counterexample as well (`tlc -config X.cfg M`). Where a run checks a weaker property
about the same code, the exemption it makes is exactly what the counterexample shows.

- **`BaselineKept`**, run `atom_baseline` (`workers/write-ops.ts:345`). Poll, compact (or adopt a
  snapshot), commit: the atom has the new epoch and the old blob. Events still pending at the
  change of epoch are merged into the baseline as well. The epoch check guards
  `applyRemoteUpdate` only; neither `dirtyOutbox` nor `commitMerges` looks at it. The comment at
  `workers/write-ops.ts:215-218` says that pre-compaction history is never silently merged.
- **`OneTaskPerShard`**, run `ingest_reopen` (`federation/catalog.ts:80`). `Catalog.open` makes every
  RUNNING task pending, also that of another process which is alive: both then crawl the shard,
  where `federation/scheduler.ts:8-10` has the rule enforced across processes and the README's gate
  `multi-writer-org` speaks of two of them.
- **`LandsBeforeReturn`**, `AtomSyncNow.cfg` with `MCSyncCalls` (`sync/pipeline.ts:63`). A `syncNow`
  beside an interval round finds nothing due, since the round has the events in flight, and is
  resolved before that round has committed; the comment says "resolves when commits have landed"
  (`sync/pipeline.ts:72`).
- **`SyncNowResolves`**, `AtomClose.cfg` with `AtomSync` (`sync/pipeline.ts:83`). The same comment;
  `close` neither resolves nor rejects the waiters of the worker it ends. `SyncNowReturns`
  exempts them.
- **`HitsInGraph`**, `GraphFirewall.cfg` with `MCAtomGraph` (`engine.ts:340`). A hit is deleted behind
  the lanes, its id goes to an atom of another graph with an edge there, and the neighbour query
  asks by id alone: what it returns is labelled with the graph of the search. "An edge can never
  breach the contextual firewall" (`workers/write-ops.ts:381`). `Firewall` exempts a search one of
  whose ids was taken.
- **`SkippedIsStored`**, `CrawlReverted.cfg` with `CrawlRunner` (`connectors/git-org.ts:162`). A delta
  stores a commit and breaks off before its checkpoint, the branch goes back, and the diff from
  the old commit shows nothing: the reverted text stays. And `CrawlResumed.cfg`
  (`connectors/confluence.ts:180`): a delta that resumes in the middle of a pagination asks with the
  old watermark and takes a new one: an edit of a page it has passed is lost. "Never loses data"
  (the engine's `README.md:34-35`), "a mid-pagination crash resumes exactly"
  (`connectors/confluence.ts:9-10`). `CoveredIsStored` exempts what a listing overlooked.
- **`LateNotAwaited`**, `SearchHung.cfg` with `MCHungProbes` (`federation/search.ts:192`). Hung probes
  that hold every worker of a wave keep the quorum from being asked; "late results are logged,
  not awaited" (`federation/search.ts:8-9`). Of ten probes two hang and eight are a quorum: the
  smallest wave in which both workers hang and a quorum is left. `SearchReturns` asks for a worker
  that is spared. (The default wave of four has a quorum of four: one hung probe stops it.)
- **`RowAnswersCite`**, `RowAnswers.cfg` with `MCNavigator` (`src/modes/row-by-row/qa-loop.mjs:63`).
  SQL rows without ids are evidence, the query is not returned, and the answer cites nothing;
  "Answers cite their sources or say "I don't know"" (`qa-loop.mjs:5`). `Grounded` exempts answers
  about a row that rest on SQL.

## 15. Observations

What the models show beside the properties, where we found no text of the repository that
promises anything else, or where a property does not notice:

- Row ids are reused (`db/schema.ts:69`). Poll, replace the document, commit
  (`workers/write-ops.ts:345`): the replacement has the ids of what it replaced, so the commit
  writes the old text over the new atom. `ViewAgrees` still holds and does not show it: text and
  blob are both old. `SyncedEventsShown` is about atoms that are not deleted.
- `applyRemoteUpdate` queues bytes without decoding them. One bad payload makes
  `computeMerges` throw at every poll (`sync/sync-worker.ts:56`, `sync/pipeline.ts:48`); atoms
  before it stay in flight, atoms behind it are never reached. The error carries no token, so a
  `syncNow` that meets it stays unresolved; the runs about returning have no such update.
- Two `engine()` calls for one shard side by side both take a reference while `pinned` keeps
  one (`federated-engine.ts:138`); the shard is then not evicted before `close`.
- An engine that is still opening when the pool is closed becomes an entry of a closed pool, which
  nobody closes (`federation/pool.ts:171`); `EnginesTracked` counts it as an entry.
- A call sent to a reader that has died is never answered (`workers/broker.ts:50`), and
  `close()` leaves pending calls unsettled (`workers/broker.ts:152`); `CallsSettle` excludes both.
- A second full crawl of files or pages deletes nothing the source has lost meanwhile, and later
  deltas do not look for it; `NoGhosts` is about histories without one.
- An ingest that a crash cuts in two leaves a table its catalog row does not describe
  (`src/db/tables.mjs:78`); `CatalogTrue` exempts it until it is replaced. After a replace, old vectors
  name new rows (`src/db/tables.mjs:80`); `IndexTrue` is about what was indexed since.
- A torn session record makes every session unreadable, as its file is parsed without a guard
  (`src/store/sessions-fs.mjs:43`); for `Notebook` it is a spoiled book.
- A delta ingest counts the terms of the documents that changed and records them as the
  shard's statistics (`federation/scheduler.ts:231`).
- The characters between the blocks of a context are not all counted: the assembled text can
  exceed the budget by a few (`federation/context.ts:90`). `assembleContext` must be given the
  overlap the chunks were made with.
- `compactStable` decides on a blob it loaded and compacts in a second call: an edit between
  the two is collapsed unacknowledged (`federation/stability.ts:67`).
- A dataset may be named like another one's version table (`src/db/metadata.mjs:75-82`); the
  models leave such names out. Two command-line processes on one session overwrite each
  other's record (`src/store/sessions-fs.mjs:43`).
- `RAG_MIN_HITS=0` passes the configuration check (`src/config/env.mjs:20`) and would make
  every retrieval sufficient evidence, hence `MinHits` of at least 1 in `AgentAssumption`.

## 16. Proofs

`AtomSyncProofs` (TLAPS) proves for every value of the constants, from `StoreAssumption` and
`SyncAssumption` (the bounds are naturals, `Timer` is no caller, `NoDoc`/`NoHash` are no keys
or hashes):

- `TypeCorrect`: `Spec => []TypeOK`. Each writer operation keeps the tables typed
  (`StoreTypeStep`, one step per operation), each sync step keeps the queues typed
  (`SyncTypeStep`).
- `MergesDoNotOverlap`: `Spec => []OneMergePerNode`. The property is not inductive: it says
  nothing of rounds already committed whose acknowledgement is under way. The invariant
  `FlightInv` adds that every node named in a round, an answer or a queued acknowledgement is
  in `inflight`, and that no two of these places name the same node; a poll only takes nodes
  outside `inflight`, and an acknowledgement removes a node from its last place.
- `TextIsBlob`: `Spec => []ViewAgrees`. Two things are missing from the property. A commit
  brings text that was read from a blob when the worker polled, so the invariant `ViewInv`
  says of the merges in flight what it says of the rows (`RoundsFit`, `NodesFit`). And the
  text of a blob is a function of `anc` and `covers`, which change when an update is
  authored: `Authored` says that blobs, events, drafts and mail hold authored updates only,
  and `Untouched` that one nobody has authored is still blank, so a blob reads the same
  afterwards (`FitsStable`). `CompactAtomKept` is where it matters that the baseline covers
  just what the blob showed.
- `SyncedIsShown`: `EditSpec => []SyncedEventsShown`. The invariant `ShownInv` says that a
  synced update is in its atom's blob (`SyncedInBlob`), and that every merge on its way holds
  all that its atom has synced meanwhile (`RoundsHold`). The latter is what a commit needs,
  since it replaces the blob; it survives the commit of another round only because no two
  rounds name the same atom (`FlightInv`). The text then follows from `TextIsBlob`. The
  theorem is about `EditSpec`: with new epochs the run `atom_baseline` shows how it fails,
  with deletions the reuse of row ids (section 15).

`IngestProofs` proves, from `QueueAssumption` (at least one slot, natural bounds) and, for the
slots, `IngestAssumption` (finitely many ingests):

- `QueueTyped`: `QueueSpec => []QueueTypeOK`.
- `ShardsHaveOneTask`: `RestSpec => []OneTaskPerShard`, for any number of processes. The property
  speaks of workers, the claim looks at rows; `QueueInv` ties the two together: a worker past its
  claim has a task that says RUNNING (`TasksInHand`), no task is in two hands (`HandsApart`),
  no two RUNNING rows are of one shard (`RunningApart`), and each is in somebody's hands
  (`RunningInHand`). Where a catalog is opened at rest, `recoverQueue` takes no task out of a
  hand; `ingest_reopen` shows how the property fails otherwise.
- `RunningHasWorker`: `RunningIsHeld` under the assumption `OneProcess`, from the same invariant. With
  one process nobody is at work when it opens the catalog. This theorem and the next are about
  the whole of `IngestScheduler`; of the queue's variables an ingest writes the status of a shard
  only (`StatusApart`).
- `ReturnsDrained`: `DrainedOnReturn`, under `OneProcess` and `OneCrawl` (crawls follow each
  other, as in the run: a second one that enqueues and breaks off would leave its tasks to the
  next). A worker returns when all that is pending is blocked by something running. `DrainInv`
  adds to `QueueInv` that a crawl without workers has an empty queue (`IdleIsDrained`): the last
  worker to return has no task, so nothing is in a hand, hence nothing runs and nothing is
  blocked.
- `IngestsTakeTurns`: `Spec => []IngestsSerialized`, for any number of processes. The
  invariant `LockInv` says that whoever works is at the head of its chain (`HoldersLead`);
  appending keeps the head, and only the head unlocks.
- `IngestingHasIngest`: `Spec => []IngestingIsBusy`, for any number of processes. `BusyInv` adds to
  `SlotInv` that a worker past its claim has a task of the table (`TasksAreRows`), whatever
  the row has come to say, and that workers belong to crawls that are under way (`Placed`):
  a step that takes the last crawl or ingest of a shard away sets the shard's status.
- `SlotsComeBack`: `Spec => []SlotsKept`, and `SchedulerTyped`: `Spec => []TypeOK`. `SlotInv` adds
  to `LockInv` that free slots and ingests with a slot add up (`SlotsAddUp`) and that the
  semaphore's line names ingests that wait for a slot, each once (`LineIsTrue`): a release hands
  the slot to the first in line, which takes one ingest out of the holders and another in.

`ShardPoolProofs` proves, from `PoolAssumption`:

- `PoolTyped`, `ShardHasOneEngine` and `NoEngineLost`: `TypeOK`, `OneLiveEngine` and
  `EnginesTracked`. `BookInv` ties each live engine to one place in the books: what is open is
  an entry's, what is opening or closing for an opening is that opening's, and no shard has
  both. The properties themselves are not inductive, since they do not say that an opening's
  engine is nobody else's (`OpeningsApart`).
- `UseKeepsOpen`: `InUseIsOpen`. Nothing but its count keeps an engine from eviction, so
  `UseInv` counts: the references of an entry are at least its holders and its pin
  (`RefsCount`). "At least", since a double pin leaves one over (section 15); once the pool is
  closed nothing is promised.

`CatalogProofs` proves:

- `DfNeverDrifts`: `Spec => []DfIsRecount`, from `RoutingAssumption` (finitely many shards).
  With `stats` and `df` typed, the property is inductive: a recording changes the set of
  shards that hold a term by the one recorded, in the direction counted.
- `TermsGoWhereHeld`: `Spec => []RoutedWhereHeld`, for any cuts and any `Inside`, `Shares` and
  `Named`. That a signature is what a scoring may give now is true only once a refresh has
  passed the shard and nothing was recorded since, so `RouteInv` follows both: what is about to
  be set was scored from the present signals (`ScoresFresh`), a refresh that nothing disturbed
  has settled all but what is before it (`SteadyBehind`), and a router's cache with the current
  version holds heads of the table's signatures (`CachesTrue`). A shard without statistics has
  no signature (`OnlyWithStats`). What scores is what tells (`ScoringTells`), a cut that has room
  takes all (`CutTakes`), and then the mirror finds the shard (`MirrorFinds`).
- `CollapsedIsAcknowledged`: the frontier, built from the first vector's clients clamped by
  the others, decides exactly as the definition in words, for any list of vectors whose
  clocks are naturals.

`SearchWaveProofs` proves, from `SearchAssumption` (naturals; ranked lists name shards, each
once):

- `SearchAccounts` and `StrictSearchIsExact`: `AllAccountedFor` and `StrictIsExact`. A probe may answer after its wave
  was left, so what counts is fixed when a wave ends: `WaveInv` says that a place of a wave
  left behind has answered or is a straggler (`LeftAreNamed`), that a strict search has no
  stragglers (`StrictWaits`), and that what is fused has answered (`FusedAnswered`).
- `SubjectsAreProbed`: `SubjectsProbed`. The interleaving puts a shard at the place that counts
  the shards mentioned before its first mention. No two shards are mentioned first in the same
  turn (`FirstsDiffer`), so this is a list of all of them (`InterleavedAt`), and a list's first
  shard has at most one per earlier list before it.
- `AdjacentChunksMeet`: a chunk without its overlap goes on where its predecessor ended, for
  every size, overlap and text, which is what makes the merged run of `Context` verbatim.

`NavigatorProofs` proves, from `DatasetsAssumption`, `SessionAssumption` and `AgentAssumption`
(the bounds are naturals, `MaxVersion` and `MinHits` positive; `NoState` is no state and
`TornRecord` no record, as a missing field and a file that does not parse are neither):

- `NavigatorTyped`, `CatalogIsTrue`, `IndexIsTrue` and `AnswersAreGrounded`: `TypeOK`,
  `CatalogTrue`, `IndexTrue` and `Grounded`, all from one invariant, `NavInv`.
- `CatalogTrue` says nothing while an ingest is under way, which is when it can be lost.
  `DataInv` adds what the ingest knows of the catalog (`Routed`), how far it is with its table
  (`TableInHand`), and that a table the catalog does not name yet is empty or suspect
  (`StraysAreEmpty`): a new version creates its table only if it does not exist, so what an
  ingest before it left there would be counted wrong. `CatalogKept` is `CatalogTrue` up to the
  statement that touches the table.
- `IndexTrue` is lost and won with the tables: `IndexedIsThere` says that the rows indexed last
  can be read, also while the index is torn; an append only grows them (`IngestGrows`).
- `DeskIsSaved` says that the state of an open session has the entries of its record, so that
  putting it back takes none away; `AskInv` that what a question has gathered is there and
  suffices for what it claims. Both use that nothing is ingested meanwhile.
- `SessionsImplementNotebook`: `Spec => ImplementsNotebook`. Every step writes at most one record
  (`NavStep`); a write leaves the entries as they are or puts one to them as `With` does
  (`Wrote`), which is `Save` or a stutter of `Notebook`, and a torn write is `Spoil`.

`EngineProofs` proves, from `GraphAssumption` for the first three and from
`PrefetchAssumption` for the last:

- `IndexesInStep`, `SummariesAreTrue` and `FirewallStands`: `LockStep`, `SummariesTrue` and
  `Firewall`. `LockStep` is lost when an id is given out that something still refers to, so
  `TablesInv` adds that ids are given out no faster than texts, and that both ends of an edge
  are in one graph: an atom that takes over an id finds nothing there. What a search holds may
  be out of date when it goes on: `Searching` says that the atoms that now have its hits' ids
  are of its graph, as long as none of another graph has taken one, so that it finds no others
  by its edges (`Within`).
- `CallsAreInLine`: `StreamSpec => []CallsInLine`, for any number of readers and deaths, with the
  other calls of `IngestStream` beside it. `BrokerInv` says of each worker (`InLine`) that what is
  answered and what is in line are one increasing sequence without repetition that makes up its
  pending calls, up to what its death has cut off, and of the calls (`Waiting`) that the pending
  ones are those that wait, each at one worker.
- `StreamsWhole`: `StreamSpec => []StreamIsWhole`, for any high-water mark, batches and source.
  `InOrder` says that what is handled, the batch in hand and the batches of the queue make up
  the documents pulled, without a gap; `Sides` that only a consumer that was given a batch holds
  one, that it does not go on while a call is awaited, and that it stops by itself only with
  the queue empty and the producer done.

`CrawlProofs` proves, from `CrawlAssumption`, for any number of paths and changes, any batch
size, any crawls that break off and each of the three connectors:

- `CoveredDocumentsAreStored`: `Spec => []CoveredIsStored`. The next delta looks at stamps, a
  crawl under way at the state it listed, and a read at the state of that moment. `Sourced` says
  that a path kept what its stamp says it got. With it, `CoverInv` says what is covered: by a
  checkpoint, whatever is unchanged since (`Committed`); by a crawl, what it has passed, once
  its batch is written (`OnTheWay`), while its deletes touch nothing unchanged (`DeletesOld`) and
  what it does not list is old or overlooked (`Listing`). A checkpoint may then take the place of
  the crawl that wrote it.
- `GhostsAreFound`: `Spec => []NoGhosts`. `GhostInv` says that in a clean history the shard has
  paths only where the connector would look for what is gone, in the state that the checkpoint
  names (`Rested`), or that the crawl under way listed or compares with (`Moving`).

Model-checked only, as they are about fairness, which is out of the prover's reach:
`EventuallyMerged`, `SyncNowReturns`, `DrainsReturn`, `IngestsReturn`, `AcquireReturns`,
`SearchReturns`, `CallsSettle`, `IngestEnds`. Every other property of a passing run has a
theorem. What `assembleContext` computes for every list of hits is a fold, and a statement
about it needs induction over data, which the prover does not do here either; `MCContext`
checks it on small lists. No module uses a `RECURSIVE` operator.

## 17. Not modelled

- `compactStable`'s sweep and registration of replicas; subscriptions; statistics calls.
- Ranking, scores, embeddings, FTS matching, rank fusion: which hits there are and in which
  order is data.
- Reading and inferring spreadsheets, column alignment, exports, prompts, rendering, HTTP
  providers, configuration, run logs: no state that another part depends on.
- The list of schema migrations, and the data-only requirement document types.
- Two command-line processes of the harness at a time.
