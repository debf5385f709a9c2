# A specification of the MCP context manager

The MCP context manager (`src/mcp_context_manager`) serves coding agents with
context about a repository: an index of its files, packs of snippets chosen for
a prompt, project memory, result references and metrics. It keeps everything in
one LMDB environment per project, answers requests on a pool of service threads
and runs refreshes, prunes and warm-ups on a second pool. What is hard in it is
not the text processing but the *currency of copies*: rows, sidecar documents,
signatures, statuses and fragments are all copies of something that changes
under them, made in several steps by several threads, and reused only when some
cheap comparison says that they are still good. The modules here are about
those comparisons.

Paths below are relative to the repository; `index.py` stands for
`src/mcp_context_manager/index.py`, and so on.

## The system

| Component | State | Operations | Interacts with |
|---|---|---|---|
| Repository index (`index.py`, git helpers in `util.py`) | rows `index:file:`, `index:symbol:`, `index:import:`, `index:term:`; `index:meta:refresh_signature`; `_status_cache` | `refresh`, `refresh_if_needed`, `status`, `snippet`, `file_summary`, `search`, `symbols` | reads the working tree and git; writes the store; drives the sidecar |
| Search sidecar (`tantivy_index.py`) | a Tantivy directory, `tantivy_*` meta rows | `rebuild`, `apply_changes`, `search`, `is_healthy`, `doc_count` | a second copy of the file rows, outside their transaction |
| Background jobs (`runtime.py`) | `_jobs`, `_state`, two executors | `submit`, `_run`, `job`, `pending` | runs refreshes, prunes, warm-ups, status computations |
| Store (`store.py`) | LMDB environments and write locks, shared per path | transactions, prefix scans, `close_path` | everything persistent |
| Context packs and retrieval caches (`context.py`) | rows `cache:retrieval.search_term`, `cache:retrieval.file_summary`, test owners | `context_pack`, `context_lookup` | index, sidecar, jobs |
| Cache expiry (`context.py`) | `last pruned` row, ages of cache rows | `prune_cache`, background prune | store, jobs |
| Warm-up and auto-learning (`context.py`) | rows `warmup:prompt_manifest`, `warmup:auto_learn`, `warmup:term_stats:`, `warmup:route_seeds`; the start gate | `_maybe_enqueue_auto_warmup`, the run it submits, `cache_warmup` | jobs, store, retrieval caches |
| Memory (`memory.py`) | the row `memory:store`: entries, summaries, decisions | `upsert`, `summary_upsert`, `decision_record`, `compact`, reads | store |
| Result references (`references.py`) | rows `reference:`, the directory `references/` | `create`, `resolve` | store, file system |
| Metrics (`metrics.py`) | the row `metrics:store` | `record_event`, `snapshot` | store |
| Project manager (`manager.py`) and registry (`projects.py`) | services per project, project metadata | resolve, get or create, prune, remove | all of the above |
| Server (`server.py`, `schemas.py`) | executors | tools, resources, self-update | project manager |
| Configuration, tokens, redaction, utilities | none that outlives a call | | |
| `monitor-metrics.py`, `benchmarks/`, `scripts/`, build | not part of the server | | |

### Where it is hard, and what correct means

*Repository index.* A refresh lists the candidates (path, size, mtime), reads
the rows it may replace, takes a signature of the whole tree, reads the bytes of
the changed candidates, commits everything in one write transaction, then
synchronises the sidecar and drops the status cache. Files may be edited or
removed, and other refreshes may run, between any two of these. Correct means:
a row is served only if it is the file's text (`_indexed_row` compares stats);
a refresh is skipped only over a current index (`refresh_if_needed` compares the
live signature with the one in a status that may be cached, which is where this
stops being true); a refresh of one path touches only that path; a commit leaves
the files of its scope indexed and no others.

*Search sidecar.* It is written after the commit, under a lock of its own, from
records gathered before that lock is taken; its health is a number of documents.
Correct means: no path has two documents; a fault spoils nothing but what was
being written; an index that passes the checks has the words of the rows.

*Background jobs.* A request for a running key is deduplicated, one within the
interval is refused, and nobody remembers either. Correct means: one unfinished
future per key; what is reported of a finished job is true; a change is served
in the end.

*Retrieval caches.* A search fragment is filed under a refresh signature read
before the search, a file summary under a fingerprint taken before the file is
read; nothing invalidates either, a changed key just leaves them behind. The hits
of a search come from the sidecar, what is said of them from the rows, and the
sidecar follows the rows and the signature. Correct means: what a key finds is
what the computation would give now.

*Context packs.* A pack collects candidates in stages that may each fail on
their own, ranks and selects them under limits on items, paths and budget, and
finally reports its own size, which changes its size. Correct means: no
named path, search hit or piece of evidence is dropped without a reason in the
answer; what is left out could not have been added; the reported number of tokens
is that of the answer.

*Memory and metrics.* One row each, loaded, changed and saved by every request
without a transaction around the three. Correct means: a write is lost only to
one that had loaded the row before it; what is left in the row is consistent
with itself; the decision that is offered is a live one that no other outranks.

*Result references.* A large body is a file written before its record. Correct
means: what was given out can be resolved, to the very payload, whatever
crashes; a refusal has a cause.

*Warm-up and auto-learning.* A request counts itself, submits a run and counts
the submission, in two puts of a row that the run, and other requests, change as
well; a gate keeps the run back until the second put. Correct means: counters
never say too much, and exactly the truth when nothing overlapped; a term is
skipped only for what was seen of it; a run ends.

*The rest.* A prune closes an environment that requests in flight still use;
self-update replaces the executable in several file operations. `PROJECT.json`
lists each of these at its line under `hazards`.

## The modules

| Module | What it is |
|---|---|
| `IndexRefresh` | the repository index: tree, rows, signature, status cache, refreshing threads, readers |
| `StatKeyedCopy` | what the index promises its readers, with refreshes taken as one step |
| `BackgroundJobs`, `BackgroundJobsProofs` | the job registry, the executor and the clock |
| `SearchSidecar`, `SearchSidecarProofs` | the sidecar beside the rows: synchronisation, checks, rebuilds, faults |
| `RetrievalCache` | the caches of searches and summaries, composed with `IndexRefresh` |
| `RetrievalCacheProofs` | the theorems about both, the index by itself first |
| `ContextPack`, `ContextPackProofs` | one `context_pack` request: candidates, ranking, selection, the answer's own token count |
| `MemoryStore`, `MemoryStoreProofs` | project memory: writers of one row, compaction, effective decisions |
| `MetricsStore`, `MetricsStoreProofs` | metrics: recorders of one row, its aggregates, the measurement matrix |
| `ResultReferences`, `ResultReferencesProofs` | references: records, files, creators, resolvers, harm, prune |
| `WarmupLearning`, `WarmupLearningProofs` | warm-up: packs, the run, manual warm-ups, counters, term statistics |
| `MC...` | small instances for TLC, one beside each module that is checked |

`PROJECT.json` gives, under `map`, the lines every definition stands for.

### IndexRefresh

| Variable | Code |
|---|---|
| `tree`, `clock` | the working tree; a file's (size, mtime_ns) is one `stamp`, and every edit takes a new one |
| `rows` | `index:file:` rows: the stat a row is filed under, and its content. Symbol and import rows are deleted by prefix and rewritten with it, so the row stands for them |
| `terms` | per file, the contents whose `index:term:` rows exist |
| `stored` | `index:meta:refresh_signature` |
| `cache` | `_status_cache`: the signature and whether there are files |
| `job[t]` | the local variables of a call in progress on thread `t`: the request, the listing, the rows read, what is to be read, put and deleted, the signature, the status it computed |
| `reader[r]` | what a call of `snippet` or `file_summary` knows: the stat it took, and (a history) the texts the file has had since |
| `missed` | a history: files whose row a refresh of that one file did not find, since the file had gone |

`refresh` is `Start`, `List`, `ReadExisting`, `Snapshot`, `ReadCandidate` (one
per candidate) or `ReadRaises`, `Commit`, `InvalidateStatus` or `SyncRaises`.
`refresh_if_needed` on the repository root is `Check`, then `UseCachedStatus` or
`ComputeStatus` and `PublishStatus`, and goes on as a refresh or stops. A cached
status older than a second is served and recomputed by the io thread
`Background`. `Edit`, `Remove` and `Crash` are the environment.

Whether the refresh of one path is of a file is asked again when its rows are read
(`index.py:366-376`): if the file has gone since the request, no row is in scope
(`Overlooked`), its row stays, and if the file comes back before its bytes are read
the terms of the old row stay too. `CommitIsComplete` and `TermRowsMatch` say so.

The signature has two forms (`SignatureSources`): outside git it hashes the
candidates' stats; inside, HEAD, the porcelain status and two diffs, which is
the content of tracked files, the names of untracked ones and nothing of ignored
ones.

A walk of the tree is one step (so is a git snapshot, which in the code is
several commands). Extraction of symbols, excerpts, ranking and
the wording of results are left out.

### BackgroundJobs

`jobs`, `state` are the registry's two tables; `task` holds the futures, with a
program counter for `_run` (`queued`, `picked`, `working`, `computed`,
`returned` or `raised`, `settling` or `broken`, `ok` or `failed`); `queue` is the
executor's. `submit` is `Accept`, `Deduplicate` or `Refuse`, each one step under
the registry's lock. The window between the locked update that records the
outcome and the moment the future is done is kept (`Record`, `Settle`), since a
request that falls in it is deduplicated against a job that is complete. `source`
is a version number of whatever the work reads; `served` what it has brought up
to date; `asked` (a history) the version when the last job was accepted. Ages
are ages of `last_started_monotonic`, which is wall-clock time: `ClockBack` sets
it back. Time strings and reporting counters are left out.

### SearchSidecar

`rows` are the contents of the file rows; `meta` the `tantivy_*` meta rows;
`built`, `docs` the index directory; `job[t]` the locals of a refresh or search
in progress; `torn` (a history) the files of refreshes cut short since the last
rebuild. A refresh is `Commit`, then `CheckCompatible`, `CheckOpens`,
`ApplyChanges`, `Recount`, `StoreMeta`, or the route through `GatherRecords`,
`Rebuild` and `StoreMeta` when one of the checks fails; a refresh without changes
and a search are `CountRows`, `CheckMeta`, `CheckHealth`, and the same rebuild.
Faults are `SyncRaises` (an exception of Tantivy), `Crash`, `LoseSidecar` and
`Upgrade`. A rebuild is one step under the sidecar's lock unless a crash or an
exception cuts it short, which leaves no directory or an empty index. The
directory is lost, and the package changed, only while no request is running.
Tokenising, scoring and the growing candidate window of a scoped search are left
out: a document's words are its text.

### RetrievalCache

Extends `IndexRefresh`: its variables, refreshes, status computations, edits,
removals and crashes are the index the caches are filled from (`IndexStep`,
`Restart`), not a summary of it.

| Variable | Code |
|---|---|
| `fragments` | `retrieval.search_term` entries: the signature in the key, per file what the search found in its row, and (a history) `late`, the files whose document was not their row's when the hits were taken |
| `summaries` | `retrieval.file_summary` entries: the file, the fingerprint in the key, and the text that was summarised |
| `docs` | the sidecar: the content each path is found by |
| `request[q]` | the locals of a `context_pack` or `context_lookup` in progress |

A search is `Begin`, `ReadSignature` (`_current_refresh_signature`),
`LookupFragment`, which ends by counting the rows, `CheckSidecar`, the rebuild
(`GatherRecords`, `Rewrite` or `RewriteRaises`) if the count is not that of the
documents, `TakeHits`, one `SearchRow` per hit, since each hit's row is read in a
transaction of its own, and `StoreFragment`. A refresh that has committed brings
the sidecar up to date between its commit and the end of its synchronisation
(`SyncDocs`): the changes are applied, which is a step of its own
(`ApplyChanges`) since a search may fall between them and what follows, and kept
if the counts agree, or all is rebuilt; an exception leaves the sidecar as it was,
rebuilt or empty. `SearchSidecar` has the same in its full detail, with its meta
rows, several threads and faults; here the meta rows' comparison may come out
either way, one thread refreshes, and its rebuild is one step. A summary is
`StatFile` and
`ReadDigest` (`_file_fingerprint`), `LookupSummary`, `StatAgain` and `Summarise`
(`file_summary`, which stats the file a second time and reads its row or its
bytes), and `StoreSummary`. A fingerprint is the row's digest where the row is
filed under the file's stat (`stamp` 0 and a text), the stat otherwise. A
request without a signature computes and stores nothing (`Keyed`). `DropEntry`
is expiry and pruning. A key has the term, the path and the extractor versions
in it too; entries with different ones never meet, so one of each is modelled.
Left out: the row that a query which looks like a path adds to the hits
(`index.py:773-788`), the ranking and the limit of hits, scoring, budgets,
profiles, the memo within one request and the test-owner rows.

### ContextPack

| Variable | Code |
|---|---|
| `request`, `explicit` | the profile, the limit of items and whether the prompt has terms; the paths it names |
| `stage` | where `context_pack` is: the named paths, the search, symbols, test owners, the selection, the count of tokens |
| `rows`, `todo` | what the last lookup returned, and what of it is still to be summarised |
| `memo` | the summaries made for this request |
| `candidates`, `selected`, `omitted` | the evidence, what is selected of it, and the reasons for what is not |
| `count` | the answer's report of its own size: text, passes, output and baseline tokens |

`Begin`, `NamedPath`, `Search` or `SearchFails`, `SearchHit` and `SearchDone`,
`Symbols`, `SymbolHit`, `SymbolsDone`, `Owners` and `Owner` follow the stages;
`Select` is the ranking and the selection loop whole; `Assemble`, `CountPass` and
`Answer` are the loop that measures the answer with the numbers it has just put in.
An anchor beyond the end of the file is clamped to it, as the file is now (`First`):
the index may have known a longer one. `Sorted` is stable, as Python's sort is, and
`Selection` one pass over the sorted candidates (`Considered`), which carries what
it has seen, selected and used. Ranks, and the limits of items, of candidates per
path and of the budget, are the code's; an excerpt is its number of characters, a
score a number. If a summary raises, the search stage says so and ends, while the
stages of symbols and of test owners drop the row, the former the rows after it too,
and say nothing (`context.py:4040-4041`, `4143-4144`): `SymbolHit` and `Owner` do
the same. The wording of excerpts and output profiles are left out; caches are
`RetrievalCache`'s, references `ResultReferences`'.

### MemoryStore

`memory` is the row; `job[w]` a write in progress with the copy it has loaded
and the number of answered writes that copy is made of; `acked`, `excused`
(histories) the answered writes, and those that a later save overwrote without
knowing them. `Begin` is the check and the sanitising of the arguments, `Load`
and `Save` are the two transactions, with the change between them part of `Save`.
`compact` is `BeginCompact`, then `CompactDeclines` or `CompactProceeds`, which
goes on as a `summary_upsert` and therefore loads again. `Effective` is the sort
of `effective_decisions` with its first row of each topic. Confidence, tags and
source of facts choose no row and are left out.

### MetricsStore

`metrics` is the row; `task[r]` a `record_event` in progress with its copy;
`log`, `saves`, `missed` (histories) the events the row is made of, those saved,
and those that a save did not know of. `Load`, `Save` and `Crash` are the steps;
`Recorded` is the sequence of updates between a load and a save, one operator for
each of its parts. `Verdict` is the measurement matrix, with `Percentile`
computed over the window `recent`; its values are sorted by counting, for each
place, the places `Ahead` of it, which is the order of a stable sort. The matrix is
made of a `Snapshot`, with all recent events where it is asked for by itself and
with twelve where it comes with the metrics (`context.py:413-421`). What the
callers of `record_event` pass is assumed (`CallersAssumption`): a route, saved
tokens and deferred bytes come with a pack only, and a pack always has a route
(`context.py:898`, and `classify_route` in `util.py`, which never answers with an
empty one). Averages and ratios are kept as fractions, so rounding is left out.

### ResultReferences

| Variable | Code |
|---|---|
| `records` | the rows `reference:<id>`: inline or file, the digest, the expiry |
| `files` | the directory `references/` |
| `call[r]` | a `create` or `resolve` in progress |
| `made`, `lost` | histories: what was put away under each identifier given out; whose file was harmed or project pruned |

`create` of a large payload is `BeginCreate`, `OpenFile` or `OpenRaises`,
`FillFile` and `PutRecord`, of a small one `BeginCreate` and `PutRecord`.
`resolve` is `BeginResolve`, `ReadRecord`, then `ReadInline`, or `LookForFile` and
`ReadFile`: between a look for a file and its reading the project may be pruned.
`Harm` cuts a file short or removes it; `Prune` removes the project's store and
directory. A digest is taken to be collision free, so a body stands for its own.

### WarmupLearning

| Variable | Code |
|---|---|
| `signature` | the refresh signature, a version number |
| `prompt`, `auto`, `stats`, `seeds` | the rows `warmup:prompt_manifest`, `warmup:auto_learn` (its counters), `warmup:term_stats:`, `warmup:route_seeds` |
| `pack[p]` | the tail of a context pack: its copy of the counters, its manifest, how its submission came out |
| `work[w]` | the run (`Job`) and manual warm-ups: manifest, gate, terms to do, the row in hand |
| `mark` | the run's own load and put of the counters |
| `lastStart`, `now` | the registry's throttle |
| `truth`, `disturbed` | histories: what happened, and whether a change of the counters was overwritten or cut short |
| `known` | a history: for each term, whichever thread observed it, the fruitless searches and unselected prompts since the last that came to something, those in all, and whether an update was overwritten since |

A pack's tail is `Observe`, `Decline` or `Attempt`, `Submit`, `Conclude` (which
opens the gate) or `PutRaises`. The run is `Start` or `GateTimesOut`, its mark
(`LoadMark`, `PutMark`), `Check`, one `LoadLearned` and `PutTerm` per term,
`PlanRun`, one `LoadSearched` and `PutTerm` per search, `FinishRun` or
`RunRaises`, and its mark again. A manual warm-up shares the steps on terms and
has its own beginning, plan and end, and goes on where a lookup or a put fails
(`LearningFails`, `SearchFails`, `PutFails`). `known` is kept beside the rows and in
the order of the puts, not with a copy of a row: a put based on an older copy loses
an update from the row and not from `known`. One route and the scope `.` stand for all.
Hot chunks, test-owner targets and the fragments that searches store are left
out.

### StatKeyedCopy

The abstract promise to readers: a source whose files are edited under new
stamps, and a copy whose entries may at any moment be dropped, refiled under an
older stamp with whatever content, or refiled under the present stamp with the
present content. `IndexRefresh` implements it with `copy <- rows`.

## The runs

| Run | Instance | Shows | States |
|---|---|---|---|
| `index_serial` | two files, two contents and a binary one, one thread, three edits, no git; requests: `refresh_if_needed`, a forced refresh with `max_files=1`, an explicit file | `SkipMeansCurrent`: where the status it goes by is the store's, the signature never excuses a candidate whose row is stale. `TermRowsMatch`: no orphaned term rows but of a file that had gone. `CommitIsComplete`. `ScopedRefreshIsLocal` | 2,405,315 |
| `index_overlap` | one file, two refreshing threads, the io thread, a reader, two edits; git, which knows the file by name | `RowStampSound`, `ReadsAreLive`, and the refinement `ImplementsCopy` | 2,243,241 |
| `jobs` | two kinds of job on one worker, three futures, one kind throttled for two ticks, two changes, one fault | `OneFuturePerKey`, `ReportIsHonest`, `EventuallyServed` | 186,411 |
| `sidecar_faults` | two files, one thread, four commits, three faults of any kind | `DamageIsConfined`, `CountsAgree`, `OneDocPerPath` | 38,938 |
| `sidecar_stale` | two files, two threads, no fault | violated: see the findings | |
| `retrieval_cache` | two files, one of which may come and go, one edit (the tree exists at the start, indexed or not), one refreshing thread and the io thread, one requester, of searches or of summaries, whole refreshes; one of two texts has the term | `FragmentIsCurrent`, `SummaryIsGenuine` | 2,667,299 |
| `fragment_stale` | the same, searches only | violated: see the findings | |
| `context_pack` | a short file, a long one and a test; up to three search results, one symbol and one owner; one or two items, a budget that two excerpts exceed; answers around 100, 1000 and 1100 tokens | `NothingVanishes`, `OmissionsAreForced`, `CountsWithinTwo` | 1,017,826 |
| `memory` | two writers, three writes, a plain and a sensitive text, two confidences, rows that expire at once or never, one tick, compaction above no entries | `IdsAreUnique`, `LostOnlyToOverlap`, `BestDecides` | 2,567,000 |
| `metrics` | two recorders, four events out of two packs, a hit, a miss, a manual and an automatic warm-up; a window of three, snapshots of three and of two | `AggregatesAgree`, `EventsLostOnlyToOverlap`, `VerdictsAreOfPacks` | 44,093 |
| `references` | two calls, two identifiers, a small and a large payload, one tick | `ResolvedIsGenuine`, `GivenOutIsKept`, `RefusalHasCause` | 141,303 |
| `warmup` | two packers and the run, one term, three packs of which the second may start the run, one edit, an interval of one tick, nothing found; or one packer at a time, two packs, a manual warm-up and any results; thresholds of two | `NeverOverstated`, `UndisturbedCountsAreExact`, `NegativeIsEarned`, `EveryRunEnds` | 399,803 |

Every module's type invariant is checked by its first run. The numbers are distinct
states. Two runs are unions of two instances, by a state constraint of their MC
module: `EitherKind` keeps the counters' three overlapping packs apart from the
statistics' manual warm-up and results, `OneCache` the searches from the summaries,
beside which a failed synchronisation need not be told from a finished one. The
constraints limit what requests and their surroundings do and never hold up the run,
whose end is the only thing that is to happen eventually.

*Why these bounds.* What goes wrong in the index is a disagreement between two
moments of one file, or between a file and its neighbour in a listing that is
cut off: two files, and three edits (index it, change it, change it while a
refresh is under way), are enough to reach each of them. Two threads suffice for
a write that is based on a stale read; the proofs below cover any number. In the
job registry the interesting neighbours of a request are the run before it and
the run it causes, hence two changes and one fault; one worker makes one key wait
for the other. In the sidecar three faults let a crash in a rebuild follow an
upgrade and precede a loss. In the retrieval caches an entry goes wrong by a
change and a refresh that fall between two steps of one request: one edit of a
file that is there at the start, or the appearance of one that is not, and any
number of removals, at any step. The permanent file keeps a signature available
at all times; any number of edits is covered, for summaries, by the proof.
`FragmentIsCurrent` speaks of the files the signature names: when a file is
added and removed again the signature of before returns, and a fragment made
meanwhile may still have a hit in the file that is gone.

In memory and metrics the shortest loss takes two writers and two writes; a third
write comes before or after it, is replaced or replaces, and three decisions of two
confidences and two authorities give every order that the sort tells apart. Four
events are one more than the window of recent ones. A pack's selection meets each of
its limits with two items out of three files; the token counts, which depend on the
size of the answer only, are tried around the two sizes at which the number of
digits changes, and at a size where four passes end two tokens off (a text of 4412
characters beside a baseline of 11110 tokens). One call creates a reference while
the other resolves it or creates another, and every crash, harm and prune can fall
between any two of their steps. Two packs overlap, or the last is joined to,
throttled by or enqueued after the run of the one before; an edit makes the run
stale. Thresholds of two, for packs as for terms, are reached by a pack's run with
its search, and by a manual warm-up beside it.

`MaxStamp`, `MaxEdits`, `MaxCommits`, `MaxFaults`, `MaxOps`, `MaxEvents`,
`MaxPacks`, `MaxManual` and `MaxTime` appear in guards of the environment and of
the entry of operations only, never inside an operation, so that no behaviour
stops half way because of a bound.

Symmetry is used for contents, threads, calls, identifiers and, in the sidecar,
files; not for files in the index, where the walk has an order, and not in `jobs`
and `warmup`, which check liveness properties. The requests of `memory`, `metrics`
and the warm-up runs are finite in number and the system comes to rest when they
are served, so these runs do not look for deadlock; the others do.

*Fairness.* In `jobs`: `RunStep` is weakly fair for each future: the pool's
threads run, and the work returns or raises. `Tick` is: time passes. `Submit`
is: requests keep coming; without that assumption `EventuallyServed` is plainly
false, because a request that was turned away leaves no trace. Raised work,
clocks set back, restarts and edits are never fair. In `warmup` the run alone is
weakly fair: a thread of the io executor that has begun goes on, its wait for the
gate ends after a second at the latest (`GateTimesOut`), and each of its other
steps is always possible. Packs, manual warm-ups, edits and crashes are not fair.
`EveryRunEnds` is about the request that raises before it opens the gate.

## Findings

*`sidecar_stale`.* Two overlapping refreshes can bring the sidecar up to date in
the other order than they committed; numbers agree, so it is accepted for good
(`index.py:181-228`, `869-873`), against "without serving stale evidence"
(`README.md:49-51`).

*`fragment_stale`.* A search between a refresh's commit and the synchronisation of
the sidecar (`index.py:218-228`) reads the new signature, finds as many old documents
as rows, takes its hits from them and files the result under the new signature
(`context.py:1373-1381`, `1630-1687`). What it misses, or wrongly has, is served for as
long as that signature is stored, though the sidecar has caught up long since: against
"without serving stale evidence" (`README.md:49-51`). `FragmentIsCurrent` says how far
this goes: files whose document was their row's are right, and of the others no text
is shown but the row's.

### Where the other properties stop

Some properties hold for the requests their runs make, or with an exception, and not
beyond. Where constants are named, a copy of the run's configuration with these
constants, and the property named, shows it.

1. *Untracked files.* In a git worktree the signature knows an untracked file by
   name only (`index.py:316-329`, `util.py:394-440`). Editing it a second time
   changes nothing in the signature, and `refresh_if_needed` skips. Snippets and
   summaries compare stats and are not affected; searches and symbols are.
   `SkipMeansCurrent` with `SignatureSources = {"git"}`, `Untracked = {1}`,
   `Requests <- CheckRequests`.
2. *Explicit directories.* `context_pack` refreshes an explicit path with
   `max_files=1` (`context.py:1313`). For a directory the listing is its first
   file, the rows of the others are deleted as if the files were gone, and the
   stored signature, unchanged, does not bring them back. `SkipMeansCurrent` with
   `Requests <- ExplicitDirRequests`.
3. *Overlapping refreshes.* The rows that a refresh replaces are those it read
   before its write transaction (`index.py:108`, `378-402`). Another refresh that
   commits in between leaves term rows that nobody deletes, against "keeping the
   index consistent without extra coordination" (`README.md:131-133`); nothing reads
   them at present. For the same reason a commit may leave a row that an overlapping
   refresh of an older listing put back, and the signature stored with it then excuses
   that row. `TermRowsMatch` and `CommitIsComplete` under the constants of
   `index_overlap`, `SkipMeansCurrent` with two threads, one file, three stamps,
   `SignatureSources = {"files"}` and `Requests <- CheckRequests`.
4. *Fragments of scoped lookups.* `context_lookup` refreshes the path it is given
   and then looks the term up under the stored signature, which the refresh of a
   path leaves alone (`context.py:172`, `1373-1426`; `index.py:119-125`): after an
   edit the row is new and the answer is the fragment of before.
   `FragmentIsCurrent` with `Requests <- ScopedRequests` and one file, which
   stays.
5. *A first refresh of a path.* The index then has rows and no signature.
   `context_pack` accepts it as the last good index and files what it finds under
   the live signature (`context.py:1100-1106`, `1377-1379`), which is the one the
   whole refresh then stores. `FragmentIsCurrent` with `Requests <-
   ScopedRequests` and two files.
6. *Rows of files that are gone.* `SkipMeansCurrent` is about candidates. The
   refresh of a path puts a row beside an older stored signature; if the file is then
   removed, the tree has that older signature again and the refresh that would delete
   the row is skipped. So it is with `IndexIsCurrent` extended to files that are not
   listed, under the constants of `index_serial`.
7. *Skips over a cached status.* `refresh_if_needed` decides on a status that may be
   cached (`index.py:265-268`, `417-436`). A status from before the last commit
   outlives that commit if the sidecar fails after it (`index.py:220-229`), or if the
   io thread publishes late what it read before (`477-480`). A forced refresh cut off
   by `max_files` drops a file's row, say, and the next `refresh_if_needed` skips, as
   the cached signature is the tree's: against "Refresh the repository index if stale"
   (`doc/technical-paper.md:144`). `SkipMeansCurrent` is about the other decisions,
   `SkippedIsCurrent` about all, and is violated under the constants of `index_serial`
   with two stamps and `Requests <- SkipRequests`. It does not last: a status older
   than a second is recomputed when it is next used.
8. *Overwritten observations.* `NegativeIsEarned` has an exception for a term whose
   row was put over another update (`context.py:2118-2160`): a run or a manual warm-up
   that had loaded the row before the last result or selection was recorded puts it
   back without it, and the term is left out of warm-up searches until the next one.
   Without the exception the property is violated under the constants of
   `warmup`. The cost is a search not done in advance.
9. *Symbols and test owners.* `NothingVanishes` does not speak of what these two
   lookups return. A row whose summary raises is left out, and after a symbol the
   rows behind it, with no reason in the answer.
10. *The rest of the metrics row.* `AggregatesAgree` leaves out the hits and misses
   over all namespaces, the extremes of a stage, what one route or one trigger has,
   and the savings of one operation.

## What is proved

Each theorem is about every value of the constants that the named assumptions allow;
they say no more than that the contents have a spare value for "none", that bounds
are natural numbers, and the lengths of the lists of events positive, that a few
values differ (a redacted text from the texts, the focus of a compaction from the
names clients use, the run from the manual warm-ups), that the thresholds of the
warm-up are positive, that files and contents (sidecar), namespaces and routes
(metrics) are finite, and what the callers of `record_event` pass.

*The index* (`RetrievalCacheProofs`, its first part). `TypeCorrect`, `RowsSound`,
`IndexImplementsCopy` and `ReadersServedLive`. That rows are sound is not
inductive: a refresh carries stats that were listed, and contents that were read,
at different moments, into a transaction much later. `RowsInv` strengthens it:
what a thread has still to read (`TodoSound`) and every stamp it carries
(`StampsPast`) lie in the past, and each row it is about to put (`PutsSound`) is
already `Genuine`: if its stamp is the file's present one then its text is the
present text. The stat is listed *before* the bytes are read, so an edit in
between makes the stamp an old one, and an old stamp never becomes present again
since every edit takes a new one. That last assumption is the model's; a file
system whose mtime does not advance between two writes of equal size breaks it.
Lemma `StepMoves` says what a step can do to a row; the refinement and
`WindowsSound`, the invariant for readers, both follow from it.
`RefreshIsLocal` holds for any number of overlapping refreshes: what a thread
holds at each of its steps (`Shape`) lies in the scope it was asked for.

Three more theorems are about one service thread, with any files, requests and
edits; with two they fail (item 3 under *Where the other properties stop*).
`SerialCommitIsComplete` and `SerialTermsMatch` rest on `Known`: the rows the
thread has read are still those in the store, so what it deletes is what is there,
and what it is about to put is right for each candidate whose listed stat is still
the file's. Excepted is the row of a single file that had gone when the rows were
read (`Passed`): the refresh has not read it and leaves it where it is.
`SerialSkipMeansCurrent` is about a decision made on a status just computed, or on a
cached one that is still the store's; item 7 is about the others. It also assumes
that the signature is of the files' stats and that no refresh of a path is cut off
(`Untruncated`); items 1 and 2 show what happens without. Its invariant: where the
stored signature names a file's present stat, the row is the file's present text
(`StoredInv`); the signature in hand is that of the listing the thread will commit,
and the refresh of a path has listed each file whose stat the stored signature names
(`Signed`). A signature may be older than the files are by then; it names a stamp
that is past, which never becomes present again, and excuses nothing.

*The registry* (`BackgroundJobsProofs`). `JobsTypeCorrect`, and `OneFuture` by
`LatestOutstanding` (an unfinished future is the latest of its key) and
`QueueSound`. `ReportHonest` adds `Honest`: the latest future of a key is of that
key, its outcome is in the row from the step that records it (`OutcomeRecorded`),
and it serves no less than was there when it was accepted (`ServesWhatWasAsked`).

*The sidecar* (`SearchSidecarProofs`). `SidecarTypeCorrect`; `OneDocument` for
any number of threads and faults, by the records a thread carries naming no path
twice; `SerialDamageIsConfined` for one thread and any number of faults.
`ConfinedInv` follows a refresh: between its commit and the end of its
synchronisation the files it changed are `Pending` and may be out of date, every
other file outside `torn` is current; at each step of the route it says what the
records in hand are. The assumption of one thread is needed: the finding is its
failure with two. From the same invariant, `SerialCountsAgree`: what passes the
checks has as many documents as there are rows, after any faults. And
`SerialAcceptedIsCurrent`, the very property that `sidecar_stale` finds violated:
it holds for one thread where no refresh is cut short, so that violation is due to
the second thread and nothing else.

*The retrieval caches* (`RetrievalCacheProofs`, its second part). `CacheTypeCorrect` and
`SummariesGenuine`, for any number of requesters. The index's `RowsInv` is
carried over: a requester's step leaves the index alone or asks for its status
(`IndexMoves`). To it `SummaryInv` adds that every fingerprint that is a stat is
past (`TokensPast`); that the second stat, if the first is still the file's, equals
it (`StillStat`); and that a summary about to be filed is as sound as a filed one
(`Kept`). `PastStampStays` is why an edit cannot spoil them: a file that has a
past stamp after a step had it before. The text itself comes from the row only
if that is filed under the second stat, where `RowStampSound` applies.

`SerialFragmentsCurrent` is for any number of requesters and edits beside one
refreshing thread (and the io thread), where every refresh is of the whole
repository and not cut off by its limit, no file is binary, and some file is there to
stay; `FragmentIsCurrent` is violated without any one of these. (A binary file, or
one beyond the limit, has a stat in the listing and no row; without a permanent file
the repository may be empty, and then has no signature while its rows are those of
before.) The invariant (`FragmentInv`) ties each fragment, filed or in hand, to each
stamp its signature names (`Tied`): the row filed under that stamp is what the
fragment has, or the stamp is past and no refresh under way will file a row under it
again. What a request has still to read it can still read (`Holds`), as the one
refreshing thread replaces only rows that the tree has left behind (`Passing`,
`Filing`). The hits come from the sidecar, and of that nothing is assumed: any
document may be old, doubled or missing, and any synchronisation, rebuild or crash may
come in between. A file whose document was not its row's when the hits were taken is
remembered as `late`, and of it the invariant says only that what is shown is the
row's text (`AnswerTied`, `HitTied`); the rest of the answer is `fragment_stale`.

*Project memory* (`MemoryStoreProofs`). `MemoryTypeCorrect`, `OneRowPerName` and
`OverlapAloneLoses`, for any number of writers. The invariant says the same of the
row and of every copy a writer has in hand, up to the number of answered writes
the holder had seen (`Sound`): its rows were made by answered writes of their kind
and name (`FromLog`), and every write it had seen is excused, held, or replaced by
one held (`Covers`). Neither will do without the other: a save puts its row in the
place of one whose write, by `FromLog` and since no two writes have one number
(`OpsApart`), had that very kind and name, so the saved write covers it
(`SoundSaved`). What the writer had not seen is excused by definition, and a copy in
other hands stays sound as the log grows (`SoundGrows`). That no sensitive text is
stored is part of the type.

`BestDecisionStands` is a fact about `Effective` for any number of decisions: on
each topic with a live decision it offers one, a live one, and no other live one
there has more authority, or as much and more confidence, or as much of both and a
later update. What is proved about is the sort of `effective_decisions` and its
recursive choice of the first row of each topic. `Outranks` is a strict total order
of the live rows (`OutranksTotal`, `OutranksTransitive`), so their ranks are apart
and every rank is taken (`RanksApart`, `EveryRankTaken`), so the sorted rows are the
live ones (`OrderCovers`); and the function that walks them keeps the first row of
each topic (`FirstOfEachId`). The library's induction theorems take an operator and
cannot be used; what can is that a set of natural numbers that is not empty has a
least element (`LeastNatural`, from the library's `WFMin`). The first place at which
a recursion had no value, or a wrong one, would be such an element, and the step
before it excludes it.

*Result references* (`ResultReferencesProofs`). `ReferencesTypeCorrect`,
`NothingGivenOutIsLost`, `ResolvesGenuinely`, `RefusesForCause`, for any number of
calls and identifiers. That what was given out is at hand needs to know how far
the calls are: a file is complete when its call comes to put the record
(`CreateSound`), no two calls create under one identifier (`BodiesDiffer`), a
record says what was made under its identifier (`MadeSound`), and so does the copy
a resolver has in hand, even if the project was pruned since (`ResolveSound`).

*Warm-up* (`WarmupLearningProofs`). `LearningTypeCorrect`, `CountersNeverOverstate`,
`NegativeIsDeserved`. That the row overstates nothing is inductive only if every
copy of it is bounded as well, together with what is still to be added: a
submission that came out in some way and is not yet recorded (`Own`), and an end of
the run that happened and is not yet marked (`Pending`). A pending end bounds every
copy and not the run's alone, since its put may follow theirs; hence also
`MarkAgrees`, that the run stands still while its mark is due and cannot end twice.
What was told of a term (`known`) is a history of its own that no put takes back, so
an overwritten row does differ from it. Every row in the store is `Earned`: a count is
exact unless it was lost, and a lost one is at most all that was told. Every copy in
hand that was not overtaken is the row as it stands (`Held`). A put that keeps the one
(`ObservedIsEarned`) marks the copies of all others overtaken, and so keeps the other
(`ToldPut`). `CountsExactUndisturbed` is the other side (`Exact`): the gate
keeps the run waiting for the request that started it (`GateHolds`), whoever was not
overtaken holds a copy of what the row says (`CopiesCurrent`), and unless a change
was lost or is bound to be (`Doomed`) the row is short of the truth by exactly what
one request and the run have still to tell (`Accounted`).

*Context packs* (`ContextPackProofs`). `PackTypeCorrect`, `NothingLostInSilence`,
`SelectionIsForced` and `CountedWithinTwo`, for any files, searches, limits and
failures. While evidence is gathered the invariant says where each path is that was
named, and each row that a search returned: among the candidates, among the reasons,
or still waiting (`NamedKept`, `RowsKept`). The sort is treated as that of memory is
(`PlacesApart`, `EveryPlaceTaken`, `SortedIsOrdered`). The selection has an
invariant of its own over the number of candidates considered, `Pass`: what is
selected keeps the limits, and each candidate is selected or left out for a reason
that is `Explained` by what is selected. Its steps are `TakenStep` and
`OmittedStep`; a reason stays valid because what is selected only grows
(`ExplainedStays`), what is selected ranks no lower because the candidates are
sorted, and the first candidate meets no obstacle (`FirstTaken`). For the count: the
numbers add 8 to 51 characters to the answer (`ExtraChars`), so two passes are less
than twelve tokens apart; numbers so close differ by no more than a digit
(`DigitsClose`), and the answers that show them by no more than eight characters
(`ShownClose`), which is two tokens. Two is attained, as the run shows: the loop
need not settle. Counts are taken to be below a billion.

*Metrics* (`MetricsStoreProofs`). `MetricsTypeCorrect`, `EventsLostOnlySo`,
`AggregatesOfOneList` and `VerdictsOfOneList`, for any number of requests, any
events, namespaces and routes, and any length of the list of recent events; and
`VerdictsForAnyTarget`, which says of every target, number of samples and percentage,
and of a snapshot of any length, what the run checks of a few.
`AggregatesOfOneList` is about the parts of the row that `AggregatesAgree` names
(item 10 above). A snapshot shows the end of the recent events and the rest of the row
as it is (`SnapshotOf`). Requests overwrite one another's rows, so that the
store's row is right is not inductive by itself: the invariant says that *every* row,
the store's and each copy in hand, `Summarises` a list of events of its own, and of
those lists that their numbers are distinct and older than the event in hand
(`Distinct`, `UpTo`) and that they hold whatever their holder had seen saved, except
what was missed (`Covers`). One event more is `SummaryStep`, made of one lemma for
each part of the row (`RecentStep`, `PacksStep`, `OperationStep`, `CountsStep`,
`SpacesStep`), these of one lemma for each update of `record_event`
(`TotalsFields` to `RecentFields`, composed in `RecordedFields`).

The totals are sums over sets of places by `FoldFunction`, which chooses an order of
its own. Four facts about `Sum` are all that is used of it: it is a natural number
(`SumType`), a further element adds its value (`SumGrows`), a changed element changes
it by as much (`SumChanges`), and zeros add up to zero (`SumOfZeros`). They rest on
`SumsTake`: the recursion behind the fold may take any element first. As induction
over sets is not to be had, it is shown by taking a least subset for which it fails
(`LeastSubset`, from the library's `WFMin` for the strict subsets of a finite set).

For the percentile, no two places have one rank and every rank is taken
(`RanksApart`, `EveryRankTaken`), so that the value lies between the values at two
ranks (`PercentileBetween`); what is above it has a greater rank than the lower, what
is below it a smaller rank than the upper, and there are no more places than ranks
(`RankedWithin`). That its samples are no more than the packs of the list is an
injection of places (`SamplesArePacks`).

## What is only model-checked

Every invariant and every action property that a run checks is stated by a theorem,
and so is the refinement. What remains is liveness under fairness,
`EventuallyServed` and `EveryRunEnds`, which is out of the prover's reach.
`SkipMeansCurrent`, `TermRowsMatch`, `CommitIsComplete`, `DamageIsConfined`,
`CountsAgree`, `AcceptedIsCurrent` and `FragmentIsCurrent` are proved under the
hypotheses named above; beyond them three are known to fail (`AcceptedIsCurrent` in
`sidecar_stale`, `TermRowsMatch` and `CommitIsComplete` in item 3).
`SkippedIsCurrent` and `CachedSearchIsCurrent`, what the documents promise, fail
with one thread already.

## What is not modelled

`components` in `PROJECT.json` says it of each part. In short:

- *The LMDB store.* Its transactions are the atomic steps of the other modules.
  What a request in flight sees of an environment that a prune has closed is
  decided in a C library.
- *Cache pruning, beyond that an entry may be gone.* `RetrievalCache` lets any
  entry go at any moment, and its properties hold without knowing which; the
  choice of entries, two prunes at once and their reports add nothing to that.
- *The project manager and the registry*, apart from the prune of a project's
  references: two services of one project differ in their one-second status
  caches only; the resolution of a project is a lookup in a fixed order.
- *Hot chunks, test owners' rows, and the fragments a warm-up stores.* The first
  two are further caches keyed like those of `RetrievalCache`, the last are
  `RetrievalCache`'s own.
- *Some failing puts of a warm-up.* The run may raise between its steps, and a put of
  term statistics may fail; that a put of a mark, of the manifest or of the first
  counters raises instead of it is not told apart.
- *`git_snapshot` as several commands.* It is one step of `IndexRefresh`.
- *The server, self-update, configuration, text processing (symbol extraction,
  excerpts, scoring, redaction patterns), the terminal monitor, benchmarks and
  build* have no state that two steps of the running server could disagree about.
