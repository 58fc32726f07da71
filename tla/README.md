# A verification development for mlody

mlody describes machine-learning assets and tasks in a Starlark dialect (`*.mlody` files),
evaluates them into a *workspace*, resolves labels and path expressions against it, and
materialises the assets the labels name: files over HTTP, copies of them, tables derived from
them, snapshots of Hugging Face repositories, container images. A command line, a language
server and an HTTP server with a browser interface stand on top.

Two things in it are hard to test. The first is what outlives a call: caches that threads and
processes fill at the same time, by steps that fail, from sources that move; servers whose
request threads share tables and files; programs that are killed and run again. The second is
what is computed in more than one way: a label is looked up and walked by several pieces of code
that have to agree, a pattern is matched by one recursion and unified by another, rows are
counted by one read and fetched by the next. This project models both.

- [1. Inventory](#1-inventory)
- [2. The modules and the code](#2-the-modules-and-the-code)
- [3. What the runs check](#3-what-the-runs-check)
- [4. Fairness and deadlock](#4-fairness-and-deadlock)
- [5. Where the code and its words disagree](#5-where-the-code-and-its-words-disagree)
- [6. What is proved](#6-what-is-proved)
- [7. What is only model-checked, and what is not modelled](#7-what-is-only-model-checked-and-what-is-not-modelled)
- [8. Plan](#8-plan)

Paths below are relative to `src/`. `PROJECT.json` has the same inventory in machine-readable
form, and maps every definition that models code to the lines it models.

To run: `tlc -workers 2 -config MCHttpAsset.cfg MCHttpAsset`, `tlapm HttpAssetProofs.tla`.

## 1. Inventory

| Component | Code | State | Operations | Module |
|---|---|---|---|---|
| Baseline workspace cache | `mlody/resolver/resolver.py:83-250` | cached baselines, in-flight events, a lock; one set per process | get or build, reload, evict one, evict those of the cwd | `BaselineCache`, abstract `SingleFlight` |
| Commit workspace cache | `mlody/resolver/resolver.py:1271-1523`, `cache.py`, `git_client.py` | `<sha>/`, `<sha>.lock`, `<sha>-meta.json` | check, materialise, lock, unlock, write metadata, load | `WorkspaceCache` |
| HTTP asset cache, manifest mode | `mlody/core/assets/http_asset.py`, `freshness_policy.py`, `manifest.py` | payload and `manifest.json` per URI | reuse, revalidate, HEAD and GET, replace, write the manifest, clean | `HttpAsset` |
| HTTP asset cache, database mode | `http_asset.py:268-390`, `mlody/db/assets.py` | observation rows per URI, blob rows per hash, the same payload | the same, and upsert, record, clear | `AssetDb` |
| Copied assets | `mlody/core/assets/copied_asset.py` | the destination and `<dest>.tmp` | freshness test, upstream, touch or copy and replace | `CopiedAsset` |
| Asset resolution, derived outputs, readers | `mlody/core/assets`, `core/tabular`, `core/sql`, `core/parquet` | files along a chain of sources, outputs by key | materialise, convert, derive, count, preview, query | `TabularRows`, `ParquetRows`, `AssetDb` |
| Hugging Face download | `mlody/common/huggingface` | per file: output, `.partial`, resume metadata | the command, segmented download, resume | `HfDownload` |
| HTTP API server | `mlody/cli/server.py` | `history.json`, stage logs, `sys.stdout`, a restart flag, two ports | run, stream, stage and verbatim requests; history; restart | `ApiServer`, `ServerRestart` |
| Language server | `mlody/lsp` | documents, parse trees, the last evaluator, diagnostics | open, change, close, ask, watched files | `LanguageServer` |
| Starlark evaluator, workspace lifecycle | `common/python/starlarkish/evaluator`, `mlody/core/workspace*.py` | the load stack, loaded files, registries, forks | load, evaluate, rebuild, fork | `WorkspaceLoad`, `Requests`, `EntityLookup`, `Forks` |
| Workspace resolution | `mlody/resolver/resolver.py` | the layers of inline payloads, the task context | defaults, configs, overrides, run-as user | `Requests` |
| Labels to values | `mlody/core/registry_view.py`, `mlody/resolver/resolver_impl.py`, `resolver/engine` | the registry, module globals | anchors, wildcards, `show`, path traversal | `EntityLookup`, `LabelPaths`, `Locations` |
| setf and lineage | `mlody/core/setf*.py`, `lineage.py`, `db/lineage_events.py` | the registry's values; lineage rows | preflight, commit per anchor, insert, walk back | `ValueEdits`, `Requests` |
| Task and action graphs | `mlody/core/dag.py`, `action_graph.py`, `mlody/cli/show_execution.py` | the graph a workspace keeps from its first use | build, slice for a label, plan and run what `show` needs | `TaskGraph`, `ActionGraph`, `LoadedGraph` |
| Multimethods and unification | `mlody/core/multimethod.py`, `unification.py` | none | score, dispatch, unify | `Multimethod` |
| Content hashes | `mlody/common/hash.py` | none | hash of a value, of a task | `ContentHash` |
| Image builder | `mlody/common/image_builder` | the clone of a commit, its lock, the layout, pushed tags | clone, apply local changes, build, push | `ImageBuild` |
| Local Kubernetes cluster | `mlody/infra/kind` | registry, cluster, nodes, network, config map | `provision` in six steps | `KindCluster` |

Not modelled: the label parsers, the DSL's record constructors, the evaluation database, the
command line's parsing and rendering, the React pages, the teams' training programs. Section 7
says why, and which operations of the components above are left out.

How they interact:

- The HTTP server, the language server and the shell call the **baseline cache** from their
  threads. A request for a commit goes on to the **commit workspace cache**, where it meets
  other processes. A miss of either is filled by the **loader**, which drives the **evaluator**.
- Each request **forks** the baseline, refreshes the task context and applies its overrides,
  which are assignments (**setf**) that leave **lineage** rows.
- A **label** finds an entity in the registry or in a module, and a path after it walks the
  entity's fields; the **location** of what it reaches decides the **asset source**. A copied
  asset has an upstream source; when that is an HTTP asset, two caches with two clocks stand in
  a row. A **derived table** is keyed by the hash its source reports and computed from the file
  that is there.
- The server's "clean cache" removes directories the asset sources are using; its restart
  leaves a process that starts the next one.
- The **Hugging Face** command, the **image builder** and the **provisioner** stand alone: each
  is run again over what an earlier run left.

What is hard in each, and what would make it correct (section 5 lists where the code does not go that
far, and the properties are stated for what is left):

- *Baseline cache.* Waiters, evictions and failures of builders interleave; a builder can be
  ended by Ctrl-C. Correct: one evaluation per request at a time; nobody waits for an event that
  no one will set; what is published for a request never goes back in time; a reload returns
  what is on disk.
- *Commit cache.* Processes race between the cache test and the lock; four git commands can
  fail; a holder can die; users delete what error messages name. Correct: the lock file
  excludes; outside the lock the directory is a complete checkout or absent; a complete entry
  stays; every call ends.
- *HTTP cache.* Payload and record are written separately, without a lock, by processes that got
  different versions; the description comes from another request than the bytes; two modes keep
  two records of one file. Correct: the record's hash is the payload's; an answer is not older
  than the freshness policy allows; no state is stale for ever.
- *Copies.* One temporary name for all processes; two freshness policies in a row. Correct: the
  hash returned is the copy's; the copy's age is bounded.
- *Tables.* Every read finds its files anew, and a source may publish between two of them.
  Correct: a read shows the rows of one moment; all routes to a value read the same rows; a row
  found through a row group is the row of the whole table.
- *Hugging Face.* Segments finish out of order and fail; the process is killed at any write.
  Correct: a file under its own name is whole; metadata never promises what is not on disk; no
  progress is lost; repeated attempts come to an end.
- *HTTP server.* Threads share a file, a logger, a table and `sys.stdout`; clients leave.
  Correct: the history lists each command once; the logs served for an id are its own; "done"
  means every target was tried; at most one process waits to succeed, and a restart ends.
- *Language server.* Two copies of every document, range edits, reloads. Correct: requests are
  answered from the editor's text, and from the files as they were last reported.
- *Loading.* A file counts as loaded before it ran; files raise; the order of files is the
  directory's. Correct: a workspace that loads holds no half-run file; a file runs after what it
  loads; the graph is what the declarations say, in any order.
- *Requests.* Layers, two spaces of labels, one dispatcher and one table of rows for all.
  Correct: a request sees its own layers and context, over a copy of the workspace that shares
  nothing one of the two could change; a value's lineage is its own history.
- *Labels.* Correct: the registry and `show` find the same entity; a wildcard's expansion is
  exact; three walks and an engine reach the same field in the same place; an assignment does
  what its selector says and nothing else.
- *Images, cluster.* Correct: a tag names what the image was built from; a run in which nothing
  fails provisions what it was asked for, whatever earlier runs left.
- *Dispatch, hashes.* Correct: the narrower method wins, unification agrees with matching, and
  tasks that hash alike read the same.

`hazards` in `PROJECT.json` lists 40 places, each with its line, where the code could go wrong
in a way a unit test would hardly reach, and the properties that watch it.

## 2. The modules and the code

One action stands for the code between two points where others can act: a critical section of a
lock, a system call, a git command, a request. Whatever such a stretch of code changes is in its
action. Variables marked "history" in a module are written but never read by the actions; the
properties need them. Mutant operators (a plausible bug of one action each, right above the
action they mutate) are not part of any specification; they show that the property that watches
the action can fail. Algorithms that keep no state are operators, and an MC module picks the
cases they are tried on.

| MC module | Composes |
|---|---|
| `MCBaselineCache`, `MCHttpAsset`, `MCRequests` | one module each |
| `MCLoadedGraph` | `LoadedGraph` = `WorkspaceLoad` + `TaskGraph` + `ActionGraph`: the graph of what the loader ran, in the order in which it ran it, and what `show` runs from it |
| `MCAssets` | `CopiedAsset`, `AssetDb` |
| `MCPrograms` | `HfDownload`, `ServerRestart` |
| `MCServers` | `ApiServer`, `LanguageServer` |
| `MCCommands` | `ImageBuild`, `KindCluster` |
| `MCValues` | `EntityLookup` (by `MCLookup`), `LabelPaths` + `Locations` + `ParquetRows` (by `MCPaths`), `TabularRows` (by `MCTables`), `Multimethod`, `ContentHash`, `ValueEdits`, `Forks` |

`MCAssets`, `MCPrograms`, `MCServers`, `MCCommands` and `MCValues` put components that share
nothing into one run: a variable chosen at the start says which of them runs in a behaviour, and
the others stay where they begin. `WorkspaceCache.cfg` and
`MCImageBuildKnown.cfg` run `WorkspaceCache` and `ImageBuild` themselves. `LoadedGraph`, `TabularRows` (a chain of caches), `AssetDb` (two
modes on one payload), `ParquetRows` (over the values of `LabelPaths`) and `Requests` (fork,
layers, dispatcher and lineage together) are compositions proper.

### BaselineCache (and SingleFlight)

Source: `mlody/resolver/resolver.py:83-250`.

| Code | Model |
|---|---|
| `_BASELINE_WORKSPACE_CACHE` | `cache[k]`: the version of the tree the cached workspace was read from |
| `_BASELINE_WORKSPACE_IN_FLIGHT` | `inFlight[k]`: the thread whose event is registered (an event is created by one thread, so its owner names it) |
| the lock | one action per `with` block |
| `while True` loop: hit / wait / build | `LookupHit`, `LookupWait`, `LookupBuild` |
| evaluation of the workspace, outside the lock | `BuildReads` (reads the version on disk), `BuildRaises` |
| publish, `event.set()` | `Publish` (waiters move to `"lookup"` in the same action: the event is set and they loop) |
| `except Exception` clean-up | `Abort` |
| `KeyboardInterrupt`, `SystemExit` in the build | `Interrupt`: the thread leaves, its event stays |
| reload = evict, then get | `CallReload`, `ReloadEvict`, then the lookup |

`Edit` is somebody saving a file. `SingleFlight` says what the in-flight table promises and
nothing about how: a claim per key, filled or given up by the claimant. `BaselineCache`
implements it with `slot <- cache, claim <- inFlight`.

### WorkspaceCache

Source: `mlody/resolver/resolver.py:1271-1523`, `cache.py`, `git_client.py`, `errors.py`. All
paths are functions of the commit, so one entry stands for all. The directory is abstracted to
`"absent"`, `"bare"` (cloned, no files), `"partial"` and `"marked"` (checkout under way, before
and after `mlody/roots.mlody` is written), `"whole"`. The lock file is `Free`, the caller that
created it, or `Stale`. `CheckDir`/`CheckSentinel` are the two tests of `check_cache`;
`AcquireLock` is `open(O_CREAT|O_EXCL)` and `LockBusy` its failure; `Clone`, `Sparse`, `Fetch`,
`Checkout` the git commands in the order of `clone_local` or `clone_remote` (`local` says
which); `GitFails` and `MetadataFails` lead to `Cleanup` and `ReleaseLock`. `Cleanup` is
`rmtree(ignore_errors=True)`: it removes the tree bit by bit, and may leave any part of it without
saying so, after which the lock is released all the same (`setbacks` remembers `"leftover"`).
`Interrupt`
is a `KeyboardInterrupt` (no cleanup, lock released), `Kill` a death (nothing). The user deletes
what `LockBusyError` and `CorruptCacheError` name.

### HttpAsset

Source: `mlody/core/assets/http_asset.py` without a database connection. A content is a version
and whether all its bytes are there; a hash is the content it was computed from. Manifests carry
the comparable metadata fields, the content they were written for and the time of the last
check. Field values are given per version and per way of asking (`Kinds`: a HEAD, or the GitHub
API, whose digest is of another kind), so that `Comparable`, `IndicatesChange` and `Refreshed`
(`freshness_policy.py`) compare what the code compares. `superseded[v]` remembers when the
server replaced version `v`, for the bound on age; `blind` marks the calls that could not reach it.
A manifest is `guessed` if its download had no metadata, and `Mistaken` if it describes a version
newer than its payload. `Clean` is `clean_cache`, an `rmtree` that takes any part of the directory.

### CopiedAsset

Source: `mlody/core/assets/copied_asset.py` over an HTTP upstream with the same policy. Names are
bound to inodes and a writer keeps the inode it opened: `open(..., "wb")` on an existing
`<dest>.tmp` truncates the inode another process is writing, and `os.replace` moves whatever the
name is bound to. `mixed` marks a writer somebody else has joined; what it leaves is then faithful
or not, by choice. The upstream answers as `HttpAsset` does (`UpstreamAnswers`): with its cached
version while that is young (`UpstreamIsYoung`), with the server's (`UpstreamAsks`), with the expired
one and no error when it cannot be revalidated (`UpstreamKeeps`, `http_asset.py:141-149`), or with the
expired one as checked when a change goes unseen (`UpstreamSeesNoChange`; `misled`). The copy cannot
tell these apart: it compares and touches in all of them, and `blind`, `unsure` remember for the
properties which copies were vouched for by an upstream that knew nothing. `OtherUser` is somebody
else refreshing it; `meddled` remembers what got in the way of a call.

### HfDownload

Source: `mlody/common/huggingface/download.py`, `resume_state.py` and the download command of
`cli.py`. A file's content is the set of segments written. `task[f]` is where the worker of the
file is; segments in `todo[f]` are submitted, those in `landed[f]` are written and wait to be
collected by `as_completed`, those in `known[f]` are recorded. `broken[f]` is a raised segment:
the collecting loop ends, the `with` block still waits for the others. A killed process leaves
the files as they are, and a metadata file it may have been writing torn. `AlreadyThere` and
`Command` are the command; `DownloadRepo` is a caller of the function itself. Large files have
their full size as soon as they are truncated to it, which is why `SizeMatches` asks nothing
else of them.

### AssetDb

`mlody/core/assets/http_asset.py:224-390`, `mlody/db/assets.py`, and the derived tables of
`core/tabular` that are keyed by the hash a download reports. A call is `Begin` (the mode is
chosen here: with a database connection or without), `Reuse` or `Revalidate`, `HeadFirst`, `Get`,
`Replace` and `RecordIt`; each database statement commits by itself, so each is an action.
`Record` inserts the observation, `Upsert` the blob row with the path it had first. Both modes
write the same payload file. `Publish` is the server; `Kill`, `Clean`, `CleanDerived` and `Clear`
are a death and the three ways to empty caches and tables.

### ServerRestart

`mlody/cli/server.py:122-170, 2396-2465, 2821-2835, 2942-3110`. `main` is the main thread of the
process that is the server now; `Probe`, `BindHttp`, `BindLsp` are the start, `Request` takes the
flag, `Spawn` starts the watcher, `Arm` the thread that calls `shutdown`, `CloseHttp`, `Exit` and
`Reap` the end, `Watch` the watcher's polling until the process id is gone. `Fault` bounds what
the operating system refuses, Ctrl-C and kills, and other programs that take a port.

### ApiServer

`mlody/cli/server.py`. One request per thread. Appending to `history.json` is three actions
(`LoadHistory`, `WipeHistory`: opening for writing empties the file, `WriteHistory`), because
nothing holds a lock over them. A show command opens a database connection per target
(`OpenTarget`), yields results and errors (`Label`), and ends a target normally, with an exception
it expects (`TargetFails`) or with another one (`CommandFails`). `Log` calls the handler of every
stage request that is collecting. `Store`/`StoreLogs` is the bounded table; `Swap`, `PrintOut`,
`Restore` are the verbatim endpoint, which replaces the `sys.stdout` of the process. `PrintLoading` is
what a show command of another endpoint prints while it resolves a target: it does not say where to
(`resolver.py:1434`, `1621`), so this goes to whatever `sys.stdout` is at that moment. `Disconnect`
closes an event stream, `Die` is the process.

### LanguageServer

`mlody/lsp/server.py`, `parser.py`, `diagnostics.py`. The editor's messages go through `inbox` in
order. A text is a number; a range edit takes one text to the next, and applied to any other it
gives `Garbage`. `OnOpen`, `OnChange`, `OnClose`, `OnAsk`, `OnInitialized` and `OnWatched` are the
handlers; `evaluator` and `failed` are what the last load left. The table of parse trees is in two
parts: `cache` has the version and the text an entry was made for, `tree` the text its tree is of.
`DocumentCache.update` hands the parser the tree of the previous version without having edited it
(`parser.py:127-131`), and a parser that is told an old tree is of the new text reuses what it likes
of it: `Update` leaves open whether the new tree is of the new text, of the old one or of neither,
unless there was no old tree. `over` is the documents whose tree was made over an older one.

### WorkspaceLoad, TaskGraph, ActionGraph, LoadedGraph

`WorkspaceLoad` is `common/python/starlarkish/evaluator/evaluator.py:1595-1790` under
`mlody/core/workspace_loader.py`. The stack holds files with the load() they have come to; a file
enters `loaded` when it is pushed (`LoadRun`), not when its body ends. `LoadIsForbidden`,
`LoadIsCircular`, `LoadRaises` and `BodyRaises` unwind it. `DriverRuns` and `DriverSkips` are the
loops over the two phases and the `--eval` files (the skip list is for the second phase); `LazyLoad` is a file asked for later.
`TaskGraph` is `mlody/core/dag.py` and the source resolution of `workspace.py:601-694` as
operators over two registries in registration order: the one known when the load ended, at which
sources are resolved, and the one the graph is built from, to which a request may have added the
files it asked for (`built`, the workspace's `_dag_cache`). `LoadedGraph` gives every file entities
to register and compares the graph with what the declarations say without any order.

What follows for a file that only a request runs: its tasks are nodes, if the graph was not built
before, but their sources stay strings, so they have no inputs in the graph and `show` of one of
them plans no work upstream; others reach them only through a `:task.port` source, which is looked
up late. `Read` states exactly this.

`ActionGraph` is `mlody/core/action_graph.py` and the execution in `mlody/cli/show_execution.py`:
the slice for a label, the actions with the hooks around a task's, the preparation of the display
after the sinks, and the order of `networkx.topological_sort`, by generations. The hooks of two
tasks are not ordered with respect to each other (an edge runs from a task's own action to the
next one's, past the hooks after the one and before the other), and the property claims nothing
about them but that the asked task's own come before the preparation.

### Requests

`mlody/resolver/resolver.py:509-1200, 1377-1620`, `Workspace.fork_request`, `mlody/core/lineage.py`,
`mlody/db/lineage_events.py`, the dispatcher of `mm_namespace.py`. `Build` applies defaults and
config rules to a version's workspace; `Fork` and `Refresh` give a request its copy and its task
context; `Override` applies one `--with` to one of the labels it expands to; `Refuse` is a
`--with` that cannot be parsed. One that expands to nothing fails before anything else of it is
done, so the overrides of a model expand to at least one label (`RequestConstants`). Each assignment
adds a row to those of its label (`Write`, `Insert`), which the database may refuse: the code writes
rows with its best effort and goes on (`lost` is the labels that happened to). `Walk` reads a lineage
back by content hash, from the newest of the rows with a hash (`Events`, `Newest`) to the payload it
was assigned over. `Bind` and `Call` are the dispatcher all forks share.

### EntityLookup

`mlody/core/registry_view.py`, the anchors of `mlody/core/workspace.py`, `_lookup_entity` and
`resolve_label_to_value` of `resolver_impl.py`. `LoadFile`, `Finish` (tasks and actions are rebuilt
and registered again), `ResolveLoads` (a file loaded by a lookup), `Setf` and `SetfSymbol` (a label
whose entity is in the registry, or only a module's global) are the actions. `Anchor` is the way of
`setf` and `Workspace.resolve`, `Show` the way of `show`, `Expand` that of a wildcard. `Show` looks
below the root's path, and below the workspace root for a label without a root and also for a root
whose path is empty (`ShownBelow`), whereas `Anchor` compares with the label's path as it is. A path is a
sequence of `Tokens`, as some of the code's filters compare strings and not components. The registry
is a sequence of entries and one table of names per kind; what a lookup finds is a set of positions in
the sequence, and every write goes through `PutEach`. A wildcard's labels are written in the order of
their stems as strings, which `PathRank` gives, since of two of them with one kind and name the last
fills the table.

### LabelPaths, Locations, ParquetRows

`LabelPaths` has what follows an entity: `TabularPath` and `JsonPath` intercept first, then
`RecordSteps` or `LoopSteps` walk names, `Engine` walks any segments with the step classes of
`mlody/resolver/engine`, and `Resolve` is the walk of `Workspace.resolve`. A walk is a fold over
the segments. `Locations` is `location_composition.py` and `location_specs.py`: a field's location
below its value's, level by level, with globs expanded on a small disk. `ParquetRows` is the
deserialiser that reads one row group at a time and `ParquetTraversalStrategy`, which walks a path
over several files.

### TabularRows

`mlody/core/tabular`, `core/assets/resolution.py`, `core/sql`, and the reads of `resolver_impl.py`.
Every call that materialises or reads is one step of a read; `Publish` and `Edit` come between
them. `Source` and `DeriveOver` build the chain for a value, `Materialized` walks it and writes what
each link keeps, `SourcePaths` says which files are read. `Falter` changes what can be reached of a
server (`reach`): its metadata, its content, both or neither. `Download` then answers with what is
cached, or with the present content, or fails, as the code does. `Count` then `LoadRows` is the preview of
`_load_rows`; `Prepare` then `Preview` is that of `show_execution.py`; `Ask` answers a query.

### Multimethod, ContentHash, ValueEdits, Forks

Four algorithms. `Multimethod` is `multimethod.py` (`Score`, `MethodScore`, `Dispatch`) beside
`unification.py` (`Unify` and its cases), over the same patterns. `ContentHash` is
`mlody/common/hash.py`; a digest is the document it digests. `ValueEdits` is `setf.py` with its
strategies and the adapters of `traversal_runtime.py`: `ResolvePlaces`, `AllWritable`, `Commit`
(places are resolved anew after each write), `Setf` over several anchors with its preflight. `Forks`
is the copy a request works on: `CloneGlobals` and `CloneRegistry` of `Evaluator.fork` and its
registries, each with a memo of its own, and `Copy` of the workspace's attributes, over a heap of
records, containers, tuples and functions.

### ImageBuild

`mlody/common/image_builder`. One commit, so one clone, lock and layout. A build reads the local
changes first (`Begin`), may invalidate the clone outside the lock, checks it twice around the
lock, clones in two git commands (`GitFails` falls back from the remote to the working directory),
applies or cleans, writes `BUILD.bazel`, builds and pushes one tag per target.

### KindCluster

`mlody/infra/kind`. `provision` in its six steps; each command of docker, kind and kubectl is an
action. `Silent` are those whose exit code is thrown away (`FailsSilently`), `Loud` those whose
output is read (`FailsLoudly`). `Kill` leaves the run where it is, `Others` are other users of
docker, `Begin` starts the next run with other options.

## 3. What the runs check

| Run | Instance | Properties |
|---|---|---|
| `baseline` | 2 threads, 2 calls each, a cwd and a commit request, 1 edit, interrupts; 396 000 states | `UnracedReloadIsFresh` `SingleFlightSpec` `CallsReturnUnlessAbandoned` |
| `workspace` | 2 processes, 2 calls each, 1 interrupt or kill, cleanups that leave something, the user follows the messages; 137 000 | `SettledEntryIsWhole` `SerialCallsAreClean` `CallsEnd` |
| `http` | 2 processes, 2 versions of one length, ttl 1, clock 3, one of kill / clean / cut body; 2.3 million | `NotPermanentlyStale` `SerialManifestMatches` `StalenessBounded` |
| `assets` | copies: 2 processes and other users of the upstream, ttl 1, clock 4 where calls are serial and 1 where they overlap, 1 kill; database: 2 processes, 2 URIs, 3 contents, 3 calls, 1 mishap; 2.2 million | `HashNamesCopy` `CopyAgeBounded` `ReachedAnswerIsCurrent` `HashNamesContent` |
| `programs` | a file of 3 segments and a small one, 4 mishaps; restart: 3 clients, 2 faults, 3 processes; 19 000 | `ProgressIsKept` `EventuallyDownloaded` `SingleSuccessor` `RestartsEnd` |
| `servers` | 2 or 3 requests in six plans, a table of 1, 1 event, 1 death; editor: 2 documents, 3 texts, 3 messages, 2 of them under way; 2.6 million | `SerialHistoryIsComplete` `RecentLogsAreServed` `DoneMeansAllTargets` `SerialOutputIsOwn` `TreeIsOfBuffer` `EvaluatorCatchesUp` |
| `commands` | 2 builders, 3 builds, 2 targets, 2 changes, 2 edits, 1 mishap; 3 provisioning runs, 2 nodes, 2 ports, 2 limits, 2 faults; 1.5 million | `DirtyTagIsExact` `CleanRunProvisions` |
| `load` | every load() graph of a family over 8 files, 9 sets of files that may raise, the graph built at any moment; 284 000 | `OkMeansWhole` `LoadsFinishFirst` `GraphFollowsSources` |
| `requests` | 2 requests, 2 commits, 2 values, 5 `--with` lists, refused rows; 2.9 million | `LayersHold` `CtxIsOwnOrConfigured` `LineageIsOwnHistory` `LoneDispatchIsOwn` |
| `values` | 4 files, two of them with one of 4 contents each, 154 labels, 1 assignment; 307 paths of up to two segments over 32 entities; 20 families of tables, 2 changes; 44 patterns over 111 terms, 13 824 worlds to hash, 56 694 assignments, 9 000 heaps; 312 000 | `ResolversAgree` `ExpansionIsExact` `LabelsReachOneThing` `ReadsAreOneMoment` `DispatchFollowsPatterns` `HashTellsReads` `AssignmentsAreExact` `ForkIsOwn` |
| `image_known` | as `commands`, the builder alone | `KnownSourceTree` is violated |
| `lookup_known` | as `values`, the registry alone | `LookupOwnStem` is violated |

Every property of a passing run has a mutant (`mutants` in `PROJECT.json`): one operator of the
model replaced by a plausible bug, under which the run finds the property violated.

Why the bounds are enough:

- **baseline.** The protocol's states differ by who owns the event and who waits. With two
  threads there is an owner and a waiter, and the second call of each lets a reload meet the
  build of an earlier get; one edit separates "before" from "after". Eviction is not bounded.
- **workspace.** The races are between one process in the lock and one outside it. The second
  call of each finds what the first left, a cleanup's remainder included: the tree may lose any part of
  itself in two steps, and keep the rest. One mishap is enough to reach every state a mishap
  leaves, since the user then clears it.
- **http.** The manifest and the payload can disagree once there are two versions. Both have one
  length, so that a download without metadata cannot tell them apart; their digests differ. With a ttl of
  1, a clock of 3 lets an answer be fresh, at the limit and beyond it. Each mishap is followed
  through every later step. `MaxLatency` bounds how much time passes during one call; it appears
  in the bound on age, as a call's answer can be as old as the call is long.
- **assets.** Copies: one behaviour in which the calls of two processes overlap, kills and failures
  included, for a clock of 1, in which a name is young and then expires; and one in which they follow
  each other and others refresh the upstream, for a clock of 4, in which the two ttls of 1 and the
  length of a call add up and an older copy is refused. Two processes and two names need three
  inodes at most. Database: the two
  URIs serve one content first and then each its own, so a blob row is shared and then is not;
  three calls are a download, a hit on the other URI and what follows.
- **programs.** Three segments make one recorded, one landed and one to come. Four mishaps are a
  failed segment, a kill, a deletion and another failure in one history. Three clients are one
  that restarts, one that joins it and one that comes after a failure.
- **servers.** History and stdout need two threads to overlap, two verbatim commands or one and a
  show that prints while it loads, stage logs two requests under
  one id or two, and a table of one entry evicts at once. For the editor, three messages are an
  open, a change and a question in any order; the two first versions include the 0 that a closed
  document counts as.
- **commands.** A build with changes, one without and one that overlaps them; the first change,
  the second and none. Two faults let a run fail half-way and the next one meet a failure while
  it repairs. The ports and limits are two so that a later run can ask for others.
- **load.** Diamonds, cycles, forward references and loads of a torn file occur within eight
  files; the broken sets put a raising file at each place of the order.
- **requests.** One request alone and two that overlap, in one commit or two; the lists assign
  one value, both by a wildcard, one value twice, and a payload a layer or the file gave before.
- **values.** Two files of any content, a third with one task, and one that is skipped suffice for
  two entities of one name, a file that is not loaded, a root whose path is empty and a root `team`
  whose path begins another folder's name, with the files `teams/a` and `team/s/a` that a label below
  it cannot tell apart. Paths of two segments reach
  every pair of step and thing stepped into; what follows a pair is again such a pair. A table
  needs a change between two reads and a second one during a third. Three objects of a heap make the
  cycle of a task, its outputs and a value, and two references to one container.

## 4. Fairness and deadlock

Safety runs use `Spec`. For liveness, weak fairness is added of the steps a thread or a process
takes by itself: the operating system schedules it, git commands end, requests are answered or
time out. Callers, editors, users, publishers, kills and Ctrl-C are under no obligation.

- `CallsReturnUnlessAbandoned` (baseline): weak fairness of `Step(t)`. A thread in `"wait"` has no
  step of its own; it is moved by the owner's `Publish` or `Abort`. That its owner goes on is all
  it can count on.
- `CallsEnd` (commit cache): weak fairness of `Step(c)`. No caller waits for another.
- `EventuallyDownloaded` (Hugging Face): weak fairness of each file's worker and of the return of
  `download_repo`. The property speaks of someone who starts the download again and again; no
  fairness forces anyone to. Mishaps are bounded, and after the last of them every attempt
  makes progress from any state on disk.
- `RestartsEnd` (restart): weak fairness of each step of the main thread, of the thread that shuts
  it down, of the watcher, and of a client's thread, whose call either succeeds or fails; the
  parent waits for its child.

Deadlock is checked in `http`. In the other runs the model rightly stops: when every thread,
client, editor or command has made the calls the bounds allow, or when the case picked for an
algorithm has been computed.

## 5. Where the code and its words disagree

Two have a run that ends in a counterexample (`findings` in `PROJECT.json` quotes the words):

1. `image_known`. A build with `--dirty-policy=apply` leaves its changes in the clone of the
   commit; the next build of the bare commit takes that clone and pushes the changes under the
   commit's tag, labelled `dirty=false`.
2. `lookup_known`. `_lookup_entity` tests kind, stem and name of each registered key and then
   returns the kind's entity of that *name*: of two files that register one name, the label of the
   first resolves to the entity of the second.

The following were seen while modelling. Those that shape a model are in it: the property is then
stated for the case that holds, and its comment says which case that is.

Caches and assets:

- A build of a baseline ended by Ctrl-C leaves its event in the in-flight table; later calls for
  the request wait for ever (`resolver/resolver.py:211`; hence *UnlessAbandoned*).
- `materialise` does not look again once it holds the lock. A caller that saw a miss before another
  finished clones into a full directory, fails, and its cleanup deletes the complete entry
  (`resolver.py:1311`; hence *Serial*). A cleanup that cannot remove everything says nothing and
  releases the lock: if `mlody/roots.mlody` is left, the next call takes what is left for a complete
  entry and loads it, and otherwise reports it as corrupt.
- The sentinel "whose presence marks a cache entry as complete" is an ordinary file of the tree and
  is there before the checkout ends (`resolver/cache.py:35`). `check_cache` reports "corrupt" while
  another process's clone is in progress. A commit without `mlody/roots.mlody` is reported as such
  the first time, and as a corrupt entry later (`resolver.py:1523`).
- `clone_remote` runs `git clone … origin <dest>`, so remote clones fail. `resolve_workspace`
  resolves a committoid twice, and its "best-effort, never raises" record calls what may raise
  (`resolver.py:1676`).
- Two overlapping downloads leave the payload of one beside the manifest of the other
  (`http_asset.py:209`). If the metadata request of a download fails, the next revalidation
  compares lengths only; when they are equal it takes over the digest of the newer version, and
  the older payload is served until yet another version comes (`freshness_policy.py:187`;
  `NotPermanentlyStale` says that this is the only way to it).
- An expired download that cannot be revalidated is answered from the cache without an error
  (`http_asset.py:141-149`). Its users cannot tell: a copy made or confirmed from such an answer is
  touched, and is young for another ttl (hence `blind` and `unsure`); a read under "always" gives
  the old rows (hence the clause on `reach` in `KeepsUp`).
- The temporary file of a copy has one name for all: one call renames the file another is still
  writing (`copied_asset.py:79`; hence *until two copies clash*); the html conversion does the same.
- A blob row's path is another URI's file, which that URI's next download replaces
  (`db/assets.py:154` has it that "blob content is immutable"). A download in database mode
  replaces the payload under the manifest's old hash.
- A derived output over a source without a hash is keyed by the label's text and the query: it is
  reused after the source has changed, and two files' equal relative labels share one output.
  The key of several source paths ignores their order. `_load_rows` counts and then previews, so a
  publish in between cuts the rows. `json` and `html` sources read the first of several paths. An
  ssh value without a representation is read as a local file of that path.
- The Hugging Face command makes the snapshot's directory first and later takes its existence for
  a finished download (`huggingface/cli.py:146`).

Servers and programs:

- `ArmFails` leaves the flag and the watcher, so a later Ctrl-C starts a new server; a client that
  joined is told "restarting" though the spawn fails.
- `shlex.split`'s `ValueError` is not caught when a command is parsed.
- Show commands call `resolve_workspace` without a `print_fn`: what a workspace prints while it loads
  for one client goes to the buffer of a verbatim command that runs meanwhile
  (`resolver.py:1434`, `1621`; `server.py:2268`).
- Language server: a request after `didClose` caches version 0, and a reopen at version 0 gets that
  text; a change is parsed with the tree of the previous version, which was never edited, as `old_tree`,
  so that the new tree may keep nodes of the old text (`parser.py:127-131`; the comment above it has it
  that the result is correct regardless); range offsets are UTF-16 in the protocol and characters in the code; a failed initial load
  never registers the watcher, changes between the load and the registration are missed; the
  HTTP server's baseline is not evicted by the editor's reload.
- Image builder: a killed build leaks the lock for ever; an interrupt leaves half a clone, taken
  for a hit; untracked files are copied after the diff was read; overlapping builds share
  `BUILD.bazel` and the layout.
- Cluster: `run` and `run_with_stdin` ignore exit codes though `provision` documents an exit with 1;
  half a cluster left by a kill is taken for an existing one.

Loading and requests:

- Exceptions of `types.mlody` files are swallowed, so half-run files below them are excused. An
  `--eval` file named like a loaded file is silently not run.
- Edges follow the last registration of a bare task name; the graph is never checked for cycles.
- A wildcard `--with` parses its text in the first label's unit (`resolver.py:1113`). A config
  rule equal to the context's default is lost on refresh. The lineage of equal payloads mixes
  requests and commits: an equal payload of another row, and also a row with the payload of the
  value's own file, from where the walk goes on into another's history (`materialized_lineage` stops
  at a hash that has no row, and the file's then has one). Rows of failed requests stay.
- The dispatcher's last binder wins (`evaluator.py:1281`), among forks too.
- A fork's task keeps the baseline's output values: an output names its task as `_producer_task`,
  so it is met while that task is being cloned, finds the original, and counts as unchanged
  (`evaluator.py:918`). Its `_producer_task` is the baseline's task. A container that a module and
  the registry share is two containers in the fork, as each has its own memo.

Labels and values:

- `//foo/...:x` keeps stems that *end* in `foo`, though `parser.py:277` speaks of a prefix; a root's
  path is compared as a string prefix, so that below a root `team` the file `teams/a` is written like
  `team/s/a`, and finds that one where there is one; an entity in the root's own path expands to a label that
  does not parse; a wildcard with a name is not filtered by its query.
- `setf` to a label of a file not yet loaded writes the module's global, not the registry.
- `TraversalErrorPolicy` says SKIP gives no output for a failing branch, but index and key misses
  are collected as empty vectors, and `[*]` omits fields whose location does not compose even
  under RAISE. `Workspace.resolve` stops at the first result that is not a field. `show` refuses a
  path through a value that is not a record, which `resolve` follows; `t.inputs[0]` differs.
- `show` looks for a label below a root with an empty path in the folder of the workspace root, where
  `setf` looks for it under its own path (`resolver_impl.py:2439-2442`).
- `ParquetTraversalStrategy`: after `[a:b].x` over a column of strings, the list of cells is taken for a
  list of file paths, and a step after it gives nothing (`resolver_impl.py:1941`); an index below −total over several files returns a row of the first
  one; a key on what is not a dict raises though errors "never propagate".
- Dispatch: captures are lost when a path pattern lies inside a pattern; an alternative of
  something special and ANY beats a more special method; a literal struct scores below an entity.
- Hashes are blind to local files without a source and to the descriptors of outputs outside git.
- `setf`: a commit can fail after earlier anchors and their rows were written; writing below a
  method's result adds a field that hides it.

## 6. What is proved

TLC checks small instances; the theorems below hold for every number of threads, processes,
requests, files, segments, versions, messages, calls, edits and mishaps. They assume the
`ConstantsOK` of each module (`RequestConstants`, `BuildConstants` and `KindConstants` in `Requests`,
`ImageBuild` and `MCCommands`): the bounds are naturals, the tables given as constants have the
types the code gives them, and the marks (`Nobody`, `Free`, `Stale`, `None`, `Torn`, `Terminal`)
are not among the values they stand beside; `LookupAssumption` of `EntityLookup` says in addition that
a file's path does not end with a separator and that what is registered has a name. A theorem with one
more hypothesis names it in its statement: `MetadataTellsVersions` (two), `NeverReturns` (one);
below. Every invariant was checked by TLC before it was
proved, and TLC evaluates the assumptions in the runs.

| Property of a run | Theorem | Module |
|---|---|---|
| `SingleFlightSpec`, `UnracedReloadIsFresh` | `ImplementsSingleFlight`, `UnracedReloadsAreFresh` | `BaselineCacheProofs` |
| `SettledEntryIsWhole`, `SerialCallsAreClean` | `UnlockedEntryIsWhole`, `SerialCallsEndClean` | `CacheAndLookupProofs` |
| `ResolversAgree`, `ExpansionIsExact` | `ResolversFindTheSame`, `WildcardsAreExact` | `CacheAndLookupProofs` |
| `SerialManifestMatches`, `NotPermanentlyStale`, `StalenessBounded` | `ManifestNamesPayload`, `NeverPermanentlyStale`, `AnswersAreFresh` | `HttpAssetProofs` |
| `ProgressIsKept`, `SingleSuccessor` | `ProgressSurvives`, `OneSuccessor` | `ProgramsProofs` |
| `OkMeansWhole`, `LoadsFinishFirst` | `LoadedIsWhole`, `LoadsComeFirst` | `WorkspaceProofs` |
| `SerialHistoryIsComplete`, `DoneMeansAllTargets`, `SerialOutputIsOwn` | `HistoryIsComplete`, `DoneIsComplete`, `OutputIsOwn` | `ServersProofs` |
| `RecentLogsAreServed` | `LogsAreServed` | `ServersProofs` |
| `EvaluatorCatchesUp`, `TreeIsOfBuffer` | `EvaluatorIsOfFiles`, `TreesAreOfBuffers` | `ServersProofs` |
| `LayersHold`, `CtxIsOwnOrConfigured`, `LoneDispatchIsOwn` | `LayersAreHeld`, `CtxHolds`, `LoneDispatch` | `WorkspaceProofs` |
| `LineageIsOwnHistory` | `LineageIsHistory` | `WorkspaceProofs` |
| `HashNamesCopy`, `CopyAgeBounded` | `CopiesAreNamed`, `SerialCopiesAreYoung` | `AssetsProofs` |
| `ReachedAnswerIsCurrent`, `HashNamesContent` | `ReachedAnswersAreCurrent`, `SerialAnswersAreNamed` | `AssetsProofs` |
| `DirtyTagIsExact`, `CleanRunProvisions` | `DirtyTagsAreExact`, `CleanRunsProvision` | `CommandsProofs` |

### BaselineCacheProofs

`IInv` is the type invariant and three facts about the two dictionaries: a thread in its build is
the registered owner (`BuildersRegistered`), a request in flight has no cached baseline
(`InFlightMeansEmpty`), a publisher holds a version (`PublishesVersion`). `SingleBuilder` alone
is not inductive: that two threads do not both *start* a build follows from the table, so the
table must be tied to the threads.

- `TypeCorrect`, `AtMostOneBuilder` follow from `IInv`.
- `ImplementsSingleFlight`: every step of the protocol is a step or a stutter of `SingleFlight`.
  `Publish` fills an empty slot because of `InFlightMeansEmpty`.
- `PublishedVersionsAdvance` and `UnracedReloadsAreFresh` need `VInv`: nothing is newer than the
  tree, and what a caller was given is not newer than what is cached or about to be published.
  The heart of it is that a build reads the tree after its claim, and nobody else can have
  published for the request in between.
- `NobodyWaitsAlone` needs `WInv`: a waiter's event is registered and, when builds are not
  interrupted, its owner is in the build.

### CacheAndLookupProofs: the entry of a commit

`IInv`: types, `MutualExclusion`, a lock file without an owner is the mark of a death
(`StaleMeansMishap`), and what the holder knows of the directory as it goes on
(`HolderKnowsTree`: complete after the checkout, unless a user removed it, and gone after the
cleanup, or what this could not remove). `SettledEntryIsWhole` is not inductive without it: the release of the lock exposes
whatever the holder has left.

- `TypeCorrect`, `LockExcludes`, `UnlockedEntryIsWhole` follow from `IInv`.
- `MetadataIsForWholeTree`, an action property, needs `MetaMeansWhole`: only a user's deletion
  can change the directory between the checkout and the write.
- `SerialCallsEndClean` needs `SerialInv`: while no calls overlap and nothing went wrong there is
  one caller outside `"idle"` (`OneAtATime`), a taken lock is that caller's (`LockHasHolder`), and
  so a call that begins finds the lock free and, by `UnlockedEntryIsWhole`, the entry complete or
  gone, or left behind by a cleanup (`SerialCallFindsEntrySettled`, `LeftoverIsThere`). From the first
  two the call can only take the branches that end in "loaded" or in git's error; from the last it may
  also end in "corrupt", or load what is left.

### CacheAndLookupProofs: labels

For any files, modules, roots, labels and assignments. `LookupInv` (`RegistryIsTabled`): the registry
has its shape, and for each kind and name that is registered the kind's table has the entity of an
entry with this kind and name (`Tabled`). It does not say of *which* entry: after a wildcard's
assignment that depends on the order of the writes. The lemma `PutOK` shows it for one registration and
`PutEachOK` for any number, which load, rebuild and assignment consist of. (`PutEach` is a function
defined by recursion over an interval; that it has a value, and that an invariant of `Put` holds of it,
are shown by the least position where they would fail: `Least`, `StepsExist`.)

- `ResolversFindTheSame`. An anchor that is the only entry of its kind and name (`Lone`) is by `Tabled`
  the one whose entity the table has. If nothing else fits the label (`Plainly`), what `show` finds
  under its stem (`LookupIs`, `ShowIs`) is that entry too, also where a root's path is empty and `show`
  looks below the workspace root instead.
- `WildcardsAreExact`. A label's exact stem is met by what the label fits (`UnderFits`), what is left
  of a file's path below a root ends that path (`RestIs`, `EndOf`), and so each label of the expansion
  is anchored at an entry of that name (`ConcreteFinds`), which is of the file it was made from if the
  label can mean no other file (`MeansOnly`). The clause is about one label and not about the
  workspace: the code compares a root's path as a string prefix and a label's as a string suffix, so
  with the root `team` and the files `team/s/a` and `teams/a` both are expanded to a label with the
  path `s/a`, whose anchor is in `team/s/a` alone. The run `values` has these files, and the labels of
  all other entities of the same expansion are held to the property there.

### HttpAssetProofs

`IInv` is types and `LocalsHeld`, what `materialize` has in its variables where it uses them. The
three properties need three invariants of very different kinds.

- `ManifestNamesPayload`. `SerialInv`: while calls were serial and nothing was killed or cleaned
  (`NoClash`), only the one process in a call can be between its two writes (`OneInCall`), and the
  payload beside the manifest is the one it was written for unless that process has just put its
  own there (`FilesMatch`, `OwnPayload`). A cut body never reaches the name (`WholeBodies`).
- `PastInvariant`, which the next two share: nothing is recorded of a version that is yet to come, and
  metadata is never fetched after the body it goes with (`MetaTraced`, `BodyTraced`).
- `NeverPermanentlyStale`. `TraceInv`: a manifest with metadata has the telling field of the version it
  was fetched from, one without says the length of its payload, and only a guessed one describes
  a version newer than its payload, of the same length then (`Traced`). What a
  revalidation found unchanged agrees with the manifest in the telling field, or, if the manifest has
  no metadata, in the length (`Agrees`, `NoChangeAgrees`).
- `AnswersAreFresh`. `AgeInv`: the payload of a manifest was current when the call that checked it
  began, which is at most `MaxLatency` before the time it recorded, unless the manifest is mistaken
  (`Dated`, `ManifestsDated`); what a process is about to record was current when its own call began
  (`BodyDated`). So the age of an answer is at most the ttl and the lengths of two calls
  (`AnswerDated`).

`NeverPermanentlyStale` holds under `MetadataTellsVersions`: one field is in every answer about metadata and tells
versions apart, like an etag. Nothing is assumed about lengths, and in the run they are equal
(`DigestsDiffer` in `MCHttpAsset` has TLC check the hypothesis there). The property itself names the
one case in which the code is stale for good: when the HEAD request of a download fails, the manifest's
only comparable field is the number of bytes received; if a newer version has the same length it "has
not changed", its digest is merged into the old payload's manifest, and from then on every comparison
succeeds (section 5). What the theorem says is that no interleaving of HEAD, GET and the two writes is
another way to it. `AnswersAreFresh` needs no hypothesis: it exempts the calls that went by such a
manifest, or that could not reach the server at all (`blind`). `ManifestNamesPayload` has neither.

### ProgramsProofs: the download

`IInv` is `TypeOK`, `RunIsOver` (no worker between runs, no result during one),
`CompleteMeansDownloaded`, and one invariant per file. `FileInv(f)` contains the two properties of
the file (its output is whole; its metadata promises only what is in the partial file) and what
makes them inductive:

- `WorkerKnows`: what each place of the worker says of the disk. At `"replace"` the partial file
  is complete; at `"init"` there is no metadata to trust beside the truncated file.
- `SegmentsAccounted`: in a segmented download the metadata in memory and on disk agree, what is
  recorded or landed is written, and unless something failed every segment is recorded, landed
  or to come. This is why a download with nothing left to do has everything.
- `OrphanMetadata`: metadata without a partial file is left only beside a finished output (the
  process died between the rename and the removal of the metadata). Were it left elsewhere, the
  next truncated file would be taken for one to resume.
- `SizeDecides`: only large files have metadata, only small ones are streamed.

A worker's step touches one file (`OnlyFile`), so by `FileStep` its proof is about that file
alone; `Begin`, `Finish`, `Kill` and `DeleteRepo` concern all of them.

- `TypeCorrect`, `PublishedIsWhole`, `ResumeIsSafe`, `CompleteIsComplete` follow from `IInv`.
- `ProgressSurvives` (`ProgressIsKept`): every action keeps each file's recorded segments
  (`Kept`), which for the workers rests on `WorkerKnows` and `SegmentsAccounted`.

### ProgramsProofs: the restart

`OneSuccessor` needs `RestartInv`: at most one client is about to spawn, and while it is, the flag is
up and there is no watcher (`OneSpawns`); a watcher is there only under the flag (`FlagIsUp`). The
property is about watchers alone; it is not inductive because what prevents a second watcher is the
flag, which a failed spawn gives back.

### WorkspaceProofs: loading

The theorems hold for every load() graph, forbidden prefix, skip list and set of files that raise.
Most of the work is in lemmas on the stack, a sequence of records: what a push, a step of the top
frame and a pop do to the frames below (`PushAdds`, `StepAdvances`, `PopReturns`, `FrontKeeps`).

- `TypeCorrect`.
- `LoadedIsWhole`: a file that is in `loaded` and not on the stack has run to its end, or was
  counted as torn when its frame was unwound, which reports an error unless the exception is one
  the loader drops (`TornAccounted`).
- `LoadsComeFirst`: `OrderInv`. No file is on the stack twice (`StackDistinct`), each frame is at a
  load() whose file is the frame above it (`StackFollowsLoads`), what a frame has passed is loaded
  and off the stack (`LoadsSettled`), and so is everything that a file which ran to its end loads
  (`RanSettled`), which if it ran to its end did so earlier (`RanInOrder`). The heart of it is the
  end of a body: what it loads is settled, so none of it can still end later.

### ServersProofs

About the HTTP server (`Types` are the types of threads, files and outputs):

- `HistoryIsComplete`. `HistoryInv`: while appends are serial at most one thread is in an append
  (`OneAppends`), it loaded all that is recorded (`LoadedAll`), and the file is other than what is
  recorded only between its emptying and its writing (`FileIsRecorded`, `FileIsEmpty`).
- `DoneIsComplete`. `DoneInv`: per thread, what its place says of the targets that are left, of its
  connection, and of whether its events so far are free of errors (`Accounts`). The last needs that
  an event goes to the stream of the thread that emits it and to no other (`EmitsOwn`).
- `OutputIsOwn`. `OutInv` has two halves. `SwapInv`: while verbatim commands do not overlap, at most
  one prints (`OnePrints`), stdout is its buffer and the stream it will put back is the terminal
  (`Swapped`), which is in place when none prints (`TerminalIsBack`), whatever others print. `OwnInv`: if
  besides no show command of another endpoint resolves a target during one (`NoShow`), the buffer has
  one line per target it has passed and nothing else (`PrintsOwn`, `AllPrinted`). Without that clause it
  is false: what such a command prints while it loads goes to the same stdout (`PrintLoading`).
- `LogsAreServed`, for a table of any capacity. `StageInv`: the rows of the table are, oldest first,
  the last storings of their ids (`RowsAre`), and a last storing without a row is older than all of
  them, and the table full (`NoneMissing`). Storing keeps this in two steps, the new row (`Grown`)
  and the departure of the oldest (`OldestLeaves`). If an id has no row, the rows are of as many
  other ids as the table holds, all stored later: an injection into what the property counts
  (`GoneMeansManyLater`). That the row is still what the request emitted needs that a request which
  has stored its logs has ended (`StoredEnded`); that it is all its own, `OwnEvents`.

About the language server, under `EditorConstantsOK` of `MCServers`:

- `EvaluatorIsOfFiles`. `CatchUpInv`: if the evaluator is not that of the files, a report is in the
  inbox, or still to be made, or a change was missed before the watcher came.
- `TreesAreOfBuffers`. `BufferInv`: along the messages of a document that are under way there is a
  chain of copies from the server's document to the editor's buffer, in which every change leads
  from one copy to the next (`Leads`, `Reaches`), and closings empty it. Sending extends the chain at
  its end (`SentReaches`), handling removes its first link (`HandledReaches`). That a range edit of
  the chain never meets another text than the one it was made for is what makes the document right; it is
  the statement about order that the property leaves implicit. Of the tree, `OpenTree` says that the
  diagnostics shown are its own, and that it is of the document's text if it was parsed from nothing;
  of one parsed over an older tree nothing more can be said. `AppliedInOrder` is the lemma that the
  changes of one notification, applied one after the other, lead to the same.

### WorkspaceProofs: requests

Payloads, users and rules have no types, and need none: `RequestTypes` says what shape a request and its
position have, and over which sets the tables range.

- `LoneDispatch`. Two requests that are in one workspace at a time have met (`PeersHaveMet`), and
  the dispatcher is still bound to a request that defined a method and met nobody
  (`LoneBindingHolds`). The second is not inductive without the first: another's method would
  take the binding away.
- `CtxHolds`. A baseline stays what its layers and rules made of it (`BaselineHolds`: no request
  writes it), and a request's context is that of the baseline refreshed once (`CtxRefreshed`). The
  property follows by the cases of `Refresh`.
- `LayersAreHeld`. The invariant of the loop over the overrides and the labels of each:
  `LoopAssigned` says that a value no override has reached yet is the baseline's, and that one
  some have reached is what the last of them means by it. `LoopCarries` says that the number
  carried from one label to the next was parsed for one of the labels of the same override, which
  is why the property needs their units to be one (`OneUnit`). `LoopFrame` is the isolation of
  requests: what one does leaves the loops of the others where they were.

- `LineageIsHistory`. The heart of it is `Chain`: payloads from that of the file to the current one,
  with a row in the table from each to the next, whose sources are the request's history so far.
  `HistoryInv` says that there is such a chain for what each request has of each value (`Recorded`),
  that the rows of a built workspace's layers are written (`BaseWritten`, where the chain of a fork
  begins), and that the labels the current override has reached have the value the loop carries
  (`Kept`: what the next row is written over). Tables only grow (`RowsGrow`), so others' rows leave
  chains alone; and the property's hypothesis, `Clear`, holds before every step it holds after
  (`StillClear`), so that the invariant may assume it of the present state. `WalkIs`
  shows that a walk follows its chain to the end: no payload is on it twice (`NoneTwice`), hence
  the walk is not cut short, it has at most as many rows as the table (`ChainFits`), and the file's
  payload has no row. The property was false as first stated, without its clause about the file's
  payload (section 5): the chain then has an end that the walk goes beyond. `History`, `Insert` and
  `Walk` are recursive functions on intervals, which exist and step as they are written by
  `StepByStep`.

### CommandsProofs

For any number of processes, targets, nodes and faults; about the actions of `ImageBuild`, and those
of `KindCluster` as `MCCommands` instantiates it.

- `DirtyTagsAreExact`. `BInv`: who is between taking the lock and giving it back is whom the lock
  file is of (`HoldersLock`), and until a build is killed or interrupted a clone without its files is
  in the hands of the build that will check them out (`HalfIsHeld`); builds that do not overlap are
  one (`OneBuilds`), and that one knows the clone place by place (`CloneIsOwn`): it is gone after
  `Invalidate`, has its files and no changes before `Apply`, and then, while nobody edits the working
  directory, exactly the changes of the tag, their label and their layout. The property is about
  the registry alone; all of this is what a push needs. `GoKeeps` and `EndKeeps` are the two lemmas
  that every step of a build goes through.
- `CleanRunsProvision`. `KInv`: as long as the run had no failure (`hitch`), what it found and each
  of its steps established still holds where it stands (`CleanRun`): the registry (`RegistryUp`), the
  cluster (`ClusterUp`), one file per node (`TomlsWritten`), the network, the config map and the
  limits. What earlier runs, kills and other users left is arbitrary but for `WorldHolds`.

### AssetsProofs: copies

For any number of processes, whether their calls overlap, fail or are killed. Two copies of one
destination write one `<dest>.tmp`, and one may publish what the other is still writing: the theorems
say what holds until a process begins to copy while another does (`NoClash`), and what more holds while
calls are serial (`Serial`: none began before another had left), which includes the former.

- `CopyInvariance`: types, `OneInCall`, and `LocalsHeld` (the upstream has answered before anything
  is compared, a writer has a file).
- `CopiesAreNamed`. `CopyInv`: until a clash the temporary file is the one writer's, it is not the
  destination, and once written it is whole (`OneWriter`), so the destination is whole
  (`DestIsWhole`), also where other calls compare, touch, fail and die beside the writer. `HashInv`
  follows the hash from the upstream's answer over the body to the destination; it breaks when another
  call or another user refreshes the upstream meanwhile, which is the exception the property makes.
- `SerialCopiesAreYoung`. `AgeInv` dates everything by the last time it was current: the upstream's
  content at its last check unless that check missed a change (`UpstreamDated`), the body of a call
  that was not blind one ttl before the call (`BodyDated`), a destination that such a call vouched for
  one ttl and one call before its mtime (`DestDated`), and so a hit, whose mtime is up to a ttl old, two
  ttls and a call before (`DoneDated`). The ttl counts twice because the copy's freshness begins when
  it is touched and not when its upstream was checked. For a copy that a blind call made or touched
  (`unsure`) there is no bound: the upstream's answer was as old as it may be, and nothing says so.

### AssetsProofs: the database and the manifest

- `CallShapes`: what the tables are indexed by, and which fields a call has at each place.
- `ReachedAnswersAreCurrent`. `LearnInv`: a record or a call that holds what HEAD said and a body
  holds two contents that were served in this order (`HeadThenBody`), since the call began if it is
  the call's own (`Learned`). No order between calls is needed. It holds under `NeverReturns`, that
  a server does not go back to a content it has replaced, and needs it: HEAD comes before GET, so a
  record may have a newer body under an older HEAD, and a server that went back to the older
  content would be taken for unchanged, and the newer body's hash for current (`StillTheSame`).
  `ServersGoOn` in `MCAssets` has TLC check the hypothesis for the scripts of the run.
- `SerialAnswersAreNamed`. `SerialInv`: one call at a time, and an answer is alone until the next
  begins (`OneRuns`); a mode has records only of what it has downloaded, and if it alone has, they
  are of what the file holds, but for the moment between the file's replacement and its record
  (`RecordsNamed`); what a call has read is still there when it answers (`CallNamed`); and a table
  is of its content (`DerivedNamed`). That one mode alone has downloaded a URI is stable backwards:
  `modes` only grows (`SingleBefore`).

## 7. What is only model-checked, and what is not modelled

Only model-checked: the liveness properties (`CallsReturnUnlessAbandoned`, `CallsEnd`,
`EventuallyDownloaded`, `RestartsEnd`; liveness under fairness is outside this prover's reach), and
for now every property of the modules that have no proof module. What the folds and recursions of
`LabelPaths`, `Multimethod`, `ContentHash` and `ValueEdits` compute for every input needs induction
over data too, for which the provers have no theorem they can use. The recursions of `LanguageServer`,
`EntityLookup` and `Requests` are the exceptions: their functions are over intervals, and what holds of
them is shown by the least position where it would fail (`AppliedInOrder`, `PutEachOK`, `StepByStep`).

Abstractions a reader should know of:

- *BaselineCache*: a workspace is the version of the files it read; a build reads them at one
  instant. Editing files while the evaluator reads them one after the other is left out.
- *WorkspaceCache*: one commit, one entry. Each git command takes effect at once, except the
  checkout, which takes three steps. The entry's parent directories exist.
- *HttpAsset*: one URI; the redirect target, which decides the payload's suffix, does not change.
  Clock ticks are coarse. The manifest is replaced atomically (`os.replace` in `manifest.py`).
- *AssetDb*: a HEAD identifies the content and a body arrives whole; whether a record is fresh is
  left open. What is asked of the remote under a clock is in `HttpAsset`.
- *CopiedAsset*: the upstream answers at once, in one of the four ways in which `HttpAsset` may; when it
  misses a change is left open. The comparison with the destination and its touch are one step.
- *HfDownload*: one command at a time, one snapshot; worker pools are never full, as a queued
  worker is the same as one that is not scheduled. HEAD answers carry the true size.
- *ServerRestart*: process ids are not reused while a watcher polls.
- *ApiServer*: what a result contains is left out; one `Log` per handler and event bound. What is
  printed while a workspace loads is one line per target and event bound, and on the terminal nothing.
- *LanguageServer*: messages are handled in order, one at a time, as the library's loop does. What the
  parser makes of a text over the tree of another one is any of the two, or neither.
- *WorkspaceLoad*: a file's text is its load() list, the number of entities and whether it raises.
- *Requests*: inline locations only, so that a value's hash is its payload's; numbers with a unit.
- *EntityLookup*, *LabelPaths*: labels are parsed; entities' own attributes are those their rule
  declares; no vector holds an element twice; a query selects everything; cells are scalars;
  slices have no step; tables without a location and named users are left out.
- *Forks*: what a closure or a default argument holds is shared and not looked into; heaps have
  three objects with at most two children each.
- *TabularRows*: each call that materialises or reads is one step; freshness is "always" or
  "manual"; what can be reached of a server changes between the steps of a read; a content is its form and rows, and a hash is its content. Two of its conditions
  leave out outputs shared by equal label and query (section 5).
- *ImageBuild*: one commit. *KindCluster*: one run at a time.

Not modelled, and why:

- *Label and selector parsers* (`mlody/core/label`, `traversal_parser.py`): functions from text to
  records, without state; the models begin where they end.
- *DSL library* (`mlody/common/*.mlody`): constructors of records and their checks; their only
  state is the registry they call, which is in `EntityLookup`.
- `plan.py`, `tasks_consuming` and `validate_paths`: reports over the graph. *Type and location validation in a context*: predicates on one value.
- *Evaluation database*: single statements, whose atomicity is SQLite's; best-effort at its call.
- *The language itself, the sandbox, quantities*; *argument parsing, renderers, pages of the
  server, completion and hover*: conversions of a state the models have, in one call.
- *React pages*: a client of the HTTP API. *Team runtimes*: numerical programs that tasks run.

Hazards without a property: `resolver.py:1293`, which the code meets (section 5, `materialise`);
its two properties say what holds without it.

## 8. Plan

Done: the caches with their proofs; the asset sources with their databases, copies and tables;
the servers; the programs that are run again; loading, requests, labels and values; the pure
algorithms.

To prove next:

- Lemmas on the operators of `Locations` and `ParquetRows` that need no induction.

To model further: an HTTP server's pages over a baseline that is reloaded meanwhile; two
simultaneous Hugging Face commands on one snapshot; a download, a copy and a derivation as one
composition with their inner steps.
