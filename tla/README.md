# Verification of CAPIO-CL

TLA+ modules, TLC configurations and TLAPS proofs for CAPIO-CL, the library that
holds the coordination rules of a workflow's files (who produces and consumes a
file, when it is committed, when a consumer may fire) and tells the instances on
several nodes which files are committed. Sources are cited as `src/<path>` of
the repository.

## 1. The system

| Part | State | Operations | Interaction |
|---|---|---|---|
| `CapioCLEntry` (`capiocl/engine.h`, `src/Engine.cpp`) | the rules of one path | `operator+=`, `operator==`, `toJson`, `fromJson` | value stored in the engine; travels as JSON to the API server |
| `Engine` (`src/Engine.cpp`) | `_capio_cl_entries` (path or glob to entry), `store_all_in_memory`, workflow name | about 45 public methods | called by any number of threads (also the API server's); delegates commit and home node questions to `Monitor` |
| `Monitor` and backends (`src/Monitor.cpp`, `src/monitors/*`) | per instance: committed files, home nodes; shared: token files | `setCommitted`, `isCommitted`, `setHomeNode`, `getHomeNode` | multicast datagrams between instances, two listener threads each, token files on a shared file system |
| API server (`src/api.cpp`) | its thread, `thread_ready` | receive loop, start-up handshake | multicast datagrams in, `Engine::add(path, entry)` out |
| Parser, Serializer (`src/parsers`, `src/serializers`) | none | JSON to `Engine` and back | calls the engine's methods, reads its table |
| Configuration (`src/configuration.cpp`) | a key-value map | `load`, `getParameter` | says which backends `Engine::loadConfiguration` registers |
| Printer, Python bindings | none | output, wrappers | |

What is hard here, and what therefore makes each part correct:

* **Engine.** Nearly every method has the shape "look the path up; if it is not
  there, register it and call yourself again". Registering copies the longest
  matching glob and bumps the parent directory's counter. In some methods lookup
  and registration are one critical section, in others the lock is given up in
  between, and in `getDirectoryFileCount` the registration takes no lock at all.
  `setAllStoreInMemory` and `setDirectoryFileCount` walk over a snapshot taken
  earlier. Correct means: no application is lost in these windows, looking
  something up does not change the rules, storage promises and counts hold
  whoever interferes, and the retries end.
* **Monitor.** Datagrams are lost, arrive late, or arrive before a listener has
  joined; a question has a fixed waiting time; instances crash between the steps
  of a commit; the two backends identify files differently. Correct means: no
  commit is invented, an acknowledged one is not denied later, one that somebody
  knows is eventually learned, and shutting down ends.
* **Home nodes.** Caches of negative answers, check-then-create on token files,
  tokens that exist before their name is in them, references into a map that are
  read after the lock is released. Correct means: only nodes that claimed a file
  are named as its home, an earlier claim is not overwritten, and it is found.
* **API server.** A start-up handshake without the mutex, a receive loop that
  reads the workflow's name while it is being changed, datagrams that are lost,
  duplicated, reordered or malformed, a socket whose set-up may fail unnoticed, an
  engine whose table is destroyed before its server is stopped. Correct means:
  starting and stopping end, only entries for this workflow get in, and what they
  add up to does not depend on the order of arrival.
* **Parser and serializer.** A document is loaded by calling the engine's methods
  one after the other, and new paths inherit from patterns loaded before. Correct
  means: it is clear which of a document's rules decides what, whatever the order
  of registrations; what is written is read back, for both syntax versions; and
  what cannot be read back is refused for a reason.

## 2. Modules

| Module | Models | Extends |
|---|---|---|
| `CapioCLEntry` | the entry, its defaults, `AppendNew`, `Merge` (`operator+=`) | |
| `Engine` | the table under concurrent calls | `CapioCLEntry` |
| `MCEngine` | instances for TLC | `Engine` |
| `EngineProofs` | type correctness, lemmas about the helpers | `Engine`, `TLAPS` |
| `EngineStorageProofs` | the storage promise | `EngineProofs` |
| `EngineStepProofs` | what a step of the engine may never do: roles, counts, lookups | `EngineStorageProofs` |
| `CommitRegister` | what the commit calls promise, without any mechanism | |
| `CommitMonitor` | commit state over multicast and token files; instance of `CommitRegister` | |
| `MCCommitMonitor` | instances for TLC | `CommitMonitor` |
| `CommitMonitorProofs` | type correctness, no invented commits | `CommitMonitor`, `TLAPS` |
| `CommitRegisterProofs` | the refinement; commits stay | `CommitMonitorProofs` |
| `HomeNode` | home nodes over multicast and token files | |
| `MCHomeNode` | an instance for TLC | `HomeNode` |
| `HomeNodeProofs` | no invented, no overwritten, no overlooked home node | `HomeNode`, `TLAPS` |
| `ApiServer` | the server thread and its engine | `Engine` |
| `MCApiServer` | an instance for TLC | `ApiServer` |
| `ApiServerProofs` | the composition with the engine; the filter; the handshake; the totals | `ApiServer`, `EngineStepProofs` |
| `Persistence` | saving and loading an engine, `operator==` | `Engine` |
| `MCPersistence` | an instance for TLC | `Persistence` |
| `PersistenceProofs` | loading a document; saving and loading a table | `Persistence`, `EngineStepProofs` |

### Engine

`entries` is `_capio_cl_entries` (a total function with `NoEntry` for absent
keys), `frame[t]` the call thread `t` is in with the section that comes next
(`at`), `ret[t]` the value of its last call. One action per method, with the
method's name (`add` is the overload with eight parameters, `addEntry` the one
with an entry). **Each scope of a lock guard is one step**; between two of them
any thread may run. So:

* methods that retry under one guard (`setPermanent`, `setFireRule`, ...) are
  `Setter`s: assign, or register and start over;
* methods that give the lock up in between (`getCommitRule`, `addProducer`,
  `setCommitRule`, ...) go to the section `"create"` and come back;
* `isFile` comes back as `isPermanent` (section `"tail"`), as in the code;
  `addFileDependency` passes through `setCommitRule` (section `"rule"`) if the
  path was missing;
* `setAllStoreInMemory` is flag, snapshot, walk; `setDirectoryFileCount` is
  snapshot, walk, write; `setFileDeps` is walk, write;
* the unlocked `_newFile` of `getDirectoryFileCount` is cut into search, insert,
  read of the parent's counter and write of it. The data race on the
  `unordered_map` itself (a rehash under a reader) is undefined behaviour beyond
  these interleavings and is not modelled.

Recursive calls are jumps back to the first section, early returns are the
action `EarlyReturn`. `Invoke(t, c)` and `Refuse(t, c)` are a given call's
beginning; `ApiServer` and `Persistence` use them to call the engine. Abstracted: `fnmatch` is the relation `Matches`,
`filename.length()` the function `Length`, `parent_path()` the function `Parent`,
white-space removal the function `Strip`; ties among longest matches, and the
order of `getPaths`, follow the hash map and are nondeterministic. `fsChoice` and
`allInMemory` are history variables for the storage property.

### CommitMonitor

Each node runs one instance at a time: a thread that calls, and the commit
listener. `Monitor` walks over `Interfaces` (multicast first, as `Engine`
registers them). A send puts the datagram into the sockets of any subset of the
listening instances; a socket is read in any order. The steps of a call are the
code's: `send`, `add`, then `check`, `create` for `setCommitted`; `lookup`,
`ask`, `again`, then `exists` for `isCommitted`. `Throws` is an exception of
`socket()` or of the file system; `FsSet` may also fail silently, because
`std::ofstream` does. `Crash` and `Stop` lose the instance's memory, the tokens
stay. Paths are spellings, `Token` says which spellings share a token file. The
fixed delay of `isCommitted` is any time at all. An exception inside the
listener ends the process and is a `Crash`. Datagrams a node holds are a set, so
a second copy of one that has not been read yet adds nothing.

### CommitRegister

The promise of `setCommitted` and `isCommitted` as five variables: the requested
paths, the files committed durably, what each instance has said "yes" to, the
call each node is in, and how the last one ended. A call begins and ends, each in
one step. `CommitMonitor` is mapped to it by `Register` (`durable` is the set of
tokens acknowledged by a finished `setCommitted`, a pending call is the frame
without its place in the code); everything else it does is a stutter.

### HomeNode

Built like `CommitMonitor`. `home` is `_home_nodes` of the multicast backend,
`cache` that of the file system's, `tokens` the token files with what they hold.
A token is opened (`Empty`) and written in two steps, as the stream does; a disk
that fails may leave it unopened, or open and empty. The listener assigns a new
name in two steps (`Learns`, `Written`) with the lock held; the value in between
is `Torn`, and only `"deref"`, the read through the reference that `getHomeNode`
returned, can see it. A datagram is the sequence of its words: the listener takes
the first one for the path and the second for the node, whatever the sender
meant (`Words`, `PathIn`, `HostIn`).

### ApiServer

`Engine` with threads `Main` and the servers it starts; the engine's `Calls` are
those of `Main` (`Uses`) and the `Engine::add`s of complete datagrams. The constructor is cut
where the server's thread may run: start of the thread, test of the predicate,
the gap before the wait, the wait; the server's thread at set-up, flag,
notification, loop test, reception, `Engine::add`. Starting a second server while
there is one constructs the new one first and then destroys the old, as the
assignment to the `unique_ptr` does.

`SetUp` may fail: `socket`, `bind` and the group membership return their results to
nobody (`src/src/api.cpp:28-43`), so a server that got none of them goes on like any
other and only `deaf` knows that it will receive nothing. `Engine` has no destructor
of its own and its members die in reverse order: `Destroy` is the end of
`_capio_cl_entries` (`src/capiocl/engine.h:108`), `StopServer` the destructor of
`webapi_server` (line 105), which sets the flag and joins. A server that is in
`Engine::add` in between works on a destroyed table, which is undefined behaviour:
it goes on as if the table lived, or is `Lost` (a crash, a hang). The properties
about the table speak of the time it lives (`Alive`).

`workflow_name` is read through a reference without the lock: while it is being
assigned the comparison may have either outcome for the old and the new name.
Clients may send any datagram of the set at any time; a second `Send` of one is a
duplicate. Each socket that listens gets it or not.

### Persistence

`Engine` with one thread. The user configures an engine (`Edit`), saves it
(`dump`, with every order in which the hash maps may list paths and
applications) or a document is written by hand; `parse` makes a new engine and
turns the document into the sequence of calls that the parser makes
(`parse_calls`), which `Engine` then executes. Versions 1 and 1.1 cause the same
calls and differ only in `version`. Strings are not modelled: `"on_close:n"` is a
pair, `prefix / path` is the function `Under`, and `std::stoi` throws above
`MaxInt`. Of the schema, the rules on streaming items are modelled. A document's
rules are numbered (`Items`), so that "the last rule that ..." can be said
(`RulesOn`, `DepsRulesOn`, `CountRules`, `Latest`).

## 3. Runs

All with `CHECK_DEADLOCK FALSE`: threads and nodes may stop making calls.

| Run | Checks | Result |
|---|---|---|
| `MCEngineStorage` | `AllInMemory`, `StorageInv`, `CallsReturn` | hold |
| `MCEngineTable` | `NoLostRoles`, `LookupsPreserveSemantics`, `FrozenCount`, `CountFollowsChildren` | hold |
| `MCEngineMethods` | `TypeOK`, `CallsReturn` | hold |
| `DocEngineUnlocked` | `AllInMemory` with `getDirectoryFileCount` | violated |
| `MCCommitSafety` | `TypeOK`, `NoSpuriousCommit`, `CommitIsForGood`, `RegisterSpec` | hold |
| `MCCommitLearned` | `CommitIsLearned` | holds |
| `DocCommitDestructor` | `DestructorReturns` | violated |
| `MCHomeNode` | `NoInventedHome`, `FirstClaimStays`, `HomeIsFound` | hold |
| `MCApiServer` | `OnlyItsWorkflow`, `MergedAsSum`, `FirstStartWaits`, `ServerStops` | hold |
| `DocApiWakeup` | `StartReturns` | violated |
| `MCPersistence` | `LoadedAsWritten`, `SavedIsKept`, `PlainReloadsEqual`, `RefusedForAReason` | hold |
| `DocPersistRoundTrip` | `ReloadsEqual` | violated |

* **Storage.** Two threads, three calls each, on the empty path, `*` and `d/f`:
  enough for one thread to be anywhere inside `setAllStoreInMemory` while the
  other removes, re-registers, inserts or moves a path and an inheriting pattern
  exists or not.
* **Table.** Two threads, two calls each, on `/`, `*`, `d`, `d/*` and `d/f`: two
  levels of patterns, so that the longest match matters, and a directory whose
  count both a pattern and a file of it change; applications with and without
  white space; entries added ready-made to the directory and to the file, which
  count in their own way. The threads are symmetric. `LookupsPreserveSemantics` is
  stated for paths that are not patterns: a lookup of `d/*` itself does register a
  pattern. `CountFollowsChildren` is about registrations: a child that is removed
  and registered again is counted again, as in the code, and `/`, its own parent,
  counts itself in the step that registers it.
* **Methods.** Every method once per thread, with refused arguments and the empty
  path too; this run fires the actions the others leave out, the unlocked
  section among them.
* **Commit, safety.** Two nodes, three calls, three starts, both backends, two
  spellings of one file, failing sends and disks. The nodes are symmetric.
* **Commit, learning.** Node `n1` keeps asking; `n2` commits and may stop or
  crash. Multicast only, so that nothing but datagrams can carry the news.

* **Home nodes.** Two nodes, two spellings of one file, three calls, two starts
  (both nodes once, or one node twice), failing sends and disks. Three calls are
  two claims and a question, which is what torn reads and overlapping writes of a
  token need. Nodes and spellings are symmetric.
* **API server.** Two servers, one after the other or overlapping; one file, an
  entry for each of the two names the workflow takes, one for another workflow and
  one without its entry; at most two entries are applied and one datagram waits
  in a socket. `Main` makes one call, which may register the file before or
  between them; it may destroy the engine at any time between its calls. Either
  server's set-up may fail. `FirstStartWaits` is therefore what the handshake is
  worth: the server is through with its set-up, successful or not. `ServerStops`
  says that a server that is told to stop stops and whoever joins it goes on; only
  for the destruction of the engine it allows a server that is lost in the
  destroyed table. `OnlyItsWorkflow` follows a producer through inheritance: it was
  named by a call for the path, or for one the path may have copied it from.
  `MergedAsSum` is about the paths that `Main` leaves to what is received
  (`Undisturbed`): a path no pattern governs, that `Main` only asks about or
  registers, in a program without the two calls that change the whole table
  (`setAllStoreInMemory`, `setDirectoryFileCount`). Where children are registered
  too they are counted as well, so the counter and the kind of the entry are
  compared for paths without.
* **Persistence.** Three calls out of nine on a directory, a file in it, a relative
  path and a pattern; five documents by hand, among them one with two
  rules on a path, one with a count that `stoi` refuses and one of an unknown
  version; with and without a prefix and `store_only_in_memory`. Saved tables with
  up to three entries are enough for a pattern, a path that matches it and a path
  that does not. Globs are not transitive (`a?` matches `a*`, which matches
  `abc`), so what a path can have inherited is bounded by the sets that contain
  the patterns of all their members (`Closed`): an application is given to all
  paths that match what the document names, and to none outside such a set.
  `LoadedAsWritten` says rule by rule what decides a setting, where that is not the
  last rule on the path: an empty list of dependencies does not clear an earlier
  one, a rule without a number of files leaves an earlier number, and a rule with
  one makes directories of everything loaded before it. `PlainReloadsEqual` is the
  equality of the tests for tables whose entries the format can express, directories
  and their numbers of files included, unless a file stands beside a directory with
  a number of files; `RefusedForAReason` says which saved tables the parser refuses.
  About 690,000 states, two and a half minutes.

The violation runs each show one disagreement between the code and what its
documentation or tests expect; `PROJECT.json` quotes the lines.
`DocEngineUnlocked`: the stale entry built without the lock is inserted after
`setAllStoreInMemory` is done. `DocCommitDestructor`: the other instances'
questions keep the socket of a stopping instance readable, which in real time
needs a datagram in each window of 250 ms. `DocApiWakeup`: flag and notification
fall between the constructor's test and its wait. `DocPersistRoundTrip`
(`ReloadsEqual`, `PlainReloadsEqual` without its restriction): a file whose rule is
listed before that of a directory with a number of files comes back as a directory.

### Fairness

`Engine`: `WF` on the step of a thread inside a call (it is scheduled, and
`std::shared_mutex` admits it); none on making calls. The number of calls is
bounded, so that no thread can be kept retrying by another that removes its path
for ever, which the code would allow. `CommitMonitor`: `WF` on the listener, on
joining, on the steps of a call, and on the reading of each datagram (a socket
is a queue). `PollingSpec`, for learning only, adds that a poller keeps polling
and, as `SF`, that of infinitely many questions, and of infinitely many answers,
one gets through; without this UDP guarantees nothing. `ApiServer`: `WF` on the
steps of each server's thread and on those of `Main` inside a constructor,
destructor or call; none on sending, starting, stopping, or on spurious wakeups
(the standard allows them and promises none) or on a server getting lost.
`ServerStops` needs nothing from
the network: the loop looks at its flag after every datagram and every timeout.
`HomeNode` and `Persistence` state safety only.

## 4. Proofs

Each theorem holds for every value of the constants that satisfies the
assumptions of its module, which every run evaluates:

* `Engine`: a finite set of paths, any threads, applications, patterns and calls
  (`PathAssumption`, `ConstantsAssumption`); calls name the application or path
  their method needs (`CallsAssumption`); only the empty
  path has length 0 (`LengthAssumption`). `Matches` is any relation on paths.
* `CommitMonitor`, `HomeNode`: any nodes, paths and bounds; in `HomeNode` every
  path has a first word, and the values that stand for "no name", "empty" and
  "garbage" are not nodes (`MonitorAssumption`, `HomeAssumption`).
* `ApiServer`: the engine's, with the servers and `Main` as its threads and their
  calls as its calls (`ApiAssumption`, `UsesAssumption`).
* `Persistence`: the engine's, one thread, any documents the schema can describe,
  any prefixes, `Under` any function to paths (`PersistenceAssumption`).

### Engine

* `EngineProofs!TypeCorrect`: `Spec => []TypeOK`, unlocked section included.
  `TypeOK` is inductive as it stands because `ValidFrame` says that a thread
  inside a method works on a call that is `WellFormed` and was not refused (so
  `Head` of an argument list is defined, and paths are not empty where the code
  checked it). `CallsOnly`, that threads are inside methods of `Calls` only, is an
  invariant of its own, for the theorems that restrict the calls. One lemma
  per group of actions; lemmas about `Drafts`, `compute_directory_entry_count`,
  `_newFile` and `Listings` carry the types.
* `EngineStorageProofs!EverythingInMemory`: if no call is
  `getDirectoryFileCount` (`Locked`), then `Spec => []AllInMemory`.
  `AllInMemory` is not inductive: it says nothing before
  `setAllStoreInMemory` returns. `StorageInv` adds that from the flag on no step
  creates a misplaced path (a registered path on the file system that nobody put
  there) and that the walk still has every misplaced one ahead of it; the empty
  path, which the walk skips, can be registered only by `addEntry` and is never
  misplaced. That `StorageInv` always holds is itself the theorem
  `StorageWalkIsComplete`. `DocEngineUnlocked` shows that the hypothesis is
  needed.
* `EngineStepProofs`: the four action properties of the table. The forty
  actions are first sorted by what they do to the table (`TableStep`): nothing,
  assign listed fields of one registered entry, remove or overwrite or merge one,
  register a path by `_newFile`, or one of the unlocked reads and writes. Each
  theorem then treats a handful of kinds instead of forty actions.
  * `RolesAreNotLost`: `Spec => NoLostRoles`, unlocked section included. An
    entry's lists only grow except where a `remove` or an `add` ends, and no
    registration, the unlocked one included, replaces an entry that is there.
  * `FrozenCountsStay`, `ChildrenAreCountedOnce`: `FrozenCount` and
    `CountFollowsChildren`, for calls that are `Locked`. The counter is read and
    written by `compute_directory_entry_count` in one section with the insertion
    of the child, and only when the child was not there. Without the lock the
    read and the write are two steps and both claims are out of the argument's
    reach: a count fixed in between is overwritten.
  * `LookupsAreHarmless`: `Spec => LookupsPreserveSemantics`. The draft is taken
    from a longest match in the very section that inserts it, so the new entry
    says what the match said, and a path that is no pattern governs no other.

### Monitor

* `CommitMonitorProofs!MonitorTypeCorrect` and `!NothingInvented`:
  `Spec => []NoSpuriousCommit`. It needs `CommitInv`, which adds that a
  `setCommitted` in progress works on a requested path and that only such a call
  is at the places where a commit is announced, recorded or given its token.
  The listener's answers are then sound because `committed` is.
* `CommitRegisterProofs!MonitorIsRegister`: `Spec => RegisterSpec`, the
  refinement, and `!CommitStays`: `Spec => CommitIsForGood`. Beside `CommitInv`
  both need `RegisterInv`: an acknowledged token exists; a call that must say
  "yes" is a question whose token exists (and then the walk reaches the file
  system backend before it ends) or whose path the instance has recorded (and
  then the first look finds it); tokens and records are never taken back while
  the instance lives. Each action of `CommitMonitor` is shown to be one action of
  the register or to leave its variables alone.
* `HomeNodeProofs`: `NobodyIsInvented` (`Spec => []NoInventedHome`),
  `TheFirstClaimStays` and `TheHomeIsFound` (the action properties
  `FirstClaimStays` and `HomeIsFound`), all from one inductive invariant,
  `HomeInv`. `NoInventedHome` alone is not inductive: a `setHomeNode` in progress
  must have been claimed by its node (`CallOK`), the announcement the listener is
  in the middle of assigning must name somebody who claimed the path (`MapsOK`), as
  must those still in a socket (`InboxOK`), and a token once settled stays there
  (`DiskOK`). The
  other two rest on the same: a call that began with the token on the disk still
  finds it there when its walk gets to the file system, so a claim stops at its
  check and a question has something to read.

### API server

* `ApiServerProofs!ServerUsesEngine`: `SSpec => Init /\ [][Next]_vars`. The
  engine with its servers, `Main` and the network implements the engine alone:
  a step of the composition is a step of `Engine` or leaves it unchanged. What
  is proved of every step of the engine then holds of it in this company, as
  `ServerLosesNoRoles` (`SSpec => NoLostRoles`) and the type invariant do.
* `!OnlyItsWorkflowIsHeard`: `SSpec => []OnlyItsWorkflow`. Not inductive: what
  reaches the table has been in a frame before. `OriginInv` adds that every call
  in progress is authorised (by the name at the moment the datagram was compared,
  old or new while it is being written; names once given stay in `named`), and
  that a draft of the unlocked `_newFile` holds only producers it could have
  copied.
* `!TheFirstStartWaits`: `SSpec => []FirstStartWaits`. `BootInv` adds that
  the flag is up only if some server has set it, that `Main` gets past its test
  only with the flag up, and that the server the engine has, and the one under
  construction, have been started and not been told to stop.

* `!ReceivedEntriesAddUp`: `SSpec => []MergedAsSum`. The totals are a recursive
  function over the requests applied so far, so the proof needs what one more
  request adds to the total (an induction on the length of the history) and an
  invariant, `MergeInv`: the entry of an undisturbed path, the default one while
  it is not registered, adds up to what was applied so far; a path that is not
  registered had nothing applied; a registration of `Main` that is about to insert
  the path holds the default entry; and the table is not kept in memory as a whole.

### Saving and loading

* `PersistenceProofs!DocumentsAreHeeded`: `PSpec => []LoadedAsWritten`. First, what
  a document calls for: `DocumentCalls` says of the list `parse_calls` (nested
  loops, flattened) which calls are in it and, for each aspect of a path (its commit
  rule, its kind, its number of files, ...), which call is the last that has a part
  in it, by inductions on the lengths of the lists. Second, what a call does,
  through all its sections, retries and walks: registers paths (`Carries`), and in
  its last section sets what it is about (`Finishes`). Third, `LoadInv`: for some
  `k`, the first `k` calls of the list are done, the call in progress is number
  `k + 1` and the rest is still ahead; whatever of the first `k` was not overruled
  among them is so in the table (`Heeded`; a `setFile` may be overruled by any
  `setDirectoryFileCount` and by a path in it, `Rivals` and `Excused`); every
  application in the table comes from one of them, along patterns (`Originates`);
  and a `setAllStoreInMemory` on its way has every path that is not in memory ahead
  of it (`MovingAll`). The
  difficult cases are those that a later registration might spoil: `_newFile` never
  replaces an entry, and copies only into the path it registers.
* `!SavedTablesComeBack`: `PSpec => []SavedIsKept`. `SaveInv` says that the
  document of a table that was saved `Tells` the table: its lists hold the paths
  with the flag, every application of an entry has an item that names the path,
  every produced path has its streaming rule, and nothing else is in it. That
  holds for every order of the listings and of the applications (finitely many,
  because paths are). With it `LoadedAsWritten`, read for no prefix, gives
  `SavedIsKept`.

### Only model-checked

The liveness properties (`CallsReturn`, `CommitIsLearned`, `DestructorReturns`,
`ServerStops`, `StartReturns`) rest on fairness and are out of the prover's
reach. `RefusedForAReason` is checked on the tables of the instance; it follows
from `SaveInv` and the parser's conditions, but is not among the theorems.
`PlainReloadsEqual` is what the repository's tests compare, on tables of
the instance: as stated it takes for granted what the instance gives (lists
without repetitions, names without white space), so it is no theorem for all
constants; `SavedIsKept` is.

Inductions over data (the length of a list of calls, of a history of requests)
are proved from `SetInduction` in `EngineProofs`, which states induction for sets
and follows from the well-foundedness of `<` on the natural numbers.

## 5. Seeded faults

Definitions commented "Seeded fault" are wrong versions of the definition that
follows them (a guard dropped, an order swapped). They are used by no
specification; put in place of the right one, each makes a property fail.

## 6. Not modelled, and plan

* Configurations without the multicast backend, and the second pair of backends
  that loading a version 1 document registers (`Engine(true)` and then
  `useDefaultConfiguration`; the TODO at `src/src/Engine.cpp:933`): the monitors'
  `Interfaces` is multicast, alone or followed by the file system.
* `Configuration`: a key-value map filled from a TOML file before any thread
  starts; a document's `configuration` member is left out with it.
* Output (`printer.h`, `Engine::print`, `toJson`), the Python wrappers, TOML and
  JSON parsing and schema validation as such (third-party code),
  `MonitorInterface`'s base methods (they only throw).
* The data race on the `unordered_map` in `getDirectoryFileCount` beyond the
  interleavings of section 2.

Next: `PlainReloadsEqual` as a theorem, for tables whose lists have no repetitions
and hold names as they are parsed (the order of the applications has to be followed
through the load, where `LoadedAsWritten` needs only which they are); the counts of
the unlocked `_newFile` with a weaker claim than `CountFollowsChildren`; the
file-system-only configuration; the engine as one atomic map that its methods
refine.

## 7. Observations

What the models show of single methods, or leave to a unit test:

* `isFile` on a path it has to register answers from `permanent`
  (`src/src/Engine.cpp:573`), and `isDirectory` with it.
* `setFileDeps`, and `addFileDependency` on a registered path, leave the commit
  rule alone (`engine.h:208`, `engine.h:296` say it becomes `on_file`).
* `setDirectoryFileCount` turns every registered path into a directory
  (`src/src/Engine.cpp:608`), which on loading depends on the order of the rules
  (`DocPersistRoundTrip`).
* `setFileDeps` with an empty list returns without clearing the old one
  (`src/src/Engine.cpp:720`), and a rule without `n_files` leaves an earlier number:
  a later rule of a document cannot take either back.
* `/` is its own parent and counts itself as a child when it is registered.
* An API server whose socket could not be set up is reported as started
  (`src/src/api.cpp:28-55`).
* An engine's table is destroyed before its API server is stopped
  (`src/capiocl/engine.h:105-108`): a request that is being added then works on a
  destroyed map.
* `add(path, entry)` after `setAllStoreInMemory` keeps the entry on the file
  system (`src/src/Engine.cpp:261`), the API server's entries included.
* Home nodes of paths with a blank are announced in a form the listeners read as
  another path and node (`src/src/monitors/Multicast.cpp:182`). `NoInventedHome`
  is stated for the paths this does not hit (`Plain`).
* Two crossing `setHomeNode` announcements can leave each node believing in the
  other, so that nobody answers a question (`Multicast.cpp:208`); a crash between
  opening and writing a home node token leaves an empty one that no later claim
  replaces (`FileSystem.cpp:28`).
* A second API server in a process is not waited for, because `thread_ready` stays
  true; while one server replaces another both apply a datagram.
* Paths of the storage section are not resolved against the prefix, unlike all
  others. Saving drops the rules of paths without a producer, and writes
  `on_n_files` for a plain file, which the schema refuses when it is loaded.
