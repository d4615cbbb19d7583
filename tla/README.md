# config-manager: a verification project

TLA+ models of the parts of config-manager whose correctness is hard to test:
replacing configuration files, keeping checkpoints across firmware upgrades and
downgrades, transactional migration and repair, the node arena under the
configuration model, the JSON and XML backends, and the library's pure algorithms.
TLC checks small instances; TLAPS proves the main safety properties and one refinement
for every value of the constants.

Source paths below are relative to the repository root.

## 1. The system

config-manager is a C++17 library. An application registers configuration
*versions* with default factories and *migrations* between neighbouring
versions, loads a file through a backend, and calls `synchronize` to bring the
configuration to the version its code supports. An optional checkpoint
component keeps older files so that a firmware downgrade can be undone.

| Component | State | Operations | Interacts with |
|---|---|---|---|
| `VersionCatalog` (`src/version_catalog.cpp`) | sorted versions with factories | registerVersion, nextVersion, latestVersion, createDefault | read by registry validation, engine, runtime |
| `MigrationRegistry` (`src/migration_registry.cpp`) | edges with callables, in a deque | registerMigration, findMigration, validate | engine calls the callables; a callable may register more |
| `MigrationEngine` (`src/migration_engine.cpp`) | none between calls | migrate: the step loop | mutates the configuration it is given |
| `ConfigRuntime` (`src/config_runtime.cpp`) | catalog and registry, validated | create, inspect, synchronize, createDefault; repair inside | clones the caller's configuration, runs the engine, fills defaults, commits once |
| `ConfigModel` (`src/config_model.cpp`) | an arena and its root slot | fromValue, set, remove, getValue, nodeAt, clone | used by everything above |
| `NodeArena` (`src/node_arena.hpp`) | slots with generations, free list | allocate, release, matches | private to ConfigModel and ConfigNode |
| `ConfigNode` (`src/config_node.cpp`) | arena pointer, slot, generation | child, at, keys, members, get | handle kept by application code across writes |
| `ConfigValue`, `ConfigPath` | value trees, parsed paths | set, push; parse | arguments of ConfigModel |
| JSON, XML backends (`backends/`) | parser state during a load | load, save | turn bytes into a configuration under load limits |
| Checkpoint store (`checkpoint/src/checkpoint_store.cpp`) | the canonical file, a directory of checkpoint files, a process-wide sequence number | cpCapture, cpCommit, cpPrepareRestore, cpPrune | files; backend; `ConfigRuntime::synchronize` |

What is hard:

* *Files.* A replacement is eight system calls; each may fail, accept part of
  the data or be the last one before the process dies, while others read.
* *Startup flow.* Capture, synchronize, commit and prune can be cut short
  between any two steps, repeatedly, with firmware going up and down between.
  Time stamps and embedded versions, not names, decide what survives.
* *Callbacks.* Migrations and factories are application code: they may leave a
  half-changed tree and return an error, throw, run out of memory, or register
  more versions and edges while the engine is in its loop.
* *Allocation failure.* A path write allocates many times and promises to be
  all or nothing.
* *Event-driven parsing.* The JSON backend decides event by event, with a flag
  that one callback sets and the next clears, what only the whole document tells.
* *Two libraries for XML.* pugixml is more permissive than the mapping in what it
  parses, drops text unless told not to, and reports lack of memory by return
  values; the mapping must make up for each.
* *Boundaries.* Scalars at the limits of their types, index overflow, ill-formed
  UTF-8, a member index that must survive a failed insertion, paths that name one
  place in two ways.
* *Handles.* Slots are reused at once; a stale handle has to be recognised.

`PROJECT.json` lists these hazards line by line, with the properties that
would catch each of them, and notes for those nothing covers.

## 2. Modules

| Module | What it is |
|---|---|
| `AtomicFile` | abstract specification: a file is replaced by a whole document in one step or not at all |
| `ReplaceFile` | `writeTemporary` and `replaceFile` (POSIX and Windows), readers, crash and restart; refines `AtomicFile` |
| `ReplaceFileProofs` | safety and refinement proofs |
| `CheckpointStore` | the checkpoint operations in the startup flow of `examples/05_firmware_rollback.cpp` |
| `CheckpointStoreProofs` | proofs about capture, exact rollback, restore, prune and rollback under equal times |
| `FiniteOrders` | lemmas on finite ordered sets: ranks, first elements, minima and maxima |
| `ConfigTree` | configuration trees as functions from paths to values; repair in closed form |
| `ConfigRuntime` | catalog, registry, engine and runtime |
| `ConfigRuntimeProofs` | proofs about synchronize and migrate |
| `FillMissing` | the walk of `fillMissing` over the keys of the defaults |
| `ConfigPath` | the path parser, and the grammar of its header |
| `ScalarConversion` | `convertScalar`, `ConfigValue::of` and `ConfigModel::set<T>` on exact numbers |
| `XmlNames` | the UTF-8 decoder and the name and text checks of the XML backend |
| `ObjectMembers` | `ConfigValue::set`: the member list and its index |
| `CheckpointOptions` | `validateOptions` over a file system with links |
| `Algorithms` | calls the operators of the six modules above and states what they promise |
| `AlgorithmsProofs` | proofs about the member index and the repair walk |
| `ScalarProofs` | proofs about scalar conversion |
| `TextProofs` | proofs about the UTF-8 decoder, names, texts and the path parser |
| `NodeArena` | the arena's operations as operators |
| `ValueTree` | abstract specification of a configuration model: a value that writes and removals change |
| `ConfigModel` | the model on the arena, step by step, with memory running out, and a handle |
| `ModelValue` | the value a model stands for, and the refinement of `ValueTree` |
| `ConfigModelProofs` | proofs about the arena, stale handles and replacement |
| `JsonInterface` | the JSON backend: `load` callback by callback, `save`, and loading what was saved |
| `XmlInterface` | the XML backend: `load` step by step, `save` part by part, and loading what was saved |
| `MC...` | the instances TLC runs |

### ReplaceFile

One writer (the library supports one), any number of readers. Directory
entries map names to inodes, so a reader that has opened a file keeps it
through a rename. Each system call is an action: `Stat`, `OpenNew` /
`OpenExists` (`O_EXCL`), `Write` of any number of bytes, `Fchmod`, `Close`,
`Rename`; the `...Fail` actions are their errors, `RemoveTemporary` the clean-up,
which may fail too. `EINTR` is a stuttering step. A temporary's name is the
clock reading and the sequence number; `Restart` puts the sequence number back
to 0 and the clock reading is arbitrary, so names collide with what dead
processes left. `Begin` carries the difference between the two callers:
cpCommit takes the permissions of the destination, cpCapture those of the
checkpoint it replaces or else of the canonical file.
`Begin` abbreviates what both do before: neither changes a file.

`platform` is the build. On Windows, when the permission source exists, the
temporary begins as a copy of it (`CopySource`, `CopyDone`), is truncated
(`Truncate`) and then written; without a source it is created empty. The
mode comes with the copy, there is no `Fchmod`, and `PartialIsPrivate` is about
POSIX only. `MoveFileExW` is one step like `rename`; where it fails because a reader holds
the file, that is the failing outcome of the step.

### CheckpointStore

A document is its embedded version and a tag that every edit renews. The
directory maps the names of checkpoint files, one per version, and of one
temporary, to a document (or `Corrupt`) and a modification time. `Boot` loads the canonical
file with some firmware and inspects it; an upgrade captures, synchronizes,
commits and prunes, a downgrade prepares a restore and commits it. `Stop`, at any
point, stands for a crash and for every error that changes no file: the
exceptions and errors the cp functions turn into a `Result`, on which the
application refuses to start. Files that fail to load or to stat this once are
the subsets `readable` and `verified`; candidates whose synchronization fails are
those outside `good`. cpPrune removes file by file in the order of the code's
vector. `Damage` and `Copy` are what an operator may do to the directory,
once per behaviour, between runs.

cpCommit is one step here, and cpCapture two, which is what `ReplaceFile` proves
of them. A capture's modification time is any reading: later than the last one,
the same, or earlier. `timing` is history, the worst that happened so far:
`"strict"` while all readings increased, `"coarse"` after a tie, `"back"` once
the clock was set back. The properties say under which of them they hold.
A synchronized document keeps its tag: migrations preserve which user state a
document came from.

`undo` is history: the document the last committed upgrade replaced.

### ConfigRuntime

`catalog` and `edges` grow by registration until `Create` validates and seals
them inside a runtime. Unsealed, `Migrate` models the direct use of
`MigrationEngine`, where callbacks may register more in the middle of the loop.
Sealed, `Synchronize` clones, runs the same loop on the clone, repairs and
commits. A callback leaves any tree and succeeds, fails, or throws `bad_alloc`.
The configuration the loop works on is `config`: the clone, or the caller's own.
The engine's local `current` always equals `config.version` at the head of the
loop, so the model has one variable for both. `start`, `known` and `visited` are
history: the version and the catalog a call began with and the versions it has
reached. A call that returns keeps them, so that the properties also speak of
what a direct `migrate` leaves in the caller's configuration when a callback failed,
threw or ran out of memory (`VersionIsLastStep`), and of direct walks whose
callbacks register more (`WalkSkipsNothing`: no version that was known at the
beginning is skipped). `Forget` clears them when the application replaces its
configuration. Trees are functions from paths to leaves or `Obj`; arrays and scalars
are leaves, since repair treats arrays as atomic.

### Algorithms

These functions keep no state between calls, so the state machine is a caller: `Init`
chooses an operation and its arguments, and the invariants compare what it returns with
a definition that does not follow the code: the grammar read off the text as a
whole, the Unicode standard's table of well-formed byte sequences, the set of values of a
type. What has a loop takes a step per round (`ParsePath`: one key, one index or what
follows them; `CheckXml`: one character; `Repair`: one key of the defaults), what has none is
one step. `SetKey` builds an object by any sequence of `set` calls, each of which may
run out of memory at the index or at the member.

* `FillMissing`: `fillMissing` visits keys in order and writes into the tree it also
  reads. Members have no order in the model, so the keys still to visit, of the call at work
  and of the calls around it, are a set of which any is next. `RepairIsFill` says the walk
  computes `Fill`, which justifies the closed form the runtime model and its proofs use.
* `ScalarConversion`: numbers are exact multiples of a fraction; a format is a
  finite set with a precision and exponents, and rounding is to nearest, ties to
  even. The instance keeps the relations the code depends on: the largest Int is not a
  Double and rounds up out of Int's range, a float holds fewer integers than a double, and
  fractions, subnormals, infinities, NaN and the negative zero exist
  (`as<int>` of a negative zero is 0: no integer is negative zero).
* `CheckpointOptions`: a file system is the places that exist and its symbolic
  links. `WeaklyCanonical` follows libstdc++: the existing part is resolved, the rest
  is appended and normalised as text.

### NodeArena and ConfigModel

`NodeArena` has `Allocate`, `Release` and `Matches` as operators on a record. A slot's
`life` is history: the true number of releases, of which `gen` is the value modulo
`GenModulus`.

In `ConfigModel` a call is a sequence of steps and its local variables are variables:

| Variable | In the code |
|---|---|
| `at`, `index` | the position of `planWrite` or `resolve`; then `WritePlan` |
| `frames` | the activations of `buildFromValue`, innermost first: the value, the node its guard owns, the loop's position |
| `chain`, `level` | `applyWrite`'s detached subtree and its `j`; `built` of `assignContents` |
| `todo` | the slots that `freeSubtree`, called recursively, is still to free, in order |
| `aside` | the old model, while `fromValue` makes another one |

`Set`, `Remove`, `FromValue` and `NodeAt` begin a call; `PlanStep` and `ResolveStep` are the
rounds of their loops; `BuildFromValue` and `BuildChild` enter an activation, `LinkChild`
leaves one; `BeginChain`, `ChainStep` and `Join` are `applyWrite`; `Assign`, `FreeStep` and
`Splice` are `assignContents`; `Unlink` begins the removal. Every request for memory may
throw: `Throw` turns what the `SubtreeGuard`s own into `todo`, innermost first, and `FreeStep`
and `FreeDone` unwind. What needs no memory cannot fail: `FreeStep` and `Splice`, and an
`Allocate` that finds a dead slot. Only one call is open at a time, since a model is not
shared between threads; the interesting interleaving is the one handle, kept across calls.

`ModelValue` maps the arena to the value that `buildValue` reads off it, and this, with
the open call and the result, to `ValueTree`, where a call begins with its path and value and
is answered, and its write done, in one step that depends on these and on no others. Only for a
call that is refused at once, which changes nothing, are its arguments not recorded. The step happens when the chain is
joined, the node unlinked, or the replacement complete (`Assign`): from there on nothing
can fail, and `Seen` is the arena as it will be. `ModelValue` is a module of its own because
`BuildValue` recurses over the tree.

### JsonInterface

nlohmann's parser is external: `Events` turns a document into the sequence of
callbacks it causes, and a malformed text is a prefix of such a sequence followed
by `parse_error`. Each callback is an operator on the `ValueBuilder` record, named
for the C++ one, and one action, `On`, that applies it and stops the load if it
sets an error. Null, booleans and strings take the same way through the builder and
are one kind, `plain`; integers keep the boundaries that matter (`MaxVersion`,
`MaxInt`, and `overflow` for literals that do not fit 64 bits). A text beyond
`maxInputBytes`, a stream without a buffer and one that throws are `unreadable`.
`std::bad_alloc` may come at any point of a load or a save.

The properties compare the outcome with a reference that looks at the whole
document (`Acceptable`, `ValueOf`). Since a `JsonInterface` keeps nothing between
calls, `Drop` returns to the initial state.

### XmlInterface

pugixml is external: `Keep` is what its parser keeps of a well-formed text under the
flags the code passes, `Indented` and `Written` what a later parse sees of the text it
writes. `load` is four steps (`ReadBounded`, `ParseBuffer`, `ConvertDocument`,
`FromValue`), with the code's recursion as operators of the same names. A text is a
sequence of pieces, so that blanks, carriage returns, digits and literals such as
`true` and `inf` can be told apart. Which names are valid elements and which are
addressable are constants; `XmlNames` has the predicates.

`save` makes the document part by part (element, attribute, text). The argument of
`Save` is the part for which pugixml cannot allocate, and `CheckAlloc` what the code
makes of that. The C++ library's own `bad_alloc` and a failing stream are separate outcomes.

## 3. Runs

| Run | Distinct states | What it shows |
|---|---|---|
| `replace_file` | 1.4 M | POSIX with a reader: refinement of `AtomicFile`; whole documents at the destination and in readers; partial files private; no leaked temporaries |
| `replace_file_builds` | 210 k | POSIX and Windows: refinement, a call returns or the process dies |
| `checkpoint_store` | 944 k | rollback of the last upgrade, exact with increasing times and compatible with tied ones; canonical file and memory agree; restore order; prune at every point; upgrades are captured |
| `config_runtime` | 115 k | transactionality, completeness, commits only when something changed, the walk through the versions and what a failed one leaves, repair only adds, every call returns |
| `algorithms` | 810 k | path parser, scalar conversion, UTF-8 and XML names, `fillMissing`, option paths and the member index against their references |
| `config_model` | 130 k | writes are all or nothing; at every step of a call the arena is trees with known owners and one free list |
| `config_model_handles` | 248 k | handles across writes, slot reuse and a wrapping counter |
| `config_model_wrap` | stops at the counterexample | a wrapped generation makes a stale handle valid |
| `json_interface` | 90 k | a document loads exactly when it is valid as a whole; depth and node limits hold during the parse; save and load round trip |
| `xml_interface` | 56 k | the same for XML; every loaded document can be saved; a failed allocation in `save` is never success |
| `xml_out_of_memory` | stops at the counterexample | pugixml's out-of-memory status becomes `ParseError` in `load` |
| `checkpoint_options` | stops at the counterexample | `cpCreate` accepts a canonical file inside the checkpoint directory |

### Bounds

* `ReplaceFile.cfg`: documents of two and of one byte (so that writes can be
  short and a mixture is recognisable), two modes, one clock reading (the worst
  case for collisions), two attempts per call (100 in the code), three names
  per process, four inodes (destination, a temporary left behind, the one being
  written, one held by a reader), one reader. Inodes are interchangeable: symmetry.
  `ReplaceFileBuilds.cfg` has both builds, two names and no reader, so no need for the
  inode a reader holds.
* `CheckpointStore.cfg`: three versions, so that an upgrade can be abandoned between
  two others; retention 2 (the default); clock readings up to 3, in any order; one
  edit, which is enough to tell the document an upgrade replaced from a later one.
* `ConfigRuntime.cfg`: three versions, adjacent and skipping edges, trees over
  two paths, one below the other, with two leaf values, defaults that differ between
  versions, one of them an object where trees may hold a leaf. `RepairIsFill` covers wider trees.
* `Algorithms.cfg`: path texts of up to six bytes over a letter, two digits and the
  three reserved bytes, with a largest index of 10, so that two digits fit and
  overflow; integers of 6 and 3 bits, three formats of growing precision; texts of up
  to four bytes over bytes that begin, continue and break sequences of each length at the
  boundaries of the decoder's checks; trees over five paths up to depth three; three keys;
  file systems with and without the directories, with links into and out of them, and paths
  with dots, links, missing parts and trailing separators.
* `ConfigModel*.cfg`: values and paths with objects, arrays, appends, past-the-end
  indices, type changes, unaddressable keys and excess depth. Memory may run out at every
  request; there is some for five slots (`MaxNodes`): the root, the nodes of the longest
  path and one more, so that writes meet full, empty and partly free arenas. No call begins
  after `MaxReleases` releases: 2 for the refinement, where the writes matter; 3 for the
  handles, where a slot must be freed, reused and freed again. `GenModulus` is 8 in the first, where it
  does not wrap, and 2 in the others, where it does: `StaleIsDetected` is checked on both
  sides of its condition.
* `JsonInterface.cfg`: every root of up to two members over 80 members (each key and
  the version key with every kind of scalar at its boundary and nestings up to one
  level too deep, duplicates inside and out), roots of three and four over six, which
  reach and exceed the node limit of 4; two documents cut after each of their events;
  80 configurations of the application's own. Depth limit 2: an accepted document has
  a root, an inner container and a leaf. The callbacks look at the top frame, the
  stack's height and a flag only, so deeper documents repeat what these do.
* `XmlInterface.cfg`: the same limits; elements with every type attribute, none, an
  unknown or a second one, over texts with blanks, carriage returns, boundary
  numbers and literals; roots with every combination of carriers; text and elements beside the
  root; `MaxParts` 9 is the number of parts of the largest configuration that is made or
  loaded, so each part of every saved configuration fails.

### Fairness

`ReplaceFile` and `ConfigRuntime`, the two with a loop whose end depends on others (taken
names; callbacks that register versions), have a `FairSpec` with weak fairness of the step relation of the one thread that executes the call: nothing
in these functions blocks on another thread, so a call in progress goes on.
For `ConfigRuntime` this includes that callbacks and factories return, which the
library cannot guarantee and the application must. There is no fairness for
restarts, readers, edits or new calls. Nor is any individual step fair: when
`write` could make progress or fail, either may be taken.

### Where the code and its comments disagree

`src/node_arena.hpp:34-36` says that freeing a slot makes *any* handle with the
old generation detectably stale. The generation has 32 bits, and the free list
returns the slot released last, so 2^32 writes that each free and reuse one slot
bring an old generation back. `config_model_wrap` shows it with a modulus of 2
(`StaleIsAlwaysDetected`); `config_model_handles`, and the proof for every modulus, that
nothing else makes a stale handle valid (`StaleIsDetected`).

`backends/xml/src/xml_interface.cpp:682` and `docs/limitations.md:69` say that
memory exhaustion propagates as `std::bad_alloc`. pugixml reports it by
`status_out_of_memory`, which line 593 turns into `ParseError` like any other status
(`xml_out_of_memory`). `save` does convert pugixml's failures; `SaveMemory` holds.

`docs/DetailedDesign.md:962` says that `cpCreate` rejects a canonical file inside
the checkpoint directory. It compares two `weakly_canonical` paths, which differ for one
place when a relative canonical path has no existing part (`config.json` with the
directory `.`), or when the directory does not exist yet and is given with a trailing
separator (`checkpoint_options`). `CreateIsExact` shows that the check is exact when
the directory exists and the canonical path is absolute or begins with an existing name.

`backends/json/src/json_interface.cpp:257-258` says that at most `kMaxTreeDepth`
containers are open and uncounted at any time. The root is at depth 0 and a container at
depth `kMaxTreeDepth` may open, so there can be one more; `BuilderIsBounded` states
the true bound. The code is right, the comment is one too low.

`backends/xml/include/configmanager/backends/xml_interface.hpp:33` speaks of a
conservative ASCII subset for element names; the code accepts the whole Name
production without the colon, as `XmlNames` has it.

## 4. Proofs

All proofs are for arbitrary constants under the named assumptions of the modules; no
bound of a configuration is used. `ReplaceAssumption`, `StoreAssumption`,
`SentinelAssumption` and `RuntimeAssumption` say what sets the constants belong to and that
sentinels differ from proper values; so does `ModelAssumption`, with the two facts that the
types of the code give: a path has at least one segment, and only containers have
members or elements. `GenAssumption`: the generation counter has a positive modulus. `TreeAssumption`: paths are nonempty sequences of keys
and every prefix of one is one. `NumberAssumption`: numbers are counted in a
unit that is a power of two. `ScalarAssumption`: a float is a double and a double a long
double, Int's limits and that of its unsigned sibling are values of each format, and the largest
Int is not a double; the code relies on each, and 64-bit integers with IEEE formats have
them. `WidthAssumption`: the narrow integers are no wider than Int. `BytesAssumption`:
bytes are 0 to 255. TLC evaluates all of them for the instances.

**ReplaceFileProofs.** `Safety`: type correctness, `WholeDocuments`,
`PartialIsPrivate`, `NoLeak`. `WholeDocuments` is not inductive: rename makes a
temporary the destination, so one must know that the temporary being renamed
is complete. `IndInv` adds what the locals hold at each program
counter (`LocalsInv`), that no two names share an inode (`NamesInv`), that the
open temporary's data is the prefix of `bytes` of length `offset` and complete from
`close` on (`TempInv`), that it has the final mode from then on (`ModeInv`), and that
a reader's buffer is a prefix of a whole document that no write touches any more
(`ReaderInv`). The Windows build goes through the same invariant: the temporary is
open, and its data a prefix of `bytes`, only from the truncation on. `Refinement`: with `IndInv`, each step is a step of
`AtomicFile` or leaves its variables unchanged; only `Rename` maps to `Replace`.

**CheckpointStoreProofs.** `TypeCorrect` and `UpgradesCaptured` rest on `StructInv`:
no file is newer than the clock, what `config` is at each program counter, and that
from a capture's rename to the commit the checkpoint holds the canonical document.
`LastUpgradeUndoable` assumes `Retention >= 2`; `RollbackIsExact` itself speaks of
behaviours whose capture times increased so far. Its invariant
says that, untouched and while `timing` is strict, each checkpoint's name is its version (`NamesInv`), that capture
times are distinct and where the newest is (`FreshInv`), and that `undo`'s document
is in its checkpoint with no newer file except possibly one of a
higher version, the one just captured (`UndoInv`); `PruneSparesUndo` is the heart: a
file with at most one newer version is not among the removals. With retention 1
the theorem fails: an upgrade that was captured and not committed, followed
by a normal startup, prunes the older checkpoint. The default of 2 is enough.

Restore and prune, in the same module: `RestoresBest` and `PruneKeeps` hold for any directory and any
clock. For the latter `ScanInv` says, while files are being removed, that the scan has only
files that were verified, that those not chosen are untouched and those already
passed are gone; the rest is about the order by time and name: `FiniteOrders` shows that
the files of the first ranks are as many as the retention or all there are.
`RollbackStaysAvailable` needs `Retention >= 2` and a clock that was not set back. With
equal times `UndoInv` is false: the file that survives may be of another old version than
the one the upgrade replaced. `AvailInv` asks for less, some checkpoint the older firmware can use that
is at least as late as every one it cannot use except the current version's;
`LatestInv` says that a capture is the latest file until its commit.

**ConfigRuntimeProofs.** `Safety`, `Transactional` and `OnlyAdds`. The invariant
adds when locals are in scope (`ScopeInv`), that a sealed pair is adjacent and complete
(`SealInv`), where the loop is relative to catalog and target (`WalkInv`), and what
`working` and `flag` say before the commit (`CommitInv`). `VersionIsLastStep` and
`WalkSkipsNothing` are inductive beyond the end of the call: the failing steps of a
direct migration keep the version (`ReturnInv`), and only the application's own
replacement of its configuration starts the history anew (`ForgetInv`). `FillTree` (repair yields
a tree that extends the old one and is complete), `NothingMissing` (a
tree from which nothing is missing is complete) and `SomethingMissing` (repair changes a
tree from which something is missing, for `CommitIsNeeded`) are the facts about `Fill`.

**AlgorithmsProofs.** `IndexStaysExact`: `InStep`, that the index has exactly the
members' keys at their positions, is inductive once the types are added. `RepairComputesFill`: the
invariant `WalkInv` says that the model so far is the original with some of the
missing defaults and that `added` says whether any; that above a key still to visit it has
objects only, so that the key itself decides what happens; and that a missing default which
is not yet there is at or below a key still to visit.

**ScalarProofs.** `ScalarsStayExact`. There is no loop: the proof is about rounding. A format's numbers
are a finite grid, `RoundFacts` says that rounding between two grid points yields one
and is the identity on the grid, `TruncateInGrid` that the integral part of a grid
point is in the grid, which is what makes the comparison in `convertScalar` decide
exactness. Powers of two are handled as numbers of subsets, for which the library
has theorems.

**TextProofs.** `TextStaysExact`: `DecodeFacts` compares the decoder with the standard's
table length by length (the real constants: bytes, 21-bit code points); the loop invariant
`ScanInv` says that the text up to the position falls into accepted characters *and*
that every way to cut the whole text into accepted characters cuts it there, without
which a refusal would not mean that there is none. `ParseStaysGrammar`: up to the position
all bytes satisfy the grammar's local conditions, no bracket that opens before it closes
behind it (`Closed`), and the segments so far are those of the starts before it, each at
its place (`SegmentsUpto`). What `std::from_chars` computes is taken as it is (`Decimal`).

**ConfigModelProofs.** `ArenaStaysTree`, `StaleStaysDetected` and `ReplaceKeeps`, for any
values, paths, number of calls, memory and counter width. `IsForest` speaks of the nodes
that can be reached from the roots, a least set. The proof looks from the leaves instead: a set of
live nodes is closed upwards when it has the parent of each of its members that is not a
root, and a node is `Under` some roots when every such set around it meets them. What
allocating, linking, cutting, releasing and splicing do to such sets is short to state (the
`Trees...` lemmas); `TreesAreForest` leads back to `IsForest`. The free list is a sequence
without repetition through all dead slots, which an allocation shortens and a release extends
(`FreeListTake`, `FreeListPut`); `Sound` is trees and free list together, with one `Sound...` lemma
per operation on the arena.

`ArenaIsTree` is not inductive: whether `Link` keeps the trees depends on whether its
target hangs on what is linked, whether `FreeStep` releases a live node on who else owns it, whether
`Unlink` cuts the right link on how `resolve` came there. `IInv` adds which locals a phase
uses (`PhaseOk`), that every owner owns another root and none the model's (`OwnersOk`), that the node
at work is in the model's tree and not in a detached one (`AtOk`), that it has the type the
write needs and is the kid that the last segment names (`FitsOk`), that each activation of
`buildFromValue` is inside the loop of the next one out (`FramesOk`), that a handle's
generation is the one it was taken with plus the releases since, up to one wrap, while these
are fewer than the modulus (`HandlesOk`), and that what remains of replaced contents hangs on slots still to be
freed (`ReplacedOk`), from which it follows that none is left when there are no more such slots. One lemma
per action (`...Keeps`) shows that it keeps `IInv`.

Only model-checked:

* every liveness property (`Terminates`, `CallsReturn`);
* `CreateIsExact`, whose path resolution is a fold over the names;
* `ImplementsValueTree`, and the properties of `JsonInterface` and `XmlInterface`: they compare
  with values, documents or conversions that recurse over trees, and tlapm has no induction over data
  and no recursive operators. That a failed write leaves the tree as it was is thus
  checked on the instance; that it leaves a sound arena and leaks nothing is proved.

## 5. Not modelled

Power loss (the documentation excludes it: there is no fsync); concurrent
writers (unsupported); sizes in bytes; the lexical form of JSON and XML below
events and nodes; errors of `std::filesystem` in `cpCreate`, which returns them without
any state; moves and clones of a model as operations of their own; handles into a
destroyed model (undefined by contract); state inside callbacks; the texts of error
messages. Examples 01 to 04 are straight-line uses of the library's operations, which the
modules above model one by one; example 05 is the flow of `CheckpointStore`.

## 6. Possible extensions

All components with state of their own, both backends and the pure algorithms are
modelled. What could be added:

1. The JSON builder's limits (`BuilderIsBounded`) callback by callback as a theorem, which does not need the
   recursion of the reference.
2. Composition: `CheckpointStore` over `ReplaceFile`'s promise instead of its own
   two-step capture; an atomic specification of `synchronize` that `ConfigRuntime`
   implements.
