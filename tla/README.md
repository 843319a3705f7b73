# A verification development for CppProject

CppProject is a collection of C++ programs.  The largest is a small key-value
serving system, *cannon*: backends that hold a model in memory and a proxy that
shards reads over them and reloads the model while it is being read.  The rest
are self-contained algorithms.  This directory holds TLA+ models of the code,
TLC configurations that check them on small instances, and proofs checked by
TLAPS.

## 1. Inventory

| Part | Source | State | Operations | What makes it correct |
|---|---|---|---|---|
| proxy handler | `cannon_proxy/src/proxy_server.cpp` | `_data_version`, `_is_loading`, one wrapper per backend | `get`, `reload` (`_insert`) | a reload never disturbs what is served; it installs a version only when all of it is there; a get sees one version; every call ends |
| client wrapper | `cannon_client_wrapper.*` | two one-thread pools, one Thrift client | `enqueue_insert_kvs`, `enqueue_query_keys`, `clear_data` | one call at a time on the connection; a task's answer reaches its future |
| thread pool | `thread_pool/ThreadPool.h` | task queue, mutex, condition, `stop`, workers | constructor, `enqueue`, worker loop, destructor | tasks run once, in order for one worker; no lost wake-up; the destructor drains the queue and ends |
| model reader | `model_files_reader.*` | open file, file index | `get_lines` | the blocks are the lines of the files in order, and the first empty block is the end |
| versioned backend | `cannon_proxy/cannon/src/cannon/*` | two hash maps chosen by the low version bit | `get`, `insert`, `clear_data` | a version's map is not touched by requests for its neighbours |
| Thrift code | `*/interface/gen-cpp` of the three services | a connection; `sync_` of the concurrent clients | clients, processors, readers and writers of structs | both ends agree on the bytes; a call is answered by the answer to itself |
| chained hash table | `hash_table/immutable_hash_table.h` (and the copy under `cannon_proxy/cannon`) | slots, chain table, counts, loading flag | `beginLoading`, `insert`, `endLoading`, `find`, `_rehash`, shrink and expand | a finite map, whatever the rehashes |
| in-place hash table | `hash_table/internal_storage/immutable_hash_table.h`, `cannon/src/cannon/immutable_hash_map.cpp` | the loaded array, bucket start offsets | construct (permutes the array in place), find | a permutation of the input, sorted by bucket; find finds what was loaded |
| single-node backend | `cannon/src/cannon/storage.cpp`, `kv_schema*.cpp`, `cannon_server.cpp` | key and value bytes, the map above | `load`, `seek`, `get` | values stay aligned with keys |
| algorithms | `KMP`, `qsort`, `mergeSortedLists`, `StringMultiplication`, `ReversePolishExpression`, `SimpleRexMatch`, `lr_sgd` | none | one function each | their textbook definitions |

**Interaction.**  A proxy connection thread runs `get` or `reload` on the one
shared handler.  A call splits its keys by backend, queues one task per backend
in a pool of that backend's wrapper, and waits on the futures.  The pool thread
makes a synchronous RPC through the wrapper's only client; the backend works on
one of its two maps.  Handler threads share `_data_version` and `_is_loading`
(atomics); pool threads and handler threads share the queues (mutex); the two
threads of a wrapper share the client (nothing).

**What is hard.**  `get` reads the version and uses it later, from another
thread, while reloads move on; a reload spans many rounds, each of which may
partly fail; the clear of one reload must be the room for the next; the flag is
released on some exits of `reload` only; two threads use one connection;
backends and proxy restart empty and do not know of each other; the pool's stop,
notify and wait race; threads of a concurrent client hand headers to each other;
the hash tables move entries in place and rehash at size limits; files end
without a newline, in the middle of an entry, or do not open.  PROJECT.json lists
these under "hazards" with the line and the properties that cover them.

## 2. Modules and how they correspond to the code

| Module | Models | Form |
|---|---|---|
| `VersionedStorage` | one backend's store | operators over a pair of maps: `GetIndex` (the low bit of the version), `Seek`, `Insert`, `InsertOk` (the answer of the insert handler), `ClearData` |
| `CannonProxy` | proxy handler, client wrappers, backends | state machine; extends `VersionedStorage` |
| `CannonRestarts` | the same with processes that die and start again | extends `CannonProxy` with connections and two restart actions |
| `TaskExecutor`, `ThreadPool` | what a pool promises; `ThreadPool.h` | abstract specification and the state machine that implements it |
| `LoadableMap`, `ChainedHashTable` | what a chained table promises; `immutable_hash_table.h` | abstract specification and the state machine that implements it |
| `InPlaceHashMap` | both in-place tables | state machine: one step per iteration of the three constructor loops; `find` / `seek` is an operator |
| `ThriftStruct` | the shape of every generated `read` and `write` | operators over tokens: write a value, read a field, skip |
| `CannonWire` | the generated structs and methods of the three services | per struct its fields, per method the stub of the client and the entry of the processor |
| `CannonRpc` | plain client, connection, processor, handler | state machine over the bytes of `CannonWire` |
| `ThriftConcurrentClient` | the `...ConcurrentClient` classes | state machine: sending is a step, and every stretch between two acquisitions of the read mutex, which is cut where a failing send, that does not take this mutex, can come between |
| `ProgramRun` | one run of a sequential program: `job` is the program and its input, `st` its locals | variables and two helpers |
| `ModelFilesReader`, `ModelLoading` | `get_lines`; what `reload` makes of the lines, with the arithmetic of the shard index | state machine: one step per file opened, line read or block inserted |
| `KvNode` | single-node backend: schema sizes, loading a directory, answering a packed request | state machine: one step per file, turn of the sorting loop, or key |
| `KMP`, `Qsort`, `StringMultiplication`, `MergeSortedLists`, `ReversePolishExpression`, `SimpleRexMatch` | the program of that name | state machines: one step per turn of a loop |
| `Programs` | composes the programs above with their inputs | a behaviour runs one of them on one input |

`MC*` modules give constants for TLC, `*_proofs` modules hold theorems, and
`SetInduction` the induction lemmas that four of them use.

**CannonProxy.**  `dataVersion` and `isLoading` are the two atomics of the
handler; `pool[s][l]` and `busy[s][l]` the queue and the thread of each of the two
pools of wrapper `s`; `garbled` the wrappers whose client two threads have used at
once; `stores[s]` the backend; the rest are the locals of each `get` and `reload`.
A call is a one-shot id.  It works in rounds: `Enqueue` puts one task per backend
into a lane, in index order, and `Collect` waits for the futures in the same
order, because `future::get` does.  A `get` makes one round (`GetBegin`,
`EnqueueQueryKeys`, `CollectQuery`).  A `reload` makes one per block of lines
(`ReloadNextBlock`, `EnqueueInsertKvs`, `CollectInsert`), then installs
(`ReloadInstall`) and makes one to clear (`EnqueueClearData`, `CollectClear`), then
releases the flag (`ReloadReturn`).  `GetBegin` reads `_data_version` once and its
queries run later, from pool threads (`WorkerTake`, `RpcQuery`), at a time when
reloads may have moved on.  Lane names are the names of the members, which the
wrapper uses crosswise: inserts and clears run on `_query_thread_pool`, queries on
`_insert_thread_pool`.  A transport exception (`RpcThrows`) may come before or
after the backend executed the request, is stored in the future, and makes
`Collect` end the call in `"threw"`, with the flag still set and with the other
tasks of the round still queued, as in the code, where nothing catches it.  Once
both threads of a wrapper are inside its one client (`WorkerTake` while the other
lane is busy) the connection is corrupted for good, and `RpcGarbled` lets anything
come out of it.  `ResponseStatuses` is the status of a `get`'s answer, which its
collecting loop sets; it is a set because a corrupted stream may be decoded to any
item status.  The five seconds of sleep between install and clear are a stutter,
since no step may rely on them.

**CannonRestarts.**  It has every step of `CannonProxy`, `ReloadNoPaths` included, and
connections that can be closed, open or broken.  Nothing is on disk.
`BackendRestart` empties both maps of a backend and breaks the connection; the call
that meets a broken connection raises (`RpcBroken`) and a later one opens a new one.  `ProxyRestart` forgets
version, flag, queues and calls, over maps that stay as they are; a request that
was running has reached its backend or has not.  `RpcCorrupted` is `RpcGarbled` here:
on a corrupted connection a call ends in any way, and the state of the connection is
not followed any more.

**ThreadPool.**  The worker's evaluation of the wait predicate, the blocking that
releases the mutex, and the wake-up are steps of their own; that is where a
wake-up could be lost.  `notify_one` wakes any waiter and comes after the unlock.
Spurious wake-ups are allowed up to `MaxSpurious`.  `ThreadPool` implements
`TaskExecutor` with `queue <- tasks`, the running tasks of the workers, and the
set futures; taking a task, setting its future and setting `stop` are the visible
steps.  In `CannonProxy` a lane is the one-worker case, queue and busy thread.

**InPlaceHashMap.**  The variable `copy` says which of the two texts runs: they
differ in the comparison of the sorting loop (`<=` or `<` with the next free
position) and in how the last bucket ends.  `loaded` keeps the input for the
properties.  The hash is any function to the buckets.

**ChainedHashTable.**  Each chain is a sequence from its head.  `_rehash` visits
chains in order and pushes every entry in front of its new chain.  The mapping
to `LoadableMap` reads the content out of the chains.

**Thrift.**  Every generated `write` is a list of fields with a stop, and every
generated `read` a loop that takes the fields it knows by number and wire type,
skips the others and marks what it has seen; so the structs are data
(`CannonWire`) and the two loops are written once (`ThriftStruct`).  In
`CannonRpc` a client of any of the three services is connected to a server of any
of them; all have a method `get` with different arguments.  The link knows of a
crash only when a read or write fails.  `ThriftConcurrentClient` has one thread per
call.  `requests` and `stream` are the two directions of the connection, `pending`
the header that was read for another call, `monitors`, `wakeupSomeone` and `stop`
the fields of `sync_` (the library's `TConcurrentClientSyncInfo`, external).  The
body of an answer is read after the header and possibly by another thread.  A send
that fails sets `stop` and notifies without the read mutex, at any moment of the
other calls: so the test of `waitForWork` (`NothingToDo`) and its wait (`Block`) are two
steps, and what is told between them is lost on the thread that goes to sleep.

**ProgramRun, ModelLoading, KvNode, Programs.**  These are sequential programs.
`st.pc` is the loop or statement a run is at, and a step is a turn of a loop, so
that each loop invariant is a statement about a state.  When a run is done its
result is compared with a definition made independently of it.  The recursion of
`qsort` is a stack of the calls that are pending; `_add_state` of the matcher, whose
recursion is at the end, is a loop along the splits.  Lines are sequences of words,
numbers are bounded (`KeySpan` and `IntSpan` say how many values a key and an int
have), `>>` saturates and fails as `operator>>` does, and an index that is
computed from a negative remainder makes the result undefined.  `KvNode` works on
bytes, so that entries that are split over two files, or incomplete at the end,
have the meaning they have in the code.

## 3. Runs

| Run | Bounds | What it shows |
|---|---|---|
| `proxy_two_backends` | 2 backends, one key each, 1 get, 2 reloads, one line per block, 1 failing RPC, files complete, with a repeated line, partial, or empty; two reloads are followed until a client is shared, one reload also after that (`IntactClients`) | staging aims at the map that is not served, whatever failed and however late a task runs; the served map never changes on an intact client; the flag is a lock; a get holds one version per backend while it is intact, and its status says whether all keys were there; an installed version has every line; a successful reload leaves the next map empty |
| `restarts` | 2 backends, 1 get, 2 reloads of one model of 2 lines, 1 restart of any of the three processes at any moment; followed until a client is shared, and past that if it is the client of backend 0 and no second reload has begun (`IntactClients`) | every call ends; a backend that acknowledges its clear has all lines it was sent; the served version never mixes reloads of one model |
| `thread_pool` | 3 workers, 3 tasks, 1 spurious wake-up | no lost wake-up, no task lost or run twice, an empty queue behind the destructor, which returns; the pool is a fair `TaskExecutor` |
| `in_place_hash_map` | arrays of 0 to 4 entries, 4 keys in 3 buckets, 2 values, both copies | swaps permute and stay inside buckets; the loop ends; find is right |
| `chained_hash_table` | 5 keys, sizes 1 to 8, 2 values | the table is a map through every resize |
| `rpc` | clients and servers of all 3 x 3 pairs of services, lists of up to 2 elements in the first call and empty ones after, 5 calls, 1 crash | what is sent is understood, calls leave nothing behind on the connection, and a server that is back is reached after two failures at most |
| `concurrent_client` | 3 calls (`get`, `insert`, `clear_data`), 1 spurious wake-up, a crash | each call reads its own answer; the duty to read is always with somebody awake; every call ends |
| `programs` | per program all inputs of `MCPrograms`: files of up to 2 lines in lists of up to 4, directories of up to 3 files with up to 17 entries, texts of 6 characters, patterns of 4 and two longer ones, arrays of 6, decimals of 3 digits, lists of 4 nodes, terms of 2 levels, patterns and words of 4 characters | each result is the one its definition gives, from every turn of every loop |

The bounds are chosen so that the cases happen.  With two reloads the parity of
the version comes round, a failed reload is followed by one that meets its
leftovers, and two calls compete for the flag.  Two backends make a round that
is half done.  One line per block makes several insert rounds.  One restart at
any moment meets every combination of staged, installed and half-cleared maps,
with a reload before and one after it; `OwnLinesOrNone` and `AcknowledgedLines` are
proved for any number of restarts, `EveryCallEnds` is checked with one only.  One
corrupted backend next to an intact one lets a reload go on, past answers that
mean nothing, through insert, install and clear.  Three tasks
and workers make two enqueues race one waiter; three calls make two wait while
one reads, so that handing over and waking anyone differ.  Four entries make swap
cycles of every length up to four and repeated keys with different values.  A
chained table that starts with one chain (instead of 16) doubles three times
with five keys, and shrinks when it is loaded again with fewer.  In `rpc` two list
elements exercise both loops; five calls leave room for a crash, the failures it
causes, and calls after them.  Keys of 16 and ints of 8 values have keys whose low half
is negative, and values out of range on both sides.  Lists of files up to four
have files that end with a block, are empty, or do not open, in every order.
Texts of six characters have patterns that overlap themselves twice.
`CHECK_DEADLOCK FALSE` is used where the system stops: calls are one-shot, the
pool is destroyed, the constructor ends, a program returns.

**Disagreements.**  These runs end with a violation on purpose; PROJECT.json
quotes the line each contradicts.

| Run | What happens |
|---|---|
| `proxy_failed_reload` | a refused reload leaves its pairs in the staging map, and the next one serves them with its own |
| `proxy_shared_client` | both single threads of a wrapper are inside the one client |
| `proxy_stuck_flag` | `reload` of an empty list returns true with the flag set, and no reload is let in any more |
| `proxy_duplicate_keys` | a key listed twice is FOUND with value 0 at its first position |

**Fairness.**  `CannonRestarts!FairnessWithRestarts`: each thread of the proxy is
scheduled by the operating system, and a synchronous call on an intact
connection ends with an answer or an exception (the transport reports a lost
connection).  Nothing is assumed of clients, of restarts, nor of a corrupted
connection, where a thread may wait for bytes for ever; `EveryCallEnds` says so.
`ThreadPool!Fairness`: every thread that can run does, tasks return, nobody is
obliged to enqueue or to destroy the pool, and a waiter wakes only when
notified.  `ThriftConcurrentClient!Fairness`: every thread is scheduled and a
server that is up answers; nobody has to call, and weak fairness is enough for
the mutex.  `InPlaceHashMap`: one thread, no waiting.

**Observations** met on the way, that contradict no line of the repository:

* A backend that restarts between the last insert and the clear of a reload is
  noticed only by the exception of the clear: the version is installed without
  its lines, and the flag stays set.  A get on the same connection may take that
  exception, and then the reload returns true.  `AcknowledgedLines` states what
  is left.
* A proxy that restarts at an odd version serves what the map of version 0 holds,
  and loads into a map that is full: a reload of the same keys answers false until
  the backends restart too.
* A part of an entry at the end of the single-node backend's files sends loading
  out of the table if a whole entry belongs to a bucket behind it; else, when the
  part has a whole key, that key is FOUND with bytes behind the table.
* `8/2*2` is evaluated as `8/(2*2)`: operators of one precedence stay on the stack
  until one of lower precedence comes, so they associate to the right.
* KMP's `getNext` makes a vector of as many cells as the pattern has characters and
  writes the cell behind it whenever a pattern is not empty and the text not shorter.
  In C++ that is undefined, and `FillBehind` says so: the run ends in `"undefined"`, or it
  goes on with nothing changed.  `KmpFindsFirst` is about the runs that go on; the cell
  is never read.
* `qsort`'s median of three reads the last element twice.

## 4. Proofs

Everything below holds for all values of the constants under the named
assumptions of the modules (disjoint ids, finite non-empty sets of workers, a
hash into the buckets).

* **`CannonProxy_proofs`.**  `StagingInv` is inductive: types, the lock
  (`LoadingMutex`), that futures are outstanding only between the steps of a round
  (`RoundsOrderly`), that the version of a round keeps its distance from the served
  one although it was captured earlier (`RoundsAimed`), and that the lane of
  inserts and clears holds at most one task, of the reload that has the flag or
  abandoned it (`QueryLane`).  The last is what makes a task that outlives its
  call harmless: nobody else can pass the flag.  From it follow `TypeCorrect`,
  `StagingInvariant`, `OneReloadAtATime`, `ReloadsStageElsewhere` and, as an action
  property, `ServedStoresStay`.
  On top of it `ContentInv` says what the maps hold, where `StagingInv` says who
  writes them.  `RoundsCounted`: what a reload has collected is in `ret`, and a round
  begins with fresh futures.  `StagedLines`: while a reload loads, every line whose
  round has been acknowledged is in the next map with its value; inserts that come
  later take nothing away, because they never overwrite.  `Cleared`: a map whose
  clear was acknowledged stays empty until the flag is released.  `GetsBehind`: no
  get is ahead of the served version.  When `ReloadInstall` fires, `Block(r) = {}`
  makes `StagedLines` speak of all lines, and the bump of the version turns it
  into `ReloadInstallsAll`; when the flag is released, `Cleared` for version v is
  emptiness for v + 2, the same map, which is `StagingClean`; and a get's answers, and its status with them,
  stay the contents of its version because a map that is served, or waits for
  its clear, has no writer but that clear (`GetSnapshot`).  Theorems
  `ContentInvariant`, `InstalledVersionsAreComplete`, `StagingIsCleared`,
  `GetsSeeOneVersion`.
  *Restarts.*  The lemmas on `ContentInv` are stated for
  a set of values that a backend may hold instead of a line (`LoadPart(V)`): with
  V empty they carry `ContentInv`, with V = {`None`} they carry `OwnInv` through
  every step that is not a restart.  A backend that restarts only turns lines
  into `None`.  A proxy that restarts has no call inside `reload` and no installed
  version, so `OwnInv` says nothing of the old maps; a later reload that meets
  them gets false from `insert`, which does not overwrite, and then installs
  nothing.  Theorems `OwnInvariant`, `ServedLinesAreOwn`: for any number of restarts
  and faults, of backends and proxy, at any moment.
  `ToldInv` follows what becomes of a backend that forgets lines while a reload is
  under way.  Its connection is broken, or the exception went to a get on the same
  connection (`Told`); else the backend has been up since it stored the line
  (`StagedOrTold` while the reload loads, `InstalledOrTold` until it is cleared).  The
  exception is passed on once, so no second answer may hide it: the lane of queries
  holds a get at most once, as long as its future is outstanding (`GetLane`,
  `GetsOrderly`).  From it follows `AcknowledgedLines`: a backend that answers its clear
  has the lines of the reload, unless a get was told otherwise.  Theorems
  `ToldInvariant`, `ForgettingIsNoticed`.
* **`ThreadPool_proofs`.**  `PoolInv` adds to the claims that the mutex is held
  exactly between lock and unlock (`MutexHeld`) and that a worker about to block
  saw a state that is still current (`BlockIsCurrent`): the reason why no wake-up
  is lost.  Theorems `PoolInvariant`, `NoWakeupIsLost`, `DestructorDrains`,
  `TasksAreAcceptedOnce`, and `PoolImplementsExecutor`, the refinement.
* **`InPlaceHashMap_proofs`.**  `MapInv` has one part per loop.  Prefix sums are
  cardinalities (`BelowNext`), and the key lemma `RoomLeft` counts: the claimed
  positions of a bucket and the entry to be moved are different entries of that
  bucket, so the bucket has a free position.  It covers `<=` and `<` alike.
  Theorems `MapInvariant`, `SwapsStayInBuckets`, `FindIsFaithful`,
  `EntriesArePermuted`.
* **`ThriftConcurrentClient_proofs`.**  `ClientInv`: a sequence number belongs to one
  call and what is on the connection carries the number and method of a call
  (`Numbers`), the read mutex serialises `recv_` (`Mutex`), and a header that was
  read leads, pending or with the thread that is about to read the body, to the
  call it was left for (`Headers`); so no thread takes a body for a header.
  `HandOverInv` is about the duty to read, which a call that waits has left to
  somebody: a header that is pending was left to a call that is awake or woken
  (`HeaderHasTaker`); who has to wait does so because somebody reads, or the flag is up
  (`SomebodyReads`); the monitors are those of the calls that are under way
  (`Monitored`).  The notification of a send that fails may be lost on a call that has
  tested the flag and does not sleep yet.  Such a call is covered: another comes for
  the mutex (`BlockIsCovered`).  On a dead connection the calls that sleep untold have one
  among the others that is going to find out and tell them (`AllTold`).  Theorems
  `ClientInvariant`, `CallsReadTheirOwnAnswer`, `HandOverInvariant`,
  `DutyToReadIsNeverLost`.
* **`SetInduction`.**  The library's induction theorems take an operator, which the
  provers cannot instantiate.  Here the same is stated of a set of numbers, and for
  recursive functions of the sequence of their values (`Recursion`, `Solves`): so a
  function that is defined by recursion has its equation, and what it computes can
  be shown by induction for every input.  `RankedRecursion` is the same for functions
  on any set whose elements have a rank (`DependsBelow`): pairs, or lists by length.
* **`ChainedHashTable_proofs`.**  By induction, `_nextPower` returns a size that is large
  enough and, above the initial size, less than twice what was asked for; and the fold
  of `_rehash` returns chains with the same entries, each in the chain of its hash.
  `HashInv` says that an entry is in the chain of its hash and no key is there twice,
  that `used` counts the entries, that these are finitely many, and that the load is
  bounded.  Theorems `TableIsConsistent`, `LoadIsBounded`, and
  `TableImplementsMap`: through every resize the table is the finite map of
  `LoadableMap`.  No bound on sizes or doublings is assumed.
* **`Loading_proofs`** and **`Programs_proofs`.**  Each program has its loop invariants;
  the lemma `OwnSteps`, which both modules state for themselves, keeps the programs apart.
  *Reading a model*: the lines of the blocks returned and the lines still to come are the
  lines of the files that open, in order; a file that does not open is skipped
  (`BlocksAreWhole`).  A backend holds of each key that is hashed to it the value of the
  first line that has it, since `insert` never overwrites, and the answer is true just when
  no two lines have one key; nothing is said if a key with a negative low half computes a
  negative index (`LoadIsRight`).
  *The single-node backend*: `NodeHolds` has one part per loop.  The bytes loaded are those
  of the files so far (`FlattenUpTo`).  While they are sorted, the table is a
  rearrangement of the entries, a part of one at the end included, and the places that
  a bucket has claimed hold entries of that bucket.  The claimed places and the entry to be
  moved are different entries, so there is room for it (`SortRoom`) unless it belongs
  behind the part, whose bytes do not count as an entry; only then does a swap leave the
  table.  When the sorting is done a bucket's range has exactly its entries, and each
  answer is given by the place of its key in the request.  All of it together is
  `NodeIsRight`, with entries of any size, at any files and any hash.
  *KMP*: the cells of the vector hold the longest borders, a fallback of either loop passes
  over no border and no occurrence, and the only access outside the vector is the write
  of the last turn; if that does no harm the first occurrence is found (`KmpIsRight`).
  *qsort*: the pending calls are apart, a pair out of order lies within one of them,
  and the array is a rearrangement.  The pivot stays in the range between the two parts
  that the calls at the end get, so each is shorter than the range (`QsortIsRight`).
  *Merge*: `Before` orders the nodes strictly, the nodes taken come before all others
  and are linked in that order; none is taken twice (`MergeIsRight`).
  *Multiplication*: `Value` of cells is defined from the last cell on and `Number` from
  the first, and both are the same.  The value of the cells and the carry that is due
  at the next cell are the product of the digits read so far (`Rows`).  The product of
  numbers whose first digit is not zero has at most one zero in front
  (`MultiplyIsRight`).
  *Matching*: `Language` gives for each rest of the pattern the places of the word from
  which on it matches.  A state of the compiled automaton stands for a place of the pattern
  (`at` in the proof), and it accepts from exactly those places.  The states marked for a
  place of the word are those that can be reached there, together with marks that are older
  and that no later list takes for its own (`MatchingIsRight`).
  *Expressions*: the program has one way to go on at any time (`Turn`), and `Leads` says
  that turns get from one point to another.  By induction over terms, which is
  proved from their depth (`TermInduction`), what is written for a term has a postfix
  expression that it is read as, where no operator before or behind takes an operand
  away (`Fits`), and that puts the term on the stack of results.  The invariant
  is that what remains to be done leads to the term (`ExpressionsAreRead`), where
  operators of one precedence associate to the right, as the program makes them do.

**Model-checked only.**  Liveness (`EveryCallEnds`, `ExecutorRunsTasks`,
`DestructorReturns`, `Constructed`, `CallsEnd`) and ENABLED are out of the provers'
reach.  So are RECURSIVE operators: `ThriftStruct` reads and writes nested types with
them, and `CannonWire` and `CannonRpc` build on it (`Understood`, `NothingLeft`,
`FailsTwiceAtMost`).  Every other invariant of a run is proved.

## 5. Not modelled

* The Multiface, Null and Factory classes of the generated code delegate to what
  is modelled and hold no state of their own; `printTo`, `swap` and the comparison
  operators of the structs take no part in a call.
* JSON schemas and the text of a type are read by libraries; `KvNode` starts from
  the fields.  Requests that hold part of a key, sub-directories, and schemas of
  size zero are left out of it.
* `lr_sgd` is a floating-point loop, and the hash functions mix bits: no property
  of theirs is within TLC's reach.  Models that hash take any function.
* Start-up flags and the parsing of the server list, the command-line clients,
  scripts and tests are glue.  A proxy without servers cannot be started
  usefully; `NumServers` is positive.
* The splitting of the string in `ReversePolishExpression` (its elements are
  given), and wrong expressions.
* Several proxies over the same backends.  The backend has no lock, so two proxies
  would race on its maps.  `CannonProxy` has the one proxy that its start-up makes.
