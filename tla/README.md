# A TLA+ model of phanes

phanes scans a directory tree in parallel and reports on it: largest files,
statistics, duplicates. This directory models it in TLA+, its concurrent core above all,
checks the models with TLC and proves properties of them with TLAPS. Paths
below are relative to the repository root; `scheduler.cpp:71` is a line of
`src/builder/scheduler.cpp`, and so on. `PROJECT.json` maps every definition to
the lines it models.

## 1. The system

```
 main -> parse(argv) -> build_tree -> DirectoryTree (const from here on) -> Executor
                        Scanner                                            one std::async per action
                        ThreadPool                                         analyzer reports
                        LockFreeDeque per worker                           duplicate scan:
                                                                             generator + workers
                                                                             LockFreeDeque, Ring, hasher
```

| Part | Code | State | Operations | What is hard |
|---|---|---|---|---|
| LockFreeDeque | `builder/deque.cpp` | `front`, `back`, the buffer, retired buffers, epochs | `push_back`, `pop_back` (owner), `steal_front` (anyone) | the race for the last item, memory order, freeing a buffer a thief may still read |
| ThreadPool | `builder/scheduler.cpp` | a deque and a thread per worker, one mutex and condition variable, `pool_stop` | `start`, `submit`, `worker_loop`, `try_steal`, destructor | lost wake-ups, batches that move without a lock, shutdown |
| Scanner | `builder/builder.cpp` | the tree under construction, three mutexes, two id counters, `active_tasks` | `build`, `scan_directory` | several critical sections per directory, when the scan is over, moving the tree while workers live |
| Data model | `core/core.ixx` | `DirectoryTree`, nodes, `NameRef`, `ErrorRecord` | none | ids are positions; parents precede children |
| Duplicate scan, workers | `analyzer/duplicates.cpp:380-526` | the size groups and one deque of them, the queue `ready`, `finished` | files are grouped by size; workers push; a coroutine yields | a generator that sleeps between threads that push |
| Duplicate scan, one group | `analyzer/duplicates.cpp:86-378` | open files and reads in flight, samples held for reassembly | `prefilter_group`, `hash_file` | completions in any order, failed and short reads, reuse of slots, handles and places |
| Ring (Linux) | `io/uring.cpp` | slots, handles, descriptors, `pending`, `inflight` | `init`, `open`, `close_file`, `submit`, `next`, `release`, `reset` | partial submission, stale descriptors and buffers |
| Ring (Windows) | `io/oring.cpp` | the same, and a completion event | the same | the same, and waiting on an event that is set once for several completions |
| Content hash | `analyzer/hasher.cpp` | four accumulators, a partial block | reset, update, digest | pieces of any length must not show |
| Reports | `analyzer/analyzer.cpp` | none (functions of the tree) | `compute_*` | two-pass totals that rest on the order of ids; ties; trees without directories |
| Executor | `view/executor.ixx` | three caches, one future per action | `run` | unlocked caches shared by asynchronous reports |
| Parser | `parser/parser.cpp` | the place in argv, actions, errors | `parse` | staying in step with the tokens after an error |
| View | `view/view.cpp` | none | printing | look-ups by id; the rest is layout |
| main | `main.cpp` | none | wiring | its error path |

How they interact: `Scanner` gives `ThreadPool` a handler that is run on a
worker and submits more tasks; both share the tree with the main thread, which
waits on `active_tasks`. A duplicate worker owns its `Ring` and shares with its
siblings the deque of groups, and with the generator the queue `ready` and the
counter `finished`, under `mtx` (the counter outside it).

## 2. Modules

| Module | Models | Builds on |
|---|---|---|
| `WorkDeque` | what a work-stealing deque promises: each item is taken once, at either end | |
| `LockFreeDeque` | `deque.cpp`, one action per access to shared memory | implements `WorkDeque` |
| `SequenceFacts` | lemmas on sequences, numbers and on retiring an item from a sequence | |
| `LockFreeDequeProofs` | theorems on `LockFreeDeque` | EXTENDS `LockFreeDeque` |
| `ThreadPool` | `scheduler.cpp`, any handler | a deque is a sequence, as `WorkDeque` says |
| `ThreadPoolProofs` | theorems on `ThreadPool` | EXTENDS `ThreadPool` |
| `Orders` | `Ascending`, the elements of a set of numbers in their order | |
| `Scanner` | `builder.cpp`, the handler the program runs | EXTENDS `ThreadPool` |
| `ScannerProofs` | theorems on `Scanner` | EXTENDS `Scanner`, `ThreadPoolProofs` |
| `SizeGroups` | `group_files_by_size`, and what identical files are | |
| `DuplicateScan` | `compute_duplicate_groups`: workers, `ready`, generator | EXTENDS `SizeGroups` |
| `DuplicateScanProofs` | theorems on `DuplicateScan` | EXTENDS `DuplicateScan` |
| `Ring` | `uring.cpp` and the kernel behind it | |
| `IoRing` | what `oring.cpp` does otherwise | EXTENDS `Ring` |
| `Prefilter` | `prefilter_group` | EXTENDS `IoRing` |
| `HashFile` | `hash_file` | EXTENDS `Prefilter`: it runs on the ring that one leaves |
| `GroupScan` | what a worker does with its ring and one size group, kernel beside it | EXTENDS `HashFile` |
| `GroupScanProofs` | theorems on `GroupScan` and the ring below it | EXTENDS `GroupScan` |
| `Hasher` | `phanes_hash_*` | |
| `HasherProofs` | a theorem on `Hasher` | EXTENDS `Hasher` |
| `Parser` | `parse` and the flags | |
| `Analyzer` | the queries `compute_*`, operators on a tree | EXTENDS `SizeGroups` |
| `View` | what `view.cpp` does besides layout | |
| `Executor` | `Executor::run` and its threads | EXTENDS `Parser`, `Analyzer`, `View` |
| `Program` | `main` | EXTENDS `Executor` |
| `ProgramProofs` | theorems on `Program` | EXTENDS `Program` |
| `MC...` | instances for TLC | |

State and actions follow the code by name: a variable is the code's variable or
member, `pc` is where a thread is, and an action is what happens between two
points where another thread can see or disturb something.

**LockFreeDeque.** The memory model is x86-TSO (the README of the repository
names x86-64 as the supported platform): each thread has a FIFO store buffer
`sb`, `Flush` moves its oldest store to memory; a seq_cst fence and a
compare-exchange require an empty buffer. `mem` is what of memory the owner alone
writes, `own` the same as the owner sees it, `local_epochs` what the thieves
write, one slot each. The k-th buffer is a sequence of the items in its slots.
Stores, loads, the fence, each look at an epoch slot and the compare-exchange
are separate actions. `StoreBufferAssumption` says that two growths do not fit in one
store buffer (between them there are 1024 pushes in the program): safe
reclamation rests on that, since a thief's pin can wait in its buffer.

**ThreadPool.** `pc` walks a worker through pop, steal rounds, probe, batch,
the locked predicate (which looks at one deque after the other, while others
change them), sleep, and the handler. How many tasks a batch is to move comes from `size()`,
which loads `front` and `back` one after the other: any number up to that of the tasks. A handler submits any tasks never
submitted before; a task is a directory id. `submit` pushes and notifies in
two steps, the batch pops a victim and pushes to itself in two steps.

**Scanner.** `build_pc` is the main thread, `hpc[w]` where a worker is in
`scan_directory`. Each critical section is one action. The arena is a sequence
of names and a `NameRef` an offset into it, kept modulo `OffsetRange` (2^32 in
the code). A listing may fail, when it is opened or part of the way: `read` says how
many entries each directory yields (one of `Reads`), chosen beforehand, since a directory is
listed once, and never changed.

**SizeGroups, DuplicateScan.** A run starts from the files of a tree; links,
unreadable and empty files and sizes that occur once take no part. What the
winner of a steal finds in its group is given by the files' contents: that the
reads and hashes of `GroupScan` find it is that module's matter. Whoever holds
`mtx` is visible in `gen`; the predicate of `cv.wait`, the release of the mutex
and the sleep are separate from what workers do, but falling asleep releases
the mutex in one step.

**Ring, IoRing, Prefilter, HashFile, GroupScan.** `ring` is the object's members and
the process's descriptor table, `ops` what the kernel has accepted, `cq` what it
has completed, in any order. `io_uring_enter` accepts any prefix of the queue.
What the worker does between two calls of `next()` is one action (nothing else
can see it). A file is a sequence of bytes; `Faulty` files fail to open, fail
to be read or read short, each time anew. `reset()` and `teardown()` begin with `drain()`, a loop
that collects what is outstanding; they are reached only when nothing is (`QuietAtReset`), so
the loop is the guard `Drained`. A hash is the bytes it is made from.

**Hasher.** The n-th byte of the message is the number n, so an accumulator is
the sequence of blocks folded into it, and the loops of `phanes_hash_update`
are actions.

**IoRing.** The first state chooses which of the two classes was built
(`ring.io`). On both, `init` may stop anywhere and leaves what it has got
(`held`) to the destructor. io_uring's `next()` hands reads over and waits in one
call. IoRing's pops, submits if there was nothing to pop, and when all is submitted waits
on an auto-reset event (`NextWait`, `NextWoken`), which the kernel sets when a
completion finds the queue empty; without an event the wait is a blocking call.

**Parser, Executor, Program.** `pc` is the main thread; a pass of the parser's
loop is one action. Flags are their spelling; what `std::from_chars` makes of
any other token is a constant. `future` holds the three shared computations, `cache` the
three optionals, `report[a]` what the thread of action `a` returned and `os` what was
printed. The clock, read by the report on recent files (`analyzer.cpp:147`) and again when ages
are printed (`view.cpp:200`), is one constant `Now`. The three computations and then the reports run in any order; a report fills a cache it finds
empty, as `get_metrics()` and its like do. Where the
standard library may choose (two equal elements in a sort, which of them a heap
drops) a query of `Analyzer` is the set of results it may have, and a report is
one of them; the empty set stands for undefined behaviour, and leads to
`pc = "undefined"`.

## 3. Runs

Seven runs pass and five show where the code departs from what its text says.

| Run | Instance | Shows |
|---|---|---|
| `deque` | 2 thieves, 4 items, capacity 1 (grows twice) | `ImplementsDeque` (each item once, at the right end), `ReclaimSafe` (no freed buffer is reachable by a thief), `TypeOK` |
| `pool` | 2 workers, 4 tasks, 1 round of stealing | no task lost or doubled, whoever sleeps owes nothing, a thief asks every worker but itself, the destructor drains; every task is handled, the destructor returns |
| `scan` | 2 workers, 4 directories two levels deep, every type of entry but one (`other`), a listing that fails at any point of one directory or part of the way in another, every outcome at the root | `active_tasks` is exact, the tree is a tree with ids as positions, names lead where they should, it has all that the listings yielded when `build` returns and is unchanged after it was moved; `build` returns |
| `dup` | 3 workers, a tree of 10 files in two size groups with a link, unreadable, empty and single files, one with no group, rings that may fail to start | each group of identical files of the tree reported once, all of them before the generator ends; what is pushed is yielded |
| `group` | either Ring, with every outcome of `init`, with and without an event; 3 files of 4 bytes, samples of 1, chunks of 3, two files at a time in either phase; one file fails, reads short, differs and has grown | slots, counters and descriptors of the ring, and that everything is given back; no completion is slept over; held samples are kept; buckets and hashes are of the right bytes; equal files are found; the worker gets to the end |
| `hasher` | blocks of 3, messages up to 40 bytes, every way to cut them | the digest does not depend on the cuts |
| `program` | about a hundred command lines (each flag, pairs, bad and missing values, flags in the place of values, flags after a mistake); every tree of 4 directories with 3 files in every place, trees with ties, links, equal files, one of a bare root, no tree | every token is read once, as a flag or a value, whatever is wrong before it; errors have their places, actions their amounts and order; metrics and rankings are right, and reports never contradict each other; caches are not written while reports run; undefined behaviour has two known causes; the program ends |
| `pool_stealer_range`, `dup_lost_wakeup`, `group_unread`, `group_skips`, `program_help` | section 6 | |

Why the bounds are enough. *deque*: the race for the last item needs the owner
and two thieves, reclamation needs a buffer retired two epochs ago, so two
growths; capacity 1 makes both happen within four items. *pool*: a steal, a
batch of two and a sleeper need two workers; with four tasks a worker can hold
one, move another and leave two. A third worker only adds victims: with two,
a round of the rotation is a single probe, and it is the theorem that says more of it;
the safety properties are proved for any number of workers. *scan*: two directories
side by side let two workers add names at once, and the depth of two lets a
child be submitted while its parent is still being added. *dup*: two workers
race for one group while the third ends. *group*: two files sampled at once
reuse each other's slots and descriptors; three candidates for two places make
one wait for a place; four bytes give three regions per file and two chunks,
and a short read makes more. *hasher*: 40 bytes are three rounds of four blocks
of three and a rest, from every alignment. *program*: four directories give chains,
stars and mixtures; two reports at once are enough for a cache to be shared,
and one line asks for four.

`CHECK_DEADLOCK FALSE` is used where the program ends (`pc = "end"` has no
successor) and in `pool_stealer_range`, whose handler may run out of tasks.

Every property of a passing run has a mutant, a definition of the module (it is
marked "Mutant") that changes one mapped definition as a plausible bug would,
and under which TLC finds the property violated.

## 4. Fairness

- `PoolFairSpec`, `FairSpec` of `Scanner`: every worker and the owning thread
  that can take a step takes one in the end (the operating system schedules
  every runnable thread), and a thread that asks for the mutex again and again
  gets it. Neither a steal that wins its race nor a spurious wake-up is
  counted on. The main thread of `Scanner` takes the pool's mutex too, hence
  its strong fairness.
- `FairSpec` of `DuplicateScan`: the same, strong only for `Push`, which needs
  the mutex. The caller resumes the generator.
- `FairSpec` of `GroupScan`: the worker runs, and the kernel ends any read it
  has accepted (a regular file's read ends; so does a failed one).
- `FairSpec` of `Program`: the main thread, the shared computations and every
  report run, but nothing is promised for the duplicate scan, which may never
  end (`dup_lost_wakeup`); `ProgramEnds` is about the lines without it.

The deque and the hasher have no liveness property of their own: they never wait.

## 5. Proofs

Each theorem below is proved by TLAPS for every value of the constants that
satisfies the named assumptions, so for any number of threads and any data; the
runs show the same properties on their instances, and a mutant that breaks each.

| Theorem | Property | In |
|---|---|---|
| `PoolTypeCorrect`, `PoolLosesNoTask`, `PoolCopiesNoTask`, `PoolSleepersOweNothing`, `PoolRoundReachesAll`, `PoolDrained` | `PoolTypeOK`, `NoTaskLost`, `NoTaskTwice`, `SleepersOweNothing`, `RoundReachesAll`, `JoinedIsDrained` | `ThreadPoolProofs` |
| `ScanImplementsPool` (so `ScanPool`: all of the above for the pool that scans) | | `ScannerProofs` |
| `ScanTypeCorrect`, `ActiveTasksCounted`, `TreeAlwaysShaped`, `NamesAlwaysMatch`, `TreeAlwaysComplete`, `TreeIsFrozen` | `ScanTypeOK`, `ActiveTasksExact`, `TreeShaped`, `NamesMatch`, `TreeComplete`, `TreeFrozen` | `ScannerProofs` |
| `DequeTypeCorrect`, `DequeImplemented`, `ReclamationSafe` | `TypeOK`, `ImplementsDeque`, `ReclaimSafe` | `LockFreeDequeProofs` |
| `DupTypeCorrect`, `NoGroupTwice`, `NoGroupLost` | `DupTypeOK`, `ReportedOnce`, `EndReportsAll` | `DuplicateScanProofs` |
| `CountsNeverDrift`, `BuffersApart`, `WaiterNeverMissed` | `CountsExact`, `SlotsApart`, `WaiterIsSignalled` | `GroupScanProofs` |
| `GroupTypeCorrect`, `NothingLeftBehind`, `ReadsNeverStray`, `SamplesNeverOverwritten`, `BucketsAlwaysRight`, `WholeFileHashed` | `GroupTypeOK`, `QuietAtReset`, `ReadsItsOwnFile`, `HeldSamplesKept`, `BucketsAreRight`, `HashIsOfWholeFile` | `GroupScanProofs` |
| `NoDuplicateMissed` | `DuplicatesFound` | `GroupScanProofs` |
| `ChunkingNeverShows` | `ChunkingInvisible` | `HasherProofs` |
| `LinesParsed`, `ReportsOnlyRead` | `ParseRight`, `CachesSettled` | `ProgramProofs` |
| `MetricsAlwaysRight`, `OnlyTwoUndefined`, `ReportsAlwaysRight` | `MetricsRight`, `UndefinedOnlyWithoutTree`, `ReportsRight` | `ProgramProofs` |

None of these properties is inductive by itself. What each rests on:

**Pool.** `IInv == PoolTypeOK /\ Control /\ Places`. `Control` ties `pc` to the
rest: a worker holds a task exactly where the code uses it; its deque stays
empty from the `pop_back` that failed until the next one, sleep and exit
included, because nobody else pushes to it; only a worker that has others to
steal from reaches the loop over them; nothing runs before it was started, and
everything has exited when it is joined. `Places` is where tasks are: `Inside(w)` (no
task is twice in one worker's deque and hands) and `Apart` (no task is with two
workers, none is both with a worker and finished, and together they are what was
submitted). A step moves one task between two places, so `PlacesStep` comes
down to four lemmas, `ApartKept`, `ApartMoved`, `ApartAdded` and
`ApartFinished`. `VictimIsOther` and
`EveryOtherIsVictim` are the arithmetic of the rotation: an offset is never 0 modulo the number
of workers, and N - 1 probes in a row take every offset (`RotationComplete`).
Assumptions: `WorkersAssumption` (at least one worker), `AttemptsAssumption`,
`TaskAssumption` (finitely many tasks).

**Scanner.** Every step of the scan is a step of the pool or leaves it alone
(`ScanImplementsPool`), so `IInv` holds of it. `ScanInv` adds where a worker can
be while it holds a task, that `active_tasks` is exact (it goes up before
directories are added and comes down in the end, so `Arriving` and `Pending`
trade places), the shape of the tree (`ShapeInv`), that paths are those the
listings give, each once (`PathsInv`: `TreeAssumption`, the file system is a tree), and what a node and a
worker hold at each stage of a scan (`NodesInv`, `LocalsInv`). `NamesInv`
is apart, because it alone has a condition: as long as the arena has no more
names than `OffsetRange`, the 2^32 values of `NameRef::offset`. Beyond it the
code makes no promise, and the theorem none.
`TreeIsFrozen` follows because `active_tasks = 0` leaves no worker in a scan.

**Deque.** Three invariants, one on top of the other. Waiting stores are the heart
of the matter: `InMemory[n]` is memory once n of them have arrived (a function defined by
recursion, unique by `ReachedExists`), so that what holds of all n in
`0 .. Waiting` holds whenever a thief looks.
`MemoryInv`: the buffers are the same in memory as for the owner but for items
on their way, each twice as large as the one before, and along `InMemory` buffer and epoch
only grow. `DequeInv`: whatever index memory once shows to be inside the
deque has its item in every buffer a thief may still load (`Published`), and a
thief that is not too late has read or will read the first one (`Theft`);
`WorkDeque`'s items are those between `front` and `Top`. `EpochInv`: a freed
buffer is older than any that memory shows (`OutOfReach`), a thief about to
read has its epoch in its slot or in its store buffer (`Pins`), so an epoch that
ends frees what nobody reads (`Buckets`), and, because a pin that waits
is not seen by the scan of the slots, `Crowded`: while the store of the newest
buffer still waits, so do the stores of all items pushed since. That makes two
growths in one store buffer impossible under `StoreBufferAssumption`
(`SbDepth <= 2 * Cap0 + 2`: in the program 2050 against the some 70 entries of a
processor); the bound is the best there is: with one entry more, TLC finds
`ReclaimSafe` violated on the instance of the run.

**Duplicate scan.** `DupInv`: each group of identical files of the size groups taken from the
deque so far is in exactly one of `yielded`, `ready` and one worker's `out`
(`PlacesInv`); a worker that had a ring leaves only when the deque is empty, and
`finished` counts those that have left (`WorkerInv`); the generator leaves its loop with
`ready` empty after the last has left (`GenInv`). Identical files have the same
size, so groups of the tree are groups of one size group (`IdenticalBySize`;
`TreesAssumption`: sizes are lengths, and a tree has finitely many files).

**Ring and group scan.** The ring does not know what its tags are for, so what is
true of it is stated over a function `W` from tags to reads (file, offset, length,
handle): `Flow(ring, ops, cq, W)` says that no tag is outstanding twice,
every outstanding tag has a buffer in use, the counters count the queues, a
queued read names the open descriptor of `W`'s file, an accepted read is `W`'s, and a
completion says what `W`'s read may return and has left its bytes in the
buffer. There is one lemma for each operation (`OpenedFlow`, `ReadsQueued`,
`HandedOver`, `ReadEnded`, `CompletionTaken`, `TagsReleased`, `ClosedFlow`), for
both classes at once. Each phase then gives its own `W`: `Asks` while
samples are read, `ChunkOf` while files are. `SampleInv`: the tags in use are exactly
those of the samples of the files that wait, outstanding or held, `in_flight` many,
and the open handles those of these files. `HashInv` (`Chunked`, `Named`): the tags in use
are the chunks asked for, at most one for a file, of files in different places of `active`, and a
file in a bucket or given up has none; a file that has begun has a chunk out, is in a
bucket or is in `failed` (`Accounted`); and each of the `FILES` places has a chunk out or
was lost with a file that failed, unless no file waits (`Manned`). `HashData`: what a file's state holds is its beginning up to
`offset`. `SortedInv`: a file gets into a bucket when it has settled, which it does once. `Inv`
joins the phases: between them nothing is outstanding and nothing is open.
`FoundInv`, on top of it, follows a file from the group to the report, for `DuplicatesFound`:
a file that the pump has passed and that cannot fail has its samples out or is in a bucket
(`PumpedInv`), so after sampling all of those are; files of equal bytes have equal
samples (`SameSamples`), so they share a bucket, and the list has every bucket of two
(`Listed`); with a place left when `hash_file` returns, `Manned` says that the whole list has begun
and `Accounted` that it is in buckets or `failed` (`ListRead`).
Assumptions: `RingAssumption`, `PrefilterAssumption` and `HashFileAssumption`: `WINDOW`
and `FILES` fit in the queue's entries (512 and 16 in 1024), so a read is always queued; a file of the group
that cannot fail has the size the tree gives.

**Hasher.** `Consumed`: the accumulators hold exactly the first `blocks` blocks
and the buffer the bytes after them, fewer than a block; the four-block loop starts
aligned. For any block size (`BlockAssumption`).

**Parser, Executor.** `Loop` is what `ParseRight` says of the whole line, of the tokens before `i`:
which of them were looked up as flags (`SplitSoFar`; the one before `i`, if it was, has had
its value), what the errors are about (`ErrorsOf`) and what the actions are
(`ActionsOf`). `FlagPassed` is the one argument for the three ways a pass can go. `CacheInv`: from `launch` on all three
caches are filled, from the one tree. `LinesAssumption`: the first token is the
path of a tree; `ResultsAssumption`: what a shared computation returns is not `nullopt`.

**Metrics and reports.** `MetricsRight` compares the two passes of
`compute_directory_metrics` with a definition that looks at each directory alone:
its depth is the length of its way up, its totals those of all files below it.
A pass is a fold of a sequence, and a fold is a recursive CHOOSE: `OneStepBack` shows that
a recursion which goes down in rank has a solution, `FoldExists` and `FoldOnce`
that a fold therefore has one value, `LeftFold` that it takes a sequence in order.
Going down (`DepthRight`), a parent's depth is right before its child's is set. Going up
(`TotalsRight`), the loop invariant is that before directory `j - 1` is added to its parent, each
`d` holds the files of `Come(d, j)`: itself and what is below it by a way whose other
directories all have ids from `j` on (`ComeFirst`, `ComeNext`, `ComeLast`); ids below `j` have passed
nothing on yet because a parent's id is smaller. One argument serves sizes and
counts (`Additive`). `ResultInv`: what a cache holds is computed from the tree. For
`UndefinedOnlyWithoutTree` each report must have a result, whatever the tree:
there is a way to sort (`Sortable`), a greatest (`FirstGreatestFound`), and a deepest directory
if there is any (`ReportsFound`); `AskedInv`: what runs is what was asked for.
`DiskAssumption`: `build_tree` returns what `IsTree` says. Ids are positions,
a parent's id is smaller and every file is in one directory (`Scanner`'s
`TreeShaped` and `TreeComplete`, proved there); a tree without a root has no directories
(`builder.cpp:213`-`231`); sizes are not negative (`uint64_t`).

**Rankings and agreement.** `PrintInv`: what was printed for an action, and what waits to be, is one
of the reports that the tree and the caches give for it, and neither changes once a report runs
(`ReportsStay`). So `ReportsRight` is about the queries. For the rankings: the heap
of `compute_largest_N_Files` holds, after k files, n of them (or all) and none that is
smaller than one left out (`TopOf`, kept by `HeapStep`, because what is taken off is a
smallest); the first n of a sorted list are n of the greatest (`FirstOfSorted`); and an age put in
words adds up to itself: days, hours, minutes and seconds are remainders
of remainders, and one division by the smaller unit is as good as two (`SameRest`). For the agreement:
both sides are brought to one measure of all files. The extension rows split the files
(`RowsAddUp` with `PartsAddUp`: measures of parts that share nothing add up), the root
is above all (`RootHoldsAll`), `compute_file_stats` counts one file after another
(`FileStatsRight`); groups of duplicates share no file, and each keeps one
(`GroupsApart`, `GroupWastes`), so a scan that finds any wastes less than there is; the
first of a ranking is the greatest of all (`FirstOfRanking`), and there is one first of the
deepest directories (`OneGreatest`). `NumbersAssumption`: `from_chars` yields a `size_t`, 0 when it fails;
`ClockAssumption`: the clock is a whole number of seconds.

The prover has no induction over data here, so facts about all lengths
(`ReachedExists`, sums, ascending sequences) are proved from a least
counterexample (`LeastNumber` in `SequenceFacts`).

Only model-checked: liveness, all of it (`ENABLED` and fairness are beyond the installed
provers). Every safety property of a passing run is proved.

## 6. Findings

- `dup_lost_wakeup` (`duplicates.cpp:491`). The last worker increments
  `finished` and notifies without the mutex. Both can fall between the
  generator's test and its sleep; it then sleeps for ever, although "last
  thread out signals the generator body to stop waiting".
- `pool_stealer_range` (`deque.cpp:177`). A worker's deque has
  `hardware_concurrency()` epoch slots; with more workers than that,
  `steal_front` is called with an id out of range, against its assertion. The program
  itself starts `hardware_concurrency()` workers; `bench_tree.cpp` does not.
- `group_unread` (`duplicates.cpp:191`). Small files whose reads fail are all
  hashed as empty and reported together as "genuine duplicates".
- `group_skips` (`duplicates.cpp:305`). A failed read, or a next file that
  cannot be opened, gives its place up. When all places are gone the rest of
  the candidates is never hashed. `DuplicatesFound` holds as long as fewer
  files fail than there are places.
- `program_help` (`parser.cpp:63`). The help's own example `--recent 86400`
  (`parser.cpp:232`) is rejected for want of a unit, although the flag is described as taking a number of
  seconds (`parser.ixx:103`). `README.md:99` gives it the unit.

Seen while reading, and without a run. A directory whose listing fails leaves no
`ErrorRecord` (`builder.cpp:56`: the iterator is the end iterator by then, and the branch
that records the error is not reached), although `ARCHITECTURE.md:64` says such errors are
collected; the test `builder_test.cpp:254` goes by the code: no errors after a scan with a
locked directory. What such a listing yielded before it failed is in the tree
(`TreeComplete`). The rest contradicts no text of the repository: `hash_file` reads a file that has shrunk since the scan past its end
for ever (0 bytes, and the chunk is queued again: `duplicates.cpp:312`), so `GroupEnds`
is checked for files that did not shrink; a `next()` that fails for ever is asked again for ever
(`duplicates.cpp:171`, `:292`), which `GroupEnds` leaves out, too: a failed call is made
again, and succeeds in the end; for a root that
cannot be scanned, `--summary` dereferences `max_element` of an empty vector and
`--stats` looks up directory 0 of none; after a parse error `main` reads the
actions of an `expected` that holds none (`UndefinedOnlyWithoutTree` says that these
are all); `--largest-files 10abc` is accepted as 10; a number of days near
2^63 overflows; the age of a file from the future is printed with its larger units
missing; `hardware_concurrency() == 0` would start a pool without workers.

## 7. Not modelled

- `Ring::submit` by path and the moves of a `Ring`: only tests and benchmarks
  call them. That `BuildIoRingReadFile` could fail although the queue has room.
- `view.cpp`'s layout: tables, sizes in KB and MB.
- `Executor::prewarm` and `print_duplicates`, which nothing calls; a caller that
  destroys the generator before its end, which no code does.
- What `std::from_chars` does, and the overflow of durations.
- Placeholders of the cloud (Windows) are files that cannot be opened; sizes and
  times are in the trees of `Analyzer`, not in the scan; the quality of the hash
  (it is taken to be injective).
- The deque's `data` race on a plain slot is the one of every Chase-Lev deque:
  a thief's stale value is dropped by its failed compare-exchange, and the
  model lets it read whatever the slot holds.

## 8. Plan

The plan is done: the modules of section 2 are written and every safety property of the
passing runs is proved. What would come next, with another prover, is liveness
(`GroupEnds` and the others of section 4) under the fairness assumed there.
