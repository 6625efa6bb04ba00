# matrix-multiplication-search: a verification development in TLA+

The repository searches for *uniquely solvable puzzles* (USPs) and *strong*
USPs: s-by-k matrices over {1, 2, 3} that give fast matrix multiplication
algorithms. A candidate is judged through a *3D matching instance* (`TDM`), a
set of cells of an s-by-s-by-s cube; simplifying the instance to its diagonal
proves the puzzle a (strong) USP. The enhanced searcher,
`search_ils_staged_enhance`, is a concurrent program: OpenMP workers run a
staged iterated local search and hand their candidates through lock-free queues
to threads that drive CUDA devices.

This directory holds TLA+ modules translated from that code, the
configurations that model-check them, and theorems about them checked by TLAPS.
`PROJECT.json` gives, for every definition, the source lines it stands for.
Paths below are relative to `src/workspace/src/` unless they begin with `src/`.

## 1. Inventory

| component | source | state | operations | what is hard |
|---|---|---|---|---|
| GPU task pipeline | `backend/ils_stage.cpp` 164-515, `backend/GpuTask.cpp`, `searchers/search_ils_staged_enhance.cpp` 363-620 | slots (`state`, dimensions, input and result buffers), id queues, `nextGpuTaskQueue`, per-call counters, `tasks` and `deferred_tasks` of each coordinator, `gpuQueueCv`, `stopGpuWorker` | expand, fill, submit, collect; take, claim, coalesce, launch, scatter, wait; stop and join | concurrency, a condition variable, slot reuse, coalescing of unlike batches, early stop at a hit, shutdown |
| `GpuTaskIdQueue` | `backend/GpuTask.cpp` 24-88 | `head`, `tail`, a sequence number and a value per cell | `try_push`, `try_pop`, `empty` | lock-free, laps of the ring, stale cursors |
| 3D matching instance | `backend/TDM.cpp`, `Puz::isWitness` | the cells of the instance | `compute`, `simplify` | whether the result depends on the order of the faces; whether matchings are lost |
| `simplify_cpu` | `backend/TDM.cpp` 158-277, `backend/includes/matching.h` | counts and two doubly linked lists per face | remove an edge, update the other faces | derived data maintained incrementally |
| `simplify_cpu_slow` | `backend/TDM.cpp` 283-369 | the current face | test and remove edges one at a time | a different criterion from `simplify_cpu` |
| `allowed_matching_edges` | `backend/matching.cpp` 108-239 | colours, finish times, order, list of edges | two depth-first searches | time comparisons during a search |
| `has_perfect_bipartite_matching` | `backend/matching.cpp` 15-106 | residual graph, `prev[]` | augmenting paths | a depth-first search that keeps no stack |
| device simplification | `backend/TDM_cuda_enhanced.cu` | device buffers for a batch of trials | a sequence of kernels, the host's loop | reused buffers, trials that settle at different times, the cap on iterations |
| ILS stage | `backend/ils_stage.cpp` 518-830 | work queues, results, predecessor, statistics | `doWork`, `takeResult`, `restart`, `serialize` | shared queues and results, critical sections with steps of others in between, stage to stage hand-over |
| bounded puzzle queues | `backend/includes/BoundedPuzPriorityQueue.h`, `BoundedPuzMultilevelFeedbackQueue.h` | a multiset ordered by gap with cached best and worst; one per level and priority | `enqueue`, `dequeue`, `mass_enqueue`, `clear` | ties (erase by value takes all of them), the limit, cached bounds |
| staged search loop | `searchers/search_ils_staged_enhance.cpp` 620-1122 | window of stages, signal and checkpoint flags | advance, shift, restart, save, exit | a signal handler, threads leaving a region at different times |
| checkpoints | same file, 620-700, and `serialize`/`deserialize` of search and stages | files | save, restore | crashes, failed writes, links rebuilt after a restore |
| isomorph cache, Bloom filter | `backend/canonization.cpp`, `backend/bloom_filtering.cpp` | a map of canonical forms, the bits of the filter, the copies in a checkpoint | test and insert, reset, enable, save, restore | false positives, filters of old or damaged files, and what is forgotten with them |
| `TDM` object | `backend/TDM.cpp` | the array, `computed`, `simplified`, `count_result` | `simplify` (eager, lazy, slow), `count` | results that stay on a device |
| puzzles | `backend/Puz.cpp`, `backend/includes/Puz.h` | rows packed two bits per symbol, a mark and a result | set, get, enumeration, sorting, minors, the witness test | bit tricks, word boundaries, marks that outlive their entries |
| permutations | `backend/Permutation.cpp` | a function | next, index, inverse, cycles | algorithms in place |
| checkers and heuristics | `backend/checker.cpp`, `heuristic.cpp`, `3DM_to_SAT.cpp`, `special.cpp` | counts of layers, memo tables, clauses | `check` and what it combines | algorithms that must agree |
| fitness | `backend/fitness.cpp` | samples, their neighbours, caches, derivatives | `getFit`, `getFitDerv`, raise and lower | several caches invalidated by comparison |
| baseline device code | `backend/TDM_cuda.cu` | ranges, pivots, visited and eliminated nodes | forward-backward search, trimming | a flag shared by the threads of a block |
| baseline searcher | `searchers/search_ils_staged.cpp` | like the staged loop, without pipeline and checkpoints | | superseded |

**Interactions.** The staged loop runs `ILSStage::doWork` on every OpenMP thread
of a parallel region; `doWork` takes a puzzle from the stage's queues and
expands it through `expand_frontier_GPU` or
`expand_frontier_GPU_row_replacements`. An expansion fills *its own thread's*
slots, marks them Ready, pushes their ids on one of the shared queues, chosen
round-robin, and notifies `gpuQueueCv`. A coordinator pops an id, claims the slot
(Ready to Processing), coalesces further slots of equal dimensions until
a deadline, runs a launch, copies the results back and marks each slot Done. The
worker polls its slots, passes the results on to the frontier, and returns when its
`outstanding` counter is zero. The main thread stops and joins the coordinators
after the parallel region. Every launch simplifies one 3D matching instance per
candidate; off the device the same is done by `simplify_cpu`, and in the
tests by `simplify_cpu_slow`.

The stages form a *window*, one stage per number of rows. A stage holds a pointer to the
one below it and takes that stage's newest result, one row added, as its next puzzle
whenever there is one (`doWork`, critical sections `queue` and `results`); otherwise it takes one of its
own queues. When the current stage has a result all threads leave the region; the main
thread then shifts the window (`takeResult(false)` leaves the result to the new stage),
frees the oldest stage and opens the next region. Between two regions it also
restarts a stage without progress and writes a checkpoint if a timer or `ctrlCHandler`
has asked for one; the handler may interrupt any thread at any point, and sets two
atomic flags that the main thread reads and clears one by one.

**What makes each part correct.** The *pipeline*: a slot id is in one place at a
time and never dropped; results reach the candidate they are for; each candidate
is accounted for once; the input buffer does not change while the device may copy it;
a launch never throws; the counter is exact; calls return; shutdown leaves nothing
behind. The *ring*: it is a first-in first-out queue that refuses only when its
clients expect it to. *Simplification*: every version computes the same instance,
independent of order, and keeps every perfect matching. The *puzzle queues*: they keep within
their limit, what they evict or refuse is not better than what they keep, and the bounds on which they decide are
true; ties of an element that leaves a queue are lost with it, in the code and here. The *cache*: what it was told it recognises, also in a resumed
process, except for what was in a filter whose block of the checkpoint is missing or damaged. A *TDM object*, a
*puzzle's mark* and the *fitness caches*: what is kept beside the data is true of the data as they are
now. *Checkers*, *heuristics* and *measures*: they agree with the definition of a (strong) USP as far as they answer.
*Packed puzzles and permutations*: they behave as matrices and functions. The *stages*: no puzzle is expanded twice; a solution found stays available to the
next stage until that takes it; the links follow the window; a checkpoint is
complete, so that nothing is skipped when a search resumes; a request for a checkpoint is served.

The list under `hazards` in `PROJECT.json` names the places in the code that a test
would hardly reach, including a few that no property covers.

## 2. Modules

| module | models | extends or uses |
|---|---|---|
| `GpuPipeline` | workers, slots, id queues, coordinators, condition variable, shutdown; refinement mapping to `ExpandService` | `ExpandService` |
| `ExpandService` | what `expand_frontier_GPU` promises its caller | |
| `MCGpuPipeline` | model-checking module | `GpuPipeline` |
| `GpuPipeline_proofs` | theorems about the custody of the slots, the contents of slots and launches, the refinement of `ExpandService` | `GpuPipeline`, `TLAPS` |
| `TaskIdQueue` | `GpuTaskIdQueue`, one step per atomic access | `IdQueue` |
| `IdQueue` | what the ring promises: a bounded FIFO with claimed, published and released places | |
| `Tdm` | the instance, the witness test, projections, components, one face of simplification | |
| `TdmInputs` | what the versions for one puzzle at a time are given | `Tdm` |
| `TdmSimplify` | the loop over faces shared by all versions | `TdmInputs` |
| `TdmCpu` | `simplify_cpu`: counts and linked lists, edge by edge; refinement mapping | `TdmInputs`, `TdmSimplify` |
| `TdmFacts` | lemmas about faces, reachability, components and matchings | `Tdm`, `TLAPS` |
| `TdmCpu_proofs` | theorems about the loop; the counts and lists stay those of the instance, and `simplify_cpu` implements the loop | `TdmSimplify`, `TdmCpu`, `TdmFacts` |
| `TdmSlow` | `simplify_cpu_slow`: edge by edge on a face; refinement mapping | `TdmInputs`, `TdmSimplify` |
| `TdmGpu` | a batch on the device, kernel by kernel | `Tdm` |
| `TdmGpuBase` | `simplify_cuda_inner` and the kernels of the baseline | `TdmInputs` |
| `FbThreads` | two searches of a round of `fb_kern`, thread by thread | `Tdm` |
| `TdmVersions` | the loop, `simplify_cpu`, `simplify_cpu_slow` and the device side by side: what they owe each other | `TdmSimplify`, `TdmCpu`, `TdmSlow`, `TdmGpu` |
| `TdmVersions_proofs` | theorems about batches on a device, the reference version, all versions together, and the baseline's device code | `TdmCpu_proofs`, `TdmVersions`, `TdmGpuBase` |
| `MCTdm` | all versions one after the other on the same instance; batches; the baseline | `TdmVersions`, `TdmGpuBase` |
| `TdmObject` | an instance that is computed and simplified on demand, on either side | |
| `AllowedEdges` | the two depth-first searches, recursion as a stack | `Tdm` |
| `BipartiteMatching` | the augmenting-path search | |
| `EdgeCriteria` | both edge tests on the same face | `AllowedEdges`, `BipartiteMatching` |
| `Usp` | puzzles, the definition of a (strong) USP, the instance of a puzzle | `Tdm` |
| `Checkers` | `check` and the algorithms it combines, the SAT encoding, as operators | `Usp` |
| `WitnessSearch` | the random and the greedy heuristic, step by step | `Usp` |
| `Checks_proofs` | theorems about the heuristics and the two edge tests | `WitnessSearch`, `EdgeCriteria`, `TdmFacts` |
| `Measures` | fitness functions without state, hierarchically special puzzles | `Checkers` |
| `MCChecks` | searches, checkers and measures on small puzzles; faces | `WitnessSearch`, `Checkers`, `Measures`, `EdgeCriteria` |
| `PuzOps` | packed puzzles and their operations | |
| `Permutations` | `Permutation` | |
| `Enumerations` | the loops over all puzzles and all permutations | `PuzOps`, `Permutations` |
| `SubsetFitness` | the adaptive subset testers, plain and cached | |
| `IsoCache` | the cache of isomorphs, the Bloom filter, their checkpoints | |
| `PuzMarks` | puzzles and their marks between slots, queues and results | |
| `Puzzles_proofs` | theorems about the cache, `count`, the marks and the fitness by samples | `IsoCache`, `TdmObject`, `PuzMarks`, `SubsetFitness`, `TLAPS` |
| `MCPuzzles` | cache, TDM object, marks, fitness and enumerations, one at a time | `IsoCache`, `TdmObject`, `PuzMarks`, `SubsetFitness`, `Enumerations` |
| `PuzQueue` | the bounded priority queues and a worker that takes from them and updates them | |
| `Queues_proofs` | theorems about the puzzle queues and the ring, among them its refinement | `PuzQueue`, `TaskIdQueue`, `TLAPS` |
| `MCQueues` | the puzzle queues, and the ring | `PuzQueue`, `TaskIdQueue` |
| `StagedSearch` | threads in `doWork`, the main thread, the window, SIGINT, checkpoints, crashes | |
| `MCStagedSearch` | constants for `StagedSearch` | `StagedSearch` |
| `StagedSearch_proofs` | custody of puzzles, the window, theorems | `StagedSearch`, `TLAPS` |

Operators introduced by a comment "Faulty:" are variants of the next definition with
a plausible bug. No specification uses them. `PROJECT.json` pairs one with each property of
each passing run, which fails when the variant takes the definition's place. A property that
combines several statements has further variants in its modules; each of them violates it too.

`MCQueues`, `MCTdm`, `MCChecks` and `MCPuzzles` check several components in one run. Their variable
`part` says which one moves; the others stand still in one initial state, so that a behaviour of
such a module is one of its parts alone. A property of a part that is instantiated is named again
in the MC module.

### The pipeline

`wpc[w]` is the control point of worker *w* in its expansion: `acquire` (looking for
an Empty slot, processing Done ones), `fill`, `submit` (pushing), `backoff` (all
queues refused; the worker drains meanwhile), `notify`, `drain` (the final loop) and
`idle`. `cpc[c]` is that of coordinator *c*: `take` (`take_claimed_gpu_task`),
`claim` (an id in hand), `launch`, `scatter` and `count` (the per-task loop after
a launch), `renotify`, `stopcheck` (leave if nothing is left), `lock`, `pred`, `blocking`
and `blocked` (the parts of `gpuQueueCv.wait`), `exited`. `group` and `deferred`
are `tasks` and `deferred_tasks`.

Abstractions:

* A candidate is a record (worker, call, number). The device computes a function of
  the puzzle alone, so a result *is* the candidate it was computed for; a result that
  reaches another candidate is visible as a pair of different records.
* Both expansion functions follow the same protocol. They differ in how the candidates
  are generated and in where the loop breaks after a hit; the model allows what
  either does. Which Done slots a scan catches is nondeterministic, because a
  slot can turn Done behind the scan.
* A hit (a perfect fit, or a result found by another worker of the stage) is a
  nondeterministic choice at every delivery.
* A push is one step and makes the id poppable. In the ring an id can be claimed and
  not published; that only makes poppers poll again. A pop takes the id in one step
  and holds the ring cell until `claim`; while a cell is held a push to that queue *may* be
  refused (`CellHeld`). That over-approximates the ring, in which the push is refused
  only when it reaches that very cell; a queue has one cell per slot.
* The wait for the coalescing deadline is a choice between polling again and
  launching.
* `exactCount` and `lastSolved` stand for the statistics: whether the sum added so
  far equals the number of puzzles solved.
* The branch of `Claim` for an id whose slot is not Ready is in the code and in the model; the
  proofs show that it is never taken. The capacity test in `Fits` is redundant as
  well, since the device buffers hold `gpuLaunchSlotBatch` full slots.

### The ring

A step is one access to an atomic variable or to the value of a cell. The model
is sequentially consistent: the acquire and release on a cell's sequence
order the accesses to its value, and a relaxed load of a cursor that returns an old
value is the same as an earlier load. `compare_exchange_weak` may fail spuriously.
The cursors do not wrap around a `size_t` within the bound.
The ring has at least two cells, as the searcher has at least two slots (`TaskIdQueueConstants`).

### Simplification

`Tdm!Keep(T, f)` is one face of the loop: the cells whose projection on face f lies
within a strongly connected component. Reachability is defined by closed sets
of rows, not by paths, so that the proofs need no induction. `TdmSimplify` is the loop
of all versions; `TdmCpu` and `TdmSlow` refine it. Their refinement mappings
take a half-finished face for a finished one: what the rest of the face
will remove is already gone. `TdmGpu` has one action per kernel; the threads and blocks of
a kernel write disjoint cells, or race to write the same value, and are not interleaved.

### The puzzle queues

`work[<<l, p>>]` is the queue of level *l* and priority *p*, `lists[p]` a worker's private list
of new neighbours; `pc` is the phase of `doWork`: `idle`, `expand` (`add_to_frontier`), `update`
(`update_queue`, which runs `mass_enqueue` list by list; `left` is its loop counter).
A gap is scaled to an integer, `Jitters * fit - jitter` for `fit - safe_rand()`; with two
values of the jitter both ties and different gaps of the same fit occur. `erase(elt)` of a
multiset removes *all* elements of an equal gap; an `id` tells such ties apart, which of
them `rbegin()` yields is left open. The bounds of a fresh queue are
uninitialised in the code, and the proofs show that no decision uses them. What can get lost: a full queue
refuses (`BoundedPuzPriorityQueue.h:87`) or evicts its worst, ties included; `dequeue` erases the ties of the element it returns (line 134), so an element that
`mass_enqueue` moves leaves its ties behind, however good they are; the take of the next puzzle does the same to a work queue, and a
restart or a clear empties it. `LossesJustified` admits just the first kinds while a worker collects and files neighbours. The
queues are only touched in `critical(queue)`, so a second worker adds nothing but other orders of
the same calls, which one worker produces as well. The weights by which a queue is
chosen are a nondeterministic choice.

### The staged search

`tpc[w]` is the control point of a thread in the loop around `doWork`: `test` (the loop condition and the
choice of a stage), `fetch`, `lookup` (`have_seen_isomorph`), `count` (statistics, results), `expand`,
`out` (at the barrier). Each of these is one critical section of the code, or one step of the thread
on private data and one section. The master thread only watches in this searcher (`Watch`), so it has no stage.
`main` is where the main thread is between two regions: `flag`, `save`, `exchange`, `clear`, `restart`,
`result`, and `done` or `exited`.

* A puzzle is its number of rows and a name; names stand for isomorphism classes, and a further
  row (`resizePuz(1)`) keeps the name. The puzzle with one row always fits perfectly.
* A work queue is empty or not, and any puzzle of the stage's height may come out of it (`Own`): what the neighbours
  of a puzzle are is not modelled, and every order of the queue is covered.
* Once a stage has expanded a puzzle its queue may also hold the element nobody filled in (`Unset`, finding 3): the 1 by 1
  puzzle of `Puz()`, with whatever gap the stack held. If that rounds to zero, it becomes a result and the main thread shifts the window for it, or the next
  stage takes it and adds a row. The 2 by 1 puzzle is no USP; the device slots are as wide as the search, so that
  expanding it throws (`GpuTask.cpp:169-170`), nothing catches that within the OpenMP region, and the process ends without a
  checkpoint (`ExpandThrows`).
* The isomorph cache is unlimited (`MAX_ISOMORPHS` is -1) and exact; the Bloom filter is left out.
* A checkpoint is written to another file and renamed, so that the last complete one is what a
  new process finds; a failed write leaves the old one. A crash can come at any point.
* A signal is delivered once per process; its two stores are two steps that fall between
  any two steps of the other threads.

### The baseline's device code

`TdmGpuBase` has one action per part of a round of `fb_kern` between two meetings of all threads: forward and
backward search, trimming, new ranges with the choice of pivots. Searches and trimming only add
nodes, so their result is the same closure in every order; which of the nodes of a range
becomes its pivot, and which range loses when two share an entry of the hash table, is left open.
Ranges are ints that wrap: `IntMax` is the largest, and `SafeRounds` the number of rounds whose ranges cannot exceed it
(2147483647 and 16 in the code). `baseRounds` is a ghost, the most rounds a face has taken.
`FbThreads` looks at what that leaves out: every access to the shared flag is a step there, and a barrier opens when all threads of
the block wait at one, wherever in the code.

### Checkers, searches and measures

A puzzle is a function from rows to functions from columns to values; `Usp` has what makes it a (strong) USP. `Checkers` has the algorithms of
`checker.cpp` as operators: `CheckUni`; `CheckBi` with the two tables of partial maps, of which only the used
rows and an identity flag matter; `CheckSat` with the clauses `construct_reduction` emits, while the solver is
satisfiability; the row heuristics; and `Check`, which combines them by height. `WitnessSearch` has
the two randomised heuristics step by step: `lrand48` is a choice, `layerCounts` are maintained as in the
code. `Measures` has the fitness functions whose result depends on the puzzle alone; where the
code samples at random, the operator is the set of the results. MIP and SAT solvers are external.

### State beside a puzzle

`IsoCache`: a canonical graph is a key, equal just for isomorphic puzzles. Lookups, resets, enabling, saving and
resuming are the actions; a file may come from before there was a filter or have a damaged last
block. `bloom_filter_deserialize` reports such a block, but `Search::deserialize` ignores its result (`search.cpp:182`): a search that
had a filter goes on without one and has forgotten what that knew. `told` and `lost` are ghosts: the keys remembered since the cache was
emptied, and those of them that such a resumption forgot, until they are told again. `TdmObject`: an instance is "full" or "small"; whether a device is free is a
choice. `PuzMarks`: the entries of a puzzle are a number, `doCopy` drops the mark and a move
keeps it; one worker, slot, queue and result list suffice because puzzles travel between workers through queues and results.
`SubsetFitness`: samples are sets of rows with two members or more, the neighbour lists are sets of signed
numbers, `Unknown` (-1) is an empty cache entry. When a sample is raised or lowered depends on averages
in the code; here it may happen at any time. What is a strong USP is a constant, a family of sets of rows that
is closed under subsets, as the implications between samples require.

### Packed puzzles and permutations

`PuzOps` has words as numbers and shifts as powers of four; `Elts` is `ELTS_PER_ENTRY`, 32 in the program and
two in the run, so that rows with a full last word, with a partly used one and of several words occur.
`Enumerations` goes through all puzzles and all permutations with the code's `next` and checks at each
what the operations compute.

## 3. Runs

| run | question | bounds |
|---|---|---|
| `pipeline_lifecycle` | life of the slots across calls and shutdown; refinement; liveness | 1 worker, 2 slots, 2 coordinators and queues, 1 dimension, slots of one puzzle, launches of two slots, 2 expansions of up to 2 candidates |
| `pipeline_coalescing` | batches of two workers in one launch | 2 workers with 2 slots each, 1 coordinator, 2 dimensions, slots of two puzzles, launches of two slots, an expansion of up to 3 candidates per worker |
| `pipeline_lost_submit` | finding: a submission's notification is lost | 1 worker, 1 coordinator, 1 candidate |
| `pipeline_statistics` | finding: the statistics read a slot given back | 1 worker, 1 coordinator, 2 candidates |
| `queues` | the bounded queues through ties, evictions, updates and restarts; the ring as a FIFO | 2 levels, 2 priorities, limit 2, 2 jitters, fits 0 and -1, 4 elements; 2 producers, 2 consumers, 2 cells, 2 pushes each |
| `puz_queue_untyped` | finding: an element nobody filled in is searched | the same queues |
| `tdm_versions` | all versions on the same instance; batches and reused buffers; the baseline | every strong puzzle with 3 rows and 2 columns (301 different instances); batches of up to 2 instances of different sizes, launched twice; ranges up to 31, which is 3 rounds |
| `fb_race` | finding: a flag is reset before all have read it | 2 threads, every face with 2 rows |
| `checks` | heuristics, checkers, measures and edge tests against definitions | puzzles of 1 to 3 distinct rows of width 2, 56 puzzles of 3 rows of width 3, 35 of 4 rows of width 4; for the measures also 125 of 3 rows unsorted or repeated; all 4096 faces with 4 rows, every edge of each |
| `puzzles` | what is kept beside a puzzle; packing; permutations | 5 puzzles in 4 classes, a filter of 5 bits and 2 hashes, 4 lookups that add; instances of 5 entries that simplify to 3; 3 contents of a puzzle; 3 samples of 4 rows, 2 puzzles; all puzzles of 2 rows and 3 columns in words of two entries; permutations of 4 |
| `staged_search` | stages, checkpoints, signals and crashes; liveness | 2 workers and the master, window of 2, target 2 rows, 2 names, `MAX_RESULTS` 2, `RESTART_THRESH` 0, 1 event |
| `staged_search_sigint` | finding: a SIGINT is forgotten | as `staged_search`, with 1 worker and 2 events |

**Why the bounds are enough for what is asked.**
`pipeline_lifecycle`: with two slots for two candidates per call and two calls, slots are
reused within and across calls, while ids of the first call and its pointers may still be
around; two coordinators and two queues give races for an id, stealing from the other's queue,
refused pushes with and without a next queue, and coalescing across queues.
`pipeline_coalescing`: two slots of a worker with two candidates and one
make launches of full and partial slots, and the second dimension makes deferral. That a
launch mixes the slots of two workers needs one coordinator and two workers.
With larger constants the safety properties that matter most are theorems (section 5).
`queues`: four pushes through two cells lap the ring, so that every cell is
reused and a thread can hold a position from the previous round; `tdm_versions`: three rows are the least size at which a component can be neither a
single row nor the whole face; the faces of `checks` go to four. That the cap of 3·s·s faces
cuts nothing short is checked for s = 3 and proved for every s (`FacesBounded`). Faces with three rows take up to three rounds, so that ranges up to 31
are reached and none is lost; what happens when ranges wrap is the theorems' matter. A batch needs trials that settle after different numbers of faces, and a second
launch over the first one's buffers.

In `queues` also a third element meets a full queue of two, and three or four elements with two
gaps per fit are needed for ties that a move erases together; two levels and priorities
let an element move in both. `staged_search`: two workers race for a result,
for the cache and for the queue; the two names of a height make a result and a miss; the window
shifts twice, the second time with a full window, so a stage is freed. `RESTART_THRESH` 0 makes
restarts happen after any puzzle. An event is an automatic checkpoint or a SIGINT; one
makes the file from which any number of crashes resume, at any later point, and a second is what a forgotten request takes. In a window of
two the guard on `MAX_RESULTS` is never reached, as the lowest stage is exempt;
the theorems of section 5 hold for every window.

`checks`: heights above `BiLimit` (7 in the program, 3 here) take the other way through `check`, so that
puzzles of four rows go through triples of rows, simplification and the SAT encoding. The wider puzzles were chosen so that some are
strong USPs, some only USPs and some neither.
`puzzles`: a filter of five bits takes keys for others; words of two entries put the third
column in a second, partly used word; three samples suffice for a pair of nested and a pair of
incomparable ones, and raising and lowering goes through all others.
`fb_race`: two threads are enough to part.

The checks look for deadlock in all runs but `fb_race` and `checks`. A finished search stands still (`Stopped`).
In the pipeline only the joined main thread may stop (`Terminated`). In the ring
nothing stops, since consumers may always poll; `MCTdm` may stop after the last version of its part.
`fb_race` ends when its threads have left the searches or are lost at different barriers. In `checks` a
search ends with its verdict, an edge test after its edges, and measures take no step.

### Properties

*Pipeline.* `TypeOK`; `SingleCustody` (an id is in one queue, hand, group or
deferred list, and its slot's state says so); `NothingDropped` (a Ready or Processing slot
is held by someone); `WorkersAccounted` (a worker counts exactly its slots in use, and has none between
calls); `OwnResults`;
`EveryCandidateOnce`; `LaunchNeverThrows`; `NoWorkAbandoned` (coordinators that left, and a
joined pipeline, leave no work behind); `InputFrozen` (action property);
`ImplementsService` (refinement); `ClaimedCompletes`, `CallsReturnIfAwake`,
`ShutdownJoinsIfAwake` (liveness).
*Queues.* `QueuesSound` (limits and cached bounds); `LossesJustified` (action property: while neighbours are collected and filed, nothing is
lost but the worst at a limit, what is refused for being no better, and ties of an element that moves);
`ImplementsIdQueue` (refinement); `RefusalsJustified` (action property); `EmptyIsHonest`.
*Simplification.* `VersionsAgree` (the loop, both versions on the CPU and the enhanced device end with
the same instance, within the cap, and what `simplify_cpu` maintains is current);
`VersionsImplementLoop` (refinement); `TrialsExact` (every trial of a batch gets what the loop makes of its own
instance); `BaselineExact` (the baseline's search finds the components, and its result is
the loop's, unless a face took more rounds than fit the ranges; the rounds of a face are bounded); `MatchingsPreserved`.
*Checks.* `SearchSound` (counts exact, witnesses real); `CheckersExact`; `MeasuresHonest`; `EdgesRemoved`.
*Puzzles.* `CacheHonest`; `CountHonest`; `MarksCurrent`; `GraphExact`; `AnswersExact`; `OperationsExact`;
`NextIsSuccessor` (action property).
*Staged search.* `TypeOK`; `WindowLinked`; `ExpandedOnce`; `SolutionsKept`; `CheckpointComplete`;
`CheckpointServed` (liveness).

## 4. Fairness and findings

`FairSpec` of the pipeline: every worker in an expansion and every coordinator that is
not blocked keeps running (weak fairness of its steps: they are operating system
threads, and their loops poll), and the main thread goes on once it has begun to stop the
pipeline. Three things are *not* assumed: that a worker starts another expansion, that
the search ends, and that a blocked thread wakes without a notification. One
assumption is strong: the coalescing loop polls until a deadline, so it cannot find nothing
again and again without giving up (`SF(StopCoalescing)`). The mutex of the
condition variable is always released after the two steps of a wait, so weak fairness is
enough to get it.

`FairSpec` of the staged search: every OpenMP thread in a region keeps running, an expansion
included, and so does the main thread, which is the master of the region. The first needs that GPU
calls return, which is what `CallsReturnIfAwake` says of the pipeline. Signals, crashes,
resumptions and automatic checkpoints are not assumed to happen. Under it every request for a checkpoint
is served (`CheckpointServed`): the loop condition of every thread, the master included,
reads the flag, so nobody is left at the barrier. What the request was for may be forgotten (finding 4).

In the pipeline a claimed slot is always finished. Calls return and shutdown ends *if*
some coordinator (for shutdown, each) is not left blocked for ever; that condition is the subject of
the first finding:

1. **Lost notification** (`pipeline_lost_submit`). `submit_slot` pushes and notifies
   without `gpuQueueMutex`. Both can fall between a coordinator's evaluation of the wait
   predicate and its wait; the notification is lost, the wait has no timeout, and if no other
   submission follows the expansion waits for ever. `cleanupGpuPipeline` sets
   `stopGpuWorker` and notifies without the mutex as well, so `join()` can wait in the same
   way. `src/README.md:88` says the pipeline is to "keep the GPU fed", and the flow it
   describes at lines 129-136 ends in "worker updates ILS frontier".
2. **Statistics of a slot given back** (`pipeline_statistics`). After a launch each slot
   is marked Done and *then* its `batch_size` is added to `gpuPuzzlesCompletedByWorker`. The
   owner may have emptied or refilled the slot in between. `src/README.md:124` says the
   program "reports live CPU/GPU simplify counts and per-device GPU launch statistics".
3. **An element nobody filled in** (`puz_queue_untyped`). `mass_enqueue` runs as often as its list had
   elements and ignores the result of `dequeue`. `dequeue` erases by value, so ties go together
   and the list is empty early; the loop then enqueues a default `q_elt_t` with an
   uninitialised gap and the type `NO_TYPE`, and a worker may search it.
   `backend/ils_stage.cpp:833` asserts `stats.searched_types[0] == 0`.
4. **A forgotten SIGINT** (`staged_search_sigint`). After an automatic checkpoint the main thread
   exchanges `should_exit_after_checkpoint` and then stores false in `should_checkpoint`. A SIGINT
   in between has its request overwritten: the search goes on until the next automatic checkpoint, by
   default six hours later. `src/README.md:121-122` promises a "SIGINT-triggered
   checkpoint before exit".

5. **A flag of two loops** (`fb_race`). `forward_reach` keeps the flag of its loop in `__shared__` memory, and
   `fb_kern` calls it twice in a row. Thread 0 resets the flag at the head of the second
   call (`backend/TDM_cuda.cu:193`) while another thread may still have to read it to leave the first
   (line 196; no barrier lies between). That thread goes round again, the barriers no longer match, and the second
   search can end before it has reached everything: nodes of one component are told apart and
   their edges deleted. `backend/TDM.cpp:75-77` says that simplification "Shouldn't effect whether the
   puzzle is determined to be a SUSP or not".

Smaller disagreements, met while modelling and shown by no run of their own: `fitness.h:7-9` promises a
maximal fitness "iff" the puzzle is a strong USP, which does not hold of
`HSFitTester` and `PiecesFitTester`, nor of `TopDownFitTester` for one row (see `MeasuresHonest`); `canonization.cpp:134`
says "Returns true iff no isomorphs of p have been previously seen", the opposite of the code; the subset testers abort on a puzzle of
one row (an assertion of `weight_function`); the parameter `required` of `hierarchically_special` is
not passed on in its recursion; the ring's constructor asks for a capacity "greater than zero"
(`GpuTask.cpp:27`), but one cell is not enough: "published at n" and "free for n + 1" are the same
sequence there (the searcher asks for at least two); and the branch of the `TDM` constructor for a puzzle
marked as simplified is never taken, as no constructor of `Puz` copies the mark.

## 5. Proofs

All theorems hold for every value of the constants under the assumptions
`PipelineAssumption`, `SizeAssumption`, `InputsAssumption`, `BatchAssumption`, `IntAssumption`, `NoneAssumption`, `QueueAssumption`,
`SearchAssumption`, `CacheAssumption`, `ObjectAssumption`, `ContentsAssumption`, `PuzzlesAssumption`, `FitnessAssumption` and `TaskIdQueueConstants` of
the modules: there is at least
one worker of the pipeline, queue, dimension and row; a worker has at least two slots, as the code
enforces; the ring has at least two cells; a queue holds at least one element; the window has at least two stages; the filter has at least one
bit and hash function; the rows of a puzzle are numbered from 0; simplification leaves at least one entry; an instance has its diagonal, because a witness
takes two different rows (`ComputeHasDiagonal` proves it of every puzzle); the buffers of a device have room for at least
one trial; the ranges of `SafeRounds` rounds fit an `int`; a fitness tester has at most
as many samples as there are sets of two rows or more, and a part of a strong USP is one; and NULL is not a node.

The provers cannot instantiate the library's induction theorems, whose parameter is an operator.
Where an argument goes over numbers (Warshall's intermediate nodes, the faces simplified so far, the edges of a removal, the slots of a launch) it
is put in terms of sets: a set of numbers that has 0 and is closed under successor is all of `Nat`
(`SetInduction`, from the well-foundedness of `<`), or a property of a finite set is taken at a minimal counterexample.

**Pipeline: custody** (`GpuPipeline_proofs`). None of the safety properties is inductive as it
stands. The inductive invariant `IInv` consists of the types the argument needs and of four
families: what each control point of a worker says about its slot in hand (`fill` has one
that is Filling, `submit` and `backoff` one that is Ready, the others none); the custody of
ids, which is `SingleCustody` and `NothingDropped` together with "a Processing slot
has a coordinator whose control point can hold it"; the counter, `WorkersAccounted`; and the phases of the
main thread (once it is stopping all workers are idle, hence all slots Empty and all
queues empty). The key step is that a slot is owned by exactly one worker, so that a step of a worker
touches only its own slots and its own counter, while a coordinator's step moves one id
from one place to the next. The counter is the cardinality of the set of slots in
use, so each step that changes the set adds or removes one element of it. Proved from it:

* `Custody` (`SingleCustody`), `NothingLost` (`NothingDropped`), `Accounting`
  (`WorkersAccounted`), `NothingAbandoned`
  (`NoWorkAbandoned`) and the action property `FrozenInput` (`InputFrozen`).

**Pipeline: contents** (same module). Custody says where a slot is, not what is in it. The second invariant adds
that: a slot holds a batch of its owner's present call that fits the pinned buffers, something once it is
submitted, and the results of just this batch once it is Done; the batches a coordinator has claimed are of one
dimension and fit one launch together, and during the launch the device holds their concatenation; and the
candidates a call has sent are those delivered and those in its slots, none of them twice. The lemmas it
rests on are about concatenation: its length, and what appending or removing one part does, so that
`scatter` takes from the front of the results just those of the slot at hand; and that the slots of a worker are an
interval of ids, in which one slot changes at a time. The refinement
of `ExpandService` maps a call to what has been asked for and what has been delivered: `StartCall`, the
delivery of a Done slot and the return of the call are the three actions of the service, all
other steps stutter.

* `BatchInvariance`; `TypesCorrect` (`TypeOK`), `LaunchesAccepted` (`LaunchNeverThrows`), `ResultsOwned`
  (`OwnResults`), `CandidatesOnce` (`EveryCandidateOnce`), `Refinement` (`ImplementsService`).

**Simplification** (`TdmCpu_proofs`). The loop invariant says that the largest
stable part of the input survives, that every perfect matching of the input does, and that
the last `noChange` faces were stable for the current instance. It rests on a lemma
that `Keep` is monotone and another that a permutation within the edges of a face never joins two components (a closed set
of rows is mapped into itself, hence onto itself). Proved from it:

* `TypeCorrect`; `Confluence`: the loop ends at the largest part of the input no face
  can simplify, so any version that follows the loop, in whatever order it removes cells, ends at the
  same instance; `MatchingsSurvive` (`MatchingsPreserved`); `DiagonalIsProof`
  (`DiagonalMeansUnique`): an instance simplified to its diagonal has no perfect matching but the
  identity. The search reports a solution on the strength of this last fact.
* `FacesBounded`: the loop never needs more than 3·s·s faces, the cap of the device code, which a comment there
  calls guaranteed (`backend/TDM_cuda_enhanced.cu:637`). An effective step on a
  face splits one of its components, and no later step on any face joins what is split (`ComponentsKept`), so
  it has at most s - 1 effective steps; the invariant keeps a record of them and of the idle faces in between.

**Incremental version** (same module). `simplify_cpu` never recomputes a projection. The invariant `CpuInv` says that
the three matrices of nodes are exactly what `init_adj_nodes` would build from the present instance, counts,
heads and both pointers in both directions, and that `to_remove` is what is left of the edges
between components. The heart is a lemma about one decrement (`DecAdjNodeKeeps`): the lists threaded on the
nodes with a positive count, unlinked at one node, are the lists threaded on the rest; one about a removed edge, where
the nodes of the other two faces are decremented once for each cell that is lost (`DecAllKeeps`); and one that the walk along
the lists finds just the edges with a count (`WalkFinds`).

* `ProjectionsStayCurrent`; `IncrementalImplementsLoop`: the search for components is the step of the loop, the removals stutter.

**Batches on a device** (`TdmVersions_proofs`). Warshall's closure is reachability (`ClosureIsReach`), so two rows have the same
range exactly when they are in one component. The invariant places every trial of a batch in the loop over its own instance: after the
same number of faces, with the last `no_change` of them idle while it is active, and settled for good afterwards (a stable instance is
not changed by further faces, so it does not matter that its kernels are skipped). Nothing is said of what a buffer held
before the launch, except where a kernel reads it, which is how reuse is covered.

* `BatchInvariance`; `TrialsAreExact` (`TrialsExact`).

**Reference version** (same module). `simplify_cpu_slow` asks for every edge whether the face has a perfect matching that uses it. As the
diagonal is always there, that is whether the edge lies within a component: the rows to which a path from the head of
the edge can be rotated into a permutation are all rows it reaches (`RotatableClosed`), and a permutation within the edges never leaves a component. The invariant adds that the edges already
tested stay within components when later ones are removed.

* `ReferenceSound`, `ReferenceImplementsLoop`.

**All versions** (same module). From the above: `VersionsFollowLoop` (`VersionsImplementLoop`) and
`AllVersionsAgree` (`VersionsAgree`): each version keeps a place in the loop over `input`, and two places that no face can
leave are the same instance, however many faces it took to get there.

**Baseline** (same module). A search or a trim repeats a step that only adds rows; after as many
repetitions as there are rows nothing is added any more (`ChainEnds`), so a search visits just what is reachable inside the ranges of its
pivots (`ForwardReachSearches`), and a trimmed row is a component of its own, since a component
of several rows always has a member left that precedes another (`TrimmedAlone`). The invariant `BaseInv` has three parts.
*Between rounds*: rows of one component have one range and the same marks; the rows
of a range that both searches have marked are one component at most; an eliminated row is alone in
its component and, as minus its number, in its range; and all others have ranges from 1 to the largest one of as many rounds. A round keeps
this because a pivot's two searches meet just in its component (`SearchesFind`), and because four times the range plus what
the searches told of a row separates whatever was separate or told apart (`UpdateTells`). When no pivot is left every row is eliminated or marked by both,
so equal ranges are equal components (`AllFound`). *Placed*: the call is where the loop is after as many faces.
*Rounds*: each round after the first settles a row for good, its pivots at least, so a face takes at most s + 1 rounds; this part
holds even when ranges wrap, and the first two as long as no face took more than `SafeRounds` rounds. The sums of the three
kernels count the entries (`EntriesCounted`). The theorem is about the rounds as the code means them, with
all threads meeting at each barrier: that they may part is finding 5.

* `BaseInvariance`; `BaselineIsExact` (`BaselineExact`); `SmallPuzzlesExact`: for puzzles of at most 15 rows, 16
  rounds of a 32-bit `int`, no condition on the rounds is left. This answers the TODO at `backend/TDM_cuda.cu:20`, "Prevent
  ranges from overflowing somehow", for such puzzles; for the larger ones the code admits (`MAX_S` is 500) the bound no longer excludes an
  overflow, although it takes a face that needs more than 16 rounds.

**Heuristic searches** (`Checks_proofs`). The searches keep only which rows are used, not by which layer; the invariant says that
a partial matching stands behind them: its entries are in the instance, no two of its layers share a row, it
has as many layers as steps were taken, and the identity flag says whether it is the diagonal so far. In the greedy search a
layer has the mark `TooBig` if it is matched and else the number of its entries in rows still free. That this number is
maintained is `LostCounts`: the entries in the row that goes, those in the column that goes and
the one in both are three disjoint sets, and they are what a layer loses. A count never exceeds N * N (`FreeBounded`),
so the mark is never taken for a count, and as long as a layer is open the least count is that of
an open one (`BestIsOpen`). A matching of as many layers as there are is a witness unless the flag is set.

* `SearchInvariance`; `SearchIsSound` (`SearchSound`).

**Tests of an edge** (same module). For every face with its diagonal, of every height, whatever the other edges.

`allowed_matching_edges` is Kosaraju's algorithm with the times of the searches as its only record (`DfsInv`). Of the
first search: an end is later than the discovery of all successors (`Timed`), a gray node reaches what was discovered after
it (`Forward`), and so whatever reaches a finished node has in its component a node that ends later or not
yet (`LaterFinish`). A path cannot be followed by induction over its length, as reachability is defined by closed sets; the
lemma `GrayRepresentative` finds the node where one leaves the finished part instead. `Ordered` is what the first search leaves to
the second. Of the second: the nodes of earlier trees are closed under predecessors and those of the present tree are in one
component (`Found`), since a root is the node that ended last (`RootComponent`). Hence `finish <= dfs_tree_time`
tells an edge into an earlier tree, which leaves the component, from one within the tree; and each edge is
walked once (`Listed`).

`has_perfect_bipartite_matching` keeps each edge of its network in one direction (`Oriented`). Between two searches each
row and column that the source or sink is joined to in reverse has one partner and the others none (`BalancedBut`). While a path is turned round,
from the sink, exactly one node has a surplus: a column no row, or a row two columns, and the next reversal moves the surplus on
(`Turning`; one lemma for each of the four kinds of edge). The path is only in `prev[]`; it is named by the least set that holds the
current node and is closed under `prev` (`PathSet`). That the search resumes at the node after the one it leaves, without a stack, loses nothing,
because everything before the place where it resumes has been visited, for every node on the path (`Exploring`). At the
end the visited nodes have no edge out. A perfect matching would then map the visited rows to visited rows, one to
one and missing a row without partner: that contradicts `InjectiveIsOnto` (`NoPathLeft`).

The two agree: renumbering turns the perfect matchings of the minor into those of the face that use the edge (`MinorMatching`), and
an edge is in one if and only if it is within a component (`UsedWithinComponent`). This is also why `TdmCpu` may take the
result of the one, and `TdmSlow` the verdict of the other, for granted.

* `FacesInvariance`; `EdgesAreRemoved` (`EdgesRemoved`).

**The ring** (`Queues_proofs`). The lemmas about cells are arithmetic: places less than the capacity apart
are in different cells, and a place and the same place a lap later share one. The inductive
invariant divides the places among the threads: from head to tail each is published or claimed by exactly one
pusher, from tail to head + capacity each is free or held, a lap back, by exactly one popper, and the
sequence of a cell behind the head is past its place. So every thread has its cell for itself, no
write meets a read, and the value of a claimed cell stays until its popper has it. To this go what
cells contain (published places hold published ids, and each published id is in a place, in
a hand or gone) and what a thread has seen: a cell found ready for a cursor stays ready until that cursor
moves, which is why the compare-exchange on the cursor alone is enough. The same facts carry the refinement: the two
compare-exchanges and the two stores of a sequence are the four actions of `IdQueue`, all other steps
stutter; that the capacity suffices is a count of the poppers by the places they hold.
Proved: `RingIsQueue` (`ImplementsIdQueue`), `RefusalsAreJustified` (`RefusalsJustified`), `EmptyQueueHonest`
(`EmptyIsHonest`), for every number of producers and consumers and every capacity of at least two.

**Puzzle queues** (`Queues_proofs`). The inductive invariant says of each queue separately that its
set is finite and within the limit, that `worst` is the least key unless it is empty, and that no key exceeds
`best`; with it go the types of the control variables. The steps of `enqueue` and `dequeue` are
lemmas about one queue, with the minimum and maximum of a finite set of integers as their
basis; each action then touches one or two queues. Proved from it: `CachedBoundsTrue` (`QueuesSound`). What is lost is judged step by step: an eviction takes all elements of the
worst key for a better one (`EnqueueEvicts`), a refusal is by elements that are no worse (`EnqueueRefuses`), and a list that has been
filed is empty, so that deleting the lists loses nothing (`FilingInv`): `LossesAreJustified` (`LossesJustified`).
Not covered are the ties of the puzzle a worker takes, which `dequeue` erases as well, and a restart, which empties a queue on purpose.

**Staged search** (`StagedSearch_proofs`). Four invariants, each resting on those before it.
`Custody`: what the cache knows is expanded or in the hand of exactly one thread on its way to be, and outside
a region no thread has anything in hand; a checkpoint is taken there, so what it marks as
seen has been expanded. `ExpandedOnce` alone is not inductive: it needs that whatever is in a hand is
already in the cache, and the restored state is good only because the saved one was.
`WindowOK`: the window is contiguous up to the current stage, in the live state and in the saved one;
so no two stages have the same height, a shift links the new stage to the old current one, and
following the order of the stages restores the links.
`Typed`: among others, a thread that has a puzzle in hand is at a stage of the window, and the puzzle is
one of that stage's height, the one nobody filled in, or the one grown from that (`ForStage`); results are the stage's own or nobody's, and those that fit perfectly by
their rows are its own; no known puzzle is higher than the current stage; so a shift frees no stage
that a thread works on, and the new stage has nothing known.
`Kept`: `SolutionsKept` together with its counterpart for the saved state, where nothing may be
in hand. Proved from them: `CustodyInvariant`,
`NothingTwice` (`ExpandedOnce`), `CheckpointsSkipNothing` (`CheckpointComplete`), `WindowInvariant`,
`WindowAlwaysLinked` (`WindowLinked`), `AlwaysTyped` (`TypeOK`), `SolutionsStay` (`SolutionsKept`).

**Isomorph cache** (`Puzzles_proofs`). That answers are right is not inductive: it needs that the memory
holds what it was told, in the bits of the filter while that is enabled and in the map otherwise, and the same of
the file, as a resumed process knows nothing else; of both, only for the keys not in `lost`. Bits are never cleared alone, so a key stays known
as long as its filter is.
Proved: `CacheIsHonest` (`CacheHonest`), for all hash functions, so also for those with collisions.

**TDM object** (same module). The invariant says where the simplified instance is once `simplify`
has returned: in the array, or behind a count that is not zero. Proved: `CountIsHonest` (`CountHonest`).
It rests on `Small` being at least one; were the simplified instance empty, a lazy result of
zero would be taken for none. The diagonal is never removed, so it never is.

**Marks of puzzles** (same module). Only puzzles in a slot that a device has finished are
marked, and nothing sets entries in these. Proved: `MarksAreCurrent` (`MarksCurrent`).

**Fitness by samples** (same module). `Rewire` touches the lists of one sample and of its old and new
neighbours; with distinct samples that leaves every list exact (`GraphInv`). The invariant of the caches, `CacheInv`, says that a fitness
or derivative which is not `Unknown` is that of the cached puzzle on the sample as it is now; that a sample marked
`dervsValid` lacks none of its derivatives; and that the total and the total derivatives kept are right *once nothing is unknown*, which is
all that holds while some samples have been invalidated. A changed puzzle keeps it because a sample without a changed
row has the same rows in both (`StartTrue`). What a visit learns of the neighbours is true because a part of a USP is
one: a sample of fitness one implies those it contains, one of fitness zero those that contain it, and the same of
derivatives at an entry that both have (`SpreadTrue`, `ImpliedTrue`). The visit of all samples is a fold, and the total is another; that
one runs along the samples in order and the other may take them in any is proved for finite sets in general (`FoldRuns`, `SumFacts`). The tester
without caches skips samples that others have decided; it counts each once, with its own value (`AdaptiveFitTrue`).

* `GraphStaysExact` (`GraphExact`); `CacheInvariance`; `FitnessAnswersExact` (`AnswersExact`): for puzzles of every
  size, every number of samples and every sequence of calls, raises and lowers.

**Only model-checked.** Liveness (out of the prover's reach); checkers and measures, packed puzzles and
permutations, which are recursive computations over data.

## 6. Not modelled, and why

* The device arithmetic below a kernel (warps, bit masks): the threads of a kernel of the enhanced searcher
  commute.
* Memory limits and device errors: the program exits on them.
* Which neighbours an expansion generates: a frontier is any set of puzzles.
* The millisecond after which a worker looks at its slots again (`ils_stage.cpp:249`): workers poll in the model. `markDone`
  changes the state under the mutex of the wait, so no notification is lost there and the limit is not needed for progress.
* The choice of a checkpoint file and files written with other parameters; a search started from
  a puzzle of a file. Such a search can restart its first stage, which has no predecessor and an empty queue.
* The weights by which a queue is chosen, and the format of serialized queues.
* `setRandom` and the text formats of puzzles and permutations; the sizing formula of the Bloom filter;
  `swap_stored_state`, which nothing calls.
* `TimingFitTester`, displays, logs and the counters of `stats` that nothing reads.
* `GpuTask::solve`, `encode`, `decode` and the HTCondor driver: not used by the searchers.
* The baseline searcher's own loop: it is that of `StagedSearch` without the pipeline and checkpoints.
* SAT and MIP solvers, nauty and the other code under `thirdparty`: external.
* `profiler/` and `paper/`: not part of the program.

What would add most from here: the `strong` flag as a variable of the device versions, which ignore it;
searches started from a file.

## 7. Running

    tlc -config pipeline_lifecycle.cfg MCGpuPipeline.tla
    tlc -config pipeline_coalescing.cfg MCGpuPipeline.tla
    tlc -config pipeline_lost_submit.cfg MCGpuPipeline.tla
    tlc -config pipeline_statistics.cfg MCGpuPipeline.tla
    tlc -config queues.cfg MCQueues.tla
    tlc -config puz_queue_untyped.cfg PuzQueue.tla
    tlc -config tdm_versions.cfg MCTdm.tla
    tlc -config fb_race.cfg FbThreads.tla
    tlc -config staged_search.cfg MCStagedSearch.tla
    tlc -config staged_search_sigint.cfg MCStagedSearch.tla
    tlc -config checks.cfg MCChecks.tla
    tlc -config puzzles.cfg MCPuzzles.tla
    tlapm GpuPipeline_proofs.tla
    tlapm Queues_proofs.tla
    tlapm StagedSearch_proofs.tla
    tlapm Puzzles_proofs.tla
    tlapm TdmCpu_proofs.tla
    tlapm TdmVersions_proofs.tla
    tlapm Checks_proofs.tla
