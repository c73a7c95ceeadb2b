# Aegis-ACBS in TLA+

This directory models Aegis-ACBS (a Go module for exact point-to-point shortest
paths on road networks): its searches, the graphs they run on from the import
file to the loaded arrays, and the tools that measure and judge them. TLC checks
the models on small instances; TLAPS proves the most important results for every
graph, every potential, every schedule and any number of concurrent callers.

## 1. The system

| Part | Source (under `src/internal/`) | State | Operations | Interacts with | What is hard about it | What makes it correct |
|---|---|---|---|---|---|---|
| ACBS, the coupled-bound search | `search/acbs.go`, `search/search.go` | two label arrays, two parent arrays, two settled arrays, incumbent on two scales, statistics | start, pop and settle, relax, stop at the bound, stop on a dry heap, cancel, reconstruct | radix heaps, workspace, potential, scheduler, context | the order in which two frontiers advance; the incumbent is only looked at for one node at a time; unsigned, saturating keys | the answer is exact for every schedule; the reported lower bound equals the distance |
| Scheduler, guards, ablations | `search/acbs.go` | direction, run length, edge budget, two efficiency scores, guard | choose direction, choose budget, close a chunk, engage and leave the guard | reads the heaps' fronts and the incumbent | must never influence the answer; must not starve a side or spin | every scheduled run is a run of the schedule-free search; a chunk always makes progress |
| Radix heap | `search/radix.go` | 65 buckets, `last`, `size` | push, peek, pop, reset | used by ACBS, one per direction | looking at the front moves `last`; the bucket being spread shares its array with its successor | a priority queue that neither loses an item nor panics |
| Workspaces | `search/workspace.go`, `search/pb_workspace.go`, the cache of `search/catch.go` | pooled arrays, touch lists, lazily cached potentials | acquire, touch, cache, release | every search, concurrently, through `sync.Pool` | state outlives the query, also a cancelled one, also on another graph | a query never sees a value of an earlier one |
| Potential | `search/acbs.go` 513-612 | none (a function of graph, source, target) | `phi`, `bounds` | keys of ACBS | floor of a float bound must stay consistent | no reduced arc cost is negative |
| Dijkstra, A* | `search/dijkstra.go`, `search/heap.go` | labels, parents, four-ary heap | pop, relax, stop at target | single workspace, context | A* reopens nodes; stale entries | exact |
| Bidirectional baselines | `search/bidijkstra.go`, `meet.go`, `pb.go`, `catch*.go`, `multibound.go` | two label arrays, incumbent, per-algorithm bounds and thresholds | pop, relax, prune, stop | workspaces, context | five stopping rules; unsigned differences | exact |
| Race portfolio | `search/race.go` | two goroutines, a channel of capacity two | start, send, receive, cancel | `Run`, context | winner returns while the loser still runs | first success wins, nobody blocks for ever |
| Dispatch, selection, validation | `search/search.go` | none | `Run`, `Select`, `Explain`, `Validate` | all searches | what is selected depends on features near thresholds | a validated path is a path of the reported cost |
| Graph construction | `graph/graph.go` | edge list, CSR arrays both ways, lazy node index | `Finalize`, `IndexByID` | everything reads it, handlers concurrently | parallel edges, offsets and cursors; the index is built lazily without a lock | CSR holds exactly the kept edges; a rounded-down bound stays consistent |
| Import | `graph/dimacs.go`, `osmxml.go` | nodes, ways or arcs read so far | read an element or line, build | `Finalize` | elements in any order; one-way and profile rules; rounding | the graph has exactly the roads that the profile may use |
| Graph files | `graph/binary.go` | the file, the writer's buffer | `Save`, `Load` | file system, importers, server | a full disk, a kill, a reader beside the writer | what loads is what was saved |
| Turn restrictions | `graph/turn.go` | none | parse and normalise OSM restriction relations | nothing: not wired into the importer (turn.go:20-23) | | a summary only |
| Benchmark and query pool | `bench/bench.go` | pool, samples, verdict | draw, reference, batches in two orders, judge | searches | Kosaraju with a stack of its own; a batch may fail or be wrong | a failed check is reported |
| Campaign | `scripts/validate-tail.sh`, `bench/regret*.go` | one report file per seed | resume, benchmark, move, validate | benchmark | kills and restarts | a campaign that passes has judged every query of every seed |
| Replay | `bench/replay.go` | measurements of a case, its verdicts | measure, trace, classify, judge the guards | searches | the reference may come last in a round; ties and floors | a guard passes only when it never harms and always helps |
| Stress driver | `bench/stress.go` | atomic index, counters, durations | claim, search, verify, report | searches, worker goroutines | workers share counters and go on after a failure | the report is that of one worker |
| HTTP server | `server/server.go` | the loaded graph | `/route`, `/health`, ... | graph, searches | concurrent handlers | every answer is a route of its own request |
| Command line, i18n, generators | `src/cmd`, `i18n/`, `src/scripts/gen` | flags | | | none | |

A query runs in one goroutine on a workspace of its own; the graph and the pools
outlive it. The concurrency of the system is between queries (workspace pools,
lazy node index), inside the race portfolio and in the stress driver; kills and
errors matter to the graph file and to the campaign. Inside ACBS the difficulty
is the interleaving of two searches under a scheduler.

## 2. The modules

| Module | Models | Checked by |
|---|---|---|
| `KeyArithmetic` | the saturating key arithmetic (acbs.go:873-920) with the width of the word as a parameter | all runs of the search |
| `CoupledSearch` | ACBS without its scheduler: before every pop any direction may be chosen | `core`, `saturation` |
| `ShortestPath` | the abstract specification: one correct reply per query, by Bellman's recurrence | refinement in `core` and `baselines`; TLAPS |
| `SearchInRange` | the constants the proofs assume, the inductive invariant and the dual certificates | TLAPS (`ExactnessProofs`) |
| `Traveller` | a ghost that drives through the graph once the search has answered | `core`; TLAPS |
| `SearchQuery` | what the searches assume of a query: positive costs, consistent bounds and potential | all runs of the search; `graph_store` |
| `WalkProofs` | walks and their costs, and that Bellman's recurrence finds the cheapest; paths put together node by node | TLAPS |
| `ExactnessProofs` | the inductive invariant of the search; that it implements `ShortestPath`, with the real scheduler too; that no traveller finds a shortcut; that the scheduler is free | TLAPS |
| `MCCoupledSearch`, `MCTraveller` | the instances | |
| `ACBS`, `MCACBS` | the scheduler, its heaps with stale entries, guards, ablations; EXTENDS `CoupledSearch` and implements it | `acbs`; TLAPS (`ExactnessProofs`) |
| `RadixHeap`, `RadixHeapProofs`, `PriorityQueue` | radix.go in the environment of one search direction, and the abstract queue it implements | `radix`, `radix_documented`; TLAPS |
| `Recursion` | induction on an interval, and that a loop of n turns, or one that descends, has a run, in a form the first-order provers can use | TLAPS |
| `Baselines` | bidirectional Dijkstra, MEET, PB, CATCH and multi-bound, each one definition on top of a shared frontier search | `baselines`, `published_bound`; TLAPS |
| `BaselinesProofs` | the proofs of all baselines and of the four-ary heap, up to the refinement of `ShortestPath` | TLAPS |
| `FourAryHeap`, `SingleSource` | heap.go as functions on sequences; Dijkstra and A* on top of it | `baselines`; TLAPS |
| `Dispatch`, `MCBaselines` | `Run` and `Select` over the above | `baselines`; TLAPS |
| `Workspaces` | the pooled workspaces of workspace.go and pb_workspace.go and CATCH's pooled cache, used by searches on graphs of different size | `race`; TLAPS |
| `Race`, `RaceProofs`, `MCRace` | race.go on top of `Workspaces`: two goroutines, a channel, a shared context, other callers; the proofs of both | `race`; TLAPS |
| `GraphBuild` | `Finalize` and the geographic bounds, as operators | `graph_store`, `tools` |
| `GraphImport` | the two importers, on top of `GraphBuild` | `graph_store`; TLAPS |
| `GraphStore`, `MCGraphStore` | `Save` and `Load`, on top of `GraphImport` | `graph_store`, `saved_graph`; TLAPS |
| `GraphProofs` | the proofs of the file format, of the arcs and of the bounds of imported graphs, and of the query pool | TLAPS |
| `NodeIndex` | route handlers and `IndexByID` | `node_index` |
| `SearchRun` | what a tool sees of a search: any outcome | |
| `QueryPool` | how queries are drawn, on the graphs of `GraphBuild` | `tools`; TLAPS (`GraphProofs`) |
| `Stress` | the stress driver | `tools`; TLAPS |
| `Benchmark`, `Campaign` | the benchmark; the campaign of benchmarks on top of it | `tools`; TLAPS |
| `Replay` | the replay of slowdowns | `tools`; TLAPS |
| `ToolsProofs` | the proofs of the verdicts of `Stress`, `Benchmark`, `Campaign` and `Replay` | |
| `MCTools` | one of the tools at a time, and their configurations | `tools` |

### How state and actions correspond to the code

*Directions.* The forward and backward blocks of `acbsWithOptions` are mirror
images. The models index the state by direction: `dist["F"]` is `df`,
`dist["B"]` is `db`, `parent` is `pf`/`pb`, `settled` is `settledF`/`settledB`,
and `Edges("B", v)` is `InEdges`.

*Steps.* `Begin` is everything before the loop. `Settle(d)` is a pop up to
and including the pruning test; `Relax` is one turn of the edge loop; the two
together make the inner loop. `StopAtBound` and `StopExhausted` are the two ways
out of it and `Cancel` the third. `WalkLeft` and `WalkRight` are the two loops
of `reconstructBidirectional`, one parent per step, including its giving up at a
node without a parent. No other goroutine sees the state of a query, so the
size of a step does not matter for interference; steps are that small because
the invariants have to hold in between.

*Heaps.* In `CoupledSearch` a heap is the set of nodes it can still deliver.
`ACBS` has the entries themselves, with the stale ones that `peekValid`
discards as it meets them. It does not fix the order in which entries of equal
key leave a bucket: any may be in front, and any number of stale entries with
the key of the front may have been dropped before it. `RadixHeap` has the
buckets, with bits as powers of two (`Power`, a recursive function) and the loop of
`prepareMin` as the recursive function of its turns (`Refiled`); its environment pushes
what one search direction pushes: keys no smaller than that of the node being expanded,
before the front is looked at again. `PriorityQueue` delivers a least item, once, or says
that there is none.

*Workspaces.* A record holds the arrays of one pooled workspace, as functions on
`1 .. capacity`; what a search may see is `1 .. len`. The forward arrays stand for
both directions, which are touched and reset alike. A search is abstracted to what it
does to its workspace: label after touching, pop, cache a potential or a pair of
bounds, in any order. Which workspace `sync.Pool.Get` gives is the runtime's choice.
There are four kinds, each with a pool of its own: single-source, bidirectional, PB's, and
the cache of CATCH's bounds. PB keeps one touch list for both directions and clears its
settled flags when it acquires, not when it releases; CATCH keeps no list but looks for
the flags that are set. A CATCH search holds a bidirectional workspace besides, and uses it
as the others do; in the model another goroutine stands for that.

*Race.* `Begin`, `Search`, `End` and `Send` are the goroutine around `Run`;
`Receive` is the body of `race` between its receives. The two share one query.
A search polls its context only now and then, so after a cancellation it may
still answer (`End`). The racers' query needs a search: with source and target
equal, `bidirectionalDijkstra` answers without a workspace.

*Words.* A `uint64` is `0 .. MaxUint64` with `MaxUint64` a parameter, and
`inf` is the largest word, as in the code. The margins of the scores wrap
(`Wrap`), the keys saturate.

*Single-source searches.* `Dispatch` composes everything `Run` may call: `Portfolio`
replaces the algorithm by the one selected, `Refuse` is A* on a graph without
geometry, and then the chosen search opens, pops and relaxes. `push` and `pop` of
`FourAryHeap` are the two sifting loops, each as the path along which items move
by one level; ties are broken as `lessItem` does, so the order of pops is the code's.

*Import and files.* Each `Read...` action is one turn of a parser's loop, over
whatever element comes next; `EndOSM`, or `EndArcs` and `EndCoords`, is what follows the
loop, up to and including `Finalize`, whose result is one record of the CSR arrays. `Create` is
`os.Create`, `Spill` one flush of a full buffer, `Finish` the return of `Save` with its
deferred `Flush` and `Close`, and `Kill` may come in between. `Open`, `Fetch` and
`Return` are `Load`, buffer by buffer. A file is its values, not its bytes: a value is
written whole or not at all. A `Load` whose file was truncated under it returns `Mixed`, a
value no property speaks of: the format has no checksum, so nothing can be promised.
`GraphsMeetSearch` instantiates `SearchQuery` on a graph that was built, and
asks for the assumptions under which the searches are checked and proved.

*Node index.* The three statements of `IndexByID` are steps of their own: make the
map, enter one ID after the other, look up. What a read or write of a map during
a write of another goroutine does is undefined: the process ends, or the read finds the
ID or not.

*Tools.* A search is a result out of the configured outcomes, whatever they are, as the
tools must judge wrong results too. `Claim` is the atomic `Add`, `Search` and
`Verify` the two halves of a worker's turn, each with its counters, which no one
reads before `wg.Wait` has returned, and are therefore not split further. `Batch` is a timed batch;
`Turn` says whose it is in each of the two orders. `Judge` makes one sample.
`Start`, `Written` and `Move` are the commands of the script between which it can be
killed; the temporary file is renamed in one step, and a report that is cut off
never gets the final name. `validate_regret` is one step: it reads finished files.

*What is abstracted.* Statistics that nothing reads back, the trace callback,
the floating-point geometry behind the potential (a query carries a consistent
potential; `GraphBuild` has an integer metric), and the sizes of chunks and windows,
which are parameters. Tag values of OSM that the importer treats alike have one
representative.

## 3. The runs

| Run | Instance | Question |
|---|---|---|
| `core` | every graph over a four-node ladder of arcs with absent, cheap and dear arcs, three potentials, words up to 100, and a traveller | exactness against `ShortestPath` and against every drive; incumbent, labels, parents and keys consistent; the lower bound valid; settled labels final; the call returns |
| `saturation` | words so narrow that keys are clamped, with the ablation that drops labels and without | an answer whose true distance fits the word is exact |
| `acbs` | eight-node corridors, eight option sets | the scheduled search implements `CoupledSearch!Spec`, loses no label, starves no side, contains its guard and returns |
| `radix` | 4-bit keys, three nodes | it is a priority queue, files by `last`, spreads downwards only, never panics |
| `radix_documented` | the same, with the precondition in the type's comment | violated: see section 6 |
| `baselines` | six bidirectional algorithms, Dijkstra and A*, the portfolio next to each of its thresholds, on the graphs of `core`; fans of four nodes for the four-ary heap | exactness, monotone queues, an incumbent that is up to date when it is tested, unsigned differences that do not wrap, termination |
| `published_bound` | multi-bound alone | violated: see section 6 |
| `race` | one race on a graph of one node, one other caller on graphs of one and two, a client that may leave | no answer lost, no private cancellation reported, no two searches on a workspace, pooled workspaces clean and caches the holder's, nobody blocks |
| `graph_store` | OSM and DIMACS files of up to five elements in any order; a path that may hold an older graph; disks of 0, 4 and 100 values, buffers of three | the graph has the roads asked for and meets the assumptions of the searches; a `Load` that nobody overtook returns a graph that was saved, or an error |
| `saved_graph` | the same | violated: see section 6 |
| `tools` | all graphs over a skeleton of three or four nodes, two workers and three queries, up to three batches, two seeds with two kills, one or two replayed cases | the verdicts mean what they say; queries have routes |
| `node_index` | two handlers, two nodes | violated: see section 6 |

*Bounds of the searches.* Four nodes are the least with two disjoint routes, a crossing rung
and a meeting node off the shortest route; that is where a stopping rule that
is one pop early, or an incumbent that is not retested, goes wrong, as the
mutants of PROJECT.json show. The traveller's budget is nine, the dearest route without a
cycle. `acbs` uses eight nodes with a budget of one edge,
so that a call has up to fourteen chunks: enough for the warm-up, a forced
alternation after two, the guard's start chunk and its whole window. Its scores
are in an 8-bit word, so that the wrapping margins are met. The radix heap has
five buckets, enough for a bucket to be spread over several others. The four-ary heap is
checked with two children to an item, so that four nodes give it three levels. Only cyclic
counters of the heap and finite searches occur, so only `race` needs a state constraint
(`Apart`): PB and CATCH, whose pools no other search shares, are served while no race and no
other search goes on, or the four pools would fill in all combinations. The proofs of
section 4 cover the combinations.
A graph of one node and one of two are enough for a workspace to be grown, cut and
used beyond its last length again; three workspaces are the most that three goroutines hold.

*Bounds of files and tools.* Five elements (`MaxElements`) are a way with its nodes, one of
them moved by a later element, and one thing more; parallel, reversed, looping and
zero-length arcs and dangling references are among the elements. The rooms are a disk that is
full at once, in the header, and never; the buffer of three values puts its boundary into
headers, nodes and lists of edges alike. A campaign of two seeds is killed or started again
twice (`MaxKills`), at any step. Times are multiples of 250 microseconds on either side of each
threshold: the ratio of 1.25, the floors, and the 5% of the static scheduler. The
campaign allows no slowdown (`maximum` 0, the default of the script); the replay has five of its nine
algorithms, both guards and whatever they are compared with.

*Fairness.* `WF(Work)` and `WF(Run)`: the goroutine of a query keeps running;
nothing else can disable its next step. In `Race` the two goroutines and the
receiver are fair, and a search ends, as the runs of the searches show; neither
other callers nor a client that leaves are. Cancellation is not fair: nobody has to
cancel. The tools, the graph file and the node index have no liveness property, and no fairness: the
tools' loops are bounded and wait for nothing but their searches.

## 4. What is proved

*The search.* For every finite set of nodes, every set of queries, every word width and every
schedule, under the named assumptions of `KeyArithmetic`, `CoupledSearch` and
`SearchInRange`. `RangeAssumption` there says that no walk the search can
take and no shift of a potential leaves the word (on road networks keys are far
below 2^64; `saturation` checks what happens beyond), and the proofs are about
the production configuration, `Pruning = FALSE`. That an imported graph meets the assumptions on
costs and potentials is `ImportedGraphsMeetSearch` below.

* `ExactnessProofs` proves the inductive invariant (`Invariance`). It is
  stronger than the properties the runs check since none of them is inductive
  alone: that a settled label is final needs the keys to be monotone, that
  needs consistency and the shape of the labels, that the incumbent is tight
  needs to know which arcs of the node in hand are still to be scanned, and that
  the answer is right needs to know what the two walks of the reconstruction
  have spelled out so far (`PathOK`). From it follow `TypeCorrect`,
  `KeysAlwaysMonotone`, `IncumbentAlwaysTight`, `ParentsAlwaysTight`,
  `SettledAlwaysFinal`, `IncumbentAlwaysReconstructs`, and `PathAlwaysExact`: the
  path is a chain of arcs whose costs add up to the reported distance, stated
  through the labels, which telescope along it.
* On it rests that the search implements `ShortestPath` (`SearchIsExact`): its one
  reply has the distance of Bellman's recurrence, a route of that cost, and a bound without a
  gap, or says that there is no route and there is none. The argument has three parts.
  *No walk is cheaper.* When the loop ends, the labels define a lower bound of what any walk
  from the source has cost where it stands, which no single arc can undercut (`Certificate`,
  one for each way to stop): the usual argument for bidirectional search with a consistent
  potential, as an invariant. *The incumbent is a walk.* Labels are costs of walks, by descent
  on the least label that is not (`ForwardLabelsWalked`, `BackwardLabelsWalked`), and the costs
  along the path telescope (`SpelledRoute`). *Bellman's recurrence has the cheapest walk.* Walks
  are the least set that the arcs close (`Walks`, in `WalkProofs`), so that a certificate, being closed, holds for
  all of them, without induction over sequences; that |Node| turns of the recurrence are enough
  follows by the number of nodes that can be reached for less (`RecurrenceExact`).
* `LowerBoundAlwaysValid` uses the same certificate while the search still runs: the sum of the two
  fronts is at most the distance, on the scale of the keys, unless the incumbent is the distance.
* `Optimal` says the same of the search without mentioning Bellman: once the call has returned, a
  traveller starts at the source and takes any arcs he likes, for a budget that may be any number;
  he never stands at the target having paid less than the reported distance. The invariant
  (`TravellerInvariance`) is that his walk has a certificate.

*The scheduler.* `ExactnessProofs` proves, besides, for any widths of windows, budgets and scores and any of the option
sets, that every step of the scheduled search is a step of `CoupledSearch` or leaves its state alone
(`ScheduleIsFree`). The step that settles needs that the top of a heap is a node the abstract heap may
deliver; this needs `LabelsQueued`, and the converse, that a fresh entry is an open node, to show that
a dry heap is an exhausted one. Hence `ScheduledSearchIsExact`. `NeverStarves` and
`GuardAlwaysContained` are about the scheduler alone.

*The radix heap.* `RadixHeapProofs` proves that it is a priority queue (`HeapIsPriorityQueue`), for any width
of the keys and any number of nodes. The invariant (`RInv`) says where an item must be: two
keys share a bucket exactly if they first differ from `last` in the same bit, so that
raising `last` to the least key of the lowest bucket moves that bucket strictly downwards
(`HeapSpreadsDownwards`) and leaves all others as they are (`HeapFiled`). `HeapNeverPanics` needs,
besides, how the search uses the heap (`AtFront`): `last` is the key of the node being
expanded until the front is looked at again.

*The baselines.* `BaselinesProofs` is about `DispatchSpec`, so about every call of `Run`. Its first part assumes no
range: these theorems hold with clamped keys too. The invariant (`DispatchInvariance`) has three
layers. *Queues* (`QueuesAlwaysMonotone`): every kind of key grows along an arc, and clamping keeps the
order (`PriorityAlongArc`, `DoubledMonotone`), so that what is pushed is no smaller than the node being
expanded. A settled label may still improve if both of its keys are clamped to the same word; its key then only gets
smaller. *Incumbent* (`ConnectionsNeverMissed`): each edge is tried when it is relaxed, which is why
the pops may try so little. *Stopping tests* (`DifferencesAlwaysFit`): while a search on plain distances has not
settled the root of the other one, the route of the incumbent, which is a walk (`RoutesReal`), has
a node in each queue no further away than the incumbent (`FrontierBehind`), so that the
subtraction does not wrap; and as it does not wrap, the test fires before the root of the other
search is settled (`TakeStep`, `PlainTests`). Each needs the other. From the same follows
`CutNeverApplies`.

The second part proves that every search is exact (`BaselinesAreExact`, the refinement `BaselinesExact`), for queries
whose keys fit the word: `BoundedBy` says that with no arc above c and no bound above p, twice c times |Node|, plus p, is
below `MaxUint64`; `MCBaselines` has TLC evaluate it for the queries of the run (`BoundAssumption`). That no
label exceeds c times the number of nodes labelled so far is then an invariant (`LabelsWritten`: a node
labelled anew pays for its arc), so no key is clamped and settling is final (`SettledFinal`). What is
left is that each search may stop where it does. *Coupled* (bidirectional Dijkstra, MEET, PB, multi-bound): the sum of the
two front keys reaches the incumbent on the scale of the keys (`CoupledExact`). *CATCH*: the forward front alone, with the
rest of the way, reaches it (`CatchExact`); its test of the backward front is not needed. *Dry*: one side has settled
all it can reach (`DryExact`). *Dijkstra and A\**, which reopen nodes and may have labels that are not final: every label
has a fresh item in the queue or has been handed on along all arcs (`LabelsCovered`), so that a walk cheaper than the
target's item would have to leave the nodes handed on through an item less than it (`TopExact`). This needs
that `push` and `pop` lose nothing and keep the heap in order (`PushFacts`, `PopFacts`): the places through which an item
rises or sinks are a chain (`Rises`, `Sinks`), and the first item is a least one (`HeapTop`). The paths telescope as
above (`WalkLeftInRange`, `WalkRightInRange`, `Walk1InRange`), which also says that `reconstruct` never comes to a node
without a parent.

*The graph and its file.* `GraphProofs` is about everything an import command may do, for any set of
elements, any files, any metric, any sizes of the disk and the buffer.

* *What loads was saved* (`LoadedAlwaysSaved`). The invariant (`StoreInv`) is that the file, with what is still in
  the buffer, is a prefix of the values of a graph, that what a reader has got is a prefix of that file, and that
  every graph concerned is finished: finalizing again what leaves its nodes changes nothing
  (`IsFinished`). Of a prefix of such values `Load` makes the graph if it has all of them, and an error
  otherwise (`PrefixLoads`), because each degree tells where the next list starts. That `Finalize` finishes
  (`FinalizeFinishes`) needs that a list without parallel arcs in the order of its heads is not changed by
  sorting it again (`DedupFacts`) and that cutting the flattened lists at their offsets restores them
  (`FlattenFacts`). The graphs that the path may hold at the start are assumed finished
  (`SavedAssumption`): they are results of earlier imports.
* *The searches may run on it* (`ImportedGraphsMeetSearch`). The importers hand `Finalize` lists of arcs between
  known nodes (`ListsFacts`, `RawFacts`), a least cost per metre exists (`LeastFraction`: of a finite set of
  fractions, by the number of those that are less), and rounding the bounds down keeps the triangle
  inequality of the metric, off by no more than the cost of an arc (`RoundedSum`, `BoundFacts`). `SearchQuery`
  has no other assumption on costs and potentials.
* *Its arcs are the roads of the file* (`ArcsAlwaysRoads`). The invariant (`RoadsInv`) adds
  that a DIMACS importer that has gone on to the coordinates has found every id in range. What is left is
  that the step that builds the graph builds the right one (`OSMBuilt`, `DIMACSBuilt`). An arc
  goes into the reverse array behind the arcs to smaller heads and those to its own head that come before it
  (`Slot`, `Rank`); no two arcs have the same slot, none leaves the block of its head, and the cursors of
  `Finalize` put each arc into its slot (`ReversedFacts`). As the arcs come tail by tail, each
  block comes out in the order of the tails (`InBlockFacts`). Of parallel arcs the
  cheapest is left (`CheapestKept`), so that arcs and pairs of neighbours correspond one to one and can be
  counted (`ArcsCounted`). That a way read before the nodes it uses gives the same arcs needs that the used nodes
  get distinct consecutive indices (`UsedIdsFacts`), and that the metric is symmetric (`DrivenFacts`).
* *The pool of the benchmark is a largest strongly connected component* (`PoolAlwaysRoutable`), on every
  graph that `Finalize` has left (`IsFinished`, part of `PoolSpec`; the importers give no other), of any
  number of nodes: Kosaraju's algorithm, with its stack, is right. `QueryPool` says "reached" with sets that no arc leaves, which
  makes it transitive at once; for finished graphs that is the same as a route, arc by arc
  (`ReachedByRoute`), and `QueriesHaveRoutes` says of each query that it has a route there and one back.
  The invariant of the first pass (`IsWalked`) is the textbook's argument without times and
  trees: where a node is listed, some stretch of the list that ends there holds only nodes it
  reaches, and no arc leads into the stretch from before it (`HasTree`). To hand this on it has to say, of
  each node still on the stack, where its stretch will begin: arcs from what was listed before stay there, or end
  on the stack below it (`HasOpenTree`). Then the flood of the
  second pass, against the arcs and stopped by what is taken, cannot leave the stretch of its root, and takes
  exactly the nodes that reach the root and are reached from it (`FloodFacts`). What is left is that the first pass
  ends: each of its steps settles one more of finitely many tasks, to see a node, to look at an arc, to
  list a node (`Advances`), of which there are as many as `FinishOrder` makes steps (`TaskNumber`); and that the
  arrays of both directions hold the same arcs (`FinishedNetwork`).

*The pools and the race.* For any number of goroutines, queries and nodes.

* `RaceProofs` first proves the isolation of the pools (`Isolation`) from
  `WorkspaceAssumption` alone. Cleanliness of
  what is pooled is not inductive: the invariant says of every workspace, in use
  or not, that its touch lists, or CATCH's flags, are complete (`Tidy`), and that whoever
  holds one finds only values of its own query in its caches and no node settled that it has
  not labelled. PB's settled flags may be left over in the pool, so the invariant has to say
  that acquiring clears those the search can see. From it follow
  `WorkspacesTypeCorrect`, `AlwaysCleanInPool`, `CachesAlwaysOwn` and
  `AlwaysExclusive`.
* It then proves the race with any number of other callers (`RaceAssumption`
  besides). `ReplyIsAnAnswer` and `ErrorOnlyIfCallerGone` are not inductive. When the
  second result is an error too, the reply is right only because the error that was kept back
  came from the *other* racer, which needs the contents of the channel (`Channel`,
  `KeptBack`); and an error implies that the caller has gone only because, until `race`
  returns, nobody else has cancelled the shared context (`Private`). With these and the type invariant
  (`RTypes`, `Idle`), `RaceInvariance` follows, and from it `ReplyAlwaysAnAnswer` and
  `ErrorsNeedTheCallerGone`. `RaceIsolates` lifts the isolation of the pools to the race:
  every step of it is a step of the pools or leaves them alone, so the lemmas about
  the pools apply while the loser goes on after the reply. Its
  statement is all three of `Exclusive`, `CleanInPool` and `CachesAreOwn`.

*The tools.* `ToolsProofs` proves that the verdicts mean what they say, whatever the searches return.
What the tools accept as a configuration (`StressConfig`, `BenchConfig`, `CampaignConfig`,
`ReplayConfig`) is the only assumption besides `WorkerAssumption`, and part of each specification.

* The stress driver, for any set of workers, number of queries and sampling interval: the report
  is that of one worker (`StressReportIsRight`). The counters say nothing by themselves; the
  invariant (`StressBooks`) gives each as the cardinality of a set of queries, and for that it needs
  that no query is with two workers and none in the books that is still with one (`Claims`).
  Each step then moves one query from one set to another.
* The benchmark, for any numbers of queries and rounds, any list of algorithms and both orders
  (`BenchVerdictHolds`). The invariant says at which position of `samples` the sample of a query
  and an algorithm is to be found, by division (`Progress`), and that what a sample tells of its batches is true
  (`Judged`).
* The campaign, for any number of seeds and wherever it is killed and resumed
  (`CampaignVerdictHolds`): a file that is there is the report of a finished benchmark that was all
  correct (`Files`), so a complete one, and the number of rows can only reach the minimum if each
  seed has one for each query (`EveryRowIsThere`). `CampaignConfig` takes the script's default,
  which lets no slowdown pass.
* The replay (`ReplayVerdictHolds`): the rotation measures each algorithm once per round
  (`RotatedOnce`), the lower median exists and is unique, and agreement with the reference
  is an equivalence, which turns the comparison with one answer into that of all with all.

*Recursion.* The library's induction theorems take an operator as a parameter, which the provers cannot
instantiate. `Recursion` states induction for sets and recursion for functions instead
(`IntervalInduction`, `PrimitiveRecursion`, `DescendingRecursion`), from the least number of a set of numbers, and it is with
these that `Power`, `Refiled`, `DistancesFrom`, `RouteCost`, `Offsets`, `Dedup`, `Reversed`, `Lists`, `Parse`, `FinishOrder`,
`Flood`, `Components`, `push` and `pop` are reasoned about, as is the division
(`DivisionUnique`) by which the benchmark finds a sample and the radix heap a bit.

*Only model-checked.* Termination and `NobodyBlocks`: liveness under fairness is out of the
prover's reach. The pruning ablation and clamped keys (`AnswersDespiteClamping`): outside
`RangeAssumption` the invariant does not hold, and what replaces it is open.

## 5. The plan

Done: everything in section 2.

What is left, in this order:

1. Proofs: the search with pruning, and with clamped keys.
2. `trigger_profile.go` and `matrix.go` as operators over finished reports.

### Not modelled

* The projection potential and floating-point geometry: square roots and trigonometry are
  out of TLC's reach; a query carries any consistent potential, and `GraphBuild` has integer bounds with
  the code's rounding.
* `Explain`, which repeats the decision of `Select` in words.
* The summary figures of `Finalize` (degrees, diameter, heuristic strength): they only feed
  `Select`, whose model takes them as parameters.
* The limits on sizes: the check of `Finalize` for too many edges (graph.go:112) and those of `Load`
  on its header and its strings (binary.go:48, 92), which no graph of the runs comes near.
* `chooseTarget` takes an unknown suite for the regional one; the runs draw mixed queries only.
* Turn restrictions: a parser and a normaliser, not wired into the importer; no search depends on it.
* `trigger_profile.go`, `matrix.go`, statistics and report writers: they rearrange finished reports.
* The pages and JSON of the HTTP server, and its handlers that only read the graph.
* The command line, internationalisation and generators: input and output. What the import, benchmark and
  `validate-regret` commands do with errors and verdicts is in `GraphStore` and `Campaign`.

## 6. Findings

Each of the first four is a run that TLC finds violated.

* `radix.go:5-8` states that keys need be no smaller than *the most recently
  removed key*. The code compares with `last`, which `radixPeek` raises too: push
  1, push 2, pop 1, peek, push 1 panics (run `radix_documented`). ACBS never
  pushes between a peek at a frontier and its pop, so it is not affected
  (`radix`, and `KeysMonotone` in `core`).
* Multi-bound stores the bound it stops at unclamped as `terminationLowerBound`
  (multibound.go:184), the largest of bounds that its comment calls admissible
  (multibound.go:11-12, 25). It may exceed the distance of the same answer (run
  `published_bound`): 5 for a route of 4, as the sum of the fronts bounds what a further connection would
  cost, not the optimum. ACBS clamps its own (acbs.go:190-192). The distance is exact all the same
  (`baselines`), and nothing reads the field of this algorithm.
* `Save` defers `Flush` and `Close` and drops their errors (binary.go:18-20). With its buffer of
  1 MiB a small graph reaches the file in `Flush` only: on a full disk the import command prints
  "created" (main.go:115) over a file that does not load (run `saved_graph`), which graph_test.go:25-31
  takes for granted. A later `Load` notices, as no proper prefix of a file loads (`LoadedWasSaved`).
* `IndexByID` assigns an empty map and fills it then, without a lock (graph.go:200-206). A second
  handler takes it for complete and replies "not found" for a node of the graph (server.go:205), or
  the runtime ends the process (run `node_index`). docs/DATA.md:187 and server_test.go:35-36 say that a request may
  name any node; no test sends two requests at once.
* The comment of CATCH gives `upper <= bF + bB` as its stopping rule
  (catch.go:112-121); the code stops when each key alone has reached the
  incumbent, as its inner comment explains. The rule of the outer comment would be
  wrong: it is the fault with which `BaselinesExact` is tried.

Seen while modelling and proving, and not runs:

* MEET never cuts (meet.go:101, 140): a label that reaches the incumbent has fired the stopping test
  before it can be popped (`CutNeverApplies`), so its `PrunedAtPop` stays zero.
* The benchmark judges an algorithm by the last search of its median batch (bench.go:265-320, 327-358).
  Other batches, and other searches of a batch, may be wrong unseen; `BenchVerdict` says
  what the verdict does mean.
* A report without a usable row is skipped even if it says that not all is correct
  (regret_matrix.go); only the minimum of queries that validate-tail.sh asks for makes
  up for it. `Campaign` starts in an empty directory and keeps its settings: reports of another seed list, or of
  other settings, in the same directory could make up for missing ones.
* docs/BENCHMARKING.md:279 asks of an adaptive-scheduler tail an advantage of at least the absolute
  floor; the code takes half of it (replay.go:416).
* docs/DATA.md:134-142 says that the file holds the reverse arrays and cost metadata; `Save` stores
  the forward arcs, and `Load` derives the rest.
* A `Load` beside a `Save` may read parts of two files; nothing in the format could tell.
