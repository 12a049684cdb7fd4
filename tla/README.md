# Verification of FIPS MKFirm

FIPS MKFirm computes static schedules for time-sensitive networks (TSN) in which
frames also cross wireless links of varying delay. Its core is a *disjunctive
graph*: one **transmission operation** per frame and link of its route, *job*
edges between consecutive hops of a frame, and, per link, a total order of the
operations that induces *machine* edges (the link is busy) and *FIFO* edges (the
queue behind the link may not reorder frames). A schedule is the longest path to
every operation. The heuristic reorders and merges operations until the schedule
meets the deadlines, and a configuration (gate control lists, stream filters) is
derived from it.

This directory holds TLA+ modules translated from the C++ sources, the TLC runs
that check them on small instances, and TLAPS proofs of the properties that
matter most for every instance. Source locations below are relative to the
repository.

## 1. Inventory

The program is sequential. What makes it hard is not threads but long cascades of
steps over redundant representations that must end in an agreeing state, caches
that must be invalidated, and a graph that must stay acyclic under operations
that are each locally plausible.

| Part | Source | State | Operations | Used by |
| --- | --- | --- | --- | --- |
| Transmission operations | `src/dgm/transmission_operations.*` | operations, per-link vectors, weights | copy, relink, lookup, weight merge | everything in `dgm` |
| Flip cascade | `src/dgm/transmission_graph.cc` | per-link vectors, `position_`, `flip_log_`, requested flips | `flip`, `undo_last_flip` | `merge`, heuristics, tests |
| Merge and cache | `src/dgm/transmission_graph.cc` | job edges, erased operations, `critical_path_.valid` | `merge`, `critical_path`, `is_feasible`, copying | aggregation, heuristics |
| DFS traversal | `src/dgm/traversal.*` | iterator stack, colours of the operations | `traverse<FORWARD/BACKWARD>`, event handlers | critical path, configuration |
| Critical path | `src/dgm/critical_path.*` | per-operation objective and predecessor, `valid` | `compute`, `traverse_operations` | `TransmissionGraph` |
| TSN configuration | `src/dgm/tsn_configuration.*` | gate windows per link and queue | `PeriodicGate::+=`, `extend_to`, `entries` | simulation input |
| (m,k)-firm extension | `src/dgm/mk_firm_extension.*` | elevations, token buckets, stream filters | prolongation, deferment, fault isolation, PSFP windows | `derive_tsn_configuration` |
| Graph merger | `src/dgm/transmission_graph_merger.*` | none (builds an initial order) | `generate`, `consistent_merge` | initial heuristic |
| Initial heuristic | `src/heuristic/initial/*` | current wired and wireless graphs, accepted streams | `add_stream`, `add_wired`, `add_wireless`, compression | benchmarks |
| Topology, routes | `src/network/topology.*` | devices, hops of a route with parents and children | `add_path`, `add_link`, traversals | streams |
| Streams | `src/network/stream*.{h,cc}` | streams, hyper cycle | `frames`, filters, JSON input | graph construction |
| Histograms | `src/network/histogram.*` | delay bins | `compute_pdb`, `compute_reliability` | streams |
| Nested generator | `src/utils/generator.h` | stack of nested coroutines | `yield_value`, `operator++` | all traversals |
| Intervals, topological sort, monitor | `src/utils/*.h`, `src/heuristic/diversification` | – | – | helper, unused, stub |
| Scripts | `scripts/*.py` | – | generate simulation input, plot | outside the program |

### How the parts interact

* The constructor asks `StreamStorage::frames` for frames and the `Route` of each
  stream for its hops, creates one operation per frame and hop, appends it to the
  vector of its link and connects consecutive hops.
* `flip` and `merge` change the per-link vectors and `position_`; `merge` also
  changes job edges and erases operations. Both must leave `check_consistency()`
  true, which `merge` asserts and the tests assert after `flip`.
* `critical_path()` runs `DFSTraversal` over the graph with handlers that compute
  the longest path, and caches the outcome in `critical_path_`.
* The heuristic copies a graph, merges or reorders the copy, asks
  `critical_path()`/`is_feasible()`, and keeps or drops the copy.
* `derive_tsn_configuration` traverses the graph once more and extends the gates
  of each link and queue by the window of each operation.

### What is hard, and the properties that make each part correct

* **Flip cascade.** Passing one operation of the same queue obliges job neighbours
  on other links to pass each other as well. Correct when no queue ever has to
  reorder frames after a flip, both representations agree, the loops stay within
  the vectors, the cascade ends, the caller's operation arrives, and an undo leads
  back. (*modelled, checked, proved*)
* **Merge.** Correct when the job edges are those of the original graph with each
  equivalence class contracted, no erased operation is reachable, FIFO consistency
  holds, and a result computed before is not used after. (*modelled, checked; proved for
  merges of pairs that are apart but for FIFO consistency; two disagreements found*)
* **Traversal and critical path.** Correct when every operation is finished after
  all its predecessors, the objective is the longest path, a cycle is reported if
  and only if there is one, and the search ends. (*modelled, checked; proved but for the
  end of the search*)
* **Configuration.** Correct when a gate is open exactly in the windows of its
  operations, in every hyper cycle, and the windows of one queue keep its frames apart
  however late they are. (*modelled, checked, proved; windows on first hops can overlap*)
* **(m,k)-firm extension.** Correct when token buckets cover whatever may be elevated
  in any interval, and an elevated frame is admitted until its deadline. (*modelled,
  checked; two disagreements found*)
* **Merger and heuristics.** Correct when a rejected stream leaves no trace, an
  accepted one leaves feasible graphs, every merged graph has FIFO queues, as
  `initial.cc` asserts, and no call follows a null pointer. (*modelled, checked; one
  disagreement found*)
* **Routes and networks.** Correct when childs and parents are the links of the paths
  added, however they join, and every link lies between a talker and a listener; when
  copies and reloaded networks are the same. (*modelled, checked; proved of routes*)
* **Histograms.** Correct when a budget is the smallest that has the reliability asked
  for. (*modelled, checked*)
* **Nested generator.** Correct when a loop sees every value of every nested coroutine
  once and in order, and ends. (*modelled without moves, checked*)

`PROJECT.json` lists the hazards at their lines.

## 2. Plan

The modules, in the order in which they were written. Each of the first three and of 6
and 7 has an MC module of its own; `MCSupport` instantiates the parts 4, 5 and 8, which
share no state with the others, and the token buckets.

1. `TransmissionOperations`, `ConsistentFlip`, `AtomicFlip`, `BuildTransmissionGraph`:
   the flip cascade refines an atomic flip. Theorems: type correctness, agreement of the
   representations, bounds, FIFO queues, refinement, progress, flips on trees end in place.
2. `DisjunctiveGraph`, `GraphOperations`, `TransmissionGraph`: atomic flips and `merge` on
   mutable job edges, with the cache of the critical path. Reference: the original graph
   with merged operations contracted. Theorems: frames are kept, job edges are contracted,
   merges are closed, no flip is overlooked.
3. `EdgeIterator`, `Traversal`, `CriticalPath`: the generator as a state machine over
   colours and a stack, composed with the handlers; compared with a longest-path
   definition. Theorems: every edge is visited once; order and extent of finishing; costs are those of longest paths;
   cycles are reported and printed.
4. `Route`, `NetworkTopology`: routes grown hop by hop, networks dumped and loaded.
   Theorems: a route is its links, which lead from talkers to listeners; a copy is the same
   route.
5. `NestedGenerator`, `FlatGenerator`: nested coroutines refine one flat sequence.
6. `TokenBucket`, `MKFirm`, `TSNConfiguration`: the handlers of the configuration on top
   of those of the critical path; windows and buckets against definitions over time.
   Theorems: the frames of a queue are kept apart, gates are open in the windows.
7. `GraphMerger`, `IncrementalHeuristic`: the heuristics over complete graphs.
8. `PacketDelay`: delay budgets of histograms.

How they build on each other: `TransmissionGraph` and `GraphMerger` use the operators on
graph records of `GraphOperations`, which extends `DisjunctiveGraph`; `CriticalPath`
extends `Traversal`; `MKFirm` extends `CriticalPath` and `TokenBucket`, and
`TSNConfiguration` extends `MKFirm`; `IncrementalHeuristic` extends `GraphMerger`.

Section 11 says what is proved and what is left to TLC.

## 3. The flip cascade

### Modules

`TransmissionOperations` holds what does not change during a flip: the operations
with their link, queue (`pcp`), frame and job neighbours, and the operators on
*arrangements* (functions from operations to positions): `related_neighbor_pairs`,
`check_consistency`. The terminals SOURCE and SINK are left out because
`related_neighbor_pairs` skips them. Links are numbered in the key order of
`std::map<Link, ...>`, because the cascade takes its requests in that order.
`OpAssumption` and `RouteAssumption` state what the constructor builds.

`ConsistentFlip` is `flip` and `undo_last_flip`, one action per loop iteration:

| Action | Code (`src/dgm/transmission_graph.cc`) |
| --- | --- |
| `Flip(o, pos)` | 158-168 and the choice of direction, 322-329 |
| `TakeRequest(o)` | 347-351: smallest key, `log_flip`, erase |
| `SwapStep` | 353-385: swap, both positions, log, requests for job neighbours |
| `EndRequest` | 353: the loop condition fails |
| `Return` | 347: no requests left |
| `UndoLastFlip` | 170-177 |

| Variable | Code |
| --- | --- |
| `order[l]` | `processing_order_.map[l]`, as a function from slots |
| `position[o]` | `position_[o].second` |
| `flip_log` | `flip_log_` |
| `req_flips` | the map of the same name; the link of a key is that of its operation |
| `mover`, `new_pos`, `cur_pos` | the variables of the for loop |
| `policy` | the template parameter `P` |
| `inst` | the caller's instruction, to state what it asked for |

`AtomicFlip` is the promise to a caller: a flip moves operations of one frame only,
in one direction, at least as far as asked, leaves FIFO queues; an undo restores.
`BuildTransmissionGraph` is the constructor as a pure function from streams to the
constants above, and provides the initial states of the runs.

### Runs

The run `flip` starts from the graph that the constructor builds for six streams on eleven
links and allows every flip of every operation to every slot in any sequence, and an undo
between any two of them. One stream is replicated at a switch over two paths that join
again, and the other five share hops with it. The cascade runs around
the diamond and comes back to operations it has moved; a flipped operation can be pushed
*beyond* the requested slot; whatever is touched several times is logged only once.

*Bounds.* Links with three operations give requests that are raised to a
further slot before they are taken. All streams are of one queue here; an operation of
another queue, which a flip passes without a request, is part of the instance of `merge`
(section 4). The instance is finite, so no bound on counters is needed.

*Properties.* `QueuesAreFIFO` is what `check_consistency()` returns and the tests
assert. `InversionsAreCovered` is why it holds when the requests run out: each
inversion existing during a flip is due to be removed by a request. `InBounds` is
why the loop `cur_pos != new_pos` cannot miss its end. `LogIsSound` says that the
log leads back from any point. `FlipProgress` bounds what a flip may do to others.
`KeepsPromise` is the refinement of `AtomicFlip`. `FlipEndsInPlace` says that an
operation whose frame travels along a tree ends exactly where it was asked to go, also
while routes of other frames join; for the others the promise says "at least as far".

*Fairness.* `FlipReturns` assumes weak fairness of the steps of the call under way:
it is one sequential function. Nothing obliges a caller to flip or undo.

## 4. Merging and the cached critical path

### Modules

`DisjunctiveGraph` has the operators on a graph given as a record: the edges that
the order and the routes stand for, and `related_neighbor_pairs` on neighbour
*sequences*, terminals included, since merging changes them. `ConsistentFlip` has
its own on sets because job edges are constant there and proofs are about it.
`GraphOperations` has `flip` and `merge` as functions from a graph to the graphs that
they may leave, for `TransmissionGraph` and the heuristics.

`TransmissionGraph` is the class seen by its callers, each call one action:

| Action | Code (`src/dgm/transmission_graph.cc`) |
| --- | --- |
| `Flip(o, pos)` | 158-168; the loops of `consistent_flip` are run to their end, and leave their log |
| `UndoLastFlip` | 170-177: every logged operation goes back to its slot (`Restored`) and position (`Back`) |
| `Merge(o, q)` | 179-225: order the pair (`InOrder`), `equivalence_class`, `MergeRequests`, `consistent_flip`, then `MergePair` and `ErasePair` for each pair |
| `CriticalPath` | 136-148 without an argument, and `is_feasible` 125-134 |
| `CriticalPathFor(objective)` | 136-143 with an argument |
| `Copy` | 81-123 and `rebuild`, 227-234 |

`order`, `position`, `route_pred`, `route_succ` and `frames` are the fields of the
same names. The weights of an operation are a function of its frames
(`TransmissionWeights::merge` is taken per frame), so they are left out. The
critical path is a function of the graph and the objective; `critical_path_` keeps
whether it is valid and the objective it is of. `flip_log_` is the log of the last flip,
which is empty after an undo; the history variable `before` is the order that this flip found.
The flips of a merge add to the log what may name slots of erased operations afterwards.
An undo would then write to places that the vectors do not have, so no caller may ask for
one: `flip_log_.merged` says so and is all that is kept of such a log, and `UndoLastFlip`
has it as a guard until the next flip clears the log.

`flip` drops the cached critical path; `undo_last_flip` and `merge` keep it, although they
change the order.

`compute` fails on a cycle because the handler of back edges aborts the traversal.
The handler exists only without `NDEBUG`. That is the default build: `CMakeLists.txt`
replaces the flags of `Release`, which defines `NDEBUG` otherwise.

The search in `related_neighbor_pairs` dereferences the `source` of each neighbour
it compares with, and terminals have none. `TerminalAssumption` excludes graphs in
which it would come to a terminal (a frame that ends at a device which another one
of its queue passes); `MergesAreSafe` checks that no merge leads to such a graph.
The streams of `flip` satisfy it as well: they are those of `merge_joining`.

### Runs

All runs allow flips, undos, merges (also of merged operations), queries and copies in any
order.

| Run | Instance | What it shows |
| --- | --- | --- |
| `merge` | three streams around a ring of four switches and one of another queue on a link of the ring | routes meet, part and meet again, and orders can form cycles: frames are kept, job edges are contracted, merges are closed, the pairs of a merge are apart, queues stay FIFO, pairs end up adjacent, no terminal is compared, and an undo leads back to the order that the last flip found |
| `merge_joining` | streams on two paths that join again | **violated** `QueuesAreFIFO` |
| `merge_cycle` | the ring | **violated** `CyclesAreReported` |

*Bounds.* Three operations of one queue share a link (two of the streams share three links in
a row, as the frames of one stream would), which lets a merged operation be merged again, and
a merge move operations past others. The stream of the other queue is passed by all of them
without requests. Callers of `merge` ask for the objective of the graph only, those of
`merge_cycle` for another one, too. `MaxRequests` and
`MaxPairs` bound the loops of one call; TLC would stop with an error if a call needed
more, and they are constants because the loops are recursive functions, which the proofs
need. Every call sequence is finite in effect: merges run out, and orders are finitely many.

*Findings.* On routes that join again, the flips of a merge can carry an operation
beyond its pair; `merge` then contracts two operations that are not adjacent, and
`check_consistency()` fails. `merge` leaves the cached critical path
valid, so a caller that asks before and after gets the old answer, even if the merge closed a
cycle: `compress_stream` (`src/heuristic/initial/aggregation.cc`) asks
`is_feasible()` after every merge and sees the outcome of the first one only.
`critical_path(objective)` leaves the cache valid with another objective, which
the model does as well; its one caller copies the graph next, and a copy has no cache.
`undo_last_flip` keeps the cache as `merge` does: after `flip`, `critical_path()` and
`undo_last_flip` the cached result is that of the flipped order. `CyclesAreReported` is not true
without merges, either, if the order before the flip has a cycle; `merge_cycle` shows the
merge, because the tests speak of it.

*Observations that no run checks.* The pairs of an equivalence class need not be apart
(`MergesArePairwise`), which the loop over them takes for granted. With two streams over
links 1, 3, 4 and two over 1, 2, 4, whose routes part and meet again, a merge after another
one can reach an operation as the second of one pair and the first of a later one; the loop
then gives frames to an operation that it has erased, and `FramesAreKept` fails. With
streams from links 1 and 2 to 3, to 4 or to both, a job edge may connect the second
operations of two pairs but not the first ones; `delete_merged_neighbors` deletes it at both
ends, and `JobEdgesAreContracted` fails. On such graphs with merged operations a flip may
also move two operations of one link, so that a request made for the old place of the other
one ends too early and `QueuesAreFIFO` fails. TLC finds each of these if it is given the
streams.

## 5. Traversal and critical path

### Modules

`EdgeIterator` is `VisitorState<BACKWARD>::Iterator`: a record of its type and its
place in a list, with `setup`, `++` and `*` as functions of a disjunctive graph.
`VisitedEdges` runs it from `begin` to `end()`.

`Traversal` is `DFSTraversal::traverse<BACKWARD>` over graphs given by the edges that
the iterators visit:

| Action | Code (`src/dgm/traversal.cc`) | Events |
| --- | --- | --- |
| `Start(G)` | 192-197 | DISCOVER_VERTEX of the sink |
| `Pop` | 199-205 | FINISH_EDGE of the tree edge |
| `TreeEdge` | 207-229, case WHITE | EXAMINE_EDGE, TREE_EDGE, DISCOVER_VERTEX |
| `BackEdge` | case GRAY | EXAMINE_EDGE, BACK_EDGE, FINISH_EDGE |
| `CrossEdge` | case BLACK | EXAMINE_EDGE, FORWARD_OR_CROSS_EDGE, FINISH_EDGE |
| `FinishVertex` | 244-245 | FINISH_VERTEX |
| `Complete`, `Destroy` | the end of the generator, and of a consumer that breaks off | |

The consumer runs between two events, but it can neither see nor change the
coroutine's state, and `color_` is used by one traversal at a time; therefore one
edge is one step. `back_edges` and `before` are history variables that state what
the order of events promises.

`CriticalPath` extends it with the handlers of `critical_path.h` and `compute`: each
action conjoins a step of the traversal with the updates of the handlers of its
events, in their order. Computations follow each other for any graph and both
objectives and share `crit_cost_` and `cycle_pred_`, as the object does. An aborting
handler ends the loop (`OnAbort`), before the FINISH_EDGE that follows BACK_EDGE.
`stream_objective` is `Stream::objective`. The handlers of back and tree edges exist
without `NDEBUG` only, see above.

### Runs

`MCGraphs` builds the graph of every permutation of the links' vectors that is FIFO, for
three streams on a line (a wireless hop of varying delay, two queues, one stream of two
frames) and for three streams around a ring, where some orders close a cycle.
The run `critical` computes the critical path of all of them, in any sequence of graphs of
the same streams (`GroupSpec`; a mixture of both would only multiply the states):

* the iterators stay in their lists (`TypeOK`) and visit every edge of the disjunctive
  graph exactly once (`EveryEdgeIsVisited`);
* operations are finished after those they depend on (`FinishedInOrder`), the search ends
  (`TraversalEnds`) and has then finished what the sink depends on
  (`EverythingIsFinished`);
* costs are longest paths, whatever was computed before (`CostsAreLongestPaths`), the
  schedule respects every edge (`ScheduleIsFeasible`), and the predecessors lead back over
  edges without slack (`PredecessorsAreCritical`);
* `compute` fails exactly on cycles (`CyclesAreReported`), and the way the handler prints
  is a cycle (`CycleIsPrinted`).

*Bounds.* The graphs have up to 13 vertices, with all kinds of edges into one
operation, operations reached several times, and cycles over several links. Two
computations in a row are enough to see what one leaves behind; the runs allow any
number, since a graph is chosen anew each time. `EveryEdgeIsVisited` and the
references (`Ancestors`, `Paths`, `IsAcyclic`) are definitions of their own
that do not use the traversal.

*Fairness.* Weak fairness of the steps of the computation (`Handle`): one sequential
function that resumes the generator, as for flips. Nothing obliges anyone
to start a traversal.

## 6. Routes and networks

`Route` models one route object. `add_path` runs one hop per step, because an exception
keeps the hops that came before; the actions are `AddPath(p)`, `KnownHop`, `NewHop`,
`Throw`, `Return(b)` (`src/network/topology.cc`, 196-225), `Copy` (231-277) and `Move`
(279-301). `hops`, `parents`, `childs`, `talkers` (`source.childs`) and `listeners` are
the fields of the class; `device` is the pointer `source.device`, which a
default-initialised route leaves indeterminate: a comparison with it may go either way.
`links` is a history variable with the links of the paths so far. The traversals that the
constructor of a transmission graph uses are the operators `Consecutive`,
`IsTalkerLink` and `IsListenerLink`.

`NetworkTopology` has `AddDevice`, `AddDataLink` with its two directions (117-136), and
`Reload`: `dump_to_json` (138-157) followed by the constructor from JSON (34-58).

The run `support` has seven paths over six devices: disjoint, crossing a link both ways,
single links, one in front of the talker, two that are refused; it checks
`RouteIsItsLinks`, `LinksAreConnected` and `CopiesAgree`. For every network of three
devices and two kinds of link it checks what is kept when it is dumped and loaded
(`ReloadKeepsLinks`).

*Bounds.* The paths form a diamond with a link across it, which is the smallest route
with several parents and childs at one hop; each path may be added any number of times
and in any order. Three devices give a device between two others in `devices_`. No bound
on counters is needed. `device` starts as `nullptr`: with an indeterminate pointer
`add_path` may throw or take a talker for another hop.

*Observations that no run checks.* `add_path` compares a hop with the one before it only,
so a path may contain a hop twice. One that comes back to its first hop is recorded
without the link into it (`id != path.front()`, `src/network/topology.cc:209`), while the
hop is erased from the talkers; `PathAssumption` leaves such paths out unless they are
refused. Paths one way and back over the same link leave a route without talkers,
so that `LinksAreConnected` is not true of every set of paths. A network whose two directions of a link differ is
another one after a dump and a load, as `ReloadKeepsLinks` says: the direction that is
read first wins.

## 7. Nested generators

`NestedGenerator` is `Gen<T>` of `src/utils/generator.h`. The bodies of the coroutines
are given (`Bodies`); a step is what happens between two `co_yield`s:

| Action | Code |
| --- | --- |
| `Begin` | `begin()`, 74-82 |
| `YieldValue`, `YieldGenerator` | `yield_value`, 176-182 and 185-202 |
| `ReturnEmpty` | 203-211: the nested generator had no value |
| `Discard`, `Return` | `mark_current_coro_finished`, 111-137 |
| `Increment`, `End` | the iterator, 250-268, in a loop as in `collect` |

`active` is the stack `active_`. A coroutine that yields a generator resumes it inside of
`yield_value`: `nested` counts these calls, since only they continue the coroutine that
waits when the inner one returns without a value; otherwise `operator++` does
(`caller` tells who resumed).

`FlatGenerator` is the promise: every value once, in order, then the end.
`support` checks the refinement `KeepsPromise` and that the loop ends (`LoopEnds`) for
every nesting of up to four generators that yield up to twice: empty generators,
delegation at the end, and several levels that finish at once all occur. *Fairness:* weak
fairness of the next step, since the coroutines return and the consumer's loop runs to its
end on one thread. Moving a generator after `begin()` is left out: the program does not do
so, and `started_` would not be handed over.

## 8. TSN configuration and the (m,k)-firm extension

`TokenBucket` has the arithmetic of `mk_firm_extension.cc` as operators on streams:
elevation counts with the truncating division of C++, the step functions, bucket size and
token rate. `MKFirm` adds to the variables of `CriticalPath` those of
`MKFirmConfiguration` (`mk` for `crit_cost_` and `mu_`, the memorised buckets, the
filtering gates, the violated streams), and its handlers: `deferment`,
`update_prolongation`, `fault_isolation`, `sequential_transmission` at the end of an edge,
`prolongation`, `add_mk_firm_psfp` and `QosViolations` at the end of a vertex.
`TSNConfiguration` conjoins them with the steps of the traversal and of the critical path
and adds the entries of gates, filters, talkers and listeners when a vertex is finished;
`extended` tells the two configurations apart. `TSNComplete` extends the gates to the
hyper cycle, `TSNAbort` leaves no configuration.

| Run | Instance | What it shows |
| --- | --- | --- |
| `support` | one or two streams of periods 2 and 3, masks of up to three flags, latencies of up to a period, frames of two sizes; if two, their first frames are not elevated | `BucketsCoverElevations`: at any time of four hyper cycles and over any interval |
| `tokens_shipped` | two streams of periods 2 and 4 whose deadline is their period | **violated** `BucketHoldsWhatIsElevated` |
| `tsn` | every FIFO order of three streams on a line with a wireless hop, two queues and two frames of one stream, and of three around a ring, some with a cycle; both configurations | `GatesOpenForWindows`, `QueuesAreIsolated` |
| `tsn_elevated` | the same | **violated** `ElevatedFramesAreAdmitted` |
| `tsn_firsthop` | a talker with two queues and three streams | **violated** `FirstHopsAreIsolated` |

*Bounds.* Two streams of different periods and masks are the least for which elevations
overlap out of step. The hyper cycle of 12 ticks lets windows reach into the next one.
A gate is evaluated at every time of the hyper cycle, and windows are taken modulo it, as
the durations repeat. `GatesOpenForWindows` is about the operations of a port that the sink
depends on, which are those that get entries, and presumes that the windows of a port fit
into one hyper cycle (`Fits`); what a gate does beyond has no meaning. If windows of
different operations overlap on a first hop, a closed interval is negative; `IsOpen` is
then the union of the open ones. The instances have one `trans_max` per link, so that
`FirstHopsAreAlike` is true of them; the MC module asserts it.

*Assumptions*, which TLC evaluates in every run and the proofs of section 11 use:
`EdgeAssumption`, `QueueAssumption` and `LinkAssumption` state which edges the iterators
visit, for graphs whose queues are FIFO and whose operations on a link follow each
other, `PdbAssumption` what `TransmissionWeights` makes of a delay budget (a MACHINE
edge has no incoming weight, for example), `CycleAssumption` that the hyper cycle is not
empty, and `BucketAssumption` that elevated traffic leaves some bandwidth, since
`prolongation` divides by the rest. `FirstHopAssumption` excludes streams that begin
where another one of the same queue passes through, for which the search for job
neighbours would read the link of a terminal.

*Findings.* `ElevationCount` truncates a negative quotient towards zero, so that frames
released before time 0 and still under way are not counted, and the bucket of two streams
is too small. `add_mk_firm_psfp` adds the release of a frame to a time that contains it:
elevated frames other than the first of a hyper cycle are admitted too late. On first
hops the windows of one queue may overlap if another queue's operation is between.

*An observation that no run checks.* For the same reason, a long frame's window on its first
hop may end after that of a shorter frame of its queue that follows it, with an operation of
another queue between them: the latest times at which they begin follow each other, but the
ends `mu + trans_max` need not. `operator+=` takes the closing time of the operation that was
finished last for the end of the gate; the closed interval is then negative, `extend_to` adds
too much to the first one, and the gate closes too early. No line of the repository speaks of
it. `FirstHopsAreAlike` excludes it from the theorem of section 11, on first hops only,
because isolation excludes it on the others.

## 9. The heuristics

`GraphMerger` has the constructors of `TransmissionGraph` with job edges in the order of
the code (`Constructed`, `StreamGraph`), the schedule that a graph's order gives
(`Costs`, as longest paths, which is what `CostsAreLongestPaths` says of `compute`),
`is_feasible`, and `TransmissionGraphMerger::generate`: the order of both graphs' starting
times, and the flips of `consistent_merge`. Operators return sets of graphs since the
cascade of `GraphOperations` does.

`IncrementalHeuristic` has one action per `add_stream`: `AddIsolated` for
`StrictTemporalIsolationHeuristic`, `AddWired` and `AddWireless` for the incremental
one, with the batching of `NecessaryQueueingMerge::compress_stream` loop by loop,
including what `is_feasible()` answers from its cache (`CacheAfter`). Where the code would
dereference a null pointer or the end of a vector, `defined` becomes false and the model
stops.

| Run | Instance | What it shows |
| --- | --- | --- |
| `heuristic_mixed` | up to four of eleven streams, wired and wireless, on a line and a ring, in any order and for both heuristics | `GraphsFollowAdmission`, and `QueuesAreFIFO` for every graph that is merged |
| `heuristic_reordered` | three streams, one behind a slow wireless hop | **violated** `CallsAreDefined` |

*Bounds.* `MaxCalls` calls of `add_stream`: three or four accepted streams are enough for
batches of batches and for a rejection between two acceptances. `MaxIterations` is above
the iterations that the loops of `compress_stream` can take in the instances. A stream is
offered once; the runs may therefore stop (`CHECK_DEADLOCK FALSE`).

*Findings.* The flips of the merger may put a later frame of a stream before an earlier
one. This needs a stream that may be later on a link with its first frame than another
stream, sent after its second frame, may be early. The constructor of the next graph then
searches past the end of a vector. `merge_cycle` concerns `compress_stream`, too: it
merges on after the graph has become feasible, because `merge` does not invalidate the
cache; `CacheAfter` models it so.

## 10. Delay budgets

`PacketDelay` reads a histogram bin by bin (`ReadBin`, `ReadLastBin`:
`src/network/histogram.cc`, 34-48) and answers `compute_pdb` (`ComputePdb`, 68-105);
`IsReliable` is `compute_reliability` of an interval (107-133). `support` checks, for
every histogram of up to five bounds with gaps and one negative bin, and four
reliabilities, that the interval of `MINIMIZE_INTERVAL` has the reliability and no shorter
interval does, and that the bound of `MINIMIZE_DMAX` is the least that does if no delay is
negative (`BudgetsAreSufficient`). Counts of 0, 1 and 2 give empty bins and bins that
reach a reliability alone. With negative delays the bound of `MINIMIZE_DMAX` may have less
than the reliability asked for, since it counts them. Reliabilities are fractions, so
rounding of doubles is left out. A part of the run stops when `compute_pdb` comes to
`std::unreachable()` (state `undefined`), as it does for a histogram without delays.

## 11. What is proved

The proofs are for every value of the constants that the named assumptions of the modules
allow. Each theorem has its inductive invariant, since hardly any of the properties
is inductive as it stands. tlapm 1.4.5 checks all of them with Z3, Zenon and LS4.

| Module | Theorems |
| --- | --- |
| `Induction` | lemmas: induction, iteration, greatest and least members |
| `ConsistentFlipProofs` | `TypeCorrect`, `OrderAndPositionAgree`, `LoopsStayInBounds`, `QueuesStayFIFO`, `CascadeIsComplete`, `LogLeadsBack`, `FlipsMakeProgress`, `FlipsEndInPlace`, `ImplementsAtomicFlip` |
| `DisjunctiveGraphProofs` | `EveryEdgeOnce`, and lemmas about the operators of `GraphOperations` |
| `TransmissionGraphProofs` | `TypesAreKept`, `NoFrameIsLost`, `NoEdgeIsLost`, `MergesCloseClasses`, `UndosLeadBack` |
| `TraversalProofs` | `TypeCorrect`, `OrderOfFinishing`, `ExactlyTheNeeded` |
| `CriticalPathProofs` | `CriticalPathTypes`, `CostsRespectEdges`, `CostsAreAttained`, `CyclesAreFound`, `PrintingEnds`, `LongestPathsAreFound` |
| `RouteProofs` | `RouteIsWhatWasAdded`, `LinksGoOn`, `CopiesAreRoutes` |
| `TSNConfigurationProofs` | `QueuesAreKeptApart`, `GatesAreOpenForWindows` |

### Induction

The library's induction theorems are about predicates, which the provers cannot
instantiate. `Induction` states what is needed about sets instead: a nonempty set of
naturals has a least member, because `<` is well-founded on them; a set that contains 0 and
the successors of its members contains all naturals (`InductionOnNaturals`); a function
defined by iterating another one exists and has its recursion equation (`IterationType`);
finite sets of integers have a maximum. The recursive functions `Ancestors` and `Paths`,
and the way that the handler of back edges prints, are reasoned about with these.

### Flips

`OpAssumption`, `RouteAssumption` and a FIFO arrangement to start from. The invariant
`IInv` is type, agreement of `order` and `position`, `InBounds`, `MoversAreOneFrame`,
`LogIsSound` and `InversionsAreCovered`. FIFO alone is not inductive, as a flip under way
breaks it at once; coverage is, and becomes FIFO when no request is left. Three lemmas
carry the step `SwapStep`: the inversions it creates are requested
(`SwapCoversItsInversions`), those that were due remain due although positions shift by
one (`SwapKeepsDue`), and the furthest of several requests for one operation covers the
others (`FurthestRequest`). `FlipProgress` is preserved because only the operations of one
frame are movers, all in one direction. The refinement maps a flip under way to the
arrangement before it, which the log determines, and each `Return` to `Complete`; that an
abstract flip keeps its promise is `FlipProgress` at that point.

`FlipEndsInPlace` is about what the cascade does not do: come back. A tree can be
oriented: every operation of the frame has a neighbour that is nearer to the one that is
flipped (`toward`; it exists by moving the root along the tree, one neighbour at a time).
`RunsAway` says that whatever an operation has passed or is about to pass, its neighbour
toward the root has passed the counterpart of already. Hence no request is ever made for the
neighbour nearer to the root, and none for the root; it is moved once (`MovedOnce`).

### Merges

`OperationAssumption`, `OrderAssumption`, `FrameAssumption` and `RouteAssumption` say what
the constructor builds; `MaxRequests` and `MaxPairs` are any numbers. `TypesAreKept`,
`NoFrameIsLost`, `NoEdgeIsLost` and `MergesCloseClasses` have the form
`Spec /\ []MergesArePairwise => []Inv`: they say that the loop of `merge` is right whenever
its pairs are apart. The hypothesis is not true of every graph, and where it fails the
conclusions fail (section 4, observations); `merge` checks that it holds throughout the
instance of the ring, and the theorems' conclusions with it.

The invariant `GraphInv` says, besides that order and positions agree, that the graph
*contracts* the initial one (`Contracts`): there is one carrier of each original operation,
neighbours are the carriers of the neighbours of what an operation stands for, listed once,
and lists agree at both ends. A flip changes none of it: the cascade of swaps permutes the
vectors (by induction on the requests taken, which is why its loop is a recursive
function). For a merge the pairs are erased one after the other; between two of them the
graph has operations in its lists that are to be erased later, so the step is shown for the
state after the first `n` pairs, by induction on `n`, with the list of each operation being
the original one without those erased so far. That the deleted neighbours are replaced is
where the pairs must be apart. `MergesCloseClasses` follows from what the search of
`equivalence_class` returns: a set that is closed under `related_neighbor_pairs`
(its queue is empty at the end), and of whose pairs each becomes one operation.

`UndosLeadBack` has the same form, since after a merge the log must start from a graph that is
as it should be. What an undo does is not inductive: it writes slot by slot while others still
stand in these slots. `LogInv` says instead that the log *leads back* (`LeadsBack`): the vectors
hold what those before the flip held, and every operation would stand in `before` where the log
says or, if it is not logged, where it stands now. The cascade keeps this because an operation is
logged when its request is taken, or when it is passed, at the position it has then, unless
there is an entry of this flip already (`LogGrows`, `SwapKeepsQueues`). Restoring the slots is
then restoring the vectors: a slot's operation is the only one logged there, or it is in its
place (`UndoneVectors`).

### Iterators

`EveryEdgeOnce` is about `VisitedEdges`, for any graph and vertex that satisfy `IsVertex`:
neighbours are listed once, the hops behind an operation are on different links, and an
operation other than the source has a predecessor. The places an iterator can stop at are
ranked: job successors that have a predecessor in their queue, then the link, then job
predecessors, then the end. `++` goes to the next higher rank that is a stop, so that after
as many steps as there are stops it is at the end, having been at each; the stops and the
edges of the disjunctive graph are then related one to one. `critical` asserts `IsVertex`
of every vertex of its graphs.

### Traversal and critical path

`GraphAssumption` (edge lists are well formed), and finitely many vertices. That finished
vertices are ordered is not inductive, since `FinishVertex` must know that what the vertex
depends on is black. `IInv` adds what holds of the visitor states that were entered and
not left, `At(1)` to `At(Depth)`: their vertices are the gray ones, each once
(`GrayIsPath`), and every edge behind an iterator leads to a black vertex, is a back edge,
or leads to the next state (`PathIsExamined`). `Ancestors(start)` is shown to be the least
set that contains `start` and what its members depend on (`AncestorsAreLeast`): visited
vertices stay within it, and when the stack is empty the black ones are such a set.

Every step of a computation of the critical path is one of the traversal, so `IInv`
carries over. `CPInv` adds that each vertex is *settled* with regard to the edges finished
at it: their sources are black, no cost over them exceeds its cost, and one of them
attains it. The edge behind a state on the stack is the only one that is examined and not
yet finished (`TreeEdgesArePending`). Settled vertices stay settled because the cost of a
black vertex never changes. `CostsRespectEdges` and `CostsAreAttained` follow, for all
weights, negative ones included, and any sequence of earlier computations.

*Cycles* (`CycleInv`). The vertices of the visitor states form a chain of dependencies
along which `cycle_pred_` leads (`PathIsChained`), so that a back edge closes a cycle, and
the handler that follows `cycle_pred_` from it comes to its target without using an entry
of an earlier computation. Conversely, without a back edge `before` is a strict order on
all that the sink depends on, which no cycle has.

*Longest paths.* `Paths(V)` are the paths by their end and length, grown edge by edge, of
fewer edges than there are vertices. Because costs respect edges, no path is longer than
the cost of its end, by induction on its edges. Because they are attained, there is a path
as long as the cost, by induction on the size of `before` of its end, which also bounds its
edges. The objective of a computation is then the same function of both.

### Routes

`RInv` of `RouteProofs` says that parents and childs mirror each other and are the links of
the paths so far, without duplicates, also in the middle of a path and after one that has
thrown, and that talkers and listeners are the hops without parents or childs. It is not
true of a route that starts with an indeterminate `device`, nor of a path that comes back
to its first hop: the theorems presume `InitialDevices = {NULL}` and `PathAssumption`.
`Copy` rebuilds the lists in the order of the original.

`LinksGoOn` presumes in addition that a link which paths take in both directions has others
of its path before and behind it (`NoneTurnsBack`; `support` asserts it of its paths, two
of which cross a link in both directions). Without it the statement is not true: a path and
its reverse leave a route without talkers. `LinksInv` says that each link is one of a path,
with the one before it, and with the one after it unless the path ends or is refused there
or is under way. A link's first hop is a talker or has a parent; if its only parent were
the hop that the link leads to, the link would be taken both ways, and so is none of the
first ones of its path. The same holds at its end.

### Configuration

`QueuesAreKeptApart` composes three layers. The steps of a configuration are those of a
computation of the critical path, so `CPInv` carries over to `TSNSpec`, and with it that
costs respect edges. `MKInv` says the same of what the extension computes: the opening of a
vertex *respects* the FIFO and JOB edges that have been finished at it, whatever the
buckets add, because these add natural numbers (`BusyIsNatural`,
`BranchedOffIsNatural`), and it closes no earlier than it opens. What is special is that the
closing time of a source, `mu_`, is final when it is read: it changes until the
vertex is finished.

A FIFO edge relates an operation to the hops before the *next* one in the queue only
(`FifoIsolates`). `IsolationIsPassedOn` carries this over one place of the queue: the next
operation does not begin before its own frames have arrived, which by `FirstHopAssumption`
come from another hop. By induction on the distance in the queue, every operation has left
before the frames of any later one can arrive. An operation that was finished earlier is
ahead in the queue, since otherwise `before` would have a cycle.

`GatesAreOpenForWindows` is about the entries. `GatesInv` says of each gate that its
intervals are the windows of the operations finished at its port so far (`IsGateOf`), read
from the durations as sums (`Passed`), and that its offset is the closing time of the
operation finished last; `AddInterval` keeps it, also when it joins two windows
(`IntervalIsAdded`), because a finished operation's window no longer changes. When the
traversal is complete, the last one to be finished must be the last one to close
(`LastClosesLast`), or `extend_to` would cut off a window. With critical paths that follows
from the chain of MACHINE edges of a link (`LinkAssumption`), along which operations do not
overlap. In the extended configuration it follows from the isolation of queues behind the
first hop, and on the first hop from `deferment` if the frames there take equally long
(`FirstHopsAreAlike`); section 8 says why this is needed. The durations then sum up to the
hyper cycle (`GateIsExtended`), so that going through them again and again is taking the time
modulo the cycle (`GateIsRepeated`), which for windows that fit is the same as asking for a
window in some cycle.

### What stays with TLC

* Liveness (`FlipReturns`, `TraversalEnds`, `LoopEnds`): termination under fairness is out of
  reach of the prover.
* `QueuesAreFIFO` and `MergesAreSafe` of `TransmissionGraph`: not true of every graph
  (`merge_joining`). Flips on graphs without merged operations are proved
  to keep queues FIFO (`QueuesStayFIFO`). `MergesArePairwise`, for the same reason.
* `GraphsFollowAdmission` and `QueuesAreFIFO` of `IncrementalHeuristic`: they depend on what
  the merger's flips do to complete graphs, where `heuristic_reordered` finds calls that are
  not defined.
* `BudgetsAreSufficient` and `BucketsCoverElevations`, which are sums over data of any length,
  and `ReloadKeepsLinks`, whose order of links is a fold: induction over data.
* `KeepsPromise` of nested generators, whose sequence of values is defined by recursion over
  the nesting.
* `EveryEdgeIsVisited` as a state property of the composed instance; its core is
  `EveryEdgeOnce`.
* The construction in `BuildTransmissionGraph`. That the constructed graphs satisfy the
  assumptions of the proofs is evaluated by TLC.

## 12. Findings

Every run whose property is **violated** above checks what a comment, test, assertion or
document of the repository says against what the code does; `PROJECT.json` quotes both
under `findings`. The instances are the smallest in which it happens. Properties that
hold for the same component are checked in runs of their own.

## 13. Not modelled

* Reading and writing JSON, printing, parsing of units and command lines: input and
  output. `Benchmarks` are loops over `add_stream`, whose calls `IncrementalHeuristic`
  allows in every order.
* The sums of `wireline_pdb` and `wireless_pdb` and the class `Interval`: arithmetic
  without state, part of the weights that the runs are given.
* `traverse<FORWARD>`, `topological_sort.h`, `mk_firm_hypercycle_at`,
  `effective_release` and `effective_deadline`: no caller in the program. The
  diversification monitor is a stub.
* `undo_last_flip` after a `merge`: the log then names slots that have moved or are gone, and
  the writes are undefined. Nothing in the repository calls it after a merge.
* Eval functions other than `release_time_eval` and objectives other than `PER_FRAME` in
  the heuristics: the benchmarks use no others.
* The Python scripts and the OMNeT++ simulation.
