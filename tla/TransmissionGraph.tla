--------------------------- MODULE TransmissionGraph ---------------------------
(***************************************************************************)
(* The public operations of a TransmissionGraph                            *)
(* (src/src/dgm/transmission_graph.cc): flip, undo_last_flip, merge,       *)
(* critical_path and copying, each as one atomic call.                     *)
(*                                                                         *)
(* The critical path is cached.  Its value is left out: the cache is       *)
(* whether there is a result, and for which objective.  The weights of an  *)
(* operation are a function of its frames.                                 *)
(*                                                                         *)
(* The flips run the loops of ConsistentFlip to their end and leave a log. *)
(* Those of a merge add to it, but the slots it names afterwards may       *)
(* belong to others or be gone: a caller must not undo then, and all that  *)
(* the model keeps of such a log is that it is one.                        *)
(***************************************************************************)
EXTENDS GraphOperations

CONSTANTS Op,              \* the operations, terminals excluded
          Link,            \* the links, numbered in key order
          link, pcp,       \* link[o], pcp[o]
          InitialFrames,   \* InitialFrames[o] : {the frame of o}
          InitialOrder,    \* InitialOrder[l] : the vector of l
          InitialPred,     \* InitialPred[o], InitialSucc[o] : job neighbours,
          InitialSucc,     \*   terminals included
          objective_type,  \* the objective of the graph
          Objectives       \* the objectives a caller may ask for

ASSUME ObjectiveAssumption == objective_type \in Objectives

ASSUME OperationAssumption ==
  /\ Op \subseteq Nat \ {SOURCE_ID, SINK_ID}
  /\ Link \subseteq Nat
  /\ link \in [Op -> Link]
  /\ DOMAIN pcp = Op

\* Every operation is in the vector of its link once.
ASSUME OrderAssumption ==
  /\ InitialOrder \in [Link -> Seq(Op)]
  /\ \A l \in Link : \A i, j \in DOMAIN InitialOrder[l] :
       /\ link[InitialOrder[l][i]] = l
       /\ InitialOrder[l][i] = InitialOrder[l][j] => i = j
  /\ \A o \in Op : o \in Range(InitialOrder[link[o]])

\* An operation transmits one frame, once on a link.
ASSUME FrameAssumption ==
  /\ InitialFrames \in [Op -> SUBSET UNION {InitialFrames[o] : o \in Op}]
  /\ \A o \in Op : IsFiniteSet(InitialFrames[o]) /\ Cardinality(InitialFrames[o]) = 1
  /\ \A o, q \in Op : o # q /\ link[o] = link[q] => InitialFrames[o] # InitialFrames[q]

\* The hops before and behind a hop are on other links, and on different ones.
NeighborsAreApart(o, neighbors) ==
  \A i \in DOMAIN neighbors :
    ~IsTerminal(neighbors[i]) =>
      /\ link[neighbors[i]] # link[o]
      /\ \A j \in DOMAIN neighbors :
           j # i /\ ~IsTerminal(neighbors[j]) => link[neighbors[j]] # link[neighbors[i]]

ASSUME RouteAssumption ==
  LET node == Op \cup {SOURCE_ID, SINK_ID}
  IN /\ InitialPred \in [node -> Seq(node)]
     /\ InitialSucc \in [node -> Seq(node)]
     /\ \A x, y \in node : y \in Range(InitialPred[x]) <=> x \in Range(InitialSucc[y])
     /\ \A o \in Op : NeighborsAreApart(o, InitialPred[o]) /\ NeighborsAreApart(o, InitialSucc[o])

\* No stream ends where another one of its queue passes through: the search
\* for a common link would read the link of a terminal.
ASSUME TerminalAssumption ==
  TerminalsAreSafe([link |-> link, pcp |-> pcp, route_pred |-> InitialPred,
                    route_succ |-> InitialSucc], Op)

VARIABLES order,          \* processing_order_.map
          position,       \* position_[id].second
          route_pred,     \* operations[id].route_pred
          route_succ,     \* operations[id].route_succ
          frames,         \* operations[id].frames
          flip_log_,      \* .entries; .merged: a merge has added to it
          critical_path_, \* .valid and the objective last_result_ is of
          before          \* history: the order before the flip that the log is of

vars == <<order, position, route_pred, route_succ, frames, flip_log_, critical_path_, before>>

graph == <<order, position, route_pred, route_succ, frames>>

NoResult == [valid |-> FALSE, objective |-> "none"]

g == [order |-> order, position |-> position, link |-> link, pcp |-> pcp,
      route_pred |-> route_pred, route_succ |-> route_succ, frames |-> frames]

\* The operation changes the graph into new.
Becomes(new) ==
  /\ order' = new.order
  /\ position' = new.position
  /\ route_pred' = new.route_pred
  /\ route_succ' = new.route_succ
  /\ frames' = new.frames

\* is_valid(id): merged operations are kept, at a position past the vector.
is_valid(o) == position[o] < Len(order[link[o]])

\* critical_path_.compute(objective); it fails on a cycle.
compute(objective) ==
  critical_path_' = IF IsAcyclic(g) THEN [valid |-> TRUE, objective |-> objective]
                                    ELSE NoResult

-----------------------------------------------------------------------------
Init == /\ order = InitialOrder
        /\ position = [o \in Op |->
             (CHOOSE i \in DOMAIN InitialOrder[link[o]] : InitialOrder[link[o]][i] = o) - 1]
        /\ route_pred = InitialPred
        /\ route_succ = InitialSucc
        /\ frames = InitialFrames
        /\ flip_log_ = [merged |-> FALSE, entries |-> NoLog]
        /\ critical_path_ = NoResult
        /\ before = InitialOrder

\* Mutant: the log is not cleared.
FlipKeepingLog(o, new_pos) ==
  /\ Present(g, o)
  /\ \E s \in FlipOf(g, o, new_pos) :
       /\ Becomes(Reordered(g, s))
       /\ flip_log_' = [merged |-> FALSE,
                        entries |-> [q \in DOMAIN flip_log_.entries \cup DOMAIN s.flip_log_ |->
                                       IF q \in DOMAIN flip_log_.entries
                                         THEN flip_log_.entries[q] ELSE s.flip_log_[q]]]
  /\ critical_path_' = NoResult
  /\ before' = order

\* flip(op_id, new_pos): the cached result is dropped first, and the log cleared.
Flip(o, new_pos) ==
  /\ Present(g, o)
  /\ \E s \in FlipOf(g, o, new_pos) :
       /\ Becomes(Reordered(g, s))
       /\ flip_log_' = [merged |-> FALSE, entries |-> s.flip_log_]
  /\ critical_path_' = NoResult
  /\ before' = order

\* undo_last_flip(), not called behind a merge: the cached result is kept.
UndoLastFlip ==
  /\ ~flip_log_.merged
  /\ Becomes(undo(g, flip_log_.entries))
  /\ flip_log_' = [flip_log_ EXCEPT !.entries = NoLog]
  /\ before' = order'
  /\ UNCHANGED critical_path_

\* merge({o, q}): the cached result is kept.
Merge(o, q) ==
  /\ Mergeable(g, o, q)
  /\ \E new \in merge(g, o, q) : Becomes(new)
  /\ flip_log_' = [merged |-> TRUE, entries |-> NoLog]
  /\ before' = order'
  /\ UNCHANGED critical_path_

\* critical_path() and is_feasible(): the cached result if it is valid.
CriticalPath ==
  /\ ~critical_path_.valid
  /\ compute(objective_type)
  /\ UNCHANGED <<graph, flip_log_, before>>

\* critical_path(objective): always computed, and valid from then on.
CriticalPathFor(objective) ==
  /\ compute(objective)
  /\ UNCHANGED <<graph, flip_log_, before>>

\* Copying, moving or assigning the graph: rebuild() gives the operations in
\* the vectors their positions.  position_ of the merged ones is not set, and
\* is_valid must not be asked of them.  The log is copied.
Unset == -1

Copy ==
  /\ position' = [o \in Op |-> IF Present(g, o) THEN position[o] ELSE Unset]
  /\ critical_path_' = NoResult
  /\ UNCHANGED <<order, route_pred, route_succ, frames, flip_log_, before>>

CallFlip == \E o \in Op : \E pos \in 0 .. Len(order[link[o]]) - 1 : Flip(o, pos)

CallMerge == \E o, q \in Op : Merge(o, q)

Next == \/ CallFlip
        \/ UndoLastFlip
        \/ CallMerge
        \/ CriticalPath
        \/ \E objective \in Objectives : CriticalPathFor(objective)
        \/ Copy

Spec == Init /\ [][Next]_vars

-----------------------------------------------------------------------------
(* Properties. *)

\* Every operation stands in its link's vector where position_ says, an
\* operation merged into another one is invalid and transmits nothing, and
\* the others are valid.
PositionsAreCurrent ==
  \A o \in Op :
    IF frames[o] = {}
      THEN ~Present(g, o) /\ (position[o] = Unset \/ ~is_valid(o))
      ELSE /\ position[o] + 1 \in DOMAIN order[link[o]]
           /\ order[link[o]][position[o] + 1] = o

\* The vectors hold operations of their link, lists name operations that exist,
\* and both representations of the order agree.
TypeOK ==
  /\ DOMAIN order = Link
  /\ \A l \in Link : OnLink(g, l) \subseteq {o \in Op : link[o] = l}
  /\ DOMAIN position = Op
  /\ \A o \in Op : position[o] \in IF Present(g, o) THEN Nat ELSE Nat \cup {Unset}
  /\ \A o \in Op \cup {SOURCE_ID, SINK_ID} :
       Range(route_pred[o]) \cup Range(route_succ[o]) \subseteq Op \cup {SOURCE_ID, SINK_ID}
  /\ critical_path_.objective \in Objectives \cup {"none"}
  /\ flip_log_.merged \in BOOLEAN
  /\ \A o \in DOMAIN flip_log_.entries :
       Present(g, o) /\ flip_log_.entries[o] + 1 \in DOMAIN order[link[o]]
  /\ PositionsAreCurrent

\* The operation that transmits the frame of the original operation p on its
\* link now.
Carriers(p) == {o \in OnLink(g, link[p]) : InitialFrames[p] \subseteq frames[o]}

Carrier(p) == IF IsTerminal(p) THEN p ELSE CHOOSE o \in Carriers(p) : TRUE

\* However merges are sequenced, every frame is still transmitted exactly once
\* on every link of its route.
FramesAreKept ==
  /\ \A p \in Op : \E o \in OnLink(g, link[p]) : Carriers(p) = {o}
  /\ \A l \in Link : UNION {frames[o] : o \in OnLink(g, l)}
                       = UNION {InitialFrames[p] : p \in {o \in Op : link[o] = l}}

\* The original operations that o stands for.
Merged(o) == {p \in Op : link[p] = link[o] /\ InitialFrames[p] \subseteq frames[o]}

\* Every neighbour but a terminal is listed once.
ListedOnce(neighbors) ==
  \A i, j \in DOMAIN neighbors :
    i # j /\ neighbors[i] = neighbors[j] => IsTerminal(neighbors[i])

\* The job edges are those of the original graph with every merged operation
\* contracted: none is lost, none leads to an operation merged away, none is
\* listed twice, and predecessors and successors agree.
JobEdgesAreContracted ==
  /\ \A l \in Link : \A o \in OnLink(g, l) :
       /\ Range(route_succ[o]) = UNION {{Carrier(q) : q \in Range(InitialSucc[p])} : p \in Merged(o)}
       /\ Range(route_pred[o]) = UNION {{Carrier(q) : q \in Range(InitialPred[p])} : p \in Merged(o)}
       /\ ListedOnce(route_succ[o]) /\ ListedOnce(route_pred[o])
  /\ Range(route_succ[SOURCE_ID]) = {Carrier(q) : q \in Range(InitialSucc[SOURCE_ID])}
  /\ Range(route_pred[SINK_ID]) = {Carrier(q) : q \in Range(InitialPred[SINK_ID])}

\* Frames that are merged on one link are merged on all links they travel
\* together: equivalence_class follows the routes in both directions.
MergesAreClosed ==
  \A p, q \in Op : p # q /\ link[p] = link[q] /\ Carrier(p) = Carrier(q) =>
    \A m, n \in Op :
      /\ link[m] = link[n]
      /\ \/ m \in Range(InitialPred[p]) /\ n \in Range(InitialPred[q])
         \/ m \in Range(InitialSucc[p]) /\ n \in Range(InitialSucc[q])
      => Carrier(m) = Carrier(n)

\* What the tests assert after every flip and merge.
QueuesAreFIFO == check_consistency(g, position)

\* Wherever merge is called, it compares no operation with a terminal, its
\* requests lie ahead of the operations they are for, so that the loops of
\* consistent_flip end, and the flips keep both its assertions: the queues are
\* FIFO before it merges, and the second of each pair is right behind the first.
MergesAreSafe ==
  \A o, q \in Op : Mergeable(g, o, q) =>
    \E pairs \in equivalence_class(g, InOrder(g, o, q)) :
      /\ TerminalsAreSafe(g, {o, q})
      /\ \A i \in DOMAIN pairs : position[pairs[i][1]] < position[pairs[i][2]]
      /\ \E s \in BroughtTogether(g, pairs) :
           /\ check_consistency(g, s.position)
           /\ \A i \in DOMAIN pairs : s.position[pairs[i][2]] = position[pairs[i][1]] + 1

\* Wherever merge is called, the pairs it joins are apart: no operation is in two
\* of them, so that the first of each is kept, and job edges between the second
\* operations are those between the first, so that none is lost with them.
MergesArePairwise ==
  \A o, q \in Op : Mergeable(g, o, q) =>
    \A pairs \in equivalence_class(g, InOrder(g, o, q)) : ArePairwise(g, pairs)

\* Until something is merged, the log leads back to the order before the flip it
\* is of, in the vectors and in position_, however often the flip has touched an
\* operation, whatever was merged before it, and also in a copy of the graph.
UndoLeadsBack ==
  ~flip_log_.merged =>
    LET undone == undo(g, flip_log_.entries)
    IN /\ undone.order = before
       /\ \A l \in Link : \A i \in DOMAIN before[l] : undone.position[before[l][i]] = i - 1

\* critical_path() returns a result only for a graph without cycles.
CyclesAreReported == critical_path_.valid => IsAcyclic(g)
=============================================================================
