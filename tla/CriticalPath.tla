----------------------------- MODULE CriticalPath -----------------------------
(***************************************************************************)
(* CriticalPath::compute (src/src/dgm/critical_path.{h,cc}): the longest   *)
(* path to every operation, by handlers of the events of a traversal.      *)
(* Computations for changing graphs and objectives follow each other and   *)
(* share the vectors of costs.  The back edge handler is that of the       *)
(* default build, which does not define NDEBUG.                            *)
(***************************************************************************)
EXTENDS Traversal

CONSTANTS src,      \* the source
          weights,  \* weights[v][type] : [incoming, outgoing]
          arrivals  \* arrivals[v] : the frames that v delivers, see Frame

\* start is the sink; no edge enters the source.
ASSUME SourceAssumption ==
  /\ src \in Vertex
  /\ \A G \in Graphs : G[src] = <<>>

ASSUME WeightAssumption ==
  /\ weights \in [Vertex -> [EdgeType -> [incoming : Int, outgoing : Int]]]
  /\ "JOB" \in EdgeType

\* What a stream asks for one of its frames: deadline is phase + frame * period +
\* e2e_latency, d_min the least delay of the last hop.
Frame == [deadline : Int, jitter : Int, d_min : Int,
          objective_type : {"NO_OBJECTIVE", "LATENESS", "TARDINESS", "JITTER",
                            "TARDINESS_AND_JITTER"}]

ASSUME ArrivalAssumption ==
  /\ arrivals \in [Vertex -> SUBSET Frame]
  /\ \A v \in Vertex : IsFiniteSet(arrivals[v])

MAKESPAN == "MAKESPAN"
PER_FRAME == "PER_FRAME"

Infinity == "max" \* the largest Delay

VARIABLES crit_cost,    \* crit_cost_[v] : [cost, pred]
          cycle_pred,   \* cycle_pred_[v].pred
          status,       \* of the event handler
          objective_type, valid, last_result

cp_vars == <<vars, crit_cost, cycle_pred, status, objective_type, valid, last_result>>

CONTINUE == "CONTINUE"
ABORT == "ABORT"
COMPLETED == "COMPLETED"

uv_cost(cost, edge) ==
  cost[edge.source].cost + weights[edge.source][edge.edge_type].outgoing
                         + weights[edge.target][edge.edge_type].incoming

\* Mutant: the costs of an earlier computation are kept.
DiscoveredOnce(cost, v) == cost

\* visitor_discover_vertex.
Discovered(cost, v) == [cost EXCEPT ![v] = [cost |-> 0, pred |-> src]]

\* Mutant: the predecessor is that of the last edge.
RelaxedLast(cost, edge) ==
  IF uv_cost(cost, edge) > cost[edge.target].cost
    THEN [cost EXCEPT ![edge.target].cost = uv_cost(cost, edge),
                      ![edge.target].pred = edge.source]
    ELSE [cost EXCEPT ![edge.target].pred = edge.source]

\* visitor_finish_edge.
Relaxed(cost, edge) ==
  IF uv_cost(cost, edge) > cost[edge.target].cost
    THEN [cost EXCEPT ![edge.target] = [cost |-> uv_cost(cost, edge), pred |-> edge.source]]
    ELSE cost

AtLeastZero(n) == IF n > 0 THEN n ELSE 0

\* Stream::objective for a frame that may arrive between min and max.
stream_objective(f, min, max) ==
  LET lateness == max - f.deadline
      jitter_violation == AtLeastZero(max - min - f.jitter)
  IN CASE f.objective_type = "NO_OBJECTIVE" -> 0
       [] f.objective_type = "LATENESS" -> lateness
       [] f.objective_type = "TARDINESS" -> AtLeastZero(lateness)
       [] f.objective_type = "JITTER" -> jitter_violation
       [] f.objective_type = "TARDINESS_AND_JITTER" ->
            IF lateness > jitter_violation THEN lateness ELSE jitter_violation

\* The objectives of the frames that v transmits on their last hop.
FrameObjectives(cost, v) ==
  {stream_objective(f, f.d_min + cost[v].cost, weights[v]["JOB"].outgoing + cost[v].cost) :
     f \in arrivals[v]}

\* objective(): the makespan, or the worst objective of a frame and the first
\* operation that has it; objectives that are not positive are as good as 0.
objective(type, G, cost) ==
  LET last_hops == [i \in 1 .. Len(G[start]) |-> G[start][i].source]
      all == {0} \cup UNION {FrameObjectives(cost, last_hops[i]) : i \in DOMAIN last_hops}
      worst == CHOOSE m \in all : \A n \in all : n <= m
      critical == {i \in DOMAIN last_hops : worst \in FrameObjectives(cost, last_hops[i])}
  IN IF type = MAKESPAN
       THEN [objective |-> cost[start].cost, critical_vertex |-> start]
       ELSE [objective |-> worst,
             critical_vertex |->
               IF worst = 0 THEN start
               ELSE last_hops[CHOOSE i \in critical : \A j \in critical : i <= j]]

-----------------------------------------------------------------------------
CPInit == /\ Init
          /\ crit_cost = [v \in Vertex |-> [cost |-> 0, pred |-> src]]
          /\ cycle_pred = [v \in Vertex |-> src]
          /\ status = CONTINUE
          /\ objective_type = MAKESPAN
          /\ valid = FALSE
          /\ last_result = [objective |-> 0, critical_vertex |-> src]

\* compute(objective_type) is called.
Compute(G, type) ==
  /\ Start(G)
  /\ objective_type' = type
  /\ status' = CONTINUE
  /\ crit_cost' = Discovered(crit_cost, start)
  /\ UNCHANGED <<cycle_pred, valid, last_result>>

\* The handlers of the events of each step follow, with their mutants.

\* Mutant: an edge to a new vertex is not finished.
OnPopIgnored ==
  /\ status = CONTINUE
  /\ Pop
  /\ UNCHANGED <<crit_cost, cycle_pred, status, objective_type, valid, last_result>>

OnPop ==
  /\ status = CONTINUE
  /\ Pop
  /\ crit_cost' = IF stack[Len(stack)].tree_edge = NoEdge THEN crit_cost
                  ELSE Relaxed(crit_cost, stack[Len(stack)].tree_edge)
  /\ UNCHANGED <<cycle_pred, status, objective_type, valid, last_result>>

\* Mutant: the edge is recorded at its source.
OnTreeEdgeReversed ==
  /\ status = CONTINUE
  /\ TreeEdge
  /\ crit_cost' = Discovered(crit_cost, e.source)
  /\ cycle_pred' = [cycle_pred EXCEPT ![e.source] = e.target]
  /\ UNCHANGED <<status, objective_type, valid, last_result>>

OnTreeEdge ==
  /\ status = CONTINUE
  /\ TreeEdge
  /\ crit_cost' = Discovered(crit_cost, e.source)
  /\ cycle_pred' = [cycle_pred EXCEPT ![e.target] = e.source]
  /\ UNCHANGED <<status, objective_type, valid, last_result>>

\* visitor_back_edge prints the cycle along cycle_pred_ and aborts.
OnBackEdge ==
  /\ status = CONTINUE
  /\ BackEdge
  /\ status' = ABORT
  /\ UNCHANGED <<crit_cost, cycle_pred, objective_type, valid, last_result>>

OnCrossEdge ==
  /\ status = CONTINUE
  /\ CrossEdge
  /\ crit_cost' = Relaxed(crit_cost, e)
  /\ UNCHANGED <<cycle_pred, status, objective_type, valid, last_result>>

OnFinishVertex ==
  /\ status = CONTINUE
  /\ FinishVertex
  /\ UNCHANGED <<crit_cost, cycle_pred, status, objective_type, valid, last_result>>

\* The traversal has completed.
OnComplete ==
  /\ status = CONTINUE
  /\ Complete
  /\ status' = COMPLETED
  /\ valid' = TRUE
  /\ last_result' = objective(objective_type, edges, crit_cost)
  /\ UNCHANGED <<crit_cost, cycle_pred, objective_type>>

\* Mutant: an earlier result stays valid.
OnAbortStillValid ==
  /\ status = ABORT
  /\ Destroy
  /\ last_result' = [objective |-> Infinity, critical_vertex |-> start]
  /\ UNCHANGED <<crit_cost, cycle_pred, status, objective_type, valid>>

\* The handler's status ends the loop over the events.
OnAbort ==
  /\ status = ABORT
  /\ Destroy
  /\ valid' = FALSE
  /\ last_result' = [objective |-> Infinity, critical_vertex |-> start]
  /\ UNCHANGED <<crit_cost, cycle_pred, status, objective_type>>

Handle == \/ OnPop \/ OnTreeEdge \/ OnBackEdge \/ OnCrossEdge \/ OnFinishVertex
          \/ OnComplete \/ OnAbort

CPNext == (\E G \in Graphs, type \in {MAKESPAN, PER_FRAME} : Compute(G, type)) \/ Handle

CPSpec == CPInit /\ [][CPNext]_cp_vars

-----------------------------------------------------------------------------
(* Properties. *)

\* Costs and predecessors are those of existing vertices, and an aborted
\* computation has seen a back edge.
CPTypeOK ==
  /\ TypeOK
  /\ crit_cost \in [Vertex -> [cost : Nat, pred : Vertex]]
  /\ cycle_pred \in [Vertex -> Vertex]
  /\ status \in {CONTINUE, ABORT, COMPLETED}
  /\ valid \in BOOLEAN
  /\ last_result.critical_vertex \in Vertex

\* compute() has returned since the last call.
Returned == pc = "idle" /\ status # CONTINUE

Sources(S) == SourcesIn(edges, S)

\* No vertex that the sink depends on depends on itself.
IsAcyclic == \A v \in Ancestors(start) : \A u \in Sources({v}) : v \notin Ancestors(u)

\* compute() succeeds if and only if the graph has no cycle, whatever graphs
\* it was called for before.
CyclesAreReported ==
  Returned => /\ valid = IsAcyclic
              /\ status = (IF IsAcyclic THEN COMPLETED ELSE ABORT)

\* The edges that enter the vertices of V.
Dependencies(V) == UNION {{edges[v][i] : i \in 1 .. Len(edges[v])} : v \in V}

\* The paths that are prolonged by an edge: where they end, and how long they are.
Prolonged(V, paths) ==
  UNION {{<<d.target, path[2] + weights[d.source][d.edge_type].outgoing
                              + weights[d.target][d.edge_type].incoming>> :
            path \in {p \in paths : p[1] = d.source}} : d \in Dependencies(V)}

\* The paths in V, from any vertex on, of fewer edges than V has vertices.
Paths(V) ==
  LET paths[n \in Nat] ==
        IF n = 0 THEN V \X {0} ELSE LET last == paths[n - 1] IN last \cup Prolonged(V, last)
  IN paths[Cardinality(V) - 1]

Longest(paths, v) ==
  LET lengths == {path[2] : path \in {p \in paths : p[1] = v}}
  IN CHOOSE m \in lengths : \A n \in lengths : n <= m

\* The costs are those of longest paths, and the result is the makespan or the
\* worst objective of a frame for these, whatever was computed before.
CostsAreLongestPaths ==
  Returned /\ status = COMPLETED =>
    LET paths == Paths(Ancestors(start))
    IN /\ \A v \in Ancestors(start) : crit_cost[v].cost = Longest(paths, v)
       /\ last_result = objective(objective_type, edges,
                                  [v \in Vertex |-> [cost |-> Longest(paths, v), pred |-> v]])

\* No operation starts before what it waits for: every edge is respected.
ScheduleIsFeasible ==
  Returned /\ status = COMPLETED =>
    \A v \in Black : \A i \in 1 .. Len(edges[v]) :
      uv_cost(crit_cost, edges[v][i]) <= crit_cost[v].cost

\* traverse_operations: from every operation the predecessors lead back to the
\* source, over edges that leave no slack unless the operation may start at once.
PredecessorsAreCritical ==
  Returned /\ status = COMPLETED =>
    \A v \in Black \ {src} :
      LET pred == crit_cost[v].pred
      IN \/ crit_cost[v].cost = 0 /\ pred = src
         \/ /\ pred \in before[v]
            /\ \E i \in 1 .. Len(edges[v]) :
                 /\ edges[v][i].source = pred
                 /\ uv_cost(crit_cost, edges[v][i]) = crit_cost[v].cost

\* visitor_back_edge follows cycle_pred_ from the source of the edge and comes
\* to its target along edges of the graph: it prints a cycle and ends.
CycleIsPrinted ==
  status = ABORT /\ pc # "idle" =>
    \A b \in back_edges :
      LET w[n \in Nat] == IF n = 0 THEN b.source ELSE cycle_pred[w[n - 1]]
      IN \E n \in 0 .. Cardinality(Vertex) :
           /\ w[n] = b.target
           /\ \A m \in 0 .. n - 1 : w[m + 1] \in Sources({w[m]})
=============================================================================
