--------------------------- MODULE CriticalPathProofs ---------------------------
(***************************************************************************)
(* Proofs about CriticalPath, for every sequence of graphs, weights and    *)
(* objectives: a computation that completes has found costs that respect   *)
(* every edge, and that are attained along the predecessors; and it        *)
(* completes if and only if there is no cycle.                             *)
(*                                                                         *)
(* Both hold of a vertex with regard to the edges that have been finished  *)
(* at it, while it is gray already: it is settled.  A settled vertex stays *)
(* so because the sources of these edges are black, and the costs of a     *)
(* black vertex do not change.                                             *)
(*                                                                         *)
(* The second half is about cycles.  The vertices of the visitor states    *)
(* form a chain of dependencies along which cycle_pred leads; a back edge  *)
(* closes it.  Without one, finishing is in an order that no cycle has.    *)
(***************************************************************************)
EXTENDS CriticalPath, TraversalProofs

Cost == [cost : Nat, pred : Vertex]

\* The first n edges of v have been finished.
Settled(v, n) ==
  /\ \A j \in 1 .. n : /\ color[edges[v][j].source] = BLACK
                       /\ uv_cost(crit_cost, edges[v][j]) <= crit_cost[v].cost
  /\ \/ crit_cost[v].cost = 0 /\ crit_cost[v].pred = src
     \/ \E j \in 1 .. n : /\ edges[v][j].source = crit_cost[v].pred
                          /\ uv_cost(crit_cost, edges[v][j]) = crit_cost[v].cost

\* The tree edge of a state on the stack is finished when the state is popped.
Finished(i) ==
  IF i > Len(stack) \/ At(i).it = 1 THEN At(i).it - 1 ELSE At(i).it - 2

TreeEdgesArePending ==
  \A i \in 1 .. Len(stack) :
    IF stack[i].it = 1 THEN stack[i].tree_edge = NoEdge
    ELSE stack[i].tree_edge = edges[stack[i].op][stack[i].it - 1]

PathIsSettled == \A i \in 1 .. Depth : Settled(At(i).op, Finished(i))

BlackIsSettled == \A v \in Black : Settled(v, Len(edges[v]))

CPInv == /\ IInv
         /\ crit_cost \in [Vertex -> Cost]
         /\ status = COMPLETED => pc = "idle"
         /\ status # ABORT => back_edges = {} /\ BlackIsSettled
         /\ status # ABORT /\ pc # "idle" => TreeEdgesArePending /\ PathIsSettled

-----------------------------------------------------------------------------
(* A settled vertex. *)

\* The cost over an edge depends on that of its source only.
LEMMA CostOverEdge ==
  ASSUME edges \in Graphs, crit_cost \in [Vertex -> Cost],
         NEW v \in Vertex, NEW j \in 1 .. Len(edges[v])
  PROVE  /\ edges[v][j] \in Edge /\ edges[v][j].source \in Vertex /\ edges[v][j].target = v
         /\ uv_cost(crit_cost, edges[v][j]) \in Int
         /\ crit_cost[v].cost \in Nat
         /\ crit_cost'[edges[v][j].source] = crit_cost[edges[v][j].source]
              => uv_cost(crit_cost', edges[v][j]) = uv_cost(crit_cost, edges[v][j])
<1> DEFINE u == edges[v][j].source
           t == edges[v][j].edge_type
<1>1. /\ edges[v][j] \in Edge /\ u \in Vertex /\ edges[v][j].target = v
  BY EdgesOfGraph
<1>2. t \in EdgeType
  BY <1>1 DEF Edge
<1>3. weights[u][t].outgoing \in Int /\ weights[v][t].incoming \in Int
  BY <1>1, <1>2, WeightAssumption
<1>4. crit_cost[u].cost \in Nat /\ crit_cost[v].cost \in Nat
  BY <1>1 DEF Cost
<1>5. uv_cost(crit_cost, edges[v][j])
        = crit_cost[u].cost + weights[u][t].outgoing + weights[v][t].incoming
  BY <1>1 DEF uv_cost
<1>6. uv_cost(crit_cost', edges[v][j])
        = crit_cost'[u].cost + weights[u][t].outgoing + weights[v][t].incoming
  BY <1>1 DEF uv_cost
<1> HIDE DEF u, t
<1>7. uv_cost(crit_cost, edges[v][j]) \in Int
  BY <1>3, <1>4, <1>5
<1>8. QED
  BY <1>1, <1>4, <1>5, <1>6, <1>7 DEF u

LEMMA SettledIsKept ==
  ASSUME edges \in Graphs, crit_cost \in [Vertex -> Cost], edges' = edges,
         NEW v \in Vertex, NEW n \in Nat, n <= Len(edges[v]), Settled(v, n),
         crit_cost'[v] = crit_cost[v],
         \A w \in Vertex : color[w] = BLACK =>
           color'[w] = BLACK /\ crit_cost'[w] = crit_cost[w]
  PROVE  Settled(v, n)'
<1>1. ASSUME NEW j \in 1 .. n
      PROVE  /\ color'[edges[v][j].source] = BLACK
             /\ uv_cost(crit_cost', edges[v][j]) = uv_cost(crit_cost, edges[v][j])
  <2>1. j \in 1 .. Len(edges[v])
    BY EdgesOfGraph
  <2>2. edges[v][j].source \in Vertex
    BY <2>1, EdgesOfGraph
  <2>3. color[edges[v][j].source] = BLACK
    BY DEF Settled
  <2>4. QED
    BY <2>1, <2>2, <2>3, CostOverEdge
<1>2. QED
  BY <1>1 DEF Settled

LEMMA RelaxedType ==
  ASSUME edges \in Graphs, crit_cost \in [Vertex -> Cost],
         NEW v \in Vertex, NEW j \in 1 .. Len(edges[v]),
         crit_cost' = Relaxed(crit_cost, edges[v][j])
  PROVE  /\ crit_cost' \in [Vertex -> Cost]
         /\ \A w \in Vertex \ {v} : crit_cost'[w] = crit_cost[w]
         /\ crit_cost'[v].cost >= crit_cost[v].cost
         /\ crit_cost'[v].cost >= uv_cost(crit_cost, edges[v][j])
         /\ \/ crit_cost'[v] = crit_cost[v]
            \/ /\ crit_cost'[v].pred = edges[v][j].source
               /\ crit_cost'[v].cost = uv_cost(crit_cost, edges[v][j])
<1> DEFINE uv == uv_cost(crit_cost, edges[v][j])
<1>1. /\ edges[v][j].source \in Vertex /\ edges[v][j].target = v
      /\ uv \in Int /\ crit_cost[v].cost \in Nat
  BY CostOverEdge
<1>2. crit_cost' = IF uv > crit_cost[v].cost
                   THEN [crit_cost EXCEPT ![v] = [cost |-> uv, pred |-> edges[v][j].source]]
                   ELSE crit_cost
  BY <1>1 DEF Relaxed
<1> HIDE DEF uv
<1>3. CASE uv > crit_cost[v].cost
  <2>1. [cost |-> uv, pred |-> edges[v][j].source] \in Cost
    BY <1>1, <1>3 DEF Cost
  <2>2. crit_cost' = [crit_cost EXCEPT ![v] = [cost |-> uv, pred |-> edges[v][j].source]]
    BY <1>2, <1>3
  <2>3. crit_cost' \in [Vertex -> Cost]
    BY <2>1, <2>2
  <2>4. /\ crit_cost'[v].cost = uv /\ crit_cost'[v].pred = edges[v][j].source
        /\ \A w \in Vertex \ {v} : crit_cost'[w] = crit_cost[w]
    BY <2>2
  <2>5. QED
    BY <1>1, <1>3, <2>3, <2>4 DEF uv
<1>4. CASE ~(uv > crit_cost[v].cost)
  BY <1>1, <1>2, <1>4 DEF uv
<1>5. QED
  BY <1>3, <1>4

\* Finishing the next edge, from a black source.
LEMMA SettledIsRelaxed ==
  ASSUME edges \in Graphs, crit_cost \in [Vertex -> Cost], UNCHANGED <<edges, color>>,
         NEW v \in Vertex, color[v] # BLACK,
         NEW n \in Nat, n + 1 <= Len(edges[v]), Settled(v, n),
         color[edges[v][n + 1].source] = BLACK,
         crit_cost' = Relaxed(crit_cost, edges[v][n + 1])
  PROVE  Settled(v, n + 1)'
<1>1. n + 1 \in 1 .. Len(edges[v])
  BY EdgesOfGraph
<1>2. /\ crit_cost' \in [Vertex -> Cost]
      /\ \A w \in Vertex \ {v} : crit_cost'[w] = crit_cost[w]
      /\ crit_cost'[v].cost >= crit_cost[v].cost
      /\ crit_cost'[v].cost >= uv_cost(crit_cost, edges[v][n + 1])
      /\ \/ crit_cost'[v] = crit_cost[v]
         \/ /\ crit_cost'[v].pred = edges[v][n + 1].source
            /\ crit_cost'[v].cost = uv_cost(crit_cost, edges[v][n + 1])
  BY <1>1, RelaxedType
<1>3. ASSUME NEW j \in 1 .. n + 1
      PROVE  /\ color[edges[v][j].source] = BLACK
             /\ uv_cost(crit_cost, edges[v][j]) \in Int
             /\ uv_cost(crit_cost', edges[v][j]) = uv_cost(crit_cost, edges[v][j])
  <2>1. j \in 1 .. Len(edges[v])
    BY <1>1, EdgesOfGraph
  <2>2. color[edges[v][j].source] = BLACK
    <3>1. CASE j = n + 1
      BY <3>1
    <3>2. CASE j \in 1 .. n
      BY <3>2 DEF Settled
    <3>3. QED
      BY <3>1, <3>2
  <2>3. edges[v][j].source \in Vertex \ {v}
    BY <2>1, <2>2, EdgesOfGraph
  <2>4. QED
    BY <1>2, <2>1, <2>2, <2>3, CostOverEdge
<1>4. crit_cost[v].cost \in Nat /\ crit_cost'[v].cost \in Nat
  BY <1>2 DEF Cost
<1>5. \A j \in 1 .. n : uv_cost(crit_cost, edges[v][j]) <= crit_cost[v].cost
  BY DEF Settled
<1>6. \A j \in 1 .. n + 1 : uv_cost(crit_cost', edges[v][j]) <= crit_cost'[v].cost
  <2>1. TAKE j \in 1 .. n + 1
  <2>2. CASE j = n + 1
    BY <2>2, <1>2, <1>3, <1>4
  <2>3. CASE j \in 1 .. n
    BY <2>3, <1>2, <1>3, <1>4, <1>5
  <2>4. QED
    BY <2>2, <2>3
<1>7. \/ crit_cost'[v].cost = 0 /\ crit_cost'[v].pred = src
      \/ \E j \in 1 .. n + 1 : /\ edges[v][j].source = crit_cost'[v].pred
                               /\ uv_cost(crit_cost', edges[v][j]) = crit_cost'[v].cost
  <2>1. CASE crit_cost'[v] = crit_cost[v]
    <3>1. CASE crit_cost[v].cost = 0 /\ crit_cost[v].pred = src
      BY <2>1, <3>1
    <3>2. ASSUME NEW j \in 1 .. n, edges[v][j].source = crit_cost[v].pred,
                 uv_cost(crit_cost, edges[v][j]) = crit_cost[v].cost
          PROVE  \E k \in 1 .. n + 1 : /\ edges[v][k].source = crit_cost'[v].pred
                                       /\ uv_cost(crit_cost', edges[v][k]) = crit_cost'[v].cost
      BY <2>1, <3>2, <1>3
    <3>3. QED
      BY <3>1, <3>2 DEF Settled
  <2>2. CASE /\ crit_cost'[v].pred = edges[v][n + 1].source
             /\ crit_cost'[v].cost = uv_cost(crit_cost, edges[v][n + 1])
    <3>1. n + 1 \in 1 .. n + 1
      OBVIOUS
    <3>2. QED
      BY <2>2, <3>1, <1>3
  <2>3. QED
    BY <2>1, <2>2, <1>2
<1>8. QED
  BY <1>3, <1>6, <1>7 DEF Settled

-----------------------------------------------------------------------------
(* The traversal of a computation is one of Traversal. *)

LEMMA TraversalStep == [CPNext]_cp_vars => [Next]_vars
BY DEF CPNext, Handle, Compute, OnPop, OnTreeEdge, OnBackEdge, OnCrossEdge, OnFinishVertex,
       OnComplete, OnAbort, Next, Visit, cp_vars

LEMMA DiscoveredType ==
  ASSUME crit_cost \in [Vertex -> Cost], NEW v \in Vertex,
         crit_cost' = Discovered(crit_cost, v)
  PROVE  /\ crit_cost' \in [Vertex -> Cost]
         /\ crit_cost'[v].cost = 0 /\ crit_cost'[v].pred = src
         /\ \A w \in Vertex \ {v} : crit_cost'[w] = crit_cost[w]
<1>1. [cost |-> 0, pred |-> src] \in Cost
  BY SourceAssumption DEF Cost
<1>2. crit_cost' = [crit_cost EXCEPT ![v] = [cost |-> 0, pred |-> src]]
  BY DEF Discovered
<1>3. QED
  BY <1>1, <1>2

\* The edge of a step is no NoEdge.
LEMMA NoEdgeIsNoEdge == NoEdge \notin Edge
BY StartAssumption DEF NoEdge, Edge

LEMMA InvOfCompute ==
  ASSUME CPInv, IInv', NEW G \in Graphs, NEW type, Compute(G, type)
  PROVE  CPInv'
<1>1. /\ edges' = G /\ stack' = <<VisitorState(start)>> /\ next' = VisitorState(start)
      /\ pc' = "pop" /\ back_edges' = {} /\ status' = CONTINUE
      /\ color' = [v \in Vertex |-> IF v = start THEN GRAY ELSE WHITE]
  BY DEF Compute, Start
<1>2. /\ crit_cost' \in [Vertex -> Cost]
      /\ crit_cost'[start].cost = 0 /\ crit_cost'[start].pred = src
  BY StartAssumption, DiscoveredType DEF Compute, CPInv
<1>3. Black' = {}
  BY <1>1 DEF Black, WHITE, GRAY, BLACK
<1>4. /\ Depth' = 1 /\ Len(stack') = 1 /\ stack'[1] = VisitorState(start)
      /\ \A i : i = 1 => At(i)' = VisitorState(start)
  BY <1>1 DEF Depth, At
<1>5. TreeEdgesArePending'
  BY <1>4 DEF TreeEdgesArePending, VisitorState
<1>6. PathIsSettled'
  <2>1. \A i \in 1 .. Depth' : At(i)'.op = start /\ Finished(i)' = 0
    BY <1>4 DEF Finished, VisitorState
  <2>2. Settled(start, 0)'
    BY <1>2 DEF Settled
  <2>3. QED
    BY <2>1, <2>2 DEF PathIsSettled
<1>7. QED
  BY <1>1, <1>2, <1>3, <1>5, <1>6 DEF CPInv, BlackIsSettled, CONTINUE, COMPLETED

\* What holds of the path in every step of a computation under way.
LEMMA PathIsTyped ==
  ASSUME CPInv, pc # "idle", status # ABORT
  PROVE  /\ edges \in Graphs /\ TypeOK /\ Path
         /\ crit_cost \in [Vertex -> Cost]
         /\ color \in [Vertex -> {WHITE, GRAY, BLACK}]
         /\ back_edges = {} /\ BlackIsSettled /\ TreeEdgesArePending /\ PathIsSettled
         /\ \A i \in 1 .. Depth : /\ At(i).op \in Vertex
                                  /\ color[At(i).op] = GRAY
                                  /\ Finished(i) \in Nat
                                  /\ Finished(i) <= Len(edges[At(i).op])
                                  /\ Settled(At(i).op, Finished(i))
<1>1. /\ edges \in Graphs /\ TypeOK /\ Path
      /\ crit_cost \in [Vertex -> Cost]
      /\ color \in [Vertex -> {WHITE, GRAY, BLACK}]
      /\ back_edges = {} /\ BlackIsSettled /\ TreeEdgesArePending /\ PathIsSettled
  BY DEF CPInv, IInv, TypeOK
<1>2. ASSUME NEW i \in 1 .. Depth
      PROVE  /\ At(i).op \in Vertex
             /\ color[At(i).op] = GRAY
             /\ Finished(i) \in Nat
             /\ Finished(i) <= Len(edges[At(i).op])
             /\ Settled(At(i).op, Finished(i))
  <2>1. /\ At(i).op \in Vertex /\ At(i).it \in Nat \ {0}
        /\ At(i).it <= Len(edges[At(i).op]) + 1
    BY <1>1, AtType
  <2>2. Len(edges[At(i).op]) \in Nat
    BY <1>1, <2>1, EdgesOfGraph
  <2>3. color[At(i).op] = GRAY
    BY <1>1, <2>1 DEF Path, GrayIsPath
  <2>4. QED
    BY <1>1, <2>1, <2>2, <2>3 DEF Finished, PathIsSettled
<1>3. QED
  BY <1>1, <1>2

\* The black vertices stay settled when none is added and none changes its cost.
LEMMA BlackStaysSettled ==
  ASSUME edges \in Graphs, crit_cost \in [Vertex -> Cost], edges' = edges,
         BlackIsSettled, Black' = Black,
         \A w \in Vertex : color[w] = BLACK =>
           color'[w] = BLACK /\ crit_cost'[w] = crit_cost[w]
  PROVE  BlackIsSettled'
<1>1. ASSUME NEW v \in Black
      PROVE  Settled(v, Len(edges[v]))'
  <2>1. v \in Vertex /\ color[v] = BLACK /\ crit_cost'[v] = crit_cost[v]
    BY DEF Black
  <2>2. Len(edges[v]) \in Nat /\ Settled(v, Len(edges[v]))
    BY <2>1, EdgesOfGraph DEF BlackIsSettled
  <2> DEFINE n == Len(edges[v])
  <2>3. Len(edges'[v]) = n
    OBVIOUS
  <2>4. QED
    BY <2>1, <2>2, SettledIsKept DEF Settled
<1>2. QED
  BY <1>1 DEF BlackIsSettled

LEMMA InvOfPop ==
  ASSUME CPInv, IInv', OnPop
  PROVE  CPInv'
<1>1. /\ edges \in Graphs /\ TypeOK /\ Path
      /\ crit_cost \in [Vertex -> Cost]
      /\ back_edges = {} /\ BlackIsSettled /\ TreeEdgesArePending /\ PathIsSettled
      /\ \A i \in 1 .. Depth : /\ At(i).op \in Vertex
                               /\ color[At(i).op] = GRAY
                               /\ Finished(i) \in Nat
                               /\ Finished(i) <= Len(edges[At(i).op])
                               /\ Settled(At(i).op, Finished(i))
  BY PathIsTyped DEF OnPop, Pop, CONTINUE, ABORT
<1>2. /\ Pop /\ pc = "pop" /\ pc' = "visit" /\ status = CONTINUE /\ status' = CONTINUE
      /\ UNCHANGED <<edges, color, back_edges>>
  BY DEF OnPop, Pop
<1>3. /\ stack \in Seq(State) /\ Len(stack) \in Nat \ {0} /\ Depth = Len(stack)
      /\ \A i \in 1 .. Depth : At(i) = stack[i]
  BY <1>1, <1>2 DEF Pop, Depth, At, TypeOK
<1>4. PICK d \in Nat \ {0} : d = Depth
  BY <1>3
<1>5. PICK v \in Vertex, n \in Nat :
        /\ v = At(d).op /\ n = Finished(d)
        /\ color[v] = GRAY /\ Settled(v, n) /\ n <= Len(edges[v])
  BY <1>1, <1>4
<1>6. /\ d = Len(stack) /\ Depth' = d /\ Len(stack') = d - 1
      /\ \A i \in 1 .. d : At(i)' = At(i)
  BY <1>1, <1>2, <1>3, <1>4, PopPath
<1>7. \A i \in 1 .. d - 1 : Finished(i)' = Finished(i) /\ At(i).op # v
  <2>1. TAKE i \in 1 .. d - 1
  <2>2. /\ ~(i > Len(stack)) /\ ~(i > Len(stack')) /\ At(i)' = At(i)
        /\ i \in 1 .. d /\ i # d /\ d \in 1 .. d
    BY <1>6
  <2>3. At(i).op # v
    BY <2>2, <1>1, <1>4, <1>5 DEF Path, GrayIsPath
  <2>4. QED
    BY <2>2, <2>3 DEF Finished
<1>8. PICK k \in Nat : k = At(d).it - 1 /\ k <= Len(edges[v])
  <2>1. At(d).it \in Nat \ {0} /\ At(d).it <= Len(edges[v]) + 1 /\ Len(edges[v]) \in Nat
    BY <1>1, <1>4, <1>5, AtType, EdgesOfGraph
  <2>2. QED
    BY <2>1
<1>9. Finished(d)' = k
  BY <1>6, <1>8 DEF Finished
<1>10. /\ crit_cost' \in [Vertex -> Cost]
       /\ \A w \in Vertex \ {v} : crit_cost'[w] = crit_cost[w]
       /\ Settled(v, k)'
  <2>1. At(d) = stack[Len(stack)] /\ d \in 1 .. Len(stack) /\ At(d).it \in Nat
    BY <1>1, <1>3, <1>4, AtType
  <2>2. CASE k = 0
    <3>1. stack[Len(stack)].tree_edge = NoEdge
      BY <2>1, <2>2, <1>1, <1>6, <1>8 DEF TreeEdgesArePending
    <3>2. crit_cost' = crit_cost
      BY <3>1 DEF OnPop
    <3>3. n = 0
      BY <2>1, <2>2, <1>5, <1>8 DEF Finished
    <3>4. Settled(v, n)'
      BY <1>2, <1>5, <3>2 DEF Settled
    <3>5. QED
      BY <1>1, <2>2, <3>2, <3>3, <3>4
  <2>3. CASE k # 0
    <3>1. k \in 1 .. Len(edges[v]) /\ n = k - 1
      BY <2>1, <2>3, <1>1, <1>5, <1>6, <1>8, EdgesOfGraph DEF Finished
    <3>2. stack[Len(stack)].tree_edge = edges[v][k]
      BY <2>1, <2>3, <1>1, <1>5, <1>6, <1>8 DEF TreeEdgesArePending
    <3>3. edges[v][k] \in Edge
      BY <3>1, <1>1, EdgesOfGraph
    <3>4. crit_cost' = Relaxed(crit_cost, edges[v][k])
      BY <3>2, <3>3, NoEdgeIsNoEdge DEF OnPop
    <3>5. color[edges[v][k].source] = BLACK
      <4>1. d \in 1 .. Depth /\ k \in 1 .. At(d).it - 1 /\ ~(d < Depth)
        BY <1>4, <1>8, <3>1, <2>1
      <4>2. QED
        BY <4>1, <1>1, <1>5 DEF Path, PathIsExamined
    <3>6. crit_cost' \in [Vertex -> Cost] /\ \A w \in Vertex \ {v} : crit_cost'[w] = crit_cost[w]
      BY <1>1, <1>5, <3>1, <3>4, RelaxedType
    <3>7. color[v] # BLACK
      BY <1>5 DEF GRAY, BLACK
    <3>8. n + 1 = k
      BY <3>1
    <3>9. Settled(v, n + 1)'
      BY <1>1, <1>2, <1>5, <1>8, <3>4, <3>5, <3>7, <3>8, SettledIsRelaxed
    <3>10. QED
      BY <3>6, <3>8, <3>9
  <2>4. QED
    BY <2>2, <2>3
<1>11. \A w \in Vertex : color[w] = BLACK => color'[w] = BLACK /\ crit_cost'[w] = crit_cost[w]
  BY <1>2, <1>5, <1>10 DEF GRAY, BLACK
<1>12. BlackIsSettled'
  BY <1>1, <1>2, <1>11, BlackStaysSettled DEF Black
<1>13. PathIsSettled'
  <2>1. ASSUME NEW i \in 1 .. d
        PROVE  Settled(At(i).op, Finished(i))'
    <3>1. CASE i = d
      <4>1. At(i)'.op = v /\ Finished(i)' = k
        BY <3>1, <1>5, <1>6, <1>9
      <4>2. QED
        BY <4>1, <1>10
    <3>2. CASE i \in 1 .. d - 1
      <4>1. PICK u \in Vertex, m \in Nat :
              /\ u = At(i).op /\ m = Finished(i) /\ u # v
              /\ m <= Len(edges[u]) /\ Settled(u, m)
        BY <1>1, <1>4, <1>7, <3>2
      <4>2. Settled(u, m)'
        BY <4>1, <1>1, <1>2, <1>10, <1>11, SettledIsKept
      <4>3. At(i)'.op = u /\ Finished(i)' = m
        BY <4>1, <3>2, <1>6, <1>7
      <4>4. QED
        BY <4>2, <4>3
    <3>3. QED
      BY <3>1, <3>2
  <2>2. QED
    BY <2>1, <1>6 DEF PathIsSettled
<1>14. TreeEdgesArePending'
  <2>1. \A i \in 1 .. Len(stack') : stack'[i] = stack[i] /\ i \in 1 .. Len(stack)
    BY <1>2, <1>3, <1>4, <1>6 DEF At
  <2>2. QED
    BY <2>1, <1>1, <1>2 DEF TreeEdgesArePending
<1>15. QED
  BY <1>1, <1>2, <1>10, <1>12, <1>13, <1>14 DEF CPInv, CONTINUE, COMPLETED

LEMMA InvOfTreeEdge ==
  ASSUME CPInv, IInv', OnTreeEdge
  PROVE  CPInv'
<1>1. /\ edges \in Graphs /\ TypeOK /\ Path
      /\ crit_cost \in [Vertex -> Cost]
      /\ color \in [Vertex -> {WHITE, GRAY, BLACK}]
      /\ back_edges = {} /\ BlackIsSettled /\ TreeEdgesArePending /\ PathIsSettled
      /\ \A i \in 1 .. Depth : /\ At(i).op \in Vertex
                               /\ color[At(i).op] = GRAY
                               /\ Finished(i) \in Nat
                               /\ Finished(i) <= Len(edges[At(i).op])
                               /\ Settled(At(i).op, Finished(i))
  BY PathIsTyped DEF OnTreeEdge, TreeEdge, CONTINUE, ABORT
<1>2. /\ TreeEdge /\ pc = "visit" /\ pc' = "visit" /\ status = CONTINUE /\ status' = CONTINUE
      /\ UNCHANGED <<edges, back_edges>>
  BY DEF OnTreeEdge, TreeEdge
<1>3. /\ next.op \in Vertex /\ next.it \in 1 .. Len(edges[next.op])
      /\ e \in Edge /\ e.source \in Vertex
  BY <1>1, <1>2, EdgeAtHand DEF TreeEdge
<1>4. /\ stack \in Seq(State) /\ Len(stack) \in Nat
      /\ stack' = Append(stack, Kept) /\ Kept \in State
      /\ next' = [op |-> e.source, it |-> 1, tree_edge |-> e]
  BY <1>1, <1>2, <1>3 DEF TreeEdge, TypeOK, Kept, State
<1>5. PICK d \in Nat \ {0} : d = Depth /\ d = Len(stack) + 1
  BY <1>2, <1>4 DEF Depth
<1>6. /\ Depth' = d + 1 /\ Len(stack') = d
      /\ \A i \in 1 .. d - 1 : At(i)' = At(i)
      /\ At(d) = next /\ At(d)' = Kept /\ At(d + 1)' = next'
  <2>1. /\ Len(stack') = d /\ stack'[d] = Kept
        /\ \A i \in 1 .. d - 1 : stack'[i] = stack[i]
    BY <1>4, <1>5
  <2>2. QED
    BY <2>1, <1>2, <1>4, <1>5 DEF Depth, At
<1>7. PICK s \in Vertex : /\ s = e.source /\ color[s] = WHITE
                          /\ color' = [color EXCEPT ![s] = GRAY]
                          /\ crit_cost' = Discovered(crit_cost, s)
  BY <1>3 DEF OnTreeEdge, TreeEdge
<1>8. /\ crit_cost' \in [Vertex -> Cost]
      /\ crit_cost'[s].cost = 0 /\ crit_cost'[s].pred = src
      /\ \A w \in Vertex \ {s} : crit_cost'[w] = crit_cost[w]
  BY <1>1, <1>7, DiscoveredType
<1>9. \A w \in Vertex : color[w] = BLACK => color'[w] = BLACK /\ crit_cost'[w] = crit_cost[w]
  BY <1>1, <1>7, <1>8 DEF WHITE, BLACK
<1>10. Black' = Black
  BY <1>1, <1>7 DEF Black, WHITE, GRAY, BLACK
<1>11. BlackIsSettled'
  BY <1>1, <1>2, <1>9, <1>10, BlackStaysSettled
<1>12. \A i \in 1 .. d : At(i)'.op = At(i).op /\ Finished(i)' = Finished(i)
  <2>1. ASSUME NEW i \in 1 .. d - 1
        PROVE  At(i)'.op = At(i).op /\ Finished(i)' = Finished(i)
    BY <1>5, <1>6 DEF Finished
  <2>2. At(d)'.op = At(d).op /\ Finished(d)' = Finished(d)
    <3>1. At(d)'.op = next.op /\ At(d)'.it = next.it + 1 /\ At(d).op = next.op
      BY <1>6 DEF Kept
    <3>2. Finished(d)' = next.it + 1 - 2 /\ Finished(d) = next.it - 1
      BY <3>1, <1>3, <1>5, <1>6 DEF Finished
    <3>3. QED
      BY <3>1, <3>2, <1>3
  <2>3. QED
    BY <2>1, <2>2
<1>13. PathIsSettled'
  <2>1. ASSUME NEW i \in 1 .. d
        PROVE  Settled(At(i).op, Finished(i))'
    <3>1. PICK u \in Vertex, m \in Nat :
            /\ u = At(i).op /\ m = Finished(i) /\ color[u] = GRAY
            /\ m <= Len(edges[u]) /\ Settled(u, m)
      BY <1>1, <1>5
    <3>2. u # s
      BY <3>1, <1>7 DEF WHITE, GRAY
    <3>3. Settled(u, m)'
      BY <3>1, <3>2, <1>1, <1>2, <1>8, <1>9, SettledIsKept
    <3>4. QED
      BY <3>1, <3>3, <1>12
  <2>2. Settled(At(d + 1).op, Finished(d + 1))'
    <3>1. At(d + 1)'.op = s /\ Finished(d + 1)' = 0
      BY <1>4, <1>6, <1>7 DEF Finished
    <3>2. Settled(s, 0)'
      BY <1>8 DEF Settled
    <3>3. QED
      BY <3>1, <3>2
  <2>3. QED
    BY <2>1, <2>2, <1>6 DEF PathIsSettled
<1>14. TreeEdgesArePending'
  <2>1. \A i \in 1 .. Len(stack) : stack'[i] = stack[i]
    BY <1>4
  <2>2. stack'[d] = Kept /\ Kept.it # 1 /\ Kept.tree_edge = edges[Kept.op][Kept.it - 1]
    BY <1>3, <1>4, <1>5 DEF Kept, e
  <2>3. \A i \in 1 .. Len(stack') : i \in 1 .. Len(stack) \/ i = d
    BY <1>4, <1>5, <1>6
  <2>4. QED
    BY <2>1, <2>2, <2>3, <1>1, <1>2 DEF TreeEdgesArePending
<1>15. QED
  BY <1>1, <1>2, <1>8, <1>11, <1>13, <1>14 DEF CPInv, CONTINUE, COMPLETED

LEMMA InvOfCrossEdge ==
  ASSUME CPInv, IInv', OnCrossEdge
  PROVE  CPInv'
<1>1. /\ edges \in Graphs /\ TypeOK /\ Path
      /\ crit_cost \in [Vertex -> Cost]
      /\ color \in [Vertex -> {WHITE, GRAY, BLACK}]
      /\ back_edges = {} /\ BlackIsSettled /\ TreeEdgesArePending /\ PathIsSettled
      /\ \A i \in 1 .. Depth : /\ At(i).op \in Vertex
                               /\ color[At(i).op] = GRAY
                               /\ Finished(i) \in Nat
                               /\ Finished(i) <= Len(edges[At(i).op])
                               /\ Settled(At(i).op, Finished(i))
  BY PathIsTyped DEF OnCrossEdge, CrossEdge, CONTINUE, ABORT
<1>2. /\ pc = "visit" /\ pc' = "visit" /\ ~AtEnd /\ status = CONTINUE /\ status' = CONTINUE
      /\ UNCHANGED <<edges, color, stack, back_edges, pc>>
      /\ next' = [next EXCEPT !.it = @ + 1]
      /\ color[e.source] = BLACK
  BY DEF OnCrossEdge, CrossEdge
<1>3. PICK v \in Vertex, n \in Nat : /\ v = next.op /\ n = next.it - 1
                                     /\ n + 1 <= Len(edges[v])
                                     /\ e = edges[v][n + 1]
  <2>1. /\ next.op \in Vertex /\ next.it \in 1 .. Len(edges[next.op])
        /\ Len(edges[next.op]) \in Nat
    BY <1>1, <1>2, EdgeAtHand, EdgesOfGraph
  <2>2. next.it - 1 \in Nat /\ next.it - 1 + 1 = next.it
    BY <2>1
  <2>3. QED
    BY <2>1, <2>2 DEF e
<1>4. PICK d \in Nat \ {0} : d = Depth /\ d = Len(stack) + 1
  BY <1>1, <1>2, DepthType DEF Depth
<1>5. /\ Depth' = d
      /\ \A i \in 1 .. d - 1 : At(i)' = At(i)
      /\ At(d) = next /\ At(d)' = next'
      /\ next'.op = v
      /\ next'.it = n + 2
  <2>1. /\ Depth' = Depth
        /\ \A i \in 1 .. Depth - 1 : At(i)' = At(i)
        /\ At(Depth) = next
        /\ \A i : i = Depth => At(i)' = next'
        /\ next'.op = next.op
        /\ next'.it = next.it + 1
    BY <1>1, <1>2, AdvancePath
  <2>2. next.it \in Nat
    BY <1>1 DEF TypeOK, State
  <2>3. QED
    BY <2>1, <2>2, <1>3, <1>4
<1>6. /\ color[v] = GRAY /\ Settled(v, n) /\ Finished(d)' = n + 1
  <2>1. Finished(d) = n /\ At(d).op = v /\ d \in 1 .. Depth
    BY <1>3, <1>4, <1>5 DEF Finished
  <2>2. d > Len(stack')
    BY <1>1, <1>2, <1>4, DepthType
  <2>3. Finished(d)' = n + 1
    BY <2>2, <1>5 DEF Finished
  <2>4. QED
    BY <1>1, <2>1, <2>3
<1>7. crit_cost' = Relaxed(crit_cost, edges[v][n + 1])
  BY <1>3 DEF OnCrossEdge
<1>8. Settled(v, n + 1)'
  BY <1>1, <1>2, <1>3, <1>6, <1>7, SettledIsRelaxed DEF GRAY, BLACK
<1>9. crit_cost' \in [Vertex -> Cost] /\ \A w \in Vertex \ {v} : crit_cost'[w] = crit_cost[w]
  <2>1. n + 1 \in 1 .. Len(edges[v])
    BY <1>1, <1>3, EdgesOfGraph
  <2>2. QED
    BY <2>1, <1>1, <1>7, RelaxedType
<1>10. \A w \in Vertex : color[w] = BLACK => color'[w] = BLACK /\ crit_cost'[w] = crit_cost[w]
  BY <1>2, <1>6, <1>9 DEF GRAY, BLACK
<1>11. BlackIsSettled'
  BY <1>1, <1>2, <1>10, BlackStaysSettled DEF Black
<1>12. PathIsSettled'
  <2>1. ASSUME NEW i \in 1 .. d
        PROVE  Settled(At(i).op, Finished(i))'
    <3>1. CASE i = d
      BY <3>1, <1>5, <1>6, <1>8
    <3>2. CASE i \in 1 .. d - 1
      <4>1. /\ ~(i > Len(stack)) /\ i \in 1 .. Depth /\ At(i)' = At(i)
            /\ d \in 1 .. Depth /\ i # d
        BY <3>2, <1>4, <1>5
      <4>2. At(i).op # v /\ Finished(i)' = Finished(i)
        BY <4>1, <1>1, <1>2, <1>3, <1>5 DEF Path, GrayIsPath, Finished
      <4>3. PICK u \in Vertex, m \in Nat :
              /\ u = At(i).op /\ m = Finished(i) /\ u # v
              /\ m <= Len(edges[u]) /\ Settled(u, m)
        BY <4>1, <4>2, <1>1
      <4>4. Settled(u, m)'
        BY <4>3, <1>1, <1>2, <1>9, <1>10, SettledIsKept
      <4>5. QED
        BY <4>1, <4>2, <4>3, <4>4
    <3>3. QED
      BY <3>1, <3>2
  <2>2. QED
    BY <2>1, <1>5 DEF PathIsSettled
<1>13. TreeEdgesArePending'
  BY <1>1, <1>2 DEF TreeEdgesArePending
<1>14. QED
  BY <1>1, <1>2, <1>9, <1>11, <1>12, <1>13 DEF CPInv, CONTINUE, COMPLETED

LEMMA InvOfFinishVertex ==
  ASSUME CPInv, IInv', OnFinishVertex
  PROVE  CPInv'
<1>1. /\ edges \in Graphs /\ TypeOK /\ Path
      /\ crit_cost \in [Vertex -> Cost]
      /\ color \in [Vertex -> {WHITE, GRAY, BLACK}]
      /\ back_edges = {} /\ BlackIsSettled /\ TreeEdgesArePending /\ PathIsSettled
      /\ \A i \in 1 .. Depth : /\ At(i).op \in Vertex
                               /\ color[At(i).op] = GRAY
                               /\ Finished(i) \in Nat
                               /\ Finished(i) <= Len(edges[At(i).op])
                               /\ Settled(At(i).op, Finished(i))
  BY PathIsTyped DEF OnFinishVertex, FinishVertex, CONTINUE, ABORT
<1>2. /\ pc = "visit" /\ pc' = "pop" /\ AtEnd /\ status = CONTINUE /\ status' = CONTINUE
      /\ UNCHANGED <<edges, stack, next, back_edges, crit_cost>>
      /\ color' = [color EXCEPT ![next.op] = BLACK]
  BY DEF OnFinishVertex, FinishVertex
<1>3. PICK d \in Nat \ {0} : d = Depth /\ d = Len(stack) + 1 /\ Depth' = d - 1
  BY <1>1, <1>2, DepthType DEF Depth
<1>4. At(d) = next /\ \A i \in 1 .. d - 1 : At(i)' = At(i) /\ Finished(i)' = Finished(i)
  BY <1>1, <1>2, <1>3, DepthType DEF At, Finished
<1>5. next.op \in Vertex /\ Settled(next.op, Len(edges[next.op]))
  <2>1. /\ next.op \in Vertex /\ next.it \in Nat \ {0}
        /\ next.it <= Len(edges[next.op]) + 1 /\ next.it > Len(edges[next.op])
    BY <1>1, <1>2 DEF TypeOK, State, AtEnd
  <2>2. next.it = Len(edges[next.op]) + 1
    BY <2>1, <1>1, EdgesOfGraph
  <2>3. d \in 1 .. Depth /\ d > Len(stack)
    BY <1>1, <1>3, DepthType
  <2>4. Finished(d) = Len(edges[next.op])
    BY <2>1, <2>2, <2>3, <1>1, <1>4, EdgesOfGraph DEF Finished
  <2>5. QED
    BY <2>1, <2>3, <2>4, <1>1, <1>4
<1>6. \A w \in Vertex : color[w] = BLACK => color'[w] = BLACK /\ crit_cost'[w] = crit_cost[w]
  BY <1>1, <1>2
<1>7. BlackIsSettled'
  <2>1. ASSUME NEW v \in Black'
        PROVE  Settled(v, Len(edges[v]))'
    <3>1. v \in Vertex /\ (v \in Black \/ v = next.op)
      BY <1>1, <1>2, <1>5 DEF Black
    <3>2. PICK n \in Nat : n = Len(edges[v]) /\ Settled(v, n)
      BY <3>1, <1>1, <1>5, EdgesOfGraph DEF BlackIsSettled
    <3>3. Settled(v, n)'
      BY <3>1, <3>2, <1>1, <1>2, <1>6, SettledIsKept
    <3>4. QED
      BY <3>2, <3>3, <1>2
  <2>2. QED
    BY <2>1 DEF BlackIsSettled
<1>8. PathIsSettled'
  <2>1. ASSUME NEW i \in 1 .. d - 1
        PROVE  Settled(At(i).op, Finished(i))'
    <3>1. PICK u \in Vertex, m \in Nat :
            /\ u = At(i).op /\ m = Finished(i)
            /\ m <= Len(edges[u]) /\ Settled(u, m)
      BY <1>1, <1>3
    <3>2. Settled(u, m)'
      BY <3>1, <1>1, <1>2, <1>6, SettledIsKept
    <3>3. QED
      BY <3>1, <3>2, <1>4
  <2>2. QED
    BY <2>1, <1>3 DEF PathIsSettled
<1>9. TreeEdgesArePending'
  BY <1>1, <1>2 DEF TreeEdgesArePending
<1>10. QED
  BY <1>1, <1>2, <1>7, <1>8, <1>9 DEF CPInv, CONTINUE, COMPLETED

-----------------------------------------------------------------------------
(* The inductive invariant. *)

LEMMA CPInvInit == CPInit => CPInv
<1> SUFFICES ASSUME CPInit
             PROVE  CPInv
  OBVIOUS
<1>1. IInv /\ pc = "idle" /\ back_edges = {}
  BY InvInit DEF CPInit, Init
<1>2. [cost |-> 0, pred |-> src] \in Cost
  BY SourceAssumption DEF Cost
<1>3. crit_cost \in [Vertex -> Cost]
  BY <1>2 DEF CPInit
<1>4. Black = {}
  BY DEF CPInit, Init, Black, WHITE, BLACK
<1>5. QED
  BY <1>1, <1>3, <1>4 DEF CPInv, BlackIsSettled

LEMMA CPInvStep == CPInv /\ [CPNext]_cp_vars => CPInv'
<1> SUFFICES ASSUME CPInv, [CPNext]_cp_vars
             PROVE  CPInv'
  OBVIOUS
<1>1. IInv'
  BY TraversalStep, InvStep DEF CPInv
<1>2. ASSUME NEW G \in Graphs, NEW type \in {MAKESPAN, PER_FRAME}, Compute(G, type)
      PROVE  CPInv'
  BY <1>1, <1>2, InvOfCompute
<1>3. CASE OnPop
  BY <1>1, <1>3, InvOfPop
<1>4. CASE OnTreeEdge
  BY <1>1, <1>4, InvOfTreeEdge
<1>5. CASE OnBackEdge
  BY <1>1, <1>5 DEF CPInv, OnBackEdge, ABORT, COMPLETED
<1>6. CASE OnCrossEdge
  BY <1>1, <1>6, InvOfCrossEdge
<1>7. CASE OnFinishVertex
  BY <1>1, <1>7, InvOfFinishVertex
<1>8. CASE OnComplete
  <2>1. /\ pc' = "idle" /\ status = CONTINUE /\ status' = COMPLETED
        /\ UNCHANGED <<edges, color, back_edges, crit_cost>>
    BY <1>8 DEF OnComplete, Complete
  <2>2. BlackIsSettled /\ back_edges = {} /\ crit_cost \in [Vertex -> Cost]
    BY <2>1 DEF CPInv, CONTINUE, ABORT
  <2>3. BlackIsSettled'
    BY <2>1, <2>2 DEF BlackIsSettled, Settled, Black
  <2>4. QED
    BY <1>1, <2>1, <2>2, <2>3 DEF CPInv
<1>9. CASE OnAbort
  <2>1. pc' = "idle" /\ status' = ABORT /\ UNCHANGED crit_cost
    BY <1>9 DEF OnAbort, Destroy
  <2>2. QED
    BY <1>1, <2>1 DEF CPInv, ABORT, COMPLETED
<1>10. CASE UNCHANGED cp_vars
  <2>1. UNCHANGED <<edges, color, stack, next, pc, back_edges, crit_cost, status>>
    BY <1>10 DEF cp_vars, vars
  <2>2. BlackIsSettled' = BlackIsSettled /\ TreeEdgesArePending' = TreeEdgesArePending
    BY <2>1 DEF BlackIsSettled, TreeEdgesArePending, Settled, Black
  <2>3. PathIsSettled' = PathIsSettled
    BY <2>1 DEF PathIsSettled, Settled, Depth, Finished, At
  <2>4. QED
    BY <1>1, <2>1, <2>2, <2>3 DEF CPInv
<1>11. QED
  BY <1>2, <1>3, <1>4, <1>5, <1>6, <1>7, <1>8, <1>9, <1>10 DEF CPNext, Handle

\* When compute() has succeeded, every edge into a finished operation is
\* respected by the costs, whatever was computed before.
THEOREM CostsRespectEdges == CPSpec => []ScheduleIsFeasible
<1>1. CPInv => ScheduleIsFeasible
  BY DEF CPInv, ScheduleIsFeasible, Returned, BlackIsSettled, Settled, COMPLETED, ABORT
<1>2. QED
  BY <1>1, CPInvInit, CPInvStep, PTL DEF CPSpec

\* And the cost of every operation is attained over the edge from its
\* predecessor, which has been finished earlier: following the predecessors ends
\* at an operation that starts at 0.
THEOREM CostsAreAttained == CPSpec => []PredecessorsAreCritical
<1>1. CPInv => PredecessorsAreCritical
  <2> SUFFICES ASSUME CPInv, Returned, status = COMPLETED, NEW v \in Black \ {src}
               PROVE  \/ crit_cost[v].cost = 0 /\ crit_cost[v].pred = src
                      \/ /\ crit_cost[v].pred \in before[v]
                         /\ \E i \in 1 .. Len(edges[v]) :
                              /\ edges[v][i].source = crit_cost[v].pred
                              /\ uv_cost(crit_cost, edges[v][i]) = crit_cost[v].cost
    BY DEF PredecessorsAreCritical
  <2>1. Settled(v, Len(edges[v])) /\ back_edges = {} /\ FinishedInOrder
    BY DEF CPInv, IInv, BlackIsSettled, COMPLETED, ABORT
  <2>2. \A i \in 1 .. Len(edges[v]) : edges[v][i].source \in before[v]
    BY <2>1 DEF FinishedInOrder
  <2>3. QED
    BY <2>1, <2>2 DEF Settled
<1>2. QED
  BY <1>1, CPInvInit, CPInvStep, PTL DEF CPSpec

-----------------------------------------------------------------------------
(* The result of a computation. *)

LEMMA ObjectivesAreFinite ==
  ASSUME NEW cost \in [Vertex -> Cost], NEW v \in Vertex
  PROVE  FrameObjectives(cost, v) \in SUBSET Int /\ IsFiniteSet(FrameObjectives(cost, v))
<1> DEFINE w == weights[v]["JOB"].outgoing + cost[v].cost
           o(f) == stream_objective(f, f.d_min + cost[v].cost, w)
<1>1. cost[v].cost \in Int /\ w \in Int
  BY WeightAssumption DEF Cost
<1>2. ASSUME NEW f \in arrivals[v]
      PROVE  o(f) \in Int
  <2>1. f \in Frame
    BY ArrivalAssumption
  <2>2. /\ f.d_min + cost[v].cost \in Int /\ f.deadline \in Int /\ f.jitter \in Int
        /\ f.objective_type \in {"NO_OBJECTIVE", "LATENESS", "TARDINESS", "JITTER",
                                 "TARDINESS_AND_JITTER"}
    BY <1>1, <2>1 DEF Frame
  <2>3. \A n \in Int : AtLeastZero(n) \in Int
    BY DEF AtLeastZero
  <2> HIDE DEF w
  <2> QED
    BY <1>1, <2>2, <2>3 DEF stream_objective
<1>3. FrameObjectives(cost, v) = {o(f) : f \in arrivals[v]}
  BY DEF FrameObjectives
<1>4. IsFiniteSet({o(f) : f \in arrivals[v]})
  <2> DEFINE g == [f \in arrivals[v] |-> o(f)]
  <2> HIDE DEF o
  <2>1. IsFiniteSet({g[f] : f \in arrivals[v]})
    <3>1. DOMAIN g = arrivals[v]
      OBVIOUS
    <3> HIDE DEF g
    <3> QED
      BY <3>1, ArrivalAssumption, ImageIsFinite
  <2>2. {g[f] : f \in arrivals[v]} = {o(f) : f \in arrivals[v]}
    OBVIOUS
  <2> QED
    BY <2>1, <2>2
<1> QED
  BY <1>2, <1>3, <1>4

\* The worst objective exists, and if it is not 0 there is a first operation
\* that has it.
LEMMA ObjectiveIsFound ==
  ASSUME NEW type, NEW G \in Graphs, NEW cost \in [Vertex -> Cost]
  PROVE  objective(type, G, cost).critical_vertex \in Vertex
<1> DEFINE last_hops == [i \in 1 .. Len(G[start]) |-> G[start][i].source]
           all == {0} \cup UNION {FrameObjectives(cost, last_hops[i]) : i \in DOMAIN last_hops}
           worst == CHOOSE m \in all : \A n \in all : n <= m
           critical == {i \in DOMAIN last_hops : worst \in FrameObjectives(cost, last_hops[i])}
<1>1. start \in Vertex
  BY StartAssumption
<1>2. G[start] \in Seq(Edge) /\ Len(G[start]) \in Nat
  BY <1>1, GraphAssumption
<1>3. /\ DOMAIN last_hops = 1 .. Len(G[start])
      /\ \A i \in 1 .. Len(G[start]) : last_hops[i] \in Vertex
  BY <1>1, EdgesOfAny
<1> DEFINE sets == {FrameObjectives(cost, last_hops[i]) : i \in DOMAIN last_hops}
<1>4. all \in SUBSET Int /\ IsFiniteSet(all)
  <2>1. \A S \in sets : S \in SUBSET Int /\ IsFiniteSet(S)
    BY <1>3, ObjectivesAreFinite
  <2>2. IsFiniteSet(sets)
    <3> DEFINE g == [i \in 1 .. Len(G[start]) |-> FrameObjectives(cost, last_hops[i])]
    <3>1. sets = {g[i] : i \in 1 .. Len(G[start])} /\ DOMAIN g = 1 .. Len(G[start])
      OBVIOUS
    <3>2. IsFiniteSet(1 .. Len(G[start]))
      BY <1>2, FS_Interval
    <3> HIDE DEF g, sets
    <3> QED
      BY <3>1, <3>2, ImageIsFinite
  <2>3. IsFiniteSet(UNION sets) /\ UNION sets \in SUBSET Int
    <3> HIDE DEF sets
    <3> QED
      BY <2>1, <2>2, FS_UNION
  <2>4. IsFiniteSet({0})
    BY FS_Singleton
  <2> HIDE DEF sets
  <2>5. all = {0} \cup UNION sets
    BY DEF sets
  <2> HIDE DEF all
  <2>6. IsFiniteSet(all)
    BY <2>3, <2>4, <2>5, FS_Union
  <2>7. all \in SUBSET Int
    BY <2>3, <2>5
  <2> QED
    BY <2>6, <2>7
<1>5. worst \in all
  <2>1. all # {}
    OBVIOUS
  <2> HIDE DEF all
  <2>2. \E m \in all : \A n \in all : n <= m
    BY <1>4, <2>1, GreatestExists
  <2> QED
    BY <2>2
<1>6. ASSUME worst # 0
      PROVE  last_hops[CHOOSE i \in critical : \A j \in critical : i <= j] \in Vertex
  <2>1. \E i \in DOMAIN last_hops : worst \in FrameObjectives(cost, last_hops[i])
    <3> HIDE DEF worst
    <3> QED
      BY <1>5, <1>6
  <2>2. critical \in SUBSET Nat /\ critical # {} /\ critical \in SUBSET (1 .. Len(G[start]))
    <3> HIDE DEF worst
    <3> QED
      BY <1>2, <1>3, <2>1
  <2> HIDE DEF critical
  <2>3. \E i \in critical : \A j \in critical : i <= j
    BY <2>2, LeastNatural
  <2> QED
    BY <1>3, <2>2, <2>3
<1>7. objective(type, G, cost)
        = IF type = MAKESPAN
            THEN [objective |-> cost[start].cost, critical_vertex |-> start]
            ELSE [objective |-> worst,
                  critical_vertex |->
                    IF worst = 0 THEN start
                    ELSE last_hops[CHOOSE i \in critical : \A j \in critical : i <= j]]
  BY DEF objective
<1> HIDE DEF last_hops, worst, critical, all
<1> QED
  BY <1>1, <1>6, <1>7

-----------------------------------------------------------------------------
(* Cycles. *)

\* Each vertex of the path is a source of the one before it, and is what
\* cycle_pred leads to from there.
PathIsChained ==
  \A i \in 1 .. Depth - 1 : /\ At(i + 1).op \in Sources({At(i).op})
                            /\ cycle_pred[At(i).op] = At(i + 1).op

\* The back edge that ends a computation leads from the path to its end.
BackEdgeAtHand ==
  /\ pc = "visit"
  /\ \A b \in back_edges : /\ b.target = next.op
                           /\ color[b.source] = GRAY
                           /\ b.source \in Sources({next.op})

ResultIsTyped ==
  /\ cycle_pred \in [Vertex -> Vertex]
  /\ status \in {CONTINUE, ABORT, COMPLETED}
  /\ valid \in BOOLEAN
  /\ last_result.critical_vertex \in Vertex

\* What has been decided about cycles.
CyclesAreDecided ==
  /\ status = ABORT => ~IsAcyclic
  /\ status = ABORT /\ pc = "idle" => valid = FALSE
  /\ status = COMPLETED => IsAcyclic /\ valid = TRUE /\ Black = Ancestors(start)

CycleInv == /\ CPInv
            /\ pc # "idle" => VisitedIsNeeded /\ PathIsChained
            /\ ResultIsTyped
            /\ status = ABORT /\ pc # "idle" => BackEdgeAtHand
            /\ CyclesAreDecided

LEMMA SourcesOfOne ==
  ASSUME edges \in Graphs, NEW v \in Vertex
  PROVE  /\ Sources({v}) \in SUBSET Vertex
         /\ \A i \in 1 .. Len(edges[v]) : edges[v][i].source \in Sources({v})
         /\ \A u \in Sources({v}) : \E i \in 1 .. Len(edges[v]) : u = edges[v][i].source
<1> {v} \in SUBSET Vertex
  OBVIOUS
<1> QED
  BY SourcesAreVertices DEF Sources

LEMMA ChainOfTreeEdge ==
  ASSUME edges \in Graphs, TypeOK, Path, PathIsChained, TreeEdge,
         cycle_pred \in [Vertex -> Vertex],
         cycle_pred' = [cycle_pred EXCEPT ![e.target] = e.source]
  PROVE  PathIsChained' /\ cycle_pred' \in [Vertex -> Vertex]
<1>1. /\ next.op \in Vertex /\ next.it \in 1 .. Len(edges[next.op])
      /\ e \in Edge /\ e.source \in Vertex
  BY EdgeAtHand DEF TreeEdge
<1>2. e.target = next.op /\ e.source \in Sources({next.op})
  BY <1>1, EdgesOfGraph, SourcesOfOne DEF e
<1>3. /\ Depth \in Nat \ {0}
      /\ Depth' = Depth + 1
      /\ \A i \in 1 .. Depth - 1 : At(i)' = At(i)
      /\ At(Depth) = next
      /\ \A i : i = Depth => At(i)' = Kept
      /\ \A i : i = Depth + 1 => At(i)' = next'
  BY <1>1, TreeEdgePath
<1>4. next'.op = e.source /\ Kept.op = next.op /\ edges' = edges
  BY DEF TreeEdge, Kept
<1>5. \A i \in 1 .. Depth : At(i)'.op = At(i).op
  BY <1>3, <1>4
<1>6. ASSUME NEW i \in 1 .. Depth
      PROVE  /\ At(i + 1)'.op \in Sources({At(i)'.op})
             /\ cycle_pred'[At(i)'.op] = At(i + 1)'.op
  <2>1. CASE i = Depth
    BY <1>1, <1>2, <1>3, <1>4, <1>5, <2>1
  <2>2. CASE i # Depth
    <3>1. i \in 1 .. Depth - 1 /\ i + 1 \in 1 .. Depth
      BY <1>3, <2>2
    <3>2. At(i)'.op = At(i).op /\ At(i + 1)'.op = At(i + 1).op
      BY <1>5, <3>1
    <3>3. At(i).op # next.op
      BY <1>3, <2>2 DEF Path, GrayIsPath
    <3> QED
      BY <1>2, <3>1, <3>2, <3>3 DEF PathIsChained
  <2> QED
    BY <2>1, <2>2
<1>7. (\A S : Sources(S) = SourcesIn(edges, S)) /\ (\A S : Sources(S)' = SourcesIn(edges, S))
  BY <1>4 DEF Sources
<1> QED
  BY <1>1, <1>2, <1>3, <1>6, <1>7 DEF PathIsChained, Sources

\* The back edge closes a cycle: its source comes before its target on the path,
\* and each vertex of the path depends on the next one.
LEMMA BackEdgeIsCycle ==
  ASSUME edges \in Graphs, TypeOK, Path, PathIsChained, VisitedIsNeeded,
         pc = "visit", ~AtEnd, color[e.source] = GRAY
  PROVE  ~IsAcyclic
<1>1. /\ next.op \in Vertex /\ next.it \in 1 .. Len(edges[next.op])
      /\ e \in Edge /\ e.source \in Vertex /\ e.source \in Sources({next.op})
  BY EdgeAtHand, EdgesOfGraph, SourcesOfOne DEF e
<1>2. Depth \in Nat \ {0} /\ At(Depth) = next
  BY DepthType DEF Depth, At
<1>3. PICK k \in 1 .. Depth : At(k).op = e.source
  BY <1>1 DEF Path, GrayIsPath
<1>4. color[next.op] = GRAY
  BY <1>1, <1>2 DEF Path, GrayIsPath
<1>5. next.op \in Ancestors(start)
  BY <1>1, <1>4 DEF VisitedIsNeeded, WHITE, GRAY
<1>6. /\ Ancestors(e.source) \in SUBSET Vertex /\ e.source \in Ancestors(e.source)
      /\ IsClosed(edges, Ancestors(e.source))
  BY <1>1, AncestorsAreLeast DEF Ancestors
<1> DEFINE T == {n \in Nat : k + n <= Depth => At(k + n).op \in Ancestors(e.source)}
<1>7. 0 \in T
  BY <1>3, <1>6
<1>8. ASSUME NEW n \in Nat, n \in T
      PROVE  n + 1 \in T
  <2> SUFFICES ASSUME k + n + 1 <= Depth
               PROVE  At(k + n + 1).op \in Ancestors(e.source)
    OBVIOUS
  <2>1. k + n \in 1 .. Depth - 1
    BY <1>2
  <2>2. At(k + n).op \in Ancestors(e.source) /\ At(k + n + 1).op \in Sources({At(k + n).op})
    <3>1. At(k + n).op \in Ancestors(e.source)
      <4>1. k + n <= Depth => At(k + n).op \in Ancestors(e.source)
        BY <1>8
      <4>2. k + n <= Depth
        BY <1>2
      <4> QED
        BY <4>1, <4>2
    <3>2. At((k + n) + 1).op \in Sources({At(k + n).op})
      BY <2>1 DEF PathIsChained
    <3> QED
      BY <3>1, <3>2
  <2>3. At(k + n).op \in Vertex
    BY <1>6, <2>2
  <2>4. PICK i \in 1 .. Len(edges[At(k + n).op]) :
          At(k + n + 1).op = edges[At(k + n).op][i].source
    BY <2>2, <2>3, SourcesOfOne
  <2> QED
    BY <1>6, <2>2, <2>4, SourcesAreVertices DEF IsClosed
<1>9. Depth - k \in T
  <2>1. Depth - k \in Nat
    BY <1>2
  <2> HIDE DEF T
  <2> QED
    BY <1>7, <1>8, <2>1, InductionOnNaturals
<1>10. next.op \in Ancestors(e.source)
  <2>1. k + (Depth - k) = Depth
    BY <1>2
  <2> QED
    BY <1>2, <1>9, <2>1
<1> QED
  BY <1>1, <1>5, <1>10 DEF IsAcyclic

\* The order of finishing is a proof that there is no cycle.
LEMMA CompleteIsAcyclic ==
  ASSUME VisitInv, pc = "pop", stack = <<>>, back_edges = {}
  PROVE  IsAcyclic
<1>1. edges \in Graphs /\ FinishedInOrder /\ Black = Ancestors(start)
  BY NothingLeftOut DEF VisitInv, IInv
<1> SUFFICES ASSUME NEW v \in Black, NEW u \in Sources({v})
             PROVE  v \notin Ancestors(u)
  BY <1>1 DEF IsAcyclic
<1>2. v \in Vertex
  BY DEF Black
<1>3. u \in before[v] /\ v \notin before[v]
  BY <1>1, <1>2, SourcesOfOne DEF FinishedInOrder
<1>4. before[v] \in SUBSET Vertex /\ u \in Vertex
  BY <1>2, <1>3 DEF VisitInv, IInv, TypeOK
<1>5. ASSUME NEW w \in before[v], NEW i \in 1 .. Len(edges[w])
      PROVE  edges[w][i].source \in before[v]
  <2>1. w \in Black /\ before[w] \subseteq before[v]
    BY <1>1, <1>5 DEF FinishedInOrder
  <2> QED
    BY <1>1, <2>1, <1>5 DEF FinishedInOrder
<1>6. IsClosed(edges, before[v])
  BY <1>1, <1>4, <1>5, SourcesAreVertices DEF IsClosed
<1>7. Ancestors(u) \subseteq before[v]
  BY <1>1, <1>3, <1>4, <1>6, AncestorsAreLeast DEF Ancestors
<1> QED
  BY <1>3, <1>7

LEMMA SuccessorInRange ==
  ASSUME NEW d \in Nat, NEW f \in Nat, f <= d, NEW i \in 1 .. f - 1
  PROVE  i \in 1 .. d - 1 /\ i \in 1 .. f /\ i + 1 \in 1 .. f
OBVIOUS

LEMMA ChainIsKept ==
  ASSUME PathIsChained, Depth \in Nat, Depth' \in Nat, Depth' <= Depth,
         UNCHANGED <<edges, cycle_pred>>, \A i \in 1 .. Depth' : At(i)'.op = At(i).op
  PROVE  PathIsChained'
<1> SUFFICES ASSUME NEW i \in 1 .. Depth' - 1
             PROVE  /\ At(i + 1)'.op \in Sources({At(i)'.op})
                    /\ cycle_pred[At(i)'.op] = At(i + 1)'.op
  BY DEF PathIsChained, Sources
<1>1. PICK d \in Nat, f \in Nat : d = Depth /\ f = Depth' /\ f <= d /\ i \in 1 .. f - 1
  OBVIOUS
<1>2. i \in 1 .. d - 1 /\ i \in 1 .. f /\ i + 1 \in 1 .. f
  BY ONLY <1>1, SuccessorInRange
<1> QED
  BY <1>1, <1>2 DEF PathIsChained

LEMMA CycleStep == CycleInv /\ CPInv' /\ VisitInv' /\ [CPNext]_cp_vars => CycleInv'
<1> SUFFICES ASSUME CycleInv, CPInv', VisitInv', [CPNext]_cp_vars
             PROVE  CycleInv'
  OBVIOUS
<1>1. /\ edges \in Graphs /\ TypeOK /\ (pc # "idle" => Path)
      /\ (pc # "idle" => VisitedIsNeeded /\ PathIsChained)
      /\ ResultIsTyped /\ CyclesAreDecided /\ VisitInv
      /\ crit_cost \in [Vertex -> Cost]
      /\ Depth \in Nat
  BY DepthType DEF CycleInv, CPInv, IInv, VisitInv
<1>2. (pc' # "idle" => VisitedIsNeeded') /\ Depth' \in Nat
  <2>1. stack' \in Seq(State)
    BY DEF CPInv, IInv, TypeOK
  <2>2. Depth' \in Nat
    BY <2>1 DEF Depth
  <2> QED
    BY <2>2 DEF VisitInv
<1>3. edges' = edges => IsAcyclic' = IsAcyclic /\ (Ancestors(start))' = Ancestors(start)
  BY DEF IsAcyclic, Ancestors, Sources
<1>4. ASSUME NEW G \in Graphs, NEW type, Compute(G, type)
      PROVE  CycleInv'
  <2>1. Depth' = 1 /\ status' = CONTINUE /\ UNCHANGED <<cycle_pred, valid, last_result>>
    BY <1>4 DEF Compute, Start, Depth
  <2>2. PathIsChained'
    BY <2>1 DEF PathIsChained
  <2> QED
    BY <1>1, <1>2, <2>1, <2>2
    DEF CycleInv, ResultIsTyped, CyclesAreDecided, CONTINUE, ABORT, COMPLETED
<1>5. ASSUME PathIsChained', status = CONTINUE, UNCHANGED <<status, valid, last_result>>,
             cycle_pred' \in [Vertex -> Vertex]
      PROVE  CycleInv'
  BY <1>1, <1>2, <1>5
  DEF CycleInv, ResultIsTyped, CyclesAreDecided, CONTINUE, ABORT, COMPLETED
<1>6. CASE OnPop
  <2>1. /\ Pop /\ pc # "idle" /\ status = CONTINUE
        /\ UNCHANGED <<edges, cycle_pred, status, valid, last_result>>
    BY <1>6 DEF OnPop, Pop
  <2>2. Depth' = Depth /\ \A i \in 1 .. Depth : At(i)' = At(i)
    BY <1>1, <2>1, PopPath
  <2>3. PathIsChained'
    BY <1>1, <1>2, <2>1, <2>2, ChainIsKept
  <2> QED
    BY <1>1, <1>5, <2>1, <2>3 DEF ResultIsTyped
<1>7. CASE OnTreeEdge
  <2>1. /\ TreeEdge /\ pc # "idle" /\ status = CONTINUE
        /\ cycle_pred' = [cycle_pred EXCEPT ![e.target] = e.source]
        /\ UNCHANGED <<status, valid, last_result>>
    BY <1>7 DEF OnTreeEdge, TreeEdge
  <2> QED
    BY <1>1, <1>5, <2>1, ChainOfTreeEdge DEF ResultIsTyped
<1>8. ASSUME BackEdge \/ CrossEdge, UNCHANGED cycle_pred
      PROVE  PathIsChained'
  <2>1. /\ pc = "visit" /\ UNCHANGED <<edges, stack, pc>>
        /\ next' = [next EXCEPT !.it = @ + 1]
    BY <1>8 DEF BackEdge, CrossEdge
  <2>2. /\ Depth' = Depth
        /\ \A i \in 1 .. Depth - 1 : At(i)' = At(i)
        /\ At(Depth) = next
        /\ \A i : i = Depth => At(i)' = next'
        /\ next'.op = next.op
    BY <1>1, <2>1, AdvancePath
  <2>3. \A i \in 1 .. Depth' : At(i)'.op = At(i).op
    BY <1>1, <2>2
  <2> QED
    BY <1>1, <1>2, <1>8, <2>1, <2>2, <2>3, ChainIsKept
<1>9. CASE OnBackEdge
  <2>1. /\ BackEdge /\ pc = "visit" /\ pc' = "visit" /\ ~AtEnd /\ color[e.source] = GRAY
        /\ status = CONTINUE /\ status' = ABORT /\ back_edges' = back_edges \cup {e}
        /\ next' = [next EXCEPT !.it = @ + 1]
        /\ UNCHANGED <<edges, color, cycle_pred, valid, last_result>>
    BY <1>9 DEF OnBackEdge, BackEdge
  <2>2. back_edges = {}
    BY <2>1 DEF CycleInv, CPInv, CONTINUE, ABORT
  <2>3. /\ next.op \in Vertex /\ next.it \in 1 .. Len(edges[next.op]) /\ next'.op = next.op
    BY <1>1, <2>1, EdgeAtHand DEF TypeOK, State
  <2>4. e.target = next.op /\ e.source \in Sources({next.op})
    BY <1>1, <2>3, EdgesOfGraph, SourcesOfOne DEF e
  <2>5. BackEdgeAtHand'
    BY <2>1, <2>2, <2>3, <2>4 DEF BackEdgeAtHand, Sources
  <2>6. ~IsAcyclic'
    BY <1>1, <1>3, <2>1, BackEdgeIsCycle
  <2> QED
    BY <1>1, <1>2, <1>8, <2>1, <2>5, <2>6
    DEF CycleInv, ResultIsTyped, CyclesAreDecided, CONTINUE, ABORT, COMPLETED
<1>10. CASE OnCrossEdge
  <2>1. /\ CrossEdge /\ status = CONTINUE /\ UNCHANGED <<cycle_pred, status, valid, last_result>>
    BY <1>10 DEF OnCrossEdge
  <2> QED
    BY <1>1, <1>5, <1>8, <2>1 DEF ResultIsTyped
<1>11. CASE OnFinishVertex
  <2>1. /\ pc = "visit" /\ pc' = "pop" /\ status = CONTINUE
        /\ UNCHANGED <<edges, stack, next, cycle_pred, status, valid, last_result>>
    BY <1>11 DEF OnFinishVertex, FinishVertex
  <2>2. Depth' <= Depth /\ \A i \in 1 .. Depth' : At(i)' = At(i)
    BY <1>1, <2>1, DepthType DEF Depth, At
  <2>3. PathIsChained'
    BY <1>1, <1>2, <2>1, <2>2, ChainIsKept
  <2> QED
    BY <1>1, <1>5, <2>1, <2>3 DEF ResultIsTyped
<1>12. CASE OnComplete
  <2>1. /\ pc = "pop" /\ stack = <<>> /\ pc' = "idle" /\ status = CONTINUE
        /\ status' = COMPLETED /\ valid' = TRUE
        /\ last_result' = objective(objective_type, edges, crit_cost)
        /\ UNCHANGED <<edges, color, cycle_pred>>
    BY <1>12 DEF OnComplete, Complete
  <2>2. back_edges = {}
    BY <2>1 DEF CycleInv, CPInv, CONTINUE, ABORT
  <2>3. IsAcyclic' /\ Black' = (Ancestors(start))'
    BY <1>1, <1>3, <2>1, <2>2, CompleteIsAcyclic, NothingLeftOut DEF Black
  <2>4. last_result'.critical_vertex \in Vertex
    BY <1>1, <2>1, ObjectiveIsFound
  <2> QED
    BY <1>1, <1>2, <2>1, <2>3, <2>4
    DEF CycleInv, ResultIsTyped, CyclesAreDecided, ABORT, COMPLETED
<1>13. CASE OnAbort
  <2>1. /\ status = ABORT /\ pc' = "idle" /\ valid' = FALSE
        /\ last_result' = [objective |-> Infinity, critical_vertex |-> start]
        /\ UNCHANGED <<edges, cycle_pred, status>>
    BY <1>13 DEF OnAbort, Destroy
  <2>2. last_result'.critical_vertex = start
    BY <2>1
  <2>3. ResultIsTyped'
    BY <1>1, <2>1, <2>2, StartAssumption DEF ResultIsTyped
  <2>4. ~IsAcyclic
    BY <2>1 DEF CycleInv, CyclesAreDecided
  <2>5. CyclesAreDecided'
    BY <1>3, <2>1, <2>4 DEF CyclesAreDecided, ABORT, COMPLETED
  <2> QED
    BY <1>1, <1>2, <2>1, <2>3, <2>5 DEF CycleInv, ABORT, COMPLETED
<1>14. CASE UNCHANGED cp_vars
  <2>1. UNCHANGED <<edges, color, stack, next, pc, back_edges, cycle_pred, status, valid, last_result>>
    BY <1>14 DEF cp_vars, vars
  <2>2. PathIsChained' = PathIsChained /\ BackEdgeAtHand' = BackEdgeAtHand /\ Black' = Black
    BY <2>1 DEF PathIsChained, BackEdgeAtHand, Sources, Depth, At, Black
  <2> QED
    BY <1>1, <1>2, <1>3, <2>1, <2>2 DEF CycleInv, ResultIsTyped, CyclesAreDecided
<1> QED
  BY <1>4, <1>6, <1>7, <1>9, <1>10, <1>11, <1>12, <1>13, <1>14 DEF CPNext, Handle

LEMMA CyclesInvariant == CPSpec => []CycleInv
<1>1. CPInit => CycleInv
  <2> SUFFICES ASSUME CPInit
               PROVE  CycleInv
    OBVIOUS
  <2>1. CPInv /\ pc = "idle" /\ status = CONTINUE
    BY CPInvInit DEF CPInit, Init
  <2>2. ResultIsTyped
    BY SourceAssumption DEF CPInit, ResultIsTyped
  <2> QED
    BY <2>1, <2>2 DEF CycleInv, CyclesAreDecided, CONTINUE, ABORT, COMPLETED
<1>2. CycleInv /\ [CPNext]_cp_vars => CycleInv'
  <2>1. CycleInv => CPInv /\ VisitInv
    BY DEF CycleInv, CPInv, VisitInv
  <2> QED
    BY <2>1, CPInvStep, TraversalStep, VisitStep, CycleStep
<1> QED
  BY <1>1, <1>2, PTL DEF CPSpec

\* The costs, the result and the predecessors on the path are those of existing
\* vertices: the worst objective of a frame is found at an operation.
THEOREM CriticalPathTypes == CPSpec => []CPTypeOK
<1>1. CycleInv => CPTypeOK
  BY DEF CycleInv, CPInv, IInv, ResultIsTyped, CPTypeOK, Cost
<1> QED
  BY <1>1, CyclesInvariant, PTL

\* compute() reports a cycle exactly when there is one among the operations
\* that the sink depends on: the back edge it aborts at closes one, and a
\* complete order of finishing leaves no room for one.
THEOREM CyclesAreFound == CPSpec => []CyclesAreReported
<1>1. CycleInv => CyclesAreReported
  <2> SUFFICES ASSUME CycleInv, pc = "idle", status # CONTINUE
               PROVE  /\ valid = IsAcyclic
                      /\ status = (IF IsAcyclic THEN COMPLETED ELSE ABORT)
    BY DEF CyclesAreReported, Returned
  <2>1. IsAcyclic \in BOOLEAN
    BY DEF IsAcyclic
  <2>2. /\ status = ABORT => IsAcyclic = FALSE /\ valid = FALSE
        /\ status = COMPLETED => IsAcyclic = TRUE /\ valid = TRUE
    BY <2>1 DEF CycleInv, CyclesAreDecided
  <2>3. status = ABORT \/ status = COMPLETED
    BY DEF CycleInv, ResultIsTyped
  <2> QED
    BY <2>2, <2>3
<1> QED
  BY <1>1, CyclesInvariant, PTL

\* The path is no longer than there are vertices.
LEMMA PathIsShort ==
  ASSUME TypeOK, Path
  PROVE  Depth \in Nat /\ Depth <= Cardinality(Vertex)
<1> DEFINE f == [i \in 1 .. Depth |-> At(i).op]
<1>1. Depth \in Nat
  BY DepthType
<1>2. f \in Injection(1 .. Depth, Vertex)
  <2>1. f \in [1 .. Depth -> Vertex]
    BY AtType
  <2>2. \A i, j \in 1 .. Depth : f[i] = f[j] => i = j
    BY DEF Path, GrayIsPath
  <2> QED
    BY <2>1, <2>2 DEF Injection, IsInjective
<1>3. Cardinality(1 .. Depth) = Depth /\ Cardinality(1 .. Depth) <= Cardinality(Vertex)
  BY <1>1, <1>2, StartAssumption, FS_Injection, FS_Interval
<1> QED
  BY <1>1, <1>3

\* From the source of the back edge cycle_pred leads along the path to its end.
LEMMA PrintedIsPath ==
  ASSUME CycleInv, status = ABORT, pc # "idle", NEW b \in back_edges
  PROVE  LET w[n \in Nat] == IF n = 0 THEN b.source ELSE cycle_pred[w[n - 1]]
         IN \E n \in 0 .. Cardinality(Vertex) :
              /\ w[n] = b.target
              /\ \A m \in 0 .. n - 1 : w[m + 1] \in Sources({w[m]})
<1>1. /\ TypeOK /\ Path /\ PathIsChained /\ cycle_pred \in [Vertex -> Vertex]
      /\ b.target = next.op /\ color[b.source] = GRAY /\ pc = "visit"
      /\ b.source \in Vertex
  BY DEF CycleInv, CPInv, IInv, ResultIsTyped, BackEdgeAtHand, TypeOK, Edge
<1>2. Depth \in Nat \ {0} /\ At(Depth) = next /\ Depth <= Cardinality(Vertex)
  BY <1>1, DepthType, PathIsShort DEF Depth, At
<1>3. PICK k \in 1 .. Depth : At(k).op = b.source
  BY <1>1 DEF Path, GrayIsPath
<1> DEFINE a == b.source
           Steps(f) == [n \in Nat |-> IF n = 0 THEN a ELSE cycle_pred[f[n - 1]]]
           w == CHOOSE f : f = Steps(f)
<1>4. w = Steps(w)
  <2>1. \E f : f = Steps(f)
    <3> HIDE DEF a
    <3>1. a \in Vertex
      BY <1>1 DEF a
    <3> QED
      BY <1>1, <3>1, IterationExists
  <2> HIDE DEF Steps
  <2> QED
    BY <2>1
<1> HIDE DEF w
<1>5. w[0] = b.source /\ \A n \in Nat : w[n + 1] = cycle_pred[w[n]]
  <2>1. w \in [Nat -> Vertex] /\ w[0] = a /\ \A n \in Nat : w[n + 1] = cycle_pred[w[n]]
    <3> HIDE DEF a
    <3>1. a \in Vertex
      BY <1>1 DEF a
    <3> QED
      BY <1>1, <1>4, <3>1, IterationType
  <2> QED
    BY <2>1
<1> DEFINE T == {n \in Nat : k + n <= Depth => w[n] = At(k + n).op}
<1>6. 0 \in T
  BY <1>3, <1>5
<1>7. ASSUME NEW n \in Nat, n \in T
      PROVE  n + 1 \in T
  <2> SUFFICES ASSUME k + (n + 1) <= Depth
               PROVE  w[n + 1] = At(k + (n + 1)).op
    OBVIOUS
  <2>1. w[n] = At(k + n).op
    <3>1. k + n <= Depth => w[n] = At(k + n).op
      BY <1>7
    <3>2. k + n <= Depth
      BY <1>2
    <3> QED
      BY <3>1, <3>2
  <2>2. k + n \in 1 .. Depth - 1 /\ (k + n) + 1 = k + (n + 1)
    BY <1>2
  <2>3. cycle_pred[At(k + n).op] = At((k + n) + 1).op
    BY <1>1, <2>2 DEF PathIsChained
  <2> QED
    BY <1>5, <2>1, <2>2, <2>3
<1>8. \A n \in Nat : k + n <= Depth => w[n] = At(k + n).op
  <2>1. Nat \subseteq T
    <3> HIDE DEF T
    <3> QED
      BY <1>6, <1>7, InductionOnNaturals
  <2> QED
    BY <2>1
<1>9. /\ Depth - k \in 0 .. Cardinality(Vertex)
      /\ w[Depth - k] = b.target
  <2>1. Depth - k \in Nat /\ k + (Depth - k) = Depth /\ Depth - k <= Cardinality(Vertex)
        /\ Cardinality(Vertex) \in Nat
    BY <1>2, StartAssumption, FS_CardinalityType
  <2>2. w[Depth - k] = At(k + (Depth - k)).op
    BY <1>2, <1>8, <2>1
  <2> QED
    BY <1>1, <1>2, <2>1, <2>2
<1>10. \A m \in 0 .. (Depth - k) - 1 : w[m + 1] \in Sources({w[m]})
  <2> SUFFICES ASSUME NEW m \in 0 .. (Depth - k) - 1
               PROVE  w[m + 1] \in Sources({w[m]})
    OBVIOUS
  <2>1. m \in Nat /\ m + 1 \in Nat /\ k + m <= Depth /\ k + (m + 1) <= Depth
        /\ k + m \in 1 .. Depth - 1 /\ (k + m) + 1 = k + (m + 1)
    BY <1>2
  <2>2. At((k + m) + 1).op \in Sources({At(k + m).op})
    BY <1>1, <2>1 DEF PathIsChained
  <2> QED
    BY <1>8, <2>1, <2>2
<1>11. \E n \in 0 .. Cardinality(Vertex) :
         w[n] = b.target /\ \A m \in 0 .. n - 1 : w[m + 1] \in Sources({w[m]})
  BY <1>9, <1>10
<1> QED
  BY <1>11 DEF w

\* What visitor_back_edge prints is a cycle, and printing it ends.
THEOREM PrintingEnds == CPSpec => []CycleIsPrinted
<1>1. CycleInv => CycleIsPrinted
  BY PrintedIsPath DEF CycleIsPrinted
<1> QED
  BY <1>1, CyclesInvariant, PTL

-----------------------------------------------------------------------------
(* The costs of a computation that completes are the lengths of longest      *)
(* paths, and its result is the objective for these.                         *)
(*                                                                           *)
(* The costs respect every edge, and each is 0 or attained over an edge.     *)
(* Because they respect the edges, no path is longer than the cost of its    *)
(* end, by induction on its edges.  Because they are attained, and finishing *)
(* is an order, there is a path as long as the cost, by induction on what    *)
(* was finished before its end.                                              *)

\* A path of length l is prolonged by d.
Longer(l, d) == l + weights[d.source][d.edge_type].outgoing
                  + weights[d.target][d.edge_type].incoming

\* A path: where it ends, and its length.
PathSet == Vertex \X Int

LEMMA LongerIsCost ==
  ASSUME edges \in Graphs, crit_cost \in [Vertex -> Cost],
         NEW v \in Vertex, NEW i \in 1 .. Len(edges[v])
  PROVE  /\ edges[v][i].source \in Vertex /\ edges[v][i].target = v
         /\ \A l \in Int : Longer(l, edges[v][i]) \in Int
         /\ \A l \in Int : l <= crit_cost[edges[v][i].source].cost =>
              Longer(l, edges[v][i]) <= uv_cost(crit_cost, edges[v][i])
         /\ Longer(crit_cost[edges[v][i].source].cost, edges[v][i])
              = uv_cost(crit_cost, edges[v][i])
<1> DEFINE d == edges[v][i]
           a == weights[d.source][d.edge_type].outgoing
           b == weights[d.target][d.edge_type].incoming
           c == crit_cost[d.source].cost
<1>1. d \in Edge /\ d.source \in Vertex /\ d.target = v
  BY EdgesOfGraph
<1>2. d.edge_type \in EdgeType /\ d.target \in Vertex
  BY <1>1 DEF Edge
<1>3. a \in Int /\ b \in Int
  BY <1>1, <1>2, WeightAssumption
<1>4. c \in Nat
  BY <1>1 DEF Cost
<1>5. \A l : Longer(l, d) = l + a + b
  BY DEF Longer
<1>6. uv_cost(crit_cost, d) = c + a + b
  BY DEF uv_cost
<1> HIDE DEF a, b, c
<1>7. \A l \in Int : Longer(l, d) \in Int
  BY <1>3, <1>5
<1>8. \A l \in Int : l <= c => Longer(l, d) <= uv_cost(crit_cost, d)
  BY <1>3, <1>4, <1>5, <1>6
<1>9. Longer(c, d) = uv_cost(crit_cost, d)
  BY <1>5, <1>6
<1> QED
  BY <1>1, <1>7, <1>8, <1>9 DEF c

LEMMA ProlongedPaths ==
  ASSUME edges \in Graphs, NEW V \in SUBSET Vertex, NEW P \in SUBSET PathSet
  PROVE  /\ \A v \in V : \A i \in 1 .. Len(edges[v]) : \A l :
              <<edges[v][i].source, l>> \in P =>
                <<v, Longer(l, edges[v][i])>> \in Prolonged(V, P)
         /\ \A p \in Prolonged(V, P) : \E v \in V : \E i \in 1 .. Len(edges[v]) : \E l \in Int :
              <<edges[v][i].source, l>> \in P /\ p = <<v, Longer(l, edges[v][i])>>
<1>1. \A v \in V : \A i \in 1 .. Len(edges[v]) : edges[v][i].target = v
  BY EdgesOfGraph
<1>2. \A d \in Dependencies(V) : \E v \in V : \E i \in 1 .. Len(edges[v]) : d = edges[v][i]
  BY DEF Dependencies
<1>3. \A v \in V : \A i \in 1 .. Len(edges[v]) : edges[v][i] \in Dependencies(V)
  BY DEF Dependencies
<1>4. Prolonged(V, P) = UNION {{<<d.target, Longer(path[2], d)>> :
                                  path \in {p \in P : p[1] = d.source}} : d \in Dependencies(V)}
  BY DEF Prolonged, Longer
<1>5. ASSUME NEW v \in V, NEW i \in 1 .. Len(edges[v]), NEW l, <<edges[v][i].source, l>> \in P
      PROVE  <<v, Longer(l, edges[v][i])>> \in Prolonged(V, P)
  <2> DEFINE d == edges[v][i]
  <2>1. d \in Dependencies(V) /\ d.target = v
    BY <1>1, <1>3
  <2>2. <<d.source, l>> \in {p \in P : p[1] = d.source}
    BY <1>5
  <2>3. <<d.target, Longer(<<d.source, l>>[2], d)>>
          \in {<<d.target, Longer(path[2], d)>> : path \in {p \in P : p[1] = d.source}}
    BY <2>2
  <2>4. <<d.source, l>>[2] = l
    OBVIOUS
  <2> HIDE DEF d
  <2>5. <<d.target, Longer(l, d)>> \in Prolonged(V, P)
    BY <1>4, <2>1, <2>3, <2>4
  <2> QED
    BY <2>1, <2>5 DEF d
<1>6. ASSUME NEW q \in Prolonged(V, P)
      PROVE  \E v \in V : \E i \in 1 .. Len(edges[v]) : \E l \in Int :
               <<edges[v][i].source, l>> \in P /\ q = <<v, Longer(l, edges[v][i])>>
  <2>1. PICK d \in Dependencies(V) : \E path \in {p \in P : p[1] = d.source} :
          q = <<d.target, Longer(path[2], d)>>
    BY <1>4, <1>6
  <2>2. PICK path \in P : path[1] = d.source /\ q = <<d.target, Longer(path[2], d)>>
    BY <2>1
  <2>3. path[2] \in Int /\ path = <<path[1], path[2]>>
    BY <2>2 DEF PathSet
  <2>4. PICK v \in V : \E i \in 1 .. Len(edges[v]) : d = edges[v][i]
    BY <1>2
  <2>5. PICK i \in 1 .. Len(edges[v]) : d = edges[v][i]
    BY <2>4
  <2>6. d.target = v
    BY <1>1, <2>5
  <2>7. <<d.source, path[2]>> \in P /\ q = <<v, Longer(path[2], d)>>
    BY <2>2, <2>3, <2>6
  <2> QED
    BY <2>3, <2>5, <2>7
<1> QED
  BY <1>5, <1>6

LEMMA ProlongedType ==
  ASSUME edges \in Graphs, crit_cost \in [Vertex -> Cost],
         NEW V \in SUBSET Vertex, NEW P \in SUBSET PathSet
  PROVE  Prolonged(V, P) \in SUBSET PathSet
<1> SUFFICES ASSUME NEW q \in Prolonged(V, P)
             PROVE  q \in PathSet
  OBVIOUS
<1>1. PICK v \in V : \E i \in 1 .. Len(edges[v]) : \E l \in Int :
        <<edges[v][i].source, l>> \in P /\ q = <<v, Longer(l, edges[v][i])>>
  BY ProlongedPaths
<1>2. PICK i \in 1 .. Len(edges[v]), l \in Int : q = <<v, Longer(l, edges[v][i])>>
  BY <1>1
<1>3. Longer(l, edges[v][i]) \in Int
  BY LongerIsCost
<1> QED
  BY <1>2, <1>3 DEF PathSet

LEMMA PathsByLength ==
  ASSUME edges \in Graphs, crit_cost \in [Vertex -> Cost], NEW V \in SUBSET Vertex
  PROVE  \E f \in [Nat -> SUBSET PathSet] :
           /\ f[0] = V \X {0}
           /\ \A n \in Nat : f[n + 1] = f[n] \cup Prolonged(V, f[n])
           /\ Paths(V) = f[Cardinality(V) - 1]
<1> DEFINE S == SUBSET PathSet
           a == V \X {0}
           g == [P \in S |-> P \cup Prolonged(V, P)]
           Steps(f) == [n \in Nat |-> IF n = 0 THEN V \X {0}
                                      ELSE f[n - 1] \cup Prolonged(V, f[n - 1])]
           paths == CHOOSE f : f = Steps(f)
<1>1. Paths(V) = paths[Cardinality(V) - 1]
  BY DEF Paths
<1>2. a \in S /\ g \in [S -> S]
  <2>1. a \in S
    BY DEF PathSet
  <2>2. \A P \in S : P \cup Prolonged(V, P) \in S
    BY ProlongedType
  <2> HIDE DEF S
  <2> QED
    BY <2>1, <2>2
<1>3. PICK f : /\ f = [n \in Nat |-> IF n = 0 THEN a ELSE g[f[n - 1]]]
               /\ f \in [Nat -> S]
  <2> HIDE DEF g, S, a
  <2>1. PICK f : f = [n \in Nat |-> IF n = 0 THEN a ELSE g[f[n - 1]]]
    BY <1>2, IterationExists
  <2>2. f \in [Nat -> S]
    BY <1>2, <2>1, IterationType
  <2> QED
    BY <2>1, <2>2
<1>4. f = Steps(f)
  <2>1. \A n \in Nat : n # 0 => f[n - 1] \in S
    <3>1. \A n \in Nat : n # 0 => n - 1 \in Nat
      OBVIOUS
    <3> HIDE DEF S, g, a
    <3> QED
      BY <1>3, <3>1
  <2>2. \A P \in S : g[P] = P \cup Prolonged(V, P)
    OBVIOUS
  <2> HIDE DEF g, S
  <2>3. Steps(f) = [n \in Nat |-> IF n = 0 THEN a ELSE g[f[n - 1]]]
    BY <2>1, <2>2
  <2> QED
    BY <1>3, <2>3
<1>5. paths = Steps(paths)
  <2> HIDE DEF Steps
  <2> QED
    BY <1>4
<1> HIDE DEF paths
<1>6. paths[0] = V \X {0}
  BY <1>5
<1>7. \A n \in Nat : paths[n + 1] = paths[n] \cup Prolonged(V, paths[n])
  <2> SUFFICES ASSUME NEW n \in Nat
               PROVE  paths[n + 1] = paths[n] \cup Prolonged(V, paths[n])
    OBVIOUS
  <2>1. Steps(paths)[n + 1] = paths[(n + 1) - 1] \cup Prolonged(V, paths[(n + 1) - 1])
    OBVIOUS
  <2>2. (n + 1) - 1 = n
    OBVIOUS
  <2> HIDE DEF Steps
  <2> QED
    BY <1>5, <2>1, <2>2
<1>8. paths \in [Nat -> S]
  <2> DEFINE T == {n \in Nat : paths[n] \in S}
  <2>1. 0 \in T
    BY <1>2, <1>6
  <2>2. \A n \in Nat : n \in T => n + 1 \in T
    <3>1. \A P \in S : P \cup Prolonged(V, P) \in S
      BY ProlongedType
    <3> HIDE DEF S, g
    <3> QED
      BY <1>7, <3>1
  <2>3. Nat \subseteq T
    <3> HIDE DEF T
    <3> QED
      BY <2>1, <2>2, InductionOnNaturals
  <2>4. paths = [n \in Nat |-> paths[n]]
    BY <1>5
  <2> HIDE DEF S
  <2> QED
    BY <2>3, <2>4
<1> QED
  BY <1>1, <1>6, <1>7, <1>8

-----------------------------------------------------------------------------
(* The costs of a completed computation. *)

\* What is known of the costs when a computation has completed.
Completed ==
  /\ CPInv
  /\ status = COMPLETED
  /\ Black = Ancestors(start)

LEMMA CompletedCosts ==
  ASSUME Completed, NEW v \in Black
  PROVE  /\ v \in Vertex /\ crit_cost[v].cost \in Nat
         /\ before[v] \in SUBSET Vertex /\ v \notin before[v]
         /\ \A i \in 1 .. Len(edges[v]) :
              /\ edges[v][i].source \in Black
              /\ edges[v][i].source \in before[v]
              /\ before[edges[v][i].source] \subseteq before[v]
              /\ uv_cost(crit_cost, edges[v][i]) <= crit_cost[v].cost
         /\ \/ crit_cost[v].cost = 0
            \/ \E i \in 1 .. Len(edges[v]) : uv_cost(crit_cost, edges[v][i]) = crit_cost[v].cost
<1>1. /\ edges \in Graphs /\ TypeOK /\ FinishedInOrder /\ back_edges = {} /\ BlackIsSettled
      /\ crit_cost \in [Vertex -> Cost]
  BY DEF Completed, CPInv, IInv, COMPLETED, ABORT
<1>2. v \in Vertex
  BY DEF Black
<1>3. crit_cost[v].cost \in Nat /\ before[v] \in SUBSET Vertex
  BY <1>1, <1>2 DEF Cost, TypeOK
<1>4. Settled(v, Len(edges[v]))
  BY <1>1 DEF BlackIsSettled
<1>5. ASSUME NEW i \in 1 .. Len(edges[v])
      PROVE  /\ edges[v][i].source \in before[v]
             /\ edges[v][i].source \in Black
             /\ before[edges[v][i].source] \subseteq before[v]
  BY <1>1 DEF FinishedInOrder
<1>6. v \notin before[v]
  BY <1>1 DEF FinishedInOrder
<1>7. /\ \A i \in 1 .. Len(edges[v]) : uv_cost(crit_cost, edges[v][i]) <= crit_cost[v].cost
      /\ \/ crit_cost[v].cost = 0
         \/ \E i \in 1 .. Len(edges[v]) : uv_cost(crit_cost, edges[v][i]) = crit_cost[v].cost
  BY <1>4 DEF Settled
<1> QED
  BY <1>2, <1>3, <1>5, <1>6, <1>7

\* No path is longer than the cost of the operation at its end: by induction on
\* the edges of the path.
LEMMA NoPathIsLonger ==
  ASSUME Completed, NEW f \in [Nat -> SUBSET PathSet],
         f[0] = Black \X {0},
         \A n \in Nat : f[n + 1] = f[n] \cup Prolonged(Black, f[n])
  PROVE  \A n \in Nat : \A p \in f[n] : p[1] \in Black /\ p[2] <= crit_cost[p[1]].cost
<1>1. /\ edges \in Graphs /\ crit_cost \in [Vertex -> Cost]
      /\ Black \in SUBSET Vertex
  BY DEF Completed, CPInv, IInv, Black
<1> DEFINE Fits(p) == p[1] \in Black /\ p[2] <= crit_cost[p[1]].cost
           T == {n \in Nat : \A p \in f[n] : Fits(p)}
<1>2. 0 \in T
  <2> SUFFICES ASSUME NEW p \in Black \X {0}
               PROVE  Fits(p)
    OBVIOUS
  <2>1. p[1] \in Black /\ p[2] = 0
    OBVIOUS
  <2>2. crit_cost[p[1]].cost \in Nat
    BY <2>1, CompletedCosts
  <2> QED
    BY <2>1, <2>2
<1>3. ASSUME NEW n \in Nat, n \in T
      PROVE  n + 1 \in T
  <2>1. f[n] \in SUBSET PathSet
    OBVIOUS
  <2>2. ASSUME NEW p \in Prolonged(Black, f[n])
        PROVE  Fits(p)
    <3>1. PICK v \in Black : \E i \in 1 .. Len(edges[v]) : \E l \in Int :
            <<edges[v][i].source, l>> \in f[n] /\ p = <<v, Longer(l, edges[v][i])>>
      <4>1. \A q \in Prolonged(Black, f[n]) :
              \E v \in Black : \E i \in 1 .. Len(edges[v]) : \E l \in Int :
                <<edges[v][i].source, l>> \in f[n] /\ q = <<v, Longer(l, edges[v][i])>>
        <5> HIDE DEF T, Fits
        <5> QED
          BY <1>1, <2>1, ProlongedPaths
      <4> HIDE DEF T, Fits
      <4> QED
        BY <2>2, <4>1
    <3>2. PICK i \in 1 .. Len(edges[v]) : \E l \in Int :
            <<edges[v][i].source, l>> \in f[n] /\ p = <<v, Longer(l, edges[v][i])>>
      BY <3>1
    <3>3. PICK l \in Int : <<edges[v][i].source, l>> \in f[n] /\ p = <<v, Longer(l, edges[v][i])>>
      BY <3>2
    <3>4. l <= crit_cost[edges[v][i].source].cost
      <4>1. Fits(<<edges[v][i].source, l>>)
        BY <1>3, <3>3
      <4> QED
        BY <4>1
    <3>5. v \in Vertex /\ crit_cost[v].cost \in Nat
          /\ uv_cost(crit_cost, edges[v][i]) <= crit_cost[v].cost
      BY CompletedCosts
    <3>6. /\ Longer(l, edges[v][i]) \in Int
          /\ Longer(l, edges[v][i]) <= uv_cost(crit_cost, edges[v][i])
          /\ uv_cost(crit_cost, edges[v][i]) \in Int
      BY <1>1, <3>4, <3>5, LongerIsCost, CostOverEdge
    <3>7. Longer(l, edges[v][i]) <= crit_cost[v].cost
      BY <3>5, <3>6
    <3> QED
      BY <3>3, <3>7
  <2> HIDE DEF Fits
  <2> QED
    BY <1>3, <2>2
<1> HIDE DEF Fits
<1>4. Nat \subseteq T
  <2> HIDE DEF T
  <2> QED
    BY <1>2, <1>3, InductionOnNaturals
<1>5. \A n \in Nat : \A p \in f[n] : Fits(p)
  BY <1>4
<1> QED
  BY <1>5 DEF Fits

\* And one is as long: by induction on the operations that are finished before.
LEMMA PathIsFound ==
  ASSUME Completed, NEW f \in [Nat -> SUBSET PathSet],
         f[0] = Black \X {0},
         \A n \in Nat : f[n + 1] = f[n] \cup Prolonged(Black, f[n])
  PROVE  \A n \in Nat : \A v \in Black :
           Cardinality(before[v]) <= n => <<v, crit_cost[v].cost>> \in f[n]
<1>1. /\ edges \in Graphs /\ crit_cost \in [Vertex -> Cost]
      /\ Black \in SUBSET Vertex
  BY DEF Completed, CPInv, IInv, Black
<1>2. \A v \in Black : IsFiniteSet(before[v]) /\ Cardinality(before[v]) \in Nat
  BY CompletedCosts, StartAssumption, FS_Subset, FS_CardinalityType
<1> DEFINE T == {n \in Nat : \A v \in Black :
                   Cardinality(before[v]) <= n => <<v, crit_cost[v].cost>> \in f[n]}
<1>3. ASSUME NEW n \in Nat, NEW v \in Black, crit_cost[v].cost = 0
      PROVE  <<v, crit_cost[v].cost>> \in f[n]
  <2> DEFINE Z == {m \in Nat : <<v, 0>> \in f[m]}
  <2>1. 0 \in Z /\ \A m \in Nat : m \in Z => m + 1 \in Z
    OBVIOUS
  <2>2. Nat \subseteq Z
    <3> HIDE DEF Z
    <3> QED
      BY <2>1, InductionOnNaturals
  <2> QED
    BY <1>3, <2>2
<1>4. 0 \in T
  <2> SUFFICES ASSUME NEW v \in Black, Cardinality(before[v]) <= 0
               PROVE  <<v, crit_cost[v].cost>> \in f[0]
    OBVIOUS
  <2>1. before[v] = {}
    BY <1>2, FS_EmptySet
  <2>2. crit_cost[v].cost = 0
    BY <2>1, CompletedCosts
  <2> QED
    BY <1>3, <2>2
<1>5. ASSUME NEW n \in Nat, n \in T
      PROVE  n + 1 \in T
  <2> SUFFICES ASSUME NEW v \in Black, Cardinality(before[v]) <= n + 1
               PROVE  <<v, crit_cost[v].cost>> \in f[n + 1]
    OBVIOUS
  <2>1. CASE crit_cost[v].cost = 0
    BY <1>3, <2>1
  <2>2. CASE crit_cost[v].cost # 0
    <3>1. PICK i \in 1 .. Len(edges[v]) : uv_cost(crit_cost, edges[v][i]) = crit_cost[v].cost
      BY <2>2, CompletedCosts
    <3> DEFINE u == edges[v][i].source
    <3>2. u \in Black /\ u \in before[v] /\ before[u] \subseteq before[v]
      BY CompletedCosts
    <3>3. u \notin before[u]
      BY <3>2, CompletedCosts
    <3>4. Cardinality(before[u]) <= n
      <4>1. before[u] \in SUBSET (before[v] \ {u})
        BY <3>2, <3>3
      <4>2. /\ IsFiniteSet(before[v] \ {u})
            /\ Cardinality(before[v] \ {u}) = Cardinality(before[v]) - 1
        <5> HIDE DEF u
        <5>1. IsFiniteSet(before[v]) /\ u \in before[v]
          BY <1>2, <3>2
        <5> QED
          BY <5>1, FS_RemoveElement
      <4>3. Cardinality(before[u]) <= Cardinality(before[v] \ {u})
        BY <4>1, <4>2, FS_Subset
      <4>4. Cardinality(before[u]) \in Nat /\ Cardinality(before[v]) \in Nat
        BY <1>2, <3>2
      <4> HIDE DEF u
      <4>5. Cardinality(before[u]) <= Cardinality(before[v]) - 1
        BY <4>2, <4>3
      <4> QED
        BY <4>4, <4>5
    <3>5. <<u, crit_cost[u].cost>> \in f[n]
      BY <1>5, <3>2, <3>4
    <3>6. Longer(crit_cost[u].cost, edges[v][i]) = crit_cost[v].cost
      BY <1>1, <3>1, LongerIsCost
    <3>7. f[n] \in SUBSET PathSet
      OBVIOUS
    <3>8. <<v, crit_cost[v].cost>> \in Prolonged(Black, f[n])
      <4> DEFINE l == crit_cost[u].cost
      <4>1. <<edges[v][i].source, l>> \in f[n]
        BY <3>5
      <4> HIDE DEF l
      <4>2. <<v, Longer(l, edges[v][i])>> \in Prolonged(Black, f[n])
        BY <1>1, <3>7, <4>1, ProlongedPaths
      <4> QED
        BY <3>6, <4>2 DEF l
    <3> QED
      BY <3>8
  <2> QED
    BY <2>1, <2>2
<1> HIDE DEF T
<1>6. Nat \subseteq T
  BY <1>4, <1>5, InductionOnNaturals
<1> QED
  BY <1>6 DEF T

LEMMA LongestIsCost ==
  ASSUME Completed, NEW v \in Black
  PROVE  Longest(Paths(Black), v) = crit_cost[v].cost
<1>1. /\ edges \in Graphs /\ crit_cost \in [Vertex -> Cost]
      /\ Black \in SUBSET Vertex
  BY DEF Completed, CPInv, IInv, Black
<1>2. PICK f \in [Nat -> SUBSET PathSet] :
        /\ f[0] = Black \X {0}
        /\ \A n \in Nat : f[n + 1] = f[n] \cup Prolonged(Black, f[n])
        /\ Paths(Black) = f[Cardinality(Black) - 1]
  BY <1>1, PathsByLength
<1>3. /\ v \in Vertex /\ v \notin before[v] /\ before[v] \in SUBSET Black
  <2>1. before[v] \subseteq Black
    BY DEF Completed, CPInv, IInv, FinishedInOrder
  <2> QED
    BY <2>1, CompletedCosts
<1>4. /\ Cardinality(Black) - 1 \in Nat
      /\ Cardinality(before[v]) <= Cardinality(Black) - 1
  <2>1. IsFiniteSet(Black) /\ Cardinality(Black) \in Nat
    BY <1>1, StartAssumption, FS_Subset, FS_CardinalityType
  <2>2. /\ IsFiniteSet(Black \ {v})
        /\ Cardinality(Black \ {v}) = Cardinality(Black) - 1
        /\ Cardinality(Black \ {v}) \in Nat
    BY <2>1, FS_RemoveElement, FS_CardinalityType
  <2>3. before[v] \in SUBSET (Black \ {v})
    BY <1>3
  <2>4. Cardinality(before[v]) <= Cardinality(Black \ {v})
    BY <2>2, <2>3, FS_Subset
  <2> QED
    BY <2>2, <2>4
<1> DEFINE paths == Paths(Black)
           lengths == {path[2] : path \in {p \in paths : p[1] = v}}
           c == crit_cost[v].cost
<1>5. paths \in SUBSET PathSet
  BY <1>2, <1>4
<1>6. <<v, c>> \in paths
  BY <1>2, <1>4, PathIsFound
<1>7. \A p \in paths : p[1] \in Black /\ p[2] <= crit_cost[p[1]].cost
  BY <1>2, <1>4, NoPathIsLonger
<1> HIDE DEF paths, c
<1>8. c \in lengths
  <2>1. <<v, c>>[1] = v /\ <<v, c>>[2] = c
    OBVIOUS
  <2>2. <<v, c>> \in {p \in paths : p[1] = v}
    BY <1>6, <2>1
  <2>3. <<v, c>>[2] \in lengths
    BY <2>2
  <2> QED
    BY <2>1, <2>3
<1>9. \A n \in lengths : n \in Int /\ n <= c
  BY <1>5, <1>7 DEF PathSet, c
<1>10. c \in Int
  BY <1>8, <1>9
<1> HIDE DEF lengths
<1>11. (CHOOSE m \in lengths : \A n \in lengths : n <= m) = c
  <2> DEFINE m == CHOOSE m \in lengths : \A n \in lengths : n <= m
  <2>1. m \in lengths /\ \A n \in lengths : n <= m
    BY <1>8, <1>9
  <2> HIDE DEF m
  <2>2. m \in Int /\ m <= c /\ c <= m
    BY <1>8, <1>9, <2>1
  <2>3. m = c
    BY <1>10, <2>2
  <2> QED
    BY <2>3 DEF m
<1> QED
  BY <1>11 DEF Longest, lengths, paths, c

-----------------------------------------------------------------------------
(* The result. *)

\* The objective depends on the costs of the sink and of the last hops only.
LEMMA ObjectiveOfCosts ==
  ASSUME NEW type, NEW G, NEW cost, NEW other,
         cost[start].cost = other[start].cost,
         \A i \in 1 .. Len(G[start]) : cost[G[start][i].source].cost = other[G[start][i].source].cost
  PROVE  objective(type, G, cost) = objective(type, G, other)
<1> DEFINE last_hops == [i \in 1 .. Len(G[start]) |-> G[start][i].source]
           family(c) == {FrameObjectives(c, last_hops[i]) : i \in DOMAIN last_hops}
           all(c) == {0} \cup UNION family(c)
           greatest(S) == CHOOSE m \in S : \A n \in S : n <= m
           worst(c) == greatest(all(c))
           critical(c) == {i \in DOMAIN last_hops : worst(c) \in FrameObjectives(c, last_hops[i])}
           result(c) ==
             IF type = MAKESPAN
               THEN [objective |-> c[start].cost, critical_vertex |-> start]
               ELSE [objective |-> worst(c),
                     critical_vertex |->
                       IF worst(c) = 0 THEN start
                       ELSE last_hops[CHOOSE i \in critical(c) : \A j \in critical(c) : i <= j]]
<1>1. objective(type, G, cost) = result(cost) /\ objective(type, G, other) = result(other)
  BY DEF objective
<1>2. \A i \in DOMAIN last_hops :
        FrameObjectives(cost, last_hops[i]) = FrameObjectives(other, last_hops[i])
  BY DEF FrameObjectives
<1>3. all(cost) = all(other)
  <2>1. family(cost) = family(other)
    <3> HIDE DEF last_hops
    <3> QED
      BY <1>2, Zenon
  <2> HIDE DEF family
  <2> QED
    BY <2>1
<1>4. worst(cost) = worst(other)
  <2> HIDE DEF all, greatest
  <2> QED
    BY <1>3
<1>5. critical(cost) = critical(other)
  <2> HIDE DEF worst
  <2> QED
    BY <1>2, <1>4
<1> HIDE DEF worst, critical, last_hops
<1>6. result(cost) = result(other)
  BY <1>4, <1>5
<1> QED
  BY <1>1, <1>6

\* The result is the objective for the costs that have been found.
ResultIsCurrent ==
  status = COMPLETED => last_result = objective(objective_type, edges, crit_cost)

LEMMA CurrentStep == CPInv /\ ResultIsCurrent /\ [CPNext]_cp_vars => ResultIsCurrent'
<1> SUFFICES ASSUME CPInv, ResultIsCurrent, [CPNext]_cp_vars
             PROVE  ResultIsCurrent'
  OBVIOUS
<1>1. CASE \E G \in Graphs, type \in {MAKESPAN, PER_FRAME} : Compute(G, type)
  BY <1>1 DEF Compute, ResultIsCurrent, CONTINUE, COMPLETED
<1>2. CASE OnPop \/ OnTreeEdge \/ OnBackEdge \/ OnCrossEdge \/ OnFinishVertex \/ OnAbort
  <2>1. status' # COMPLETED
    BY <1>2 DEF OnPop, OnTreeEdge, OnBackEdge, OnCrossEdge, OnFinishVertex, OnAbort,
                CONTINUE, ABORT, COMPLETED
  <2> QED
    BY <2>1 DEF ResultIsCurrent
<1>3. CASE OnComplete
  <2>1. /\ last_result' = objective(objective_type, edges, crit_cost)
        /\ UNCHANGED <<objective_type, edges, crit_cost>>
    BY <1>3 DEF OnComplete, Complete
  <2>2. (objective(objective_type, edges, crit_cost))' = objective(objective_type, edges, crit_cost)
    BY <2>1
  <2> QED
    BY <2>1, <2>2 DEF ResultIsCurrent
<1>4. CASE UNCHANGED cp_vars
  <2>1. UNCHANGED <<objective_type, edges, crit_cost, status, last_result>>
    BY <1>4 DEF cp_vars, vars
  <2>2. (objective(objective_type, edges, crit_cost))' = objective(objective_type, edges, crit_cost)
    BY <2>1
  <2> QED
    BY <2>1, <2>2 DEF ResultIsCurrent
<1> QED
  BY <1>1, <1>2, <1>3, <1>4 DEF CPNext, Handle

\* The costs of a computation that completes are those of the longest paths, and
\* its result is the makespan or the worst objective of a frame for these.
THEOREM LongestPathsAreFound == CPSpec => []CostsAreLongestPaths
<1>1. CPInit => ResultIsCurrent
  BY DEF CPInit, ResultIsCurrent, CONTINUE, COMPLETED
<1>2. CycleInv => CPInv
  BY DEF CycleInv
<1>3. CycleInv /\ ResultIsCurrent => CostsAreLongestPaths
  <2> SUFFICES ASSUME CycleInv, ResultIsCurrent, status = COMPLETED
               PROVE  /\ \A v \in Black : crit_cost[v].cost = Longest(Paths(Black), v)
                      /\ last_result
                           = objective(objective_type, edges,
                               [v \in Vertex |-> [cost |-> Longest(Paths(Black), v), pred |-> v]])
    <3>1. status = COMPLETED /\ CycleInv => Black = Ancestors(start)
      BY DEF CycleInv, CyclesAreDecided
    <3> QED
      BY <3>1 DEF CostsAreLongestPaths
  <2>1. Completed
    BY DEF Completed, CycleInv, CyclesAreDecided
  <2>2. \A v \in Black : crit_cost[v].cost = Longest(Paths(Black), v)
    BY <2>1, LongestIsCost
  <2>3. start \in Black /\ Black \in SUBSET Vertex
    <3>1. edges \in Graphs
      BY DEF CycleInv, CPInv, IInv
    <3> QED
      BY <2>1, <3>1, StartAssumption, AncestorsAreLeast DEF Completed, Ancestors
  <2>4. \A i \in 1 .. Len(edges[start]) : edges[start][i].source \in Black
    BY <2>1, <2>3, CompletedCosts
  <2> DEFINE paths == Paths(Black)
             other == [v \in Vertex |-> [cost |-> Longest(paths, v), pred |-> v]]
  <2> HIDE DEF paths
  <2>5. \A v \in Black : other[v].cost = crit_cost[v].cost
    BY <2>2, <2>3 DEF paths
  <2> HIDE DEF other
  <2>6. objective(objective_type, edges, crit_cost) = objective(objective_type, edges, other)
    BY <2>3, <2>4, <2>5, ObjectiveOfCosts
  <2>7. last_result = objective(objective_type, edges, other)
    BY <2>6 DEF ResultIsCurrent
  <2> QED
    BY <2>2, <2>7 DEF other, paths
<1> QED
  BY <1>1, <1>2, <1>3, CurrentStep, CyclesInvariant, PTL DEF CPSpec
===============================================================================
