------------------------------- MODULE Traversal -------------------------------
(***************************************************************************)
(* DFSTraversal::traverse<BACKWARD> (src/src/dgm/traversal.cc): a          *)
(* depth-first search over the edges that enter a vertex, as a generator   *)
(* of events.                                                              *)
(*                                                                         *)
(* A graph is a function that gives for each vertex the edges that its     *)
(* iterator visits, in their order.  A step of the specification runs the  *)
(* generator over one edge, or to the end of one vertex; the events that   *)
(* it yields on the way depend on the step only.  Between two steps the    *)
(* consumer may stop iterating.                                            *)
(***************************************************************************)
EXTENDS Integers, Sequences, FiniteSets

CONSTANTS Vertex, EdgeType,
          Graphs,    \* the graphs that may be traversed
          start      \* the sink

Edge == [source : Vertex, target : Vertex, edge_type : EdgeType]

ASSUME StartAssumption ==
  /\ IsFiniteSet(Vertex)
  /\ start \in Vertex
  /\ "NONE" \notin EdgeType

ASSUME GraphAssumption ==
  \A G \in Graphs : /\ G \in [Vertex -> Seq(Edge)]
                    /\ \A v \in Vertex : \A i \in 1 .. Len(G[v]) : G[v][i].target = v

WHITE == "WHITE"
GRAY == "GRAY"
BLACK == "BLACK"

NoEdge == [source |-> start, edge_type |-> "NONE", target |-> start]

VARIABLES edges,      \* the graph that is traversed
          color,      \* color_
          stack,      \* the deque of visitor states, its front at the end
          next,       \* the visitor state at hand
          pc,         \* "idle" before and after, "pop" and "visit" in the outer
                      \*   and the inner loop
          back_edges, \* history: the edges of BACK_EDGE events
          before      \* history: before[v], what was finished before v was

vars == <<edges, color, stack, next, pc, back_edges, before>>

\* VisitorState: op, the place of its iterator, and the edge to the vertex
\* that was discovered from it last.
VisitorState(v) == [op |-> v, it |-> 1, tree_edge |-> NoEdge]

Black == {v \in Vertex : color[v] = BLACK}

AtEnd == next.it > Len(edges[next.op])

\* The edge that the iterator refers to; its source is to be visited.
e == edges[next.op][next.it]

\* What is put back on the stack when the source is visited: the next edge is
\* examined after it.
Kept == [op |-> next.op, it |-> next.it + 1, tree_edge |-> e]

Init == /\ edges \in Graphs
        /\ color = [v \in Vertex |-> WHITE]
        /\ stack = <<>>
        /\ next = VisitorState(start)
        /\ pc = "idle"
        /\ back_edges = {}
        /\ before = [v \in Vertex |-> {}]

\* The first resumption.  Event: DISCOVER_VERTEX start.
Start(G) ==
  /\ pc = "idle"
  /\ edges' = G
  /\ color' = [v \in Vertex |-> IF v = start THEN GRAY ELSE WHITE]
  /\ stack' = <<VisitorState(start)>>
  /\ next' = VisitorState(start)
  /\ pc' = "pop"
  /\ back_edges' = {}
  /\ before' = [v \in Vertex |-> {}]

\* The front of the stack is continued.  Event: FINISH_EDGE of its tree edge.
Pop ==
  /\ pc = "pop"
  /\ stack # <<>>
  /\ next' = stack[Len(stack)]
  /\ stack' = SubSeq(stack, 1, Len(stack) - 1)
  /\ pc' = "visit"
  /\ UNCHANGED <<edges, color, back_edges, before>>

\* Mutant: the source is finished when it is discovered.
TreeEdgeBlack ==
  /\ pc = "visit" /\ ~AtEnd
  /\ color[e.source] = WHITE
  /\ stack' = Append(stack, Kept)
  /\ color' = [color EXCEPT ![e.source] = BLACK]
  /\ next' = [op |-> e.source, it |-> 1, tree_edge |-> e]
  /\ UNCHANGED <<edges, pc, back_edges, before>>

\* The source is new: it is visited at once.  Assigning a visitor state keeps
\* the tree edge.  Events: EXAMINE_EDGE, TREE_EDGE, DISCOVER_VERTEX source.
TreeEdge ==
  /\ pc = "visit" /\ ~AtEnd
  /\ color[e.source] = WHITE
  /\ stack' = Append(stack, Kept)
  /\ color' = [color EXCEPT ![e.source] = GRAY]
  /\ next' = [op |-> e.source, it |-> 1, tree_edge |-> e]
  /\ UNCHANGED <<edges, pc, back_edges, before>>

\* The source waits on the stack.  Events: EXAMINE_EDGE, BACK_EDGE, FINISH_EDGE.
BackEdge ==
  /\ pc = "visit" /\ ~AtEnd
  /\ color[e.source] = GRAY
  /\ back_edges' = back_edges \cup {e}
  /\ next' = [next EXCEPT !.it = @ + 1]
  /\ UNCHANGED <<edges, color, stack, pc, before>>

\* Mutant: the edge after it is skipped.
CrossEdgeTwice ==
  /\ pc = "visit" /\ ~AtEnd
  /\ color[e.source] = BLACK
  /\ next' = [next EXCEPT !.it = @ + 2]
  /\ UNCHANGED <<edges, color, stack, pc, back_edges, before>>

\* Mutant: the iterator is not advanced.
CrossEdgeAgain ==
  /\ pc = "visit" /\ ~AtEnd
  /\ color[e.source] = BLACK
  /\ UNCHANGED vars

\* The source is finished.  Events: EXAMINE_EDGE, FORWARD_OR_CROSS_EDGE,
\* FINISH_EDGE.
CrossEdge ==
  /\ pc = "visit" /\ ~AtEnd
  /\ color[e.source] = BLACK
  /\ next' = [next EXCEPT !.it = @ + 1]
  /\ UNCHANGED <<edges, color, stack, pc, back_edges, before>>

\* Event: FINISH_VERTEX.
FinishVertex ==
  /\ pc = "visit" /\ AtEnd
  /\ color' = [color EXCEPT ![next.op] = BLACK]
  /\ before' = [before EXCEPT ![next.op] = Black]
  /\ pc' = "pop"
  /\ UNCHANGED <<edges, stack, next, back_edges>>

\* The generator is exhausted.
Complete ==
  /\ pc = "pop"
  /\ stack = <<>>
  /\ pc' = "idle"
  /\ UNCHANGED <<edges, color, stack, next, back_edges, before>>

\* The consumer leaves its loop: the coroutine is destroyed.
Destroy ==
  /\ pc # "idle"
  /\ pc' = "idle"
  /\ stack' = <<>>
  /\ UNCHANGED <<edges, color, next, back_edges, before>>

Visit == Pop \/ TreeEdge \/ BackEdge \/ CrossEdge \/ FinishVertex \/ Complete

Next == (\E G \in Graphs : Start(G)) \/ Visit \/ Destroy

Spec == Init /\ [][Next]_vars

\* A consumer that does not leave the loop resumes the generator to its end.
FairSpec == Spec /\ WF_vars(Visit)

-----------------------------------------------------------------------------
(* Properties. *)

State == [op : Vertex, it : Nat \ {0}, tree_edge : Edge \cup {NoEdge}]

\* Iterators stay within the edges of their vertex.
TypeOK ==
  /\ color \in [Vertex -> {WHITE, GRAY, BLACK}]
  /\ stack \in Seq(State)
  /\ next \in State
  /\ \A i \in 1 .. Len(stack) : stack[i].it <= Len(edges[stack[i].op]) + 1
  /\ pc = "visit" => next.it <= Len(edges[next.op]) + 1
  /\ pc \in {"idle", "pop", "visit"}
  /\ back_edges \in SUBSET Edge
  /\ before \in [Vertex -> SUBSET Vertex]

\* A vertex is finished only after every vertex it depends on, unless one of
\* the events has been a back edge: what a FINISH_VERTEX or FINISH_EDGE handler
\* reads of the sources is final.  "Finished before" is a strict order: without
\* back edges there is no cycle among the finished vertices.
FinishedInOrder ==
  \A v \in Black :
    /\ \A i \in 1 .. Len(edges[v]) :
         edges[v][i] \in back_edges \/ edges[v][i].source \in before[v]
    /\ v \notin before[v]
    /\ \A u \in before[v] : u \in Black /\ before[u] \subseteq before[v]

\* The vertices that those of S depend on directly.
SourcesIn(G, S) == UNION {{G[w][i].source : i \in 1 .. Len(G[w])} : w \in S}

\* The vertices that v depends on, and v.
AncestorsIn(G, v) ==
  LET reached[n \in Nat] ==
        IF n = 0 THEN {v} ELSE LET last == reached[n - 1] IN last \cup SourcesIn(G, last)
  IN reached[Cardinality(Vertex)]

Ancestors(v) == AncestorsIn(edges, v)

\* When the generator is exhausted, exactly the vertices that the start
\* depends on have been finished.
EverythingIsFinished ==
  pc = "pop" /\ stack = <<>> => Black = Ancestors(start)

\* A traversal that is not abandoned ends.
TraversalEnds == pc # "idle" ~> pc = "idle"
=============================================================================
