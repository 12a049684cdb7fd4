----------------------------- MODULE EdgeIterator -----------------------------
(***************************************************************************)
(* DFSTraversal::VisitorState<BACKWARD>::Iterator                          *)
(* (src/src/dgm/traversal.{h,cc}): the edges into a vertex of a            *)
(* disjunctive graph, one after the other, without storing them.           *)
(*                                                                         *)
(* An iterator is a record: its type says which edges it is at, and it     *)
(* the place in the list of job successors (FIFO) or predecessors (JOB).   *)
(***************************************************************************)
EXTENDS DisjunctiveGraph

Iterator(type, place) == [type |-> type, it |-> place]

END_OF_EDGES == Iterator("END", 0)

setup_JOB(g, v) == IF v = SOURCE_ID THEN END_OF_EDGES ELSE Iterator(JOB, 1)

setup_MACHINE(g, v) ==
  IF g.position[v] > 0 THEN Iterator(MACHINE, 0) ELSE setup_JOB(g, v)

\* The first job successor from place on that has a predecessor in its queue.
FifoFrom(g, v, place) ==
  LET found == {k \in place .. Len(g.route_succ[v]) : PcpPredecessor(g, g.route_succ[v][k]) # {}}
  IN IF found = {} THEN setup_MACHINE(g, v)
     ELSE Iterator(FIFO, CHOOSE k \in found : \A j \in found : k <= j)

\* The iterator of a new visitor state: terminals have job edges only.
begin(g, v) == IF IsTerminal(v) THEN setup_JOB(g, v) ELSE FifoFrom(g, v, 1)

\* Mutant: the successors behind one without a predecessor are not looked at.
increment_once(g, v, i) ==
  CASE i.type = FIFO -> IF FifoFrom(g, v, i.it + 1).it = i.it + 1
                          THEN FifoFrom(g, v, i.it + 1) ELSE setup_MACHINE(g, v)
    [] i.type = MACHINE -> END_OF_EDGES
    [] i.type = JOB -> IF i.it + 1 > Len(g.route_pred[v]) THEN END_OF_EDGES
                       ELSE Iterator(JOB, i.it + 1)

\* operator++.
increment(g, v, i) ==
  CASE i.type = FIFO -> FifoFrom(g, v, i.it + 1)
    [] i.type = MACHINE -> setup_JOB(g, v)
    [] i.type = JOB -> IF i.it + 1 > Len(g.route_pred[v]) THEN END_OF_EDGES
                       ELSE Iterator(JOB, i.it + 1)

\* operator*: the source of the edge.
dereference(g, v, i) ==
  CASE i.type = FIFO -> CHOOSE u \in PcpPredecessor(g, g.route_succ[v][i.it]) : TRUE
    [] i.type = MACHINE -> OpAt(g, g.link[v], g.position[v] - 1)
    [] i.type = JOB -> g.route_pred[v][i.it]

\* The iterator equals end() from then on.
following(g, v, i) == IF i = END_OF_EDGES THEN END_OF_EDGES ELSE increment(g, v, i)

\* The edges that a visitor state of v goes through until its iterator equals
\* end().
VisitedEdges(g, v) ==
  LET it[n \in Nat] == IF n = 0 THEN begin(g, v) ELSE following(g, v, it[n - 1])
      bound == Len(g.route_succ[v]) + Len(g.route_pred[v]) + 1
      count == CHOOSE n \in 0 .. bound : /\ it[n] = END_OF_EDGES
                                         /\ \A m \in 0 .. n - 1 : it[m] # END_OF_EDGES
  IN [n \in 1 .. count |->
        [source |-> dereference(g, v, it[n - 1]), edge_type |-> it[n - 1].type, target |-> v]]

\* What the iterator takes for granted of v: an operation that is not the
\* source has a predecessor (setup asserts it), neighbours are not listed
\* twice, and the hops after an operation are over different links, each in the
\* vector of its own.
IsVertex(g, v) ==
  /\ Len(g.route_pred[v]) \in Nat /\ DOMAIN g.route_pred[v] = 1 .. Len(g.route_pred[v])
  /\ Len(g.route_succ[v]) \in Nat /\ DOMAIN g.route_succ[v] = 1 .. Len(g.route_succ[v])
  /\ v # SOURCE_ID => g.route_pred[v] # <<>>
  /\ \A j, k \in DOMAIN g.route_pred[v] : g.route_pred[v][j] = g.route_pred[v][k] => j = k
  /\ ~IsTerminal(v) => g.position[v] \in Nat
  /\ ~IsTerminal(v) => \A s \in Range(g.route_succ[v]) : ~IsTerminal(s) =>
       /\ g.position[s] \in Nat
       /\ \A i \in 0 .. g.position[s] - 1 : g.link[OpAt(g, g.link[s], i)] = g.link[s]
  /\ ~IsTerminal(v) => \A j, k \in DOMAIN g.route_succ[v] :
       /\ ~IsTerminal(g.route_succ[v][j]) /\ ~IsTerminal(g.route_succ[v][k])
       /\ g.link[g.route_succ[v][j]] = g.link[g.route_succ[v][k]]
       => j = k

\* They are exactly the edges of the disjunctive graph, each once.
AreEdgesInto(g, v, edges) ==
  /\ {<<edges[i].source, v, edges[i].edge_type>> : i \in DOMAIN edges} = EdgesInto(g, v)
  /\ \A i, j \in DOMAIN edges :
       edges[i].source = edges[j].source /\ edges[i].edge_type = edges[j].edge_type => i = j
=============================================================================
