---------------------------- MODULE MCCriticalPath ----------------------------
(***************************************************************************)
(* Instances of CriticalPath.                                              *)
(***************************************************************************)
EXTENDS CriticalPath, MCGraphs

\* What EveryEdgeOnce presumes of a graph and its vertices.
ASSUME InstancesAreGraphs == \A g \in ProcessingOrders : \A v \in DOMAIN g.route_pred : IsVertex(g, v)

\* The iterators visit every edge of every graph once: the dependencies of an
\* operation on its link, its queues and its route are those of the order.
EveryEdgeIsVisited == pc = "pop" /\ Black = {} => VisitsEveryEdge(edges)

\* Every computation is for a graph of the same streams.
VARIABLE together

SameStreams == together' = together /\ (edges' # edges => edges' \in GraphsOf[together])

GroupInit == CPInit /\ together \in Groups /\ edges \in GraphsOf[together]

GroupSpec == /\ GroupInit
             /\ [][CPNext /\ SameStreams]_<<cp_vars, together>>
             /\ WF_cp_vars(Handle)
===============================================================================
