------------------------------- MODULE MCGraphs -------------------------------
(***************************************************************************)
(* The graphs of all FIFO orders of a few streams, as the iterators of a   *)
(* traversal see them.  "Line": two queues, a stream of two frames, a      *)
(* wireless hop.  "Ring": streams around a ring of switches, one hop of it *)
(* wireless; some orders close a cycle.  The operations of both are        *)
(* numbered together, but a graph is that of one group of streams.         *)
(***************************************************************************)
EXTENDS EdgeIterator, BuildTransmissionGraph, FiniteSetsExt

Along(links, queue, number) ==
  [hops |-> links, consecutive |-> [i \in 1 .. Len(links) - 1 |-> <<links[i], links[i + 1]>>],
   talker_links |-> <<links[1]>>, listener_links |-> <<Last(links)>>,
   frames |-> number, pcp |-> queue, phase |-> 0, period |-> 6]

\* 1 and 2: talkers -> sw1, 4: sw1 -> sw2, over the air, 5: sw2 -> listener.
LineStreams == << Along(<<1, 4, 5>>, 1, 2), Along(<<2, 4, 5>>, 1, 1), Along(<<3, 5>>, 2, 1) >>

\* 7, 8, 9: talkers -> sw1, sw2, sw3; 11: sw1 -> sw2, over the air, 13: sw2 -> sw3,
\* 15: sw3 -> sw1; 10, 12, 14: sw1, sw2, sw3 -> listeners.
RingStreams ==
  << Along(<<7, 11, 13, 14>>, 1, 1), Along(<<8, 13, 15, 10>>, 1, 1), Along(<<9, 15, 11, 12>>, 1, 1) >>

Wireless == {4, 11}

LineAndRing == LineStreams \o RingStreams
LineOrRing == {1 .. 3, 4 .. 6}

CONSTANTS Streams,
          Groups   \* the sets of streams that are in a graph together

\* The same function, evaluated at once.
Explicit(f) == f @@ <<>>

Operations == OperationsOf(Streams)
Links == {Operations[i].link : i \in 1 .. Len(Operations)}
LinkOf == Explicit([o \in Ids(Operations) |-> OperationAt(Operations, o).link])
StreamOf(o) == Streams[OperationAt(Operations, o).frame.stream]
PcpOf == Explicit([o \in Ids(Operations) |-> StreamOf(o).pcp])
Pred == Explicit(RoutePredOf(Streams, Operations))
Succ == Explicit(RouteSuccOf(Streams, Operations))

OpsOfGroup(group) == {o \in Ids(Operations) : Operations[o - SINK_ID].frame.stream \in group}

\* All permutations of the vectors.
Orders(ops) ==
  LET perms(l) == SetToSeqs(Range(OrderOnLink(Operations, l)))
      WithLink(l, orders) == {order @@ (l :> perm) : order \in orders, perm \in perms(l)}
  IN FoldSet(WithLink, {<<>>}, {LinkOf[o] : o \in ops})

GraphOf(ops, order) ==
  LET Own(neighbors) ==
        Explicit([v \in ops \cup {SOURCE_ID, SINK_ID} |->
                    SelectSeq(neighbors[v], LAMBDA w : w \in ops \cup {SOURCE_ID, SINK_ID})])
  IN [order |-> order, link |-> Explicit([o \in ops |-> LinkOf[o]]),
      pcp |-> Explicit([o \in ops |-> PcpOf[o]]), route_pred |-> Own(Pred), route_succ |-> Own(Succ),
      position |-> Explicit([o \in ops |->
                     (CHOOSE i \in DOMAIN order[LinkOf[o]] : order[LinkOf[o]][i] = o) - 1])]

IsFIFO(g) ==
  \A o, q \in DOMAIN g.link :
    g.link[o] = g.link[q] /\ g.pcp[o] = g.pcp[q] /\ g.position[o] < g.position[q] =>
      \A p \in Range(related_neighbor_pairs(g, o, q)) : g.position[p[1]] < g.position[p[2]]

OrdersOf ==
  Explicit([group \in Groups |->
    UNION {{g \in {GraphOf(ops, order) : order \in Orders(ops)} : IsFIFO(g)} : ops \in {OpsOfGroup(group)}}])

ProcessingOrders == UNION Range(OrdersOf)

Vertices == Ids(Operations) \cup {SOURCE_ID, SINK_ID}

EdgesOf(g) ==
  Explicit([v \in Vertices |->
    IF v \in DOMAIN g.route_pred THEN Explicit(VisitedEdges(g, v)) ELSE <<>>])

VisitedEdgesOf == Explicit([g \in ProcessingOrders |-> EdgesOf(g)])

StreamGraphs == Range(VisitedEdgesOf)

GraphsOf == Explicit([group \in Groups |-> {VisitedEdgesOf[g] : g \in OrdersOf[group]}])

\* The iterators visit exactly the edges of the disjunctive graph, each once,
\* when the traversal of edges begins.
VisitsEveryEdge(edges) ==
  \E g \in ProcessingOrders :
    /\ edges = VisitedEdgesOf[g]
    /\ \A v \in DOMAIN g.route_pred : AreEdgesInto(g, v, edges[v])

-----------------------------------------------------------------------------
(* Weights and objectives. *)

\* from_pdb: [trans_max, total_min, total_max] of the links.
Pdb(l) == IF l \in Wireless THEN [trans_max |-> 2, total_min |-> 2, total_max |-> 5]
          ELSE [trans_max |-> 2, total_min |-> 1, total_max |-> 3]

Weight(in, out) == [incoming |-> in, outgoing |-> out]

\* add_operation.
MCweights ==
  Explicit([v \in Vertices |->
    IF IsTerminal(v)
      THEN Explicit([type \in {FIFO, MACHINE, JOB} |-> Weight(0, 0)])
      ELSE LET f == OperationAt(Operations, v).frame
               pdb == Pdb(LinkOf[v])
               release == IF LinkOf[v] = StreamOf(v).hops[1]
                            THEN f.index * StreamOf(v).period + StreamOf(v).phase ELSE 0
           IN Explicit([type \in {FIFO, MACHINE, JOB} |->
                CASE type = FIFO -> Weight(-pdb.total_min, pdb.trans_max)
                  [] type = MACHINE -> Weight(0, pdb.trans_max)
                  [] type = JOB -> Weight(release, pdb.total_max)])])

\* The place of a stream in its group of three.
InGroup(s) == ((s - 1) % 3) + 1

ObjectiveTypes == <<"TARDINESS", "JITTER", "TARDINESS_AND_JITTER">>

MCarrivals ==
  Explicit([v \in Vertices |->
    IF IsTerminal(v) \/ SINK_ID \notin Range(Succ[v]) THEN {}
    ELSE LET f == OperationAt(Operations, v).frame
             s == InGroup(f.stream)
         IN {[deadline |-> f.index * StreamOf(v).period + 10 + s, jitter |-> 2 - s \div 2,
              d_min |-> Pdb(LinkOf[v]).total_min, objective_type |-> ObjectiveTypes[s]]}])
===============================================================================
