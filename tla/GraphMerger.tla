------------------------------ MODULE GraphMerger ------------------------------
(***************************************************************************)
(* The construction of the graph of some streams, the schedule that its    *)
(* order gives, and the merger that orders the operations of two graphs    *)
(* together (src/src/dgm/transmission_graph_merger.cc).                    *)
(*                                                                         *)
(* A stream is a record: hops, consecutive, talker_links, listener_links,  *)
(* frames and pcp as in BuildTransmissionGraph, wireless the set of its    *)
(* wireless links, phase, period and e2e_latency, its LATENESS being the    *)
(* objective, and pdb[l], for every hop, the bounds serialization, with    *)
(* the gap behind a frame, and wireless; propagation and processing are    *)
(* left out.  A frame is a pair <<stream, index>>.                         *)
(***************************************************************************)
EXTENDS GraphOperations, TLC

CONSTANT Streams \* stream_storage_->streams, a sequence

FramesOf(s) == [f \in 1 .. Streams[s].frames |-> <<s, f - 1>>]

LexLess(p, q) == p[1] < q[1] \/ (p[1] = q[1] /\ p[2] < q[2])

FirstFrame(frames) == CHOOSE f \in frames : \A h \in frames : f = h \/ LexLess(f, h)

MaxOf(S) == CHOOSE n \in S : \A m \in S : m <= n

\* The elements of S in a strict order.
Sorted(S, Less(_, _)) ==
  [i \in 1 .. Cardinality(S) |->
     CHOOSE x \in S : Cardinality({y \in S : Less(y, x)}) = i - 1]

SumOf(f) == FoldFunction(+, 0, f)

-----------------------------------------------------------------------------
(* The constructors of TransmissionGraph, for operations given by their     *)
(* links, queues and frames in the order of their identifiers.              *)

\* The operation of frame f on link l.
OpOf(ops, f, l) ==
  SINK_ID + CHOOSE i \in DOMAIN ops : ops[i].link = l /\ f \in ops[i].frames

\* connect_precedence_constraints: the job edges of stream s, in order.
PrecedenceEdges(ops, s) ==
  LET stream == Streams[s]
      All(EdgeOf(_, _), ends) ==
        FlattenSeq([i \in DOMAIN ends |->
                      [f \in 1 .. stream.frames |-> EdgeOf(ends[i], FramesOf(s)[f])]])
  IN All(LAMBDA pair, f : <<OpOf(ops, f, pair[1]), OpOf(ops, f, pair[2])>>, stream.consecutive)
       \o All(LAMBDA l, f : <<SOURCE_ID, OpOf(ops, f, l)>>, stream.talker_links)
       \o All(LAMBDA l, f : <<OpOf(ops, f, l), SINK_ID>>, stream.listener_links)

\* Every search for the operation of a frame starts behind that of the frame
\* before, and must not come to the end of the vector.
SearchesSucceed(ops, s) ==
  \A h \in DOMAIN Streams[s].hops : \A f \in 1 .. Streams[s].frames - 1 :
    OpOf(ops, FramesOf(s)[f], Streams[s].hops[h]) < OpOf(ops, FramesOf(s)[f + 1], Streams[s].hops[h])

add_neighbor(neighbors, o) == IF o \in Range(neighbors) THEN neighbors ELSE Append(neighbors, o)

\* The ends of the edges from (or to) o.
Neighbors(edges, o, from, to) ==
  FoldLeft(LAMBDA neighbors, edge : add_neighbor(neighbors, edge[to]), <<>>,
           SelectSeq(edges, LAMBDA edge : edge[from] = o))

\* The graph of the streams ids.
Constructed(ops, ids) ==
  UNION {LET Op == SINK_ID + 1 .. SINK_ID + Len(ops)
             On(l) == SelectSeq([i \in DOMAIN ops |-> SINK_ID + i],
                                LAMBDA o : ops[o - SINK_ID].link = l)
         IN {[ order      |-> [l \in {ops[i].link : i \in DOMAIN ops} |-> On(l)] @@ <<>>,
               position   |-> [o \in Op |-> Cardinality({i \in 1 .. o - SINK_ID - 1 :
                                              ops[i].link = ops[o - SINK_ID].link})] @@ <<>>,
               link       |-> [o \in Op |-> ops[o - SINK_ID].link] @@ <<>>,
               pcp        |-> [o \in Op |-> ops[o - SINK_ID].pcp] @@ <<>>,
               frames     |-> [o \in Op |-> ops[o - SINK_ID].frames] @@ <<>>,
               route_pred |-> [o \in Op \cup {SOURCE_ID, SINK_ID} |-> Neighbors(edges, o, 2, 1)] @@ <<>>,
               route_succ |-> [o \in Op \cup {SOURCE_ID, SINK_ID} |-> Neighbors(edges, o, 1, 2)] @@ <<>> ]} :
         edges \in {FlattenSeq([i \in DOMAIN ids |-> PrecedenceEdges(ops, ids[i])])}}

\* TransmissionGraph() of no stream.
EmptyGraph == CHOOSE g \in Constructed(<<>>, <<>>) : TRUE

\* add_frame for the frames of one stream.
StreamGraph(s) ==
  Constructed(FlattenSeq([f \in 1 .. Streams[s].frames |->
                            [h \in DOMAIN Streams[s].hops |->
                               [link |-> Streams[s].hops[h], pcp |-> Streams[s].pcp,
                                frames |-> {FramesOf(s)[f]}]]]),
              <<s>>)

-----------------------------------------------------------------------------
(* The schedule of a graph. *)

Pdb(f, l) == Streams[f[1]].pdb[l]

\* TransmissionWeights of an operation: batched frames follow each other
\* without a gap in time, and each of them may be as slow as the slowest.
d_trans_max(g, o) == SumOf([f \in g.frames[o] |-> Pdb(f, g.link[o]).serialization.max])

d_total_max(g, o) == d_trans_max(g, o) + MaxOf({Pdb(f, g.link[o]).wireless.max : f \in g.frames[o]})

\* merge keeps the largest of both incoming weights; only the first operation
\* of a frame waits for its release.
release(f, l) ==
  IF l \in Range(Streams[f[1]].talker_links) THEN f[2] * Streams[f[1]].period + Streams[f[1]].phase
  ELSE 0

incoming(g, v, type) ==
  IF IsTerminal(v) THEN 0
  ELSE CASE type = FIFO -> MaxOf({-(Pdb(f, g.link[v]).serialization.min + Pdb(f, g.link[v]).wireless.min) :
                                    f \in g.frames[v]})
         [] type = MACHINE -> 0
         [] type = JOB -> MaxOf({release(f, g.link[v]) : f \in g.frames[v]})

outgoing(g, u, type) ==
  IF IsTerminal(u) THEN 0 ELSE IF type = JOB THEN d_total_max(g, u) ELSE d_trans_max(g, u)

\* (*g.critical_path())[o].cost of a graph without cycles: the longest paths.
Costs(g) ==
  UNION {LET cost[n \in Nat] ==
               IF n = 0 THEN [v \in VerticesOf(g) |-> 0]
               ELSE LET last == cost[n - 1]
                    IN [v \in VerticesOf(g) |->
                         MaxOf({0} \cup {last[e[1]] + e[4] : e \in into[v]})] @@ <<>>
         IN {cost[Cardinality(VerticesOf(g))]} :
         into \in {[v \in VerticesOf(g) |->
                      {<<e[1], v, e[3], outgoing(g, e[1], e[3]) + incoming(g, v, e[3])>> :
                         e \in EdgesInto(g, v)}] @@ <<>>}}

\* is_feasible() for PER_FRAME: no cycle, and no frame is late.
is_feasible(g) ==
  /\ IsAcyclic(g)
  /\ \E cost \in Costs(g) : \A o \in Range(g.route_pred[SINK_ID]) : \A f \in g.frames[o] :
       cost[o] + d_total_max(g, o)
         <= Streams[f[1]].phase + f[2] * Streams[f[1]].period + Streams[f[1]].e2e_latency

-----------------------------------------------------------------------------
(* TransmissionGraphMerger. *)

\* The keys and values of compute_ordering for one of the graphs.
EntriesOf(g, from) ==
  UNION {{[key |-> <<cost[o], FirstFrame(g.frames[o]), o>>, from |-> from,
           op |-> [link |-> g.link[o], pcp |-> g.pcp[o], frames |-> g.frames[o]]] :
            o \in {q \in OpsOf(g) : g.frames[q] # {}}} :
         cost \in Costs(g)}

Earlier(a, b) ==
  \/ a.key[1] < b.key[1]
  \/ a.key[1] = b.key[1] /\ LexLess(a.key[2], b.key[2])
  \/ a.key[1] = b.key[1] /\ a.key[2] = b.key[2] /\ a.key[3] < b.key[3]

compute_ordering(first, second) ==
  Sorted(EntriesOf(first, "first") \cup EntriesOf(second, "second"), Earlier)

compute_initial(ordering) == [i \in DOMAIN ordering |-> ordering[i].op]

\* compute_old_to_new_mapping: the new identifiers of the operations of first,
\* in the order of the old ones.
Selection(ordering) ==
  LET sorted == Sorted({i \in DOMAIN ordering : ordering[i].from = "first"},
                       LAMBDA i, j : ordering[i].key[3] < ordering[j].key[3])
  IN [n \in DOMAIN sorted |-> SINK_ID + sorted[n]]

\* The position of the last operation of its queue behind op1 that goes first on
\* another link, as a set of at most one.
LastInversion(g, op1) ==
  LET inverted == {p \in g.position[op1] + 1 .. Len(g.order[g.link[op1]]) - 1 :
        LET op2 == OpAt(g, g.link[op1], p)
        IN /\ g.pcp[op1] = g.pcp[op2]
           /\ \E pair \in Range(related_neighbor_pairs(g, op1, op2)) :
                g.position[pair[1]] > g.position[pair[2]]}
  IN {p \in inverted : \A q \in inverted : q <= p}

\* Mutant: op1 stops before the last operation it has to follow.
FlipBefore(g, op1) ==
  IF \A p \in LastInversion(g, op1) : p - 1 = g.position[op1] THEN {g}
  ELSE UNION {flip(g, op1, p - 1) : p \in LastInversion(g, op1)}

\* One operation of the selection.
FlipBehind(g, op1) ==
  IF LastInversion(g, op1) = {} THEN {g}
  ELSE UNION {flip(g, op1, p) : p \in LastInversion(g, op1)}

\* generate() for the streams ids, in the order of the storage.
generate(first, second, ids) ==
  UNION {UNION {FoldLeft(LAMBDA graphs, op1 : UNION {FlipBehind(g, op1) : g \in graphs},
                         {initial}, Selection(ordering)) :
                initial \in Constructed(compute_initial(ordering), ids)} :
         ordering \in {compute_ordering(first, second)}}

\* eval needs the critical paths of both graphs, the constructor the
\* operations of every stream in the order of its frames.
IsDefined(first, second, ids) ==
  /\ IsAcyclic(first) /\ IsAcyclic(second)
  /\ \A ordering \in {compute_ordering(first, second)} : \A i \in DOMAIN ids :
       SearchesSucceed(compute_initial(ordering), ids[i])
=============================================================================
