--------------------------- MODULE DisjunctiveGraph ---------------------------
(***************************************************************************)
(* The disjunctive graph that a processing order stands for.               *)
(*                                                                         *)
(* A graph g is a record of what ProcessingOrder and OperationPosition     *)
(* keep: g.order[l] is the vector of link l, g.position[o] the index of o  *)
(* in the vector of its link, g.route_pred and g.route_succ the job        *)
(* neighbours in their order, terminals included, and g.link and g.pcp     *)
(* where and in which queue an operation waits.  Positions count from 0.   *)
(***************************************************************************)
EXTENDS Integers, Sequences, SequencesExt

SOURCE_ID == 0
SINK_ID == 1

IsTerminal(o) == o \in {SOURCE_ID, SINK_ID}

FIFO == "FIFO"
MACHINE == "MACHINE"
JOB == "JOB"

\* The operation at position pos of link l.
OpAt(g, l, pos) == g.order[l][pos + 1]

\* get_pcp_neighbor<BACKWARD>: the last operation before o in the same queue,
\* as a set of at most one.
PcpPredecessor(g, o) ==
  IF IsTerminal(o) THEN {}
  ELSE LET l == g.link[o]
           earlier == {i \in 0 .. g.position[o] - 1 : g.pcp[OpAt(g, l, i)] = g.pcp[o]}
       IN {OpAt(g, l, i) : i \in {j \in earlier : \A k \in earlier : k <= j}}

\* The edges into v that a backward traversal visits, as <<u, v, type>>:
\* u occupies the link before v; u has to have left the queue that v enters
\* next; u is the hop before v.
EdgesInto(g, v) ==
  (IF IsTerminal(v) THEN {}
   ELSE {<<u, v, FIFO>> : u \in UNION {PcpPredecessor(g, s) : s \in Range(g.route_succ[v])}}
          \cup {<<OpAt(g, g.link[v], i), v, MACHINE>> : i \in {g.position[v] - 1} \cap Nat})
    \cup (IF v = SOURCE_ID THEN {}
          ELSE {<<u, v, JOB>> : u \in Range(g.route_pred[v])})

-----------------------------------------------------------------------------
(* Neighbours that share a link. *)

\* The first element of second on the link of o, as a set of at most one.
OnSameLink(g, o, second) ==
  LET matches == {i \in DOMAIN second : ~IsTerminal(second[i]) /\ g.link[second[i]] = g.link[o]}
  IN {second[i] : i \in {j \in matches : \A k \in matches : j <= k}}

\* The elements of list that are in S, in their order: SelectSeq as a recursive
\* function.
Only(list, S) ==
  LET kept[n \in 0 .. Len(list)] ==
        IF n = 0 THEN <<>>
        ELSE IF list[n] \in S THEN Append(kept[n - 1], list[n]) ELSE kept[n - 1]
  IN kept[Len(list)]

\* The pairs of related_neighbor_pairs for two neighbour lists, in order.
NeighborPairs(g, first, second) ==
  LET paired == Only(first, {o \in Range(first) : ~IsTerminal(o) /\ OnSameLink(g, o, second) # {}})
  IN [i \in 1 .. Len(paired) |->
        <<paired[i], CHOOSE q \in OnSameLink(g, paired[i], second) : TRUE>>]

related_neighbor_pairs(g, o, q) ==
  NeighborPairs(g, g.route_pred[o], g.route_pred[q])
    \o NeighborPairs(g, g.route_succ[o], g.route_succ[q])

\* The search in related_neighbor_pairs reads the link of every candidate up
\* to the match, and a terminal has none: the search must not come to one.
ComparesNoTerminal(g, first, second) ==
  \A o \in Range(first) \ {SOURCE_ID, SINK_ID} : \A i \in DOMAIN second :
     IsTerminal(second[i]) =>
       \E j \in 1 .. i - 1 : ~IsTerminal(second[j]) /\ g.link[second[j]] = g.link[o]

\* No two frames of one queue may start (or end) and pass through at the same
\* device.
TerminalsAreSafe(g, ops) ==
  \A o, q \in ops :
    o # q /\ g.link[o] = g.link[q] /\ g.pcp[o] = g.pcp[q] =>
      /\ ComparesNoTerminal(g, g.route_pred[o], g.route_pred[q])
      /\ ComparesNoTerminal(g, g.route_succ[o], g.route_succ[q])
=============================================================================
