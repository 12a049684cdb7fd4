------------------------ MODULE TransmissionOperations ------------------------
(***************************************************************************)
(* The static part of a disjunctive graph: the transmission operations     *)
(* (one per frame and link of its route), their queues and their job       *)
(* neighbours (src/src/dgm/transmission_operations.h).  The terminal       *)
(* operations SOURCE and SINK carry no position and are never neighbours   *)
(* of interest: related_neighbor_pairs skips them, so they are no members  *)
(* of Op here.                                                             *)
(*                                                                         *)
(* An arrangement gives every operation its position on its link, counted  *)
(* from 0 as LinkOpPosition does.                                          *)
(***************************************************************************)
EXTENDS Integers, FiniteSets

CONSTANTS Op,          \* GlobalOpIndex of the operations, terminals excluded
          Link,        \* the links, numbered in the key order of std::map<Link, ..>
          link,        \* link[o]  : where o is transmitted
          pcp,         \* pcp[o]   : the queue o waits in
          frame,       \* frame[o] : the frame o transmits
          route_pred,  \* route_pred[o], route_succ[o] : the operations of
          route_succ   \*   o's frame on the links before and after link[o]

SOURCE_ID == 0
SINK_ID == 1

\* No operation; SOURCE_ID is never the subject of a flip.
NoOp == SOURCE_ID

-----------------------------------------------------------------------------
ASSUME OpAssumption ==
  /\ Op \subseteq Nat \ {SOURCE_ID, SINK_ID}
  /\ IsFiniteSet(Op)
  /\ Link \subseteq Nat
  /\ link \in [Op -> Link]
  /\ DOMAIN pcp = Op
  /\ DOMAIN frame = Op

\* What add_operation and connect_precedence_constraints build: job
\* neighbours are mutual, transmit the same frame in the same queue on
\* another link, and a frame has one operation per link.
ASSUME RouteAssumption ==
  /\ route_pred \in [Op -> SUBSET Op]
  /\ route_succ \in [Op -> SUBSET Op]
  /\ \A o, q \in Op : q \in route_succ[o] <=> o \in route_pred[q]
  /\ \A o \in Op : \A q \in route_pred[o] \cup route_succ[o] :
       /\ q # o
       /\ frame[q] = frame[o]
       /\ pcp[q] = pcp[o]
  /\ \A o, q \in Op : frame[o] = frame[q] /\ link[o] = link[q] => o = q

-----------------------------------------------------------------------------
(* Links and their slots. *)

OpsOn(l) == {o \in Op : link[o] = l}

Slots(l) == 0 .. Cardinality(OpsOn(l)) - 1

\* The pairs of neighbours of o and q that share a link, predecessors with
\* predecessors and successors with successors.
related_neighbor_pairs(o, q) ==
  {p \in (route_pred[o] \X route_pred[q]) \cup (route_succ[o] \X route_succ[q]) :
     link[p[1]] = link[p[2]]}

-----------------------------------------------------------------------------
(* Arrangements. *)

IsArrangement(pos) ==
  /\ pos \in [Op -> Nat]
  /\ \A o \in Op : pos[o] \in Slots(link[o])
  /\ \A o, q \in Op : link[o] = link[q] /\ pos[o] = pos[q] => o = q

\* o is sent before q from the same queue, but one hop further (or earlier)
\* n, the frame of q, is sent before m, the frame of o.
Inverted(pos, o, q, m, n) ==
  /\ link[o] = link[q]
  /\ pcp[o] = pcp[q]
  /\ pos[o] < pos[q]
  /\ <<m, n>> \in related_neighbor_pairs(o, q)
  /\ pos[n] < pos[m]

\* No queue has to reorder frames.
check_consistency(pos) ==
  \A o, q \in Op : \A p \in related_neighbor_pairs(o, q) :
     ~Inverted(pos, o, q, p[1], p[2])

=============================================================================
