------------------------- MODULE MCTransmissionGraph -------------------------
(***************************************************************************)
(* Instances of TransmissionGraph.  "Ring": streams of one queue around a  *)
(* ring of switches, two of which part and meet again, where the order on  *)
(* the links can close a cycle, and a stream of another queue.             *)
(* "Joining": a stream replicated over two paths that join again.          *)
(***************************************************************************)
EXTENDS TransmissionGraph, BuildTransmissionGraph

Path(links, queue, number) ==
  [hops |-> links, consecutive |-> [i \in 1 .. Len(links) - 1 |-> <<links[i], links[i + 1]>>],
   talker_links |-> <<links[1]>>, listener_links |-> <<Last(links)>>,
   frames |-> number, pcp |-> queue]

\* 1, 2, 3: talkers -> sw1, sw3, sw2; 5: sw1 -> sw2, 6: sw2 -> sw3, 7: sw3 -> sw4,
\* 8: sw4 -> sw1; 10: sw4 -> listener, 11: sw2 -> listener.
RingStreams ==
  << Path(<<1, 5, 6, 7, 10>>, 1, 1), Path(<<2, 7, 8, 5, 11>>, 1, 1),
     Path(<<3, 6, 7, 10>>, 1, 1), Path(<<7>>, 2, 1) >>

\* The streams of MCConsistentFlip: the last is replicated at sw1 over 5 and 7 and
\* over 6, and joins at sw3.
JoiningStreams ==
  << Path(<<1, 5, 8>>, 1, 1), Path(<<1, 6, 10>>, 1, 1), Path(<<2, 6, 9>>, 1, 1),
     Path(<<4, 7, 9>>, 1, 1), Path(<<3, 5, 7, 11>>, 1, 1),
     [hops |-> <<1, 5, 6, 7, 9>>,
      consecutive |-> <<<<1, 5>>, <<1, 6>>, <<5, 7>>, <<6, 9>>, <<7, 9>>>>,
      talker_links |-> <<1>>, listener_links |-> <<9>>, frames |-> 1, pcp |-> 1] >>

CONSTANT Streams

Explicit(f) == f @@ <<>>

Field(operations, Get(_)) ==
  Explicit([o \in Ids(operations) |-> Get(OperationAt(operations, o))])

Graph ==
  LET operations == OperationsOf(Streams)
      links == {operations[i].link : i \in 1 .. Len(operations)}
  IN [ Op         |-> Ids(operations),
       Link       |-> links,
       link       |-> Field(operations, LAMBDA op : op.link),
       pcp        |-> Field(operations, LAMBDA op : Streams[op.frame.stream].pcp),
       frames     |-> Field(operations, LAMBDA op : {op.frame}),
       order      |-> Explicit([l \in links |-> OrderOnLink(operations, l)]),
       route_pred |-> Explicit(RoutePredOf(Streams, operations)),
       route_succ |-> Explicit(RouteSuccOf(Streams, operations)) ]

MCOp == Graph.Op
MCLink == Graph.Link
MClink == Graph.link
MCpcp == Graph.pcp
MCframes == Graph.frames
MCorder == Graph.order
MCpred == Graph.route_pred
MCsucc == Graph.route_succ
=============================================================================
