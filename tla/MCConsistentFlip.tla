--------------------------- MODULE MCConsistentFlip ---------------------------
(***************************************************************************)
(* An instance of ConsistentFlip: streams replicated over two disjoint     *)
(* paths that join again (FRER), on which a cascade runs around the        *)
(* diamond, and streams on parts of these paths.                           *)
(***************************************************************************)
EXTENDS ConsistentFlip, BuildTransmissionGraph

\* Links of two paths that join, by source: 1 talker -> sw1, 2 and 3 further
\* talkers -> sw1, 4 talker -> sw2; 5 sw1 -> sw2, 6 sw1 -> sw3; 7 sw2 -> sw3,
\* 8 sw2 -> listener; 9 to 11 sw3 -> listeners.
Path(links) ==
  [hops |-> links, consecutive |-> [i \in 1 .. Len(links) - 1 |-> <<links[i], links[i + 1]>>],
   talker_links |-> <<links[1]>>, listener_links |-> <<Last(links)>>, frames |-> 1, pcp |-> 1]

Replicated ==
  [hops |-> <<1, 5, 6, 7, 9>>,
   consecutive |-> <<<<1, 5>>, <<1, 6>>, <<5, 7>>, <<6, 9>>, <<7, 9>>>>,
   talker_links |-> <<1>>, listener_links |-> <<9>>, frames |-> 1, pcp |-> 1]

JoiningStreams ==
  << Path(<<1, 5, 8>>), Path(<<1, 6, 10>>), Path(<<2, 6, 9>>), Path(<<4, 7, 9>>),
     Path(<<3, 5, 7, 11>>), Replicated >>

CONSTANT Streams

\* The built graph.  TLC evaluates a definition without parameters once, and
\* a function built by @@ at once for all of its arguments.
Explicit(f) == f @@ <<>>

Field(operations, Get(_)) ==
  Explicit([o \in Ids(operations) |-> Get(OperationAt(operations, o))])

\* Without the terminals.
Neighbors(operations, route) ==
  Explicit([o \in Ids(operations) |-> Range(route[o]) \ {SOURCE_ID, SINK_ID}])

Graph ==
  LET operations == OperationsOf(Streams)
  IN [ Op         |-> Ids(operations),
       Link       |-> {operations[i].link : i \in 1 .. Len(operations)},
       link       |-> Field(operations, LAMBDA op : op.link),
       pcp        |-> Field(operations, LAMBDA op : Streams[op.frame.stream].pcp),
       frame      |-> Field(operations, LAMBDA op : op.frame),
       route_succ |-> Neighbors(operations, RouteSuccOf(Streams, operations)),
       route_pred |-> Neighbors(operations, RoutePredOf(Streams, operations)),
       position   |-> Explicit(PositionsOf(operations)) ]

MCOp == Graph.Op
MCLink == Graph.Link
MClink == Graph.link
MCpcp == Graph.pcp
MCframe == Graph.frame
MCroute_succ == Graph.route_succ
MCroute_pred == Graph.route_pred
MCInitial == {Graph.position}
=============================================================================
