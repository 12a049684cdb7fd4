-------------------------- MODULE MCTSNConfiguration --------------------------
(***************************************************************************)
(* Instances of TSNConfiguration.                                          *)
(***************************************************************************)
EXTENDS TSNConfiguration, MCGraphs

\* The links of LineStreams and SharedStreams as pairs of devices, and those of
\* RingStreams.
MCEnds == << <<1, 11>>, <<2, 11>>, <<3, 12>>, <<11, 12>>, <<12, 13>>, <<11, 14>>,
             <<21, 31>>, <<22, 32>>, <<23, 33>>, <<31, 34>>, <<31, 32>>, <<32, 35>>, <<32, 33>>,
             <<33, 36>>, <<33, 31>> >>

\* Talker 1 sends in two queues, and from one of them to two devices.
SharedStreams == << Along(<<1, 4>>, 1, 1), Along(<<1, 4>>, 2, 1), Along(<<1, 6>>, 1, 1) >>

AllTogether == {1 .. 3}

MCcycle == 12

FrameOf(v) == [stream |-> OperationAt(Operations, v).frame.stream,
               id |-> OperationAt(Operations, v).frame.index]

MCop ==
  Explicit([v \in Ids(Operations) |->
    [link |-> MCEnds[LinkOf[v]], pcp |-> PcpOf[v], frames |-> {FrameOf(v)},
     talks |-> IF SOURCE_ID \in Range(Pred[v]) THEN {FrameOf(v)} ELSE {},
     listens |-> IF SINK_ID \in Range(Succ[v]) THEN {FrameOf(v)} ELSE {},
     route_pred |-> Pred[v], route_succ |-> Succ[v], total_min |-> Pdb(LinkOf[v]).total_min]])

MCmk_firm ==
  Explicit([s \in DOMAIN Streams |->
    LET p == MCcycle \div Streams[s].frames
    IN [period |-> p, e2e_latency |-> p, size |-> 20,
        mask |-> << <<FALSE, TRUE>>, <<TRUE>>, <<FALSE>> >>[InGroup(s)]]])

MCqos ==
  Explicit([f \in {FrameOf(v) : v \in Ids(Operations)} |->
    [deadline |-> (f.id + 1) * MCmk_firm[f.stream].period + 10, jitter |-> 4, d_min |-> 0,
     objective_type |-> ObjectiveTypes[InGroup(f.stream)]]])

\* What GatesAreOpenForWindows presumes: the trans_max of a frame is that of its link.
ASSUME InstancesAreAlike == FirstHopsAreAlike(Operation)

MCdata_rate == Explicit([l \in Range(MCEnds) |-> 800])
===============================================================================
