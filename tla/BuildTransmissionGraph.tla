------------------------ MODULE BuildTransmissionGraph ------------------------
(***************************************************************************)
(* The operations and job edges that the constructor of TransmissionGraph  *)
(* creates for a list of streams.                                          *)
(*                                                                         *)
(* A stream is a record: hops is the sequence of its links in the order of *)
(* Route::traverse_hops, consecutive the sequence of the pairs of links    *)
(* that Route::traverse_consecutive_links yields, talker_links and         *)
(* listener_links the links at its ends, frames the number of its frames   *)
(* per hyper cycle and pcp its queue.                                      *)
(***************************************************************************)
EXTENDS Integers, Sequences, FiniteSets, SequencesExt

LOCAL SOURCE_ID == 0
LOCAL SINK_ID == 1
LOCAL FirstId == SINK_ID + 1

\* StreamStorage::frames: stream by stream.
FramesOf(streams) ==
  FlattenSeq([s \in 1 .. Len(streams) |->
                [f \in 1 .. streams[s].frames |-> [stream |-> s, index |-> f - 1]]])

\* add_frame for every frame: one operation per hop.
OperationsOf(streams) ==
  LET added(f) == [h \in 1 .. Len(streams[f.stream].hops) |->
                     [frame |-> f, link |-> streams[f.stream].hops[h]]]
      all == FramesOf(streams)
  IN FlattenSeq([i \in 1 .. Len(all) |-> added(all[i])])

Ids(operations) == FirstId .. FirstId + Len(operations) - 1

\* The operation with identifier o.
OperationAt(operations, o) == operations[o - FirstId + 1]

\* The identifier of the operation that transmits f on l.
IdOf(operations, f, l) ==
  CHOOSE o \in Ids(operations) : OperationAt(operations, o) = [frame |-> f, link |-> l]

\* connect_precedence_constraints: the operations of a frame on consecutive
\* links of its stream's route, the terminals at its ends.
RouteSuccOf(streams, operations) ==
  LET following(o) ==
        LET hop == OperationAt(operations, o)
            stream == streams[hop.frame.stream]
            onward == SelectSeq(stream.consecutive, LAMBDA pair : pair[1] = hop.link)
        IN [i \in 1 .. Len(onward) |-> IdOf(operations, hop.frame, onward[i][2])]
             \o (IF hop.link \in Range(stream.listener_links) THEN <<SINK_ID>> ELSE <<>>)
      started == FramesOf(streams)
      talkers(f) == [i \in 1 .. Len(streams[f.stream].talker_links) |->
                       IdOf(operations, f, streams[f.stream].talker_links[i])]
  IN [o \in Ids(operations) |-> following(o)]
       @@ (SOURCE_ID :> FlattenSeq([i \in 1 .. Len(started) |-> talkers(started[i])]))
       @@ (SINK_ID :> <<>>)

RoutePredOf(streams, operations) ==
  LET preceding(o) ==
        LET hop == OperationAt(operations, o)
            stream == streams[hop.frame.stream]
            back == SelectSeq(stream.consecutive, LAMBDA pair : pair[2] = hop.link)
        IN [i \in 1 .. Len(back) |-> IdOf(operations, hop.frame, back[i][1])]
             \o (IF hop.link \in Range(stream.talker_links) THEN <<SOURCE_ID>> ELSE <<>>)
      ended == FramesOf(streams)
      listeners(f) == [i \in 1 .. Len(streams[f.stream].listener_links) |->
                         IdOf(operations, f, streams[f.stream].listener_links[i])]
  IN [o \in Ids(operations) |-> preceding(o)]
       @@ (SINK_ID :> FlattenSeq([i \in 1 .. Len(ended) |-> listeners(ended[i])]))
       @@ (SOURCE_ID :> <<>>)

\* The link's vector is filled in the order of creation, and
\* recompute_positions gives every operation its index in it.
OrderOnLink(operations, l) ==
  SelectSeq([i \in 1 .. Len(operations) |-> i + FirstId - 1],
            LAMBDA o : OperationAt(operations, o).link = l)

PositionsOf(operations) ==
  [o \in Ids(operations) |->
     Cardinality({q \in FirstId .. o - 1 :
        OperationAt(operations, q).link = OperationAt(operations, o).link})]
=============================================================================
