------------------------ MODULE TSNConfigurationProofs ------------------------
(***************************************************************************)
(* Proofs about TSNConfiguration, for every graph of queues, weights and   *)
(* (m,k)-firm streams, and for both configurations: the frames of a queue  *)
(* do not mix, however late they are.                                      *)
(*                                                                         *)
(* The steps are those of a computation of the critical path, so that its  *)
(* invariant carries over.  What the handlers of the (m,k)-firm extension  *)
(* compute is settled in the same way: the opening of a vertex respects    *)
(* the FIFO and JOB edges that have been finished at it.  The edges only   *)
(* tell an operation from the one right before it in the queue; the others *)
(* follow by induction along the queue.                                    *)
(***************************************************************************)
EXTENDS TSNConfiguration, CriticalPathProofs

Window == [crit : Nat, mu : Nat]

\* The first n edges of v have been finished.
Respected(v, n) ==
  \A j \in 1 .. n :
    LET u == edges[v][j].source
        type == edges[v][j].edge_type
    IN /\ type = "FIFO" =>
            mk[u].mu + weights[u]["FIFO"].outgoing + weights[v]["FIFO"].incoming <= mk[v].crit
       /\ type = "JOB" /\ u # src /\ v # snk =>
            mk[u].crit + weights[u]["JOB"].outgoing + weights[v]["JOB"].incoming <= mk[v].crit
       /\ type = "MACHINE" => mk[u].mu <= mk[v].crit \/ mk[u].mu <= mk[v].mu

BucketsAreComputed ==
  /\ token_bucket = [l \in {op[v].link : v \in Operation} |-> BucketOf(l, mk_firm_streams_at(l))]
  /\ token_bucket_diff = [h \in HopLinks |-> BucketOf(h[1], mk_firm_stream_diff_at(h[1], h[2]))]

BlackIsRespected ==
  \A v \in Black : /\ Respected(v, Len(edges[v]))
                   /\ v \in Operation => mk[v].crit <= mk[v].mu

PathIsRespected == \A i \in 1 .. Depth : Respected(At(i).op, Finished(i))

MKInv == /\ mk \in [Vertex -> Window]
         /\ BucketsAreComputed
         /\ extended /\ status # ABORT => BlackIsRespected
         /\ extended /\ status # ABORT /\ pc # "idle" => PathIsRespected

\* What a successful traversal leaves.
CompletedInv == status = COMPLETED => Black = Ancestors(start)

UnfinishedIsUnordered == \A v \in Vertex : color[v] # BLACK => before[v] = {}

TSNInv == /\ CPInv /\ VisitInv
          /\ extended \in BOOLEAN
          /\ MKInv
          /\ CompletedInv
          /\ UnfinishedIsUnordered

-----------------------------------------------------------------------------
(* The steps of the traversal and of the critical path. *)

LEMMA TraversalOfTSN == [TSNNext]_tsn_vars => [Next]_vars
  BY DEF TSNNext, Construct, TSNPop, TSNTreeEdge, TSNBackEdge, TSNCrossEdge, TSNFinishVertex,
         TSNComplete, TSNAbort, OnPop, OnTreeEdge, OnBackEdge, OnCrossEdge, OnFinishVertex,
         Next, Visit, tsn_vars, cp_vars

LEMMA CPInvOfTSN == CPInv /\ [TSNNext]_tsn_vars => CPInv'
<1> SUFFICES ASSUME CPInv, [TSNNext]_tsn_vars
             PROVE  CPInv'
  OBVIOUS
<1>1. IInv'
  BY TraversalOfTSN, InvStep DEF CPInv
<1>2. ASSUME NEW G \in Graphs, Construct(G)
      PROVE  CPInv'
  <2>1. Compute(G, objective_type)
    BY <1>2 DEF Construct, Compute
  <2> QED
    BY <1>1, <2>1, InvOfCompute
<1>3. CASE TSNPop
  BY <1>1, <1>3, InvOfPop DEF TSNPop
<1>4. CASE TSNTreeEdge
  BY <1>1, <1>4, InvOfTreeEdge DEF TSNTreeEdge
<1>5. CASE TSNBackEdge
  BY <1>1, <1>5 DEF CPInv, TSNBackEdge, OnBackEdge, ABORT, COMPLETED
<1>6. CASE TSNCrossEdge
  BY <1>1, <1>6, InvOfCrossEdge DEF TSNCrossEdge
<1>7. CASE TSNFinishVertex
  BY <1>1, <1>7, InvOfFinishVertex DEF TSNFinishVertex
<1>8. CASE TSNComplete
  <2>1. /\ pc' = "idle" /\ status = CONTINUE /\ status' = COMPLETED
        /\ UNCHANGED <<edges, color, back_edges, crit_cost>>
    BY <1>8 DEF TSNComplete, Complete
  <2>2. BlackIsSettled /\ back_edges = {} /\ crit_cost \in [Vertex -> Cost]
    BY <2>1 DEF CPInv, CONTINUE, ABORT
  <2>3. BlackIsSettled'
    BY <2>1, <2>2 DEF BlackIsSettled, Settled, Black
  <2> QED
    BY <1>1, <2>1, <2>2, <2>3 DEF CPInv
<1>9. CASE TSNAbort
  <2>1. pc' = "idle" /\ status' = ABORT /\ UNCHANGED crit_cost
    BY <1>9 DEF TSNAbort, Destroy
  <2> QED
    BY <1>1, <2>1 DEF CPInv, ABORT, COMPLETED
<1>10. CASE UNCHANGED tsn_vars
  <2>1. UNCHANGED cp_vars
    BY <1>10 DEF tsn_vars
  <2> QED
    BY <2>1, CPInvStep
<1> QED
  BY <1>2, <1>3, <1>4, <1>5, <1>6, <1>7, <1>8, <1>9, <1>10 DEF TSNNext

\* What a completed traversal has finished does not change any more.
LEMMA CompletedOfTSN ==
  ASSUME CPInv, VisitInv, CompletedInv, UnfinishedIsUnordered, [TSNNext]_tsn_vars
  PROVE  CompletedInv' /\ UnfinishedIsUnordered'
<1>1. /\ color \in [Vertex -> {WHITE, GRAY, BLACK}] /\ before \in [Vertex -> SUBSET Vertex]
      /\ next \in State
  BY DEF CPInv, IInv, TypeOK
<1>2. ASSUME NEW G \in Graphs, Construct(G)
      PROVE  CompletedInv' /\ UnfinishedIsUnordered'
  BY <1>2 DEF Construct, Start, CompletedInv, UnfinishedIsUnordered, CONTINUE, COMPLETED
<1>3. CASE TSNPop \/ TSNBackEdge \/ TSNCrossEdge
  BY <1>3 DEF TSNPop, TSNBackEdge, TSNCrossEdge, OnPop, OnBackEdge, OnCrossEdge, Pop, BackEdge,
              CrossEdge, CompletedInv, UnfinishedIsUnordered, CONTINUE, COMPLETED, ABORT
<1>4. CASE TSNTreeEdge
  BY <1>1, <1>4 DEF TSNTreeEdge, OnTreeEdge, TreeEdge, CompletedInv, UnfinishedIsUnordered,
                    CONTINUE, COMPLETED, WHITE, BLACK
<1>5. CASE TSNFinishVertex
  <2>1. /\ status' = CONTINUE
        /\ color' = [color EXCEPT ![next.op] = BLACK] /\ next.op \in Vertex
        /\ before' = [before EXCEPT ![next.op] = Black]
    BY <1>1, <1>5 DEF TSNFinishVertex, OnFinishVertex, FinishVertex, State
  <2> QED
    BY <1>1, <2>1 DEF CompletedInv, UnfinishedIsUnordered, CONTINUE, COMPLETED
<1>6. CASE TSNComplete
  <2>1. pc = "pop" /\ stack = <<>> /\ UNCHANGED <<edges, color, before>>
    BY <1>6 DEF TSNComplete, Complete
  <2>2. Black = Ancestors(start)
    BY <2>1, NothingLeftOut
  <2> QED
    BY <2>1, <2>2 DEF CompletedInv, UnfinishedIsUnordered, Black, Ancestors
<1>7. CASE TSNAbort
  BY <1>7 DEF TSNAbort, Destroy, CompletedInv, UnfinishedIsUnordered, ABORT, COMPLETED
<1>8. CASE UNCHANGED tsn_vars
  BY <1>8 DEF tsn_vars, cp_vars, vars, CompletedInv, UnfinishedIsUnordered, Black, Ancestors
<1> QED
  BY <1>2, <1>3, <1>4, <1>5, <1>6, <1>7, <1>8 DEF TSNNext

-----------------------------------------------------------------------------
(* What the handlers compute. *)

LEMMA ProductsAndQuotients ==
  /\ \A a, b \in Nat : a * b \in Nat
  /\ \A a \in Nat : \A b \in Nat \ {0} : a \div b \in Nat
OBVIOUS

LEMMA WeightsOf ==
  ASSUME NEW v \in Vertex, NEW type \in {"FIFO", "MACHINE", "JOB"}
  PROVE  weights[v][type].incoming \in Int /\ weights[v][type].outgoing \in Int
BY WeightAssumption, EdgeAssumption

\* What an edge passes on is an integer.
LEMMA WeightsAreAdded ==
  ASSUME NEW time \in Int, NEW u \in Vertex, NEW v \in Vertex,
         NEW type \in {"FIFO", "MACHINE", "JOB"}
  PROVE  time + weights[u][type].outgoing + weights[v][type].incoming \in Int
<1>1. weights[u][type].outgoing \in Int /\ weights[v][type].incoming \in Int
  BY WeightsOf
<1>2. \A x, y, z \in Int : x + y + z \in Int
  OBVIOUS
<1> QED
  BY <1>1, <1>2, Zenon

LEMMA BusyIsNatural ==
  ASSUME NEW tb, IsBucket(tb), NEW burst \in Nat, NEW time \in Nat
  PROVE  Busy(tb, burst, time) \in Nat
<1>1. /\ TicksPerSec * BitsPerByte \in Nat /\ tb.token_rate \in Nat
      /\ tb.link_data_rate - tb.token_rate \in Nat \ {0}
  BY BucketAssumption DEF IsBucket, BitsPerByte
<1>2. TicksPerSec * BitsPerByte * burst \in Nat /\ time * tb.token_rate \in Nat
  <2> DEFINE a == TicksPerSec * BitsPerByte
  <2>1. a \in Nat /\ tb.token_rate \in Nat
    BY <1>1
  <2> HIDE DEF a
  <2>2. a * burst \in Nat /\ time * tb.token_rate \in Nat
    BY <2>1, ProductsAndQuotients
  <2> QED
    BY <2>2 DEF a
<1>3. TicksPerSec * BitsPerByte * burst + time * tb.token_rate \in Nat
  BY <1>2
<1> QED
  BY <1>1, <1>3, ProductsAndQuotients DEF Busy

LEMMA BranchedOffIsNatural ==
  ASSUME NEW tb, IsBucket(tb), NEW time \in Nat, NEW rate \in Nat \ {0}
  PROVE  branched_off_traffic(tb, time) \div rate \in Nat
<1>1. TicksPerSec * BitsPerByte \in Nat /\ tb.token_rate \in Nat /\ tb.bucket_size \in Nat
  BY BucketAssumption DEF IsBucket, BitsPerByte
<1>2. TicksPerSec * BitsPerByte * tb.bucket_size \in Nat /\ time * tb.token_rate \in Nat
  <2> DEFINE a == TicksPerSec * BitsPerByte
  <2>1. a \in Nat
    BY <1>1
  <2> HIDE DEF a
  <2>2. a * tb.bucket_size \in Nat /\ time * tb.token_rate \in Nat
    BY <1>1, <2>1, ProductsAndQuotients
  <2> QED
    BY <2>2 DEF a
<1>3. TicksPerSec * BitsPerByte * tb.bucket_size + time * tb.token_rate \in Nat
  BY <1>2
<1> QED
  BY <1>3, ProductsAndQuotients DEF branched_off_traffic

LEMMA DeferredType ==
  ASSUME mk \in [Vertex -> Window], NEW v \in Vertex, NEW time \in Int,
         mk' = Deferred(v, time)
  PROVE  /\ mk' \in [Vertex -> Window]
         /\ \A w \in Vertex \ {v} : mk'[w] = mk[w]
         /\ mk'[v].crit >= mk[v].crit /\ mk'[v].crit >= time
         /\ mk'[v].mu = mk[v].mu
<1>1. mk[v].crit \in Nat /\ mk[v].mu \in Nat /\ mk[v] \in Window
  BY DEF Window
<1>2. PICK c \in Nat : c = Larger(mk[v].crit, time) /\ c >= mk[v].crit /\ c >= time
  BY <1>1 DEF Larger
<1>3. mk' = [mk EXCEPT ![v].crit = c]
  BY <1>2 DEF Deferred
<1>4. /\ mk'[v] = [mk[v] EXCEPT !.crit = c] /\ mk'[v].crit = c /\ mk'[v] \in Window
      /\ mk'[v].mu = mk[v].mu
  BY <1>1, <1>3 DEF Window
<1>5. \A w \in Vertex \ {v} : mk'[w] = mk[w]
  BY <1>3
<1>6. mk' \in [Vertex -> Window]
  BY <1>3, <1>4, <1>5
<1> QED
  BY <1>2, <1>4, <1>5, <1>6

\* What the handlers read of the source of an edge.
LEMMA BucketsOf ==
  ASSUME BucketsAreComputed, NEW v \in Operation
  PROVE  /\ IsBucket(token_bucket[op[v].link])
         /\ \A u \in HopsBefore(v) : /\ IsBucket(token_bucket_diff[<<op[u].link, op[v].link>>])
                                     /\ data_rate[op[u].link] \in Nat \ {0}
<1>1. op[v].link \in {op[o].link : o \in Operation}
  OBVIOUS
<1>2. IsBucket(token_bucket[op[v].link])
  BY <1>1, BucketAssumption DEF BucketsAreComputed
<1>3. ASSUME NEW u \in HopsBefore(v)
      PROVE  /\ IsBucket(token_bucket_diff[<<op[u].link, op[v].link>>])
             /\ data_rate[op[u].link] \in Nat \ {0}
  <2>1. <<op[u].link, op[v].link>> \in HopLinks
    BY DEF HopLinks
  <2>2. u \in Operation
    BY DEF HopsBefore
  <2> QED
    BY <2>1, <2>2, BucketAssumption DEF BucketsAreComputed
<1> QED
  BY <1>2, <1>3

LEMMA EdgeFinishedType ==
  ASSUME edges \in Graphs, mk \in [Vertex -> Window], BucketsAreComputed,
         NEW v \in Vertex, NEW j \in 1 .. Len(edges[v]), NEW u, u = edges[v][j].source,
         u \in Operation => mk[u].crit <= mk[u].mu,
         mk' = EdgeFinished(edges[v][j])
  PROVE  /\ mk' \in [Vertex -> Window]
         /\ \A w \in Vertex \ {v} : mk'[w] = mk[w]
         /\ mk'[v].crit >= mk[v].crit
         /\ edges[v][j].edge_type = "FIFO" =>
              mk[u].mu + weights[u]["FIFO"].outgoing + weights[v]["FIFO"].incoming <= mk'[v].crit
         /\ edges[v][j].edge_type = "JOB" /\ u # src /\ v # snk =>
              mk[u].crit + weights[u]["JOB"].outgoing + weights[v]["JOB"].incoming <= mk'[v].crit
         /\ mk'[v].mu >= mk[v].mu
         /\ edges[v][j].edge_type = "MACHINE" => mk[u].mu <= mk'[v].crit \/ mk[u].mu <= mk'[v].mu
<1>1. /\ edges[v][j] \in Edge /\ u \in Vertex /\ edges[v][j].target = v
      /\ edges[v][j].edge_type \in {"FIFO", "MACHINE", "JOB"}
  BY EdgesOfGraph, EdgeAssumption DEF Edge
<1>2. mk[u].crit \in Nat /\ mk[u].mu \in Nat /\ mk[v].crit \in Nat /\ mk[v].mu \in Nat
  BY <1>1 DEF Window
<1>3. /\ edges[v][j].edge_type # "JOB" => u \in Operation /\ v \in Operation
      /\ edges[v][j].edge_type = "JOB" =>
           u = src \/ v = snk \/ (v \in Operation /\ u \in HopsBefore(v))
  <2>1. IF edges[v][j].edge_type = "JOB"
          THEN \/ edges[v][j].source = src \/ v = snk
               \/ v \in Operation /\ edges[v][j].source \in HopsBefore(v)
          ELSE edges[v][j].source \in Operation /\ v \in Operation
    BY EdgeAssumption, SMTT(30)
  <2> QED
    BY <2>1
<1>4. CASE edges[v][j].edge_type = "FIFO"
  <2>1. mk' = fault_isolation(u, v)
    BY <1>1, <1>4 DEF EdgeFinished
  <2>2. PICK time \in Int :
          time = mk[u].mu + weights[u]["FIFO"].outgoing + weights[v]["FIFO"].incoming
    <3>1. mk[u].mu \in Int
      BY <1>2
    <3>2. mk[u].mu + weights[u]["FIFO"].outgoing + weights[v]["FIFO"].incoming \in Int
      BY <1>1, <3>1, WeightsAreAdded, ZenonT(30)
    <3> QED
      BY <3>2, Zenon
  <2>3. mk' = Deferred(v, time)
    BY <2>1, <2>2 DEF fault_isolation
  <2>4. /\ mk' \in [Vertex -> Window] /\ \A w \in Vertex \ {v} : mk'[w] = mk[w]
        /\ mk'[v].crit >= mk[v].crit /\ mk'[v].crit >= time /\ mk'[v].mu = mk[v].mu
    BY <2>3, DeferredType
  <2>5. mk'[v].crit \in Nat
    BY <2>4 DEF Window
  <2> QED
    BY <1>2, <1>4, <2>2, <2>4, <2>5
<1>5. CASE edges[v][j].edge_type = "MACHINE"
  <2>1. u \in Operation /\ v \in Operation /\ op[u].pcp \in Int /\ op[v].pcp \in Int
    BY <1>3, <1>5, EdgeAssumption
  <2>2. CASE op[u].pcp <= op[v].pcp
    <3>1. mk' = deferment(u, v)
      BY <1>1, <1>5, <2>1, <2>2 DEF EdgeFinished
    <3>2. /\ clock_resolution \in Nat
          /\ weights[u]["MACHINE"].outgoing \in Nat /\ weights[v]["MACHINE"].incoming = 0
      <4>1. clock_resolution \in Nat
        BY BucketAssumption
      <4>2. weights[u]["MACHINE"].outgoing \in Int
        BY <1>1, WeightsOf
      <4>3. weights[u]["MACHINE"].outgoing >= 0
        BY <2>1, PdbAssumption, Zenon DEF trans_max
      <4>4. weights[v]["MACHINE"].incoming = 0
        BY <2>1, PdbAssumption, Zenon
      <4>5. \A x \in Int : x >= 0 => x \in Nat
        OBVIOUS
      <4> QED
        BY <4>1, <4>2, <4>3, <4>4, <4>5, Zenon
    <3>3. PICK time \in Int : mk' = Deferred(v, time) /\ mk[u].mu <= time
      <4>1. \A x \in Nat : mk[u].mu + x \in Int /\ mk[u].mu <= mk[u].mu + x
        BY <1>2
      <4>2. CASE op[u].pcp < op[v].pcp
        <5>1. mk' = Deferred(v, mk[u].mu + clock_resolution)
          BY <3>1, <4>2 DEF deferment
        <5> QED
          BY <3>2, <4>1, <5>1, Zenon
      <4>3. CASE ~(op[u].pcp < op[v].pcp)
        <5>1. PICK x \in Nat : x = weights[u]["MACHINE"].outgoing
          BY <3>2, Zenon
        <5>2. mk[u].mu + x + 0 = mk[u].mu + x
          BY <1>2, SMTT(30)
        <5>3. mk' = Deferred(v, mk[u].mu + x)
          BY <3>1, <3>2, <4>3, <5>1, <5>2, Zenon DEF deferment
        <5> QED
          BY <4>1, <5>3, Zenon
      <4> QED
        BY <4>2, <4>3, Zenon
    <3>4. /\ mk' \in [Vertex -> Window] /\ \A w \in Vertex \ {v} : mk'[w] = mk[w]
          /\ mk'[v].crit >= mk[v].crit /\ mk'[v].crit >= time /\ mk'[v].mu = mk[v].mu
      BY <3>3, DeferredType
    <3>5. mk'[v].crit \in Nat
      BY <3>4 DEF Window
    <3>6. mk[u].mu <= mk'[v].crit
      BY <1>2, <3>3, <3>4, <3>5
    <3> QED
      BY <1>2, <1>5, <3>4, <3>6
  <2>3. CASE op[u].pcp > op[v].pcp
    <3>1. mk' = update_prolongation(u, v)
      BY <1>1, <1>5, <2>1, <2>3 DEF EdgeFinished
    <3>2. Busy(token_bucket[op[v].link], 0, trans_max(v)) \in Nat
      <4>1. trans_max(v) \in Nat
        <5>1. trans_max(v) \in Int
          BY WeightsOf DEF trans_max
        <5>2. trans_max(v) >= 0
          BY <2>1, PdbAssumption, Zenon
        <5> QED
          BY <5>1, <5>2
      <4> QED
        BY <2>1, <4>1, BucketsOf, BusyIsNatural
    <3>3. PICK m \in Nat :
            /\ m = Larger(mk[v].mu, mk[u].mu + Busy(token_bucket[op[v].link], 0, trans_max(v)))
            /\ m >= mk[v].mu /\ m >= mk[u].mu
      <4>1. PICK b \in Nat : b = Busy(token_bucket[op[v].link], 0, trans_max(v))
        BY <3>2
      <4>2. Larger(mk[v].mu, mk[u].mu + b) \in Nat
        BY <1>2 DEF Larger
      <4>3. /\ Larger(mk[v].mu, mk[u].mu + b) >= mk[v].mu
            /\ Larger(mk[v].mu, mk[u].mu + b) >= mk[u].mu
        BY <1>2 DEF Larger
      <4> QED
        BY <4>1, <4>2, <4>3
    <3>4. mk' = [mk EXCEPT ![v].mu = m]
      BY <3>1, <3>3 DEF update_prolongation
    <3>5. /\ mk'[v] = [mk[v] EXCEPT !.mu = m] /\ mk'[v].crit = mk[v].crit /\ mk'[v] \in Window
          /\ mk'[v].mu = m
      BY <3>4, <1>2 DEF Window
    <3>6. \A w \in Vertex \ {v} : mk'[w] = mk[w]
      BY <3>4
    <3>7. mk' \in [Vertex -> Window]
      BY <3>4, <3>5, <3>6
    <3> QED
      BY <1>2, <1>5, <3>3, <3>5, <3>6, <3>7
  <2> QED
    BY <2>1, <2>2, <2>3
<1>6. CASE edges[v][j].edge_type = "JOB"
  <2>1. CASE u # src /\ v # snk
    <3>1. v \in Operation /\ u \in HopsBefore(v) /\ u \in Operation
      BY <1>3, <1>6, <2>1 DEF HopsBefore
    <3>2. mk[u].mu - mk[u].crit \in Nat
      BY <1>2, <3>1
    <3>3. PICK b \in Nat :
            b = branched_off_traffic(token_bucket_diff[<<op[u].link, op[v].link>>],
                                     mk[u].mu - mk[u].crit) \div data_rate[op[u].link]
      BY <3>1, <3>2, BucketsOf, BranchedOffIsNatural
    <3>4. PICK time \in Int :
            time = mk[u].crit + weights[u]["JOB"].outgoing + weights[v]["JOB"].incoming
      <4>1. mk[u].crit \in Int
        BY <1>2
      <4>2. mk[u].crit + weights[u]["JOB"].outgoing + weights[v]["JOB"].incoming \in Int
        BY <1>1, <4>1, WeightsAreAdded, Zenon
      <4> QED
        BY <4>2, Zenon
    <3>5. mk' = Deferred(v, time + b)
      BY <1>1, <1>6, <2>1, <3>3, <3>4, Zenon DEF EdgeFinished, sequential_transmission
    <3>6. /\ mk' \in [Vertex -> Window]
          /\ \A w \in Vertex \ {v} : mk'[w] = mk[w]
          /\ mk'[v].crit >= mk[v].crit /\ mk'[v].crit >= time + b /\ mk'[v].crit \in Nat
          /\ mk'[v].mu = mk[v].mu
      BY <3>5, DeferredType DEF Window
    <3> QED
      BY <1>2, <1>6, <3>4, <3>6
  <2>2. CASE u = src \/ v = snk
    <3>1. mk' = mk
      BY <1>1, <1>6, <2>2, SMTT(30) DEF EdgeFinished
    <3> QED
      BY <1>2, <1>6, <2>2, <3>1
  <2> QED
    BY <2>1, <2>2, SMTT(30)
<1> QED
  BY <1>1, <1>4, <1>5, <1>6

-----------------------------------------------------------------------------
(* What the handlers have respected stays respected. *)

SourcesAreBlack(v, n) == \A j \in 1 .. n : color[edges[v][j].source] = BLACK

LEMMA RespectedIsKept ==
  ASSUME edges \in Graphs, UNCHANGED edges, mk \in [Vertex -> Window], mk' \in [Vertex -> Window],
         NEW v \in Vertex, NEW n \in Nat, n <= Len(edges[v]),
         Respected(v, n), SourcesAreBlack(v, n),
         mk'[v].crit >= mk[v].crit, mk'[v].mu >= mk[v].mu,
         \A w \in Vertex : color[w] = BLACK => mk'[w] = mk[w]
  PROVE  Respected(v, n)'
<1> SUFFICES ASSUME NEW j \in 1 .. n, NEW u, u = edges[v][j].source,
                    NEW type, type = edges[v][j].edge_type
             PROVE  /\ type = "FIFO" =>
                         mk'[u].mu + weights[u]["FIFO"].outgoing + weights[v]["FIFO"].incoming
                           <= mk'[v].crit
                    /\ type = "JOB" /\ u # src /\ v # snk =>
                         mk'[u].crit + weights[u]["JOB"].outgoing + weights[v]["JOB"].incoming
                           <= mk'[v].crit
                    /\ type = "MACHINE" => mk'[u].mu <= mk'[v].crit \/ mk'[u].mu <= mk'[v].mu
  BY DEF Respected
<1>1. j \in 1 .. Len(edges[v]) /\ u \in Vertex
  BY EdgesOfGraph
<1>2. mk'[u] = mk[u]
  BY <1>1 DEF SourcesAreBlack
<1>3. /\ mk[u].mu \in Nat /\ mk[u].crit \in Nat
      /\ mk[v].crit \in Nat /\ mk'[v].crit \in Nat
      /\ mk[v].mu \in Nat /\ mk'[v].mu \in Nat
  BY <1>1 DEF Window
<1>4. /\ type = "FIFO" =>
           mk[u].mu + weights[u]["FIFO"].outgoing + weights[v]["FIFO"].incoming <= mk[v].crit
      /\ type = "JOB" /\ u # src /\ v # snk =>
           mk[u].crit + weights[u]["JOB"].outgoing + weights[v]["JOB"].incoming <= mk[v].crit
      /\ type = "MACHINE" => mk[u].mu <= mk[v].crit \/ mk[u].mu <= mk[v].mu
  BY DEF Respected
<1>5. PICK a \in Int : a = mk[u].mu + weights[u]["FIFO"].outgoing + weights[v]["FIFO"].incoming
  <2>1. mk[u].mu \in Int
    BY <1>3
  <2>2. mk[u].mu + weights[u]["FIFO"].outgoing + weights[v]["FIFO"].incoming \in Int
    BY <1>1, <2>1, WeightsAreAdded, Zenon
  <2> QED
    BY <2>2, Zenon
<1>6. PICK b \in Int : b = mk[u].crit + weights[u]["JOB"].outgoing + weights[v]["JOB"].incoming
  <2>1. mk[u].crit \in Int
    BY <1>3
  <2>2. mk[u].crit + weights[u]["JOB"].outgoing + weights[v]["JOB"].incoming \in Int
    BY <1>1, <2>1, WeightsAreAdded, Zenon
  <2> QED
    BY <2>2, Zenon
<1>7. /\ type = "FIFO" => a <= mk'[v].crit
      /\ type = "JOB" /\ u # src /\ v # snk => b <= mk'[v].crit
      /\ type = "MACHINE" => mk[u].mu <= mk'[v].crit \/ mk[u].mu <= mk'[v].mu
  <2>1. /\ \A x \in Int : x <= mk[v].crit => x <= mk'[v].crit
        /\ \A x \in Int : x <= mk[v].mu => x <= mk'[v].mu
    BY <1>3
  <2>2. /\ type = "FIFO" => a <= mk[v].crit
        /\ type = "JOB" /\ u # src /\ v # snk => b <= mk[v].crit
    BY <1>4, <1>5, <1>6, Zenon
  <2>3. mk[u].mu \in Int
    BY <1>3
  <2> QED
    BY <1>4, <2>1, <2>2, <2>3, Zenon
<1> QED
  BY <1>2, <1>5, <1>6, <1>7, Zenon

LEMMA RespectedIsExtended ==
  ASSUME edges \in Graphs, UNCHANGED <<edges, color>>, mk \in [Vertex -> Window],
         BucketsAreComputed, BlackIsRespected,
         NEW v \in Vertex, color[v] # BLACK,
         NEW n \in Nat, n + 1 <= Len(edges[v]), Respected(v, n), SourcesAreBlack(v, n + 1),
         mk' = EdgeFinished(edges[v][n + 1])
  PROVE  /\ mk' \in [Vertex -> Window]
         /\ \A w \in Vertex \ {v} : mk'[w] = mk[w]
         /\ Respected(v, n + 1)'
<1>1. n + 1 \in 1 .. Len(edges[v]) /\ n <= Len(edges[v])
  BY EdgesOfGraph
<1>2. PICK u \in Vertex : u = edges[v][n + 1].source
  BY <1>1, EdgesOfGraph
<1>3. color[u] = BLACK /\ u # v /\ (u \in Operation => mk[u].crit <= mk[u].mu)
  <2>1. color[u] = BLACK
    BY <1>2 DEF SourcesAreBlack
  <2> QED
    BY <2>1 DEF BlackIsRespected, Black
<1>4. /\ mk' \in [Vertex -> Window]
      /\ \A w \in Vertex \ {v} : mk'[w] = mk[w]
      /\ mk'[v].crit >= mk[v].crit
      /\ edges[v][n + 1].edge_type = "FIFO" =>
           mk[u].mu + weights[u]["FIFO"].outgoing + weights[v]["FIFO"].incoming <= mk'[v].crit
      /\ edges[v][n + 1].edge_type = "JOB" /\ u # src /\ v # snk =>
           mk[u].crit + weights[u]["JOB"].outgoing + weights[v]["JOB"].incoming <= mk'[v].crit
      /\ mk'[v].mu >= mk[v].mu
      /\ edges[v][n + 1].edge_type = "MACHINE" => mk[u].mu <= mk'[v].crit \/ mk[u].mu <= mk'[v].mu
  BY <1>1, <1>2, <1>3, EdgeFinishedType
<1>5. \A w \in Vertex : color[w] = BLACK => mk'[w] = mk[w]
  BY <1>4
<1>6. Respected(v, n)'
  <2>1. SourcesAreBlack(v, n)
    BY DEF SourcesAreBlack
  <2> QED
    BY <2>1, <1>1, <1>4, <1>5, RespectedIsKept
<1>7. mk'[u] = mk[u] /\ edges' = edges
  BY <1>3, <1>4
<1>8. \A j \in 1 .. n + 1 : j \in 1 .. n \/ j = n + 1
  BY SMTT(30)
<1>9. Respected(v, n + 1)'
  BY <1>2, <1>4, <1>6, <1>7, <1>8 DEF Respected
<1> QED
  BY <1>4, <1>9

\* The vertices on the stack, with what is finished of their edges.
LEMMA PathOfTSN ==
  ASSUME CPInv, MKInv, extended, pc # "idle", status # ABORT
  PROVE  /\ edges \in Graphs /\ TypeOK /\ Path
         /\ color \in [Vertex -> {WHITE, GRAY, BLACK}]
         /\ mk \in [Vertex -> Window] /\ BucketsAreComputed
         /\ back_edges = {} /\ BlackIsSettled /\ BlackIsRespected /\ TreeEdgesArePending
         /\ \A i \in 1 .. Depth : /\ At(i).op \in Vertex
                                  /\ color[At(i).op] = GRAY
                                  /\ Finished(i) \in Nat
                                  /\ Finished(i) <= Len(edges[At(i).op])
                                  /\ SourcesAreBlack(At(i).op, Finished(i))
                                  /\ Respected(At(i).op, Finished(i))
<1>1. /\ edges \in Graphs /\ TypeOK /\ Path
      /\ color \in [Vertex -> {WHITE, GRAY, BLACK}]
      /\ back_edges = {} /\ BlackIsSettled /\ TreeEdgesArePending
      /\ \A i \in 1 .. Depth : /\ At(i).op \in Vertex
                               /\ color[At(i).op] = GRAY
                               /\ Finished(i) \in Nat
                               /\ Finished(i) <= Len(edges[At(i).op])
                               /\ Settled(At(i).op, Finished(i))
  BY PathIsTyped
<1>2. mk \in [Vertex -> Window] /\ BucketsAreComputed /\ BlackIsRespected /\ PathIsRespected
  BY DEF MKInv
<1>3. \A i \in 1 .. Depth : SourcesAreBlack(At(i).op, Finished(i))
  BY <1>1 DEF Settled, SourcesAreBlack
<1> QED
  BY <1>1, <1>2, <1>3 DEF PathIsRespected

LEMMA BlackStaysRespected ==
  ASSUME edges \in Graphs, UNCHANGED edges, mk \in [Vertex -> Window], mk' \in [Vertex -> Window],
         BlackIsSettled, BlackIsRespected, Black' = Black,
         \A w \in Vertex : color[w] = BLACK => mk'[w] = mk[w]
  PROVE  BlackIsRespected'
<1>1. ASSUME NEW v \in Black
      PROVE  Respected(v, Len(edges[v]))' /\ (v \in Operation => mk'[v].crit <= mk'[v].mu)
  <2>1. v \in Vertex /\ mk'[v] = mk[v]
    BY DEF Black
  <2>2. PICK n \in Nat : n = Len(edges[v])
    BY <2>1, EdgesOfGraph
  <2>3. Respected(v, n) /\ SourcesAreBlack(v, n) /\ (v \in Operation => mk[v].crit <= mk[v].mu)
    BY <2>2 DEF BlackIsRespected, BlackIsSettled, Settled, SourcesAreBlack
  <2>4. mk'[v].crit >= mk[v].crit /\ mk'[v].mu >= mk[v].mu
    BY <2>1 DEF Window
  <2>5. Respected(v, n)'
    BY <2>1, <2>2, <2>3, <2>4, RespectedIsKept
  <2> QED
    BY <2>1, <2>2, <2>3, <2>5
<1> QED
  BY <1>1 DEF BlackIsRespected

-----------------------------------------------------------------------------
(* The steps of the extended configuration. *)

LEMMA FixedStays == [TSNNext]_tsn_vars => UNCHANGED fixed
BY DEF TSNNext, Construct, TSNPop, TSNTreeEdge, TSNBackEdge, TSNCrossEdge, TSNFinishVertex,
       TSNComplete, TSNAbort, tsn_vars, fixed

LEMMA MKOfConstruct ==
  ASSUME CPInv, MKInv, extended, UNCHANGED fixed, NEW G \in Graphs, Construct(G)
  PROVE  MKInv'
<1>1. /\ pc' = "pop" /\ stack' = <<VisitorState(start)>>
      /\ color' = [v \in Vertex |-> IF v = start THEN GRAY ELSE WHITE]
      /\ mk' = VertexDiscovered(start)
  BY DEF Construct, Start, Extended, MKDiscover
<1>2. mk \in [Vertex -> Window] /\ [crit |-> 0, mu |-> 0] \in Window
  BY DEF MKInv, Window
<1>3. mk' \in [Vertex -> Window]
  BY <1>1, <1>2 DEF VertexDiscovered
<1>4. Black' = {}
  BY <1>1 DEF Black, WHITE, GRAY, BLACK
<1>5. Depth' = 1 /\ At(1)' = VisitorState(start) /\ Finished(1)' = 0
  BY <1>1 DEF Depth, At, Finished, VisitorState
<1>6. PathIsRespected'
  <2>1. Respected(start, 0)'
    BY DEF Respected
  <2>2. \A i \in 1 .. Depth' : At(i)'.op = start /\ Finished(i)' = 0
    BY <1>5 DEF VisitorState
  <2> QED
    BY <2>1, <2>2 DEF PathIsRespected
<1>7. BucketsAreComputed'
  BY DEF MKInv, BucketsAreComputed, fixed, buckets
<1> QED
  BY <1>3, <1>4, <1>6, <1>7 DEF MKInv, BlackIsRespected

LEMMA MKOfPop ==
  ASSUME CPInv, MKInv, extended, UNCHANGED fixed, TSNPop
  PROVE  MKInv'
<1>1. /\ Pop /\ OnPop /\ pc = "pop" /\ status = CONTINUE /\ UNCHANGED <<edges, color>>
      /\ mk' = IF stack[Len(stack)].tree_edge = NoEdge THEN mk
               ELSE EdgeFinished(stack[Len(stack)].tree_edge)
  BY DEF TSNPop, OnPop, Pop, Extended, MKFinishEdge
<1>2. /\ edges \in Graphs /\ TypeOK /\ Path
      /\ mk \in [Vertex -> Window] /\ BucketsAreComputed
      /\ back_edges = {} /\ BlackIsSettled /\ BlackIsRespected /\ TreeEdgesArePending
      /\ \A i \in 1 .. Depth : /\ At(i).op \in Vertex
                               /\ color[At(i).op] = GRAY
                               /\ Finished(i) \in Nat
                               /\ Finished(i) <= Len(edges[At(i).op])
                               /\ SourcesAreBlack(At(i).op, Finished(i))
                               /\ Respected(At(i).op, Finished(i))
  BY <1>1, PathOfTSN DEF CONTINUE, ABORT
<1>3. /\ stack \in Seq(State) /\ Len(stack) \in Nat \ {0} /\ Depth = Len(stack)
      /\ \A i \in 1 .. Depth : At(i) = stack[i]
  BY <1>1, <1>2 DEF Pop, Depth, At, TypeOK
<1>4. PICK d \in Nat \ {0} : d = Depth
  BY <1>3
<1>5. PICK v \in Vertex, n \in Nat :
        /\ v = At(d).op /\ n = Finished(d)
        /\ color[v] = GRAY /\ Respected(v, n) /\ n <= Len(edges[v])
  BY <1>2, <1>4
<1>6. /\ d = Len(stack) /\ Depth' = d /\ Len(stack') = d - 1
      /\ \A i \in 1 .. d : At(i)' = At(i)
  BY <1>1, <1>2, <1>3, <1>4, PopPath
<1>7. \A i \in 1 .. d - 1 : Finished(i)' = Finished(i) /\ At(i).op # v
  <2>1. TAKE i \in 1 .. d - 1
  <2>2. /\ ~(i > Len(stack)) /\ ~(i > Len(stack')) /\ At(i)' = At(i)
        /\ i \in 1 .. d /\ i # d /\ d \in 1 .. d
    BY <1>6
  <2>3. At(i).op # v
    BY <2>2, <1>2, <1>4, <1>5 DEF Path, GrayIsPath
  <2> QED
    BY <2>2, <2>3 DEF Finished
<1>8. PICK taken \in Nat : taken = At(d).it - 1 /\ taken <= Len(edges[v])
  <2>1. At(d).it \in Nat \ {0} /\ At(d).it <= Len(edges[v]) + 1 /\ Len(edges[v]) \in Nat
    BY <1>2, <1>4, <1>5, AtType, EdgesOfGraph
  <2> QED
    BY <2>1
<1>9. Finished(d)' = taken
  BY <1>6, <1>8 DEF Finished
<1>10. /\ mk' \in [Vertex -> Window]
       /\ \A w \in Vertex \ {v} : mk'[w] = mk[w]
       /\ Respected(v, taken)'
  <2>1. At(d) = stack[Len(stack)] /\ d \in 1 .. Len(stack) /\ At(d).it \in Nat
    BY <1>2, <1>3, <1>4, AtType
  <2>2. CASE taken = 0
    <3>1. stack[Len(stack)].tree_edge = NoEdge
      BY <2>1, <2>2, <1>2, <1>6, <1>8 DEF TreeEdgesArePending
    <3>2. mk' = mk /\ Respected(v, 0)'
      BY <3>1, <1>1 DEF Respected
    <3> QED
      BY <1>2, <2>2, <3>2
  <2>3. CASE taken # 0
    <3>1. taken \in 1 .. Len(edges[v]) /\ n = taken - 1
      BY <2>1, <2>3, <1>2, <1>5, <1>6, <1>8, EdgesOfGraph DEF Finished
    <3>2. stack[Len(stack)].tree_edge = edges[v][taken]
      BY <2>1, <2>3, <1>2, <1>5, <1>6, <1>8 DEF TreeEdgesArePending
    <3>3. edges[v][taken] \in Edge
      BY <3>1, <1>2, EdgesOfGraph
    <3>4. mk' = EdgeFinished(edges[v][taken])
      BY <3>2, <3>3, <1>1, NoEdgeIsNoEdge
    <3>5. SourcesAreBlack(v, taken)
      <4>1. SUFFICES ASSUME NEW j \in 1 .. taken
                     PROVE  color[edges[v][j].source] = BLACK
        BY DEF SourcesAreBlack
      <4>2. d \in 1 .. Depth /\ j \in 1 .. At(d).it - 1 /\ ~(d < Depth)
        BY <1>4, <1>8, <3>1, <2>1
      <4> QED
        BY <4>2, <1>2, <1>5 DEF Path, PathIsExamined
    <3>6. color[v] # BLACK /\ n + 1 = taken
      BY <1>5, <3>1 DEF GRAY, BLACK
    <3>7. /\ mk' \in [Vertex -> Window]
          /\ \A w \in Vertex \ {v} : mk'[w] = mk[w]
          /\ Respected(v, n + 1)'
      <4>1. SourcesAreBlack(v, n + 1) /\ mk' = EdgeFinished(edges[v][n + 1])
        BY <3>4, <3>5, <3>6
      <4>2. n + 1 <= Len(edges[v])
        BY <3>6, <1>8
      <4>3. UNCHANGED <<edges, color>> /\ n \in Nat /\ v \in Vertex /\ Respected(v, n)
        BY <1>1, <1>5
      <4> QED
        BY <4>1, <4>2, <4>3, <3>6, <1>2, RespectedIsExtended
    <3> QED
      BY <3>6, <3>7
  <2> QED
    BY <2>2, <2>3
<1>11. \A w \in Vertex : color[w] = BLACK => mk'[w] = mk[w]
  BY <1>5, <1>10 DEF GRAY, BLACK
<1>12. BlackIsRespected'
  BY <1>1, <1>2, <1>10, <1>11, BlackStaysRespected DEF Black
<1>13. PathIsRespected'
  <2>1. ASSUME NEW i \in 1 .. d
        PROVE  Respected(At(i).op, Finished(i))'
    <3>1. CASE i = d
      <4>1. At(i)'.op = v /\ Finished(i)' = taken
        BY <3>1, <1>5, <1>6, <1>9
      <4> QED
        BY <4>1, <1>10
    <3>2. CASE i \in 1 .. d - 1
      <4>1. PICK u \in Vertex, m \in Nat :
              /\ u = At(i).op /\ m = Finished(i) /\ u # v
              /\ m <= Len(edges[u]) /\ Respected(u, m) /\ SourcesAreBlack(u, m)
        BY <1>2, <1>4, <1>7, <3>2
      <4>2. mk'[u].crit >= mk[u].crit /\ mk'[u].mu >= mk[u].mu
        BY <4>1, <1>2, <1>10 DEF Window
      <4>3. Respected(u, m)'
        BY <4>1, <4>2, <1>1, <1>2, <1>10, <1>11, RespectedIsKept
      <4>4. At(i)'.op = u /\ Finished(i)' = m
        BY <4>1, <3>2, <1>6, <1>7
      <4> QED
        BY <4>3, <4>4
    <3> QED
      BY <3>1, <3>2
  <2> QED
    BY <2>1, <1>6 DEF PathIsRespected
<1>14. BucketsAreComputed'
  BY <1>2 DEF BucketsAreComputed, fixed, buckets
<1> QED
  BY <1>10, <1>12, <1>13, <1>14 DEF MKInv

LEMMA MKOfTreeEdge ==
  ASSUME CPInv, MKInv, extended, UNCHANGED fixed, TSNTreeEdge
  PROVE  MKInv'
<1>1. /\ TreeEdge /\ pc = "visit" /\ pc' = "visit" /\ status = CONTINUE /\ UNCHANGED edges
      /\ mk' = VertexDiscovered(e.source)
  BY DEF TSNTreeEdge, OnTreeEdge, TreeEdge, Extended, MKDiscover
<1>2. /\ edges \in Graphs /\ TypeOK /\ Path
      /\ color \in [Vertex -> {WHITE, GRAY, BLACK}]
      /\ mk \in [Vertex -> Window] /\ BucketsAreComputed
      /\ back_edges = {} /\ BlackIsSettled /\ BlackIsRespected /\ TreeEdgesArePending
      /\ \A i \in 1 .. Depth : /\ At(i).op \in Vertex
                               /\ color[At(i).op] = GRAY
                               /\ Finished(i) \in Nat
                               /\ Finished(i) <= Len(edges[At(i).op])
                               /\ SourcesAreBlack(At(i).op, Finished(i))
                               /\ Respected(At(i).op, Finished(i))
  BY <1>1, PathOfTSN DEF CONTINUE, ABORT
<1>3. /\ next.op \in Vertex /\ next.it \in 1 .. Len(edges[next.op])
      /\ e \in Edge /\ e.source \in Vertex
  BY <1>1, <1>2, EdgeAtHand DEF TreeEdge
<1>4. /\ stack \in Seq(State) /\ Len(stack) \in Nat
      /\ stack' = Append(stack, Kept) /\ Kept \in State
      /\ next' = [op |-> e.source, it |-> 1, tree_edge |-> e]
  BY <1>1, <1>2, <1>3 DEF TreeEdge, TypeOK, Kept, State
<1>5. PICK d \in Nat \ {0} : d = Depth /\ d = Len(stack) + 1
  BY <1>1, <1>4 DEF Depth
<1>6. /\ Depth' = d + 1 /\ Len(stack') = d
      /\ \A i \in 1 .. d - 1 : At(i)' = At(i)
      /\ At(d) = next /\ At(d)' = Kept /\ At(d + 1)' = next'
  <2>1. /\ Len(stack') = d /\ stack'[d] = Kept
        /\ \A i \in 1 .. d - 1 : stack'[i] = stack[i]
    BY <1>4, <1>5
  <2> QED
    BY <2>1, <1>1, <1>4, <1>5 DEF Depth, At
<1>7. PICK s \in Vertex : /\ s = e.source /\ color[s] = WHITE
                          /\ color' = [color EXCEPT ![s] = GRAY]
                          /\ mk' = VertexDiscovered(s)
  BY <1>1, <1>3 DEF TreeEdge
<1>8. mk' \in [Vertex -> Window] /\ \A w \in Vertex \ {s} : mk'[w] = mk[w]
  <2>1. [crit |-> 0, mu |-> 0] \in Window
    BY DEF Window
  <2> QED
    BY <2>1, <1>2, <1>7 DEF VertexDiscovered
<1>9. \A w \in Vertex : color[w] = BLACK => mk'[w] = mk[w]
  BY <1>7, <1>8 DEF WHITE, BLACK
<1>10. Black' = Black
  BY <1>2, <1>7 DEF Black, WHITE, GRAY, BLACK
<1>11. BlackIsRespected'
  BY <1>1, <1>2, <1>8, <1>9, <1>10, BlackStaysRespected
<1>12. \A i \in 1 .. d : At(i)'.op = At(i).op /\ Finished(i)' = Finished(i)
  <2>1. ASSUME NEW i \in 1 .. d - 1
        PROVE  At(i)'.op = At(i).op /\ Finished(i)' = Finished(i)
    BY <1>5, <1>6 DEF Finished
  <2>2. At(d)'.op = At(d).op /\ Finished(d)' = Finished(d)
    <3>1. At(d)'.op = next.op /\ At(d)'.it = next.it + 1 /\ At(d).op = next.op
      BY <1>6 DEF Kept
    <3>2. Finished(d)' = next.it + 1 - 2 /\ Finished(d) = next.it - 1
      BY <3>1, <1>3, <1>5, <1>6 DEF Finished
    <3> QED
      BY <3>1, <3>2, <1>3
  <2> QED
    BY <2>1, <2>2
<1>13. PathIsRespected'
  <2>1. ASSUME NEW i \in 1 .. d
        PROVE  Respected(At(i).op, Finished(i))'
    <3>1. PICK u \in Vertex, m \in Nat :
            /\ u = At(i).op /\ m = Finished(i) /\ color[u] = GRAY
            /\ m <= Len(edges[u]) /\ Respected(u, m) /\ SourcesAreBlack(u, m)
      BY <1>2, <1>5
    <3>2. mk'[u].crit >= mk[u].crit /\ mk'[u].mu >= mk[u].mu
      <4>1. u # s
        BY <3>1, <1>7 DEF WHITE, GRAY
      <4>2. mk'[u] = mk[u] /\ mk[u] \in Window
        BY <4>1, <1>2, <1>8
      <4> QED
        BY <4>2 DEF Window
    <3>3. Respected(u, m)'
      BY <3>1, <3>2, <1>1, <1>2, <1>8, <1>9, RespectedIsKept
    <3> QED
      BY <3>1, <3>3, <1>12
  <2>2. Respected(At(d + 1).op, Finished(d + 1))'
    <3>1. At(d + 1)'.op = s /\ Finished(d + 1)' = 0
      BY <1>4, <1>6, <1>7 DEF Finished
    <3>2. Respected(s, 0)'
      BY DEF Respected
    <3> QED
      BY <3>1, <3>2
  <2> QED
    BY <2>1, <2>2, <1>6 DEF PathIsRespected
<1>14. BucketsAreComputed'
  BY <1>2 DEF BucketsAreComputed, fixed, buckets
<1> QED
  BY <1>8, <1>11, <1>13, <1>14 DEF MKInv

LEMMA MKOfCrossEdge ==
  ASSUME CPInv, MKInv, extended, UNCHANGED fixed, TSNCrossEdge
  PROVE  MKInv'
<1>1. /\ pc = "visit" /\ pc' = "visit" /\ ~AtEnd /\ status = CONTINUE
      /\ UNCHANGED <<edges, color, stack, back_edges, pc>>
      /\ next' = [next EXCEPT !.it = @ + 1]
      /\ color[e.source] = BLACK
      /\ mk' = IF e = NoEdge THEN mk ELSE EdgeFinished(e)
  BY DEF TSNCrossEdge, OnCrossEdge, CrossEdge, Extended, MKFinishEdge
<1>2. /\ edges \in Graphs /\ TypeOK /\ Path
      /\ color \in [Vertex -> {WHITE, GRAY, BLACK}]
      /\ mk \in [Vertex -> Window] /\ BucketsAreComputed
      /\ back_edges = {} /\ BlackIsSettled /\ BlackIsRespected /\ TreeEdgesArePending
      /\ \A i \in 1 .. Depth : /\ At(i).op \in Vertex
                               /\ color[At(i).op] = GRAY
                               /\ Finished(i) \in Nat
                               /\ Finished(i) <= Len(edges[At(i).op])
                               /\ SourcesAreBlack(At(i).op, Finished(i))
                               /\ Respected(At(i).op, Finished(i))
  BY <1>1, PathOfTSN DEF CONTINUE, ABORT
<1>3. PICK v \in Vertex, n \in Nat : /\ v = next.op /\ n = next.it - 1
                                     /\ n + 1 \in 1 .. Len(edges[v])
                                     /\ n + 1 <= Len(edges[v])
                                     /\ e = edges[v][n + 1]
  <2>1. /\ next.op \in Vertex /\ next.it \in 1 .. Len(edges[next.op])
        /\ Len(edges[next.op]) \in Nat
    BY <1>1, <1>2, EdgeAtHand, EdgesOfGraph
  <2>2. next.it - 1 \in Nat /\ next.it - 1 + 1 = next.it
    BY <2>1
  <2> QED
    BY <2>1, <2>2 DEF e
<1>4. PICK d \in Nat \ {0} : d = Depth /\ d = Len(stack) + 1
  BY <1>1, <1>2, DepthType DEF Depth
<1>5. /\ Depth' = d
      /\ \A i \in 1 .. d - 1 : At(i)' = At(i)
      /\ At(d) = next /\ At(d)' = next'
      /\ next'.op = v
      /\ next'.it = n + 2
  <2>1. /\ Depth' = Depth
        /\ \A i \in 1 .. Depth - 1 : At(i)' = At(i)
        /\ At(Depth) = next
        /\ \A i : i = Depth => At(i)' = next'
        /\ next'.op = next.op
        /\ next'.it = next.it + 1
    BY <1>1, <1>2, AdvancePath
  <2>2. next.it \in Nat
    BY <1>2 DEF TypeOK, State
  <2> QED
    BY <2>1, <2>2, <1>3, <1>4
<1>6. /\ color[v] = GRAY /\ Respected(v, n) /\ SourcesAreBlack(v, n) /\ Finished(d)' = n + 1
  <2>1. Finished(d) = n /\ At(d).op = v /\ d \in 1 .. Depth
    BY <1>3, <1>4, <1>5 DEF Finished
  <2>2. d > Len(stack')
    BY <1>1, <1>2, <1>4, DepthType
  <2>3. Finished(d)' = n + 1
    BY <2>2, <1>5 DEF Finished
  <2> QED
    BY <1>2, <2>1, <2>3
<1>7. mk' = EdgeFinished(edges[v][n + 1])
  <2>1. e # NoEdge
    BY <1>2, <1>3, EdgesOfGraph, NoEdgeIsNoEdge
  <2> QED
    BY <2>1, <1>1, <1>3
<1>8. /\ mk' \in [Vertex -> Window]
      /\ \A w \in Vertex \ {v} : mk'[w] = mk[w]
      /\ Respected(v, n + 1)'
  <2>1. \A j \in 1 .. n + 1 : j \in 1 .. n \/ j = n + 1
    OBVIOUS
  <2>2. SourcesAreBlack(v, n + 1)
    BY <2>1, <1>1, <1>3, <1>6 DEF SourcesAreBlack
  <2>3. color[v] # BLACK /\ UNCHANGED <<edges, color>>
    BY <1>1, <1>6 DEF GRAY, BLACK
  <2> QED
    BY <2>2, <2>3, <1>2, <1>3, <1>6, <1>7, RespectedIsExtended
<1>9. Black' = Black /\ \A w \in Vertex : color[w] = BLACK => mk'[w] = mk[w]
  BY <1>1, <1>6, <1>8 DEF Black, GRAY, BLACK
<1>10. BlackIsRespected'
  BY <1>1, <1>2, <1>8, <1>9, BlackStaysRespected
<1>11. PathIsRespected'
  <2>1. ASSUME NEW i \in 1 .. d
        PROVE  Respected(At(i).op, Finished(i))'
    <3>1. CASE i = d
      BY <3>1, <1>5, <1>6, <1>8
    <3>2. CASE i \in 1 .. d - 1
      <4>1. /\ ~(i > Len(stack)) /\ i \in 1 .. Depth /\ At(i)' = At(i)
            /\ d \in 1 .. Depth /\ i # d
        BY <3>2, <1>4, <1>5
      <4>2. At(i).op # v /\ Finished(i)' = Finished(i)
        BY <4>1, <1>1, <1>2, <1>3, <1>5 DEF Path, GrayIsPath, Finished
      <4>3. PICK u \in Vertex, m \in Nat :
              /\ u = At(i).op /\ m = Finished(i) /\ u # v
              /\ m <= Len(edges[u]) /\ Respected(u, m) /\ SourcesAreBlack(u, m)
        BY <4>1, <4>2, <1>2
      <4>4. mk'[u].crit >= mk[u].crit /\ mk'[u].mu >= mk[u].mu
        BY <4>3, <1>2, <1>8 DEF Window
      <4>5. Respected(u, m)'
        BY <4>3, <4>4, <1>1, <1>2, <1>8, <1>9, RespectedIsKept
      <4> QED
        BY <4>1, <4>2, <4>3, <4>5
    <3> QED
      BY <3>1, <3>2
  <2> QED
    BY <2>1, <1>5 DEF PathIsRespected
<1>12. BucketsAreComputed'
  BY <1>2 DEF BucketsAreComputed, fixed, buckets
<1> QED
  BY <1>8, <1>10, <1>11, <1>12 DEF MKInv

LEMMA MKOfFinishVertex ==
  ASSUME CPInv, MKInv, extended, UNCHANGED fixed, TSNFinishVertex
  PROVE  MKInv'
<1>1. /\ pc = "visit" /\ pc' = "pop" /\ AtEnd /\ status = CONTINUE
      /\ UNCHANGED <<edges, stack, next>>
      /\ color' = [color EXCEPT ![next.op] = BLACK]
      /\ mk' = [mk EXCEPT ![next.op] = IF next.op \in Operation THEN prolongation(next.op)
                                       ELSE mk[next.op]]
  BY DEF TSNFinishVertex, OnFinishVertex, FinishVertex, Extended, MKFinishVertex
<1>2. /\ edges \in Graphs /\ TypeOK /\ Path
      /\ color \in [Vertex -> {WHITE, GRAY, BLACK}]
      /\ mk \in [Vertex -> Window] /\ BucketsAreComputed
      /\ back_edges = {} /\ BlackIsSettled /\ BlackIsRespected /\ TreeEdgesArePending
      /\ \A i \in 1 .. Depth : /\ At(i).op \in Vertex
                               /\ color[At(i).op] = GRAY
                               /\ Finished(i) \in Nat
                               /\ Finished(i) <= Len(edges[At(i).op])
                               /\ SourcesAreBlack(At(i).op, Finished(i))
                               /\ Respected(At(i).op, Finished(i))
  BY <1>1, PathOfTSN DEF CONTINUE, ABORT
<1>3. PICK d \in Nat \ {0} : d = Depth /\ d = Len(stack) + 1 /\ Depth' = d - 1
  BY <1>1, <1>2, DepthType DEF Depth
<1>4. At(d) = next /\ \A i \in 1 .. d - 1 : At(i)' = At(i) /\ Finished(i)' = Finished(i)
  BY <1>1, <1>2, <1>3, DepthType DEF At, Finished
<1>5. PICK v \in Vertex, n \in Nat :
        /\ v = next.op /\ n = Len(edges[v]) /\ color[v] = GRAY
        /\ SourcesAreBlack(v, n) /\ Respected(v, n)
  <2>1. /\ next.op \in Vertex /\ next.it \in Nat \ {0}
        /\ next.it <= Len(edges[next.op]) + 1 /\ next.it > Len(edges[next.op])
    BY <1>1, <1>2 DEF TypeOK, State, AtEnd
  <2>2. next.it = Len(edges[next.op]) + 1
    BY <2>1, <1>2, EdgesOfGraph
  <2>3. d \in 1 .. Depth /\ d > Len(stack)
    BY <1>2, <1>3, DepthType
  <2>4. Finished(d) = Len(edges[next.op])
    BY <2>1, <2>2, <2>3, <1>2, <1>4, EdgesOfGraph DEF Finished
  <2> QED
    BY <2>1, <2>3, <2>4, <1>2, <1>4
<1>6. /\ mk' \in [Vertex -> Window]
      /\ \A w \in Vertex \ {v} : mk'[w] = mk[w]
      /\ mk'[v].crit >= mk[v].crit /\ mk'[v].mu >= mk[v].mu
      /\ v \in Operation => mk'[v].crit <= mk'[v].mu
  <2>1. mk[v].crit \in Nat /\ mk[v].mu \in Nat /\ mk[v] \in Window
    BY <1>2 DEF Window
  <2>2. CASE v \notin Operation
    <3>1. mk' = mk
      BY <2>2, <1>1, <1>2, <1>5
    <3> QED
      BY <3>1, <2>1, <2>2, <1>2
  <2>3. CASE v \in Operation
    <3>1. PICK c \in Nat : c = Larger(mk[v].crit, crit_cost[v].cost) /\ c >= mk[v].crit
      <4>1. crit_cost[v].cost \in Nat
        BY DEF CPInv, Cost
      <4> QED
        BY <4>1, <2>1 DEF Larger
    <3>2. PICK b \in Nat :
            b = Busy(token_bucket[op[v].link], token_bucket[op[v].link].bucket_size, trans_max(v))
      <4>1. IsBucket(token_bucket[op[v].link])
        BY <1>2, <2>3, BucketsOf
      <4>2. trans_max(v) \in Int
        BY WeightsOf DEF trans_max
      <4>3. trans_max(v) >= 0
        BY <2>3, PdbAssumption, Zenon
      <4>4. trans_max(v) \in Nat /\ token_bucket[op[v].link].bucket_size \in Nat
        BY <4>1, <4>2, <4>3 DEF IsBucket
      <4> QED
        BY <4>1, <4>4, BusyIsNatural
    <3>3. PICK m \in Nat : m = Larger(mk[v].mu, c + b) /\ c <= m /\ m >= mk[v].mu
      BY <2>1, <3>1, <3>2 DEF Larger
    <3>4. mk' = [mk EXCEPT ![v] = [crit |-> c, mu |-> m]]
      BY <1>1, <1>5, <2>3, <3>1, <3>2, <3>3 DEF prolongation
    <3>5. [crit |-> c, mu |-> m] \in Window
      BY <3>1, <3>3 DEF Window
    <3>6. mk'[v].crit = c /\ mk'[v].mu = m
      BY <1>2, <3>4
    <3> QED
      BY <1>2, <3>1, <3>3, <3>4, <3>5, <3>6
  <2> QED
    BY <2>2, <2>3
<1>7. \A w \in Vertex : color[w] = BLACK => mk'[w] = mk[w]
  BY <1>5, <1>6 DEF GRAY, BLACK
<1>8. \A w \in Vertex : mk'[w].crit >= mk[w].crit /\ mk'[w].mu >= mk[w].mu
  <2>1. ASSUME NEW w \in Vertex, w # v
        PROVE  mk'[w].crit >= mk[w].crit /\ mk'[w].mu >= mk[w].mu
    BY <2>1, <1>2, <1>6 DEF Window
  <2> QED
    BY <2>1, <1>6
<1>9. BlackIsRespected'
  <2>1. ASSUME NEW w \in Black'
        PROVE  /\ Respected(w, Len(edges[w]))'
               /\ w \in Operation => mk'[w].crit <= mk'[w].mu
    <3>1. w \in Vertex /\ (w \in Black \/ w = v)
      BY <1>1, <1>2, <1>5 DEF Black
    <3>2. PICK m \in Nat : /\ m = Len(edges[w]) /\ Respected(w, m) /\ SourcesAreBlack(w, m)
      <4>1. Len(edges[w]) \in Nat
        BY <3>1, <1>2, EdgesOfGraph
      <4>2. CASE w = v
        BY <4>2, <1>5
      <4>3. CASE w \in Black
        BY <4>1, <4>3, <1>2 DEF BlackIsRespected, BlackIsSettled, Settled, SourcesAreBlack
      <4> QED
        BY <3>1, <4>2, <4>3
    <3>3. Respected(w, m)'
      BY <3>1, <3>2, <1>1, <1>2, <1>6, <1>7, <1>8, RespectedIsKept
    <3>4. w \in Operation => mk'[w].crit <= mk'[w].mu
      <4>1. CASE w = v
        BY <4>1, <1>6
      <4>2. CASE w \in Black /\ w # v
        <5>1. mk'[w] = mk[w]
          BY <4>2, <3>1, <1>6
        <5> QED
          BY <4>2, <5>1, <1>2 DEF BlackIsRespected
      <4> QED
        BY <3>1, <4>1, <4>2
    <3> QED
      BY <3>2, <3>3, <3>4, <1>1
  <2> QED
    BY <2>1 DEF BlackIsRespected
<1>10. PathIsRespected'
  <2>1. ASSUME NEW i \in 1 .. d - 1
        PROVE  Respected(At(i).op, Finished(i))'
    <3>1. PICK u \in Vertex, m \in Nat :
            /\ u = At(i).op /\ m = Finished(i)
            /\ m <= Len(edges[u]) /\ Respected(u, m) /\ SourcesAreBlack(u, m)
      BY <1>2, <1>3
    <3>2. Respected(u, m)'
      BY <3>1, <1>1, <1>2, <1>6, <1>7, <1>8, RespectedIsKept
    <3> QED
      BY <3>1, <3>2, <1>4
  <2> QED
    BY <2>1, <1>3 DEF PathIsRespected
<1>11. BucketsAreComputed'
  BY <1>2 DEF BucketsAreComputed, fixed, buckets
<1> QED
  BY <1>6, <1>9, <1>10, <1>11 DEF MKInv

-----------------------------------------------------------------------------
(* The inductive invariant. *)

LEMMA MKOfTSN ==
  ASSUME CPInv, MKInv, extended \in BOOLEAN, [TSNNext]_tsn_vars
  PROVE  MKInv'
<1>1. UNCHANGED fixed /\ extended' = extended
  BY FixedStays DEF fixed
<1>2. BucketsAreComputed'
  BY <1>1 DEF MKInv, BucketsAreComputed, fixed, buckets
<1>3. CASE ~extended
  <2>1. mk' = mk
    BY <1>3 DEF TSNNext, Construct, TSNPop, TSNTreeEdge, TSNBackEdge, TSNCrossEdge,
                TSNFinishVertex, TSNComplete, TSNAbort, tsn_vars, mk_vars, Extended
  <2> QED
    BY <1>1, <1>2, <1>3, <2>1 DEF MKInv
<1>4. CASE extended
  <2>1. ASSUME NEW G \in Graphs, Construct(G)
        PROVE  MKInv'
    BY <1>1, <1>4, <2>1, MKOfConstruct
  <2>2. CASE TSNPop
    BY <1>1, <1>4, <2>2, MKOfPop
  <2>3. CASE TSNTreeEdge
    BY <1>1, <1>4, <2>3, MKOfTreeEdge
  <2>4. CASE TSNBackEdge
    BY <1>2, <2>4 DEF TSNBackEdge, OnBackEdge, MKInv, mk_vars
  <2>5. CASE TSNCrossEdge
    BY <1>1, <1>4, <2>5, MKOfCrossEdge
  <2>6. CASE TSNFinishVertex
    BY <1>1, <1>4, <2>6, MKOfFinishVertex
  <2>7. CASE TSNComplete
    <3>1. pc' = "idle" /\ status = CONTINUE /\ UNCHANGED <<edges, color, mk>>
      BY <2>7 DEF TSNComplete, Complete, mk_vars
    <3>2. BlackIsRespected /\ mk \in [Vertex -> Window]
      BY <1>4, <3>1 DEF MKInv, CONTINUE, ABORT
    <3>3. BlackIsRespected'
      BY <3>1, <3>2 DEF BlackIsRespected, Respected, Black
    <3> QED
      BY <1>2, <3>1, <3>2, <3>3 DEF MKInv
  <2>8. CASE TSNAbort
    BY <1>2, <2>8 DEF TSNAbort, MKInv
  <2>9. CASE UNCHANGED tsn_vars
    <3>1. UNCHANGED <<edges, color, stack, next, pc, status, mk>>
      BY <2>9 DEF tsn_vars, cp_vars, vars, mk_vars
    <3>2. BlackIsRespected' = BlackIsRespected
      BY <3>1 DEF BlackIsRespected, Respected, Black
    <3>3. PathIsRespected' = PathIsRespected
      BY <3>1 DEF PathIsRespected, Respected, Depth, Finished, At
    <3> QED
      BY <1>1, <1>2, <3>1, <3>2, <3>3 DEF MKInv
  <2> QED
    BY <2>1, <2>2, <2>3, <2>4, <2>5, <2>6, <2>7, <2>8, <2>9 DEF TSNNext
<1> QED
  BY <1>3, <1>4

LEMMA TSNInvInit == TSNInit => TSNInv
<1> SUFFICES ASSUME TSNInit
             PROVE  TSNInv
  OBVIOUS
<1>1. CPInv /\ IInv /\ pc = "idle" /\ status = CONTINUE
  BY CPInvInit DEF TSNInit, CPInit, Init, CPInv
<1>2. VisitInv /\ CompletedInv
  BY <1>1 DEF VisitInv, CompletedInv, CONTINUE, COMPLETED
<1>3. UnfinishedIsUnordered
  BY DEF TSNInit, CPInit, Init, UnfinishedIsUnordered
<1>4. Black = {}
  BY DEF TSNInit, CPInit, Init, Black, WHITE, BLACK
<1>5. MKInv
  BY <1>1, <1>4 DEF TSNInit, MKInit, MKInv, BucketsAreComputed, BlackIsRespected, Window
<1> QED
  BY <1>1, <1>2, <1>3, <1>5 DEF TSNInit, TSNInv

LEMMA TSNInvStep == TSNInv /\ [TSNNext]_tsn_vars => TSNInv'
<1> SUFFICES ASSUME TSNInv, [TSNNext]_tsn_vars
             PROVE  TSNInv'
  OBVIOUS
<1>1. CPInv' /\ VisitInv'
  BY CPInvOfTSN, TraversalOfTSN, VisitStep DEF TSNInv
<1>2. CompletedInv' /\ UnfinishedIsUnordered'
  BY CompletedOfTSN DEF TSNInv
<1>3. MKInv' /\ (extended \in BOOLEAN)'
  BY MKOfTSN, FixedStays DEF TSNInv, fixed
<1> QED
  BY <1>1, <1>2, <1>3 DEF TSNInv

LEMMA TSNInvariant == TSNSpec => []TSNInv
<1>1. TSNInit => TSNInv
  BY TSNInvInit
<1>2. TSNInv /\ [TSNNext]_tsn_vars => TSNInv'
  BY TSNInvStep
<1> QED
  BY <1>1, <1>2, PTL DEF TSNSpec

-----------------------------------------------------------------------------
(* Queues are isolated. *)

\* The frames of v have left their queue before those of u can have arrived
\* at the next one.
HasLeftBefore(v, u) ==
  v \in before[u] /\ Latest(v) + trans_max(v) <= Earliest(u) + op[u].total_min

LEMMA WindowsOf ==
  ASSUME TSNInv, Constructed, NEW v \in Operation, v \in Black
  PROVE  /\ Earliest(v) \in Nat /\ Latest(v) \in Nat /\ Earliest(v) <= Latest(v)
         /\ trans_max(v) \in Nat /\ op[v].total_min \in Int
<1>1. v \in Vertex
  BY DEF Black
<1>2. trans_max(v) \in Nat /\ op[v].total_min \in Int
  <2>1. trans_max(v) \in Int
    BY <1>1, WeightsOf DEF trans_max
  <2>2. trans_max(v) >= 0 /\ op[v].total_min \in Int
    BY PdbAssumption, Zenon
  <2> QED
    BY <2>1, <2>2
<1>3. CASE extended
  <2>1. mk[v] \in Window /\ mk[v].crit <= mk[v].mu
    BY <1>1, <1>3 DEF TSNInv, MKInv, BlackIsRespected, Constructed, COMPLETED, ABORT
  <2> QED
    BY <1>2, <1>3, <2>1 DEF Earliest, Latest, Window
<1>4. CASE ~extended
  <2>1. crit_cost[v].cost \in Nat
    BY <1>1 DEF TSNInv, CPInv, Cost
  <2> QED
    BY <1>2, <1>4, <2>1 DEF Earliest, Latest
<1> QED
  BY <1>3, <1>4

\* What is known of the edges of a finished operation.
LEMMA EdgesAreRespected ==
  ASSUME TSNInv, Constructed, NEW v \in Black, NEW x, NEW type, HasEdge(edges, x, v, type)
  PROVE  /\ x \in before[v] /\ x \in Black
         /\ ~extended =>
              crit_cost[x].cost + weights[x][type].outgoing + weights[v][type].incoming
                <= crit_cost[v].cost
         /\ extended /\ type = "FIFO" =>
              mk[x].mu + weights[x]["FIFO"].outgoing + weights[v]["FIFO"].incoming <= mk[v].crit
         /\ extended /\ type = "JOB" /\ x # src /\ v # snk =>
              mk[x].crit + weights[x]["JOB"].outgoing + weights[v]["JOB"].incoming <= mk[v].crit
         /\ extended /\ type = "MACHINE" => mk[x].mu <= mk[v].crit \/ mk[x].mu <= mk[v].mu
<1>1. /\ back_edges = {} /\ BlackIsSettled /\ FinishedInOrder /\ edges \in Graphs
      /\ extended => BlackIsRespected
  BY DEF TSNInv, CPInv, IInv, MKInv, Constructed, COMPLETED, ABORT
<1>2. PICK i \in 1 .. Len(edges[v]) : edges[v][i].source = x /\ edges[v][i].edge_type = type
  BY DEF HasEdge
<1>3. edges[v][i].target = v
  BY <1>1, EdgesOfGraph DEF Black
<1>4. x \in before[v] /\ x \in Black
  BY <1>1, <1>2 DEF FinishedInOrder
<1>5. uv_cost(crit_cost, edges[v][i]) <= crit_cost[v].cost
  BY <1>1, <1>2 DEF BlackIsSettled, Settled
<1>6. extended => Respected(v, Len(edges[v]))
  BY <1>1 DEF BlackIsRespected
<1> QED
  BY <1>2, <1>3, <1>4, <1>5, <1>6 DEF uv_cost, Respected

\* Over a FIFO edge the frames before have left.
LEMMA FifoIsolates ==
  ASSUME TSNInv, Constructed, NEW u \in Operation, u \in Black,
         NEW x \in Operation, HasEdge(edges, x, u, "FIFO")
  PROVE  HasLeftBefore(x, u)
<1>1. x \in before[u] /\ x \in Black
  BY EdgesAreRespected
<1>2. /\ weights[x]["FIFO"].outgoing = trans_max(x)
      /\ weights[u]["FIFO"].incoming = -op[u].total_min
  <2>1. /\ weights[x]["FIFO"] = [incoming |-> -op[x].total_min, outgoing |-> trans_max(x)]
        /\ weights[u]["FIFO"] = [incoming |-> -op[u].total_min, outgoing |-> trans_max(u)]
    BY PdbAssumption, Zenon
  <2> DEFINE a == weights[x]["FIFO"]
             b == weights[u]["FIFO"]
  <2>2. a.outgoing = trans_max(x) /\ b.incoming = -op[u].total_min
    BY <2>1
  <2> QED
    BY <2>2
<1>3. /\ Latest(x) \in Nat /\ Earliest(u) \in Nat /\ trans_max(x) \in Nat
      /\ op[u].total_min \in Int
  BY <1>1, WindowsOf
<1>4. Latest(x) + trans_max(x) + (-op[u].total_min) <= Earliest(u)
  BY <1>2, EdgesAreRespected DEF Latest, Earliest
<1> QED
  BY <1>1, <1>3, <1>4 DEF HasLeftBefore

\* An operation begins when the frames of the one before may have arrived.
LEMMA JobsAreInOrder ==
  ASSUME TSNInv, Constructed, NEW v \in Operation, v \in Black, NEW u \in HopsBefore(v)
  PROVE  /\ u \in Operation /\ u \in before[v] /\ u \in Black
         /\ Earliest(u) + op[u].total_min <= Earliest(v)
<1>1. u \in Operation
  BY DEF HopsBefore
<1>2. v \in AncestorsIn(edges, start) /\ edges \in Graphs
  BY DEF TSNInv, CompletedInv, Constructed, Ancestors, CPInv, IInv
<1>3. HasEdge(edges, u, v, "JOB")
  BY <1>2, QueueAssumption
<1>4. u \in before[v] /\ u \in Black
  BY <1>3, EdgesAreRespected
<1>5. u # src /\ v # snk /\ u \in Vertex /\ v \in Vertex
  BY <1>1, EdgeAssumption
<1>6. /\ total_max(u) \in Int /\ total_max(u) = weights[u]["JOB"].outgoing
      /\ weights[v]["JOB"].incoming \in Int
  BY <1>5, WeightsOf DEF total_max
<1>7. op[u].total_min <= total_max(u) /\ op[u].total_min \in Int
  BY <1>1, PdbAssumption, Zenon
<1>8. weights[v]["JOB"].incoming >= 0
  BY PdbAssumption, Zenon
<1>9. Earliest(u) + total_max(u) + weights[v]["JOB"].incoming <= Earliest(v)
  BY <1>3, <1>5, <1>6, EdgesAreRespected DEF Earliest
<1>10. Earliest(u) \in Nat /\ Earliest(v) \in Nat
  BY <1>1, <1>4, WindowsOf
<1> QED
  BY <1>1, <1>4, <1>6, <1>7, <1>8, <1>9, <1>10

\* ... and so have those of all before it in the queue.
LEMMA IsolationIsPassedOn ==
  ASSUME TSNInv, Constructed, NEW v \in Operation, v \in Black,
         NEW y \in Operation, y \in Black, NEW w \in HopsBefore(y), HasLeftBefore(v, w),
         NEW u \in Operation, u \in Black, HasLeftBefore(y, u)
  PROVE  HasLeftBefore(v, u)
<1>1. /\ w \in Operation /\ w \in before[y] /\ w \in Black
      /\ Earliest(w) + op[w].total_min <= Earliest(y)
  BY JobsAreInOrder
<1>2. before[w] \subseteq before[y] /\ before[y] \subseteq before[u]
  BY <1>1 DEF TSNInv, CPInv, IInv, FinishedInOrder, HasLeftBefore
<1>3. /\ Earliest(w) \in Nat /\ op[w].total_min \in Int
      /\ Latest(v) \in Nat /\ trans_max(v) \in Nat
      /\ Earliest(y) \in Nat /\ Latest(y) \in Nat /\ Earliest(y) <= Latest(y)
      /\ trans_max(y) \in Nat
      /\ Earliest(u) \in Nat /\ op[u].total_min \in Int
  BY <1>1, WindowsOf
<1>4. /\ Latest(v) + trans_max(v) <= Earliest(w) + op[w].total_min
      /\ Latest(y) + trans_max(y) <= Earliest(u) + op[u].total_min
  BY DEF HasLeftBefore
<1>5. Latest(v) + trans_max(v) <= Earliest(u) + op[u].total_min
  BY <1>1, <1>3, <1>4
<1> QED
  BY <1>2, <1>5 DEF HasLeftBefore

\* The operations of a port in the order of their queue.
IsQueue(queue, n, S) ==
  /\ queue \in [1 .. n -> S]
  /\ \A v \in S : \E i \in 1 .. n : queue[i] = v
  /\ \A i \in 2 .. n : \A u \in HopsBefore(queue[i]) : HasEdge(edges, queue[i - 1], u, "FIFO")

LEMMA QueueOfPort ==
  ASSUME TSNInv, Constructed, NEW v \in Operation
  PROVE  \E n \in Nat : \E queue : IsQueue(queue, n, PortIn(edges, Port(v)))
<1>1. edges \in Graphs /\ Port(v) \in {<<op[o].link, op[o].pcp>> : o \in Operation}
  BY DEF TSNInv, CPInv, IInv, Port
<1>2. PICK S : S = PortIn(edges, Port(v))
  OBVIOUS
<1>3. Cardinality(S) \in Nat
  <2>1. S \subseteq Vertex
    BY <1>2, EdgeAssumption DEF PortIn
  <2> QED
    BY <2>1, StartAssumption, FS_Subset, FS_CardinalityType
<1>4. \E queue \in [1 .. Cardinality(S) -> S] :
        /\ \A w \in S : \E i \in 1 .. Cardinality(S) : queue[i] = w
        /\ \A i \in 2 .. Cardinality(S) : \A u \in HopsBefore(queue[i]) :
             HasEdge(edges, queue[i - 1], u, "FIFO")
  BY <1>1, <1>2, QueueAssumption
<1> QED
  BY <1>2, <1>3, <1>4 DEF IsQueue

\* Along a queue of any length.
LEMMA QueueIsIsolated ==
  ASSUME TSNInv, Constructed, NEW port, NEW n \in Nat, NEW queue,
         IsQueue(queue, n, PortIn(edges, port)),
         NEW i \in 1 .. n, NEW j \in 1 .. n, i < j, NEW u \in HopsBefore(queue[j])
  PROVE  HasLeftBefore(queue[i], u)
<1>1. \A m \in 1 .. n : /\ queue[m] \in Operation /\ queue[m] \in Black
                        /\ <<op[queue[m]].link, op[queue[m]].pcp>> = port
  <2>1. Black = AncestorsIn(edges, start)
    BY DEF TSNInv, CompletedInv, Constructed, Ancestors
  <2> QED
    BY <2>1 DEF IsQueue, PortIn
<1> DEFINE T == {d \in Nat : \A m \in 1 .. n : \A w \in HopsBefore(queue[m]) :
                               m = i + 1 + d => HasLeftBefore(queue[i], w)}
<1>2. \A m \in 2 .. n : \A w \in HopsBefore(queue[m]) :
        w \in Operation /\ w \in Black /\ HasLeftBefore(queue[m - 1], w)
  <2>1. TAKE m \in 2 .. n
  <2>2. TAKE w \in HopsBefore(queue[m])
  <2>3. m \in 1 .. n /\ m - 1 \in 1 .. n
    OBVIOUS
  <2>4. HasEdge(edges, queue[m - 1], w, "FIFO")
    BY DEF IsQueue
  <2>5. w \in Operation /\ w \in Black
    BY <1>1, <2>3, JobsAreInOrder
  <2> QED
    BY <1>1, <2>3, <2>4, <2>5, FifoIsolates
<1>3. 0 \in T
  <2>1. ASSUME NEW m \in 1 .. n, m = i + 1 + 0
        PROVE  m \in 2 .. n /\ m - 1 = i
    BY <2>1
  <2> QED
    BY <2>1, <1>2
<1>4. ASSUME NEW d \in Nat, d \in T
      PROVE  d + 1 \in T
  <2>1. SUFFICES ASSUME NEW m \in 1 .. n, NEW w \in HopsBefore(queue[m]), m = i + 1 + (d + 1)
                 PROVE  HasLeftBefore(queue[i], w)
    OBVIOUS
  <2>2. m \in 2 .. n /\ m - 1 \in 1 .. n /\ m - 1 = i + 1 + d
    BY <2>1
  <2>3. PICK y \in Operation : y = queue[m - 1] /\ y \in Black
    BY <1>1, <2>2
  <2>4. HopsBefore(y) # {}
    <3>1. op[y].link = op[queue[m]].link /\ op[y].pcp = op[queue[m]].pcp
      BY <1>1, <2>2, <2>3
    <3>2. HopsBefore(queue[m]) # {} /\ queue[m] \in Operation
      BY <1>1
    <3> QED
      BY <3>1, <3>2, FirstHopAssumption
  <2>5. PICK x \in HopsBefore(y) : HasLeftBefore(queue[i], x)
    BY <1>4, <2>2, <2>3, <2>4
  <2>6. w \in Operation /\ w \in Black /\ HasLeftBefore(y, w)
    BY <1>2, <2>2, <2>3
  <2> QED
    BY <1>1, <2>3, <2>5, <2>6, IsolationIsPassedOn
<1> HIDE DEF T
<1>5. Nat \subseteq T
  BY <1>3, <1>4, InductionOnNaturals
<1>6. PICK d \in Nat : j = i + 1 + d
  <2>1. j - i - 1 \in Nat /\ j = i + 1 + (j - i - 1)
    OBVIOUS
  <2> QED
    BY <2>1
<1> QED
  BY <1>5, <1>6 DEF T

LEMMA QueuesOfTSN == TSNInv => QueuesAreIsolated
<1> SUFFICES ASSUME TSNInv, Constructed, NEW v \in Operation, NEW w \in Operation,
                    Port(v) = Port(w), v \in before[w], NEW u \in HopsBefore(w)
             PROVE  Latest(v) + trans_max(v) <= Earliest(u) + op[u].total_min
  BY DEF QueuesAreIsolated
<1>1. FinishedInOrder /\ w \in Vertex /\ v \in Vertex
  BY EdgeAssumption DEF TSNInv, CPInv, IInv
<1>2. w \in Black
  BY <1>1 DEF TSNInv, UnfinishedIsUnordered, Black
<1>3. v \in Black /\ before[v] \subseteq before[w] /\ w \notin before[w]
  BY <1>1, <1>2 DEF FinishedInOrder
<1>4. v \in PortIn(edges, Port(w)) /\ w \in PortIn(edges, Port(w))
  <2>1. Black = AncestorsIn(edges, start)
    BY DEF TSNInv, CompletedInv, Constructed, Ancestors
  <2> QED
    BY <1>2, <1>3, <2>1 DEF PortIn, Port
<1>5. PICK n \in Nat : \E queue : IsQueue(queue, n, PortIn(edges, Port(w)))
  BY QueueOfPort
<1>6. PICK queue : IsQueue(queue, n, PortIn(edges, Port(w)))
  BY <1>5
<1>7. PICK i \in 1 .. n, j \in 1 .. n : queue[i] = v /\ queue[j] = w
  BY <1>4, <1>6 DEF IsQueue
<1>8. ~(i = j)
  BY <1>3, <1>7
<1>9. ~(j < i)
  <2>1. SUFFICES ASSUME j < i
                 PROVE  FALSE
    OBVIOUS
  <2>2. PICK x \in HopsBefore(v) : TRUE
    BY FirstHopAssumption DEF Port
  <2>3. w \in before[x]
    BY <1>6, <1>7, <2>1, QueueIsIsolated DEF HasLeftBefore
  <2>4. before[x] \subseteq before[v]
    BY <1>1, <1>3, JobsAreInOrder DEF FinishedInOrder
  <2> QED
    BY <1>3, <2>3, <2>4
<1>10. i < j
  BY <1>8, <1>9
<1> QED
  BY <1>6, <1>7, <1>10, QueueIsIsolated DEF HasLeftBefore

\* No frame of a finished configuration can enter a queue before all frames
\* ahead of it have left, also if frames are late or lost, in both
\* configurations, for any queues, weights and (m,k)-firm streams.
THEOREM QueuesAreKeptApart == TSNSpec => []QueuesAreIsolated
BY QueuesOfTSN, TSNInvariant, PTL

-----------------------------------------------------------------------------
(* Remainders. *)

LEMMA Remainders ==
  ASSUME NEW a \in Int, NEW c \in Nat \ {0}
  PROVE  /\ a % c \in Int /\ 0 <= a % c /\ a % c < c
         /\ a \div c \in Int /\ a = c * (a \div c) + (a % c)
OBVIOUS

LEMMA MultiplesAreApart ==
  ASSUME NEW c \in Nat \ {0}, NEW m \in Int, m # 0
  PROVE  c * m >= c \/ c * m <= -c
<1>1. \A n \in Nat \ {0} : c * n >= c
  OBVIOUS
<1>2. \A n \in Nat \ {0} : c * (-n) <= -c
  OBVIOUS
<1> QED
  OBVIOUS

LEMMA RemainderIs ==
  ASSUME NEW c \in Nat \ {0}, NEW a \in Int, NEW r \in Int, NEW q \in Int,
         0 <= r, r < c, a = c * q + r
  PROVE  a % c = r
<1>1. PICK s \in Int : s = a % c /\ 0 <= s /\ s < c
  BY Remainders
<1>2. PICK p \in Int : a = c * p + s
  BY <1>1, Remainders
<1>3. c * (p - q) = r - s
  BY <1>2
<1>4. p - q = 0
  <2>1. p - q # 0 => c * (p - q) >= c \/ c * (p - q) <= -c
    BY MultiplesAreApart
  <2>2. PICK x \in Int : x = c * (p - q)
    OBVIOUS
  <2> QED
    BY <1>1, <1>3, <2>1, <2>2
<1>5. c * (p - q) = 0
  BY <1>4
<1> QED
  BY <1>1, <1>3, <1>5

LEMMA RemaindersAgree ==
  ASSUME NEW c \in Nat \ {0}, NEW a \in Int, NEW q \in Int
  PROVE  (a + c * q) % c = a % c
<1>1. PICK s \in Int, p \in Int : s = a % c /\ 0 <= s /\ s < c /\ a = c * p + s
  BY Remainders
<1>2. a + c * q = c * (p + q) + s
  BY <1>1
<1>3. a + c * q \in Int /\ p + q \in Int
  BY <1>1
<1> QED
  BY <1>1, <1>2, <1>3, RemainderIs

-----------------------------------------------------------------------------
(* What has passed of the durations of a gate. *)

LEMMA PassedSums ==
  ASSUME NEW gate, gate.durations \in Seq(Int)
  PROVE  /\ Passed(gate, 0) = 0
         /\ \A i \in 1 .. Len(gate.durations) :
              Passed(gate, i) = Passed(gate, i - 1) + gate.durations[i]
         /\ \A i \in 0 .. Len(gate.durations) : Passed(gate, i) \in Int
<1> DEFINE d == gate.durations
           N == Len(d)
           Steps(f) == [i \in 0 .. N |-> IF i = 0 THEN 0 ELSE f[i - 1] + d[i]]
           passed == CHOOSE f : f = Steps(f)
           h == [y \in (1 .. N) \X Int |-> y[2] + d[y[1]]]
<1>1. N \in Nat /\ \A i \in 1 .. N : d[i] \in Int
  OBVIOUS
<1>2. \A i \in 1 .. N : \A x \in Int : h[<<i, x>>] = x + d[i] /\ h[<<i, x>>] \in Int
  BY <1>1
<1> HIDE DEF h
<1>3. PICK f : f = Recursion(N, 0, h, f)
  BY <1>1, RecursionExists
<1> HIDE DEF d
<1>4. /\ \A i \in 0 .. N : f[i] \in Int
      /\ \A i \in 1 .. N : f[i] = h[<<i, f[i - 1]>>]
      /\ f[0] = 0
  <2> DEFINE Good == [i \in 0 .. N |-> Int]
  <2>1. 0 \in Good[0] /\ \A i \in 1 .. N : \A x \in Good[i - 1] : h[<<i, x>>] \in Good[i]
    BY <1>1, <1>2
  <2>2. \A i \in 0 .. N : Good[i] = Int
    OBVIOUS
  <2> HIDE DEF Good, N
  <2>3. /\ \A i \in 0 .. N : f[i] \in Good[i]
        /\ f[0] = 0
        /\ \A i \in 1 .. N : f[i] = h[<<i, f[i - 1]>>]
    BY <1>1, <1>3, <2>1, RecursionStays
  <2> QED
    BY <2>2, <2>3
<1>5. f = Steps(f)
  <2>1. \A i \in 0 .. N : f[i] = IF i = 0 THEN 0 ELSE f[i - 1] + d[i]
    <3>1. \A i \in 1 .. N : f[i - 1] \in Int
      BY <1>1, <1>4
    <3>2. \A i \in 1 .. N : f[i] = f[i - 1] + d[i]
      BY <1>2, <1>4, <3>1
    <3> QED
      BY <1>1, <1>4, <3>2
  <2>2. f = [i \in 0 .. N |-> f[i]]
    BY <1>3 DEF Recursion
  <2> QED
    BY <2>1, <2>2
<1>6. passed = Steps(passed)
  <2> HIDE DEF Steps
  <2> QED
    BY <1>5
<1>7. \A i \in Int : Passed(gate, i) = passed[i]
  BY DEF Passed, d
<1> HIDE DEF passed
<1>8. /\ passed[0] = 0
      /\ \A i \in 1 .. N : passed[i] = passed[i - 1] + d[i]
  BY <1>1, <1>6
<1>9. \A i \in 0 .. N : passed[i] \in Int
  <2> DEFINE T == {i \in Nat : i \in 0 .. N => passed[i] \in Int}
  <2>1. 0 \in T
    BY <1>8
  <2>2. ASSUME NEW i \in Nat, i \in T
        PROVE  i + 1 \in T
    BY <1>1, <1>8, <2>2
  <2> HIDE DEF T
  <2>3. Nat \subseteq T
    BY <2>1, <2>2, InductionOnNaturals
  <2> QED
    BY <2>3 DEF T
<1>10. /\ Passed(gate, 0) = 0
       /\ \A i \in 1 .. N : Passed(gate, i) = Passed(gate, i - 1) + d[i]
       /\ \A i \in 0 .. N : Passed(gate, i) \in Int
  <2>1. Passed(gate, 0) = 0
    BY <1>7, <1>8
  <2>2. ASSUME NEW i \in 1 .. N
        PROVE  Passed(gate, i) = Passed(gate, i - 1) + d[i]
    <3>1. i \in Int /\ i - 1 \in Int
      BY <1>1
    <3>2. Passed(gate, i) = passed[i] /\ Passed(gate, i - 1) = passed[i - 1]
      BY <1>7, <3>1
    <3> QED
      BY <3>2, <1>8
  <2>3. ASSUME NEW i \in 0 .. N
        PROVE  Passed(gate, i) \in Int
    BY <1>1, <1>7, <1>9
  <2> QED
    BY <2>1, <2>2, <2>3
<1> QED
  BY <1>10 DEF d

\* Of two gates whose durations agree but for the first one.
LEMMA PassedIsShifted ==
  ASSUME NEW g, g.durations \in Seq(Int), NEW h, h.durations \in Seq(Int),
         NEW m \in Nat, m <= Len(g.durations), m <= Len(h.durations), NEW s \in Int,
         h.durations[1] = g.durations[1] + s,
         \A i \in 2 .. m : h.durations[i] = g.durations[i]
  PROVE  \A i \in 1 .. m : Passed(h, i) = Passed(g, i) + s
<1>1. /\ Passed(g, 0) = 0 /\ Passed(h, 0) = 0
      /\ \A i \in 1 .. m : /\ Passed(g, i) = Passed(g, i - 1) + g.durations[i]
                           /\ Passed(h, i) = Passed(h, i - 1) + h.durations[i]
                           /\ g.durations[i] \in Int
      /\ \A i \in 0 .. m : Passed(g, i) \in Int
  <2>1. /\ Len(g.durations) \in Nat /\ Len(h.durations) \in Nat
        /\ \A i \in 1 .. m : i \in 1 .. Len(g.durations) /\ i \in 1 .. Len(h.durations)
        /\ \A i \in 0 .. m : i \in 0 .. Len(g.durations)
    OBVIOUS
  <2>2. \A i \in 1 .. m : g.durations[i] \in Int
    BY <2>1
  <2>3. /\ Passed(g, 0) = 0
        /\ \A i \in 1 .. Len(g.durations) : Passed(g, i) = Passed(g, i - 1) + g.durations[i]
        /\ \A i \in 0 .. Len(g.durations) : Passed(g, i) \in Int
    BY PassedSums
  <2>4. /\ Passed(h, 0) = 0
        /\ \A i \in 1 .. Len(h.durations) : Passed(h, i) = Passed(h, i - 1) + h.durations[i]
    BY PassedSums
  <2> QED
    BY <2>1, <2>2, <2>3, <2>4
<1> DEFINE T == {i \in Nat : i + 1 \in 1 .. m => Passed(h, i + 1) = Passed(g, i + 1) + s}
<1>2. 0 \in T
  BY <1>1
<1>3. ASSUME NEW i \in Nat, i \in T
      PROVE  i + 1 \in T
  <2> SUFFICES ASSUME (i + 1) + 1 \in 1 .. m
               PROVE  Passed(h, (i + 1) + 1) = Passed(g, (i + 1) + 1) + s
    OBVIOUS
  <2>1. PICK j \in 1 .. m : j = (i + 1) + 1 /\ j - 1 = i + 1 /\ i + 1 \in 1 .. m /\ j # 1
    OBVIOUS
  <2>2. Passed(h, j - 1) = Passed(g, j - 1) + s
    BY <1>3, <2>1
  <2>3. h.durations[j] = g.durations[j]
    BY <1>1, <2>1
  <2>4. j - 1 \in 0 .. m
    BY <2>1
  <2>5. PICK p \in Int, d \in Int : p = Passed(g, j - 1) /\ d = g.durations[j]
    BY <1>1, <2>4
  <2>6. Passed(g, j) = p + d /\ Passed(h, j) = (p + s) + d
    BY <1>1, <2>2, <2>3, <2>5
  <2> QED
    BY <2>1, <2>5, <2>6
<1> HIDE DEF T
<1>4. Nat \subseteq T
  BY <1>2, <1>3, InductionOnNaturals
<1>5. ASSUME NEW i \in 1 .. m
      PROVE  Passed(h, i) = Passed(g, i) + s
  <2>1. i - 1 \in Nat /\ i - 1 \in T /\ (i - 1) + 1 = i
    BY <1>4
  <2> QED
    BY <2>1 DEF T
<1> QED
  BY <1>5

-----------------------------------------------------------------------------
(* Gates. *)

\* The gate is open when x has passed of its durations.
OpenAt(gate, x) ==
  \E i \in 1 .. Len(gate.durations) :
    i % 2 = 0 /\ Passed(gate, i - 1) <= x /\ x < Passed(gate, i)

\* A gate before extend_to.
IsGate(gate) ==
  /\ gate.durations \in Seq(Int)
  /\ Len(gate.durations) % 2 = 0
  /\ gate.offset = Passed(gate, Len(gate.durations))
  /\ \A i \in 1 .. Len(gate.durations) : i % 2 = 0 => Passed(gate, i - 1) <= Passed(gate, i)

LEMMA NewGateIsClosed == IsGate(NewGate) /\ \A x \in Int : ~OpenAt(NewGate, x)
<1>1. NewGate.durations = <<>> /\ NewGate.offset = 0 /\ NewGate.durations \in Seq(Int)
  BY DEF NewGate
<1>2. Len(NewGate.durations) = 0
  BY <1>1
<1>3. Passed(NewGate, 0) = 0
  BY <1>1, PassedSums
<1> QED
  BY <1>1, <1>2, <1>3 DEF IsGate, OpenAt

\* Gates whose first durations agree have passed the same.
LEMMA PassedAgrees ==
  ASSUME NEW g, g.durations \in Seq(Int), NEW h, h.durations \in Seq(Int),
         NEW m \in Nat, m <= Len(g.durations), m <= Len(h.durations),
         \A i \in 1 .. m : h.durations[i] = g.durations[i]
  PROVE  \A i \in 0 .. m : Passed(h, i) = Passed(g, i) /\ Passed(g, i) \in Int
<1>1. \A i \in 0 .. m : Passed(g, i) \in Int
  <2>1. \A i \in 0 .. m : i \in 0 .. Len(g.durations)
    OBVIOUS
  <2> QED
    BY <2>1, PassedSums
<1>2. PICK s \in Int : s = 0
  OBVIOUS
<1>3. \A i \in 1 .. m : Passed(h, i) = Passed(g, i) + s
  <2>1. CASE m = 0
    BY <2>1
  <2>2. CASE m # 0
    <3>1. 1 \in 1 .. m /\ g.durations[1] \in Int /\ \A i \in 2 .. m : i \in 1 .. m
      BY <2>2
    <3>2. h.durations[1] = g.durations[1] + s
      BY <3>1, <1>2
    <3>3. \A i \in 2 .. m : h.durations[i] = g.durations[i]
      BY <3>1
    <3> QED
      BY <3>2, <3>3, PassedIsShifted
  <2> QED
    BY <2>1, <2>2
<1>4. Passed(h, 0) = 0 /\ Passed(g, 0) = 0
  BY PassedSums
<1> QED
  BY <1>1, <1>2, <1>3, <1>4

\* operator+= for an interval that begins where the gate has closed last.
LEMMA IntervalIsMerged ==
  ASSUME NEW g, IsGate(g), NEW a \in Int, NEW b \in Int, a <= b,
         a = g.offset, Len(g.durations) > 0, NEW h, h = AddInterval(g, a, b)
  PROVE  /\ IsGate(h) /\ h.offset = b /\ Len(h.durations) > 0
         /\ \A x \in Int : OpenAt(h, x) <=> OpenAt(g, x) \/ (a <= x /\ x < b)
<1>1. /\ g.durations \in Seq(Int) /\ Len(g.durations) % 2 = 0
      /\ g.offset = Passed(g, Len(g.durations))
      /\ \A i \in 1 .. Len(g.durations) : i % 2 = 0 => Passed(g, i - 1) <= Passed(g, i)
  BY DEF IsGate
<1>2. PICK n \in Nat : n = Len(g.durations) /\ n > 0
  BY <1>1
<1>3. n % 2 = 0
  BY <1>1, <1>2, Zenon
<1>4. h = [durations |-> [g.durations EXCEPT ![n] = g.durations[n] + (b - a)], offset |-> b]
  BY <1>2 DEF AddInterval
<1>5. /\ h.offset = b /\ h.durations \in Seq(Int) /\ Len(h.durations) = n
      /\ h.durations[n] = g.durations[n] + (b - a)
      /\ \A i \in 1 .. n - 1 : h.durations[i] = g.durations[i]
      /\ g.durations[n] \in Int
  BY <1>1, <1>2, <1>4
<1>6. \A i \in 0 .. n - 1 : Passed(h, i) = Passed(g, i) /\ Passed(g, i) \in Int
  <2>1. n - 1 \in Nat /\ n - 1 <= Len(g.durations) /\ n - 1 <= Len(h.durations)
    BY <1>2, <1>5
  <2> QED
    BY <2>1, <1>1, <1>5, PassedAgrees, ZenonT(30)
<1>7. /\ Passed(g, n) = Passed(g, n - 1) + g.durations[n]
      /\ Passed(h, n) = Passed(h, n - 1) + h.durations[n]
  <2>1. n \in 1 .. Len(g.durations) /\ n \in 1 .. Len(h.durations)
    BY <1>2, <1>5
  <2> QED
    BY <2>1, <1>1, <1>5, PassedSums
<1>8. PICK p \in Int : p = Passed(g, n - 1)
  BY <1>2, <1>6
<1>9. /\ Passed(g, n) = a /\ Passed(h, n) = b /\ Passed(h, n - 1) = p /\ p <= a
  <2>1. Passed(h, n - 1) = p
    BY <1>2, <1>6, <1>8
  <2>2. Passed(g, n) = a
    BY <1>1, <1>2
  <2>3. p <= Passed(g, n)
    <3>1. n \in 1 .. Len(g.durations)
      BY <1>2
    <3> QED
      BY <3>1, <1>1, <1>3, <1>8
  <2>4. PICK d \in Int : d = g.durations[n]
    BY <1>5
  <2>5. h.durations[n] = d + (b - a) /\ Passed(g, n) = p + d
    BY <2>4, <1>5, <1>7, <1>8
  <2>6. Passed(h, n) = p + (d + (b - a)) /\ a = p + d
    BY <2>1, <2>2, <2>5, <1>7
  <2>7. Passed(h, n) = b
    BY <2>6
  <2> QED
    BY <2>1, <2>2, <2>3, <2>7
<1>10. IsGate(h)
  <2>1. ASSUME NEW i \in 1 .. n, i % 2 = 0
        PROVE  Passed(h, i - 1) <= Passed(h, i)
    <3>1. CASE i = n
      BY <3>1, <1>8, <1>9
    <3>2. CASE i # n
      <4>1. i \in 0 .. n - 1 /\ i - 1 \in 0 .. n - 1 /\ i \in 1 .. Len(g.durations)
        BY <3>2, <1>2
      <4> QED
        BY <4>1, <2>1, <1>1, <1>6
    <3> QED
      BY <3>1, <3>2
  <2> QED
    BY <2>1, <1>2, <1>3, <1>5, <1>9 DEF IsGate
<1>11. ASSUME NEW x \in Int
       PROVE  OpenAt(h, x) <=> OpenAt(g, x) \/ (a <= x /\ x < b)
  <2>1. \A i \in 1 .. n - 1 : /\ Passed(h, i) = Passed(g, i)
                              /\ Passed(h, i - 1) = Passed(g, i - 1)
    BY <1>6
  <2>2. \A i \in 1 .. n : i = n \/ i \in 1 .. n - 1
    OBVIOUS
  <2>3. n \in 1 .. n
    BY <1>2
  <2>4. /\ OpenAt(h, x) <=> \/ \E i \in 1 .. n - 1 : /\ i % 2 = 0
                                                     /\ Passed(h, i - 1) <= x /\ x < Passed(h, i)
                            \/ Passed(h, n - 1) <= x /\ x < Passed(h, n)
        /\ OpenAt(g, x) <=> \/ \E i \in 1 .. n - 1 : /\ i % 2 = 0
                                                     /\ Passed(g, i - 1) <= x /\ x < Passed(g, i)
                            \/ Passed(g, n - 1) <= x /\ x < Passed(g, n)
    <3>1. OpenAt(h, x) <=> \E i \in 1 .. n : /\ i % 2 = 0
                                            /\ Passed(h, i - 1) <= x /\ x < Passed(h, i)
      BY <1>5, Zenon DEF OpenAt
    <3>2. OpenAt(g, x) <=> \E i \in 1 .. n : /\ i % 2 = 0
                                            /\ Passed(g, i - 1) <= x /\ x < Passed(g, i)
      BY <1>2, Zenon DEF OpenAt
    <3>3. \A i \in 1 .. n - 1 : i \in 1 .. n
      OBVIOUS
    <3> QED
      BY <3>1, <3>2, <3>3, <2>2, <2>3, <1>3, Zenon
  <2>5. (p <= x /\ x < b) <=> (p <= x /\ x < a) \/ (a <= x /\ x < b)
    BY <1>8, <1>9
  <2> QED
    BY <2>1, <2>4, <2>5, <1>8, <1>9
<1> QED
  BY <1>2, <1>5, <1>10, <1>11

\* operator+= for any other interval.
LEMMA IntervalIsAppended ==
  ASSUME NEW g, IsGate(g), NEW a \in Int, NEW b \in Int, a <= b,
         ~(a = g.offset /\ Len(g.durations) > 0), NEW h, h = AddInterval(g, a, b)
  PROVE  /\ IsGate(h) /\ h.offset = b /\ Len(h.durations) > 0
         /\ \A x \in Int : OpenAt(h, x) <=> OpenAt(g, x) \/ (a <= x /\ x < b)
<1>1. /\ g.durations \in Seq(Int) /\ Len(g.durations) % 2 = 0
      /\ g.offset = Passed(g, Len(g.durations))
      /\ \A i \in 1 .. Len(g.durations) : i % 2 = 0 => Passed(g, i - 1) <= Passed(g, i)
  BY DEF IsGate
<1>2. PICK n \in Nat : n = Len(g.durations)
  BY <1>1
<1>3. n % 2 = 0
  BY <1>1, <1>2, Zenon
<1>4. PICK f \in Int : f = g.offset /\ f = Passed(g, n)
  <2>1. n \in 0 .. Len(g.durations)
    BY <1>2
  <2> QED
    BY <2>1, <1>1, <1>2, PassedSums
<1>5. h = [durations |-> g.durations \o <<a - f, b - a>>, offset |-> b]
  BY <1>2, <1>4 DEF AddInterval
<1>6. /\ h.offset = b /\ h.durations \in Seq(Int) /\ Len(h.durations) = n + 2
      /\ h.durations[n + 1] = a - f /\ h.durations[n + 2] = b - a
      /\ \A i \in 1 .. n : h.durations[i] = g.durations[i]
  BY <1>1, <1>2, <1>5
<1>7. \A i \in 0 .. n : Passed(h, i) = Passed(g, i) /\ Passed(g, i) \in Int
  <2>1. n <= Len(g.durations) /\ n <= Len(h.durations)
    BY <1>2, <1>6
  <2> QED
    BY <2>1, <1>1, <1>6, PassedAgrees
<1>8. Passed(h, n + 1) = a /\ Passed(h, n + 2) = b
  <2>1. /\ n + 1 \in 1 .. Len(h.durations) /\ n + 2 \in 1 .. Len(h.durations)
        /\ (n + 1) - 1 = n /\ (n + 2) - 1 = n + 1
    BY <1>6
  <2>2. /\ Passed(h, n + 1) = Passed(h, n) + h.durations[n + 1]
        /\ Passed(h, n + 2) = Passed(h, n + 1) + h.durations[n + 2]
    BY <2>1, <1>6, PassedSums
  <2>3. Passed(h, n) = f
    BY <1>2, <1>4, <1>7
  <2> QED
    BY <2>2, <2>3, <1>6
<1>9. (n + 1) % 2 # 0 /\ (n + 2) % 2 = 0
  BY <1>3
<1>10. /\ \A i \in 1 .. n + 2 : i \in 1 .. n \/ i = n + 1 \/ i = n + 2
      /\ n + 1 \in 1 .. n + 2 /\ n + 2 \in 1 .. n + 2 /\ (n + 2) - 1 = n + 1
      /\ \A i \in 1 .. n : i \in 1 .. n + 2 /\ i \in 0 .. n /\ i - 1 \in 0 .. n
  OBVIOUS
<1>11. IsGate(h)
  <2>1. \A i \in 1 .. n : i % 2 = 0 => Passed(h, i - 1) <= Passed(h, i)
    BY <1>1, <1>2, <1>7, <1>10
  <2>2. \A i \in 1 .. n + 2 : i % 2 = 0 => Passed(h, i - 1) <= Passed(h, i)
    BY <2>1, <1>8, <1>10, <1>9
  <2> QED
    BY <2>2, <1>6, <1>8, <1>9 DEF IsGate
<1>12. ASSUME NEW x \in Int
       PROVE  OpenAt(h, x) <=> OpenAt(g, x) \/ (a <= x /\ x < b)
  <2>1. \A i \in 1 .. n : /\ Passed(h, i) = Passed(g, i)
                          /\ Passed(h, i - 1) = Passed(g, i - 1)
    BY <1>7, <1>10
  <2>2. OpenAt(h, x) <=> \/ \E i \in 1 .. n : /\ i % 2 = 0
                                              /\ Passed(h, i - 1) <= x /\ x < Passed(h, i)
                         \/ Passed(h, n + 1) <= x /\ x < Passed(h, n + 2)
    <3>1. OpenAt(h, x) <=> \E i \in 1 .. n + 2 : /\ i % 2 = 0
                                                /\ Passed(h, i - 1) <= x /\ x < Passed(h, i)
      BY <1>6, Zenon DEF OpenAt
    <3> QED
      BY <3>1, <1>10, <1>9, Zenon
  <2>3. OpenAt(g, x) <=> \E i \in 1 .. n : /\ i % 2 = 0
                                           /\ Passed(g, i - 1) <= x /\ x < Passed(g, i)
    BY <1>2 DEF OpenAt
  <2> QED
    BY <2>1, <2>2, <2>3, <1>8
<1> QED
  BY <1>6, <1>12, <1>11

\* operator+=.
LEMMA IntervalIsAdded ==
  ASSUME NEW g, IsGate(g), NEW a \in Int, NEW b \in Int, a <= b,
         NEW h, h = AddInterval(g, a, b)
  PROVE  /\ IsGate(h) /\ h.offset = b /\ Len(h.durations) > 0
         /\ \A x \in Int : OpenAt(h, x) <=> OpenAt(g, x) \/ (a <= x /\ x < b)
<1>1. CASE a = g.offset /\ Len(g.durations) > 0
  BY <1>1, IntervalIsMerged
<1>2. CASE ~(a = g.offset /\ Len(g.durations) > 0)
  BY <1>2, IntervalIsAppended
<1> QED
  BY <1>1, <1>2

\* extend_to: the first duration is longer, and so is what has passed at time 0.
IsExtended(h, g, s) ==
  /\ h.offset = s /\ h.durations \in Seq(Int) /\ Len(h.durations) = Len(g.durations)
  /\ h.durations[1] = g.durations[1] + s
  /\ \A i \in 2 .. Len(g.durations) : h.durations[i] = g.durations[i]

LEMMA GateIsExtended ==
  ASSUME NEW g, IsGate(g), Len(g.durations) > 0, NEW c \in Nat \ {0}
  PROVE  IsExtended(extend_to(g, c), g, c - g.offset) /\ g.offset \in Int
<1>1. g.durations \in Seq(Int) /\ g.offset = Passed(g, Len(g.durations))
  BY DEF IsGate
<1>2. PICK n \in Nat : n = Len(g.durations) /\ n > 0
  BY <1>1
<1>3. g.offset \in Int
  BY <1>1, <1>2, PassedSums
<1>4. PICK s \in Int : s = c - g.offset
  BY <1>3
<1>5. extend_to(g, c) = [durations |-> [g.durations EXCEPT ![1] = g.durations[1] + s], offset |-> s]
  BY <1>4 DEF extend_to
<1>6. 1 \in 1 .. n /\ \A i \in 1 .. n : g.durations[i] \in Int
  BY <1>1, <1>2
<1>7. IsExtended(extend_to(g, c), g, s)
  BY <1>1, <1>2, <1>5, <1>6 DEF IsExtended
<1> QED
  BY <1>3, <1>4, <1>7

LEMMA PassedIsLonger ==
  ASSUME NEW g, g.durations \in Seq(Int), NEW s \in Int, NEW h, IsExtended(h, g, s)
  PROVE  \A i \in 1 .. Len(g.durations) : Passed(h, i) = Passed(g, i) + s
<1>1. /\ h.durations \in Seq(Int) /\ Len(h.durations) = Len(g.durations)
      /\ h.durations[1] = g.durations[1] + s
      /\ \A i \in 2 .. Len(g.durations) : h.durations[i] = g.durations[i]
  BY DEF IsExtended
<1>2. PICK n \in Nat : n = Len(g.durations)
  OBVIOUS
<1>3. n <= Len(g.durations) /\ n <= Len(h.durations)
  BY <1>1, <1>2
<1> QED
  BY <1>1, <1>2, <1>3, PassedIsShifted

\* The time at which a gate that has closed at f last is in the state that it
\* is in at t after it has been extended to c.
Elapsed(t, f, c) == ((t + (c - f)) % c) - (c - f)

\* What is open is open again in every cycle.
LEMMA GateIsRepeated ==
  ASSUME NEW g, IsGate(g), Len(g.durations) > 0, NEW c \in Nat \ {0}, NEW f \in Int, f = g.offset,
         NEW h, IsExtended(h, g, c - f)
  PROVE  \A t \in Int : IsOpen(h, t) <=> OpenAt(g, Elapsed(t, f, c))
<1>1. /\ g.durations \in Seq(Int) /\ Len(g.durations) % 2 = 0
      /\ g.offset = Passed(g, Len(g.durations))
  BY DEF IsGate
<1>2. PICK n \in Nat : n = Len(g.durations) /\ n > 0
  BY <1>1
<1>3. PICK s \in Int : s = c - f
  OBVIOUS
<1>4. IsExtended(h, g, s)
  BY <1>3
<1>5. /\ h.offset = s /\ h.durations \in Seq(Int) /\ Len(h.durations) = n
      /\ h.durations[1] = g.durations[1] + s
      /\ \A i \in 2 .. n : h.durations[i] = g.durations[i]
  BY <1>2, <1>4 DEF IsExtended
<1>6. \A i \in 1 .. n : Passed(h, i) = Passed(g, i) + s
  BY <1>1, <1>2, <1>4, PassedIsLonger
<1>7. Passed(h, Len(h.durations)) = c
  <2>1. Passed(h, n) = f + s
    BY <1>1, <1>2, <1>6
  <2> QED
    BY <2>1, <1>3, <1>5
<1>8. ASSUME NEW t \in Int
      PROVE  IsOpen(h, t) <=> OpenAt(g, Elapsed(t, f, c))
  <2>1. PICK y \in Int : y = (t + s) % c
    BY <1>3, Remainders
  <2>2. IsOpen(h, t) <=> \E i \in 1 .. n : /\ i % 2 = 0
                                           /\ Passed(h, i - 1) <= y /\ y < Passed(h, i)
    BY <2>1, <1>5, <1>7, Zenon DEF IsOpen
  <2>3. OpenAt(g, y - s) <=> \E i \in 1 .. n : /\ i % 2 = 0
                                               /\ Passed(g, i - 1) <= y - s /\ y - s < Passed(g, i)
    BY <1>2, Zenon DEF OpenAt
  <2>4. ASSUME NEW i \in 1 .. n, i % 2 = 0
        PROVE  /\ Passed(h, i - 1) <= y <=> Passed(g, i - 1) <= y - s
               /\ y < Passed(h, i) <=> y - s < Passed(g, i)
    <3>1. i # 1
      BY <2>4
    <3>2. i - 1 \in 1 .. n /\ i \in 0 .. Len(g.durations) /\ i - 1 \in 0 .. Len(g.durations)
      BY <3>1, <1>2
    <3>3. PICK p \in Int, q \in Int : p = Passed(g, i - 1) /\ q = Passed(g, i)
      BY <3>2, <1>1, PassedSums
    <3>4. Passed(h, i - 1) = p + s /\ Passed(h, i) = q + s
      BY <3>2, <3>3, <1>6
    <3> QED
      BY <3>3, <3>4
  <2>5. IsOpen(h, t) <=> OpenAt(g, y - s)
    BY <2>2, <2>3, <2>4, Zenon
  <2> QED
    BY <2>1, <2>5, <1>3 DEF Elapsed
<1> QED
  BY <1>8

\* A window that ends by the time the gate is closed for the rest of a cycle.
IsRepeated(a, b, c, t) == (t - a) % c < b - a

LEMMA WindowIsRepeated ==
  ASSUME NEW c \in Nat \ {0}, NEW f \in Int, NEW a \in Int, NEW b \in Int,
         f - c <= a, a <= b, b <= f, NEW t \in Int, NEW x \in Int, x = Elapsed(t, f, c)
  PROVE  (a <= x /\ x < b) <=> IsRepeated(a, b, c, t)
<1>1. PICK y \in Int, p \in Int :
        /\ y = (t + (c - f)) % c /\ 0 <= y /\ y < c
        /\ t + (c - f) = c * p + y
  <2>1. t + (c - f) \in Int
    OBVIOUS
  <2> QED
    BY <2>1, Remainders
<1>2. x = y - (c - f) /\ t = c * p + x /\ f - c <= x /\ x < f
  BY <1>1 DEF Elapsed
<1>3. CASE a <= x
  <2>1. t - a = c * p + (x - a) /\ 0 <= x - a /\ x - a < c
    BY <1>2, <1>3
  <2>2. (t - a) % c = x - a
    <3>1. t - a \in Int /\ x - a \in Int
      OBVIOUS
    <3> QED
      BY <2>1, <3>1, RemainderIs, Zenon
  <2> QED
    BY <2>2, <1>3 DEF IsRepeated
<1>4. CASE x < a
  <2>1. t - a = c * (p - 1) + (x - a + c) /\ 0 <= x - a + c /\ x - a + c < c
    <3>1. c * (p - 1) = c * p - c
      OBVIOUS
    <3>2. PICK m \in Int : m = c * p
      OBVIOUS
    <3>3. t = m + x
      BY <3>2, <1>2
    <3>4. t - a = (m - c) + (x - a + c)
      BY <3>3
    <3>5. 0 <= x - a + c
      BY <1>2
    <3>6. x - a + c < c
      BY <1>4
    <3> QED
      BY <3>1, <3>2, <3>4, <3>5, <3>6
  <2>2. (t - a) % c = x - a + c
    <3>1. t - a \in Int /\ p - 1 \in Int /\ x - a + c \in Int
      OBVIOUS
    <3> QED
      BY <2>1, <3>1, RemainderIs, Zenon
  <2>3. x - a + c >= b - a
    BY <1>2
  <2>4. ~(x - a + c < b - a)
    BY <2>3
  <2> QED
    BY <2>2, <2>4, <1>4 DEF IsRepeated
<1> QED
  BY <1>3, <1>4
-----------------------------------------------------------------------------
(* What is finished keeps its window. *)

\* An edge only changes its target.
LEMMA OthersStay ==
  ASSUME edges \in Graphs, mk \in [Vertex -> Window], crit_cost \in [Vertex -> Cost],
         NEW v \in Vertex, NEW j \in 1 .. Len(edges[v]), NEW w \in Vertex, w # v
  PROVE  /\ Relaxed(crit_cost, edges[v][j])[w] = crit_cost[w]
         /\ EdgeFinished(edges[v][j])[w] = mk[w]
<1>1. PICK edge \in Edge : /\ edge = edges[v][j] /\ edge.target = v
                           /\ edge.edge_type \in {"FIFO", "MACHINE", "JOB"}
                           /\ edge.edge_type # "JOB" => edge.source \in Operation /\ v \in Operation
  BY EdgesOfGraph, EdgeAssumption DEF Edge
<1>2. Relaxed(crit_cost, edge)[w] = crit_cost[w]
  BY <1>1 DEF Relaxed
<1>3. \A time : Deferred(v, time)[w] = mk[w]
  BY DEF Deferred
<1>4. CASE edge.edge_type = "FIFO"
  BY <1>1, <1>2, <1>3, <1>4 DEF EdgeFinished, fault_isolation
<1>5. CASE edge.edge_type = "MACHINE"
  <2>1. op[edge.source].pcp \in Int /\ op[v].pcp \in Int
    BY <1>1, <1>5, EdgeAssumption
  <2>2. CASE op[edge.source].pcp <= op[v].pcp
    <3>1. EdgeFinished(edge) = deferment(edge.source, v)
      BY <1>1, <1>5, <2>1, <2>2 DEF EdgeFinished
    <3>2. deferment(edge.source, v)[w] = mk[w]
      <4>1. CASE op[edge.source].pcp < op[v].pcp
        BY <4>1, <1>3, Zenon DEF deferment
      <4>2. CASE ~(op[edge.source].pcp < op[v].pcp)
        BY <4>2, <1>3, Zenon DEF deferment
      <4> QED
        BY <4>1, <4>2
    <3> QED
      BY <3>1, <3>2, <1>1, <1>2
  <2>3. CASE op[edge.source].pcp > op[v].pcp
    BY <1>1, <1>2, <1>5, <2>1, <2>3, SMTT(30) DEF EdgeFinished, update_prolongation
  <2> QED
    BY <2>1, <2>2, <2>3
<1>6. CASE edge.edge_type = "JOB"
  BY <1>1, <1>2, <1>3, <1>6 DEF EdgeFinished, sequential_transmission
<1> QED
  BY <1>1, <1>4, <1>5, <1>6

\* Only vertices that are not finished are discovered or the target of an edge.
LEMMA FinishedStay ==
  ASSUME TSNInv, [TSNNext]_tsn_vars, pc # "idle", NEW w \in Black
  PROVE  /\ crit_cost'[w] = crit_cost[w] /\ mk'[w] = mk[w]
         /\ w \in Black' /\ before'[w] = before[w]
<1>1. /\ edges \in Graphs /\ TypeOK /\ CPInv
      /\ color \in [Vertex -> {WHITE, GRAY, BLACK}]
      /\ before \in [Vertex -> SUBSET Vertex]
      /\ crit_cost \in [Vertex -> Cost] /\ mk \in [Vertex -> Window]
      /\ w \in Vertex /\ color[w] = BLACK
  BY DEF TSNInv, CPInv, IInv, TypeOK, MKInv, Black
<1>2. CASE TSNPop
  <2>1. /\ Pop /\ pc = "pop" /\ status = CONTINUE /\ stack # <<>> /\ UNCHANGED <<color, before>>
        /\ crit_cost' = IF stack[Len(stack)].tree_edge = NoEdge THEN crit_cost
                        ELSE Relaxed(crit_cost, stack[Len(stack)].tree_edge)
        /\ mk' = mk \/ mk' = IF stack[Len(stack)].tree_edge = NoEdge THEN mk
                             ELSE EdgeFinished(stack[Len(stack)].tree_edge)
    BY <1>2 DEF TSNPop, OnPop, Pop, Extended, MKFinishEdge, mk_vars
  <2>2. /\ TreeEdgesArePending
        /\ \A i \in 1 .. Depth : At(i).op \in Vertex /\ color[At(i).op] = GRAY
    BY <2>1, <1>1, PathIsTyped DEF CONTINUE, ABORT
  <2>3. /\ stack \in Seq(State) /\ Len(stack) \in Nat \ {0} /\ Depth = Len(stack)
        /\ \A i \in 1 .. Depth : At(i) = stack[i]
    BY <2>1, <1>1 DEF Depth, At, TypeOK
  <2>4. PICK n \in 1 .. Len(stack) : n = Len(stack)
    BY <2>3
  <2>5. PICK v \in Vertex : v = stack[n].op /\ color[v] = GRAY
    BY <2>2, <2>3, <2>4
  <2>6. v # w
    BY <2>5, <1>1 DEF GRAY, BLACK
  <2>7. CASE stack[n].it = 1
    <3>1. stack[n].tree_edge = NoEdge
      BY <2>2, <2>7 DEF TreeEdgesArePending
    <3> QED
      BY <3>1, <2>1, <2>4, <1>1 DEF Black
  <2>8. CASE stack[n].it # 1
    <3>1. stack[n].tree_edge = edges[v][stack[n].it - 1]
      BY <2>2, <2>5, <2>8 DEF TreeEdgesArePending
    <3>2. stack[n].it - 1 \in 1 .. Len(edges[v])
      <4>1. stack[n] \in State /\ stack[n].it <= Len(edges[v]) + 1
        BY <2>3, <2>5, <1>1 DEF TypeOK
      <4>2. stack[n].it \in Nat \ {0} /\ Len(edges[v]) \in Nat
        BY <4>1, <1>1, EdgesOfGraph DEF State
      <4> QED
        BY <4>1, <4>2, <2>8
    <3>3. PICK j \in 1 .. Len(edges[v]) : stack[n].tree_edge = edges[v][j]
      BY <3>1, <3>2
    <3>4. edges[v][j] # NoEdge
      BY <1>1, EdgesOfGraph, NoEdgeIsNoEdge
    <3>5. /\ Relaxed(crit_cost, edges[v][j])[w] = crit_cost[w]
          /\ EdgeFinished(edges[v][j])[w] = mk[w]
      BY <1>1, <2>6, OthersStay
    <3> QED
      BY <3>3, <3>4, <3>5, <2>1, <2>4, <1>1 DEF Black
  <2> QED
    BY <2>7, <2>8
<1>3. CASE TSNTreeEdge
  <2>1. /\ color[e.source] = WHITE /\ color' = [color EXCEPT ![e.source] = GRAY]
        /\ crit_cost' = Discovered(crit_cost, e.source)
        /\ mk' = mk \/ mk' = VertexDiscovered(e.source)
        /\ UNCHANGED before
    BY <1>3 DEF TSNTreeEdge, OnTreeEdge, TreeEdge, Extended, MKDiscover, mk_vars
  <2>2. w # e.source
    BY <2>1, <1>1 DEF WHITE, BLACK
  <2> QED
    BY <2>1, <2>2, <1>1 DEF Discovered, VertexDiscovered, Black
<1>4. CASE TSNBackEdge
  BY <1>1, <1>4 DEF TSNBackEdge, OnBackEdge, BackEdge, mk_vars, Black
<1>5. CASE TSNCrossEdge
  <2>1. /\ pc = "visit" /\ ~AtEnd /\ status = CONTINUE /\ UNCHANGED <<color, before>>
        /\ crit_cost' = Relaxed(crit_cost, e)
        /\ mk' = mk \/ mk' = IF e = NoEdge THEN mk ELSE EdgeFinished(e)
    BY <1>5 DEF TSNCrossEdge, OnCrossEdge, CrossEdge, Extended, MKFinishEdge, mk_vars
  <2>2. /\ next.op \in Vertex /\ next.it \in 1 .. Len(edges[next.op])
        /\ e \in Edge
    BY <2>1, <1>1, EdgeAtHand
  <2>3. color[next.op] = GRAY
    <3>1. Path /\ \A i \in 1 .. Depth : color[At(i).op] = GRAY
      BY <2>1, <1>1, PathIsTyped DEF CONTINUE, ABORT
    <3>2. Depth = Len(stack) + 1 /\ Len(stack) \in Nat
      BY <2>1, <1>1, DepthType DEF Depth, TypeOK
    <3>3. Depth \in 1 .. Depth /\ At(Depth) = next
      BY <3>2 DEF At
    <3> QED
      BY <3>1, <3>3
  <2>4. PICK v \in Vertex : v = next.op /\ next.it \in 1 .. Len(edges[v]) /\ e = edges[v][next.it]
    BY <2>2 DEF e
  <2>5. v # w
    BY <2>3, <2>4, <1>1 DEF GRAY, BLACK
  <2>6. /\ Relaxed(crit_cost, e)[w] = crit_cost[w]
        /\ EdgeFinished(e)[w] = mk[w]
    BY <2>4, <2>5, <1>1, OthersStay
  <2> QED
    BY <2>1, <2>6, <1>1 DEF Black
<1>6. CASE TSNFinishVertex
  <2>1. /\ pc = "visit" /\ status = CONTINUE /\ UNCHANGED crit_cost
        /\ color' = [color EXCEPT ![next.op] = BLACK]
        /\ before' = [before EXCEPT ![next.op] = Black]
        /\ mk' = mk \/ \E interval : mk' = [mk EXCEPT ![next.op] = interval]
    BY <1>6 DEF TSNFinishVertex, OnFinishVertex, FinishVertex, Extended, MKFinishVertex, mk_vars
  <2>2. color[next.op] = GRAY
    <3>1. Path /\ \A i \in 1 .. Depth : color[At(i).op] = GRAY
      BY <2>1, <1>1, PathIsTyped DEF CONTINUE, ABORT
    <3>2. Depth = Len(stack) + 1 /\ Len(stack) \in Nat
      BY <2>1, <1>1, DepthType DEF Depth, TypeOK
    <3>3. Depth \in 1 .. Depth /\ At(Depth) = next
      BY <3>2 DEF At
    <3> QED
      BY <3>1, <3>3
  <2>3. next.op # w
    BY <2>2, <1>1 DEF GRAY, BLACK
  <2> QED
    BY <2>1, <2>3, <1>1 DEF Black
<1>7. CASE TSNComplete
  BY <1>1, <1>7 DEF TSNComplete, Complete, mk_vars, Black
<1>8. CASE TSNAbort
  BY <1>1, <1>8 DEF TSNAbort, Destroy, Black
<1>9. CASE UNCHANGED tsn_vars
  BY <1>1, <1>9 DEF tsn_vars, cp_vars, vars, mk_vars, Black
<1>10. ASSUME NEW G \in Graphs, Construct(G)
       PROVE  FALSE
  BY <1>10 DEF Construct
<1> QED
  BY <1>2, <1>3, <1>4, <1>5, <1>6, <1>7, <1>8, <1>9, <1>10 DEF TSNNext
-----------------------------------------------------------------------------
(* The gate of a port, while its operations are finished. *)

Closing(v) == Latest(v) + trans_max(v)

FinishedAt(port) == {v \in Operation \cap Black : Port(v) = port}

\* It is open in the windows of what has been finished, and has closed last
\* when the operation that was finished last has.
IsGateOf(gate, port) ==
  /\ IsGate(gate) /\ Len(gate.durations) > 0
  /\ \A x \in Int : OpenAt(gate, x) <=> \E v \in FinishedAt(port) : Earliest(v) <= x /\ x < Closing(v)
  /\ \E v \in FinishedAt(port) :
       gate.offset = Closing(v) /\ \A w \in FinishedAt(port) \ {v} : w \in before[v]

GatesInv ==
  /\ pc = "idle" /\ status = CONTINUE => Black = {}
  /\ status = CONTINUE =>
       /\ DOMAIN gcl_config = {Port(v) : v \in Operation \cap Black}
       /\ \A port \in DOMAIN gcl_config : IsGateOf(gcl_config[port], port)
  /\ status = COMPLETED =>
       \A port \in DOMAIN gcl_config :
         \E gate : IsGateOf(gate, port) /\ gcl_config[port] = extend_to(gate, cycle)

LEMMA GatesOfConstruct ==
  ASSUME GatesInv, NEW G \in Graphs, Construct(G)
  PROVE  GatesInv'
<1>1. /\ pc = "idle" /\ status = CONTINUE /\ pc' = "pop" /\ status' = CONTINUE
      /\ color' = [v \in Vertex |-> IF v = start THEN GRAY ELSE WHITE]
      /\ gcl_config' = gcl_config
  BY DEF Construct, Start, entries
<1>2. Black = {} /\ Black' = {}
  BY <1>1 DEF GatesInv, Black, WHITE, GRAY, BLACK
<1>3. DOMAIN gcl_config = {}
  BY <1>1, <1>2 DEF GatesInv
<1>4. DOMAIN gcl_config' = {} /\ {Port(v) : v \in Operation \cap Black}' = {}
  BY <1>1, <1>2, <1>3
<1> QED
  BY <1>1, <1>4 DEF GatesInv, CONTINUE, COMPLETED

\* The gate stays that of its port when nothing else is finished there.
LEMMA GateStays ==
  ASSUME TSNInv, [TSNNext]_tsn_vars, pc # "idle", NEW port, NEW gate, IsGateOf(gate, port),
         FinishedAt(port)' = FinishedAt(port)
  PROVE  IsGateOf(gate, port)'
<1>1. \A v \in FinishedAt(port) : v \in Black
  BY DEF FinishedAt
<1>2. \A v \in FinishedAt(port) : /\ Earliest(v)' = Earliest(v) /\ Latest(v)' = Latest(v)
                                  /\ before'[v] = before[v]
  BY <1>1, FinishedStay, FixedStays DEF Earliest, Latest, fixed
<1>3. \A v \in FinishedAt(port) : Closing(v)' = Closing(v)
  BY <1>2 DEF Closing
<1>4. IsGate(gate)' /\ \A x \in Int : OpenAt(gate, x)' = OpenAt(gate, x)
  BY DEF IsGateOf
<1>5. \A x \in Int : (\E v \in FinishedAt(port) : Earliest(v) <= x /\ x < Closing(v))'
                       <=> \E v \in FinishedAt(port) : Earliest(v) <= x /\ x < Closing(v)
  BY <1>2, <1>3
<1>6. \A x \in Int : OpenAt(gate, x)'
                       <=> (\E v \in FinishedAt(port) : Earliest(v) <= x /\ x < Closing(v))'
  BY <1>4, <1>5 DEF IsGateOf
<1>7. (\E v \in FinishedAt(port) :
         gate.offset = Closing(v) /\ \A w \in FinishedAt(port) \ {v} : w \in before[v])'
  BY <1>2, <1>3 DEF IsGateOf
<1> QED
  BY <1>4, <1>6, <1>7 DEF IsGateOf
\* What finishing v makes of a port.
LEMMA FinishedAfter ==
  ASSUME TSNInv, TSNFinishVertex
  PROVE  /\ next.op \in Vertex /\ next.op \notin Black /\ Black' = Black \cup {next.op}
         /\ before'[next.op] = Black
         /\ \A port : FinishedAt(port)' =
              FinishedAt(port) \cup (IF next.op \in Operation /\ Port(next.op) = port
                                       THEN {next.op} ELSE {})
<1>1. /\ pc = "visit" /\ status = CONTINUE
      /\ color' = [color EXCEPT ![next.op] = BLACK]
      /\ before' = [before EXCEPT ![next.op] = Black]
  BY DEF TSNFinishVertex, OnFinishVertex, FinishVertex
<1>2. /\ color \in [Vertex -> {WHITE, GRAY, BLACK}] /\ before \in [Vertex -> SUBSET Vertex]
      /\ next \in State /\ TypeOK /\ CPInv
  BY DEF TSNInv, CPInv, IInv, TypeOK
<1>3. next.op \in Vertex
  BY <1>2 DEF State
<1>4. color[next.op] = GRAY
  <2>1. Path /\ \A i \in 1 .. Depth : color[At(i).op] = GRAY
    BY <1>1, <1>2, PathIsTyped DEF CONTINUE, ABORT
  <2>2. Depth = Len(stack) + 1 /\ Len(stack) \in Nat
    BY <1>1, <1>2, DepthType DEF Depth, TypeOK
  <2>3. Depth \in 1 .. Depth /\ At(Depth) = next
    BY <2>2 DEF At
  <2> QED
    BY <2>1, <2>3
<1>5. next.op \notin Black /\ Black' = Black \cup {next.op}
  BY <1>1, <1>2, <1>3, <1>4 DEF Black, GRAY, BLACK
<1>6. before'[next.op] = Black
  BY <1>1, <1>2, <1>3
<1>7. ASSUME NEW port
      PROVE  FinishedAt(port)' =
               FinishedAt(port) \cup (IF next.op \in Operation /\ Port(next.op) = port
                                        THEN {next.op} ELSE {})
  <2>1. FinishedAt(port)' = {v \in Operation \cap (Black \cup {next.op}) : Port(v) = port}
    BY <1>5 DEF FinishedAt
  <2> QED
    BY <2>1 DEF FinishedAt
<1> QED
  BY <1>3, <1>5, <1>6, <1>7

\* The gate that is entered for v is that of its port.
LEMMA GateIsEntered ==
  ASSUME TSNInv, TSNInv', [TSNNext]_tsn_vars, TSNFinishVertex,
         NEW v \in Operation, v = next.op, NEW port, port = Port(v),
         NEW old, IsGate(old),
         \A x \in Int : OpenAt(old, x) <=> \E w \in FinishedAt(port) : Earliest(w) <= x /\ x < Closing(w),
         NEW gate, gate = AddInterval(old, configuration(v).min, configuration(v).max + trans_max(v))
  PROVE  IsGateOf(gate, port)'
<1>1. /\ pc = "visit" /\ pc # "idle" /\ status' = CONTINUE /\ UNCHANGED crit_cost
  BY DEF TSNFinishVertex, OnFinishVertex, FinishVertex
<1>2. /\ v \in Vertex /\ v \notin Black /\ v \in Black' /\ before'[v] = Black
      /\ FinishedAt(port)' = FinishedAt(port) \cup {v}
  BY FinishedAfter
<1>3. \A w \in FinishedAt(port) : w \in Black /\ w # v
  BY <1>2 DEF FinishedAt
<1>4. extended' = extended
  BY FixedStays DEF fixed
<1>5. \A w \in FinishedAt(port) : /\ Earliest(w)' = Earliest(w) /\ Latest(w)' = Latest(w)
                                  /\ Closing(w)' = Closing(w)
  BY <1>1, <1>3, <1>4, FinishedStay DEF Earliest, Latest, Closing
<1>6. trans_max(v) \in Nat
  <2>1. trans_max(v) \in Int
    BY <1>2, WeightsOf DEF trans_max
  <2>2. trans_max(v) >= 0
    BY PdbAssumption, Zenon
  <2> QED
    BY <2>1, <2>2
<1>7. configuration(v).min = Earliest(v)' /\ configuration(v).max = Latest(v)'
  BY <1>1, <1>4 DEF configuration, Earliest, Latest
<1>8. Earliest(v)' \in Nat /\ Latest(v)' \in Nat /\ Earliest(v)' <= Latest(v)'
  <2>1. CASE extended
    <3>1. mk'[v] \in Window /\ mk'[v].crit <= mk'[v].mu
      BY <1>1, <1>2, <1>4, <2>1 DEF TSNInv, MKInv, BlackIsRespected, CONTINUE, ABORT
    <3> QED
      BY <3>1, <1>4, <2>1 DEF Earliest, Latest, Window
  <2>2. CASE ~extended
    <3>1. crit_cost'[v].cost \in Nat
      BY <1>2 DEF TSNInv, CPInv, Cost
    <3> QED
      BY <3>1, <1>4, <2>2 DEF Earliest, Latest
  <2> QED
    BY <2>1, <2>2
<1>9. PICK a \in Int, b \in Int : /\ a = Earliest(v)' /\ b = Closing(v)' /\ a <= b
                                  /\ gate = AddInterval(old, a, b)
  BY <1>6, <1>7, <1>8 DEF Closing
<1>10. /\ IsGate(gate) /\ gate.offset = b /\ Len(gate.durations) > 0
       /\ \A x \in Int : OpenAt(gate, x) <=> OpenAt(old, x) \/ (a <= x /\ x < b)
  BY <1>9, IntervalIsAdded
<1>11. ASSUME NEW x \in Int
       PROVE  OpenAt(gate, x) <=> (\E w \in FinishedAt(port) : Earliest(w) <= x /\ x < Closing(w))'
  <2>1. (\E w \in FinishedAt(port) : Earliest(w) <= x /\ x < Closing(w))'
          <=> \/ \E w \in FinishedAt(port) : Earliest(w)' <= x /\ x < Closing(w)'
              \/ Earliest(v)' <= x /\ x < Closing(v)'
    BY <1>2
  <2>2. (\E w \in FinishedAt(port) : Earliest(w)' <= x /\ x < Closing(w)')
          <=> \E w \in FinishedAt(port) : Earliest(w) <= x /\ x < Closing(w)
    BY <1>5
  <2> QED
    BY <2>1, <2>2, <1>9, <1>10
<1>12. (\E u \in FinishedAt(port) :
          gate.offset = Closing(u) /\ \A w \in FinishedAt(port) \ {u} : w \in before[u])'
  <2>1. \A w \in FinishedAt(port)' \ {v} : w \in before'[v]
    BY <1>2, <1>3
  <2>2. v \in FinishedAt(port)' /\ gate.offset = Closing(v)'
    BY <1>2, <1>9, <1>10
  <2> QED
    BY <2>1, <2>2
<1> QED
  BY <1>10, <1>11, <1>12 DEF IsGateOf
LEMMA GatesOfFinishVertex ==
  ASSUME TSNInv, TSNInv', [TSNNext]_tsn_vars, GatesInv, TSNFinishVertex
  PROVE  GatesInv'
<1>1. /\ pc # "idle" /\ pc' = "pop" /\ status = CONTINUE /\ status' = CONTINUE
      /\ next.op \in Operation => gcl_config' = add_gcl_entry(next.op, configuration(next.op))
      /\ next.op \notin Operation => gcl_config' = gcl_config
  BY DEF TSNFinishVertex, OnFinishVertex, FinishVertex, AddEntries, entries
<1>2. /\ DOMAIN gcl_config = {Port(v) : v \in Operation \cap Black}
      /\ \A port \in DOMAIN gcl_config : IsGateOf(gcl_config[port], port)
  BY <1>1 DEF GatesInv
<1>3. Black' = Black \cup {next.op}
  BY FinishedAfter
<1>4. ASSUME NEW port, ~(next.op \in Operation /\ port = Port(next.op)), NEW gate, IsGateOf(gate, port)
      PROVE  IsGateOf(gate, port)'
  <2>1. FinishedAt(port)' = FinishedAt(port)
    BY <1>4, FinishedAfter
  <2> QED
    BY <2>1, <1>1, <1>4, GateStays
<1>5. CASE next.op \notin Operation
  <2>1. /\ DOMAIN gcl_config' = DOMAIN gcl_config /\ Operation \cap Black' = Operation \cap Black
        /\ \A port \in DOMAIN gcl_config : gcl_config'[port] = gcl_config[port]
    BY <1>1, <1>3, <1>5
  <2>2. \A port \in DOMAIN gcl_config : IsGateOf(gcl_config[port], port)'
    <3> SUFFICES ASSUME NEW port \in DOMAIN gcl_config
                 PROVE  IsGateOf(gcl_config[port], port)'
      OBVIOUS
    <3>1. PICK gate : gate = gcl_config[port] /\ IsGateOf(gate, port)
      BY <1>2
    <3>2. IsGateOf(gate, port)'
      BY <3>1, <1>4, <1>5
    <3> QED
      BY <2>1, <3>1, <3>2
  <2> QED
    BY <2>1, <2>2, <1>1, <1>2 DEF GatesInv, CONTINUE, COMPLETED
<1>6. CASE next.op \in Operation
  <2>1. PICK v \in Operation : v = next.op
    BY <1>6
  <2>2. PICK port : port = Port(v)
    OBVIOUS
  <2>3. PICK old : old = IF port \in DOMAIN gcl_config THEN gcl_config[port] ELSE NewGate
    OBVIOUS
  <2>4. PICK gate : gate = AddInterval(old, configuration(v).min, configuration(v).max + trans_max(v))
    OBVIOUS
  <2>5. gcl_config' = [p \in DOMAIN gcl_config \cup {port} |-> IF p = port THEN gate ELSE gcl_config[p]]
    BY <1>1, <1>6, <2>1, <2>2, <2>3, <2>4 DEF add_gcl_entry, Put
  <2>6. /\ IsGate(old)
        /\ \A x \in Int : OpenAt(old, x) <=>
             \E w \in FinishedAt(port) : Earliest(w) <= x /\ x < Closing(w)
    <3>1. CASE port \in DOMAIN gcl_config
      BY <3>1, <2>3, <1>2 DEF IsGateOf
    <3>2. CASE port \notin DOMAIN gcl_config
      <4>1. FinishedAt(port) = {}
        BY <3>2, <1>2 DEF FinishedAt
      <4> QED
        BY <3>2, <4>1, <2>3, NewGateIsClosed
    <3> QED
      BY <3>1, <3>2
  <2>7. IsGateOf(gate, port)'
    BY <2>1, <2>2, <2>4, <2>6, GateIsEntered
  <2>8. ASSUME NEW p \in DOMAIN gcl_config'
        PROVE  IsGateOf(gcl_config[p], p)'
    <3>1. CASE p = port
      BY <3>1, <2>5, <2>7
    <3>2. CASE p # port
      <4>1. p \in DOMAIN gcl_config /\ gcl_config'[p] = gcl_config[p]
        BY <3>2, <2>5
      <4>2. IsGateOf(gcl_config[p], p)
        BY <4>1, <1>2
      <4>3. PICK g : g = gcl_config[p] /\ IsGateOf(g, p)
        BY <4>2
      <4>4. IsGateOf(g, p)'
        BY <4>3, <3>2, <2>1, <2>2, <1>4
      <4> QED
        BY <4>1, <4>3, <4>4
    <3> QED
      BY <3>1, <3>2
  <2>9. DOMAIN gcl_config' = {Port(w) : w \in Operation \cap Black}'
    <3>1. Operation \cap Black' = (Operation \cap Black) \cup {v}
      BY <1>3, <2>1
    <3>2. {Port(w) : w \in (Operation \cap Black) \cup {v}}
            = {Port(w) : w \in Operation \cap Black} \cup {port}
      BY <2>2
    <3> QED
      BY <3>1, <3>2, <2>5, <1>2
  <2> QED
    BY <2>8, <2>9, <1>1 DEF GatesInv, CONTINUE, COMPLETED
<1> QED
  BY <1>5, <1>6

LEMMA GatesStep == TSNInv /\ TSNInv' /\ GatesInv /\ [TSNNext]_tsn_vars => GatesInv'
<1> SUFFICES ASSUME TSNInv, TSNInv', GatesInv, [TSNNext]_tsn_vars
             PROVE  GatesInv'
  OBVIOUS
<1>1. ASSUME NEW G \in Graphs, Construct(G)
      PROVE  GatesInv'
  BY <1>1, GatesOfConstruct
<1>2. CASE TSNFinishVertex
  BY <1>2, GatesOfFinishVertex
<1>3. ASSUME pc # "idle", pc' # "idle", UNCHANGED gcl_config, Black' = Black,
             status' # COMPLETED, status' = CONTINUE => status = CONTINUE
      PROVE  GatesInv'
  <2>1. \A port : FinishedAt(port)' = FinishedAt(port)
    BY <1>3 DEF FinishedAt
  <2>2. ASSUME status = CONTINUE, NEW port \in DOMAIN gcl_config
        PROVE  IsGateOf(gcl_config[port], port)'
    <3>1. PICK gate : gate = gcl_config[port] /\ IsGateOf(gate, port)
      BY <2>2 DEF GatesInv
    <3>2. IsGateOf(gate, port)'
      BY <2>1, <3>1, <1>3, GateStays
    <3> QED
      BY <3>1, <3>2, <1>3
  <2> QED
    BY <2>2, <1>3 DEF GatesInv
<1>4. CASE TSNPop \/ TSNTreeEdge \/ TSNBackEdge \/ TSNCrossEdge
  <2>1. /\ pc # "idle" /\ pc' # "idle" /\ UNCHANGED gcl_config
        /\ status' # COMPLETED
        /\ status' = CONTINUE => status = CONTINUE
    BY <1>4 DEF TSNPop, TSNTreeEdge, TSNBackEdge, TSNCrossEdge, OnPop, OnTreeEdge, OnBackEdge,
                OnCrossEdge, Pop, TreeEdge, BackEdge, CrossEdge, entries, CONTINUE, ABORT, COMPLETED
  <2>2. color \in [Vertex -> {WHITE, GRAY, BLACK}]
    BY DEF TSNInv, CPInv, IInv, TypeOK
  <2>3. Black' = Black
    BY <1>4, <2>2 DEF TSNPop, TSNTreeEdge, TSNBackEdge, TSNCrossEdge, OnPop, OnTreeEdge, OnBackEdge,
                      OnCrossEdge, Pop, TreeEdge, BackEdge, CrossEdge, Black, WHITE, GRAY, BLACK
  <2> QED
    BY <2>1, <2>3, <1>3
<1>5. CASE TSNComplete
  <2>1. /\ pc = "pop" /\ pc' = "idle" /\ status = CONTINUE /\ status' = COMPLETED
        /\ UNCHANGED color
        /\ gcl_config' = [p \in DOMAIN gcl_config |-> extend_to(gcl_config[p], cycle)]
    BY <1>5 DEF TSNComplete, Complete
  <2>2. \A port : FinishedAt(port)' = FinishedAt(port)
    BY <2>1 DEF FinishedAt, Black
  <2>3. ASSUME NEW port \in DOMAIN gcl_config'
        PROVE  (\E gate : IsGateOf(gate, port) /\ gcl_config[port] = extend_to(gate, cycle))'
    <3>1. port \in DOMAIN gcl_config /\ gcl_config'[port] = extend_to(gcl_config[port], cycle)
      BY <2>1, <2>3
    <3>2. PICK gate : gate = gcl_config[port] /\ IsGateOf(gate, port)
      BY <3>1, <2>1 DEF GatesInv
    <3>3. IsGateOf(gate, port)'
      BY <2>1, <2>2, <3>2, GateStays
    <3>4. gcl_config'[port] = extend_to(gate, cycle)
      BY <3>1, <3>2
    <3> QED
      BY <3>3, <3>4
  <2> QED
    BY <2>1, <2>3 DEF GatesInv, CONTINUE, COMPLETED
<1>6. CASE TSNAbort
  <2>1. status' = ABORT
    BY <1>6 DEF TSNAbort
  <2> QED
    BY <2>1 DEF GatesInv, CONTINUE, COMPLETED, ABORT
<1>7. CASE UNCHANGED tsn_vars
  <2>1. UNCHANGED <<color, before, pc, status, crit_cost, mk, extended, gcl_config>>
    BY <1>7 DEF tsn_vars, cp_vars, vars, mk_vars, entries, fixed
  <2> QED
    BY <2>1 DEF GatesInv, IsGateOf, FinishedAt, Closing, Earliest, Latest, Black
<1> QED
  BY <1>1, <1>2, <1>4, <1>5, <1>6, <1>7 DEF TSNNext

LEMMA GatesInvariant == TSNSpec => [](TSNInv /\ GatesInv)
<1>1. TSNInit => GatesInv
  <2> SUFFICES ASSUME TSNInit
               PROVE  GatesInv
    OBVIOUS
  <2>1. Black = {} /\ status = CONTINUE /\ gcl_config = <<>>
    BY DEF TSNInit, CPInit, Init, NoEntries, Black, WHITE, BLACK
  <2>2. DOMAIN gcl_config = {} /\ {Port(v) : v \in Operation \cap Black} = {}
    BY <2>1
  <2> QED
    BY <2>1, <2>2 DEF GatesInv, CONTINUE, COMPLETED
<1>2. TSNInv /\ TSNInv' /\ GatesInv /\ [TSNNext]_tsn_vars => GatesInv'
  BY GatesStep
<1> QED
  BY <1>1, <1>2, TSNInvariant, PTL DEF TSNSpec
-----------------------------------------------------------------------------
(* The gate of a port closes last after what has been finished last. *)

\* Along a link operations are finished in their order, and none of them may
\* begin before the one ahead of it has.
IsAhead(u, v) == /\ u \in before[v]
                 /\ ~extended => Closing(u) <= Closing(v)
                 /\ extended => mk[u].mu <= mk[v].mu

LEMMA NextIsAhead ==
  ASSUME TSNInv, Constructed, NEW u \in Operation, NEW v \in Operation, v \in Black,
         HasEdge(edges, u, v, "MACHINE")
  PROVE  IsAhead(u, v) /\ u \in Black
<1>1. /\ u \in before[v] /\ u \in Black
      /\ ~extended =>
           crit_cost[u].cost + weights[u]["MACHINE"].outgoing + weights[v]["MACHINE"].incoming
             <= crit_cost[v].cost
      /\ extended => mk[u].mu <= mk[v].crit \/ mk[u].mu <= mk[v].mu
  BY EdgesAreRespected
<1>2. /\ Earliest(u) \in Nat /\ Latest(u) \in Nat /\ trans_max(u) \in Nat
      /\ Earliest(v) \in Nat /\ Latest(v) \in Nat /\ trans_max(v) \in Nat
      /\ Earliest(v) <= Latest(v)
  BY <1>1, WindowsOf
<1>3. weights[v]["MACHINE"].incoming = 0
  BY PdbAssumption, Zenon
<1>4. CASE extended
  <2>1. mk[u].mu \in Nat /\ mk[v].mu \in Nat /\ mk[v].crit \in Nat /\ mk[v].crit <= mk[v].mu
    BY <1>2, <1>4 DEF Earliest, Latest
  <2> QED
    BY <2>1, <1>1, <1>4 DEF IsAhead
<1>5. CASE ~extended
  <2>1. Earliest(u) + trans_max(u) + 0 <= Earliest(v)
    BY <1>1, <1>3, <1>5 DEF Earliest, trans_max
  <2>2. Latest(u) = Earliest(u) /\ Latest(v) = Earliest(v)
    BY <1>5 DEF Earliest, Latest
  <2>3. Closing(u) <= Closing(v)
    BY <1>2, <2>1, <2>2 DEF Closing
  <2> QED
    BY <2>3, <1>1, <1>5 DEF IsAhead
<1> QED
  BY <1>1, <1>4, <1>5

LEMMA AheadIsTransitive ==
  ASSUME TSNInv, Constructed,
         NEW u \in Operation, u \in Black, NEW v \in Operation, v \in Black,
         NEW w \in Operation, w \in Black, IsAhead(u, v), IsAhead(v, w)
  PROVE  IsAhead(u, w)
<1>1. u \in before[v] /\ before[v] \subseteq before[w]
  BY DEF IsAhead, TSNInv, CPInv, IInv, FinishedInOrder
<1>2. /\ Latest(u) \in Nat /\ Latest(v) \in Nat /\ Latest(w) \in Nat
      /\ trans_max(u) \in Nat /\ trans_max(v) \in Nat /\ trans_max(w) \in Nat
  BY WindowsOf
<1>3. ~extended => Closing(u) <= Closing(w)
  BY <1>2 DEF IsAhead, Closing
<1>4. extended => mk[u].mu <= mk[w].mu
  BY <1>2 DEF IsAhead, Latest
<1> QED
  BY <1>1, <1>3, <1>4 DEF IsAhead

IsVector(vector, n, S) ==
  /\ vector \in [1 .. n -> S]
  /\ \A v \in S : \E i \in 1 .. n : vector[i] = v
  /\ \A i \in 2 .. n : HasEdge(edges, vector[i - 1], vector[i], "MACHINE")

LEMMA VectorOfLink ==
  ASSUME TSNInv, NEW l \in {op[v].link : v \in Operation}
  PROVE  \E n \in Nat : \E vector : IsVector(vector, n, LinkIn(edges, l))
<1>1. edges \in Graphs
  BY DEF TSNInv, CPInv, IInv
<1>2. PICK S : S = LinkIn(edges, l)
  OBVIOUS
<1>3. Cardinality(S) \in Nat
  <2>1. S \subseteq Vertex
    BY <1>2, EdgeAssumption DEF LinkIn
  <2> QED
    BY <2>1, StartAssumption, FS_Subset, FS_CardinalityType
<1>4. \E vector \in [1 .. Cardinality(S) -> S] :
        /\ \A v \in S : \E i \in 1 .. Cardinality(S) : vector[i] = v
        /\ \A i \in 2 .. Cardinality(S) : HasEdge(edges, vector[i - 1], vector[i], "MACHINE")
  BY <1>1, <1>2, LinkAssumption
<1> QED
  BY <1>2, <1>3, <1>4 DEF IsVector

LEMMA VectorIsOrdered ==
  ASSUME TSNInv, Constructed, NEW l, NEW n \in Nat, NEW vector, IsVector(vector, n, LinkIn(edges, l)),
         NEW i \in 1 .. n, NEW j \in 1 .. n, i < j
  PROVE  IsAhead(vector[i], vector[j])
<1>1. \A m \in 1 .. n : vector[m] \in Operation /\ vector[m] \in Black
  <2>1. Black = AncestorsIn(edges, start)
    BY DEF TSNInv, CompletedInv, Constructed, Ancestors
  <2> QED
    BY <2>1 DEF IsVector, LinkIn
<1>2. \A m \in 2 .. n : IsAhead(vector[m - 1], vector[m])
  <2>1. TAKE m \in 2 .. n
  <2>2. m \in 1 .. n /\ m - 1 \in 1 .. n /\ HasEdge(edges, vector[m - 1], vector[m], "MACHINE")
    BY DEF IsVector
  <2> QED
    BY <2>2, <1>1, NextIsAhead
<1> DEFINE T == {d \in Nat : \A m \in 1 .. n : m = i + 1 + d => IsAhead(vector[i], vector[m])}
<1>3. 0 \in T
  <2>1. ASSUME NEW m \in 1 .. n, m = i + 1 + 0
        PROVE  m \in 2 .. n /\ m - 1 = i
    BY <2>1
  <2> QED
    BY <2>1, <1>2
<1>4. ASSUME NEW d \in Nat, d \in T
      PROVE  d + 1 \in T
  <2>1. SUFFICES ASSUME NEW m \in 1 .. n, m = i + 1 + (d + 1)
                 PROVE  IsAhead(vector[i], vector[m])
    OBVIOUS
  <2>2. m \in 2 .. n /\ m - 1 \in 1 .. n /\ m - 1 = i + 1 + d
    BY <2>1
  <2>3. IsAhead(vector[i], vector[m - 1]) /\ IsAhead(vector[m - 1], vector[m])
    BY <2>2, <1>2, <1>4
  <2> QED
    BY <2>2, <2>3, <1>1, AheadIsTransitive
<1> HIDE DEF T
<1>5. Nat \subseteq T
  BY <1>3, <1>4, InductionOnNaturals
<1>6. PICK d \in Nat : j = i + 1 + d
  <2>1. j - i - 1 \in Nat /\ j = i + 1 + (j - i - 1)
    OBVIOUS
  <2> QED
    BY <2>1
<1> QED
  BY <1>5, <1>6 DEF T

LEMMA FinishedIsAhead ==
  ASSUME TSNInv, Constructed, NEW w \in Operation, NEW v \in Operation, v \in Black,
         op[w].link = op[v].link, w \in before[v]
  PROVE  IsAhead(w, v)
<1>1. FinishedInOrder /\ Black = AncestorsIn(edges, start)
  BY DEF TSNInv, CPInv, IInv, CompletedInv, Constructed, Ancestors
<1>2. w \in Black /\ before[w] \subseteq before[v] /\ v \notin before[v]
  BY <1>1 DEF FinishedInOrder
<1>3. PICK l \in {op[u].link : u \in Operation} : l = op[v].link
  OBVIOUS
<1>4. v \in LinkIn(edges, l) /\ w \in LinkIn(edges, l)
  BY <1>1, <1>2, <1>3 DEF LinkIn
<1>5. PICK n \in Nat : \E vector : IsVector(vector, n, LinkIn(edges, l))
  BY VectorOfLink
<1>6. PICK vector : IsVector(vector, n, LinkIn(edges, l))
  BY <1>5
<1>7. PICK i \in 1 .. n, j \in 1 .. n : vector[i] = w /\ vector[j] = v
  BY <1>4, <1>6 DEF IsVector
<1>8. i # j
  BY <1>2, <1>7
<1>9. ~(j < i)
  <2>1. j < i => IsAhead(v, w)
    BY <1>6, <1>7, VectorIsOrdered
  <2> QED
    BY <2>1, <1>2 DEF IsAhead
<1>10. i < j
  BY <1>8, <1>9
<1> QED
  BY <1>6, <1>7, <1>10, VectorIsOrdered

\* Whatever is finished later at a port closes its gate later.
LEMMA LastClosesLast ==
  ASSUME TSNInv, Constructed, extended => FirstHopsAreAlike(Operation),
         NEW w \in Operation, NEW v \in Operation, v \in Black, Port(w) = Port(v), w \in before[v]
  PROVE  Closing(w) <= Closing(v)
<1>1. w \in Black
  BY DEF TSNInv, CPInv, IInv, FinishedInOrder
<1>2. /\ Earliest(v) \in Nat /\ Latest(v) \in Nat /\ Earliest(v) <= Latest(v)
      /\ Latest(w) \in Nat /\ trans_max(w) \in Nat /\ trans_max(v) \in Nat
  BY <1>1, WindowsOf
<1>3. op[w].link = op[v].link
  BY DEF Port
<1>4. IsAhead(w, v)
  BY <1>3, FinishedIsAhead
<1>5. CASE ~extended
  BY <1>4, <1>5 DEF IsAhead
<1>6. CASE extended /\ HopsBefore(v) = {}
  <2>1. trans_max(v) = trans_max(w)
    BY <1>6 DEF FirstHopsAreAlike
  <2>2. Latest(w) <= Latest(v)
    BY <1>4, <1>6 DEF IsAhead, Latest
  <2> QED
    BY <2>1, <2>2, <1>2 DEF Closing
<1>7. CASE HopsBefore(v) # {}
  <2>1. PICK u \in HopsBefore(v) : TRUE
    BY <1>7
  <2>2. Latest(w) + trans_max(w) <= Earliest(u) + op[u].total_min
    BY <2>1, QueuesOfTSN DEF QueuesAreIsolated
  <2>3. /\ u \in Operation /\ u \in Black
        /\ Earliest(u) + op[u].total_min <= Earliest(v)
    BY <2>1, JobsAreInOrder
  <2>4. Earliest(u) \in Nat /\ op[u].total_min \in Int
    BY <2>3, WindowsOf
  <2> QED
    BY <2>2, <2>3, <2>4, <1>2 DEF Closing
<1> QED
  BY <1>5, <1>6, <1>7
-----------------------------------------------------------------------------
(* Gates are open in the windows. *)

LEMMA GatesAreRight ==
  ASSUME TSNInv, GatesInv, extended => FirstHopsAreAlike(Operation), Constructed,
         NEW port \in DOMAIN gcl_config, Fits(port), NEW t \in Int
  PROVE  IsOpen(gcl_config[port], t) <=> \E v \in PortIn(edges, port) : InWindow(v, t)
<1>1. status = COMPLETED /\ cycle \in Nat \ {0}
  BY CycleAssumption DEF Constructed
<1>2. PICK gate : IsGateOf(gate, port) /\ gcl_config[port] = extend_to(gate, cycle)
  BY <1>1 DEF GatesInv
<1>3. /\ IsGate(gate) /\ Len(gate.durations) > 0
      /\ \A x \in Int : OpenAt(gate, x) <=>
           \E v \in FinishedAt(port) : Earliest(v) <= x /\ x < Closing(v)
  BY <1>2 DEF IsGateOf
<1>4. PICK last \in FinishedAt(port) :
        gate.offset = Closing(last) /\ \A w \in FinishedAt(port) \ {last} : w \in before[last]
  BY <1>2 DEF IsGateOf
<1>5. FinishedAt(port) = PortIn(edges, port)
  <2>1. Black = AncestorsIn(edges, start)
    BY DEF TSNInv, CompletedInv, Constructed, Ancestors
  <2> QED
    BY <2>1 DEF FinishedAt, PortIn, Port
<1>6. PICK S : S = FinishedAt(port)
  OBVIOUS
<1>7. \A v \in S : v \in Operation /\ v \in Black /\ Port(v) = port
  BY <1>6 DEF FinishedAt
<1>8. \A v \in S : /\ Earliest(v) \in Nat /\ Latest(v) \in Nat /\ Earliest(v) <= Latest(v)
                   /\ trans_max(v) \in Nat
  BY <1>7, WindowsOf
<1>9. \A v \in S : Closing(v) \in Nat /\ Earliest(v) <= Closing(v)
  BY <1>8 DEF Closing
<1>10. PICK f \in Int : f = gate.offset /\ f = Closing(last)
  BY <1>4, <1>6, <1>9
<1>11. \A v \in S : Closing(v) <= f
  <2>1. TAKE v \in S
  <2>2. CASE v = last
    BY <2>2, <1>9, <1>10
  <2>3. CASE v # last
    <3>1. v \in before[last]
      BY <2>3, <1>4, <1>6
    <3>2. /\ last \in Operation /\ last \in Black /\ Port(last) = port
          /\ v \in Operation /\ Port(v) = port
      BY <1>4, <1>6, <1>7
    <3>3. Closing(v) <= Closing(last)
      BY <3>1, <3>2, LastClosesLast
    <3> QED
      BY <3>3, <1>10
  <2> QED
    BY <2>2, <2>3
<1>12. \A v \in S : f - cycle <= Earliest(v)
  <2>1. TAKE v \in S
  <2>2. Latest(last) + trans_max(last) <= Earliest(v) + cycle
    BY <1>4, <1>5, <1>6 DEF Fits
  <2>3. f <= Earliest(v) + cycle
    BY <2>2, <1>10 DEF Closing
  <2> QED
    BY <2>3, <1>1, <1>8
<1>13. PICK x \in Int : x = Elapsed(t, f, cycle)
  <2>1. t + (cycle - f) \in Int
    BY <1>1
  <2>2. (t + (cycle - f)) % cycle \in Int
    BY <2>1, <1>1, Remainders
  <2> QED
    BY <2>2, <1>1 DEF Elapsed
<1>14. IsOpen(gcl_config[port], t) <=> OpenAt(gate, x)
  <2>1. IsExtended(gcl_config[port], gate, cycle - f)
    BY <1>1, <1>2, <1>3, <1>10, GateIsExtended
  <2> QED
    BY <2>1, <1>1, <1>3, <1>10, <1>13, GateIsRepeated
<1>15. \A v \in S : (Earliest(v) <= x /\ x < Closing(v)) <=> InWindow(v, t)
  <2>1. TAKE v \in S
  <2>2. PICK a \in Int, b \in Int : a = Earliest(v) /\ b = Closing(v)
    BY <1>8, <1>9
  <2>3. f - cycle <= a /\ a <= b /\ b <= f
    BY <2>2, <1>9, <1>11, <1>12
  <2>4. (a <= x /\ x < b) <=> IsRepeated(a, b, cycle, t)
    BY <2>3, <1>1, <1>13, WindowIsRepeated
  <2>5. b - a = Latest(v) + (trans_max(v) - Earliest(v))
    BY <2>2, <1>8 DEF Closing
  <2>6. InWindow(v, t) <=> IsRepeated(a, b, cycle, t)
    BY <2>2, <2>5, Zenon DEF InWindow, IsRepeated
  <2> QED
    BY <2>2, <2>4, <2>6
<1>16. OpenAt(gate, x) <=> \E v \in S : Earliest(v) <= x /\ x < Closing(v)
  BY <1>3, <1>6
<1> QED
  BY <1>5, <1>6, <1>14, <1>15, <1>16, Zenon

\* In a finished configuration the gate of a port is open in the windows of its
\* operations, again in every hyper cycle, and never else, in whichever order
\* the traversal has finished them: in the one of critical paths always, in the
\* extended one if the frames that begin in one queue take equally long.
THEOREM GatesAreOpenForWindows ==
  TSNSpec /\ (extended => FirstHopsAreAlike(Operation)) => []GatesOpenForWindows
<1>1. TSNInv /\ GatesInv /\ (extended => FirstHopsAreAlike(Operation)) => GatesOpenForWindows
  <2> SUFFICES ASSUME TSNInv, GatesInv, extended => FirstHopsAreAlike(Operation), Constructed,
                      NEW port \in DOMAIN gcl_config, Fits(port), NEW t \in 0 .. cycle - 1
               PROVE  IsOpen(gcl_config[port], t) = \E v \in PortIn(edges, port) : InWindow(v, t)
    BY DEF GatesOpenForWindows
  <2>1. IsOpen(gcl_config[port], t) <=> \E v \in PortIn(edges, port) : InWindow(v, t)
    BY GatesAreRight
  <2>2. IsOpen(gcl_config[port], t) \in BOOLEAN
    BY DEF IsOpen
  <2> QED
    BY <2>1, <2>2
<1>2. (extended => FirstHopsAreAlike(Operation)) /\ [TSNNext]_tsn_vars => (extended => FirstHopsAreAlike(Operation))'
  BY FixedStays DEF fixed, FirstHopsAreAlike, Port
<1> QED
  BY <1>1, <1>2, GatesInvariant, PTL DEF TSNSpec
=============================================================================
