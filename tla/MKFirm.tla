-------------------------------- MODULE MKFirm --------------------------------
(***************************************************************************)
(* MKFirmConfiguration (src/src/dgm/mk_firm_extension.{h,cc}): handlers    *)
(* that follow those of the critical path in the same traversal.  For each *)
(* operation they find when its gate opens, crit, and how much later it    *)
(* may have to begin for frames of (m,k)-firm streams that are elevated to *)
(* the highest priority on its link, mu.                                   *)
(***************************************************************************)
EXTENDS CriticalPath, TokenBucket

CONSTANTS op,               \* op[v] : [link, pcp, frames, talks, listens, route_pred, route_succ,
                            \*          total_min] of the operations, see below
          snk,              \* the sink; start is the vertex the traversal begins at
          mk_firm,          \* mk_firm[s] : the requirement of stream s as a Stream of
                            \*   TokenBucket; without one its mask is <<FALSE>>
          qos,              \* qos[f] : what the stream of f asks for it, a Frame
          data_rate,        \* data_rate[l] of a link
          clock_resolution, \* of all devices
          cycle             \* StreamStorage::hyper_cycle

\* A frame is [stream, id].  op[v].talks and op[v].listens are the frames of v
\* whose talker or listener is at its end of the link.
Operation == DOMAIN op

VARIABLES mk,                    \* mk[v] : [crit, mu], crit_cost_ and mu_
          token_bucket,          \* token_bucket[l], and token_bucket_diff[<<l, m>>] for
          token_bucket_diff,     \*   traffic of l that does not go on to m
          stable_qos_violations, \* the streams for which it is TRUE
          mkfirm_psfp_config     \* the gates, as [device, frame, open, close]

buckets == <<token_bucket, token_bucket_diff>>
mk_vars == <<mk, stable_qos_violations, mkfirm_psfp_config>>

Larger(a, b) == IF a > b THEN a ELSE b

trans_max(v) == weights[v]["MACHINE"].outgoing \* v.weights.pdb.d_trans.max
total_max(v) == weights[v]["JOB"].outgoing     \* v.weights.pdb.d_total.max

required(s) == \E i \in DOMAIN mk_firm[s].mask : mk_firm[s].mask[i]

FramesOn(l) == UNION {op[v].frames : v \in {u \in Operation : op[u].link = l}}

\* The operations that are ahead of v on the routes of its frames.
HopsBefore(v) == Operation \cap Range(op[v].route_pred)

HasEdge(G, u, v, type) ==
  \E i \in 1 .. Len(G[v]) : G[v][i].source = u /\ G[v][i].edge_type = type

\* The edges that an iterator visits: job edges lead from the operation before,
\* or begin or end at a terminal, the others are between operations.
ASSUME EdgeAssumption ==
  /\ EdgeType = {"FIFO", "MACHINE", "JOB"}
  /\ Operation \subseteq Vertex \ {src, snk}
  /\ \A v \in Operation : op[v].pcp \in Int
  /\ \A G \in Graphs : \A v \in Vertex : \A i \in 1 .. Len(G[v]) :
       LET u == G[v][i].source
       IN IF G[v][i].edge_type = "JOB" THEN \/ u = src \/ v = snk
                                            \/ v \in Operation /\ u \in HopsBefore(v)
          ELSE u \in Operation /\ v \in Operation

\* The operations of a port that the sink depends on in G.
PortIn(G, port) == {v \in Operation \cap AncestorsIn(G, start) : <<op[v].link, op[v].pcp>> = port}

\* Each queue is in some order, and an operation that is before another one
\* precedes the operations that bring the frames of the other one to the queue.
ASSUME QueueAssumption ==
  \A G \in Graphs :
    /\ \A v \in Operation \cap AncestorsIn(G, start) : \A u \in HopsBefore(v) : HasEdge(G, u, v, "JOB")
    /\ \A port \in {<<op[v].link, op[v].pcp>> : v \in Operation} :
         LET S == PortIn(G, port)
         IN \E queue \in [1 .. Cardinality(S) -> S] :
              /\ \A v \in S : \E i \in 1 .. Cardinality(S) : queue[i] = v
              /\ \A i \in 2 .. Cardinality(S) : \A u \in HopsBefore(queue[i]) :
                   HasEdge(G, queue[i - 1], u, "FIFO")

\* The operations of a link that the sink depends on in G.
LinkIn(G, l) == {v \in Operation \cap AncestorsIn(G, start) : op[v].link = l}

\* The operations of a link follow each other.
ASSUME LinkAssumption ==
  \A G \in Graphs : \A l \in {op[v].link : v \in Operation} :
    LET S == LinkIn(G, l)
    IN \E vector \in [1 .. Cardinality(S) -> S] :
         /\ \A v \in S : \E i \in 1 .. Cardinality(S) : vector[i] = v
         /\ \A i \in 2 .. Cardinality(S) : HasEdge(G, vector[i - 1], vector[i], "MACHINE")

\* No stream begins where another one of its queue passes through: the search
\* for job neighbours would read the link of a terminal.
ASSUME FirstHopAssumption ==
  \A v, w \in Operation :
    op[v].link = op[w].link /\ op[v].pcp = op[w].pcp => (HopsBefore(v) = {} <=> HopsBefore(w) = {})

\* from_pdb; a release is part of the weights on the first hop only.
ASSUME PdbAssumption ==
  \A v \in Operation :
    /\ trans_max(v) >= 0
    /\ op[v].total_min \in Int /\ op[v].total_min <= total_max(v)
    /\ weights[v]["FIFO"] = [incoming |-> -op[v].total_min, outgoing |-> trans_max(v)]
    /\ weights[v]["MACHINE"].incoming = 0
    /\ HopsBefore(v) # {} => weights[v]["JOB"].incoming >= 0

ASSUME CycleAssumption == cycle \in Nat \ {0}

\* mk_firm_streams_at.
mk_firm_streams_at(l) == {s \in DOMAIN mk_firm : required(s) /\ [stream |-> s, id |-> 0] \in FramesOn(l)}

\* mk_firm_stream_diff_at: the streams at l that go on to another link than m.
\* The next hop is the first one; for a stream without one the search is
\* dereferenced at its end.
NextLink(s, l) ==
  LET f == [stream |-> s, id |-> 0]
      u == CHOOSE u \in Operation : op[u].link = l /\ f \in op[u].frames
      succ == SelectSeq(op[u].route_succ, LAMBDA w : w \in Operation /\ f \in op[w].frames)
  IN op[succ[1]].link

mk_firm_stream_diff_at(l, m) == {s \in mk_firm_streams_at(l) : NextLink(s, l) # m}

BucketOf(l, S) == compute_token_bucket([i \in 1 .. Cardinality(S) |-> mk_firm[SetToSeq(S)[i]]], data_rate[l])

HopLinks == UNION {{<<op[u].link, op[v].link>> : u \in HopsBefore(v)} : v \in Operation}

\* Elevated traffic leaves some of the bandwidth: what it takes is divided by
\* the rest.
IsBucket(tb) ==
  /\ tb.bucket_size \in Nat /\ tb.token_rate \in Nat /\ tb.link_data_rate \in Nat
  /\ tb.token_rate < tb.link_data_rate

ASSUME BucketAssumption ==
  /\ TicksPerSec \in Nat /\ clock_resolution \in Nat
  /\ \A v \in Operation : /\ data_rate[op[v].link] \in Nat \ {0}
                          /\ IsBucket(BucketOf(op[v].link, mk_firm_streams_at(op[v].link)))
  /\ \A h \in HopLinks : IsBucket(BucketOf(h[1], mk_firm_stream_diff_at(h[1], h[2])))

\* The time that an elevated burst and the refilled tokens keep a link busy.
Busy(tb, burst, time) ==
  (TicksPerSec * BitsPerByte * burst + time * tb.token_rate) \div (tb.link_data_rate - tb.token_rate)

Deferred(v, time) == [mk EXCEPT ![v].crit = Larger(@, time)]

\* The elevated traffic of a lower priority waits before v, too.
update_prolongation(u, v) ==
  [mk EXCEPT ![v].mu = Larger(@, mk[u].mu + Busy(token_bucket[op[v].link], 0, trans_max(v)))]

\* The frames of u have begun when the gate of v opens; in the same queue, on
\* a first hop, they have ended.
deferment(u, v) ==
  IF op[u].pcp < op[v].pcp THEN Deferred(v, mk[u].mu + clock_resolution)
  ELSE Deferred(v, mk[u].mu + weights[u]["MACHINE"].outgoing + weights[v]["MACHINE"].incoming)

\* Mutant: the earliest departure of the frames before.
fault_isolation_crit(u, v) ==
  Deferred(v, mk[u].crit + weights[u]["FIFO"].outgoing + weights[v]["FIFO"].incoming)

\* The frames of v do not enter the next queue before those of u have left it.
fault_isolation(u, v) ==
  Deferred(v, mk[u].mu + weights[u]["FIFO"].outgoing + weights[v]["FIFO"].incoming)

branched_off_traffic(tb, time) == TicksPerSec * BitsPerByte * tb.bucket_size + time * tb.token_rate

\* Elevated traffic that does not go on with v is in the past.
sequential_transmission(u, v) ==
  Deferred(v, mk[u].crit + weights[u]["JOB"].outgoing + weights[v]["JOB"].incoming
                + branched_off_traffic(token_bucket_diff[<<op[u].link, op[v].link>>],
                                       mk[u].mu - mk[u].crit) \div data_rate[op[u].link])

\* visitor_finish_edge.
EdgeFinished(edge) ==
  LET u == edge.source
      v == edge.target
  IN CASE edge.edge_type = "MACHINE" /\ op[u].pcp <= op[v].pcp -> deferment(u, v)
       [] edge.edge_type = "MACHINE" /\ op[u].pcp > op[v].pcp -> update_prolongation(u, v)
       [] edge.edge_type = "FIFO" -> fault_isolation(u, v)
       [] edge.edge_type = "JOB" -> IF u # src /\ v # snk THEN sequential_transmission(u, v) ELSE mk

\* visitor_discover_vertex.
VertexDiscovered(v) == [mk EXCEPT ![v] = [crit |-> 0, mu |-> 0]]

prolongation(v) ==
  LET tb == token_bucket[op[v].link]
      crit == Larger(mk[v].crit, crit_cost[v].cost)
  IN [crit |-> crit, mu |-> Larger(mk[v].mu, crit + Busy(tb, tb.bucket_size, trans_max(v)))]

\* add_mk_firm_psfp: frame c is admitted from when v may no longer deliver it
\* until it is too late.
add_mk_firm_psfp(v, mu) ==
  UNION {LET s == mk_firm[f.stream]
             n == cycle \div s.period
         IN {[device |-> op[v].link[2], frame |-> [stream |-> f.stream, id |-> c],
              open |-> c * s.period + mu + total_max(v),
              close |-> c * s.period + s.e2e_latency] :
                c \in {i \in 0 .. Lcm(n, k(s)) - 1 : i % n = f.id /\ Elevates(s, i)}} :
         f \in op[v].frames}

\* check_stable_qos, for the frames of the last hops.
QosViolations(v, interval) ==
  IF v \notin Operation \/ snk \notin Range(op[v].route_succ) THEN {}
  ELSE {f.stream : f \in {g \in op[v].frames :
          stream_objective(qos[g], op[v].total_min + interval.crit,
                           total_max(v) + interval.mu) > 0}}

-----------------------------------------------------------------------------
(* What the handlers add to the steps of the critical path. *)

\* token_bucket() and token_bucket_diff() compute a bucket when it is first used
\* and remember it; it depends on nothing that changes.
MKInit == /\ token_bucket = [l \in {op[v].link : v \in Operation} |-> BucketOf(l, mk_firm_streams_at(l))]
          /\ token_bucket_diff = [h \in HopLinks |-> BucketOf(h[1], mk_firm_stream_diff_at(h[1], h[2]))]
          /\ mk = [v \in Vertex |-> [crit |-> 0, mu |-> 0]]
          /\ stable_qos_violations = {}
          /\ mkfirm_psfp_config = {}

MKDiscover(v) == mk' = VertexDiscovered(v) /\ UNCHANGED <<stable_qos_violations, mkfirm_psfp_config>>

MKFinishEdge(edge) ==
  /\ mk' = IF edge = NoEdge THEN mk ELSE EdgeFinished(edge)
  /\ UNCHANGED <<stable_qos_violations, mkfirm_psfp_config>>

MKFinishVertex(v) ==
  LET interval == IF v \in Operation THEN prolongation(v) ELSE mk[v]
  IN /\ mk' = [mk EXCEPT ![v] = interval]
     /\ mkfirm_psfp_config' = mkfirm_psfp_config \cup
          (IF v \in Operation THEN add_mk_firm_psfp(v, interval.mu) ELSE {})
     /\ stable_qos_violations' = stable_qos_violations \cup QosViolations(v, interval)
===============================================================================
