--------------------------- MODULE TSNConfiguration ---------------------------
(***************************************************************************)
(* TSNConfiguration<CriticalPathConfiguration> and, if extended,           *)
(* TSNConfiguration<MKFirmConfiguration>                                   *)
(* (src/src/dgm/tsn_configuration.{h,cc}): the entries of the devices,     *)
(* added in the order in which a traversal finishes the operations.        *)
(***************************************************************************)
EXTENDS MKFirm

VARIABLES extended,        \* which of the two configurations it is
          gcl_config,      \* gcl_config[<<link, pcp>>] : a gate
          psfp_config,     \* psfp_config[device] : a sequence of gates
          talker_config,   \* talker_config[f] : when frame f is sent
          listener_config  \* listener_config[f] : when it arrives

entries == <<gcl_config, psfp_config, talker_config, listener_config>>
fixed == <<extended, buckets>>
tsn_vars == <<cp_vars, mk_vars, entries, fixed>>

\* PeriodicGate: closed first, then each duration in turn; offset is what has
\* passed of the durations at time 0 (until extend_to, the last closing time).
NewGate == [durations |-> <<>>, offset |-> 0]

\* PeriodicGate::operator+=.
AddInterval(gate, opening, closing) ==
  LET n == Len(gate.durations)
  IN [durations |-> IF opening = gate.offset /\ n > 0
                      THEN [gate.durations EXCEPT ![n] = @ + (closing - opening)]
                      ELSE gate.durations \o <<opening - gate.offset, closing - opening>>,
      offset |-> closing]

\* Mutant: the gate begins with its first duration.
extend_to_start(gate, time) ==
  [durations |-> [gate.durations EXCEPT ![1] = @ + (time - gate.offset)], offset |-> 0]

\* PeriodicGate::extend_to: the gate is closed from its last closing time on.
extend_to(gate, time) ==
  [durations |-> [gate.durations EXCEPT ![1] = @ + (time - gate.offset)],
   offset |-> time - gate.offset]

\* configuration[v], once v is finished.
configuration(v) ==
  IF extended THEN [min |-> mk'[v].crit, max |-> mk'[v].mu]
  ELSE [min |-> crit_cost[v].cost, max |-> crit_cost[v].cost]

Put(f, key, value) == [x \in DOMAIN f \cup {key} |-> IF x = key THEN value ELSE f[x]]

Port(v) == <<op[v].link, op[v].pcp>>

add_gcl_entry(v, interval) ==
  Put(gcl_config, Port(v),
      AddInterval(IF Port(v) \in DOMAIN gcl_config THEN gcl_config[Port(v)] ELSE NewGate,
                  interval.min, interval.max + trans_max(v)))

add_psfp_entries(v, interval) ==
  LET device == op[v].link[2]
      gate == [frames |-> op[v].frames, open |-> interval.min + op[v].total_min,
               close |-> interval.max + total_max(v)]
  IN Put(psfp_config, device,
         Append(IF device \in DOMAIN psfp_config THEN psfp_config[device] ELSE <<>>, gate))

Entered(f, keys, value) ==
  [x \in DOMAIN f \cup keys |-> IF x \in keys THEN value ELSE f[x]]

\* visitor_finish_vertex.
AddEntries(v) ==
  LET interval == configuration(v)
  IN /\ gcl_config' = add_gcl_entry(v, interval)
     /\ psfp_config' = add_psfp_entries(v, interval)
     /\ talker_config' = IF src \in Range(op[v].route_pred)
                           THEN Entered(talker_config, op[v].talks, interval.min)
                           ELSE talker_config
     /\ listener_config' = IF snk \in Range(op[v].route_succ)
                             THEN Entered(listener_config, op[v].listens,
                                          [min |-> op[v].total_min + interval.min,
                                           max |-> total_max(v) + interval.max])
                             ELSE listener_config

-----------------------------------------------------------------------------
NoEntries == gcl_config = <<>> /\ psfp_config = <<>> /\ talker_config = <<>> /\ listener_config = <<>>

TSNInit == /\ MKInit
           /\ CPInit
           /\ extended \in BOOLEAN
           /\ NoEntries

Extended(action) == IF extended THEN action ELSE UNCHANGED mk_vars

\* The constructor begins the traversal.
Construct(G) ==
  /\ pc = "idle" /\ status = CONTINUE
  /\ Start(G)
  /\ crit_cost' = Discovered(crit_cost, start)
  /\ Extended(MKDiscover(start))
  /\ UNCHANGED <<cycle_pred, status, objective_type, valid, last_result, entries, fixed>>

TSNPop == /\ OnPop
          /\ Extended(MKFinishEdge(stack[Len(stack)].tree_edge))
          /\ UNCHANGED <<entries, fixed>>

TSNTreeEdge == /\ OnTreeEdge
               /\ Extended(MKDiscover(e.source))
               /\ UNCHANGED <<entries, fixed>>

TSNBackEdge == OnBackEdge /\ UNCHANGED <<mk_vars, entries, fixed>>

TSNCrossEdge == /\ OnCrossEdge
                /\ Extended(MKFinishEdge(e))
                /\ UNCHANGED <<entries, fixed>>

TSNFinishVertex == /\ OnFinishVertex
                   /\ Extended(MKFinishVertex(next.op))
                   /\ IF next.op \in Operation THEN AddEntries(next.op) ELSE UNCHANGED entries
                   /\ UNCHANGED fixed

TSNComplete ==
  /\ status = CONTINUE
  /\ Complete
  /\ status' = COMPLETED
  /\ gcl_config' = [p \in DOMAIN gcl_config |-> extend_to(gcl_config[p], cycle)]
  /\ UNCHANGED <<crit_cost, cycle_pred, objective_type, valid, last_result, mk_vars,
                 psfp_config, talker_config, listener_config, fixed>>

\* A cyclic graph has no configuration.
TSNAbort ==
  /\ status = ABORT
  /\ Destroy
  /\ gcl_config' = <<>> /\ psfp_config' = <<>>
  /\ talker_config' = <<>> /\ listener_config' = <<>>
  /\ stable_qos_violations' = {} /\ mkfirm_psfp_config' = {}
  /\ UNCHANGED <<crit_cost, cycle_pred, status, objective_type, valid, last_result, mk, fixed>>

TSNNext == \/ \E G \in Graphs : Construct(G)
           \/ TSNPop \/ TSNTreeEdge \/ TSNBackEdge \/ TSNCrossEdge \/ TSNFinishVertex
           \/ TSNComplete \/ TSNAbort

TSNSpec == TSNInit /\ [][TSNNext]_tsn_vars

-----------------------------------------------------------------------------
(* Properties. *)

Constructed == pc = "idle" /\ status = COMPLETED

Earliest(v) == IF extended THEN mk[v].crit ELSE crit_cost[v].cost
Latest(v) == IF extended THEN mk[v].mu ELSE crit_cost[v].cost

\* What has passed of the durations after the first n.
Passed(gate, n) ==
  LET passed[i \in 0 .. Len(gate.durations)] ==
        IF i = 0 THEN 0 ELSE passed[i - 1] + gate.durations[i]
  IN passed[n]

\* The state of a gate as INET computes it: the durations are gone through
\* again and again.
IsOpen(gate, t) ==
  LET n == Len(gate.durations)
      elapsed == (t + gate.offset) % Passed(gate, n)
  IN \E i \in 1 .. n : i % 2 = 0 /\ Passed(gate, i - 1) <= elapsed /\ elapsed < Passed(gate, i)

\* t is in the window of v in some hyper cycle.
InWindow(v, t) == (t - Earliest(v)) % cycle < Latest(v) + trans_max(v) - Earliest(v)

\* The windows of a port fit into one hyper cycle.
Fits(port) ==
  \A v, w \in PortIn(edges, port) : Latest(v) + trans_max(v) <= Earliest(w) + cycle

\* The gate of a port is open exactly in the windows of its operations, again
\* in every hyper cycle, in whichever order the traversal has finished them and
\* also if a window reaches into the next cycle.
GatesOpenForWindows ==
  Constructed => \A port \in DOMAIN gcl_config : Fits(port) =>
    \A t \in 0 .. cycle - 1 :
      IsOpen(gcl_config[port], t) = \E v \in PortIn(edges, port) : InWindow(v, t)

\* Those of ops whose frames begin in one queue take equally long on its link.
FirstHopsAreAlike(ops) ==
  \A v, w \in ops : Port(v) = Port(w) /\ HopsBefore(v) = {} => trans_max(v) = trans_max(w)

\* No frame can enter a queue before all frames ahead of it have left, however
\* they were delayed: a frame that is lost or late does not let another one
\* take its place.  On first hops the talkers see to that.
QueuesAreIsolated ==
  Constructed =>
    \A v, w \in Operation : Port(v) = Port(w) /\ v \in before[w] =>
      \A u \in HopsBefore(w) :
        Latest(v) + trans_max(v) <= Earliest(u) + op[u].total_min

\* The talkers do that for frames of one queue: what deferment() adds for the
\* same pcp keeps their windows apart.
FirstHopsAreIsolated ==
  Constructed =>
    \A v, w \in Operation : Port(v) = Port(w) /\ v \in before[w] /\ src \in Range(op[w].route_pred) =>
      Latest(v) + trans_max(v) <= Earliest(w)

\* An (m,k)-firm frame that its mask requires is admitted, elevated, from the
\* time the gate of its operation has closed until its deadline.
ElevatedFramesAreAdmitted ==
  Constructed /\ extended =>
    \A g \in mkfirm_psfp_config :
      LET s == mk_firm[g.frame.stream]
          n == cycle \div s.period
          f == [stream |-> g.frame.stream, id |-> g.frame.id % n]
      IN \E i \in DOMAIN psfp_config[g.device] :
           /\ f \in psfp_config[g.device][i].frames
           /\ g.open = psfp_config[g.device][i].close + (g.frame.id \div n) * cycle
===============================================================================
