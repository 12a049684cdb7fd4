------------------------- MODULE IncrementalHeuristic -------------------------
(***************************************************************************)
(* The initial heuristics (src/src/heuristic/initial/initial.cc) add one   *)
(* stream after the other to a schedule.  StrictTemporalIsolation merges   *)
(* the graph of the stream into g.  IncrementalHeuristic keeps the graphs  *)
(* of the wired and of the wireless streams as well; a wireless stream is  *)
(* merged into the latter, batched with others where frames have to queue  *)
(* behind a wireless hop (aggregation.cc), and g is merged from both.      *)
(*                                                                         *)
(* A call of add_stream returns whether the stream is accepted.  Where the *)
(* code would follow a null pointer or an iterator at its end, the         *)
(* program's behaviour is undefined and the model stops.                   *)
(***************************************************************************)
EXTENDS GraphMerger

CONSTANT MaxCalls \* Bound: the calls of add_stream

VARIABLES heuristic,          \* which of the two
          g,                  \* the schedule
          g_wired, g_wireless,
          feasible_streams,   \* feasible_streams_
          result,             \* what add_stream has returned for a stream
          merged,             \* history: the graphs that the last call has merged
          defined             \* history: no undefined behaviour yet

vars == <<heuristic, g, g_wired, g_wireless, feasible_streams, result, merged, defined>>

STRICT == "StrictTemporalIsolationHeuristic"
INCREMENTAL == "IncrementalHeuristic"

StreamIds == DOMAIN Streams

has_wireless_links(s) == Streams[s].wireless # {}

\* filtered_streams: the streams of a set in the order of the storage.
Filtered(ids) == Sorted(ids, <)

-----------------------------------------------------------------------------
(* NecessaryQueueingMerge::compress_stream. *)

MERGE_BEFORE == "MERGE_BEFORE"
MERGE_AFTER == "MERGE_AFTER"

NoOp == SOURCE_ID

contains(h, o, s) == \E f \in h.frames[o] : f[1] = s

\* The links behind the wireless hops, in the order of the route.
bottleneck_links(s) ==
  FlattenSeq([i \in DOMAIN Streams[s].hops |->
    IF Streams[s].hops[i] \notin Streams[s].wireless THEN <<>>
    ELSE LET onward == SelectSeq(Streams[s].consecutive, LAMBDA pair : pair[1] = Streams[s].hops[i])
         IN [j \in DOMAIN onward |-> onward[j][2]]])

merge_condition(P, h, o, prev, s) ==
  prev # NoOp /\ (contains(h, o, s) <=> P = MERGE_BEFORE)

update_condition(P, h, o, s) == contains(h, o, s) <=> P = MERGE_AFTER

\* critical_path() after a merge: what was computed before the merge, if there
\* was a result.  A graph with a cycle leaves none.
CacheAfter(cache, h) ==
  IF cache # "none" THEN cache
  ELSE IF ~IsAcyclic(h) THEN "none" ELSE IF is_feasible(h) THEN "feasible" ELSE "infeasible"

\* One iteration of the loops, on a record c of their variables.
CompressStep(P, s, c) ==
  LET l == Head(c.links)
      o == OpAt(c.h, l, c.i)
  IN IF c.returned \/ c.links = <<>> THEN {c}
     ELSE IF c.i >= Len(c.h.order[l])
       THEN {[c EXCEPT !.links = Tail(@), !.i = 0, !.prev = NoOp]}
     ELSE IF c.h.pcp[o] # Streams[s].pcp THEN {[c EXCEPT !.i = @ + 1]}
     ELSE IF merge_condition(P, c.h, o, c.prev, s)
       THEN {[c EXCEPT !.h = h, !.prev = NoOp, !.cache = CacheAfter(c.cache, h),
                       !.returned = (CacheAfter(c.cache, h) = "feasible")] :
               h \in merge(c.h, c.prev, o)}
     ELSE {[c EXCEPT !.i = @ + 1, !.prev = IF update_condition(P, c.h, o, s) THEN o ELSE @]}

\* Bound: more iterations than the loops take in the instances.
MaxIterations(h, s) ==
  Len(bottleneck_links(s)) * (Cardinality(OpsOf(h)) + 1) + Cardinality(OpsOf(h))

\* The loops after n iterations.
compress_loop(P, h, s) ==
  LET loop[n \in Nat] ==
        IF n = 0 THEN {[h |-> h, links |-> bottleneck_links(s), i |-> 0, prev |-> NoOp,
                        cache |-> "none", returned |-> FALSE]}
        ELSE UNION {CompressStep(P, s, c) : c \in loop[n - 1]}
  IN loop

compress_with(P, h, s) == {c.h : c \in compress_loop(P, h, s)[MaxIterations(h, s)]}

makespan(h) == {cost[SINK_ID] : cost \in Costs(h)}

\* compress_stream: the graphs it may return are those of the two policies;
\* none is given if the makespan of a graph with a cycle is asked for.
compress_stream(h, s) ==
  UNION {CASE is_feasible(h1) /\ ~is_feasible(h2) -> {h1}
           [] ~is_feasible(h1) /\ is_feasible(h2) -> {h2}
           [] is_feasible(h1) <=> is_feasible(h2) ->
                IF IsAcyclic(h1) /\ IsAcyclic(h2)
                  THEN {IF \A m1 \in makespan(h1), m2 \in makespan(h2) : m1 < m2 THEN h1 ELSE h2}
                  ELSE {} :
         h1 \in compress_with(MERGE_AFTER, h, s), h2 \in compress_with(MERGE_BEFORE, h, s)}

-----------------------------------------------------------------------------
(* add_stream. *)

\* add_stream(s) may be called.
MayCall(s) ==
  /\ defined
  /\ result[s] = "none"
  /\ Cardinality({q \in StreamIds : result[q] # "none"}) < MaxCalls

WiredOf(ids) == {s \in ids : ~has_wireless_links(s)}

With(s) == feasible_streams \cup {s}

Init ==
  /\ heuristic \in {STRICT, INCREMENTAL}
  /\ g = EmptyGraph /\ g_wired = EmptyGraph /\ g_wireless = EmptyGraph
  /\ feasible_streams = {}
  /\ result = [s \in StreamIds |-> "none"]
  /\ merged = {}
  /\ defined = TRUE

\* The end of add_stream: g_new replaces g if it is feasible.
Return(s, g_new) ==
  IF is_feasible(g_new)
    THEN /\ g' = g_new
         /\ feasible_streams' = With(s)
         /\ result' = [result EXCEPT ![s] = "accepted"]
    ELSE /\ result' = [result EXCEPT ![s] = "rejected"]
         /\ UNCHANGED <<g, feasible_streams>>

\* A call that meets undefined behaviour.
Undefined(s) ==
  /\ defined' = FALSE
  /\ result' = [result EXCEPT ![s] = "undefined"]
  /\ merged' = {}
  /\ UNCHANGED <<heuristic, g, g_wired, g_wireless, feasible_streams>>

AddIsolated(s) ==
  /\ MayCall(s) /\ heuristic = STRICT
  /\ \E graph \in StreamGraph(s) :
       IF IsDefined(g, graph, Filtered(With(s)))
         THEN /\ \E g_new \in generate(g, graph, Filtered(With(s))) :
                   Return(s, g_new) /\ merged' = {g_new}
              /\ UNCHANGED <<heuristic, g_wired, g_wireless, defined>>
         ELSE Undefined(s)

\* Mutant: the graph of the wired streams is merged before g_new is checked.
AddWiredEagerly(s) ==
  /\ MayCall(s) /\ heuristic = INCREMENTAL /\ ~has_wireless_links(s)
  /\ \E graph \in StreamGraph(s) :
       IF IsDefined(g, graph, Filtered(With(s)))
            /\ IsDefined(g_wired, graph, Filtered(WiredOf(With(s))))
         THEN /\ \E g_new \in generate(g, graph, Filtered(With(s))) :
                   Return(s, g_new) /\ merged' = {g_new}
              /\ g_wired' \in generate(g_wired, graph, Filtered(WiredOf(With(s))))
              /\ UNCHANGED <<heuristic, g_wireless, defined>>
         ELSE Undefined(s)

\* add_wired_stream: the graph of the wired streams follows if g_new is feasible.
AddWired(s) ==
  /\ MayCall(s) /\ heuristic = INCREMENTAL /\ ~has_wireless_links(s)
  /\ \E graph \in StreamGraph(s) :
       IF ~IsDefined(g, graph, Filtered(With(s))) THEN Undefined(s)
       ELSE \E g_new \in generate(g, graph, Filtered(With(s))) :
         IF is_feasible(g_new) /\ ~IsDefined(g_wired, graph, Filtered(WiredOf(With(s))))
           THEN Undefined(s)
           ELSE /\ Return(s, g_new)
                /\ IF is_feasible(g_new)
                     THEN g_wired' \in generate(g_wired, graph, Filtered(WiredOf(With(s))))
                     ELSE UNCHANGED g_wired
                /\ merged' = {g_new} \cup {h \in {g_wired'} : is_feasible(g_new)}
                /\ UNCHANGED <<heuristic, g_wireless, defined>>

\* add_wireless_stream.
AddWireless(s) ==
  LET wireless == Filtered(With(s) \ WiredOf(With(s)))
  IN /\ MayCall(s) /\ heuristic = INCREMENTAL /\ has_wireless_links(s)
     /\ \E graph \in StreamGraph(s) :
          IF ~IsDefined(g_wireless, graph, wireless) THEN Undefined(s)
          ELSE \E compressed \in {UNION {compress_stream(h, s) :
                                           h \in generate(g_wireless, graph, wireless)}} :
            IF \A h \in compressed : ~IsDefined(g_wired, h, Filtered(With(s))) THEN Undefined(s)
            ELSE \E h \in compressed : \E g_new \in generate(g_wired, h, Filtered(With(s))) :
                   /\ Return(s, g_new)
                   /\ merged' = {h, g_new}
                   /\ g_wireless' = IF is_feasible(g_new) THEN h ELSE g_wireless
                   /\ UNCHANGED <<heuristic, g_wired, defined>>

Next == \E s \in StreamIds : AddIsolated(s) \/ AddWired(s) \/ AddWireless(s)

Spec == Init /\ [][Next]_vars

-----------------------------------------------------------------------------
(* Properties. *)

\* The graph holds every frame of the streams once per hop.
Schedules(h, ids) ==
  /\ \A s \in ids : \A f \in Range(FramesOf(s)) : \A l \in Range(Streams[s].hops) :
       Cardinality({o \in OpsOf(h) : h.link[o] = l /\ f \in h.frames[o]}) = 1
  /\ UNION {h.frames[o] : o \in OpsOf(h)} = UNION {Range(FramesOf(s)) : s \in ids}

\* Whichever streams were rejected, g is feasible and schedules the accepted
\* ones, the other graphs schedule the wired and the wireless ones of them.
GraphsFollowAdmission ==
  /\ is_feasible(g) /\ Schedules(g, feasible_streams)
  /\ heuristic = INCREMENTAL =>
       /\ Schedules(g_wired, WiredOf(feasible_streams))
       /\ Schedules(g_wireless, feasible_streams \ WiredOf(feasible_streams))

\* assert(check_consistency()) for every graph that is merged: the mergers'
\* flips, and the batches, leave no queue that has to reorder frames, whether
\* the stream is accepted or not.
QueuesAreFIFO == \A h \in merged : check_consistency(h, h.position)

\* No call meets undefined behaviour: no graph kept for later has a cycle.
CallsAreDefined == defined /\ \A h \in {g, g_wired, g_wireless} : IsAcyclic(h)
=============================================================================
