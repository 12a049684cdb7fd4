---------------------------- MODULE GraphOperations ----------------------------
(***************************************************************************)
(* What flip and merge (src/src/dgm/transmission_graph.cc) make of a       *)
(* graph g: a record as in DisjunctiveGraph, with the frames that every    *)
(* operation transmits.  A merge joins two operations of one queue, and    *)
(* with them every pair of job neighbours that travels on together, into   *)
(* operations that transmit the frames of both: their job edges are        *)
(* redirected and the second of each pair leaves its link's vector.        *)
(*                                                                         *)
(* A loop is given by the set of what it leads to: of one element, or of   *)
(* none if it does not end within the vectors and the bounds.              *)
(***************************************************************************)
EXTENDS DisjunctiveGraph, FiniteSets

CONSTANTS MaxRequests,   \* bound: the requests that one flip or merge takes
          MaxPairs       \* bound: the pairs that one merge joins

ASSUME BoundAssumption == MaxRequests \in Nat /\ MaxPairs \in Nat

MOVE_BEFORE == "MOVE_BEFORE"
MOVE_AFTER == "MOVE_AFTER"

\* The operations, terminals excluded.
OpsOf(g) == DOMAIN g.position

OnLink(g, l) == Range(g.order[l])

Present(g, o) == o \in OnLink(g, g.link[o])

-----------------------------------------------------------------------------
(* consistent_flip, on a record s of what it changes in g. *)

\* flip_log_.insert keeps an entry that is there already.
log_flip(log, o, pos) ==
  [q \in DOMAIN log \cup {o} |-> IF q \in DOMAIN log THEN log[q] ELSE pos]

Reaches(P, pos, limit) == IF P = MOVE_BEFORE THEN pos <= limit ELSE pos >= limit

next(P, pos) == IF P = MOVE_BEFORE THEN pos - 1 ELSE pos + 1

\* Mutant: only the links further down the routes are followed.
adjacent_flips_down(g, P, pos, op, prev_op, o) ==
  {pos[p[2]] : p \in {f \in Range(NeighborPairs(g, g.route_succ[op], g.route_succ[prev_op])) :
                        /\ f[1] = o
                        /\ f[2] # o
                        /\ Reaches(P, pos[f[2]], pos[o])}}

\* The targets requested for o because op passed prev_op.
adjacent_flips(g, P, pos, op, prev_op, o) ==
  {pos[p[2]] : p \in {f \in Range(related_neighbor_pairs(g, op, prev_op)) :
                        /\ f[1] = o
                        /\ f[2] # o
                        /\ Reaches(P, pos[f[2]], pos[o])}}

AddRequests(g, P, pos, op, prev_op, requests) ==
  LET asked(o) == adjacent_flips(g, P, pos, op, prev_op, o)
                    \cup (IF o \in DOMAIN requests THEN {requests[o]} ELSE {})
  IN [o \in {q \in OpsOf(g) : asked(q) # {}} |->
        CHOOSE target \in asked(o) : \A other \in asked(o) : Reaches(P, target, other)]

\* One iteration of the for loop: o changes places with the next operation.
SwapStep(g, P, s, o) ==
  LET l == g.link[o]
      cur_pos == s.position[o]
      prev_op == s.order[l][next(P, cur_pos) + 1]
      swapped == [s.position EXCEPT ![o] = next(P, cur_pos), ![prev_op] = cur_pos]
  IN [ flip_log_ |-> log_flip(s.flip_log_, prev_op, next(P, cur_pos)),
       order     |-> [s.order EXCEPT ![l] = [@ EXCEPT ![cur_pos + 1] = prev_op,
                                                      ![next(P, cur_pos) + 1] = o]],
       position  |-> swapped,
       req_flips |-> IF g.pcp[o] = g.pcp[prev_op]
                       THEN AddRequests(g, P, swapped, o, prev_op, s.req_flips)
                       ELSE s.req_flips ]

\* The for loop: one iteration per position between; it ends if new_pos lies
\* ahead.
MoveTo(g, P, s, o, new_pos) ==
  LET distance == IF P = MOVE_BEFORE THEN s.position[o] - new_pos ELSE new_pos - s.position[o]
      moved[n \in 0 .. distance] ==
        IF n = 0 THEN {s} ELSE {SwapStep(g, P, t, o) : t \in moved[n - 1]}
  IN IF distance < 0 THEN {} ELSE moved[distance]

\* The smallest key {link, op_id}.
FirstKey(g, requests) ==
  CHOOSE o \in DOMAIN requests : \A q \in DOMAIN requests :
    g.link[o] < g.link[q] \/ (g.link[o] = g.link[q] /\ o <= q)

\* One iteration of the while loop, if requests are left.
TakeRequest(g, P, s) ==
  IF DOMAIN s.req_flips = {} THEN {s}
  ELSE UNION {LET taken == [s EXCEPT !.flip_log_ = log_flip(@, o, s.position[o]),
                                     !.req_flips = [q \in DOMAIN @ \ {o} |-> @[q]]]
              IN UNION {MoveTo(g, P, t, o, s.req_flips[o]) : t \in {taken}} :
              o \in {FirstKey(g, s.req_flips)}}

\* The while loop.
consistent_flip(g, P, s) ==
  LET after[n \in 0 .. MaxRequests] ==
        IF n = 0 THEN {s} ELSE UNION {TakeRequest(g, P, t) : t \in after[n - 1]}
  IN {t \in after[MaxRequests] : DOMAIN t.req_flips = {}}

NoLog == [q \in {} |-> 0]

Flipped(g, P, requests) ==
  consistent_flip(g, P, [flip_log_ |-> NoLog, order |-> g.order, position |-> g.position,
                         req_flips |-> requests])

\* flip(op_id, new_pos), as the set of what it makes of the order and the log.
FlipOf(g, o, new_pos) ==
  LET P == IF g.position[o] > new_pos THEN MOVE_BEFORE ELSE MOVE_AFTER
  IN Flipped(g, P, [q \in {o} |-> new_pos])

Reordered(g, s) == [g EXCEPT !.order = s.order, !.position = s.position]

\* The same, as the set of the graph it leads to.
flip(g, o, new_pos) == {Reordered(g, s) : s \in FlipOf(g, o, new_pos)}

\* The positions that log leads back to.
Back(position, log) ==
  [o \in DOMAIN position |-> IF o \in DOMAIN log THEN log[o] ELSE position[o]]

\* The operation in slot i of l after undo_last_flip: the one logged there, the
\* last of them in the order of the log's keys, else the one there now.
Restored(g, log, l, i) ==
  LET back == {o \in DOMAIN log : g.link[o] = l /\ log[o] = i - 1}
  IN IF back = {} THEN g.order[l][i]
                  ELSE CHOOSE o \in back : \A q \in back : q <= o

\* undo_last_flip(): every logged operation back to its slot.
undo(g, log) ==
  [g EXCEPT !.order = [l \in DOMAIN @ |-> [i \in DOMAIN @[l] |-> Restored(g, log, l, i)]],
            !.position = Back(@, log)]

-----------------------------------------------------------------------------
(* merge. *)

\* The pairs that are new are appended to those to visit.
VisitNew(finished, visited, next_pairs) ==
  LET seen[n \in 0 .. Len(next_pairs)] ==
        IF n = 0 THEN visited
        ELSE IF next_pairs[n] \in finished \cup Range(seen[n - 1])
               THEN seen[n - 1]
               ELSE Append(seen[n - 1], next_pairs[n])
  IN seen[Len(next_pairs)]

\* One pair of the breadth-first search is finished, if there is one.
Explore(g, search) ==
  IF search.visited = <<>> THEN search
  ELSE LET cur == Head(search.visited)
           next_pairs == related_neighbor_pairs(g, cur[1], cur[2])
       IN [ finished |-> Append(search.finished, cur),
            visited  |-> Tail(VisitNew(Range(search.finished), search.visited, next_pairs)) ]

\* Mutant: the neighbours of the pair only.
equivalence_class_near(g, pair) == {<<pair>> \o related_neighbor_pairs(g, pair[1], pair[2])}

\* The pairs that have to be merged along with pair, in the order of the search.
equivalence_class(g, pair) ==
  LET explored[n \in 0 .. MaxPairs] ==
        IF n = 0 THEN {[finished |-> <<>>, visited |-> <<pair>>]}
        ELSE {Explore(g, search) : search \in explored[n - 1]}
  IN {search.finished : search \in {t \in explored[MaxPairs] : t.visited = <<>>}}

\* The first of the two operations on their link.
InOrder(g, o, q) == IF g.position[o] > g.position[q] THEN <<q, o>> ELSE <<o, q>>

\* The operations that are merged into others.
SecondsOf(pairs) == {pairs[i][2] : i \in DOMAIN pairs}

\* Mutant: the second is requested in the place of the first.
MergeRequests_before(position, pairs) ==
  [o \in SecondsOf(pairs) |->
     LET first == CHOOSE i \in DOMAIN pairs :
                    /\ pairs[i][2] = o
                    /\ \A j \in DOMAIN pairs : pairs[j][2] = o => i <= j
     IN position[pairs[first][1]]]

\* The second of each pair is requested right behind the first; insert keeps
\* an earlier request for the same operation.
MergeRequests(position, pairs) ==
  [o \in SecondsOf(pairs) |->
     LET first == CHOOSE i \in DOMAIN pairs :
                    /\ pairs[i][2] = o
                    /\ \A j \in DOMAIN pairs : pairs[j][2] = o => i <= j
     IN position[pairs[first][1]] + 1]

\* Mutant: the neighbours merged away are kept.
keep_merged_neighbors(pairs, neighbors) == neighbors

\* The neighbours that are not merged away themselves.
delete_merged_neighbors(pairs, neighbors) == Only(neighbors, Range(neighbors) \ SecondsOf(pairs))

\* old_op replaced by new_op in the lists of the given operations.
Relinked(lists, ops, old_op, new_op) ==
  [o \in DOMAIN lists |->
     IF o \in ops
       THEN [i \in DOMAIN lists[o] |-> IF lists[o][i] = old_op THEN new_op ELSE lists[o][i]]
       ELSE lists[o]]

\* Mutant: the frames of the second are dropped.
MergePairDroppingFrames(pairs, g, pair) ==
  LET op1 == pair[1]
      op2 == pair[2]
      preds == delete_merged_neighbors(pairs, g.route_pred[op2])
      succ1 == Relinked(g.route_succ, Range(preds), op2, op1)
      succs == delete_merged_neighbors(pairs, succ1[op2])
      pred1 == Relinked([g.route_pred EXCEPT ![op2] = preds, ![op1] = @ \o preds],
                        Range(succs), op2, op1)
  IN [g EXCEPT !.route_pred = pred1,
               !.route_succ = [succ1 EXCEPT ![op2] = succs, ![op1] = @ \o succs],
               !.frames     = [@ EXCEPT ![op2] = {}]]

\* The frames and the job edges of one pair are merged.
MergePair(pairs, g, pair) ==
  LET op1 == pair[1]
      op2 == pair[2]
      preds == delete_merged_neighbors(pairs, g.route_pred[op2])
      succ1 == Relinked(g.route_succ, Range(preds), op2, op1)
      succs == delete_merged_neighbors(pairs, succ1[op2])
      pred1 == Relinked([g.route_pred EXCEPT ![op2] = preds, ![op1] = @ \o preds],
                        Range(succs), op2, op1)
      succ2 == [succ1 EXCEPT ![op2] = succs, ![op1] = @ \o succs]
      frames1 == [g.frames EXCEPT ![op1] = @ \cup g.frames[op2], ![op2] = @ \cap g.frames[op1]]
  IN [g EXCEPT !.route_pred = pred1, !.route_succ = succ2, !.frames = frames1]

\* Mutant: the operations behind it keep their positions.
ErasePairOnly(g, pair) ==
  LET o == pair[2]
      left == RemoveAt(g.order[g.link[o]], g.position[o] + 1)
  IN [g EXCEPT !.order = [@ EXCEPT ![g.link[o]] = left],
               !.position = [@ EXCEPT ![o] = Len(left)]]

\* Mutant: it is invalid, but stays in the vector.
ErasePairInPlace(g, pair) ==
  [g EXCEPT !.position[pair[2]] = Len(g.order[g.link[pair[2]]])]

\* The second of a pair leaves its vector.
ErasePair(g, pair) ==
  LET o == pair[2]
      l == g.link[o]
      pos == g.position[o]
      later == {g.order[l][i] : i \in pos + 1 .. Len(g.order[l])}
      left == RemoveAt(g.order[l], pos + 1)
  IN [g EXCEPT !.order = [@ EXCEPT ![l] = left],
               !.position = [q \in OpsOf(g) |-> CASE q = o -> Len(left)
                                                  [] q \in later \ {o} -> @[q] - 1
                                                  [] OTHER -> @[q]]]

\* The assertions at the beginning of merge.
Mergeable(g, o, q) ==
  /\ o # q
  /\ Present(g, o) /\ Present(g, q)
  /\ g.link[o] = g.link[q]
  /\ g.pcp[o] = g.pcp[q]

\* The order after the flips of merge, before anything is merged.
BroughtTogether(g, pairs) == Flipped(g, MOVE_BEFORE, MergeRequests(g.position, pairs))

\* The loops over the pairs.
MergePairs(pairs, g) ==
  LET merged[k \in 0 .. Len(pairs)] ==
        IF k = 0 THEN {g} ELSE {MergePair(pairs, m, pairs[k]) : m \in merged[k - 1]}
  IN merged[Len(pairs)]

ErasePairs(pairs, g) ==
  LET erased[k \in 0 .. Len(pairs)] ==
        IF k = 0 THEN {g} ELSE {ErasePair(m, pairs[k]) : m \in erased[k - 1]}
  IN erased[Len(pairs)]

\* merge({o, q}), as the set of the graph it leads to.
merge(g, o, q) ==
  UNION {UNION {UNION {ErasePairs(pairs, m) :
                         m \in MergePairs(pairs, [g EXCEPT !.order = s.order, !.position = s.position])} :
                  s \in BroughtTogether(g, pairs)} :
           pairs \in equivalence_class(g, InOrder(g, o, q))}

-----------------------------------------------------------------------------
(* What is asked of a graph. *)

\* What remains of a graph without the vertices that no edge enters, again
\* and again: nothing, or the cycles and what lies behind them.
Peel(edges, vertices) ==
  LET left[n \in Nat] ==
        IF n = 0 THEN vertices
        ELSE LET last == left[n - 1]
             IN {v \in last : \E e \in edges : e[1] \in last /\ e[2] = v}
  IN left[Cardinality(vertices)]

VerticesOf(g) == {o \in OpsOf(g) : Present(g, o)} \cup {SOURCE_ID, SINK_ID}

\* Whether the traversal from SINK meets no back edge.
IsAcyclic(g) == Peel(UNION {EdgesInto(g, v) : v \in VerticesOf(g)}, VerticesOf(g)) = {}

\* No operation is in two pairs, and job edges between the second operations
\* are parallel to some between the first.
ArePairwise(g, pairs) ==
  \A i, j \in DOMAIN pairs :
    /\ i # j => {pairs[i][1], pairs[i][2]} \cap {pairs[j][1], pairs[j][2]} = {}
    /\ pairs[i][2] \in Range(g.route_pred[pairs[j][2]]) =>
         pairs[i][1] \in Range(g.route_pred[pairs[j][1]])

\* check_consistency(): no queue has to reorder frames, if the operations
\* stand at pos.
check_consistency(g, pos) ==
  \A l \in DOMAIN g.order : \A o, q \in OnLink(g, l) :
    g.pcp[o] = g.pcp[q] /\ pos[o] < pos[q] =>
      \A p \in Range(related_neighbor_pairs(g, o, q)) : pos[p[1]] <= pos[p[2]]
=============================================================================
