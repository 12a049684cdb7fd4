---------------------------- MODULE ConsistentFlip ----------------------------
(***************************************************************************)
(* TransmissionGraph::flip and undo_last_flip, step by step                *)
(* (src/src/dgm/transmission_graph.cc).                                    *)
(*                                                                         *)
(* A flip moves one operation to a new position on its link by adjacent    *)
(* swaps.  Whenever it passes an operation of the same queue, the job      *)
(* neighbours of the two have to be brought into the same order, or the    *)
(* queue of the neighbouring device would have to reorder frames: the      *)
(* flips this takes are collected in req_flips and carried out one by one, *)
(* each of them possibly requesting more.  flip_log remembers where every  *)
(* touched operation stood before, for undo_last_flip.                     *)
(*                                                                         *)
(* The order of a link is kept twice, as the code keeps it: order[l] is    *)
(* the vector of the operations of l, position[o] the index of o in it.    *)
(* One action is one iteration of a loop of consistent_flip<P>.            *)
(***************************************************************************)
EXTENDS TransmissionOperations

CONSTANT InitialArrangements  \* what the constructors may start from

ASSUME InitialAssumption ==
  \A pos \in InitialArrangements :
     IsArrangement(pos) /\ check_consistency(pos)

VARIABLES order,      \* processing_order_.map
          position,   \* position_[id].second
          flip_log,   \* flip_log_: the positions before the last flip
          inst,       \* the FlipInstruction being executed, Idle if none
          policy,     \* the template parameter P
          req_flips,  \* the requested flips: operation -> new position
          mover,      \* op_id of the request being carried out, NoOp if none
          new_pos,    \* where mover goes
          cur_pos     \* where mover is

vars == <<order, position, flip_log, inst, policy, req_flips, mover, new_pos, cur_pos>>

loop == <<mover, new_pos, cur_pos>>

MOVE_BEFORE == "MOVE_BEFORE"
MOVE_AFTER == "MOVE_AFTER"

Idle == [op_id |-> NoOp, new_pos |-> 0]
NoFlips == [o \in {} |-> 0]

-----------------------------------------------------------------------------
(* Auxiliary operators. *)

\* The vector of link l under the arrangement pos.
OrderOf(pos) ==
  [l \in Link |-> [i \in Slots(l) |-> CHOOSE o \in OpsOn(l) : pos[o] = i]]

\* Mutants: the position an operation is pushed to is logged; the log is
\* overwritten at every touch.
log_flip_late(log, o, pos) ==
  [q \in DOMAIN log \cup {o} |-> IF q \in DOMAIN log THEN log[q] ELSE pos + 1]
log_flip_again(log, o, pos) ==
  [q \in DOMAIN log \cup {o} |-> IF q = o THEN pos ELSE log[q]]

\* flip_log_.insert keeps an entry that is there already.
log_flip(log, o, pos) ==
  [q \in DOMAIN log \cup {o} |-> IF q \in DOMAIN log THEN log[q] ELSE pos]

next(pos) == IF policy = MOVE_BEFORE THEN pos - 1 ELSE pos + 1

\* pos is at least as far in the direction of the flip as limit.
Reaches(pos, limit) == IF policy = MOVE_BEFORE THEN pos <= limit ELSE pos >= limit

\* std::map iterates its keys {link, op_id} in ascending order.
IsFirstKey(o) ==
  /\ o \in DOMAIN req_flips
  /\ \A q \in DOMAIN req_flips :
       link[o] < link[q] \/ (link[o] = link[q] /\ o <= q)

\* Mutant: only the links further down the routes are followed.
adjacent_flips_down(pos, op, prev_op) ==
  {p \in related_neighbor_pairs(op, prev_op) :
     /\ p[1] \in route_succ[op]
     /\ IF policy = MOVE_BEFORE THEN pos[p[2]] < pos[p[1]]
                                ELSE pos[p[2]] > pos[p[1]]}

\* The neighbours that have to move as well because op passed prev_op: the
\* pairs whose order on their link is now the opposite of that of op and
\* prev_op.
adjacent_flips(pos, op, prev_op) ==
  {p \in related_neighbor_pairs(op, prev_op) :
     IF policy = MOVE_BEFORE THEN pos[p[2]] < pos[p[1]]
                             ELSE pos[p[2]] > pos[p[1]]}

\* The positions requested for o by flips, the earlier request included.
Requested(pos, o, flips) ==
  {pos[p[2]] : p \in {f \in flips : f[1] = o}}
    \cup (IF o \in DOMAIN req_flips THEN {req_flips[o]} ELSE {})

\* Mutant: an earlier request for the same operation is kept as it is.
AddRequests_once(pos, flips) ==
  [o \in DOMAIN req_flips \cup {p[1] : p \in flips} |->
     IF o \in DOMAIN req_flips THEN req_flips[o]
     ELSE CHOOSE target \in Requested(pos, o, flips) : TRUE]

\* req_flips after the requests of adjacent_flips: the furthest one counts.
AddRequests(pos, flips) ==
  [o \in DOMAIN req_flips \cup {p[1] : p \in flips} |->
     CHOOSE target \in Requested(pos, o, flips) :
       \A other \in Requested(pos, o, flips) : Reaches(target, other)]

-----------------------------------------------------------------------------
Init == /\ position \in InitialArrangements
        /\ order = OrderOf(position)
        /\ flip_log = NoFlips
        /\ inst = Idle
        /\ policy = MOVE_BEFORE
        /\ req_flips = NoFlips
        /\ mover = NoOp
        /\ new_pos = 0
        /\ cur_pos = 0

\* Mutants: the direction is chosen the wrong way round; a flip forward stops
\* one short.
FlipBackwards(o, pos) ==
  /\ inst = Idle
  /\ inst' = [op_id |-> o, new_pos |-> pos]
  /\ flip_log' = NoFlips
  /\ policy' = IF position[o] > pos THEN MOVE_AFTER ELSE MOVE_BEFORE
  /\ req_flips' = [q \in {o} |-> pos]
  /\ UNCHANGED <<order, position, loop>>

FlipShort(o, pos) ==
  /\ inst = Idle
  /\ inst' = [op_id |-> o, new_pos |-> pos]
  /\ flip_log' = NoFlips
  /\ policy' = IF position[o] > pos THEN MOVE_BEFORE ELSE MOVE_AFTER
  /\ req_flips' = [q \in {o} |-> IF position[o] > pos THEN pos + 1 ELSE pos]
  /\ UNCHANGED <<order, position, loop>>

\* flip(op_id, new_pos): clear the log, choose the direction, and start with
\* the one request of the caller.
Flip(o, pos) ==
  /\ inst = Idle
  /\ inst' = [op_id |-> o, new_pos |-> pos]
  /\ flip_log' = NoFlips
  /\ policy' = IF position[o] > pos THEN MOVE_BEFORE ELSE MOVE_AFTER
  /\ req_flips' = [q \in {o} |-> pos]
  /\ UNCHANGED <<order, position, loop>>

\* Mutant: the request taken is not erased.
TakeRequestAgain(o) ==
  /\ inst # Idle
  /\ mover = NoOp
  /\ IsFirstKey(o)
  /\ flip_log' = log_flip(flip_log, o, position[o])
  /\ mover' = o
  /\ new_pos' = req_flips[o]
  /\ cur_pos' = position[o]
  /\ UNCHANGED <<order, position, inst, policy, req_flips>>

\* while (!req_flips.empty()): take the first request.
TakeRequest(o) ==
  /\ inst # Idle
  /\ mover = NoOp
  /\ IsFirstKey(o)
  /\ flip_log' = log_flip(flip_log, o, position[o])
  /\ req_flips' = [q \in DOMAIN req_flips \ {o} |-> req_flips[q]]
  /\ mover' = o
  /\ new_pos' = req_flips[o]
  /\ cur_pos' = position[o]
  /\ UNCHANGED <<order, position, inst, policy>>

\* for (cur_pos != new_pos): swap the operation at cur_pos with the next one.
SwapStep ==
  /\ mover # NoOp
  /\ cur_pos # new_pos
  /\ LET l == link[mover]
         op == order[l][cur_pos]
         prev_op == order[l][next(cur_pos)]
         swapped == [position EXCEPT ![op] = next(@),
                                     ![prev_op] = IF policy = MOVE_BEFORE THEN @ + 1 ELSE @ - 1]
     IN /\ flip_log' = log_flip(flip_log, prev_op, next(cur_pos))
        /\ order' = [order EXCEPT ![l] = [@ EXCEPT ![cur_pos] = prev_op,
                                                   ![next(cur_pos)] = op]]
        /\ position' = swapped
        /\ req_flips' = IF pcp[op] = pcp[prev_op]
                          THEN AddRequests(swapped, adjacent_flips(swapped, op, prev_op))
                          ELSE req_flips
  /\ cur_pos' = next(cur_pos)
  /\ UNCHANGED <<inst, policy, mover, new_pos>>

\* The for loop ends: the request is fulfilled.
EndRequest ==
  /\ mover # NoOp
  /\ cur_pos = new_pos
  /\ mover' = NoOp
  /\ new_pos' = 0
  /\ cur_pos' = 0
  /\ UNCHANGED <<order, position, flip_log, inst, policy, req_flips>>

\* The while loop ends and flip returns.
Return ==
  /\ inst # Idle
  /\ mover = NoOp
  /\ req_flips = NoFlips
  /\ inst' = Idle
  /\ policy' = MOVE_BEFORE
  /\ UNCHANGED <<order, position, flip_log, req_flips, loop>>

\* The operation in slot i of l after undo_last_flip: the one logged there,
\* the last of them in the order of the log's keys, else the one there now.
Restored(l, i) ==
  LET back == {o \in DOMAIN flip_log : link[o] = l /\ flip_log[o] = i}
  IN IF back = {} THEN order[l][i]
                  ELSE CHOOSE o \in back : \A q \in back : q <= o

\* Mutant: the vectors of the links are not restored.
UndoPositionsOnly ==
  /\ inst = Idle
  /\ position' = [o \in Op |-> IF o \in DOMAIN flip_log THEN flip_log[o] ELSE position[o]]
  /\ flip_log' = NoFlips
  /\ UNCHANGED <<order, inst, policy, req_flips, loop>>

\* undo_last_flip(): every logged operation back to its slot.
UndoLastFlip ==
  /\ inst = Idle
  /\ order' = [l \in Link |-> [i \in Slots(l) |-> Restored(l, i)]]
  /\ position' = [o \in Op |-> IF o \in DOMAIN flip_log THEN flip_log[o] ELSE position[o]]
  /\ flip_log' = NoFlips
  /\ UNCHANGED <<inst, policy, req_flips, loop>>

-----------------------------------------------------------------------------
CallFlip == \E o \in Op : \E pos \in Slots(link[o]) : Flip(o, pos)

\* The steps of a flip under way.
Step == \/ \E o \in Op : TakeRequest(o)
        \/ SwapStep
        \/ EndRequest
        \/ Return

Next == CallFlip \/ Step \/ UndoLastFlip

Spec == Init /\ [][Next]_vars

\* A flip is one sequential call: it keeps taking steps until it returns.
FairSpec == Spec /\ WF_vars(Step)

-----------------------------------------------------------------------------
(* Properties. *)

\* Every variable stays in its range: positions stay on their link, requests
\* name positions of their link, and the local variables of the loop exist
\* only while a request is carried out.
TypeOK ==
  /\ DOMAIN order = Link
  /\ \A l \in Link : order[l] \in [Slots(l) -> OpsOn(l)]
  /\ position \in [Op -> Nat]
  /\ \A o \in Op : position[o] \in Slots(link[o])
  /\ DOMAIN flip_log \subseteq Op
  /\ \A o \in DOMAIN flip_log : flip_log[o] \in Slots(link[o])
  /\ \/ inst = Idle
     \/ /\ inst.op_id \in Op
        /\ inst.new_pos \in Slots(link[inst.op_id])
        /\ inst = [op_id |-> inst.op_id, new_pos |-> inst.new_pos]
  /\ policy \in {MOVE_BEFORE, MOVE_AFTER}
  /\ DOMAIN req_flips \subseteq Op
  /\ \A o \in DOMAIN req_flips : req_flips[o] \in Slots(link[o])
  /\ \/ mover = NoOp /\ new_pos = 0 /\ cur_pos = 0
     \/ /\ mover \in Op
        /\ new_pos \in Slots(link[mover])
        /\ cur_pos \in Slots(link[mover])
  /\ inst = Idle => mover = NoOp /\ req_flips = NoFlips

\* The two representations of the order agree: looking up an operation's
\* position and then that slot of its link's vector leads back to it
\* (position_ and processing_order_.map, updated apart from each other in
\* consistent_flip and undo_last_flip).
OrderMatchesPosition ==
  \A l \in Link : \A o \in OpsOn(l) : \A i \in Slots(l) :
     order[l][i] = o <=> position[o] = i

\* The loops of consistent_flip stay within the vector: the request carried
\* out is at cur_pos and lies ahead in the direction of the flip, and so do
\* the pending ones, however far their operations were pushed in between.
\* (With a target behind, cur_pos != new_pos would run off the vector.)
InBounds ==
  /\ mover # NoOp => /\ position[mover] = cur_pos
                     /\ Reaches(new_pos, cur_pos)
  /\ \A o \in DOMAIN req_flips : Reaches(req_flips[o], position[o])

\* No two frames of one queue leave a device in another order than they
\* entered it, whenever no flip is under way: what check_consistency() returns.
QueuesAreFIFO == inst = Idle => check_consistency(position)

\* m is still to pass n: by a pending request or the one carried out.
Due(m, n) ==
  \/ m \in DOMAIN req_flips /\ Reaches(req_flips[m], position[n])
  \/ m = mover /\ Reaches(new_pos, position[n])

\* Why the cascade may stop when req_flips is empty: every inversion that
\* exists between two links during a flip is due to be removed by a request.
InversionsAreCovered ==
  \A o, q \in Op : \A p \in related_neighbor_pairs(o, q) :
     Inverted(position, o, q, p[1], p[2]) =>
       IF policy = MOVE_BEFORE THEN Due(p[1], p[2]) \/ Due(q, o)
                               ELSE Due(p[2], p[1]) \/ Due(o, q)

\* The arrangement undo_last_flip would go back to.
Before ==
  [o \in Op |-> IF o \in DOMAIN flip_log THEN flip_log[o] ELSE position[o]]

\* At most one operation per link is moved by a flip: all of them transmit the
\* frame of the operation the caller named, and none is requested while moving.
MoversAreOneFrame ==
  /\ \A o \in DOMAIN req_flips \cup ({mover} \ {NoOp}) : frame[o] = frame[inst.op_id]
  /\ mover \notin DOMAIN req_flips

\* flip_log can be undone at any time: the logged operations stand in slots
\* they were logged from, in some order, no slot is logged twice, and what the
\* log leads back to is an arrangement with FIFO queues.
LogIsSound ==
  /\ mover # NoOp => mover \in DOMAIN flip_log
  /\ \A o \in DOMAIN flip_log : \E q \in DOMAIN flip_log :
       link[q] = link[o] /\ flip_log[q] = position[o]
  /\ IsArrangement(Before)
  /\ check_consistency(Before)

\* How far a flip has come: the operations of its frame have moved only in its
\* direction, the others have kept their order, and the operation the caller
\* named has arrived or is still requested to.
FlipProgress ==
  LET op == inst.op_id
  IN inst # Idle =>
       /\ policy = MOVE_BEFORE <=> Before[op] > inst.new_pos
       /\ \A o \in Op : frame[o] = frame[op] => Reaches(position[o], Before[o])
       /\ \A o, q \in Op :
            /\ frame[o] # frame[op] /\ frame[q] # frame[op]
            /\ link[o] = link[q] /\ Before[o] < Before[q]
            => position[o] < position[q]
       /\ \/ op \in DOMAIN req_flips /\ Reaches(req_flips[op], inst.new_pos)
          \/ op = mover /\ Reaches(new_pos, inst.new_pos)
          \/ Reaches(position[op], inst.new_pos)

\* flip and undo_last_flip do what AtomicFlip promises.  While a flip is under
\* way its caller has seen nothing of it, so the arrangement is the one the
\* log leads back to.
Promise == INSTANCE AtomicFlip
             WITH placed <- IF inst = Idle THEN position ELSE Before,
                  previous <- Before

KeepsPromise == Promise!Spec

\* The links of a frame are a tree: paths that part do not join again, and none
\* comes back to a link.
TravelsAlongTree(f) ==
  LET ops == {o \in Op : frame[o] = f}
  IN /\ \A o \in ops : Cardinality(route_pred[o]) <= 1
     /\ \A S \in (SUBSET ops) \ {{}} : \E o \in S : route_pred[o] \cap S = {}

\* A flip ends with its operation exactly where the caller asked for it, if the
\* frame travels along a tree: the cascade does not come back to the operation,
\* as it does on paths that join again, whatever the routes of the others.
EndsInPlace ==
  inst # Idle /\ inst' = Idle /\ TravelsAlongTree(frame[inst.op_id])
    => position'[inst.op_id] = inst.new_pos

FlipEndsInPlace == [][EndsInPlace]_vars

\* Every flip returns: the cascade does not request flips forever.
FlipReturns == inst # Idle ~> inst = Idle
=============================================================================
