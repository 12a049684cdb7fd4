------------------------ MODULE ConsistentFlipProofs ------------------------
(***************************************************************************)
(* Proofs about ConsistentFlip, for every set of operations, links and     *)
(* routes that satisfies the assumptions of TransmissionOperations.        *)
(*                                                                         *)
(* The inductive invariant is the conjunction IInv below.  Its heart is    *)
(* InversionsAreCovered: a swap may create inversions, but only between    *)
(* the neighbours of the two operations swapped, and for each of them      *)
(* AddRequests leaves a request that goes far enough; and no later swap    *)
(* makes a request too short, because only the operations of one frame     *)
(* move against the others and there is one of them per link.              *)
(***************************************************************************)
EXTENDS ConsistentFlip, TLAPS, FiniteSetTheorems

IInv == /\ TypeOK
        /\ OrderMatchesPosition
        /\ InBounds
        /\ MoversAreOneFrame
        /\ LogIsSound
        /\ InversionsAreCovered

-----------------------------------------------------------------------------
(* Slots and neighbours. *)

\* The slots of a link are an interval of the naturals.
LEMMA SlotsAreInterval ==
  ASSUME NEW l \in Link
  PROVE  /\ Slots(l) \subseteq Nat
         /\ \A i, j \in Slots(l) : \A k \in Int : i <= k /\ k <= j => k \in Slots(l)
<1>1. Cardinality(OpsOn(l)) \in Nat
  BY OpAssumption, FS_Subset, FS_CardinalityType DEF OpsOn
<1> QED
  BY <1>1 DEF Slots

\* Two neighbours on one link are mutual neighbours of the operations they
\* are neighbours of, they transmit the same frames, and they are on another
\* link than those.
LEMMA RelatedNeighbors ==
  ASSUME NEW o \in Op, NEW q \in Op, NEW p \in related_neighbor_pairs(o, q)
  PROVE  /\ p[1] \in Op /\ p[2] \in Op /\ p = <<p[1], p[2]>>
         /\ link[p[1]] = link[p[2]]
         /\ link[p[1]] # link[o]
         /\ link[p[2]] # link[q]
         /\ frame[p[1]] = frame[o] /\ frame[p[2]] = frame[q]
         /\ pcp[p[1]] = pcp[o] /\ pcp[p[2]] = pcp[q]
<1>1. /\ p = <<p[1], p[2]>>
      /\ \/ p[1] \in route_pred[o] /\ p[2] \in route_pred[q]
         \/ p[1] \in route_succ[o] /\ p[2] \in route_succ[q]
      /\ link[p[1]] = link[p[2]]
  BY DEF related_neighbor_pairs
<1>2. p[1] \in Op /\ p[2] \in Op
  BY <1>1, RouteAssumption
<1> QED
  BY <1>1, <1>2, RouteAssumption

LEMMA RelatedSymmetric ==
  ASSUME NEW o \in Op, NEW q \in Op, link[o] = link[q],
         NEW p \in related_neighbor_pairs(o, q)
  PROVE  /\ <<o, q>> \in related_neighbor_pairs(p[1], p[2])
         /\ <<q, o>> \in related_neighbor_pairs(p[2], p[1])
<1>1. /\ p = <<p[1], p[2]>>
      /\ \/ p[1] \in route_pred[o] /\ p[2] \in route_pred[q]
         \/ p[1] \in route_succ[o] /\ p[2] \in route_succ[q]
  BY DEF related_neighbor_pairs
<1>2. p[1] \in Op /\ p[2] \in Op
  BY RelatedNeighbors
<1>3. \/ o \in route_succ[p[1]] /\ q \in route_succ[p[2]]
      \/ o \in route_pred[p[1]] /\ q \in route_pred[p[2]]
  BY <1>1, <1>2, RouteAssumption
<1> QED
  BY <1>2, <1>3 DEF related_neighbor_pairs

LEMMA RelatedReversed ==
  ASSUME NEW o, NEW q, NEW p \in related_neighbor_pairs(o, q)
  PROVE  <<p[2], p[1]>> \in related_neighbor_pairs(q, o)
  BY DEF related_neighbor_pairs

-----------------------------------------------------------------------------
(* The requests that a swap adds. *)

\* Of the requests for one operation AddRequests keeps the one that goes
\* furthest: there are at most two, because passing one operation requests at
\* most one position of each neighbour.
LEMMA FurthestRequest ==
  ASSUME TypeOK, NEW pos, \A o \in Op : pos[o] \in Slots(link[o]),
         NEW x \in Op, NEW y \in Op,
         NEW flips, flips = adjacent_flips(pos, x, y),
         NEW o \in DOMAIN req_flips \cup {p[1] : p \in flips}
  PROVE  /\ AddRequests(pos, flips)[o] \in Requested(pos, o, flips)
         /\ \A other \in Requested(pos, o, flips) :
              Reaches(AddRequests(pos, flips)[o], other)
<1> DEFINE R == Requested(pos, o, flips)
<1>1. flips \subseteq related_neighbor_pairs(x, y)
  BY DEF adjacent_flips
<1>2. o \in Op
  BY <1>1, RelatedNeighbors DEF TypeOK
<1>3. R \subseteq Slots(link[o])
  BY <1>1, <1>2, RelatedNeighbors DEF Requested, TypeOK
<1>4. R \subseteq Nat
  BY <1>2, <1>3, SlotsAreInterval, OpAssumption
<1>5. \A f, g \in flips : f[1] = o /\ g[1] = o => f[2] = g[2]
  BY <1>1, RelatedNeighbors, RouteAssumption
<1>6. R # {}
  BY DEF Requested
<1>7. \E a, b : R = {a, b}
  <2>1. CASE \E f \in flips : f[1] = o
    <3>1. PICK f \in flips : f[1] = o
      BY <2>1
    <3>2. {pos[p[2]] : p \in {g \in flips : g[1] = o}} = {pos[f[2]]}
      BY <3>1, <1>5
    <3>3. R = {pos[f[2]], IF o \in DOMAIN req_flips THEN req_flips[o] ELSE pos[f[2]]}
      BY <3>2 DEF Requested
    <3> QED
      BY <3>3
  <2>2. CASE ~ \E f \in flips : f[1] = o
    <3>1. {pos[p[2]] : p \in {g \in flips : g[1] = o}} = {}
      BY <2>2
    <3>2. R = {req_flips[o], req_flips[o]}
      BY <2>2, <3>1 DEF Requested
    <3> QED
      BY <3>2
  <2> QED
    BY <2>1, <2>2
<1>8. \E t \in R : \A other \in R : Reaches(t, other)
  BY <1>4, <1>7 DEF Reaches
<1>9. AddRequests(pos, flips)[o] = CHOOSE t \in R : \A other \in R : Reaches(t, other)
  BY DEF AddRequests
<1> QED
  BY <1>8, <1>9

-----------------------------------------------------------------------------
(* What one swap does: x, the operation moved, and y change places. *)

Swaps(x, y) ==
  /\ x = mover /\ x \in Op /\ y \in Op /\ y # x /\ link[y] = link[x]
  /\ position[x] = cur_pos
  /\ position[y] = next(cur_pos)
  /\ cur_pos \in Slots(link[x]) /\ next(cur_pos) \in Slots(link[x])
  /\ Reaches(new_pos, next(cur_pos))
  /\ position' = [position EXCEPT ![x] = next(cur_pos), ![y] = cur_pos]
  /\ order' = [order EXCEPT ![link[x]] =
                 [@ EXCEPT ![cur_pos] = y, ![next(cur_pos)] = x]]
  /\ flip_log' = log_flip(flip_log, y, next(cur_pos))
  /\ req_flips' = IF pcp[x] = pcp[y]
                    THEN AddRequests(position', adjacent_flips(position', x, y))
                    ELSE req_flips
  /\ cur_pos' = next(cur_pos)
  /\ UNCHANGED <<inst, policy, mover, new_pos>>

LEMMA SwapFacts ==
  ASSUME TypeOK, OrderMatchesPosition, InBounds, SwapStep
  PROVE  \E y \in Op : Swaps(mover, y)
<1> DEFINE l == link[mover]
           y == order[l][next(cur_pos)]
<1>1. /\ mover # NoOp /\ mover \in Op /\ l \in Link
      /\ new_pos \in Slots(l) /\ cur_pos \in Slots(l)
  BY OpAssumption DEF TypeOK, SwapStep
<1>2. new_pos \in Nat /\ cur_pos \in Nat /\ cur_pos # new_pos
  BY <1>1, SlotsAreInterval DEF SwapStep
<1>3. position[mover] = cur_pos /\ Reaches(new_pos, cur_pos)
  BY <1>1 DEF InBounds
<1>4. next(cur_pos) \in Int /\ next(cur_pos) # cur_pos /\ Reaches(new_pos, next(cur_pos))
  BY <1>2, <1>3 DEF Reaches, next
<1>5. next(cur_pos) \in Slots(l)
  <2>1. CASE policy = MOVE_BEFORE
    <3>1. new_pos <= next(cur_pos) /\ next(cur_pos) <= cur_pos
      BY <1>2, <1>4, <2>1 DEF Reaches, next
    <3> QED
      BY <1>1, <1>4, <3>1, SlotsAreInterval
  <2>2. CASE policy # MOVE_BEFORE
    <3>1. cur_pos <= next(cur_pos) /\ next(cur_pos) <= new_pos
      BY <1>2, <1>4, <2>2 DEF Reaches, next
    <3> QED
      BY <1>1, <1>4, <3>1, SlotsAreInterval
  <2> QED
    BY <2>1, <2>2
<1>6. y \in OpsOn(l)
  BY <1>1, <1>5 DEF TypeOK
<1>7. y \in Op /\ link[y] = l /\ position[y] = next(cur_pos)
  BY <1>1, <1>5, <1>6 DEF OrderMatchesPosition, OpsOn
<1>8. y # mover
  BY <1>3, <1>4, <1>7
<1>9. order[l][cur_pos] = mover
  BY <1>1, <1>3 DEF OrderMatchesPosition, OpsOn
<1>10. [position EXCEPT ![mover] = next(@),
                        ![y] = IF policy = MOVE_BEFORE THEN @ + 1 ELSE @ - 1]
       = [position EXCEPT ![mover] = next(cur_pos), ![y] = cur_pos]
  <2>1. (IF policy = MOVE_BEFORE THEN next(cur_pos) + 1 ELSE next(cur_pos) - 1) = cur_pos
    BY <1>2 DEF next
  <2> QED
    BY <1>1, <1>3, <1>7, <1>8, <2>1 DEF TypeOK
<1> QED
  BY <1>1, <1>3, <1>4, <1>5, <1>7, <1>8, <1>9, <1>10 DEF SwapStep, Swaps

\* The requests after a swap: none is lost or shortened, the new ones are for
\* the neighbours of x and go as far as the inversions they are made for.
LEMMA RequestsAfterSwap ==
  ASSUME TypeOK, NEW x, NEW y, Swaps(x, y)
  PROVE  /\ DOMAIN req_flips \subseteq DOMAIN req_flips' /\ DOMAIN req_flips' \subseteq Op
         /\ \A o \in DOMAIN req_flips' : req_flips'[o] \in Slots(link[o])
         /\ \A o \in DOMAIN req_flips : Reaches(req_flips'[o], req_flips[o])
         /\ \A o \in DOMAIN req_flips' :
              \/ o \in DOMAIN req_flips /\ req_flips'[o] = req_flips[o]
              \/ \E p \in adjacent_flips(position', x, y) :
                   p[1] = o /\ req_flips'[o] = position'[p[2]]
         /\ pcp[x] = pcp[y] =>
              \A p \in adjacent_flips(position', x, y) :
                 p[1] \in DOMAIN req_flips' /\ Reaches(req_flips'[p[1]], position'[p[2]])
<1> DEFINE flips == adjacent_flips(position', x, y)
<1>1. x \in Op /\ y \in Op
  BY DEF Swaps
<1>2. \A o \in Op : position'[o] \in Slots(link[o])
  BY DEF Swaps, TypeOK
<1>3. \A p \in flips : p[1] \in Op /\ p[2] \in Op /\ link[p[1]] = link[p[2]]
  BY <1>1, RelatedNeighbors DEF adjacent_flips
<1>4. CASE pcp[x] # pcp[y]
  <2>1. req_flips' = req_flips
    BY <1>4 DEF Swaps
  <2>2. \A o \in DOMAIN req_flips : o \in Op /\ req_flips[o] \in Nat
    BY SlotsAreInterval, OpAssumption DEF TypeOK
  <2> QED
    BY <1>4, <2>1, <2>2 DEF TypeOK, Reaches
<1>5. CASE pcp[x] = pcp[y]
  <2>1. req_flips' = AddRequests(position', flips)
    BY <1>5 DEF Swaps
  <2>2. DOMAIN req_flips' = DOMAIN req_flips \cup {p[1] : p \in flips}
    BY <2>1 DEF AddRequests
  <2>3. \A o \in DOMAIN req_flips' :
          /\ req_flips'[o] \in Requested(position', o, flips)
          /\ \A other \in Requested(position', o, flips) : Reaches(req_flips'[o], other)
    BY <1>1, <1>2, <2>1, <2>2, FurthestRequest
  <2>4. DOMAIN req_flips' \subseteq Op
    BY <1>3, <2>2 DEF TypeOK
  <2>5. ASSUME NEW o \in DOMAIN req_flips'
        PROVE  /\ \/ o \in DOMAIN req_flips /\ req_flips'[o] = req_flips[o]
                  \/ \E p \in flips : p[1] = o /\ req_flips'[o] = position'[p[2]]
               /\ req_flips'[o] \in Slots(link[o])
    <3>1. \/ o \in DOMAIN req_flips /\ req_flips'[o] = req_flips[o]
          \/ \E p \in flips : p[1] = o /\ req_flips'[o] = position'[p[2]]
      BY <2>3 DEF Requested
    <3> QED
      BY <1>2, <1>3, <3>1 DEF TypeOK
  <2>6. \A o \in DOMAIN req_flips : Reaches(req_flips'[o], req_flips[o])
    BY <2>2, <2>3 DEF Requested
  <2>7. ASSUME NEW p \in flips
        PROVE  p[1] \in DOMAIN req_flips' /\ Reaches(req_flips'[p[1]], position'[p[2]])
    <3>1. p[1] \in DOMAIN req_flips'
      BY <2>2
    <3>2. p \in {f \in flips : f[1] = p[1]}
      OBVIOUS
    <3>3. position'[p[2]] \in Requested(position', p[1], flips)
      BY <3>2 DEF Requested
    <3> QED
      BY <2>3, <3>1, <3>3
  <2> QED
    BY <2>2, <2>4, <2>5, <2>6, <2>7
<1> QED
  BY <1>4, <1>5

-----------------------------------------------------------------------------
(* A swap preserves every conjunct of the invariant. *)

LEMMA SwapTypeOK ==
  ASSUME TypeOK, NEW x, NEW y, Swaps(x, y)
  PROVE  TypeOK'
<1> USE DEF TypeOK
<1>1. \A l \in Link : order'[l] \in [Slots(l) -> OpsOn(l)]
  BY OpAssumption DEF Swaps, OpsOn
<1>2. DOMAIN order' = Link
  BY DEF Swaps
<1>3. position' \in [Op -> Nat] /\ \A o \in Op : position'[o] \in Slots(link[o])
  <2>1. cur_pos \in Nat /\ next(cur_pos) \in Nat
    BY SlotsAreInterval, OpAssumption DEF Swaps
  <2> QED
    BY <2>1 DEF Swaps
<1>4. /\ DOMAIN flip_log' \subseteq Op
      /\ \A o \in DOMAIN flip_log' : flip_log'[o] \in Slots(link[o])
  BY DEF Swaps, log_flip
<1>5. /\ DOMAIN req_flips' \subseteq Op
      /\ \A o \in DOMAIN req_flips' : req_flips'[o] \in Slots(link[o])
  BY RequestsAfterSwap
<1>6. mover # NoOp /\ inst' = inst /\ policy' = policy /\ mover' = mover /\ new_pos' = new_pos
  BY OpAssumption DEF Swaps, NoOp
<1>7. cur_pos' \in Slots(link[mover])
  BY DEF Swaps
<1>8. inst # Idle
  BY <1>6
<1> QED
  BY <1>1, <1>2, <1>3, <1>4, <1>5, <1>6, <1>7, <1>8 DEF Idle

LEMMA SwapOrderMatchesPosition ==
  ASSUME TypeOK, OrderMatchesPosition, NEW x, NEW y, Swaps(x, y)
  PROVE  OrderMatchesPosition'
<1> SUFFICES ASSUME NEW l \in Link, NEW o \in OpsOn(l), NEW i \in Slots(l)
             PROVE  order'[l][i] = o <=> position'[o] = i
  BY DEF OrderMatchesPosition
<1>1. o \in Op /\ link[o] = l /\ (order[l][i] = o <=> position[o] = i)
  BY DEF OrderMatchesPosition, OpsOn
<1>2. next(cur_pos) # cur_pos
  <2>1. cur_pos \in Nat
    BY SlotsAreInterval, OpAssumption DEF Swaps
  <2> QED
    BY <2>1 DEF next
<1>3. CASE l # link[x]
  <2>1. order'[l] = order[l] /\ position'[o] = position[o]
    BY <1>1, <1>3 DEF Swaps, TypeOK
  <2> QED
    BY <1>1, <2>1
<1>4. CASE l = link[x]
  <2>1. order'[l] = [order[l] EXCEPT ![cur_pos] = y, ![next(cur_pos)] = x]
    BY <1>4 DEF Swaps, TypeOK
  <2>2. DOMAIN order[l] = Slots(l)
    BY DEF TypeOK
  <2>3. order'[l][i] = IF i = next(cur_pos) THEN x ELSE IF i = cur_pos THEN y ELSE order[l][i]
    BY <2>1, <2>2
  <2>4. position'[o] = IF o = y THEN cur_pos ELSE IF o = x THEN next(cur_pos) ELSE position[o]
    BY <1>1 DEF Swaps, TypeOK
  <2>5. x \in OpsOn(l) /\ y \in OpsOn(l) /\ x # y
        /\ position[x] = cur_pos /\ position[y] = next(cur_pos)
        /\ cur_pos \in Slots(l) /\ next(cur_pos) \in Slots(l)
    BY <1>4 DEF Swaps, OpsOn
  <2>6. order[l][cur_pos] = x /\ order[l][next(cur_pos)] = y
    BY <2>5 DEF OrderMatchesPosition
  <2> QED
    BY <1>1, <1>2, <2>3, <2>4, <2>5, <2>6
<1> QED
  BY <1>3, <1>4

LEMMA SwapMoversAreOneFrame ==
  ASSUME TypeOK, MoversAreOneFrame, NEW x, NEW y, Swaps(x, y)
  PROVE  MoversAreOneFrame'
<1>1. x \in Op /\ y \in Op /\ x = mover /\ mover # NoOp
  BY OpAssumption DEF Swaps, NoOp
<1>2. \A o \in DOMAIN req_flips' :
        o \in DOMAIN req_flips \/ \E p \in adjacent_flips(position', x, y) : p[1] = o
  BY RequestsAfterSwap
<1>3. \A p \in adjacent_flips(position', x, y) : frame[p[1]] = frame[x] /\ p[1] # x
  BY <1>1, RelatedNeighbors DEF adjacent_flips
<1>4. frame[x] = frame[inst.op_id] /\ mover' = mover /\ inst' = inst
  BY <1>1 DEF MoversAreOneFrame, Swaps
<1> QED
  BY <1>1, <1>2, <1>3, <1>4 DEF MoversAreOneFrame

\* Where the operations are after a swap, as numbers.
LEMMA SwapPositions ==
  ASSUME TypeOK, NEW x, NEW y, Swaps(x, y)
  PROVE  /\ x \in Op /\ y \in Op /\ x # y /\ link[x] = link[y]
         /\ \A o \in Op : position[o] \in Nat /\ position'[o] \in Nat
         /\ \A o \in Op \ {x, y} : position'[o] = position[o]
         /\ position'[x] = position[y] /\ position'[y] = position[x]
         /\ position[y] = IF policy = MOVE_BEFORE THEN position[x] - 1 ELSE position[x] + 1
<1>1. \A o \in Op : position[o] \in Nat /\ position'[o] \in Nat
  BY SwapTypeOK, SlotsAreInterval, OpAssumption DEF TypeOK
<1> QED
  BY <1>1 DEF Swaps, TypeOK, next

LEMMA SwapInBounds ==
  ASSUME TypeOK, InBounds, MoversAreOneFrame, NEW x, NEW y, Swaps(x, y)
  PROVE  InBounds'
<1>1. x = mover /\ mover' = mover /\ policy' = policy /\ new_pos' = new_pos
      /\ cur_pos' = next(cur_pos) /\ Reaches(new_pos, next(cur_pos))
      /\ position[y] = next(cur_pos)
  BY DEF Swaps
<1>2. ASSUME NEW o \in DOMAIN req_flips'
      PROVE  Reaches(req_flips'[o], position'[o])
  <2>1. o \in Op
    BY RequestsAfterSwap
  <2>2. CASE o \in DOMAIN req_flips /\ req_flips'[o] = req_flips[o]
    <3>1. o # x
      BY <1>1, <2>2 DEF MoversAreOneFrame
    <3>2. Reaches(req_flips[o], position[o])
      BY <2>2 DEF InBounds
    <3>3. req_flips[o] \in Nat
      BY <2>1, <2>2, SlotsAreInterval, OpAssumption DEF TypeOK
    <3> QED
      BY <2>1, <2>2, <3>1, <3>2, <3>3, SwapPositions DEF Reaches
  <2>3. CASE \E p \in adjacent_flips(position', x, y) :
               p[1] = o /\ req_flips'[o] = position'[p[2]]
    <3>1. PICK p \in adjacent_flips(position', x, y) :
                 p[1] = o /\ req_flips'[o] = position'[p[2]]
      BY <2>3
    <3>2. p[1] \in Op /\ p[2] \in Op
      BY SwapPositions, RelatedNeighbors DEF adjacent_flips
    <3> QED
      BY <3>1, <3>2, SwapPositions DEF adjacent_flips, Reaches
  <2> QED
    BY <2>2, <2>3, RequestsAfterSwap
<1>3. position'[mover'] = cur_pos'
  BY <1>1, SwapPositions
<1> QED
  BY <1>1, <1>2, <1>3 DEF InBounds, Reaches

\* Logging on the first touch leaves what the log leads back to unchanged.
LEMMA SwapLogIsSound ==
  ASSUME TypeOK, LogIsSound, NEW x, NEW y, Swaps(x, y)
  PROVE  LogIsSound' /\ Before' = Before
<1>1. x = mover /\ mover # NoOp /\ mover' = mover
  BY OpAssumption DEF Swaps, NoOp
<1>2. x \in DOMAIN flip_log
  BY <1>1 DEF LogIsSound
<1>3. /\ DOMAIN flip_log' = DOMAIN flip_log \cup {y}
      /\ \A o \in DOMAIN flip_log : flip_log'[o] = flip_log[o]
      /\ y \notin DOMAIN flip_log => flip_log'[y] = position[y]
  BY DEF Swaps, log_flip
<1>4. Before' = Before
  BY <1>2, <1>3, SwapPositions DEF Before
<1>5. ASSUME NEW o \in DOMAIN flip_log'
      PROVE  \E q \in DOMAIN flip_log' : link[q] = link[o] /\ flip_log'[q] = position'[o]
  <2>1. CASE o = x
    <3>1. CASE y \in DOMAIN flip_log
      BY <1>3, <2>1, <3>1, SwapPositions DEF LogIsSound
    <3>2. CASE y \notin DOMAIN flip_log
      BY <1>3, <2>1, <3>2, SwapPositions
    <3> QED
      BY <3>1, <3>2
  <2>2. CASE o = y
    BY <1>2, <1>3, <2>2, SwapPositions DEF LogIsSound
  <2>3. CASE o # x /\ o # y
    <3>1. o \in DOMAIN flip_log /\ o \in Op
      BY <1>3, <2>3 DEF TypeOK
    <3> QED
      BY <1>3, <2>3, <3>1, SwapPositions DEF LogIsSound
  <2> QED
    BY <2>1, <2>2, <2>3
<1>6. IsArrangement(Before') /\ check_consistency(Before')
  BY <1>4 DEF LogIsSound
<1> QED
  BY <1>1, <1>2, <1>3, <1>4, <1>5, <1>6 DEF LogIsSound

\* A swap changes the order of no other two operations of a link.
LEMMA SwapKeepsOrder ==
  ASSUME TypeOK, OrderMatchesPosition, NEW x, NEW y, Swaps(x, y),
         NEW a \in Op, NEW b \in Op, link[a] = link[b], {a, b} # {x, y},
         position'[a] < position'[b]
  PROVE  position[a] < position[b]
<1>1. \A o, q \in Op : link[o] = link[q] /\ position[o] = position[q] => o = q
  BY OpAssumption DEF OrderMatchesPosition, TypeOK, OpsOn
<1> QED
  BY <1>1, SwapPositions

\* A request that is due stays far enough: what it has to pass does not move
\* out of its reach, for it is no operation of the frame being moved.
LEMMA SwapKeepsDue ==
  ASSUME TypeOK, MoversAreOneFrame, NEW x, NEW y, Swaps(x, y),
         NEW m \in Op, NEW n \in Op, m # n, link[m] = link[n], Due(m, n)
  PROVE  Due(m, n)'
<1>1. x = mover /\ mover # NoOp /\ mover' = mover /\ policy' = policy /\ new_pos' = new_pos
  BY OpAssumption DEF Swaps, NoOp
<1>2. frame[m] = frame[x]
  BY <1>1 DEF MoversAreOneFrame, Due
<1>3. n # x
  BY <1>2, RouteAssumption, SwapPositions
<1>4. IF policy = MOVE_BEFORE THEN position[n] <= position'[n] ELSE position'[n] <= position[n]
  BY <1>3, SwapPositions
<1>5. CASE m \in DOMAIN req_flips /\ Reaches(req_flips[m], position[n])
  <2>1. m \in DOMAIN req_flips' /\ Reaches(req_flips'[m], req_flips[m])
    BY <1>5, RequestsAfterSwap
  <2>2. req_flips[m] \in Nat /\ req_flips'[m] \in Nat
    BY <1>5, <2>1, SwapTypeOK, SlotsAreInterval, OpAssumption DEF TypeOK
  <2> QED
    BY <1>1, <1>4, <1>5, <2>1, <2>2, SwapPositions DEF Due, Reaches
<1>6. CASE m = mover /\ Reaches(new_pos, position[n])
  <2>1. new_pos \in Nat
    BY <1>1, SlotsAreInterval, OpAssumption DEF TypeOK
  <2> QED
    BY <1>1, <1>4, <1>6, <2>1, SwapPositions DEF Due, Reaches
<1> QED
  BY <1>5, <1>6 DEF Due

\* The inversions a swap of x and y creates between their neighbours are
\* covered by the requests it adds.
LEMMA SwapCoversItsInversions ==
  ASSUME TypeOK, NEW x, NEW y, Swaps(x, y),
         NEW o \in Op, NEW q \in Op, NEW m, NEW n,
         Inverted(position', o, q, m, n), {o, q} = {x, y}
  PROVE  IF policy = MOVE_BEFORE THEN Due(m, n)' ELSE Due(n, m)'
<1>1. pcp[x] = pcp[y] /\ policy' = policy
  BY DEF Inverted, Swaps
<1>2. <<m, n>> \in related_neighbor_pairs(o, q) /\ position'[n] < position'[m]
      /\ position'[o] < position'[q]
  BY DEF Inverted
<1>3. CASE policy = MOVE_BEFORE
  <2>1. o = x /\ q = y
    BY <1>2, <1>3, SwapPositions
  <2>2. <<m, n>> \in adjacent_flips(position', x, y)
    BY <1>2, <1>3, <2>1 DEF adjacent_flips
  <2> QED
    BY <1>1, <1>3, <2>2, RequestsAfterSwap DEF Due, Reaches
<1>4. CASE policy # MOVE_BEFORE
  <2>1. o = y /\ q = x
    BY <1>2, <1>4, SwapPositions
  <2>2. <<n, m>> \in related_neighbor_pairs(x, y)
    BY <1>2, <2>1, RelatedReversed
  <2>3. <<n, m>> \in adjacent_flips(position', x, y)
    BY <1>2, <1>4, <2>2, RelatedNeighbors, SwapPositions DEF adjacent_flips
  <2> QED
    BY <1>1, <1>4, <2>3, RequestsAfterSwap DEF Due, Reaches
<1> QED
  BY <1>3, <1>4

LEMMA SwapInversionsAreCovered ==
  ASSUME TypeOK, OrderMatchesPosition, MoversAreOneFrame, InversionsAreCovered,
         NEW x, NEW y, Swaps(x, y)
  PROVE  InversionsAreCovered'
<1> SUFFICES ASSUME NEW o \in Op, NEW q \in Op, NEW p \in related_neighbor_pairs(o, q),
                    Inverted(position', o, q, p[1], p[2])
             PROVE  IF policy = MOVE_BEFORE THEN Due(p[1], p[2])' \/ Due(q, o)'
                                            ELSE Due(p[2], p[1])' \/ Due(o, q)'
  BY DEF InversionsAreCovered, Swaps
<1> DEFINE m == p[1]
           n == p[2]
<1>1. m \in Op /\ n \in Op /\ link[m] = link[n] /\ pcp[m] = pcp[n] /\ p = <<m, n>>
      /\ link[o] = link[q] /\ m # n /\ o # q
  BY RelatedNeighbors, SwapPositions DEF Inverted
<1>2. CASE {o, q} = {x, y}
  BY <1>2, SwapCoversItsInversions
<1>3. CASE {m, n} = {x, y}
  <2>1. <<q, o>> \in related_neighbor_pairs(n, m)
    BY <1>1, RelatedSymmetric
  <2>2. Inverted(position', n, m, q, o)
    BY <1>1, <2>1 DEF Inverted
  <2>3. {n, m} = {x, y}
    BY <1>3
  <2> QED
    BY <1>1, <2>2, <2>3, SwapCoversItsInversions
<1>4. CASE {o, q} # {x, y} /\ {m, n} # {x, y}
  <2>1. position[o] < position[q]
    BY <1>1, <1>4, SwapKeepsOrder DEF Inverted
  <2>2. position[n] < position[m]
    BY <1>1, <1>4, SwapKeepsOrder DEF Inverted
  <2>3. Inverted(position, o, q, m, n)
    BY <2>1, <2>2 DEF Inverted
  <2>4. IF policy = MOVE_BEFORE THEN Due(m, n) \/ Due(q, o) ELSE Due(n, m) \/ Due(o, q)
    BY <2>3 DEF InversionsAreCovered
  <2> QED
    BY <1>1, <2>4, SwapKeepsDue
<1> QED
  BY <1>2, <1>3, <1>4

-----------------------------------------------------------------------------
(* Arrangements and vectors. *)

\* An arrangement fills every slot: it maps the operations of a link one to
\* one into as many slots.
LEMMA ArrangementFillsSlots ==
  ASSUME NEW pos, IsArrangement(pos), NEW l \in Link, NEW i \in Slots(l)
  PROVE  \E o \in OpsOn(l) : pos[o] = i
<1> DEFINE f == [o \in OpsOn(l) |-> pos[o]]
           n == Cardinality(OpsOn(l))
<1>1. IsFiniteSet(OpsOn(l)) /\ n \in Nat
  BY OpAssumption, FS_Subset, FS_CardinalityType DEF OpsOn
<1>2. IsFiniteSet(Slots(l)) /\ Cardinality(Slots(l)) = n
  <2> HIDE DEF n
  <2>1. IsFiniteSet(0 .. n - 1) /\ Cardinality(0 .. n - 1) = n
    BY <1>1, FS_Interval
  <2> QED
    BY <2>1 DEF Slots, n
<1>3. f \in Injection(OpsOn(l), Slots(l))
  BY DEF IsArrangement, OpsOn, Injection, IsInjective
<1>4. f \in Surjection(OpsOn(l), Slots(l))
  BY <1>1, <1>2, <1>3, FS_Injection
<1> QED
  BY <1>4 DEF Surjection

\* The vectors of an arrangement hold the operations where it puts them.
LEMMA OrderOfMatches ==
  ASSUME NEW pos, IsArrangement(pos), NEW l \in Link, NEW i \in Slots(l)
  PROVE  /\ OrderOf(pos)[l][i] \in OpsOn(l)
         /\ \A o \in OpsOn(l) : OrderOf(pos)[l][i] = o <=> pos[o] = i
<1>1. PICK o \in OpsOn(l) : pos[o] = i
  BY ArrangementFillsSlots
<1>2. OrderOf(pos)[l][i] = CHOOSE q \in OpsOn(l) : pos[q] = i
  BY DEF OrderOf
<1>3. \A q \in OpsOn(l) : pos[q] = i => q = o
  BY <1>1 DEF IsArrangement, OpsOn
<1> QED
  BY <1>1, <1>2, <1>3

LEMMA PositionIsArrangement ==
  ASSUME TypeOK, OrderMatchesPosition
  PROVE  IsArrangement(position)
  BY OpAssumption DEF TypeOK, OrderMatchesPosition, IsArrangement, OpsOn

\* With nothing logged the log leads back to where the operations are.
LEMMA NothingLogged ==
  ASSUME TypeOK, flip_log = NoFlips
  PROVE  Before = position
  BY DEF Before, NoFlips, TypeOK

\* Without requests nothing is due, so a covered arrangement is consistent.
LEMMA NothingDue ==
  ASSUME TypeOK, InversionsAreCovered, mover = NoOp, req_flips = NoFlips
  PROVE  check_consistency(position)
<1> SUFFICES ASSUME NEW o \in Op, NEW q \in Op, NEW p \in related_neighbor_pairs(o, q),
                    Inverted(position, o, q, p[1], p[2])
             PROVE  FALSE
  BY DEF check_consistency
<1>1. p[1] \in Op /\ p[2] \in Op
  BY RelatedNeighbors
<1>2. \A m, n : m \in Op => ~Due(m, n)
  BY OpAssumption DEF Due, NoFlips, NoOp
<1> QED
  BY <1>1, <1>2 DEF InversionsAreCovered

-----------------------------------------------------------------------------
(* The initial states and the other steps. *)

LEMMA InitIInv ==
  ASSUME Init
  PROVE  IInv
<1>1. IsArrangement(position) /\ check_consistency(position)
  BY InitialAssumption DEF Init
<1>2. TypeOK
  <2>1. \A l \in Link : order[l] \in [Slots(l) -> OpsOn(l)]
    BY <1>1, OrderOfMatches, SMTT(30) DEF Init, OrderOf
  <2> QED
    BY <1>1, <2>1 DEF Init, TypeOK, IsArrangement, OrderOf, NoFlips
<1>3. OrderMatchesPosition
  BY <1>1, OrderOfMatches DEF Init, OrderMatchesPosition
<1>4. Before = position
  BY <1>2, NothingLogged DEF Init
<1>5. InBounds /\ MoversAreOneFrame
  BY DEF Init, InBounds, MoversAreOneFrame, NoFlips
<1>6. LogIsSound
  BY <1>1, <1>4 DEF Init, LogIsSound, NoFlips
<1>7. InversionsAreCovered
  BY <1>1 DEF InversionsAreCovered, check_consistency
<1> QED
  BY <1>2, <1>3, <1>5, <1>6, <1>7 DEF IInv

LEMMA FlipIInv ==
  ASSUME IInv, NEW o \in Op, NEW pos \in Slots(link[o]), Flip(o, pos)
  PROVE  IInv'
<1> USE DEF IInv
<1>1. /\ inst = Idle /\ mover = NoOp /\ req_flips = NoFlips
      /\ mover' = NoOp /\ new_pos' = 0 /\ cur_pos' = 0
      /\ order' = order /\ position' = position /\ flip_log' = NoFlips
      /\ inst' = [op_id |-> o, new_pos |-> pos]
      /\ req_flips' = [q \in {o} |-> pos]
      /\ policy' = IF position[o] > pos THEN MOVE_BEFORE ELSE MOVE_AFTER
  <2>1. inst = Idle /\ UNCHANGED <<order, position, mover, new_pos, cur_pos>>
    BY DEF Flip, loop
  <2>2. mover = NoOp /\ new_pos = 0 /\ cur_pos = 0 /\ req_flips = NoFlips
    BY <2>1, OpAssumption DEF TypeOK, NoOp
  <2> QED
    BY <2>1, <2>2 DEF Flip
<1>2. check_consistency(position) /\ IsArrangement(position)
  BY <1>1, NothingDue, PositionIsArrangement
<1>3. TypeOK'
  <2>1. inst' # Idle
    BY <1>1, OpAssumption DEF Idle, NoOp
  <2> QED
    BY <1>1, <2>1 DEF TypeOK, NoFlips
<1>4. OrderMatchesPosition'
  BY <1>1 DEF OrderMatchesPosition
<1>5. InBounds'
  <2>1. position[o] \in Nat /\ pos \in Nat
    BY SlotsAreInterval, OpAssumption DEF TypeOK
  <2> QED
    BY <1>1, <2>1 DEF InBounds, Reaches, MOVE_BEFORE, MOVE_AFTER
<1>6. MoversAreOneFrame'
  BY <1>1, OpAssumption DEF MoversAreOneFrame, NoOp
<1>7. LogIsSound'
  <2>1. Before' = position'
    BY <1>1, <1>3 DEF Before, NoFlips, TypeOK
  <2> QED
    BY <1>1, <1>2, <2>1 DEF LogIsSound, NoFlips
<1>8. InversionsAreCovered'
  BY <1>1, <1>2 DEF InversionsAreCovered, check_consistency
<1> QED
  BY <1>3, <1>4, <1>5, <1>6, <1>7, <1>8

LEMMA TakeRequestIInv ==
  ASSUME IInv, NEW o \in Op, TakeRequest(o)
  PROVE  IInv' /\ Before' = Before
<1> USE DEF IInv
<1>1. /\ o \in DOMAIN req_flips /\ inst # Idle /\ mover = NoOp
      /\ mover' = o /\ new_pos' = req_flips[o] /\ cur_pos' = position[o]
      /\ req_flips' = [q \in DOMAIN req_flips \ {o} |-> req_flips[q]]
      /\ flip_log' = log_flip(flip_log, o, position[o])
      /\ UNCHANGED <<order, position, inst, policy>>
  BY DEF TakeRequest, IsFirstKey
<1>2. /\ DOMAIN flip_log' = DOMAIN flip_log \cup {o}
      /\ \A q \in DOMAIN flip_log : flip_log'[q] = flip_log[q]
      /\ o \notin DOMAIN flip_log => flip_log'[o] = position[o]
  BY <1>1 DEF log_flip
<1>3. TypeOK'
  <2>1. /\ DOMAIN flip_log' \subseteq Op
        /\ \A q \in DOMAIN flip_log' : flip_log'[q] \in Slots(link[q])
    BY <1>2 DEF TypeOK
  <2> QED
    BY <1>1, <2>1 DEF TypeOK
<1>4. OrderMatchesPosition'
  BY <1>1 DEF OrderMatchesPosition
<1>5. InBounds'
  BY <1>1 DEF InBounds, Reaches
<1>6. MoversAreOneFrame'
  BY <1>1 DEF MoversAreOneFrame
<1>7. Before' = Before
  BY <1>1, <1>2 DEF Before
<1>8. LogIsSound'
  <2>1. ASSUME NEW q \in DOMAIN flip_log'
        PROVE  \E r \in DOMAIN flip_log' : link[r] = link[q] /\ flip_log'[r] = position'[q]
    BY <1>1, <1>2 DEF LogIsSound
  <2> QED
    BY <1>1, <1>2, <1>7, <2>1 DEF LogIsSound
<1>9. InversionsAreCovered'
  <2>1. ASSUME NEW m \in Op, NEW n \in Op, Due(m, n)
        PROVE  Due(m, n)'
    BY <1>1, <2>1, OpAssumption DEF Due, Reaches, NoOp
  <2>2. \A a, b \in Op : \A p \in related_neighbor_pairs(a, b) : p[1] \in Op /\ p[2] \in Op
    BY RelatedNeighbors
  <2> QED
    BY <1>1, <2>1, <2>2 DEF InversionsAreCovered
<1> QED
  BY <1>3, <1>4, <1>5, <1>6, <1>7, <1>8, <1>9

LEMMA SwapIInv ==
  ASSUME IInv, SwapStep
  PROVE  IInv' /\ Before' = Before
<1> USE DEF IInv
<1>1. PICK y \in Op : Swaps(mover, y)
  BY SwapFacts
<1> QED
  BY <1>1, SwapTypeOK, SwapOrderMatchesPosition, SwapInBounds, SwapMoversAreOneFrame,
     SwapLogIsSound, SwapInversionsAreCovered

LEMMA EndRequestIInv ==
  ASSUME IInv, EndRequest
  PROVE  IInv' /\ Before' = Before
<1> USE DEF IInv
<1>1. /\ mover # NoOp /\ mover \in Op /\ new_pos = cur_pos /\ position[mover] = cur_pos
      /\ mover' = NoOp /\ new_pos' = 0 /\ cur_pos' = 0
      /\ UNCHANGED <<order, position, flip_log, inst, policy, req_flips>>
  BY DEF EndRequest, TypeOK, InBounds
<1>2. TypeOK'
  BY <1>1 DEF TypeOK
<1>3. OrderMatchesPosition' /\ InBounds' /\ MoversAreOneFrame'
  BY <1>1, OpAssumption DEF OrderMatchesPosition, InBounds, MoversAreOneFrame, Reaches, TypeOK, NoOp
<1>4. Before' = Before
  BY <1>1 DEF Before
<1>5. LogIsSound'
  BY <1>1, <1>4 DEF LogIsSound
<1>6. InversionsAreCovered'
  <2>1. ASSUME NEW m \in Op, NEW n \in Op, link[m] = link[n], position[n] # position[m],
               Due(m, n),
               IF policy = MOVE_BEFORE THEN position[n] < position[m] ELSE position[n] > position[m]
        PROVE  Due(m, n)'
    <3>1. position[m] \in Nat /\ position[n] \in Nat
      BY DEF TypeOK
    <3>2. m # mover \/ ~Reaches(new_pos, position[n])
      BY <1>1, <2>1, <3>1 DEF Reaches
    <3> QED
      BY <1>1, <2>1, <3>2 DEF Due, Reaches
  <2>2. ASSUME NEW o \in Op, NEW q \in Op, NEW p \in related_neighbor_pairs(o, q),
               Inverted(position, o, q, p[1], p[2])
        PROVE  IF policy = MOVE_BEFORE THEN Due(p[1], p[2])' \/ Due(q, o)'
                                       ELSE Due(p[2], p[1])' \/ Due(o, q)'
    <3>1. p[1] \in Op /\ p[2] \in Op /\ link[p[1]] = link[p[2]] /\ link[o] = link[q]
      BY <2>2, RelatedNeighbors DEF Inverted
    <3>2. position[o] < position[q] /\ position[p[2]] < position[p[1]]
      BY <2>2 DEF Inverted
    <3>3. \A r \in Op : position[r] \in Nat
      BY DEF TypeOK
    <3>4. IF policy = MOVE_BEFORE THEN Due(p[1], p[2]) \/ Due(q, o)
                                  ELSE Due(p[2], p[1]) \/ Due(o, q)
      BY <2>2 DEF InversionsAreCovered
    <3> QED
      BY <2>1, <3>1, <3>2, <3>3, <3>4
  <2> QED
    BY <1>1, <2>2 DEF InversionsAreCovered
<1> QED
  BY <1>2, <1>3, <1>4, <1>5, <1>6

LEMMA ReturnIInv ==
  ASSUME IInv, Return
  PROVE  IInv' /\ Before' = Before
<1> USE DEF IInv
<1>1. /\ mover = NoOp /\ req_flips = NoFlips /\ inst' = Idle /\ policy' = MOVE_BEFORE
      /\ UNCHANGED <<order, position, flip_log, req_flips, mover, new_pos, cur_pos>>
  BY DEF Return, loop
<1>2. check_consistency(position)
  BY <1>1, NothingDue
<1>3. TypeOK'
  BY <1>1 DEF TypeOK
<1>4. OrderMatchesPosition'
  BY <1>1 DEF OrderMatchesPosition
<1>5. InBounds' /\ MoversAreOneFrame'
  BY <1>1 DEF InBounds, MoversAreOneFrame, NoFlips
<1>6. Before' = Before
  BY <1>1 DEF Before
<1>7. LogIsSound'
  BY <1>1, <1>6 DEF LogIsSound
<1>8. InversionsAreCovered'
  BY <1>1, <1>2 DEF InversionsAreCovered, check_consistency
<1> QED
  BY <1>3, <1>4, <1>5, <1>6, <1>7, <1>8

\* An undo finds every slot it empties filled by another logged operation.
LEMMA UndoRestoresOrder ==
  ASSUME TypeOK, OrderMatchesPosition, LogIsSound,
         NEW l \in Link, NEW i \in Slots(l)
  PROVE  /\ Restored(l, i) \in OpsOn(l)
         /\ \A o \in OpsOn(l) : Restored(l, i) = o <=> Before[o] = i
<1> DEFINE back == {o \in DOMAIN flip_log : link[o] = l /\ flip_log[o] = i}
<1>1. \A o \in back : o \in OpsOn(l) /\ o \in Op /\ Before[o] = i
  BY DEF Before, OpsOn, TypeOK
<1>2. \A o, q \in OpsOn(l) : Before[o] = i /\ Before[q] = i => o = q
  BY DEF LogIsSound, IsArrangement, OpsOn
<1>3. CASE back = {}
  <2>1. Restored(l, i) = order[l][i]
    BY <1>3 DEF Restored
  <2>2. order[l][i] \in OpsOn(l) /\ position[order[l][i]] = i
    BY DEF TypeOK, OrderMatchesPosition
  <2>3. order[l][i] \notin DOMAIN flip_log
    BY <1>3, <2>2 DEF LogIsSound, OpsOn
  <2>4. Before[order[l][i]] = i
    BY <2>2, <2>3 DEF Before, OpsOn
  <2> QED
    BY <1>2, <2>1, <2>2, <2>4
<1>4. CASE back # {}
  <2>1. PICK r \in back : TRUE
    BY <1>4
  <2>2. \A q \in back : q = r
    BY <1>1, <1>2
  <2>3. r \in Nat
    BY <1>1, OpAssumption
  <2>4. Restored(l, i) = r
    <3>1. Restored(l, i) = CHOOSE o \in back : \A q \in back : q <= o
      BY <1>4 DEF Restored
    <3>2. r \in back /\ \A q \in back : q <= r
      BY <2>2, <2>3
    <3> QED
      BY <2>2, <3>1, <3>2
  <2> QED
    BY <1>1, <1>2, <2>4
<1> QED
  BY <1>3, <1>4

LEMMA UndoIInv ==
  ASSUME IInv, UndoLastFlip
  PROVE  IInv' /\ position' = Before /\ Before' = Before
<1> USE DEF IInv
<1>1. /\ inst = Idle /\ mover = NoOp /\ req_flips = NoFlips
      /\ order' = [l \in Link |-> [i \in Slots(l) |-> Restored(l, i)]]
      /\ flip_log' = NoFlips
      /\ UNCHANGED <<inst, policy, req_flips, mover, new_pos, cur_pos>>
  BY DEF UndoLastFlip, loop, TypeOK
<1>2. position' = Before
  BY DEF UndoLastFlip, Before
<1>3. IsArrangement(Before) /\ check_consistency(Before)
  BY DEF LogIsSound
<1>4. \A l \in Link : order'[l] \in [Slots(l) -> OpsOn(l)]
  BY <1>1, UndoRestoresOrder
<1>5. TypeOK'
  BY <1>1, <1>2, <1>3, <1>4 DEF TypeOK, IsArrangement, NoFlips
<1>6. OrderMatchesPosition'
  BY <1>1, <1>2, UndoRestoresOrder DEF OrderMatchesPosition
<1>7. InBounds' /\ MoversAreOneFrame'
  BY <1>1 DEF InBounds, MoversAreOneFrame, NoFlips
<1>8. Before' = position'
  BY <1>1, <1>5 DEF Before, NoFlips, TypeOK
<1>9. LogIsSound'
  BY <1>1, <1>2, <1>3, <1>8 DEF LogIsSound, NoFlips
<1>10. InversionsAreCovered'
  BY <1>2, <1>3 DEF InversionsAreCovered, check_consistency
<1> QED
  BY <1>2, <1>5, <1>6, <1>7, <1>8, <1>9, <1>10

-----------------------------------------------------------------------------
(* The theorems. *)

LEMMA StepIInv ==
  ASSUME IInv, [Next]_vars
  PROVE  IInv'
<1>1. CASE CallFlip
  BY <1>1, FlipIInv DEF CallFlip
<1>2. CASE \E o \in Op : TakeRequest(o)
  BY <1>2, TakeRequestIInv
<1>3. CASE SwapStep
  BY <1>3, SwapIInv
<1>4. CASE EndRequest
  BY <1>4, EndRequestIInv
<1>5. CASE Return
  BY <1>5, ReturnIInv
<1>6. CASE UndoLastFlip
  BY <1>6, UndoIInv
<1>7. CASE UNCHANGED vars
  BY <1>7 DEF vars, IInv, TypeOK, OrderMatchesPosition, InBounds, MoversAreOneFrame,
     LogIsSound, InversionsAreCovered, Before, Due, Reaches
<1> QED
  BY <1>1, <1>2, <1>3, <1>4, <1>5, <1>6, <1>7 DEF Next, Step

\* The invariant holds in every behaviour of flip and undo_last_flip.
THEOREM Invariance == Spec => []IInv
<1>1. Init => IInv
  BY InitIInv
<1>2. IInv /\ [Next]_vars => IInv'
  BY StepIInv
<1> QED
  BY <1>1, <1>2, PTL DEF Spec

\* Positions, requests and log entries stay within the links they belong to.
THEOREM TypeCorrect == Spec => []TypeOK
<1>1. IInv => TypeOK
  BY DEF IInv
<1> QED
  BY <1>1, Invariance, PTL

\* The vectors of the links and the positions of the operations never
\* disagree, neither between the swaps of a flip nor after an undo.
THEOREM OrderAndPositionAgree == Spec => []OrderMatchesPosition
<1>1. IInv => OrderMatchesPosition
  BY DEF IInv
<1> QED
  BY <1>1, Invariance, PTL

\* The loops of consistent_flip never leave the vector of a link.
THEOREM LoopsStayInBounds == Spec => []InBounds
<1>1. IInv => InBounds
  BY DEF IInv
<1> QED
  BY <1>1, Invariance, PTL

\* After every flip and every undo all queues are FIFO: check_consistency()
\* holds whenever the graph is at rest.
THEOREM QueuesStayFIFO == Spec => []QueuesAreFIFO
<1>1. IInv => QueuesAreFIFO
  BY NothingDue DEF IInv, QueuesAreFIFO, TypeOK
<1> QED
  BY <1>1, Invariance, PTL

\* At every step of a flip, whatever stands in the wrong order is due to be put
\* right by a request of adjacent_flips: the loop over req_flips may stop when
\* there are none.
THEOREM CascadeIsComplete == Spec => []InversionsAreCovered
<1>1. IInv => InversionsAreCovered
  BY DEF IInv
<1> QED
  BY <1>1, Invariance, PTL

\* flip_log leads back to a FIFO arrangement from any point of a flip, with
\* every slot that undo_last_flip empties filled again.
THEOREM LogLeadsBack == Spec => []LogIsSound
<1>1. IInv => LogIsSound
  BY DEF IInv
<1> QED
  BY <1>1, Invariance, PTL

-----------------------------------------------------------------------------
(* ConsistentFlip implements AtomicFlip. *)

LEMMA SwapFlipProgress ==
  ASSUME IInv, FlipProgress, NEW x, NEW y, Swaps(x, y)
  PROVE  FlipProgress'
<1> USE DEF IInv
<1> DEFINE op == inst.op_id
<1>1. /\ inst' = inst /\ policy' = policy /\ mover' = mover /\ new_pos' = new_pos
      /\ x = mover /\ mover # NoOp /\ inst # Idle
  BY OpAssumption DEF Swaps, NoOp, TypeOK
<1>2. Before' = Before
  BY SwapLogIsSound
<1>3. frame[x] = frame[op] /\ frame[y] # frame[op] /\ op \in Op
  BY <1>1, SwapPositions, RouteAssumption DEF MoversAreOneFrame, TypeOK
<1>4. \A o \in Op : position[o] \in Nat /\ position'[o] \in Nat /\ Before[o] \in Nat
  BY SwapPositions DEF LogIsSound, IsArrangement
<1>5. policy = MOVE_BEFORE <=> Before[op] > inst.new_pos
  BY <1>1 DEF FlipProgress
<1>6. ASSUME NEW o \in Op, frame[o] = frame[op]
      PROVE  /\ Reaches(position'[o], Before[o])
             /\ Reaches(position'[o], position[o])
  <2>1. Reaches(position[o], Before[o])
    BY <1>1, <1>6 DEF FlipProgress
  <2>2. Reaches(position'[o], position[o])
    BY <1>3, <1>4, <1>6, SwapPositions DEF Reaches
  <2> QED
    BY <1>4, <2>1, <2>2 DEF Reaches
<1>7. ASSUME NEW o \in Op, NEW q \in Op, frame[o] # frame[op], frame[q] # frame[op],
             link[o] = link[q], Before[o] < Before[q]
      PROVE  position'[o] < position'[q]
  <2>1. position[o] < position[q]
    BY <1>1, <1>7 DEF FlipProgress
  <2>2. o # x /\ q # x
    BY <1>3, <1>7
  <2>3. \/ position[o] # position[x] /\ position[q] # position[x]
       \/ link[o] # link[x]
    BY <1>7, <2>2, SwapPositions, PositionIsArrangement DEF IsArrangement
  <2> QED
    BY <2>1, <2>2, <2>3, <1>4, <1>7, SwapPositions
<1>8. inst.new_pos \in Nat
  BY <1>1, SlotsAreInterval, OpAssumption DEF TypeOK
<1>9. \/ op \in DOMAIN req_flips' /\ Reaches(req_flips'[op], inst.new_pos)
      \/ op = mover /\ Reaches(new_pos, inst.new_pos)
      \/ Reaches(position'[op], inst.new_pos)
  <2>1. CASE op \in DOMAIN req_flips /\ Reaches(req_flips[op], inst.new_pos)
    <3>1. op \in DOMAIN req_flips' /\ Reaches(req_flips'[op], req_flips[op])
      BY <2>1, RequestsAfterSwap
    <3>2. req_flips[op] \in Nat /\ req_flips'[op] \in Nat
      BY <2>1, <3>1, SwapTypeOK, SlotsAreInterval, OpAssumption DEF TypeOK
    <3> QED
      BY <1>8, <2>1, <3>1, <3>2 DEF Reaches
  <2>2. CASE op = mover /\ Reaches(new_pos, inst.new_pos)
    BY <2>2
  <2>3. CASE Reaches(position[op], inst.new_pos)
    <3>1. Reaches(position'[op], position[op])
      BY <1>3, <1>6
    <3> QED
      BY <1>3, <1>4, <1>8, <2>3, <3>1 DEF Reaches
  <2> QED
    BY <1>1, <2>1, <2>2, <2>3 DEF FlipProgress
<1> QED
  BY <1>1, <1>2, <1>5, <1>6, <1>7, <1>9 DEF FlipProgress, Reaches

LEMMA StepFlipProgress ==
  ASSUME IInv, FlipProgress, [Next]_vars
  PROVE  FlipProgress'
<1> USE DEF IInv
<1>1. ASSUME NEW o \in Op, NEW pos \in Slots(link[o]), Flip(o, pos)
      PROVE  FlipProgress'
  <2>1. /\ inst' = [op_id |-> o, new_pos |-> pos] /\ req_flips' = [q \in {o} |-> pos]
        /\ policy' = IF position[o] > pos THEN MOVE_BEFORE ELSE MOVE_AFTER
        /\ position' = position /\ flip_log' = NoFlips
    BY <1>1 DEF Flip
  <2>2. Before' = position
    BY <2>1 DEF Before, NoFlips, TypeOK
  <2>3. pos \in Nat /\ \A q \in Op : position[q] \in Nat
    BY SlotsAreInterval, OpAssumption DEF TypeOK
  <2> QED
    BY <2>1, <2>2, <2>3 DEF FlipProgress, Reaches, MOVE_BEFORE, MOVE_AFTER
<1>2. ASSUME NEW o \in Op, TakeRequest(o)
      PROVE  FlipProgress'
  <2>1. Before' = Before
    BY <1>2, TakeRequestIInv
  <2>2. /\ o \in DOMAIN req_flips /\ inst # Idle /\ mover = NoOp
        /\ mover' = o /\ new_pos' = req_flips[o]
        /\ req_flips' = [q \in DOMAIN req_flips \ {o} |-> req_flips[q]]
        /\ UNCHANGED <<position, inst, policy>>
    BY <1>2 DEF TakeRequest, IsFirstKey
  <2>3. inst.op_id # mover
    BY <2>2, OpAssumption DEF TypeOK, NoOp
  <2> QED
    BY <2>1, <2>2, <2>3 DEF FlipProgress, Reaches
<1>3. CASE SwapStep
  BY <1>3, SwapFacts, SwapFlipProgress
<1>4. CASE EndRequest
  <2>1. Before' = Before
    BY <1>4, EndRequestIInv
  <2>2. /\ mover # NoOp /\ mover' = NoOp /\ position[mover] = new_pos
        /\ UNCHANGED <<position, inst, policy, req_flips>>
    BY <1>4 DEF EndRequest, InBounds
  <2> QED
    BY <2>1, <2>2 DEF FlipProgress, Reaches
<1>5. CASE Return \/ UndoLastFlip
  BY <1>5 DEF Return, UndoLastFlip, FlipProgress
<1>6. CASE UNCHANGED vars
  BY <1>6 DEF vars, FlipProgress, Before, Reaches
<1> QED
  BY <1>1, <1>2, <1>3, <1>4, <1>5, <1>6 DEF Next, Step, CallFlip

\* The instance has its own copies of the operators both modules extend.
LEMMA PromiseMeansTheSame ==
  /\ Promise!Idle = Idle
  /\ \A l : Promise!Slots(l) = Slots(l)
  /\ \A pos : Promise!IsArrangement(pos) <=> IsArrangement(pos)
  /\ \A pos : Promise!check_consistency(pos) <=> check_consistency(pos)
<1>1. Promise!Idle = Idle
  BY DEF Promise!Idle, Idle, Promise!NoOp, NoOp, Promise!SOURCE_ID, SOURCE_ID
<1>2. \A l : Promise!Slots(l) = Slots(l)
  <2> SUFFICES ASSUME NEW l PROVE Promise!Slots(l) = Slots(l)
    OBVIOUS
  <2>1. Promise!OpsOn(l) = OpsOn(l)
    BY DEF Promise!OpsOn, OpsOn
  <2>2. Promise!Cardinality(OpsOn(l)) = Cardinality(OpsOn(l))
    BY DEF Promise!Cardinality, Cardinality, Promise!IsFiniteSet, IsFiniteSet
  <2> QED
    BY <2>1, <2>2 DEF Promise!Slots, Slots
<1>3. \A pos : Promise!IsArrangement(pos) <=> IsArrangement(pos)
  BY <1>2 DEF Promise!IsArrangement, IsArrangement
<1>4. \A o, q : Promise!related_neighbor_pairs(o, q) = related_neighbor_pairs(o, q)
  BY DEF Promise!related_neighbor_pairs, related_neighbor_pairs
<1>5. \A pos, o, q, m, n : Promise!Inverted(pos, o, q, m, n) <=> Inverted(pos, o, q, m, n)
  BY <1>4 DEF Promise!Inverted, Inverted
<1>6. \A pos : Promise!check_consistency(pos) <=> check_consistency(pos)
  BY <1>4, <1>5 DEF Promise!check_consistency, check_consistency
<1> QED
  BY <1>1, <1>2, <1>3, <1>6

LEMMA ReturnIsOutcome ==
  ASSUME IInv, FlipProgress, Return
  PROVE  Promise!IsOutcome(Before, position)
<1> USE DEF IInv
<1> DEFINE op == inst.op_id
<1>1. inst # Idle /\ mover = NoOp /\ req_flips = NoFlips /\ op \in Op
  BY DEF Return, TypeOK
<1>2. IsArrangement(position) /\ check_consistency(position)
  BY <1>1, PositionIsArrangement, NothingDue
<1>3. /\ policy = MOVE_BEFORE <=> Before[op] > inst.new_pos
      /\ \A o \in Op : frame[o] = frame[op] => Reaches(position[o], Before[o])
      /\ \A o, q \in Op :
            /\ frame[o] # frame[op] /\ frame[q] # frame[op]
            /\ link[o] = link[q] /\ Before[o] < Before[q]
            => position[o] < position[q]
  BY <1>1 DEF FlipProgress
<1>4. Reaches(position[op], inst.new_pos)
  BY <1>1, OpAssumption DEF FlipProgress, NoFlips, NoOp
<1> QED
  BY <1>2, <1>3, <1>4, PromiseMeansTheSame DEF Promise!IsOutcome, Reaches

LEMMA StepSimulates ==
  ASSUME IInv, FlipProgress, [Next]_vars
  PROVE  [Promise!Next]_(Promise!vars)
<1> USE DEF IInv
<1> DEFINE placed == IF inst = Idle THEN position ELSE Before
<1>1. ASSUME NEW o \in Op, NEW pos \in Slots(link[o]), Flip(o, pos)
      PROVE  Promise!Begin
  <2>1. /\ inst = Idle /\ inst' = [op_id |-> o, new_pos |-> pos]
        /\ position' = position /\ flip_log' = NoFlips
    BY <1>1 DEF Flip
  <2>2. Before' = position
    BY <2>1 DEF Before, NoFlips, TypeOK
  <2>3. inst' # Idle
    BY <2>1, OpAssumption DEF Idle, NoOp
  <2> QED
    BY <2>1, <2>2, <2>3, PromiseMeansTheSame DEF Promise!Begin
<1>2. ASSUME Before' = Before, inst' = inst, position' = position \/ inst # Idle
      PROVE  UNCHANGED Promise!vars
  BY <1>2 DEF Promise!vars
<1>3. CASE \E o \in Op : TakeRequest(o)
  BY <1>2, <1>3, TakeRequestIInv DEF TakeRequest
<1>4. CASE SwapStep
  <2>1. inst # Idle /\ inst' = inst
    BY <1>4 DEF SwapStep, TypeOK
  <2> QED
    BY <1>2, <1>4, <2>1, SwapIInv
<1>5. CASE EndRequest
  BY <1>2, <1>5, EndRequestIInv DEF EndRequest
<1>6. CASE Return
  <2>1. /\ inst # Idle /\ inst' = Idle /\ position' = position /\ Before' = Before
    BY <1>6, ReturnIInv DEF Return
  <2> QED
    BY <1>6, <2>1, ReturnIsOutcome, PromiseMeansTheSame DEF Promise!Next, Promise!Complete
<1>7. CASE UndoLastFlip
  <2>1. inst = Idle /\ inst' = inst /\ position' = Before /\ Before' = Before
    BY <1>7, UndoIInv DEF UndoLastFlip
  <2> QED
    BY <2>1, PromiseMeansTheSame DEF Promise!Next, Promise!Undo
<1>8. CASE UNCHANGED vars
  BY <1>2, <1>8 DEF vars, Before
<1> QED
  BY <1>1, <1>3, <1>4, <1>5, <1>6, <1>7, <1>8 DEF Next, Step, CallFlip, Promise!Next

\* A flip moves the operations of its frame in its direction only, keeps the
\* order of all others, and does not forget what the caller asked for.
THEOREM FlipsMakeProgress == Spec => []FlipProgress
<1>1. Init => IInv /\ FlipProgress
  BY InitIInv DEF Init, FlipProgress
<1>2. IInv /\ FlipProgress /\ [Next]_vars => IInv' /\ FlipProgress'
  BY StepIInv, StepFlipProgress
<1> QED
  BY <1>1, <1>2, PTL DEF Spec

\* flip and undo_last_flip implement AtomicFlip: a flip is one change of the
\* arrangement, to one that AtomicFlip allows, and an undo takes back exactly
\* the last flip.
THEOREM ImplementsAtomicFlip == Spec => KeepsPromise
<1>1. Init => IInv /\ FlipProgress /\ Promise!Init
  <2>1. ASSUME Init PROVE Promise!Init
    <3>1. IInv
      BY <2>1, InitIInv
    <3>2. Before = position
      BY <2>1, <3>1, NothingLogged DEF IInv, Init
    <3> QED
      BY <2>1, <3>2, PromiseMeansTheSame DEF Init, Promise!Init
  <2> QED
    BY <2>1, InitIInv DEF Init, FlipProgress
<1>2. IInv /\ FlipProgress /\ [Next]_vars => IInv' /\ FlipProgress' /\ [Promise!Next]_(Promise!vars)
  BY StepIInv, StepFlipProgress, StepSimulates
<1> QED
  BY <1>1, <1>2, PTL DEF Spec, KeepsPromise, Promise!Spec

-----------------------------------------------------------------------------
(* A flip of a frame that travels along a tree ends in place.                *)
(*                                                                           *)
(* On a tree the cascade runs away from the operation that is flipped: of    *)
(* two neighbours the one that is nearer to it has passed whatever the other *)
(* passes, or is about to pass, so that no request leads back.               *)

OpsOf(f) == {o \in Op : frame[o] = f}

Neighbors(o) == route_pred[o] \cup route_succ[o]

\* toward[o] is the neighbour of o that is nearer to root.
Oriented(toward, root) ==
  /\ toward \in [Op -> Op]
  /\ toward[root] = root
  /\ \A o \in OpsOf(frame[root]) : \A m \in Neighbors(o) : toward[o] = m \/ toward[m] = o

\* o is before q in the direction of the flip.
Ahead(o, q) == IF policy = MOVE_BEFORE THEN position[o] < position[q]
                                       ELSE position[o] > position[q]

\* What an operation of the frame has passed or is to pass, its neighbour
\* toward the root has passed.
RunsAway(toward) ==
  \A o, q \in Op : \A p \in related_neighbor_pairs(o, q) :
    /\ frame[o] = frame[inst.op_id] /\ o # q
    /\ link[o] = link[q] /\ pcp[o] = pcp[q]
    /\ p[1] = toward[o]
    /\ Ahead(o, q) \/ Due(o, q)
    => Ahead(p[1], p[2])

\* The operation that is flipped is moved once.
MovedOnce ==
  LET op == inst.op_id
  IN \/ mover = NoOp /\ DOMAIN req_flips = {op} /\ req_flips[op] = inst.new_pos
     \/ op = mover /\ new_pos = inst.new_pos /\ op \notin DOMAIN req_flips
     \/ op # mover /\ position[op] = inst.new_pos /\ op \notin DOMAIN req_flips

TreeInv ==
  inst # Idle /\ TravelsAlongTree(frame[inst.op_id]) =>
    MovedOnce /\ \E toward : Oriented(toward, inst.op_id) /\ RunsAway(toward)

-----------------------------------------------------------------------------
(* Every tree can be oriented toward each of its operations. *)

LEMMA NeighborFacts ==
  ASSUME NEW o \in Op, NEW m \in Neighbors(o)
  PROVE  m \in Op /\ m # o /\ frame[m] = frame[o] /\ o \in Neighbors(m)
  BY RouteAssumption DEF Neighbors

LEMMA AtMostOne ==
  ASSUME NEW S \in SUBSET Op, Cardinality(S) <= 1, NEW a \in S, NEW b \in S
  PROVE  a = b
<1>1. IsFiniteSet(S) /\ Cardinality(S) \in Nat
  BY OpAssumption, FS_Subset, FS_CardinalityType
<1>2. Cardinality(S) = 1
  BY <1>1, FS_EmptySet
<1>3. \E x : S = {x}
  BY <1>1, <1>2, FS_Singleton
<1> QED
  BY <1>3

\* At the root of the tree all neighbours are behind it.
LEMMA RootIsOriented ==
  ASSUME NEW x \in Op, TravelsAlongTree(frame[x]), route_pred[x] = {}
  PROVE  \E toward : Oriented(toward, x)
<1> DEFINE toward == [o \in Op |-> IF o \in OpsOf(frame[x]) /\ route_pred[o] # {}
                                     THEN CHOOSE m \in route_pred[o] : TRUE ELSE o]
<1>1. \A o \in Op : route_pred[o] \in SUBSET Op
  BY RouteAssumption
<1>2. toward \in [Op -> Op] /\ toward[x] = x
  BY <1>1
<1>3. ASSUME NEW o \in OpsOf(frame[x]), NEW m \in route_pred[o]
      PROVE  toward[o] = m
  <2>1. o \in Op /\ Cardinality(route_pred[o]) <= 1
    BY DEF TravelsAlongTree, OpsOf
  <2> QED
    BY <1>1, <2>1, AtMostOne
<1>4. ASSUME NEW o \in OpsOf(frame[x]), NEW m \in Neighbors(o)
      PROVE  toward[o] = m \/ toward[m] = o
  <2>1. o \in Op /\ m \in OpsOf(frame[x])
    BY NeighborFacts DEF OpsOf
  <2>2. m \in route_pred[o] \/ o \in route_pred[m]
    BY <2>1, RouteAssumption DEF Neighbors, OpsOf
  <2> QED
    BY <1>3, <2>1, <2>2
<1> QED
  BY <1>2, <1>4 DEF Oriented

\* From an operation to one behind it only the edge between them is turned.
LEMMA NextIsOriented ==
  ASSUME NEW x \in Op, NEW y \in Op, y \in Neighbors(x),
         NEW toward, Oriented(toward, x)
  PROVE  \E turned : Oriented(turned, y)
<1> DEFINE turned == [toward EXCEPT ![x] = y, ![y] = y]
<1>1. /\ toward \in [Op -> Op] /\ toward[x] = x
      /\ x # y /\ frame[x] = frame[y] /\ x \in OpsOf(frame[x]) /\ y \in OpsOf(frame[x])
      /\ x \in Neighbors(y)
  BY NeighborFacts DEF Oriented, OpsOf
<1>2. toward[y] = x
  BY <1>1 DEF Oriented
<1>3. turned \in [Op -> Op] /\ turned[y] = y /\ turned[x] = y
  BY <1>1
<1>4. ASSUME NEW o \in OpsOf(frame[y]), NEW m \in Neighbors(o)
      PROVE  turned[o] = m \/ turned[m] = o
  <2>1. o \in Op /\ m \in Op /\ m # o
    BY NeighborFacts DEF OpsOf
  <2>2. toward[o] = m \/ toward[m] = o
    BY <1>1 DEF Oriented
  <2>3. CASE {o, m} = {x, y}
    BY <1>3, <2>3
  <2>4. CASE {o, m} # {x, y}
    BY <1>1, <1>2, <2>1, <2>2, <2>4
  <2> QED
    BY <2>3, <2>4
<1> QED
  BY <1>3, <1>4 DEF Oriented

\* The first operation that could not be oriented has no predecessor, or one
\* that can.
LEMMA TreesAreOriented ==
  ASSUME NEW x \in Op, TravelsAlongTree(frame[x])
  PROVE  \E toward : Oriented(toward, x)
<1> DEFINE S == {o \in OpsOf(frame[x]) : ~ \E toward : Oriented(toward, o)}
<1> SUFFICES ASSUME S # {}
             PROVE  FALSE
  BY DEF OpsOf
<1>1. PICK o \in S : route_pred[o] \cap S = {}
  BY DEF TravelsAlongTree, OpsOf
<1>2. o \in Op /\ frame[o] = frame[x]
  BY DEF OpsOf
<1>3. route_pred[o] # {}
  BY <1>2, RootIsOriented
<1>4. PICK m \in route_pred[o] : TRUE
  BY <1>3
<1>5. m \in Op /\ frame[m] = frame[x] /\ o \in Neighbors(m)
  BY <1>2, NeighborFacts DEF Neighbors
<1>6. \E toward : Oriented(toward, m)
  BY <1>1, <1>4, <1>5 DEF OpsOf
<1> QED
  BY <1>2, <1>5, <1>6, NextIsOriented

-----------------------------------------------------------------------------
(* No request leads back. *)

\* The operations of a flip's frame are alone on their links, and the others
\* are in FIFO order all the time.
LEMMA OthersAreFIFO ==
  ASSUME IInv, inst # Idle, NEW o \in Op, NEW q \in Op, o # q,
         link[o] = link[q], pcp[o] = pcp[q],
         frame[o] # frame[inst.op_id], frame[q] # frame[inst.op_id],
         NEW p \in related_neighbor_pairs(o, q), Ahead(o, q)
  PROVE  p[1] = p[2] \/ Ahead(p[1], p[2])
<1> USE DEF IInv
<1>1. /\ p[1] \in Op /\ p[2] \in Op /\ p = <<p[1], p[2]>> /\ link[p[1]] = link[p[2]]
      /\ frame[p[1]] # frame[inst.op_id] /\ frame[p[2]] # frame[inst.op_id]
  BY RelatedNeighbors
<1>2. \A a \in Op : frame[a] # frame[inst.op_id] => \A b : ~Due(a, b)
  BY OpAssumption DEF MoversAreOneFrame, Due, NoOp
<1>3. \A a, b \in Op : link[a] = link[b] /\ position[a] = position[b] => a = b
  BY PositionIsArrangement DEF IsArrangement
<1>4. \A a \in Op : position[a] \in Nat
  BY DEF TypeOK
<1>5. <<p[2], p[1]>> \in related_neighbor_pairs(q, o)
  BY RelatedReversed
<1>6. ~Inverted(position, o, q, p[1], p[2])
  BY <1>1, <1>2 DEF InversionsAreCovered
<1>7. ~Inverted(position, q, o, p[2], p[1])
  <2> DEFINE r == <<p[2], p[1]>>
  <2>1. r \in related_neighbor_pairs(q, o) /\ r[1] = p[2] /\ r[2] = p[1]
    BY <1>5
  <2> QED
    BY <1>1, <1>2, <2>1 DEF InversionsAreCovered
<1> QED
  BY <1>1, <1>3, <1>4, <1>5, <1>6, <1>7 DEF Ahead, Inverted

LEMMA FlipRunsAway ==
  ASSUME IInv, NEW x \in Op, NEW pos \in Slots(link[x]), Flip(x, pos),
         NEW toward, Oriented(toward, x)
  PROVE  RunsAway(toward)'
<1> USE DEF IInv
<1>1. /\ inst = Idle /\ mover = NoOp /\ req_flips = NoFlips
      /\ position' = position /\ inst' = [op_id |-> x, new_pos |-> pos] /\ mover' = NoOp
      /\ req_flips' = [q \in {x} |-> pos]
  BY DEF Flip, TypeOK, loop
<1>2. check_consistency(position)
  BY <1>1, NothingDue
<1>3. \A a, b \in Op : link[a] = link[b] /\ position[a] = position[b] => a = b
  BY PositionIsArrangement DEF IsArrangement
<1>4. \A a \in Op : position[a] \in Nat
  BY DEF TypeOK
<1> SUFFICES ASSUME NEW o \in Op, NEW q \in Op, NEW p \in related_neighbor_pairs(o, q),
                    frame[o] = frame[x], o # q, link[o] = link[q], pcp[o] = pcp[q],
                    p[1] = toward[o], Ahead(o, q)' \/ Due(o, q)'
             PROVE  Ahead(p[1], p[2])'
  BY <1>1 DEF RunsAway
<1>5. /\ p[1] \in Op /\ p[2] \in Op /\ p = <<p[1], p[2]>> /\ link[p[1]] = link[p[2]]
      /\ frame[p[1]] = frame[o] /\ frame[p[2]] = frame[q]
      /\ link[p[1]] # link[o]
  BY RelatedNeighbors
<1>6. frame[o] # frame[q]
  BY RouteAssumption
<1>7. o # x
  BY <1>5 DEF Oriented
<1>8. ~Due(o, q)'
  BY <1>1, <1>7, OpAssumption DEF Due, NoOp
<1>9. ~Inverted(position, o, q, p[1], p[2])
  BY <1>2 DEF check_consistency
<1>10. ~Inverted(position, q, o, p[2], p[1])
  <2>1. <<p[2], p[1]>> \in related_neighbor_pairs(q, o)
    BY RelatedReversed
  <2> QED
    BY <1>2, <2>1 DEF check_consistency
<1>11. <<p[1], p[2]>> \in related_neighbor_pairs(o, q)
       /\ <<p[2], p[1]>> \in related_neighbor_pairs(q, o)
  BY <1>5, RelatedReversed
<1>12. position[p[1]] # position[p[2]]
  BY <1>3, <1>5, <1>6
<1> QED
  BY <1>1, <1>4, <1>5, <1>8, <1>9, <1>10, <1>11, <1>12 DEF Ahead, Inverted

\* The neighbour toward the root of the operation moved has passed before what
\* it passes now, and asks for nothing.
LEMMA NoneRequestedBack ==
  ASSUME IInv, inst # Idle, NEW x, NEW y, Swaps(x, y),
         NEW toward, Oriented(toward, inst.op_id), RunsAway(toward),
         NEW p \in adjacent_flips(position', x, y), pcp[x] = pcp[y]
  PROVE  /\ p[1] # toward[x]
         /\ toward[p[1]] = x
<1> USE DEF IInv
<1>1. x = mover /\ x \in Op /\ y \in Op /\ y # x /\ link[y] = link[x]
      /\ position[y] = next(cur_pos) /\ Reaches(new_pos, next(cur_pos)) /\ policy' = policy
  BY DEF Swaps
<1>2. p \in related_neighbor_pairs(x, y)
  BY DEF adjacent_flips
<1>3. /\ p[1] \in Op /\ p[2] \in Op /\ link[p[1]] # link[x] /\ link[p[2]] # link[x]
  BY <1>1, <1>2, RelatedNeighbors
<1>4. frame[x] = frame[inst.op_id]
  BY <1>1, OpAssumption DEF MoversAreOneFrame, NoOp
<1>5. Due(x, y)
  BY <1>1 DEF Due
<1>6. \A o \in Op \ {x, y} : position'[o] = position[o]
  BY <1>1, SwapPositions
<1>7. \A o \in Op : position[o] \in Nat
  BY DEF TypeOK
<1>8. p[1] # toward[x]
  <2>1. ASSUME p[1] = toward[x] PROVE Ahead(p[1], p[2])
    BY <1>1, <1>2, <1>4, <1>5, <2>1 DEF RunsAway
  <2>2. ~Ahead(p[1], p[2])
    BY <1>1, <1>3, <1>6, <1>7 DEF adjacent_flips, Ahead
  <2> QED
    BY <2>1, <2>2
<1>9. p[1] \in Neighbors(x)
  BY <1>2 DEF related_neighbor_pairs, Neighbors
<1> QED
  BY <1>1, <1>4, <1>8, <1>9 DEF Oriented, OpsOf

\* A swap moves one operation further away from the root of its tree, past the
\* operation y: what it comes to be ahead of, its neighbour toward the root is
\* ahead of already.
LEMMA SwapRunsAway ==
  ASSUME IInv, inst # Idle, NEW x, NEW y, Swaps(x, y), TravelsAlongTree(frame[inst.op_id]),
         NEW toward, Oriented(toward, inst.op_id), RunsAway(toward)
  PROVE  RunsAway(toward)'
<1> USE DEF IInv
<1>1. /\ x = mover /\ x \in Op /\ y \in Op /\ x # y /\ link[x] = link[y]
      /\ Reaches(new_pos, position[y])
      /\ UNCHANGED <<inst, policy, mover, new_pos>>
  BY DEF Swaps
<1>2. /\ frame[x] = frame[inst.op_id] /\ x \notin DOMAIN req_flips
      /\ frame[y] # frame[x]
  BY <1>1, OpAssumption, RouteAssumption DEF MoversAreOneFrame, NoOp
<1>3. /\ \A o \in Op : position[o] \in Nat /\ position'[o] \in Nat
      /\ \A o \in Op \ {x, y} : position'[o] = position[o]
      /\ position'[x] = position[y] /\ position'[y] = position[x]
      /\ position[y] = IF policy = MOVE_BEFORE THEN position[x] - 1 ELSE position[x] + 1
  BY SwapPositions
<1>4. \A a, b \in Op : link[a] = link[b] /\ position[a] = position[b] => a = b
  BY PositionIsArrangement DEF IsArrangement
<1>5. \A a, b \in Op : frame[a] = frame[b] /\ link[a] = link[b] => a = b
  BY RouteAssumption
<1>6. Due(x, y) /\ Ahead(x, y)'
  BY <1>1, <1>3 DEF Due, Ahead
<1>7. ASSUME NEW a \in Op, NEW b \in Op, frame[a] = frame[x], frame[b] # frame[x],
             link[a] = link[b], Ahead(a, b)
      PROVE  Ahead(a, b)'
  <2>1. a # y /\ b # x /\ (b = y => a = x)
    BY <1>1, <1>2, <1>5, <1>7
  <2> QED
    BY <1>1, <1>3, <1>6, <1>7, <2>1 DEF Ahead
<1> SUFFICES ASSUME NEW o \in Op, NEW q \in Op, NEW p \in related_neighbor_pairs(o, q),
                    frame[o] = frame[x], o # q, link[o] = link[q], pcp[o] = pcp[q],
                    p[1] = toward[o], Ahead(o, q)' \/ Due(o, q)'
             PROVE  Ahead(p[1], p[2])'
  BY <1>1, <1>2 DEF RunsAway
<1>8. /\ p[1] \in Op /\ p[2] \in Op /\ p = <<p[1], p[2]>> /\ link[p[1]] = link[p[2]]
      /\ frame[p[1]] = frame[o] /\ frame[p[2]] = frame[q]
      /\ frame[q] # frame[o]
  BY <1>5, RelatedNeighbors
<1>9. o # y /\ q # x /\ (q = y => o = x)
  BY <1>1, <1>2, <1>5, <1>8
<1>10. ASSUME Ahead(o, q) \/ Due(o, q)
       PROVE  Ahead(p[1], p[2])'
  <2>1. Ahead(p[1], p[2])
    BY <1>2, <1>10 DEF RunsAway
  <2> QED
    BY <1>7, <1>8, <2>1
<1>11. CASE Ahead(o, q)'
  <2>1. CASE q = y
    BY <1>6, <1>9, <1>10, <2>1
  <2>2. CASE q # y
    <3>1. position'[q] = position[q] /\ position[q] # position[o]
      BY <1>3, <1>4, <1>9, <2>2
    <3>2. o = x => position[q] # position[y]
      BY <1>1, <1>4, <2>2
    <3>3. Ahead(o, q)
      BY <1>1, <1>3, <1>9, <1>11, <3>1, <3>2 DEF Ahead
    <3> QED
      BY <1>10, <3>3
  <2> QED
    BY <2>1, <2>2
<1>12. CASE Due(o, q)'
  <2>1. CASE o = mover /\ Reaches(new_pos, position'[q])
    <3>1. q # y => Due(o, q)
      BY <1>3, <1>9, <2>1 DEF Due
    <3> QED
      BY <1>1, <1>6, <1>10, <2>1, <3>1
  <2>2. CASE /\ o \in DOMAIN req_flips /\ req_flips'[o] = req_flips[o]
             /\ Reaches(req_flips'[o], position[q]')
    <3>1. q # y
      BY <1>2, <1>9, <2>2
    <3>2. Due(o, q)
      BY <1>3, <1>9, <2>2, <3>1 DEF Due
    <3> QED
      BY <1>10, <3>2
  <2>3. ASSUME NEW r \in adjacent_flips(position', x, y), pcp[x] = pcp[y],
               r[1] = o, req_flips'[o] = position'[r[2]],
               Reaches(req_flips'[o], position[q]')
        PROVE  Ahead(p[1], p[2])'
    <3> DEFINE n == r[2]
    <3>1. p[1] = x
      BY <1>8, <2>3, NoneRequestedBack
    <3>2. /\ r \in related_neighbor_pairs(x, y) /\ r = <<o, n>> /\ n \in Op
          /\ link[n] = link[o] /\ link[o] # link[x]
          /\ frame[n] = frame[y] /\ pcp[n] = pcp[y] /\ pcp[o] = pcp[x]
      BY <1>1, <2>3, RelatedNeighbors DEF adjacent_flips
    <3>3. <<x, y>> \in related_neighbor_pairs(o, n)
      BY <1>1, <3>2, RelatedSymmetric
    <3>4. position'[n] = position[n] /\ position'[q] = position[q] /\ q # y
      BY <1>1, <1>3, <1>9, <3>2
    <3>5. CASE q = n
      <4>1. p[2] = y
        BY <1>1, <1>5, <1>8, <3>1, <3>2, <3>5
      <4> QED
        BY <1>6, <3>1, <4>1
    <3>6. CASE q # n
      <4>1. Reaches(position[n], position[q])
        BY <1>1, <2>3, <3>4 DEF Reaches
      <4>2. Ahead(n, q)
        BY <1>3, <1>4, <3>2, <3>6, <4>1 DEF Ahead, Reaches
      <4>3. ~(x \in route_pred[o] /\ x \in route_succ[o])
        <5>1. {x, o} \in SUBSET OpsOf(frame[inst.op_id]) /\ {x, o} # {}
          BY <1>1, <1>2 DEF OpsOf
        <5>2. PICK z \in {x, o} : route_pred[z] \cap {x, o} = {}
          BY <5>1 DEF TravelsAlongTree, OpsOf
        <5> QED
          BY <1>1, <5>2, RouteAssumption
      <4>4. <<y, p[2]>> \in related_neighbor_pairs(n, q)
        BY <1>1, <1>8, <3>1, <3>3, <4>3 DEF related_neighbor_pairs
      <4>5. y = p[2] \/ Ahead(y, p[2])
        <5> DEFINE s == <<y, p[2]>>
        <5>1. s \in related_neighbor_pairs(n, q) /\ s[1] = y /\ s[2] = p[2]
          BY <4>4
        <5>2. /\ link[n] = link[q] /\ pcp[n] = pcp[q] /\ frame[n] # frame[inst.op_id]
              /\ frame[q] # frame[inst.op_id]
          BY <1>2, <1>8, <2>3, <3>2
        <5> HIDE DEF s
        <5>3. s[1] = s[2] \/ Ahead(s[1], s[2])
          BY <3>2, <3>6, <4>2, <5>1, <5>2, OthersAreFIFO
        <5> QED
          BY <5>1, <5>3
      <4>6. p[2] # x
        BY <1>8
      <4> QED
        BY <1>1, <1>3, <1>6, <1>8, <3>1, <4>5, <4>6 DEF Ahead
    <3> QED
      BY <3>5, <3>6
  <2>4. \/ o \in DOMAIN req_flips' /\ Reaches(req_flips'[o], position[q]')
        \/ o = mover /\ Reaches(new_pos, position'[q])
    BY <1>1, <1>12 DEF Due, Reaches
  <2>5. ASSUME o \in DOMAIN req_flips'
        PROVE  \/ o \in DOMAIN req_flips /\ req_flips'[o] = req_flips[o]
               \/ \E r \in adjacent_flips(position', x, y) :
                    pcp[x] = pcp[y] /\ r[1] = o /\ req_flips'[o] = position'[r[2]]
    <3>1. CASE pcp[x] = pcp[y]
      BY <2>5, <3>1, RequestsAfterSwap
    <3>2. CASE pcp[x] # pcp[y]
      BY <2>5, <3>2 DEF Swaps
    <3> QED
      BY <3>1, <3>2
  <2> QED
    BY <2>1, <2>2, <2>3, <2>4, <2>5
<1> QED
  BY <1>11, <1>12


-----------------------------------------------------------------------------
(* The flip ends in place. *)

LEMMA SwapTreeInv ==
  ASSUME IInv, TreeInv, NEW x, NEW y, Swaps(x, y)
  PROVE  TreeInv'
<1> USE DEF IInv
<1>1. /\ x = mover /\ x \in Op /\ y \in Op /\ mover # NoOp /\ inst # Idle
      /\ UNCHANGED <<inst, policy, mover, new_pos>>
  BY OpAssumption DEF Swaps, TypeOK, NoOp
<1> SUFFICES ASSUME TravelsAlongTree(frame[inst.op_id])
             PROVE  (MovedOnce /\ \E toward : Oriented(toward, inst.op_id) /\ RunsAway(toward))'
  BY <1>1 DEF TreeInv
<1> DEFINE op == inst.op_id
<1>2. MovedOnce /\ \E toward : Oriented(toward, op) /\ RunsAway(toward)
  BY <1>1 DEF TreeInv
<1>3. PICK toward : Oriented(toward, op) /\ RunsAway(toward)
  BY <1>2
<1>4. RunsAway(toward)'
  BY <1>1, <1>3, SwapRunsAway
<1>5. Oriented(toward, op)'
  BY <1>1, <1>3 DEF Oriented
<1>6. op \in Op /\ op \notin DOMAIN req_flips
  BY <1>1, <1>2 DEF MovedOnce, TypeOK
<1>7. op \notin DOMAIN req_flips'
  <2>1. SUFFICES ASSUME op \in DOMAIN req_flips' PROVE FALSE
    OBVIOUS
  <2>2. pcp[x] = pcp[y] /\ \E p \in adjacent_flips(position', x, y) : p[1] = op
    <3>1. pcp[x] = pcp[y]
      BY <1>6, <2>1 DEF Swaps
    <3>2. \A o \in DOMAIN req_flips' :
            \/ o \in DOMAIN req_flips
            \/ \E p \in adjacent_flips(position', x, y) : p[1] = o
      BY RequestsAfterSwap
    <3> QED
      BY <1>6, <2>1, <3>1, <3>2
  <2>3. PICK p \in adjacent_flips(position', x, y) : p[1] = op
    BY <2>2
  <2>4. op # toward[x] /\ toward[op] = x
    BY <1>1, <1>3, <2>2, <2>3, NoneRequestedBack
  <2>5. toward[op] = op
    BY <1>3 DEF Oriented
  <2> QED
    BY <2>4, <2>5
<1>8. op # mover => position'[op] = position[op]
  <2>1. frame[x] = frame[op]
    BY <1>1 DEF MoversAreOneFrame
  <2>2. op # y
    BY <1>1, <1>6, <2>1, SwapPositions, RouteAssumption
  <2> QED
    BY <1>1, <1>6, <2>2, SwapPositions
<1>9. MovedOnce'
  BY <1>1, <1>2, <1>7, <1>8 DEF MovedOnce
<1> QED
  BY <1>4, <1>5, <1>9

LEMMA FlipTreeInv ==
  ASSUME IInv, NEW x \in Op, NEW pos \in Slots(link[x]), Flip(x, pos)
  PROVE  TreeInv'
<1>1. /\ inst' = [op_id |-> x, new_pos |-> pos] /\ mover' = NoOp
      /\ req_flips' = [q \in {x} |-> pos]
  BY DEF Flip, IInv, TypeOK, loop
<1>2. MovedOnce'
  BY <1>1 DEF MovedOnce
<1>3. ASSUME TravelsAlongTree(frame[x])
      PROVE  \E toward : Oriented(toward, x) /\ RunsAway(toward)'
  BY <1>3, TreesAreOriented, FlipRunsAway
<1>4. \A toward : Oriented(toward, x) => Oriented(toward, inst.op_id)'
  BY <1>1 DEF Oriented
<1> QED
  BY <1>1, <1>2, <1>3, <1>4 DEF TreeInv

\* Taking or ending a request changes neither what is ahead nor what is due.
LEMMA RequestTreeInv ==
  ASSUME IInv, TreeInv, (\E o \in Op : TakeRequest(o)) \/ EndRequest
  PROVE  TreeInv'
<1> USE DEF IInv
<1>1. inst # Idle /\ UNCHANGED <<position, inst, policy>>
  BY DEF TakeRequest, EndRequest, TypeOK
<1> SUFFICES ASSUME TravelsAlongTree(frame[inst.op_id])
             PROVE  (MovedOnce /\ \E toward : Oriented(toward, inst.op_id) /\ RunsAway(toward))'
  BY <1>1 DEF TreeInv
<1>2. MovedOnce /\ \E toward : Oriented(toward, inst.op_id) /\ RunsAway(toward)
  BY <1>1 DEF TreeInv
<1>3. PICK toward : Oriented(toward, inst.op_id) /\ RunsAway(toward)
  BY <1>2
<1>4. inst.op_id \in Op /\ inst.op_id # NoOp
  BY <1>1, OpAssumption DEF TypeOK, NoOp
<1>5. ASSUME NEW a \in Op, NEW b \in Op, link[a] = link[b], a # b, Due(a, b)'
      PROVE  Ahead(a, b) \/ Due(a, b)
  <2>1. CASE \E o \in Op : TakeRequest(o)
    BY <1>1, <1>5, <2>1 DEF TakeRequest, IsFirstKey, Due, Reaches
  <2>2. CASE EndRequest
    BY <1>1, <1>5, <2>2, OpAssumption DEF EndRequest, Due, Reaches, NoOp
  <2> QED
    BY <2>1, <2>2
<1>6. \A a, b \in Op : Ahead(a, b)' <=> Ahead(a, b)
  BY <1>1 DEF Ahead
<1>7. RunsAway(toward)'
  <2> SUFFICES ASSUME NEW o \in Op, NEW q \in Op, NEW p \in related_neighbor_pairs(o, q),
                      frame[o] = frame[inst.op_id], o # q, link[o] = link[q], pcp[o] = pcp[q],
                      p[1] = toward[o], Ahead(o, q)' \/ Due(o, q)'
               PROVE  Ahead(p[1], p[2])'
    BY <1>1 DEF RunsAway
  <2>1. Ahead(p[1], p[2])
    BY <1>3, <1>5, <1>6 DEF RunsAway
  <2> QED
    BY <1>6, <2>1, RelatedNeighbors
<1>8. MovedOnce'
  <2>1. ASSUME NEW o \in Op, TakeRequest(o)
        PROVE  MovedOnce'
    <3>1. /\ o \in DOMAIN req_flips /\ mover = NoOp /\ mover' = o /\ new_pos' = req_flips[o]
          /\ DOMAIN req_flips' = DOMAIN req_flips \ {o}
      BY <2>1 DEF TakeRequest, IsFirstKey
    <3> QED
      BY <1>1, <1>2, <1>4, <3>1 DEF MovedOnce
  <2>2. CASE EndRequest
    <3>1. /\ mover # NoOp /\ mover' = NoOp /\ position[mover] = new_pos
          /\ req_flips' = req_flips
      BY <2>2 DEF EndRequest, InBounds
    <3> QED
      BY <1>1, <1>2, <1>4, <3>1 DEF MovedOnce
  <2> QED
    BY <2>1, <2>2
<1>9. Oriented(toward, inst.op_id)'
  BY <1>1, <1>3 DEF Oriented
<1> QED
  BY <1>7, <1>8, <1>9

LEMMA StepTreeInv ==
  ASSUME IInv, TreeInv, [Next]_vars
  PROVE  TreeInv'
<1>1. CASE CallFlip
  BY <1>1, FlipTreeInv DEF CallFlip
<1>2. CASE (\E o \in Op : TakeRequest(o)) \/ EndRequest
  BY <1>2, RequestTreeInv
<1>3. CASE SwapStep
  <2>1. PICK y \in Op : Swaps(mover, y)
    BY <1>3, SwapFacts DEF IInv
  <2> QED
    BY <2>1, SwapTreeInv
<1>4. CASE Return \/ UndoLastFlip
  BY <1>4 DEF Return, UndoLastFlip, TreeInv
<1>5. CASE UNCHANGED vars
  BY <1>5 DEF vars, TreeInv, MovedOnce, Oriented, RunsAway, Ahead, Due, Reaches
<1> QED
  BY <1>1, <1>2, <1>3, <1>4, <1>5 DEF Next, Step

LEMMA StepEndsInPlace ==
  ASSUME IInv, TreeInv, [Next]_vars
  PROVE  EndsInPlace
<1> SUFFICES ASSUME inst # Idle, inst' = Idle, TravelsAlongTree(frame[inst.op_id])
             PROVE  position'[inst.op_id] = inst.new_pos
  BY DEF EndsInPlace
<1>1. inst.op_id \in Op /\ inst.op_id # NoOp
  BY OpAssumption DEF IInv, TypeOK, NoOp
<1>2. Return
  BY DEF Next, Step, CallFlip, Flip, TakeRequest, SwapStep, EndRequest, UndoLastFlip, vars
<1>3. mover = NoOp /\ req_flips = NoFlips /\ position' = position
  BY <1>2 DEF Return
<1>4. MovedOnce
  BY DEF TreeInv
<1> QED
  BY <1>1, <1>3, <1>4 DEF MovedOnce, NoFlips

\* On a tree the cascade that a flip sets off runs away from the operation that
\* is flipped and does not come back to it: consistent_flip leaves it exactly
\* where the caller wanted it.
THEOREM FlipsEndInPlace == Spec => FlipEndsInPlace
<1>1. Init => IInv /\ TreeInv
  BY InitIInv DEF Init, TreeInv
<1>2. IInv /\ TreeInv /\ [Next]_vars => IInv' /\ TreeInv'
  BY StepIInv, StepTreeInv
<1>3. IInv /\ TreeInv /\ [Next]_vars => [EndsInPlace]_vars
  BY StepEndsInPlace
<1> QED
  BY <1>1, <1>2, <1>3, PTL DEF Spec, FlipEndsInPlace
=============================================================================
