------------------------ MODULE TransmissionGraphProofs ------------------------
(***************************************************************************)
(* What TransmissionGraph keeps, whatever is flipped and merged, as long   *)
(* as merges join pairs that are apart (MergesArePairwise).                *)
(***************************************************************************)
EXTENDS TransmissionGraph, DisjunctiveGraphProofs

Node == Op \cup {SOURCE_ID, SINK_ID}

Frame == UNION {InitialFrames[o] : o \in Op}

\* The graphs of these operations.
GraphType ==
  [ order : [Link -> Seq(Op)], position : [Op -> Int], link : {link}, pcp : {pcp},
    route_pred : [Node -> Seq(Node)], route_succ : [Node -> Seq(Node)],
    frames : [Op -> SUBSET Frame] ]

-----------------------------------------------------------------------------
(* Pairs of job neighbours. *)

\* At most one neighbour is on each link.
Apart(list) ==
  \A i, j \in 1 .. Len(list) :
    i # j /\ ~IsTerminal(list[i]) /\ ~IsTerminal(list[j]) => link[list[i]] # link[list[j]]

LEMMA ApartElements ==
  ASSUME NEW list \in Seq(Node)
  PROVE  /\ \A x \in Range(list) : x \in Node
         /\ Apart(list) => \A x, y \in Range(list) :
              ~IsTerminal(x) /\ ~IsTerminal(y) /\ link[x] = link[y] => x = y
<1>1. Range(list) = {list[i] : i \in 1 .. Len(list)}
  BY RangeEquality
<1>2. \A i \in 1 .. Len(list) : list[i] \in Node
  BY LenProperties
<1> QED
  BY <1>1, <1>2 DEF Apart

LEMMA SameLink ==
  ASSUME NEW G \in GraphType, NEW o \in Op, NEW second \in Seq(Node)
  PROVE  /\ \A q \in OnSameLink(G, o, second) :
              q \in Range(second) /\ q \in Op /\ link[q] = link[o]
         /\ \A q \in Range(second) : ~IsTerminal(q) /\ link[q] = link[o] =>
              /\ OnSameLink(G, o, second) # {}
              /\ Apart(second) => q \in OnSameLink(G, o, second)
         /\ \A p, q \in OnSameLink(G, o, second) : p = q
<1> DEFINE matches == {i \in DOMAIN second : ~IsTerminal(second[i]) /\ G.link[second[i]] = G.link[o]}
           first == {j \in matches : \A k \in matches : j <= k}
<1>1. OnSameLink(G, o, second) = {second[i] : i \in first}
  BY DEF OnSameLink
<1>2. DOMAIN second = 1 .. Len(second) /\ \A i \in 1 .. Len(second) : second[i] \in Node
  BY LenProperties
<1>3. G.link = link
  BY DEF GraphType
<1>4. Range(second) = {second[i] : i \in 1 .. Len(second)}
  BY RangeEquality
<1>5. \A i \in matches : second[i] \in Range(second) /\ second[i] \in Op /\ link[second[i]] = link[o]
  BY <1>2, <1>3, <1>4 DEF Node, IsTerminal
<1>6. matches \in SUBSET Nat /\ first \subseteq matches
  BY <1>2
<1>7. matches # {} => first # {}
  BY <1>6, LeastNatural
<1>8. \A i, j \in first : i = j
  BY <1>6
<1>9. \A q \in Range(second) : ~IsTerminal(q) /\ link[q] = link[o] =>
        \E i \in matches : q = second[i]
  BY <1>2, <1>3, <1>4
<1>10. Apart(second) => \A i, j \in matches : i = j
  BY <1>2, <1>3 DEF Apart
<1> HIDE DEF matches, first
<1>11. \A q \in OnSameLink(G, o, second) : q \in Range(second) /\ q \in Op /\ link[q] = link[o]
  BY <1>1, <1>5, <1>6
<1>12. ASSUME NEW q \in Range(second), ~IsTerminal(q), link[q] = link[o]
       PROVE  /\ OnSameLink(G, o, second) # {}
              /\ Apart(second) => q \in OnSameLink(G, o, second)
  <2>1. PICK i \in matches : q = second[i]
    BY <1>9, <1>12
  <2>2. PICK j \in first : TRUE
    BY <1>7, <2>1
  <2>3. second[j] \in OnSameLink(G, o, second)
    BY <1>1, <2>2
  <2>4. Apart(second) => i = j
    BY <1>6, <1>10, <2>1, <2>2
  <2> QED
    BY <2>1, <2>3, <2>4
<1>13. \A p, q \in OnSameLink(G, o, second) : p = q
  BY <1>1, <1>8
<1> QED
  BY <1>11, <1>12, <1>13

\* NeighborPairs pairs the neighbours that share a link.
LEMMA PairsOfLists ==
  ASSUME NEW G \in GraphType, NEW first \in Seq(Node), NEW second \in Seq(Node)
  PROVE  /\ NeighborPairs(G, first, second) \in Seq(Op \X Op)
         /\ \A pair \in Range(NeighborPairs(G, first, second)) :
              /\ pair[1] \in Range(first) /\ pair[2] \in Range(second)
              /\ link[pair[1]] = link[pair[2]]
         /\ Apart(second) =>
              \A p \in Range(first), q \in Range(second) :
                ~IsTerminal(p) /\ ~IsTerminal(q) /\ link[p] = link[q] =>
                  <<p, q>> \in Range(NeighborPairs(G, first, second))
<1> DEFINE S == {o \in Range(first) : ~IsTerminal(o) /\ OnSameLink(G, o, second) # {}}
           paired == Only(first, S)
           partner(o) == CHOOSE q \in OnSameLink(G, o, second) : TRUE
           result == [i \in 1 .. Len(paired) |-> <<paired[i], partner(paired[i])>>]
<1>1. NeighborPairs(G, first, second) = result
  BY DEF NeighborPairs
<1>2. \A x \in Range(first) : x \in Node
  BY ApartElements
<1>3. S \subseteq Op
  BY <1>2 DEF Node, IsTerminal
<1>4. paired \in Seq(Node) /\ Range(paired) = S
  BY OnlyKeeps, OnlyRange
<1>5. \A o \in S : partner(o) \in OnSameLink(G, o, second)
  OBVIOUS
<1>6. \A o \in S : partner(o) \in Range(second) /\ partner(o) \in Op /\ link[partner(o)] = link[o]
  BY <1>3, <1>5, SameLink
<1>7. Len(paired) \in Nat /\ Range(paired) = {paired[i] : i \in 1 .. Len(paired)}
  BY <1>4, LenProperties, RangeEquality
<1>8. \A o \in S : \A q \in OnSameLink(G, o, second) : q = partner(o)
  BY <1>3, <1>5, SameLink
<1>9. Apart(second) =>
        \A p \in Range(first), q \in Range(second) :
          ~IsTerminal(p) /\ ~IsTerminal(q) /\ link[p] = link[q] => p \in S /\ q = partner(p)
  <2> SUFFICES ASSUME Apart(second), NEW p \in Range(first), NEW q \in Range(second),
                      ~IsTerminal(p), ~IsTerminal(q), link[p] = link[q]
               PROVE  p \in S /\ q = partner(p)
    OBVIOUS
  <2>1. p \in Op
    BY <1>2 DEF Node, IsTerminal
  <2>2. q \in OnSameLink(G, p, second)
    BY <2>1, SameLink
  <2>3. p \in S
    BY <2>2
  <2> QED
    BY <1>8, <2>2, <2>3
<1> HIDE DEF paired, partner, S
<1>10. \A i \in 1 .. Len(paired) : paired[i] \in S /\ result[i] = <<paired[i], partner(paired[i])>>
  BY <1>4, <1>7
<1>11. \A i \in 1 .. Len(paired) : result[i] \in Op \X Op
  BY <1>3, <1>6, <1>10
<1>12. result \in Seq(Op \X Op) /\ Len(result) = Len(paired)
  BY <1>7, <1>11
<1>13. Range(result) = {result[i] : i \in 1 .. Len(paired)}
  BY <1>12, RangeEquality
<1>14. \A pair \in Range(result) : \E o \in S : pair = <<o, partner(o)>>
  BY <1>10, <1>13
<1>15. \A o \in S : o \in Range(first)
  BY DEF S
<1>16. \A o \in S : <<o, partner(o)>> \in Range(result)
  BY <1>4, <1>7, <1>10, <1>13
<1> HIDE DEF result
<1> QED
  BY <1>1, <1>6, <1>9, <1>12, <1>14, <1>15, <1>16
-----------------------------------------------------------------------------
(* The graphs that merges leave. *)

Existing(G) == {o \in Op : Present(G, o)} \cup {SOURCE_ID, SINK_ID}

\* The neighbours of an operation are on different links, and not on its own.
NeighborsApart(G) ==
  \A o \in Op : Present(G, o) =>
    /\ Apart(G.route_pred[o]) /\ Apart(G.route_succ[o])
    /\ \A x \in Range(G.route_pred[o]) \cup Range(G.route_succ[o]) :
         ~IsTerminal(x) => link[x] # link[o]

\* Neighbours exist.
NeighborsExist(G) ==
  \A x \in Existing(G) : Range(G.route_pred[x]) \cup Range(G.route_succ[x]) \subseteq Existing(G)

\* Predecessors and successors agree.
NeighborsAgree(G) ==
  \A x, y \in Existing(G) : y \in Range(G.route_pred[x]) <=> x \in Range(G.route_succ[y])

Linked(G) == NeighborsApart(G) /\ NeighborsExist(G) /\ NeighborsAgree(G)

\* Different operations of one link.
Twins(G) ==
  {pair \in Op \X Op :
     /\ Present(G, pair[1]) /\ Present(G, pair[2])
     /\ link[pair[1]] = link[pair[2]] /\ pair[1] # pair[2]}

LEMMA NodesOfLists ==
  ASSUME NEW G \in GraphType, NEW x \in Node
  PROVE  G.route_pred[x] \in Seq(Node) /\ G.route_succ[x] \in Seq(Node)
BY DEF GraphType

\* The neighbours of twins on one link are twins.
LEMMA RelatedPairs ==
  ASSUME NEW G \in GraphType, Linked(G), NEW t \in Twins(G)
  PROVE  /\ related_neighbor_pairs(G, t[1], t[2]) \in Seq(Twins(G))
         /\ \A p \in Range(G.route_pred[t[1]]), q \in Range(G.route_pred[t[2]]) :
              ~IsTerminal(p) /\ ~IsTerminal(q) /\ link[p] = link[q] =>
                <<p, q>> \in Range(related_neighbor_pairs(G, t[1], t[2]))
         /\ \A p \in Range(G.route_succ[t[1]]), q \in Range(G.route_succ[t[2]]) :
              ~IsTerminal(p) /\ ~IsTerminal(q) /\ link[p] = link[q] =>
                <<p, q>> \in Range(related_neighbor_pairs(G, t[1], t[2]))
<1> DEFINE a == t[1]
           b == t[2]
           preds == NeighborPairs(G, G.route_pred[a], G.route_pred[b])
           succs == NeighborPairs(G, G.route_succ[a], G.route_succ[b])
<1>1. /\ a \in Op /\ b \in Op /\ a # b /\ link[a] = link[b] /\ Present(G, a) /\ Present(G, b)
      /\ a \in Node /\ b \in Node /\ a \in Existing(G) /\ b \in Existing(G)
      /\ ~IsTerminal(a) /\ ~IsTerminal(b)
  BY OperationAssumption DEF Twins, Node, Existing, IsTerminal
<1>2. /\ G.route_pred[a] \in Seq(Node) /\ G.route_pred[b] \in Seq(Node)
      /\ G.route_succ[a] \in Seq(Node) /\ G.route_succ[b] \in Seq(Node)
      /\ Apart(G.route_pred[b]) /\ Apart(G.route_succ[b])
  BY <1>1, NodesOfLists DEF Linked, NeighborsApart
<1> HIDE DEF a, b
<1>3. /\ preds \in Seq(Op \X Op) /\ succs \in Seq(Op \X Op)
      /\ \A pair \in Range(preds) :
           /\ pair[1] \in Range(G.route_pred[a]) /\ pair[2] \in Range(G.route_pred[b])
           /\ link[pair[1]] = link[pair[2]]
      /\ \A pair \in Range(succs) :
           /\ pair[1] \in Range(G.route_succ[a]) /\ pair[2] \in Range(G.route_succ[b])
           /\ link[pair[1]] = link[pair[2]]
  BY <1>2, PairsOfLists
<1>4. /\ \A p \in Range(G.route_pred[a]), q \in Range(G.route_pred[b]) :
           ~IsTerminal(p) /\ ~IsTerminal(q) /\ link[p] = link[q] => <<p, q>> \in Range(preds)
      /\ \A p \in Range(G.route_succ[a]), q \in Range(G.route_succ[b]) :
           ~IsTerminal(p) /\ ~IsTerminal(q) /\ link[p] = link[q] => <<p, q>> \in Range(succs)
  BY <1>2, PairsOfLists
<1>5. related_neighbor_pairs(G, a, b) = preds \o succs
  BY DEF related_neighbor_pairs
<1>6. \A o \in Op : o \in Existing(G) => Present(G, o) /\ ~IsTerminal(o) /\ o \in Node
  BY OperationAssumption DEF Existing, IsTerminal, Node
<1>7. \A o \in Op : Present(G, o) =>
        /\ \A x, y \in Range(G.route_succ[o]) :
              ~IsTerminal(x) /\ ~IsTerminal(y) /\ link[x] = link[y] => x = y
        /\ \A x, y \in Range(G.route_pred[o]) :
              ~IsTerminal(x) /\ ~IsTerminal(y) /\ link[x] = link[y] => x = y
  <2> SUFFICES ASSUME NEW o \in Op, Present(G, o)
               PROVE  /\ \A x, y \in Range(G.route_succ[o]) :
                           ~IsTerminal(x) /\ ~IsTerminal(y) /\ link[x] = link[y] => x = y
                      /\ \A x, y \in Range(G.route_pred[o]) :
                           ~IsTerminal(x) /\ ~IsTerminal(y) /\ link[x] = link[y] => x = y
    OBVIOUS
  <2>1. /\ G.route_pred[o] \in Seq(Node) /\ G.route_succ[o] \in Seq(Node)
        /\ Apart(G.route_pred[o]) /\ Apart(G.route_succ[o])
    BY NodesOfLists DEF Linked, NeighborsApart, Node
  <2> QED
    BY <2>1, ApartElements
<1>8. ASSUME NEW pair \in Range(preds)
      PROVE  pair \in Twins(G)
  <2>1. pair \in Op \X Op
    BY <1>3, RangeOfSeq
  <2>2. pair[1] \in Existing(G) /\ pair[2] \in Existing(G)
    BY <1>1, <1>3 DEF Linked, NeighborsExist
  <2>3. pair[1] # pair[2]
    <3> SUFFICES ASSUME pair[1] = pair[2]
                 PROVE  FALSE
      OBVIOUS
    <3>1. a \in Range(G.route_succ[pair[1]]) /\ b \in Range(G.route_succ[pair[1]])
      BY <1>1, <1>3, <2>2 DEF Linked, NeighborsAgree
    <3> QED
      BY <1>1, <1>6, <1>7, <2>1, <2>2, <3>1
  <2> QED
    BY <1>3, <1>6, <2>1, <2>2, <2>3 DEF Twins
<1>9. ASSUME NEW pair \in Range(succs)
      PROVE  pair \in Twins(G)
  <2>1. pair \in Op \X Op
    BY <1>3, RangeOfSeq
  <2>2. pair[1] \in Existing(G) /\ pair[2] \in Existing(G)
    BY <1>1, <1>3 DEF Linked, NeighborsExist
  <2>3. pair[1] # pair[2]
    <3> SUFFICES ASSUME pair[1] = pair[2]
                 PROVE  FALSE
      OBVIOUS
    <3>1. a \in Range(G.route_pred[pair[1]]) /\ b \in Range(G.route_pred[pair[1]])
      BY <1>1, <1>3, <2>2 DEF Linked, NeighborsAgree
    <3> QED
      BY <1>1, <1>6, <1>7, <2>1, <2>2, <3>1
  <2> QED
    BY <1>3, <1>6, <2>1, <2>2, <2>3 DEF Twins
<1> HIDE DEF preds, succs
<1>10. Range(preds \o succs) = Range(preds) \cup Range(succs) /\ preds \o succs \in Seq(Op \X Op)
  BY <1>3, RangeConcatenation, ConcatProperties
<1>11. preds \o succs \in Seq(Range(preds \o succs))
  BY <1>10, SeqOfRange
<1>12. preds \o succs \in Seq(Twins(G))
  BY <1>8, <1>9, <1>10, <1>11, SeqMonotonic
<1> QED
  BY <1>4, <1>5, <1>10, <1>12 DEF a, b
-----------------------------------------------------------------------------
(* The pairs that a merge joins. *)

Related(G, pair) == Range(related_neighbor_pairs(G, pair[1], pair[2]))

\* The searches for the pairs that t brings along: whatever is related to a
\* finished pair is finished or to be visited.
Searches(G, t) ==
  {s \in [finished : Seq(Twins(G)), visited : Seq(Twins(G))] :
     /\ t \in Range(s.finished) \cup Range(s.visited)
     /\ \A pair \in Range(s.finished) :
          Related(G, pair) \subseteq Range(s.finished) \cup Range(s.visited)}

LEMMA ExploreGoesOn ==
  ASSUME NEW G \in GraphType, Linked(G), NEW t, NEW s \in Searches(G, t)
  PROVE  Explore(G, s) \in Searches(G, t)
<1>1. CASE s.visited = <<>>
  BY <1>1 DEF Explore
<1>2. CASE s.visited # <<>>
  <2> DEFINE V == Twins(G)
             cur == Head(s.visited)
             next_pairs == related_neighbor_pairs(G, cur[1], cur[2])
             x == VisitNew(Range(s.finished), s.visited, next_pairs)
             new == [finished |-> Append(s.finished, cur), visited |-> Tail(x)]
  <2>1. s.finished \in Seq(V) /\ s.visited \in Seq(V)
    BY DEF Searches
  <2>2. cur \in V
    BY <1>2, <2>1, HeadTailProperties
  <2>3. next_pairs \in Seq(V)
    BY <2>2, RelatedPairs
  <2>4. Range(next_pairs) = Related(G, cur)
    BY DEF Related
  <2>5. Explore(G, s) = new
    BY <1>2 DEF Explore
  <2>6. /\ \A pair \in Range(s.finished) :
               Related(G, pair) \subseteq Range(s.finished) \cup Range(s.visited)
        /\ t \in Range(s.finished) \cup Range(s.visited)
    BY DEF Searches
  <2> HIDE DEF V, cur, next_pairs
  <2>7. /\ x \in Seq(V) /\ x # <<>> /\ Head(x) = Head(s.visited)
        /\ Range(s.visited) \subseteq Range(x)
        /\ Range(next_pairs) \subseteq Range(s.finished) \cup Range(x)
    BY <1>2, <2>1, <2>3, VisitedAndNew
  <2>8. Head(x) = cur
    BY <2>7 DEF cur
  <2> HIDE DEF x
  <2>9. Tail(x) \in Seq(V) /\ Range(x) = {cur} \cup Range(Tail(x))
    BY <2>7, <2>8, RangeOfTail
  <2>10. Append(s.finished, cur) \in Seq(V)
         /\ Range(Append(s.finished, cur)) = Range(s.finished) \cup {cur}
    BY <2>1, <2>2, RangeOfAppend
  <2>11. new \in [finished : Seq(V), visited : Seq(V)]
    BY <2>9, <2>10
  <2>12. Range(s.finished) \cup Range(x) = Range(new.finished) \cup Range(new.visited)
    BY <2>9, <2>10
  <2>13. t \in Range(new.finished) \cup Range(new.visited)
    BY <2>6, <2>7, <2>12
  <2>14. \A pair \in Range(new.finished) :
            Related(G, pair) \subseteq Range(new.finished) \cup Range(new.visited)
    BY <2>4, <2>6, <2>7, <2>10, <2>12
  <2> HIDE DEF new
  <2>15. new \in Searches(G, t)
    BY <2>11, <2>13, <2>14 DEF Searches, V
  <2> QED
    BY <2>5, <2>15
<1> QED
  BY <1>1, <1>2

\* The pairs of an equivalence class are closed: whatever is related to one of
\* them is one of them.
LEMMA ClassIsClosed ==
  ASSUME NEW G \in GraphType, Linked(G), NEW t \in Twins(G),
         NEW pairs \in equivalence_class(G, t)
  PROVE  /\ pairs \in Seq(Twins(G))
         /\ t \in Range(pairs)
         /\ \A pair \in Range(pairs) : Related(G, pair) \subseteq Range(pairs)
<1> DEFINE N == MaxPairs
           start == [finished |-> <<>>, visited |-> <<t>>]
           S == Searches(G, t)
           Image(x) == {Explore(G, search) : search \in x}
           h == [p \in (1 .. N) \X SUBSET S |-> Image(p[2])]
           Steps(f) == [n \in 0 .. N |-> IF n = 0 THEN {start}
                                         ELSE {Explore(G, search) : search \in f[n - 1]}]
           explored == CHOOSE f : f = Steps(f)
<1>1. equivalence_class(G, t) = {search.finished : search \in {s \in explored[N] : s.visited = <<>>}}
  BY DEF equivalence_class
<1>2. N \in Nat
  BY BoundAssumption
<1>3. {start} \in SUBSET S
  <2>1. <<t>> \in Seq(Twins(G)) /\ Range(<<t>>) = {t}
    BY RangeOfOne
  <2>2. <<>> \in Seq(Twins(G)) /\ Range(<<>>) = {}
    BY EmptySeq, RangeOfNone
  <2> QED
    BY <2>1, <2>2 DEF Searches
<1>4. \A x \in SUBSET S : Image(x) \in SUBSET S
  BY ExploreGoesOn
<1> HIDE DEF S, start
<1>5. PICK f : f = Recursion(N, {start}, h, f)
  BY <1>2, RecursionExists
<1>6. \A n \in 0 .. N : f[n] \in SUBSET S
  <2> DEFINE Good == [n \in 0 .. N |-> SUBSET S]
  <2>1. {start} \in Good[0]
    BY <1>2, <1>3
  <2>2. \A n \in 1 .. N : \A x \in Good[n - 1] : h[<<n, x>>] \in Good[n]
    <3> SUFFICES ASSUME NEW n \in 1 .. N, NEW x \in Good[n - 1]
                 PROVE  h[<<n, x>>] \in Good[n]
      OBVIOUS
    <3>1. n - 1 \in 0 .. N /\ n \in 0 .. N
      BY <1>2
    <3>2. x \in SUBSET S
      BY <3>1
    <3>3. h[<<n, x>>] = Image(x)
      BY <3>2
    <3> HIDE DEF h, Image
    <3> QED
      BY <1>4, <3>1, <3>2, <3>3
  <2>3. \A n \in 0 .. N : f[n] \in Good[n]
    <3> HIDE DEF Good, h, N
    <3> QED
      BY <1>2, <1>5, <2>1, <2>2, RecursionStays
  <2> QED
    BY <2>3
<1>7. explored = Steps(explored)
  <2>1. \A n \in 0 .. N : n # 0 => n \in 1 .. N /\ f[n - 1] \in SUBSET S
    BY <1>2, <1>6
  <2>2. \A n \in 0 .. N : n # 0 => h[<<n, f[n - 1]>>] = Image(f[n - 1])
    BY <2>1
  <2>3. Recursion(N, {start}, h, f) = Steps(f)
    <3> HIDE DEF h
    <3> QED
      BY <2>2 DEF Recursion
  <2>4. f = Steps(f)
    BY <1>5, <2>3
  <2> HIDE DEF Steps
  <2> QED
    BY <2>4
<1> HIDE DEF explored
<1>8. \A n \in 0 .. N : explored[n] \in SUBSET S
  <2> DEFINE Good == [n \in 0 .. N |-> SUBSET S]
  <2>1. explored[0] \in Good[0]
    BY <1>2, <1>3, <1>7
  <2>2. \A n \in 1 .. N : explored[n - 1] \in Good[n - 1] => explored[n] \in Good[n]
    <3> SUFFICES ASSUME NEW n \in 1 .. N, explored[n - 1] \in Good[n - 1]
                 PROVE  explored[n] \in Good[n]
      OBVIOUS
    <3>1. n - 1 \in 0 .. N /\ n \in 0 .. N /\ n # 0
      BY <1>2
    <3>2. explored[n - 1] \in SUBSET S
      BY <3>1
    <3>3. explored[n] = Image(explored[n - 1])
      BY <1>7, <3>1
    <3> HIDE DEF Image
    <3> QED
      BY <1>4, <3>1, <3>2, <3>3
  <2>3. \A n \in 0 .. N : explored[n] \in Good[n]
    <3> HIDE DEF Good, N
    <3> QED
      BY <1>2, <2>1, <2>2, StaysGood
  <2> QED
    BY <2>3
<1>9. N \in 0 .. N
  BY <1>2
<1>10. PICK s \in S : s.visited = <<>> /\ pairs = s.finished
  BY <1>1, <1>8, <1>9
<1>11. Range(s.visited) = {}
  BY <1>10, RangeOfNone
<1> QED
  BY <1>10, <1>11 DEF S, Searches
-----------------------------------------------------------------------------
(* Flips. *)

\* The operations in the vectors of x, a graph or a state of consistent_flip,
\* stand where its positions say.
Placed(x) ==
  /\ x.order \in [Link -> Seq(Op)]
  /\ x.position \in [Op -> Int]
  /\ \A l \in Link : \A i \in 1 .. Len(x.order[l]) :
       link[x.order[l][i]] = l /\ x.position[x.order[l][i]] = i - 1

\* x and y have the same operations in their vectors, and the same positions for
\* all others.
SameQueues(x, y) ==
  /\ \A l \in Link : Len(x.order[l]) = Len(y.order[l]) /\ Range(x.order[l]) = Range(y.order[l])
  /\ \A o \in Op : o \notin Range(y.order[link[o]]) => x.position[o] = y.position[o]

Policy == {MOVE_BEFORE, MOVE_AFTER}

\* A request is for an operation that exists, and no further than to the ends of
\* its vector.
Target(G, P, o, target) ==
  /\ Present(G, o)
  /\ target \in Nat
  /\ P = MOVE_AFTER => target < Len(G.order[link[o]])

Requests(G, P) ==
  {r \in UNION {[D -> Nat] : D \in SUBSET Op} : \A o \in DOMAIN r : Target(G, P, o, r[o])}

\* Operations that exist are logged.
Logs(G) ==
  {log \in UNION {[D -> Int] : D \in SUBSET Op} : \A o \in DOMAIN log : Present(G, o)}

\* The states of a flip in G: the log leads back to the positions in G.
FlipStates(G, P) ==
  {s \in [flip_log_ : Logs(G), order : [Link -> Seq(Op)], position : [Op -> Int],
           req_flips : Requests(G, P)] :
     Placed(s) /\ SameQueues(s, G) /\ Back(s.position, s.flip_log_) = G.position}

\* Logging o keeps what is logged already.
LEMMA LogGrows ==
  ASSUME NEW G, NEW log \in Logs(G), NEW o \in Op, Present(G, o), NEW pos \in Int
  PROVE  /\ log_flip(log, o, pos) \in Logs(G)
         /\ DOMAIN log_flip(log, o, pos) = DOMAIN log \cup {o}
         /\ \A q \in DOMAIN log : log_flip(log, o, pos)[q] = log[q]
         /\ o \notin DOMAIN log => log_flip(log, o, pos)[o] = pos
<1> DEFINE longer == log_flip(log, o, pos)
<1>1. PICK D \in SUBSET Op : log \in [D -> Int]
  BY DEF Logs
<1>2. /\ DOMAIN longer = DOMAIN log \cup {o}
      /\ \A q \in DOMAIN log : longer[q] = log[q]
      /\ o \notin DOMAIN log => longer[o] = pos
  BY DEF log_flip
<1>3. longer \in [D \cup {o} -> Int] /\ D \cup {o} \in SUBSET Op
  BY <1>1 DEF log_flip
<1>4. \A q \in DOMAIN log : Present(G, q)
  BY DEF Logs
<1> HIDE DEF longer
<1>5. \A q \in DOMAIN longer : Present(G, q)
  BY <1>2, <1>4
<1>6. longer \in Logs(G)
  BY <1>3, <1>5 DEF Logs
<1> QED
  BY <1>2, <1>6 DEF longer

\* The empty log leads back to where everything is.
LEMMA NothingLogged ==
  ASSUME NEW G, G.position \in [Op -> Int]
  PROVE  NoLog \in Logs(G) /\ Back(G.position, NoLog) = G.position
<1>1. NoLog \in [{} -> Int] /\ DOMAIN NoLog = {}
  BY DEF NoLog
<1>2. NoLog \in Logs(G)
  BY <1>1 DEF Logs
<1>3. Back(G.position, NoLog) = G.position
  BY <1>1 DEF Back
<1> QED
  BY <1>2, <1>3

\* The positions a log leads back to.
LEMMA BackPositions ==
  ASSUME NEW pos \in [Op -> Int], NEW G, NEW log \in Logs(G)
  PROVE  /\ Back(pos, log) \in [Op -> Int]
         /\ \A o \in Op : Back(pos, log)[o] = IF o \in DOMAIN log THEN log[o] ELSE pos[o]
<1>1. PICK D \in SUBSET Op : log \in [D -> Int]
  BY DEF Logs
<1> QED
  BY <1>1 DEF Back

LEMMA WhereItStands ==
  ASSUME NEW x, Placed(x), NEW o \in Op, o \in Range(x.order[link[o]])
  PROVE  /\ link[o] \in Link
         /\ Len(x.order[link[o]]) \in Nat
         /\ x.position[o] \in 0 .. Len(x.order[link[o]]) - 1
         /\ x.position[o] + 1 \in 1 .. Len(x.order[link[o]])
         /\ x.order[link[o]][x.position[o] + 1] = o
<1>1. link[o] \in Link
  BY OperationAssumption
<1>2. x.order[link[o]] \in Seq(Op)
  BY <1>1 DEF Placed
<1>3. PICK i \in 1 .. Len(x.order[link[o]]) : x.order[link[o]][i] = o
  BY <1>2, RangeEquality
<1>4. x.position[o] = i - 1
  BY <1>1, <1>3 DEF Placed
<1>5. Len(x.order[link[o]]) \in Nat
  BY <1>2, LenProperties
<1> QED
  BY <1>1, <1>3, <1>4, <1>5

LEMMA GreatestBelow ==
  ASSUME NEW b \in Nat, NEW T \in SUBSET Nat, T # {}, \A x \in T : x < b
  PROVE  \E x \in T : \A y \in T : x >= y
<1> DEFINE U == {d \in Nat : b - d \in T}
<1>1. U # {} /\ U \in SUBSET Nat
  <2>1. PICK x \in T : TRUE
    OBVIOUS
  <2>2. b - x \in Nat /\ b - (b - x) = x
    BY <2>1
  <2> QED
    BY <2>1, <2>2
<1>2. PICK d \in U : \A c \in U : d <= c
  BY <1>1, LeastNatural
<1>3. ASSUME NEW y \in T
      PROVE  b - d >= y
  <2>1. b - y \in Nat /\ b - (b - y) = y
    OBVIOUS
  <2>2. b - y \in U
    BY <2>1
  <2>3. d <= b - y
    BY <1>2, <2>2
  <2> QED
    BY <1>1, <2>3
<1> QED
  BY <1>2, <1>3

\* Whatever AddRequests asks for is a request.
LEMMA RequestsAreAdded ==
  ASSUME NEW G \in GraphType, Linked(G), NEW P \in Policy, NEW pos \in [Op -> Int],
         \A o \in Op : Present(G, o) => pos[o] \in 0 .. Len(G.order[link[o]]) - 1,
         NEW t \in Twins(G), NEW requests \in Requests(G, P)
  PROVE  AddRequests(G, P, pos, t[1], t[2], requests) \in Requests(G, P)
<1> DEFINE asked(o) == adjacent_flips(G, P, pos, t[1], t[2], o)
                         \cup (IF o \in DOMAIN requests THEN {requests[o]} ELSE {})
           best(o) == CHOOSE target \in asked(o) : \A other \in asked(o) : Reaches(P, target, other)
           D == {q \in OpsOf(G) : asked(q) # {}}
           result == [o \in D |-> best(o)]
<1>1. AddRequests(G, P, pos, t[1], t[2], requests) = result
  BY DEF AddRequests
<1>2. OpsOf(G) = Op
  BY DEF OpsOf, GraphType
<1>3. \A f \in Range(related_neighbor_pairs(G, t[1], t[2])) : f \in Twins(G)
  BY RelatedPairs, RangeOfSeq
<1>4. \A o \in Op : \A target \in asked(o) : Target(G, P, o, target)
  <2> SUFFICES ASSUME NEW o \in Op, NEW target \in asked(o)
               PROVE  Target(G, P, o, target)
    OBVIOUS
  <2>1. CASE target \in adjacent_flips(G, P, pos, t[1], t[2], o)
    <3>1. PICK f \in Range(related_neighbor_pairs(G, t[1], t[2])) : f[1] = o /\ target = pos[f[2]]
      BY <2>1 DEF adjacent_flips
    <3>2. f \in Twins(G)
      BY <1>3
    <3>3. f[2] \in Op /\ Present(G, f[1]) /\ Present(G, f[2]) /\ link[f[2]] = link[o]
      BY <3>1, <3>2 DEF Twins
    <3>4. Len(G.order[link[o]]) \in Nat
      BY OperationAssumption, LenProperties DEF GraphType
    <3>5. target \in 0 .. Len(G.order[link[o]]) - 1
      BY <3>1, <3>3
    <3>6. target \in Nat /\ target < Len(G.order[link[o]])
      BY <3>4, <3>5
    <3> QED
      BY <3>1, <3>3, <3>6 DEF Target
  <2>2. CASE o \in DOMAIN requests /\ target = requests[o]
    BY <2>2 DEF Requests
  <2> QED
    BY <2>1, <2>2
<1>5. \A o \in D : best(o) \in asked(o)
  <2> SUFFICES ASSUME NEW o \in D
               PROVE  \E target \in asked(o) : \A other \in asked(o) : Reaches(P, target, other)
    OBVIOUS
  <2>1. o \in Op /\ asked(o) # {}
    BY <1>2
  <2>2. asked(o) \in SUBSET Nat
    BY <1>4, <2>1 DEF Target
  <2>3. CASE P = MOVE_BEFORE
    <3>1. PICK x \in asked(o) : \A y \in asked(o) : x <= y
      <4> HIDE DEF asked
      <4> QED
        BY <2>1, <2>2, LeastNatural
    <3> QED
      BY <2>3, <3>1 DEF Reaches
  <2>4. CASE P = MOVE_AFTER
    <3>1. \A x \in asked(o) : x < Len(G.order[link[o]])
      BY <1>4, <2>1, <2>4 DEF Target
    <3>2. Len(G.order[link[o]]) \in Nat
      BY <2>1, OperationAssumption, LenProperties DEF GraphType
    <3>3. PICK x \in asked(o) : \A y \in asked(o) : x >= y
      <4> HIDE DEF asked
      <4> QED
        BY <2>1, <2>2, <3>1, <3>2, GreatestBelow
    <3> QED
      BY <2>4, <3>3 DEF Reaches, MOVE_AFTER, MOVE_BEFORE
  <2> QED
    BY <2>3, <2>4 DEF Policy
<1> HIDE DEF asked, best
<1>6. \A o \in D : o \in Op /\ Target(G, P, o, best(o)) /\ best(o) \in Nat
  BY <1>2, <1>4, <1>5 DEF Target
<1>7. D \in SUBSET Op
  BY <1>6
<1> HIDE DEF D
<1>8. result \in [D -> Nat]
  BY <1>6
<1>9. \A o \in DOMAIN result : Target(G, P, o, result[o])
  BY <1>6
<1> HIDE DEF result
<1> QED
  BY <1>1, <1>7, <1>8, <1>9 DEF Requests
LEMMA PlacedQueues ==
  ASSUME NEW G \in GraphType, NEW P, NEW s \in FlipStates(G, P)
  PROVE  /\ Placed(s) /\ SameQueues(s, G) /\ s.req_flips \in Requests(G, P)
         /\ s.flip_log_ \in Logs(G) /\ Back(s.position, s.flip_log_) = G.position
         /\ \A o \in Op : Present(G, o) =>
              /\ o \in Range(s.order[link[o]])
              /\ Len(s.order[link[o]]) = Len(G.order[link[o]])
              /\ Len(G.order[link[o]]) \in Nat
              /\ s.position[o] \in 0 .. Len(G.order[link[o]]) - 1
<1>1. /\ Placed(s) /\ SameQueues(s, G) /\ s.req_flips \in Requests(G, P)
      /\ s.flip_log_ \in Logs(G) /\ Back(s.position, s.flip_log_) = G.position
  BY DEF FlipStates
<1>2. ASSUME NEW o \in Op, Present(G, o)
      PROVE  /\ o \in Range(s.order[link[o]])
             /\ Len(s.order[link[o]]) = Len(G.order[link[o]])
  BY <1>1, <1>2, OperationAssumption DEF SameQueues, Present, OnLink, GraphType
<1> QED
  BY <1>1, <1>2, WhereItStands

\* Two operations of one vector change places.
Swapped(list, i, j) == [list EXCEPT ![i] = list[j], ![j] = list[i]]

LEMMA SwappedVector ==
  ASSUME NEW list \in Seq(Op), NEW i \in 1 .. Len(list), NEW j \in 1 .. Len(list), i # j
  PROVE  /\ Swapped(list, i, j) \in Seq(Op)
         /\ Len(Swapped(list, i, j)) = Len(list)
         /\ Range(Swapped(list, i, j)) = Range(list)
         /\ \A k \in 1 .. Len(list) :
              Swapped(list, i, j)[k] = IF k = j THEN list[i] ELSE IF k = i THEN list[j] ELSE list[k]
<1> DEFINE one == [list EXCEPT ![i] = list[j]]
           swapped == Swapped(list, i, j)
<1>1. list[i] \in Op /\ list[j] \in Op
  BY LenProperties
<1>2. /\ one \in Seq(Op) /\ Len(one) = Len(list)
      /\ \A k \in 1 .. Len(list) : one[k] = IF k = i THEN list[j] ELSE list[k]
  BY <1>1, ExceptSeq
<1>3. swapped = [one EXCEPT ![j] = list[i]]
  BY DEF Swapped
<1> HIDE DEF one, swapped
<1>4. /\ swapped \in Seq(Op) /\ Len(swapped) = Len(list)
      /\ \A k \in 1 .. Len(list) : swapped[k] = IF k = j THEN list[i] ELSE one[k]
  BY <1>1, <1>2, <1>3, ExceptSeq
<1>5. \A k \in 1 .. Len(list) :
         swapped[k] = IF k = j THEN list[i] ELSE IF k = i THEN list[j] ELSE list[k]
  BY <1>2, <1>4
<1>6. /\ Range(list) = {list[k] : k \in 1 .. Len(list)}
      /\ Range(swapped) = {swapped[k] : k \in 1 .. Len(list)}
  BY <1>4, RangeEquality
<1>7. swapped[i] = list[j] /\ swapped[j] = list[i] /\ \A k \in 1 .. Len(list) : k # i /\ k # j => swapped[k] = list[k]
  BY <1>5
<1>8. Range(swapped) = Range(list)
  BY <1>6, <1>7
<1> QED
  BY <1>4, <1>5, <1>8 DEF swapped

\* One iteration of the for loop moves o by one, keeps both representations of
\* the order, and logs the operation passed.
LEMMA SwapKeepsQueues ==
  ASSUME NEW G \in GraphType, Linked(G), NEW P \in Policy, NEW s \in FlipStates(G, P),
         NEW o \in Op, Present(G, o), o \in DOMAIN s.flip_log_,
         next(P, s.position[o]) \in 0 .. Len(G.order[link[o]]) - 1
  PROVE  /\ SwapStep(G, P, s, o) \in FlipStates(G, P)
         /\ SwapStep(G, P, s, o).position[o] = next(P, s.position[o])
         /\ o \in DOMAIN SwapStep(G, P, s, o).flip_log_
<1> DEFINE l == link[o]
           cur == s.position[o]
           nx == next(P, cur)
           prev_op == s.order[l][nx + 1]
           vector == [s.order[l] EXCEPT ![cur + 1] = prev_op, ![nx + 1] = o]
           order2 == [s.order EXCEPT ![l] = vector]
           position2 == [s.position EXCEPT ![o] = nx, ![prev_op] = cur]
           requests == IF G.pcp[o] = G.pcp[prev_op]
                         THEN AddRequests(G, P, position2, o, prev_op, s.req_flips)
                         ELSE s.req_flips
           log2 == log_flip(s.flip_log_, prev_op, nx)
           new == [flip_log_ |-> log2, order |-> order2, position |-> position2,
                   req_flips |-> requests]
<1>1. SwapStep(G, P, s, o) = new
  <2>1. G.link[o] = l
    BY DEF GraphType
  <2> QED
    BY <2>1 DEF SwapStep
<1>2. /\ Placed(s) /\ SameQueues(s, G) /\ s.req_flips \in Requests(G, P)
      /\ s.flip_log_ \in Logs(G) /\ Back(s.position, s.flip_log_) = G.position
      /\ s.order \in [Link -> Seq(Op)] /\ s.position \in [Op -> Int]
  BY PlacedQueues DEF Placed
<1>3. /\ l \in Link /\ s.order[l] \in Seq(Op)
      /\ Len(s.order[l]) = Len(G.order[l]) /\ Len(s.order[l]) \in Nat
      /\ cur \in 0 .. Len(s.order[l]) - 1 /\ s.order[l][cur + 1] = o
      /\ cur + 1 \in 1 .. Len(s.order[l]) /\ nx + 1 \in 1 .. Len(s.order[l])
      /\ nx \in Int /\ nx # cur /\ nx + 1 # cur + 1
  <2>1. /\ o \in Range(s.order[l]) /\ Len(s.order[l]) = Len(G.order[l]) /\ Len(G.order[l]) \in Nat
        /\ cur \in 0 .. Len(G.order[l]) - 1
    BY PlacedQueues
  <2>2. l \in Link /\ s.order[l][cur + 1] = o
    BY <1>2, <2>1, WhereItStands
  <2>3. nx \in 0 .. Len(G.order[l]) - 1 /\ (nx = cur - 1 \/ nx = cur + 1)
    BY DEF next
  <2> HIDE DEF l, cur, nx
  <2> QED
    BY <1>2, <2>1, <2>2, <2>3
<1>4. prev_op \in Op /\ link[prev_op] = l /\ s.position[prev_op] = nx /\ prev_op # o
  <2>1. prev_op \in Op
    BY <1>3, LenProperties
  <2>2. link[prev_op] = l /\ s.position[prev_op] = nx
    BY <1>2, <1>3, SMTT(30) DEF Placed
  <2> QED
    BY <1>3, <2>1, <2>2
<1>5. /\ vector \in Seq(Op) /\ Len(vector) = Len(s.order[l]) /\ Range(vector) = Range(s.order[l])
      /\ \A k \in 1 .. Len(s.order[l]) :
           vector[k] = IF k = nx + 1 THEN o ELSE IF k = cur + 1 THEN prev_op ELSE s.order[l][k]
  <2> DEFINE list == s.order[l]
             i == cur + 1
             j == nx + 1
  <2>1. list \in Seq(Op) /\ i \in 1 .. Len(list) /\ j \in 1 .. Len(list) /\ i # j /\ list[i] = o
    BY <1>3
  <2>2. vector = Swapped(list, i, j)
    BY <2>1 DEF Swapped
  <2> HIDE DEF vector, list, i, j
  <2>3. /\ vector \in Seq(Op) /\ Len(vector) = Len(list) /\ Range(vector) = Range(list)
        /\ \A k \in 1 .. Len(list) :
             vector[k] = IF k = j THEN list[i] ELSE IF k = i THEN list[j] ELSE list[k]
    <3>1. /\ Swapped(list, i, j) \in Seq(Op)
          /\ Len(Swapped(list, i, j)) = Len(list)
          /\ Range(Swapped(list, i, j)) = Range(list)
          /\ \A k \in 1 .. Len(list) :
               Swapped(list, i, j)[k] = IF k = j THEN list[i] ELSE IF k = i THEN list[j] ELSE list[k]
      BY <2>1, SwappedVector, Zenon
    <3> QED
      BY <2>2, <3>1
  <2> QED
    BY <2>1, <2>3 DEF list, i, j
<1>6. prev_op \in Range(s.order[l]) /\ o \in Range(s.order[l])
  BY <1>3, RangeEquality, SMTT(30)
<1> HIDE DEF nx, vector, prev_op, cur, l
<1>7. /\ position2 \in [Op -> Int] /\ position2[o] = nx /\ position2[prev_op] = cur
      /\ \A q \in Op : q # o /\ q # prev_op => position2[q] = s.position[q]
  BY <1>2, <1>3, <1>4
<1>8. /\ order2 \in [Link -> Seq(Op)] /\ order2[l] = vector
      /\ \A m \in Link : m # l => order2[m] = s.order[m]
  BY <1>2, <1>3, <1>5
<1> HIDE DEF order2, position2
<1>9. ASSUME NEW m \in Link, NEW i \in 1 .. Len(order2[m])
      PROVE  link[order2[m][i]] = m /\ position2[order2[m][i]] = i - 1
  <2>1. CASE m # l
    <3>1. order2[m] = s.order[m] /\ i \in 1 .. Len(s.order[m])
      BY <1>8, <2>1
    <3>2. link[s.order[m][i]] = m /\ s.position[s.order[m][i]] = i - 1
      BY <1>2, <3>1 DEF Placed
    <3>3. s.order[m][i] \in Op
      BY <1>2, <3>1, LenProperties
    <3>4. s.order[m][i] # o /\ s.order[m][i] # prev_op
      BY <1>4, <2>1, <3>2 DEF l
    <3> QED
      BY <1>7, <3>1, <3>2, <3>3, <3>4
  <2>2. CASE m = l
    <3>1. order2[m] = vector /\ i \in 1 .. Len(s.order[l])
      BY <1>5, <1>8, <2>2
    <3>2. CASE i = nx + 1
      BY <1>3, <1>5, <1>7, <2>2, <3>1, <3>2, SMTT(30) DEF l
    <3>3. CASE i = cur + 1
      <4>1. vector[i] = prev_op
        BY <1>3, <1>5, <3>1, <3>3
      <4>2. cur = i - 1
        BY <1>3, <3>3
      <4> QED
        BY <1>4, <1>7, <2>2, <3>1, <4>1, <4>2
    <3>4. CASE i # nx + 1 /\ i # cur + 1
      <4>1. vector[i] = s.order[l][i]
        BY <1>5, <3>1, <3>4
      <4>2. link[s.order[l][i]] = l /\ s.position[s.order[l][i]] = i - 1 /\ s.order[l][i] \in Op
        BY <1>2, <1>3, <3>1, LenProperties, SMTT(30) DEF Placed
      <4>3. s.position[o] = cur
        BY DEF cur
      <4>4. s.order[l][i] # o /\ s.order[l][i] # prev_op
        BY <1>3, <1>4, <3>1, <3>4, <4>2, <4>3, SMTT(30)
      <4> QED
        BY <1>7, <2>2, <3>1, <4>1, <4>2, <4>4
    <3> QED
      BY <3>2, <3>3, <3>4
  <2> QED
    BY <2>1, <2>2
<1>10. \A m \in Link : Len(order2[m]) = Len(G.order[m]) /\ Range(order2[m]) = Range(G.order[m])
  BY <1>2, <1>5, <1>8 DEF SameQueues
<1>11. \A q \in Op : q \notin Range(G.order[link[q]]) => position2[q] = G.position[q]
  <2> SUFFICES ASSUME NEW q \in Op, q \notin Range(G.order[link[q]])
               PROVE  position2[q] = G.position[q]
    OBVIOUS
  <2>1. s.position[q] = G.position[q]
    BY <1>2 DEF SameQueues
  <2>2. Range(s.order[link[q]]) = Range(G.order[link[q]])
    BY <1>2, OperationAssumption DEF SameQueues
  <2>3. q # o /\ q # prev_op
    BY <1>4, <1>6, <2>2 DEF l
  <2> QED
    BY <1>7, <2>1, <2>3
<1>12. Present(G, prev_op) /\ <<o, prev_op>> \in Twins(G)
  <2>1. Range(s.order[l]) = Range(G.order[l])
    BY <1>2, <1>3 DEF SameQueues
  <2>2. G.link = link
    BY DEF GraphType
  <2>3. Present(G, prev_op)
    BY <1>4, <1>6, <2>1, <2>2 DEF Present, OnLink
  <2> QED
    BY <1>4, <2>3 DEF Twins, l
<1>13. requests \in Requests(G, P)
  <2>1. \A q \in Op : Present(G, q) => position2[q] \in 0 .. Len(G.order[link[q]]) - 1
    <3> SUFFICES ASSUME NEW q \in Op, Present(G, q)
                 PROVE  position2[q] \in 0 .. Len(G.order[link[q]]) - 1
      OBVIOUS
    <3>1. s.position[q] \in 0 .. Len(G.order[link[q]]) - 1
      BY PlacedQueues
    <3>2. cur \in 0 .. Len(G.order[l]) - 1 /\ nx \in 0 .. Len(G.order[l]) - 1
      BY <1>3
    <3> QED
      BY <1>4, <1>7, <3>1, <3>2 DEF l
  <2>2. AddRequests(G, P, position2, o, prev_op, s.req_flips) \in Requests(G, P)
    <3> DEFINE t == <<o, prev_op>>
    <3>1. t \in Twins(G) /\ t[1] = o /\ t[2] = prev_op
      BY <1>12
    <3> HIDE DEF t
    <3>2. AddRequests(G, P, position2, t[1], t[2], s.req_flips) \in Requests(G, P)
      BY <1>2, <1>7, <2>1, <3>1, RequestsAreAdded
    <3> QED
      BY <3>1, <3>2
  <2> QED
    BY <1>2, <2>2
<1> HIDE DEF requests
<1>17. /\ log2 \in Logs(G) /\ DOMAIN log2 = DOMAIN s.flip_log_ \cup {prev_op}
       /\ \A q \in DOMAIN s.flip_log_ : log2[q] = s.flip_log_[q]
       /\ prev_op \notin DOMAIN s.flip_log_ => log2[prev_op] = nx
  <2>1. s.flip_log_ \in Logs(G) /\ prev_op \in Op /\ Present(G, prev_op) /\ nx \in Int
    BY <1>2, <1>3, <1>4, <1>12
  <2>2. log_flip(s.flip_log_, prev_op, nx) \in Logs(G)
    BY <2>1, LogGrows
  <2>3. DOMAIN log_flip(s.flip_log_, prev_op, nx) = DOMAIN s.flip_log_ \cup {prev_op}
    BY DEF log_flip
  <2>4. \A q \in DOMAIN s.flip_log_ : log_flip(s.flip_log_, prev_op, nx)[q] = s.flip_log_[q]
    BY <2>1, LogGrows, ZenonT(30)
  <2>5. prev_op \notin DOMAIN s.flip_log_ => log_flip(s.flip_log_, prev_op, nx)[prev_op] = nx
    BY <2>1, LogGrows
  <2> QED
    BY <2>2, <2>3, <2>4, <2>5
<1> HIDE DEF log2
<1>18. Back(position2, log2) = G.position
  <2>1. ASSUME NEW q \in Op
        PROVE  Back(position2, log2)[q] = Back(s.position, s.flip_log_)[q]
    <3>1. /\ Back(position2, log2)[q] = IF q \in DOMAIN log2 THEN log2[q] ELSE position2[q]
          /\ Back(s.position, s.flip_log_)[q]
               = IF q \in DOMAIN s.flip_log_ THEN s.flip_log_[q] ELSE s.position[q]
      <4>1. position2 \in [Op -> Int] /\ log2 \in Logs(G)
        BY <1>7, <1>17
      <4>2. s.position \in [Op -> Int] /\ s.flip_log_ \in Logs(G)
        BY <1>2 DEF Placed
      <4>3. Back(position2, log2)[q] = IF q \in DOMAIN log2 THEN log2[q] ELSE position2[q]
        BY <4>1, BackPositions
      <4>4. Back(s.position, s.flip_log_)[q]
              = IF q \in DOMAIN s.flip_log_ THEN s.flip_log_[q] ELSE s.position[q]
        BY <4>2, BackPositions
      <4> QED
        BY <4>3, <4>4
    <3>2. CASE q \in DOMAIN s.flip_log_
      BY <1>17, <3>1, <3>2
    <3>3. CASE q \notin DOMAIN s.flip_log_ /\ q = prev_op
      BY <1>4, <1>17, <3>1, <3>3
    <3>4. CASE q \notin DOMAIN s.flip_log_ /\ q # prev_op
      <4>1. q # o
        BY <3>4
      <4> QED
        BY <1>7, <1>17, <3>1, <3>4, <4>1
    <3> QED
      BY <3>2, <3>3, <3>4
  <2>2. /\ Back(position2, log2) \in [Op -> Int]
        /\ Back(s.position, s.flip_log_) \in [Op -> Int]
    BY <1>2, <1>7, <1>17, BackPositions
  <2> QED
    BY <1>2, <2>1, <2>2
<1>14. Placed(new)
  BY <1>7, <1>8, <1>9 DEF Placed
<1>15. SameQueues(new, G)
  BY <1>10, <1>11 DEF SameQueues
<1>16. new \in FlipStates(G, P)
  <2>1. new \in [flip_log_ : Logs(G), order : [Link -> Seq(Op)], position : [Op -> Int],
                 req_flips : Requests(G, P)]
    BY <1>7, <1>8, <1>13, <1>17
  <2>2. Back(new.position, new.flip_log_) = G.position
    BY <1>18
  <2> HIDE DEF new
  <2> QED
    BY <1>14, <1>15, <2>1, <2>2 DEF FlipStates
<1>19. new.position[o] = nx /\ o \in DOMAIN new.flip_log_
  BY <1>7, <1>17
<1> HIDE DEF new
<1> QED
  BY <1>1, <1>16, <1>19 DEF nx, cur
\* The position of o after n iterations.
Moved(P, start, n) == IF P = MOVE_BEFORE THEN start - n ELSE start + n

\* The for loop keeps both representations.
LEMMA MoveKeepsQueues ==
  ASSUME NEW G \in GraphType, Linked(G), NEW P \in Policy, NEW s \in FlipStates(G, P),
         NEW o \in Op, o \in DOMAIN s.flip_log_, NEW target, Target(G, P, o, target)
  PROVE  MoveTo(G, P, s, o, target) \subseteq FlipStates(G, P)
<1> DEFINE start == s.position[o]
           N == IF P = MOVE_BEFORE THEN start - target ELSE target - start
           S == FlipStates(G, P)
           At(n) == {t \in S : t.position[o] = Moved(P, start, n) /\ o \in DOMAIN t.flip_log_}
           Image(x) == {SwapStep(G, P, t, o) : t \in x}
           Good == [n \in 0 .. N |-> SUBSET At(n)]
           h == [p \in (1 .. N) \X SUBSET S |-> Image(p[2])]
           Steps(f) == [n \in 0 .. N |-> IF n = 0 THEN {s}
                                         ELSE {SwapStep(G, P, t, o) : t \in f[n - 1]}]
           moved == CHOOSE f : f = Steps(f)
<1>1. MoveTo(G, P, s, o, target) = IF N < 0 THEN {} ELSE moved[N]
  BY DEF MoveTo
<1>2. /\ Present(G, o) /\ target \in Nat
      /\ Len(G.order[link[o]]) \in Nat
      /\ start \in 0 .. Len(G.order[link[o]]) - 1
      /\ P = MOVE_AFTER => target < Len(G.order[link[o]])
  BY PlacedQueues DEF Target
<1>3. CASE N < 0
  BY <1>1, <1>3
<1>4. CASE ~(N < 0)
  <2>1. N \in Nat /\ start \in Nat
    BY <1>2, <1>4
  <2>2. ASSUME NEW n \in 1 .. N, NEW t \in At(n - 1)
        PROVE  SwapStep(G, P, t, o) \in At(n)
    <3> DEFINE pos == t.position[o]
    <3>1. pos = Moved(P, start, n - 1) /\ t \in S /\ o \in DOMAIN t.flip_log_
      OBVIOUS
    <3>2. next(P, pos) = Moved(P, start, n) /\ next(P, pos) \in 0 .. Len(G.order[link[o]]) - 1
      <4> HIDE DEF pos
      <4>1. CASE P = MOVE_BEFORE
        BY <1>2, <2>1, <3>1, <4>1, SMTT(30) DEF next, Moved
      <4>2. CASE P = MOVE_AFTER
        <5>1. P # MOVE_BEFORE
          BY <4>2 DEF MOVE_AFTER, MOVE_BEFORE
        <5>2. n \in Nat /\ n - 1 \in Nat /\ n <= target - start /\ n >= 1
          BY <2>1, <1>2, <5>1
        <5>3. pos = start + (n - 1) /\ Moved(P, start, n) = start + n /\ next(P, pos) = pos + 1
          BY <3>1, <5>1 DEF Moved, next
        <5>4. target < Len(G.order[link[o]])
          BY <1>2, <4>2
        <5> HIDE DEF start, N
        <5> QED
          BY <1>2, <2>1, <5>2, <5>3, <5>4, SMTT(30)
      <4> QED
        BY <4>1, <4>2 DEF Policy
    <3>3. /\ SwapStep(G, P, t, o) \in S /\ SwapStep(G, P, t, o).position[o] = next(P, pos)
          /\ o \in DOMAIN SwapStep(G, P, t, o).flip_log_
      BY <1>2, <3>1, <3>2, SwapKeepsQueues
    <3> HIDE DEF S, pos
    <3> QED
      BY <3>2, <3>3
  <2> HIDE DEF S, start
  <2>3. \A n \in 1 .. N : \A x \in SUBSET At(n - 1) : Image(x) \in SUBSET At(n)
    <3> HIDE DEF N
    <3> QED
      BY <2>2
  <2>4. s \in At(0)
    <3>1. start = Moved(P, start, 0)
      BY <2>1 DEF Moved
    <3> QED
      BY <3>1 DEF S, start
  <2>5. \A n \in 0 .. N : At(n) \subseteq S
    OBVIOUS
  <2> HIDE DEF At, N
  <2>6. PICK f : f = Recursion(N, {s}, h, f)
    BY <2>1, RecursionExists
  <2>7. \A n \in 0 .. N : f[n] \in SUBSET At(n)
    <3>1. {s} \in Good[0]
      BY <2>1, <2>4
    <3>2. \A n \in 1 .. N : \A x \in Good[n - 1] : h[<<n, x>>] \in Good[n]
      <4> SUFFICES ASSUME NEW n \in 1 .. N, NEW x \in Good[n - 1]
                   PROVE  h[<<n, x>>] \in Good[n]
        OBVIOUS
      <4>1. n - 1 \in 0 .. N /\ n \in 0 .. N
        BY <2>1
      <4>2. x \in SUBSET At(n - 1)
        BY <4>1
      <4>3. h[<<n, x>>] = Image(x)
        BY <2>5, <4>1, <4>2
      <4> HIDE DEF h, Image
      <4> QED
        BY <2>3, <4>1, <4>2, <4>3
    <3>3. \A n \in 0 .. N : f[n] \in Good[n]
      <4> HIDE DEF Good, h
      <4> QED
        BY <2>1, <2>6, <3>1, <3>2, RecursionStays
    <3> QED
      BY <3>3
  <2>8. moved = Steps(moved)
    <3>1. \A n \in 0 .. N : n # 0 => n \in 1 .. N /\ n - 1 \in 0 .. N
      BY <2>1
    <3>2. \A n \in 0 .. N : n # 0 => n \in 1 .. N /\ f[n - 1] \in SUBSET S
      BY <2>5, <2>7, <3>1
    <3>3. \A n \in 0 .. N : n # 0 => h[<<n, f[n - 1]>>] = Image(f[n - 1])
      BY <3>2
    <3>4. Recursion(N, {s}, h, f) = Steps(f)
      <4> HIDE DEF h
      <4> QED
        BY <3>3 DEF Recursion
    <3>5. f = Steps(f)
      BY <2>6, <3>4
    <3> HIDE DEF Steps
    <3> QED
      BY <3>5
  <2> HIDE DEF moved
  <2>9. \A n \in 0 .. N : moved[n] \in SUBSET At(n)
    <3>1. moved[0] \in Good[0]
      BY <2>1, <2>4, <2>8
    <3>2. \A n \in 1 .. N : moved[n - 1] \in Good[n - 1] => moved[n] \in Good[n]
      <4> SUFFICES ASSUME NEW n \in 1 .. N, moved[n - 1] \in Good[n - 1]
                   PROVE  moved[n] \in Good[n]
        OBVIOUS
      <4>1. n - 1 \in 0 .. N /\ n \in 0 .. N /\ n # 0
        BY <2>1
      <4>2. moved[n - 1] \in SUBSET At(n - 1)
        BY <4>1
      <4>3. moved[n] = Image(moved[n - 1])
        BY <2>8, <4>1
      <4> HIDE DEF Image
      <4> QED
        BY <2>3, <4>1, <4>2, <4>3
    <3>3. \A n \in 0 .. N : moved[n] \in Good[n]
      <4> HIDE DEF Good
      <4> QED
        BY <2>1, <3>1, <3>2, StaysGood
    <3> QED
      BY <3>3
  <2>10. N \in 0 .. N
    BY <2>1
  <2>11. moved[N] \subseteq S
    BY <2>5, <2>9, <2>10
  <2> QED
    BY <1>1, <1>4, <2>11 DEF S, N, start
<1> QED
  BY <1>3, <1>4

LEMMA FirstKeyExists ==
  ASSUME NEW G \in GraphType, NEW P, NEW r \in Requests(G, P), DOMAIN r # {}
  PROVE  FirstKey(G, r) \in DOMAIN r
<1>1. DOMAIN r \subseteq Op /\ G.link = link
  BY DEF Requests, GraphType
<1> DEFINE Links == {link[o] : o \in DOMAIN r}
<1>2. \A o \in Op : link[o] \in Nat /\ o \in Nat
  BY OperationAssumption
<1>3. Links \in SUBSET Nat /\ Links # {}
  BY <1>1, <1>2
<1>4. PICK l \in Links : \A m \in Links : l <= m
  BY <1>3, LeastNatural
<1> DEFINE There == {o \in DOMAIN r : link[o] = l}
<1>5. There \in SUBSET Nat /\ There # {}
  BY <1>1, <1>2
<1>6. PICK o \in There : \A q \in There : o <= q
  BY <1>5, LeastNatural
<1>7. \A q \in DOMAIN r : link[o] < link[q] \/ (link[o] = link[q] /\ o <= q)
  <2> SUFFICES ASSUME NEW q \in DOMAIN r
               PROVE  link[o] < link[q] \/ (link[o] = link[q] /\ o <= q)
    OBVIOUS
  <2>1. link[q] \in Links /\ link[o] = l /\ l \in Nat /\ link[q] \in Nat
    BY <1>1, <1>2
  <2>2. l <= link[q]
    BY <1>4, <2>1
  <2>3. link[q] = l => o <= q
    BY <1>6
  <2> QED
    BY <2>1, <2>2, <2>3
<1>8. \E x \in DOMAIN r : \A q \in DOMAIN r :
         G.link[x] < G.link[q] \/ (G.link[x] = G.link[q] /\ x <= q)
  BY <1>1, <1>6, <1>7
<1> QED
  BY <1>8 DEF FirstKey

LEMMA TakeKeepsQueues ==
  ASSUME NEW G \in GraphType, Linked(G), NEW P \in Policy, NEW s \in FlipStates(G, P)
  PROVE  TakeRequest(G, P, s) \subseteq FlipStates(G, P)
<1>1. CASE DOMAIN s.req_flips = {}
  BY <1>1 DEF TakeRequest
<1>2. CASE DOMAIN s.req_flips # {}
  <2> DEFINE o == FirstKey(G, s.req_flips)
             left == [q \in DOMAIN s.req_flips \ {o} |-> s.req_flips[q]]
             logged == log_flip(s.flip_log_, o, s.position[o])
             taken == [s EXCEPT !.flip_log_ = logged, !.req_flips = left]
  <2>1. s.req_flips \in Requests(G, P)
    BY DEF FlipStates
  <2>2. o \in DOMAIN s.req_flips
    BY <1>2, <2>1, FirstKeyExists
  <2>3. o \in Op /\ Target(G, P, o, s.req_flips[o])
    BY <2>1, <2>2 DEF Requests
  <2>4. TakeRequest(G, P, s) = MoveTo(G, P, taken, o, s.req_flips[o])
    BY <1>2 DEF TakeRequest
  <2> HIDE DEF o
  <2>5. left \in Requests(G, P)
    <3>1. PICK D \in SUBSET Op : s.req_flips \in [D -> Nat]
      BY <2>1 DEF Requests
    <3>2. left \in [D \ {o} -> Nat]
      BY <3>1
    <3>3. \A q \in DOMAIN left : Target(G, P, q, left[q])
      BY <2>1 DEF Requests
    <3> HIDE DEF left
    <3> QED
      BY <3>2, <3>3 DEF Requests
  <2> HIDE DEF left
  <2>7. /\ s.flip_log_ \in Logs(G) /\ s.position \in [Op -> Int]
        /\ Back(s.position, s.flip_log_) = G.position
    BY DEF FlipStates
  <2>8. /\ logged \in Logs(G) /\ DOMAIN logged = DOMAIN s.flip_log_ \cup {o}
        /\ \A q \in DOMAIN s.flip_log_ : logged[q] = s.flip_log_[q]
        /\ o \notin DOMAIN s.flip_log_ => logged[o] = s.position[o]
    <3>1. o \in Op /\ Present(G, o) /\ s.position[o] \in Int
      BY <2>3, <2>7 DEF Target
    <3>2. log_flip(s.flip_log_, o, s.position[o]) \in Logs(G)
      BY <2>7, <3>1, LogGrows
    <3>3. DOMAIN log_flip(s.flip_log_, o, s.position[o]) = DOMAIN s.flip_log_ \cup {o}
      BY DEF log_flip
    <3>4. \A q \in DOMAIN s.flip_log_ :
            log_flip(s.flip_log_, o, s.position[o])[q] = s.flip_log_[q]
      BY <2>7, <3>1, LogGrows
    <3>5. o \notin DOMAIN s.flip_log_ =>
            log_flip(s.flip_log_, o, s.position[o])[o] = s.position[o]
      BY <2>7, <3>1, LogGrows
    <3> QED
      BY <3>2, <3>3, <3>4, <3>5
  <2> HIDE DEF logged
  <2>9. Back(s.position, logged) = G.position
    <3>1. /\ Back(s.position, logged) \in [Op -> Int]
          /\ Back(s.position, s.flip_log_) \in [Op -> Int]
          /\ \A q \in Op : Back(s.position, logged)[q]
                            = IF q \in DOMAIN logged THEN logged[q] ELSE s.position[q]
          /\ \A q \in Op : Back(s.position, s.flip_log_)[q]
                            = IF q \in DOMAIN s.flip_log_ THEN s.flip_log_[q] ELSE s.position[q]
      BY <2>7, <2>8, BackPositions
    <3>2. \A q \in Op : Back(s.position, logged)[q] = Back(s.position, s.flip_log_)[q]
      BY <2>8, <3>1
    <3> QED
      BY <2>7, <3>1, <3>2
  <2>6. taken \in FlipStates(G, P)
    BY <2>5, <2>8, <2>9, ZenonT(30) DEF FlipStates, Placed, SameQueues
  <2>10. o \in DOMAIN taken.flip_log_
    BY <2>6, <2>8 DEF FlipStates
  <2> HIDE DEF taken
  <2> QED
    BY <2>3, <2>4, <2>6, <2>10, MoveKeepsQueues
<1> QED
  BY <1>1, <1>2
LEMMA FlipsKeepQueues ==
  ASSUME NEW G \in GraphType, Linked(G), Placed(G), NEW P \in Policy, NEW r \in Requests(G, P),
         NEW s \in Flipped(G, P, r)
  PROVE  s \in FlipStates(G, P)
<1> DEFINE N == MaxRequests
           start == [flip_log_ |-> NoLog, order |-> G.order, position |-> G.position,
                     req_flips |-> r]
           S == FlipStates(G, P)
           Image(x) == UNION {TakeRequest(G, P, t) : t \in x}
           h == [p \in (1 .. N) \X SUBSET S |-> Image(p[2])]
           Steps(f) == [n \in 0 .. N |-> IF n = 0 THEN {start}
                                         ELSE UNION {TakeRequest(G, P, t) : t \in f[n - 1]}]
           after == CHOOSE f : f = Steps(f)
<1>1. Flipped(G, P, r) = {t \in after[N] : DOMAIN t.req_flips = {}}
  BY DEF Flipped, consistent_flip
<1>2. N \in Nat
  BY BoundAssumption
<1>3. {start} \in SUBSET S
  <2>1. G.order \in [Link -> Seq(Op)] /\ G.position \in [Op -> Int]
    BY DEF GraphType
  <2>2. NoLog \in Logs(G) /\ Back(G.position, NoLog) = G.position
    BY <2>1, NothingLogged
  <2> QED
    BY <2>1, <2>2 DEF FlipStates, Placed, SameQueues
<1>4. \A x \in SUBSET S : Image(x) \in SUBSET S
  BY TakeKeepsQueues
<1> HIDE DEF S, start
<1>5. PICK f : f = Recursion(N, {start}, h, f)
  BY <1>2, RecursionExists
<1>6. \A n \in 0 .. N : f[n] \in SUBSET S
  <2> DEFINE Good == [n \in 0 .. N |-> SUBSET S]
  <2>1. {start} \in Good[0]
    BY <1>2, <1>3
  <2>2. \A n \in 1 .. N : \A x \in Good[n - 1] : h[<<n, x>>] \in Good[n]
    <3> SUFFICES ASSUME NEW n \in 1 .. N, NEW x \in Good[n - 1]
                 PROVE  h[<<n, x>>] \in Good[n]
      OBVIOUS
    <3>1. n - 1 \in 0 .. N /\ n \in 0 .. N
      BY <1>2
    <3>2. x \in SUBSET S
      BY <3>1
    <3>3. h[<<n, x>>] = Image(x)
      BY <3>2
    <3> HIDE DEF h, Image
    <3> QED
      BY <1>4, <3>1, <3>2, <3>3
  <2>3. \A n \in 0 .. N : f[n] \in Good[n]
    <3> HIDE DEF Good, h, N
    <3> QED
      BY <1>2, <1>5, <2>1, <2>2, RecursionStays
  <2> QED
    BY <2>3
<1>7. after = Steps(after)
  <2>1. \A n \in 0 .. N : n # 0 => n \in 1 .. N /\ f[n - 1] \in SUBSET S
    BY <1>2, <1>6
  <2>2. \A n \in 0 .. N : n # 0 => h[<<n, f[n - 1]>>] = Image(f[n - 1])
    BY <2>1
  <2>3. Recursion(N, {start}, h, f) = Steps(f)
    <3> HIDE DEF h
    <3> QED
      BY <2>2 DEF Recursion
  <2>4. f = Steps(f)
    BY <1>5, <2>3
  <2> HIDE DEF Steps
  <2> QED
    BY <2>4
<1> HIDE DEF after
<1>8. \A n \in 0 .. N : after[n] \in SUBSET S
  <2> DEFINE Good == [n \in 0 .. N |-> SUBSET S]
  <2>1. after[0] \in Good[0]
    BY <1>2, <1>3, <1>7
  <2>2. \A n \in 1 .. N : after[n - 1] \in Good[n - 1] => after[n] \in Good[n]
    <3> SUFFICES ASSUME NEW n \in 1 .. N, after[n - 1] \in Good[n - 1]
                 PROVE  after[n] \in Good[n]
      OBVIOUS
    <3>1. n - 1 \in 0 .. N /\ n \in 0 .. N /\ n # 0
      BY <1>2
    <3>2. after[n - 1] \in SUBSET S
      BY <3>1
    <3>3. after[n] = Image(after[n - 1])
      BY <1>7, <3>1
    <3> HIDE DEF Image
    <3> QED
      BY <1>4, <3>1, <3>2, <3>3
  <2>3. \A n \in 0 .. N : after[n] \in Good[n]
    <3> HIDE DEF Good, N
    <3> QED
      BY <1>2, <2>1, <2>2, StaysGood
  <2> QED
    BY <2>3
<1>9. N \in 0 .. N
  BY <1>2
<1> QED
  BY <1>1, <1>8, <1>9 DEF S
-----------------------------------------------------------------------------
(* Merging the job edges of pairs that are apart. *)

\* No operation is in two of the pairs.
Matching(pairs) ==
  /\ pairs \in Seq(Op \X Op)
  /\ \A i \in 1 .. Len(pairs) :
       pairs[i][1] # pairs[i][2] /\ link[pairs[i][1]] = link[pairs[i][2]]
  /\ \A i, j \in 1 .. Len(pairs) :
       i # j => {pairs[i][1], pairs[i][2]} \cap {pairs[j][1], pairs[j][2]} = {}

\* What stands for x after k pairs have been merged.
First(pairs, k, x) ==
  IF \E i \in 1 .. k : pairs[i][2] = x
    THEN pairs[CHOOSE i \in 1 .. k : pairs[i][2] = x][1]
    ELSE x

LEMMA PairsOfMatching ==
  ASSUME NEW pairs, Matching(pairs)
  PROVE  /\ Len(pairs) \in Nat
         /\ DOMAIN pairs = 1 .. Len(pairs)
         /\ \A i \in 1 .. Len(pairs) :
              /\ pairs[i][1] \in Op /\ pairs[i][2] \in Op /\ pairs[i][1] # pairs[i][2]
              /\ link[pairs[i][1]] = link[pairs[i][2]]
              /\ pairs[i][2] \in SecondsOf(pairs)
              /\ pairs[i][1] \notin SecondsOf(pairs)
         /\ \A i, j \in 1 .. Len(pairs) :
              i # j => /\ pairs[i][1] # pairs[j][1] /\ pairs[i][1] # pairs[j][2]
                       /\ pairs[i][2] # pairs[j][1] /\ pairs[i][2] # pairs[j][2]
         /\ \A x \in SecondsOf(pairs) : \E i \in 1 .. Len(pairs) : x = pairs[i][2]
<1>1. pairs \in Seq(Op \X Op)
  BY DEF Matching
<1>2. Len(pairs) \in Nat /\ DOMAIN pairs = 1 .. Len(pairs)
      /\ \A i \in 1 .. Len(pairs) : pairs[i] \in Op \X Op
  BY <1>1, LenProperties
<1>3. SecondsOf(pairs) = {pairs[i][2] : i \in 1 .. Len(pairs)}
  BY <1>2 DEF SecondsOf
<1>4. \A i, j \in 1 .. Len(pairs) :
         i # j => /\ pairs[i][1] # pairs[j][1] /\ pairs[i][1] # pairs[j][2]
                  /\ pairs[i][2] # pairs[j][1] /\ pairs[i][2] # pairs[j][2]
  BY DEF Matching
<1>5. \A i \in 1 .. Len(pairs) :
         /\ pairs[i][1] \in Op /\ pairs[i][2] \in Op /\ pairs[i][1] # pairs[i][2]
         /\ link[pairs[i][1]] = link[pairs[i][2]]
  BY <1>2 DEF Matching
<1>6. \A i \in 1 .. Len(pairs) : pairs[i][1] \notin SecondsOf(pairs)
  BY <1>3, <1>4, <1>5
<1> QED
  BY <1>2, <1>3, <1>4, <1>5, <1>6

LEMMA FirstOfPair ==
  ASSUME NEW pairs, Matching(pairs), NEW k \in 0 .. Len(pairs)
  PROVE  /\ \A i \in 1 .. k : First(pairs, k, pairs[i][2]) = pairs[i][1]
         /\ \A x : (\A i \in 1 .. k : pairs[i][2] # x) => First(pairs, k, x) = x
         /\ \A x : x \notin SecondsOf(pairs) => First(pairs, k, x) = x
         /\ \A x : First(pairs, k, x) = x \/ \E i \in 1 .. k : x = pairs[i][2] /\ First(pairs, k, x) = pairs[i][1]
         /\ \A x \in Op : First(pairs, k, x) \in Op /\ link[First(pairs, k, x)] = link[x]
<1>1. Len(pairs) \in Nat /\ \A i \in 1 .. k : i \in 1 .. Len(pairs)
  BY PairsOfMatching
<1>2. ASSUME NEW i \in 1 .. k
      PROVE  First(pairs, k, pairs[i][2]) = pairs[i][1]
  <2> DEFINE x == pairs[i][2]
             c == CHOOSE j \in 1 .. k : pairs[j][2] = x
  <2>1. c \in 1 .. k /\ pairs[c][2] = x
    OBVIOUS
  <2>2. First(pairs, k, x) = pairs[c][1]
    BY DEF First
  <2> HIDE DEF c
  <2>3. c = i
    BY <1>1, <2>1, PairsOfMatching
  <2> QED
    BY <2>2, <2>3
<1>3. \A x : (\A i \in 1 .. k : pairs[i][2] # x) => First(pairs, k, x) = x
  BY DEF First
<1>4. \A x : x \notin SecondsOf(pairs) => \A i \in 1 .. k : pairs[i][2] # x
  BY <1>1, PairsOfMatching
<1>5. \A x : First(pairs, k, x) = x \/ \E i \in 1 .. k : x = pairs[i][2] /\ First(pairs, k, x) = pairs[i][1]
  BY <1>2, <1>3
<1>6. \A x \in Op : First(pairs, k, x) \in Op /\ link[First(pairs, k, x)] = link[x]
  BY <1>1, <1>5, PairsOfMatching
<1> QED
  BY <1>2, <1>3, <1>4, <1>5, <1>6

LEMMA FirstOfNode ==
  ASSUME NEW pairs, Matching(pairs), NEW k \in 0 .. Len(pairs), NEW x \in Node
  PROVE  /\ First(pairs, k, x) \in Node
         /\ IsTerminal(First(pairs, k, x)) <=> IsTerminal(x)
<1>1. \A y \in Op : ~IsTerminal(y) /\ y \in Node
  BY OperationAssumption DEF IsTerminal, Node
<1>2. x \in Op \/ IsTerminal(x)
  BY DEF IsTerminal, Node
<1>3. CASE x \in Op
  <2>1. First(pairs, k, x) \in Op
    BY <1>3, FirstOfPair
  <2> QED
    BY <1>1, <1>3, <2>1
<1>4. CASE IsTerminal(x)
  <2>1. \A i \in 1 .. k : pairs[i][2] # x
    BY <1>1, <1>4, PairsOfMatching
  <2>2. First(pairs, k, x) = x
    BY <2>1, FirstOfPair
  <2> QED
    BY <2>2
<1> QED
  BY <1>2, <1>3, <1>4

\* The neighbours that are left, and a neighbour replaced.
Kept(pairs, list) == Only(list, Range(list) \ SecondsOf(pairs))

Replaced(list, old, new) == [i \in DOMAIN list |-> IF list[i] = old THEN new ELSE list[i]]

\* The lists of neighbours after a pair has been merged; others are those in the
\* other direction.
NextLists(lists, others, pairs, op1, op2) ==
  [x \in Node |-> IF x = op1 THEN lists[op1] \o Kept(pairs, lists[op2])
                  ELSE IF x = op2 THEN Kept(pairs, lists[op2])
                  ELSE IF x \in Range(Kept(pairs, others[op2])) THEN Replaced(lists[x], op2, op1)
                  ELSE lists[x]]

LEMMA KeptList ==
  ASSUME NEW pairs, NEW list \in Seq(Node)
  PROVE  /\ Kept(pairs, list) \in Seq(Node)
         /\ Range(Kept(pairs, list)) = Range(list) \ SecondsOf(pairs)
         /\ Apart(list) => Apart(Kept(pairs, list))
<1> DEFINE S == Range(list) \ SecondsOf(pairs)
           x == Only(list, S)
<1>1. x \in Seq(Node) /\ IsLeft(list, S, Len(list), x) /\ Range(x) = Range(list) \cap S
  BY OnlyKeeps, OnlyRange
<1>2. Kept(pairs, list) = x
  BY DEF Kept
<1> HIDE DEF x
<1>3. PICK e \in [1 .. Len(x) -> 1 .. Len(list)] :
         /\ \A i \in 1 .. Len(x) : x[i] = list[e[i]]
         /\ \A i, j \in 1 .. Len(x) : i # j => e[i] # e[j]
  BY <1>1 DEF IsLeft
<1>4. Apart(list) => Apart(x)
  BY <1>3 DEF Apart
<1> QED
  BY <1>1, <1>2, <1>4

LEMMA ReplacedList ==
  ASSUME NEW list \in Seq(Node), NEW old \in Op, NEW new \in Op, link[old] = link[new]
  PROVE  /\ Replaced(list, old, new) \in Seq(Node)
         /\ Range(Replaced(list, old, new)) = {IF y = old THEN new ELSE y : y \in Range(list)}
         /\ Apart(list) => Apart(Replaced(list, old, new))
<1> DEFINE x == Replaced(list, old, new)
<1>1. Len(list) \in Nat /\ DOMAIN list = 1 .. Len(list) /\ \A i \in 1 .. Len(list) : list[i] \in Node
  BY LenProperties
<1>2. x = [i \in 1 .. Len(list) |-> IF list[i] = old THEN new ELSE list[i]]
  BY <1>1 DEF Replaced
<1>3. \A i \in 1 .. Len(list) : x[i] = IF list[i] = old THEN new ELSE list[i]
  BY <1>2
<1>4. x \in Seq(Node) /\ Len(x) = Len(list)
  BY <1>1, <1>2 DEF Node
<1> HIDE DEF x
<1>5. /\ Range(x) = {x[i] : i \in 1 .. Len(list)}
      /\ Range(list) = {list[i] : i \in 1 .. Len(list)}
  BY <1>4, RangeEquality
<1>6. Range(x) = {IF y = old THEN new ELSE y : y \in Range(list)}
  <2>1. ASSUME NEW i \in 1 .. Len(list)
        PROVE  x[i] \in {IF y = old THEN new ELSE y : y \in Range(list)}
    <3>1. list[i] \in Range(list)
      BY <1>5
    <3> QED
      BY <1>3, <3>1
  <2>2. ASSUME NEW y \in Range(list)
        PROVE  (IF y = old THEN new ELSE y) \in Range(x)
    <3>1. PICK i \in 1 .. Len(list) : y = list[i]
      BY <1>5
    <3>2. x[i] \in Range(x)
      BY <1>5
    <3> QED
      BY <1>3, <3>1, <3>2
  <2> QED
    BY <1>5, <2>1, <2>2
<1>7. \A i \in 1 .. Len(list) : ~IsTerminal(x[i]) => ~IsTerminal(list[i]) /\ link[x[i]] = link[list[i]]
  BY <1>3, OperationAssumption DEF IsTerminal
<1>8. Apart(list) => Apart(x)
  BY <1>4, <1>7 DEF Apart
<1> QED
  BY <1>4, <1>6, <1>8 DEF x

\* The neighbours of the existing vertices E in one direction, lists, and in the
\* other one, as the pairs find them: neighbours of a pair that share a link are
\* merged themselves.
Joinable(E, lists, others, pairs) ==
  /\ Matching(pairs)
  /\ E \subseteq Node
  /\ \A i \in 1 .. Len(pairs) : pairs[i][1] \in E /\ pairs[i][2] \in E
  /\ lists \in [Node -> Seq(Node)]
  /\ others \in [Node -> Seq(Node)]
  /\ \A x \in E : Range(lists[x]) \subseteq E
  /\ \A x, y \in E : y \in Range(lists[x]) <=> x \in Range(others[y])
  /\ \A x \in E \cap Op :
       /\ Apart(lists[x])
       /\ \A y \in Range(lists[x]) : ~IsTerminal(y) => link[y] # link[x]
  /\ \A i \in 1 .. Len(pairs) : \A p \in Range(lists[pairs[i][1]]), q \in Range(lists[pairs[i][2]]) :
       ~IsTerminal(p) /\ ~IsTerminal(q) /\ link[p] = link[q] => q \in SecondsOf(pairs)

\* What the first k pairs have made of the neighbours of x.
Joined(lists, pairs, k, x) ==
  {First(pairs, k, y) : y \in Range(lists[x])}
    \cup UNION {Range(lists[pairs[i][2]]) \ SecondsOf(pairs) : i \in {j \in 1 .. k : pairs[j][1] = x}}

\* The lists that k pairs have made of lists.
JoinedLists(E, lists, pairs, k) ==
  {new \in [Node -> Seq(Node)] :
     /\ \A j \in k + 1 .. Len(pairs) : new[pairs[j][2]] = lists[pairs[j][2]]
     /\ \A x \in E \ SecondsOf(pairs) :
          /\ Range(new[x]) = Joined(lists, pairs, k, x)
          /\ x \in Op => Apart(new[x])}

LEMMA FirstOfNext ==
  ASSUME NEW pairs, Matching(pairs), NEW k \in 1 .. Len(pairs), NEW y
  PROVE  First(pairs, k, y) = IF First(pairs, k - 1, y) = pairs[k][2] THEN pairs[k][1]
                              ELSE First(pairs, k - 1, y)
<1>1. /\ Len(pairs) \in Nat /\ k \in 0 .. Len(pairs) /\ k - 1 \in 0 .. Len(pairs)
      /\ k \in 1 .. k
      /\ \A i \in 1 .. k - 1 : i \in 1 .. k /\ i \in 1 .. Len(pairs) /\ i # k
      /\ \A i \in 1 .. k : i = k \/ i \in 1 .. k - 1
  BY PairsOfMatching
<1>2. CASE y = pairs[k][2]
  <2>1. First(pairs, k, y) = pairs[k][1]
    BY <1>1, <1>2, FirstOfPair
  <2>2. \A i \in 1 .. k - 1 : pairs[i][2] # y
    BY <1>1, <1>2, PairsOfMatching
  <2>3. First(pairs, k - 1, y) = y
    BY <1>1, <2>2, FirstOfPair
  <2> QED
    BY <1>2, <2>1, <2>3
<1>3. CASE y # pairs[k][2] /\ \E i \in 1 .. k - 1 : pairs[i][2] = y
  <2>1. PICK i \in 1 .. k - 1 : pairs[i][2] = y
    BY <1>3
  <2>2. First(pairs, k - 1, y) = pairs[i][1] /\ First(pairs, k, y) = pairs[i][1]
    BY <1>1, <2>1, FirstOfPair
  <2>3. pairs[i][1] # pairs[k][2]
    BY <1>1, PairsOfMatching
  <2> QED
    BY <2>2, <2>3
<1>4. CASE y # pairs[k][2] /\ \A i \in 1 .. k - 1 : pairs[i][2] # y
  <2>1. First(pairs, k - 1, y) = y
    BY <1>1, <1>4, FirstOfPair
  <2>2. \A i \in 1 .. k : pairs[i][2] # y
    BY <1>1, <1>4
  <2>3. First(pairs, k, y) = y
    BY <1>1, <2>2, FirstOfPair
  <2> QED
    BY <1>4, <2>1, <2>3
<1> QED
  BY <1>2, <1>3, <1>4

LEMMA ApartTogether ==
  ASSUME NEW a \in Seq(Node), NEW b \in Seq(Node), Apart(a), Apart(b),
         \A p \in Range(a), q \in Range(b) :
           ~IsTerminal(p) /\ ~IsTerminal(q) => link[p] # link[q]
  PROVE  Apart(a \o b)
<1>1. /\ Len(a) \in Nat /\ Len(b) \in Nat /\ Len(a \o b) = Len(a) + Len(b)
      /\ \A i \in 1 .. Len(a) + Len(b) : (a \o b)[i] = IF i <= Len(a) THEN a[i] ELSE b[i - Len(a)]
  BY ConcatProperties, LenProperties
<1>2. Range(a) = {a[i] : i \in 1 .. Len(a)} /\ Range(b) = {b[i] : i \in 1 .. Len(b)}
  BY RangeEquality
<1>3. \A i \in 1 .. Len(a) + Len(b) :
         \/ i \in 1 .. Len(a) /\ (a \o b)[i] = a[i]
         \/ i - Len(a) \in 1 .. Len(b) /\ (a \o b)[i] = b[i - Len(a)]
  BY <1>1
<1>4. \A i \in 1 .. Len(a), j \in 1 .. Len(b) :
         ~IsTerminal(a[i]) /\ ~IsTerminal(b[j]) => link[a[i]] # link[b[j]]
  BY <1>2
<1> SUFFICES ASSUME NEW i \in 1 .. Len(a \o b), NEW j \in 1 .. Len(a \o b), i # j,
                    ~IsTerminal((a \o b)[i]), ~IsTerminal((a \o b)[j])
             PROVE  link[(a \o b)[i]] # link[(a \o b)[j]]
  BY DEF Apart
<1>5. i \in 1 .. Len(a) + Len(b) /\ j \in 1 .. Len(a) + Len(b) /\ i \in Nat /\ j \in Nat
  BY <1>1
<1>6. CASE i \in 1 .. Len(a) /\ (a \o b)[i] = a[i] /\ j \in 1 .. Len(a) /\ (a \o b)[j] = a[j]
  BY <1>6 DEF Apart
<1>7. CASE /\ i - Len(a) \in 1 .. Len(b) /\ (a \o b)[i] = b[i - Len(a)]
           /\ j - Len(a) \in 1 .. Len(b) /\ (a \o b)[j] = b[j - Len(a)]
  <2>1. i - Len(a) # j - Len(a)
    BY <1>1, <1>5
  <2> QED
    BY <1>7, <2>1 DEF Apart
<1>8. CASE /\ i \in 1 .. Len(a) /\ (a \o b)[i] = a[i]
           /\ j - Len(a) \in 1 .. Len(b) /\ (a \o b)[j] = b[j - Len(a)]
  BY <1>4, <1>8
<1>9. CASE /\ i - Len(a) \in 1 .. Len(b) /\ (a \o b)[i] = b[i - Len(a)]
           /\ j \in 1 .. Len(a) /\ (a \o b)[j] = a[j]
  BY <1>4, <1>9
<1> QED
  BY <1>3, <1>5, <1>6, <1>7, <1>8, <1>9

LEMMA JoinedStart ==
  ASSUME NEW E, NEW lists, NEW others, NEW pairs, Joinable(E, lists, others, pairs)
  PROVE  lists \in JoinedLists(E, lists, pairs, 0)
<1>1. \A y : First(pairs, 0, y) = y
  BY DEF First
<1>2. \A x : Joined(lists, pairs, 0, x) = Range(lists[x])
  BY <1>1 DEF Joined
<1>3. \A x \in E \cap Op : Apart(lists[x])
  BY DEF Joinable
<1> QED
  BY <1>2, <1>3 DEF JoinedLists, Joinable

\* A pair is merged.
LEMMA JoinedNext ==
  ASSUME NEW E, NEW lists, NEW others, NEW pairs, Joinable(E, lists, others, pairs),
         NEW k \in 1 .. Len(pairs),
         NEW new \in JoinedLists(E, lists, pairs, k - 1),
         NEW back, back \in [Node -> Seq(Node)], back[pairs[k][2]] = others[pairs[k][2]]
  PROVE  NextLists(new, back, pairs, pairs[k][1], pairs[k][2]) \in JoinedLists(E, lists, pairs, k)
<1> DEFINE D == SecondsOf(pairs)
           a == pairs[k][1]
           b == pairs[k][2]
           next_lists == NextLists(new, back, pairs, a, b)
<1>1. /\ Matching(pairs) /\ E \subseteq Node /\ a \in E /\ b \in E
      /\ lists \in [Node -> Seq(Node)] /\ others \in [Node -> Seq(Node)]
      /\ \A x \in E : Range(lists[x]) \subseteq E
      /\ \A x, y \in E : y \in Range(lists[x]) <=> x \in Range(others[y])
      /\ \A x \in E \cap Op :
           /\ Apart(lists[x])
           /\ \A y \in Range(lists[x]) : ~IsTerminal(y) => link[y] # link[x]
      /\ \A p \in Range(lists[a]), q \in Range(lists[b]) :
           ~IsTerminal(p) /\ ~IsTerminal(q) /\ link[p] = link[q] => q \in D
  BY DEF Joinable
<1>2. /\ Len(pairs) \in Nat /\ a \in Op /\ b \in Op /\ a # b /\ link[a] = link[b]
      /\ b \in D /\ a \notin D
      /\ \A j \in 1 .. Len(pairs) : pairs[j][2] \in D /\ (j # k => pairs[j][2] # b)
      /\ \A j \in 1 .. Len(pairs) : j # k => pairs[j][1] # a
      /\ k - 1 \in 0 .. Len(pairs) /\ k \in 0 .. Len(pairs)
      /\ \A x \in D : x \in Op
  <2>1. /\ Len(pairs) \in Nat
        /\ \A i \in 1 .. Len(pairs) :
              /\ pairs[i][1] \in Op /\ pairs[i][2] \in Op /\ pairs[i][1] # pairs[i][2]
              /\ link[pairs[i][1]] = link[pairs[i][2]]
              /\ pairs[i][2] \in D /\ pairs[i][1] \notin D
        /\ \A i, j \in 1 .. Len(pairs) :
              i # j => pairs[i][1] # pairs[j][1] /\ pairs[i][2] # pairs[j][2]
        /\ \A x \in D : \E i \in 1 .. Len(pairs) : x = pairs[i][2]
    BY <1>1, PairsOfMatching, Zenon
  <2> HIDE DEF D
  <2> QED
    BY <2>1, SMTT(30)
<1>3. /\ new \in [Node -> Seq(Node)]
      /\ \A j \in k .. Len(pairs) : new[pairs[j][2]] = lists[pairs[j][2]]
      /\ \A x \in E \ D :
           /\ Range(new[x]) = Joined(lists, pairs, k - 1, x)
           /\ x \in Op => Apart(new[x])
  BY <1>2 DEF JoinedLists
<1>4. new[b] = lists[b] /\ back[b] = others[b]
  <2>1. k \in k .. Len(pairs)
    BY <1>2, SMT
  <2>2. \A j \in k .. Len(pairs) : new[pairs[j][2]] = lists[pairs[j][2]]
    BY <1>3
  <2> QED
    BY <2>1, <2>2, Zenon
<1> HIDE DEF D, a, b
<1>5. /\ a \in Node /\ b \in Node /\ ~IsTerminal(a) /\ ~IsTerminal(b)
      /\ \A x \in Op : x \in Node /\ ~IsTerminal(x)
  BY <1>2, OperationAssumption DEF Node, IsTerminal
<1>6. /\ Kept(pairs, new[b]) \in Seq(Node)
      /\ Range(Kept(pairs, new[b])) = Range(lists[b]) \ D
      /\ Apart(Kept(pairs, new[b]))
      /\ Kept(pairs, back[b]) \in Seq(Node)
      /\ Range(Kept(pairs, back[b])) = Range(others[b]) \ D
  BY <1>1, <1>2, <1>3, <1>4, <1>5, KeptList DEF D
<1>7. /\ next_lists[a] = new[a] \o Kept(pairs, new[b])
      /\ next_lists[b] = Kept(pairs, new[b])
      /\ \A x \in Node : x # a /\ x # b /\ x \in Range(others[b]) \ D => next_lists[x] = Replaced(new[x], b, a)
      /\ \A x \in Node : x # a /\ x # b /\ x \notin Range(others[b]) \ D => next_lists[x] = new[x]
  BY <1>2, <1>5, <1>6 DEF NextLists
<1>8. \A x \in Node : new[x] \in Seq(Node)
  BY <1>3
<1>9. \A x \in Node : Replaced(new[x], b, a) \in Seq(Node)
  BY <1>2, <1>8, ReplacedList
<1>10. new[a] \o Kept(pairs, new[b]) \in Seq(Node)
        /\ Range(new[a] \o Kept(pairs, new[b])) = Range(new[a]) \cup (Range(lists[b]) \ D)
  BY <1>5, <1>6, <1>8, RangeConcatenation, ConcatProperties, SMTT(30)
<1>11. next_lists \in [Node -> Seq(Node)]
  <2>1. \A x \in Node : next_lists[x] \in Seq(Node)
    BY <1>6, <1>7, <1>8, <1>9, <1>10
  <2>2. DOMAIN next_lists = Node /\ next_lists = [x \in Node |-> next_lists[x]]
    BY DEF NextLists
  <2> HIDE DEF next_lists
  <2> QED
    BY <2>1, <2>2
<1> HIDE DEF next_lists
<1>12. ASSUME NEW j \in k + 1 .. Len(pairs)
       PROVE  next_lists[pairs[j][2]] = lists[pairs[j][2]]
  <2>1. j \in 1 .. Len(pairs) /\ j # k /\ j \in k .. Len(pairs)
    BY <1>2
  <2>2. pairs[j][2] \in D /\ pairs[j][2] # b /\ pairs[j][2] # a /\ pairs[j][2] \in Node
    BY <1>2, <1>5, <2>1
  <2> QED
    BY <1>3, <1>7, <2>1, <2>2
<1>13. \A i \in 1 .. k : i = k \/ i \in 1 .. k - 1
  BY <1>2
<1>14. \A i \in 1 .. k - 1 : i \in 1 .. k /\ i \in 1 .. Len(pairs) /\ i # k
  BY <1>2
<1>15. \A y : First(pairs, k, y) = IF First(pairs, k - 1, y) = b THEN a ELSE First(pairs, k - 1, y)
  BY <1>1, FirstOfNext DEF a, b
<1>16. \A y : First(pairs, k - 1, y) = b <=> y = b
  <2>1. \A i \in 1 .. k - 1 : pairs[i][2] # b /\ pairs[i][1] # b
    BY <1>1, <1>2, <1>14, PairsOfMatching DEF b
  <2>2. /\ \A y : (\A i \in 1 .. k - 1 : pairs[i][2] # y) => First(pairs, k - 1, y) = y
        /\ \A y : First(pairs, k - 1, y) = y
                    \/ \E i \in 1 .. k - 1 : y = pairs[i][2] /\ First(pairs, k - 1, y) = pairs[i][1]
    <3>1. Matching(pairs) /\ k - 1 \in 0 .. Len(pairs)
      BY <1>1, <1>2
    <3> QED
      BY <3>1, FirstOfPair, Zenon
  <2> QED
    BY <2>1, <2>2
<1>17. ASSUME NEW x \in E \ D
       PROVE  /\ Range(next_lists[x]) = Joined(lists, pairs, k, x)
              /\ x \in Op => Apart(next_lists[x])
  <2> DEFINE old == {First(pairs, k - 1, y) : y \in Range(lists[x])}
             now == {First(pairs, k, y) : y \in Range(lists[x])}
             added(n) == UNION {Range(lists[pairs[i][2]]) \ D : i \in {j \in 1 .. n : pairs[j][1] = x}}
  <2>1. x \in Node /\ x # b /\ new[x] \in Seq(Node)
    BY <1>1, <1>2, <1>8, <1>17
  <2>2. Range(new[x]) = old \cup added(k - 1) /\ (x \in Op => Apart(new[x]))
    BY <1>3, <1>17 DEF Joined, D
  <2>3. Joined(lists, pairs, k, x) = now \cup added(k)
    BY DEF Joined, D
  <2>4. b \notin Range(lists[x]) => now = old
    BY <1>15, <1>16
  <2>5. x # a => added(k) = added(k - 1)
    BY <1>13, <1>14 DEF a
  <2>6. CASE x = a
    <3>1. b \notin Range(lists[x])
      BY <1>1, <1>2, <1>5, <2>6
    <3>2. added(k - 1) = {} /\ added(k) = Range(lists[b]) \ D
      <4>1. {j \in 1 .. k : pairs[j][1] = x} = {k}
        BY <1>2, <1>13, <1>14, <2>6 DEF a
      <4>2. {j \in 1 .. k - 1 : pairs[j][1] = x} = {}
        BY <1>2, <1>14, <2>6
      <4> QED
        BY <4>1, <4>2 DEF b
    <3>3. Range(next_lists[x]) = old \cup (Range(lists[b]) \ D)
      BY <1>7, <1>10, <2>2, <2>6, <3>2
    <3>4. Apart(next_lists[x])
      <4>1. ASSUME NEW p \in Range(new[a]), NEW q \in Range(Kept(pairs, new[b])),
                   ~IsTerminal(p), ~IsTerminal(q), link[p] = link[q]
            PROVE  FALSE
        <5>1. p \in old
          BY <2>2, <2>6, <3>2, <4>1
        <5>2. PICK y \in Range(lists[a]) : p = First(pairs, k - 1, y)
          BY <2>6, <5>1
        <5>3. y \in Node
          BY <1>1, <5>2
        <5>4. ~IsTerminal(y) /\ y \in Op /\ link[p] = link[y]
          <6>1. Matching(pairs) /\ k - 1 \in 0 .. Len(pairs)
            BY <1>1, <1>2
          <6>2. IsTerminal(p) <=> IsTerminal(y)
            <7>1. IsTerminal(First(pairs, k - 1, y)) <=> IsTerminal(y)
              BY <5>3, <6>1, FirstOfNode
            <7> QED
              BY <5>2, <7>1, Zenon
          <6>3. ~IsTerminal(y) /\ y \in Op
            BY <4>1, <5>3, <6>2 DEF Node, IsTerminal
          <6>4. link[First(pairs, k - 1, y)] = link[y]
            BY <6>1, <6>3, FirstOfPair
          <6> QED
            BY <5>2, <6>3, <6>4
        <5>5. link[y] = link[q]
          BY <4>1, <5>4
        <5>6. q \in Range(lists[b]) /\ q \notin D
          BY <1>6, <4>1
        <5> QED
          BY <1>1, <4>1, <5>2, <5>4, <5>5, <5>6
      <4>2. Apart(new[a])
        BY <1>2, <2>2, <2>6
      <4>3. Apart(new[a] \o Kept(pairs, new[b]))
        BY <1>5, <1>6, <1>8, <4>1, <4>2, ApartTogether
      <4> QED
        BY <1>7, <2>6, <4>3
    <3> QED
      BY <2>3, <2>4, <3>1, <3>2, <3>3, <3>4
  <2>7. CASE x # a /\ x \in Range(others[b])
    <3>1. next_lists[x] = Replaced(new[x], b, a)
      BY <1>7, <1>17, <2>1, <2>7
    <3>2. Range(next_lists[x]) = {IF y = b THEN a ELSE y : y \in Range(new[x])}
      BY <1>2, <2>1, <3>1, ReplacedList, ZenonT(30)
    <3>3. x \in Op => Apart(next_lists[x])
      BY <1>2, <2>1, <2>2, <3>1, ReplacedList, ZenonT(30)
    <3>4. b \notin added(k - 1)
      BY <1>2
    <3>5. now = {IF y = b THEN a ELSE y : y \in old}
      BY <1>15
    <3>6. Range(next_lists[x]) = now \cup added(k - 1)
      <4>1. Range(new[x]) = old \cup added(k - 1)
        BY <2>2
      <4> HIDE DEF old, now, added
      <4> QED
        BY <3>2, <3>4, <3>5, <4>1
    <3> QED
      BY <2>3, <2>5, <2>7, <3>3, <3>6
  <2>8. CASE x # a /\ x \notin Range(others[b])
    <3>1. b \notin Range(lists[x])
      BY <1>1, <1>17, <2>8
    <3>2. next_lists[x] = new[x]
      BY <1>7, <2>1, <2>8
    <3> QED
      BY <2>2, <2>3, <2>4, <2>5, <2>8, <3>1, <3>2
  <2> QED
    BY <2>6, <2>7, <2>8
<1> QED
  BY <1>11, <1>12, <1>17 DEF JoinedLists, D, next_lists, a, b

\* The frames of two operations are joined.
JoinedFrames(of, op1, op2) ==
  [o \in Op |-> IF o = op1 THEN of[op1] \cup of[op2]
                ELSE IF o = op2 THEN of[op2] \cap of[op1]
                ELSE of[o]]

LEMMA MergedPair ==
  ASSUME NEW pairs, NEW m \in GraphType, NEW pair \in Op \X Op,
         pair[1] # pair[2], pair[2] \in SecondsOf(pairs),
         pair[1] \notin Range(m.route_pred[pair[2]]), pair[1] \notin Range(m.route_succ[pair[2]])
  PROVE  /\ MergePair(pairs, m, pair).order = m.order
         /\ MergePair(pairs, m, pair).position = m.position
         /\ MergePair(pairs, m, pair).link = link
         /\ MergePair(pairs, m, pair).pcp = pcp
         /\ MergePair(pairs, m, pair).route_pred
              = NextLists(m.route_pred, m.route_succ, pairs, pair[1], pair[2])
         /\ MergePair(pairs, m, pair).route_succ
              = NextLists(m.route_succ, m.route_pred, pairs, pair[1], pair[2])
         /\ MergePair(pairs, m, pair).frames = JoinedFrames(m.frames, pair[1], pair[2])
         /\ /\ NextLists(m.route_pred, m.route_succ, pairs, pair[1], pair[2]) \in [Node -> Seq(Node)]
            /\ NextLists(m.route_succ, m.route_pred, pairs, pair[1], pair[2]) \in [Node -> Seq(Node)]
            => MergePair(pairs, m, pair) \in GraphType
<1> DEFINE op1 == pair[1]
           op2 == pair[2]
           preds == delete_merged_neighbors(pairs, m.route_pred[op2])
           succ1 == Relinked(m.route_succ, Range(preds), op2, op1)
           succs == delete_merged_neighbors(pairs, succ1[op2])
           pred0 == [m.route_pred EXCEPT ![op2] = preds, ![op1] = @ \o preds]
           pred1 == Relinked(pred0, Range(succs), op2, op1)
           succ2 == [succ1 EXCEPT ![op2] = succs, ![op1] = @ \o succs]
           frames1 == [m.frames EXCEPT ![op1] = @ \cup m.frames[op2], ![op2] = @ \cap m.frames[op1]]
           result == [m EXCEPT !.route_pred = pred1, !.route_succ = succ2, !.frames = frames1]
<1>1. MergePair(pairs, m, pair) = result
  BY Zenon DEF MergePair
<1>2. /\ m.route_pred \in [Node -> Seq(Node)] /\ m.route_succ \in [Node -> Seq(Node)]
      /\ m.frames \in [Op -> SUBSET Frame] /\ m.link = link /\ m.pcp = pcp
      /\ op1 \in Op /\ op2 \in Op /\ op1 \in Node /\ op2 \in Node /\ op1 # op2
  BY DEF GraphType, Node
<1>3. preds = Kept(pairs, m.route_pred[op2])
  BY DEF delete_merged_neighbors, Kept
<1>4. /\ Range(preds) = Range(m.route_pred[op2]) \ SecondsOf(pairs)
      /\ op1 \notin Range(preds) /\ op2 \notin Range(preds)
  <2>1. m.route_pred[op2] \in Seq(Node)
    BY <1>2
  <2>2. Range(preds) = Range(m.route_pred[op2]) \ SecondsOf(pairs)
    BY <1>3, <2>1, KeptList
  <2> QED
    BY <2>2
<1> HIDE DEF preds
<1>5. succ1 = [o \in Node |-> IF o \in Range(preds) THEN Replaced(m.route_succ[o], op2, op1)
                              ELSE m.route_succ[o]]
  BY <1>2 DEF Relinked, Replaced
<1>6. succ1[op1] = m.route_succ[op1] /\ succ1[op2] = m.route_succ[op2]
  BY <1>2, <1>4, <1>5
<1> HIDE DEF succ1
<1>7. succs = Kept(pairs, m.route_succ[op2])
  BY <1>6 DEF delete_merged_neighbors, Kept
<1>8. /\ Range(succs) = Range(m.route_succ[op2]) \ SecondsOf(pairs)
      /\ op1 \notin Range(succs) /\ op2 \notin Range(succs)
  <2>1. m.route_succ[op2] \in Seq(Node)
    BY <1>2
  <2>2. Range(succs) = Range(m.route_succ[op2]) \ SecondsOf(pairs)
    BY <1>7, <2>1, KeptList
  <2> QED
    BY <2>2
<1> HIDE DEF succs, op1, op2
<1>9. succ2 = NextLists(m.route_succ, m.route_pred, pairs, op1, op2)
  <2>1. succ2 = [o \in Node |-> IF o = op1 THEN succ1[op1] \o succs
                                ELSE IF o = op2 THEN succs ELSE succ1[o]]
    BY <1>2, <1>5
  <2>2. succ2 = [o \in Node |-> IF o = op1 THEN m.route_succ[op1] \o succs
                                ELSE IF o = op2 THEN succs
                                ELSE IF o \in Range(preds) THEN Replaced(m.route_succ[o], op2, op1)
                                ELSE m.route_succ[o]]
    BY <1>5, <1>6, <2>1
  <2> HIDE DEF succ2
  <2> QED
    BY <1>3, <1>7, <2>2 DEF NextLists
<1>10. pred1 = NextLists(m.route_pred, m.route_succ, pairs, op1, op2)
  <2>1. pred0 = [o \in Node |-> IF o = op1 THEN m.route_pred[op1] \o preds
                                ELSE IF o = op2 THEN preds ELSE m.route_pred[o]]
    BY <1>2
  <2> HIDE DEF pred0
  <2>2. pred1 = [o \in Node |-> IF o \in Range(succs) THEN Replaced(pred0[o], op2, op1) ELSE pred0[o]]
    BY <2>1 DEF Relinked, Replaced
  <2>3. pred1 = [o \in Node |-> IF o = op1 THEN m.route_pred[op1] \o preds
                                ELSE IF o = op2 THEN preds
                                ELSE IF o \in Range(succs) THEN Replaced(m.route_pred[o], op2, op1)
                                ELSE m.route_pred[o]]
    BY <1>2, <1>8, <2>1, <2>2
  <2> HIDE DEF pred1
  <2> QED
    BY <1>3, <1>7, <2>3 DEF NextLists
<1>11. frames1 = JoinedFrames(m.frames, op1, op2)
  BY <1>2 DEF JoinedFrames
<1> HIDE DEF pred1, succ2
<1>12. JoinedFrames(m.frames, op1, op2) \in [Op -> SUBSET Frame]
  BY <1>2 DEF JoinedFrames, op1, op2
<1> HIDE DEF frames1
<1>13. /\ result.order = m.order /\ result.position = m.position /\ result.link = link
       /\ result.pcp = pcp /\ result.route_pred = pred1 /\ result.route_succ = succ2
       /\ result.frames = frames1
  BY DEF GraphType
<1>14. pred1 \in [Node -> Seq(Node)] /\ succ2 \in [Node -> Seq(Node)] => result \in GraphType
  BY <1>11, <1>12 DEF GraphType
<1> HIDE DEF result
<1> QED
  BY <1>1, <1>9, <1>10, <1>11, <1>13, <1>14 DEF op1, op2

\* The graphs that k pairs have been merged in.
MergeStates(G, pairs, k) ==
  {m \in GraphType :
     /\ m.order = G.order /\ m.position = G.position
     /\ m.route_pred \in JoinedLists(Existing(G), G.route_pred, pairs, k)
     /\ m.route_succ \in JoinedLists(Existing(G), G.route_succ, pairs, k)
     /\ \A i \in 1 .. Len(pairs) :
          /\ m.frames[pairs[i][1]] = IF i <= k THEN G.frames[pairs[i][1]] \cup G.frames[pairs[i][2]]
                                               ELSE G.frames[pairs[i][1]]
          /\ m.frames[pairs[i][2]] = IF i <= k THEN {} ELSE G.frames[pairs[i][2]]
     /\ \A o \in Op : (\A i \in 1 .. Len(pairs) : o # pairs[i][1] /\ o # pairs[i][2]) =>
          m.frames[o] = G.frames[o]}

\* What pairs that can be joined are, in both directions.
MayMerge(G, pairs) ==
  /\ Joinable(Existing(G), G.route_pred, G.route_succ, pairs)
  /\ Joinable(Existing(G), G.route_succ, G.route_pred, pairs)
  /\ \A i \in 1 .. Len(pairs) : G.frames[pairs[i][1]] \cap G.frames[pairs[i][2]] = {}

LEMMA ClosedPairsMayMerge ==
  ASSUME NEW G \in GraphType, Linked(G), NEW pairs \in Seq(Twins(G)), Matching(pairs),
         \A pair \in Range(pairs) : Related(G, pair) \subseteq Range(pairs),
         \A pair \in Twins(G) : G.frames[pair[1]] \cap G.frames[pair[2]] = {}
  PROVE  MayMerge(G, pairs)
<1> DEFINE E == Existing(G)
<1>1. /\ DOMAIN pairs = 1 .. Len(pairs) /\ Range(pairs) = {pairs[i] : i \in 1 .. Len(pairs)}
      /\ \A i \in 1 .. Len(pairs) : pairs[i] \in Twins(G)
  BY RangeEquality, LenProperties
<1>2. \A i \in 1 .. Len(pairs) : pairs[i][1] \in E /\ pairs[i][2] \in E
  BY <1>1 DEF Twins, Existing
<1>3. /\ G.route_pred \in [Node -> Seq(Node)] /\ G.route_succ \in [Node -> Seq(Node)]
      /\ E \subseteq Node
  BY DEF GraphType, Existing, Node
<1>4. \A x \in E : Range(G.route_pred[x]) \subseteq E /\ Range(G.route_succ[x]) \subseteq E
  BY DEF Linked, NeighborsExist
<1>5. /\ \A x, y \in E : y \in Range(G.route_pred[x]) <=> x \in Range(G.route_succ[y])
      /\ \A x, y \in E : y \in Range(G.route_succ[x]) <=> x \in Range(G.route_pred[y])
  BY DEF Linked, NeighborsAgree
<1>6. \A x \in E \cap Op : Present(G, x)
  BY OperationAssumption DEF Existing
<1>7. \A x \in E \cap Op :
        /\ Apart(G.route_pred[x]) /\ Apart(G.route_succ[x])
        /\ \A y \in Range(G.route_pred[x]) : ~IsTerminal(y) => link[y] # link[x]
        /\ \A y \in Range(G.route_succ[x]) : ~IsTerminal(y) => link[y] # link[x]
  BY <1>6 DEF Linked, NeighborsApart
<1>8. \A p, q : <<p, q>> \in Range(pairs) => q \in SecondsOf(pairs)
  BY <1>1 DEF SecondsOf
<1>9. ASSUME NEW i \in 1 .. Len(pairs)
      PROVE  /\ \A p \in Range(G.route_pred[pairs[i][1]]), q \in Range(G.route_pred[pairs[i][2]]) :
                  ~IsTerminal(p) /\ ~IsTerminal(q) /\ link[p] = link[q] => q \in SecondsOf(pairs)
             /\ \A p \in Range(G.route_succ[pairs[i][1]]), q \in Range(G.route_succ[pairs[i][2]]) :
                  ~IsTerminal(p) /\ ~IsTerminal(q) /\ link[p] = link[q] => q \in SecondsOf(pairs)
  <2> DEFINE t == pairs[i]
  <2>1. t \in Twins(G) /\ Related(G, t) \subseteq Range(pairs)
    BY <1>1
  <2> HIDE DEF t
  <2>2. /\ \A p \in Range(G.route_pred[t[1]]), q \in Range(G.route_pred[t[2]]) :
              ~IsTerminal(p) /\ ~IsTerminal(q) /\ link[p] = link[q] => <<p, q>> \in Related(G, t)
        /\ \A p \in Range(G.route_succ[t[1]]), q \in Range(G.route_succ[t[2]]) :
              ~IsTerminal(p) /\ ~IsTerminal(q) /\ link[p] = link[q] => <<p, q>> \in Related(G, t)
    BY <2>1, RelatedPairs DEF Related
  <2> QED
    BY <1>8, <2>1, <2>2 DEF t
<1> HIDE DEF E
<1>10. Joinable(E, G.route_pred, G.route_succ, pairs)
  BY <1>2, <1>3, <1>4, <1>5, <1>7, <1>9 DEF Joinable
<1>11. Joinable(E, G.route_succ, G.route_pred, pairs)
  BY <1>2, <1>3, <1>4, <1>5, <1>7, <1>9 DEF Joinable
<1> QED
  BY <1>1, <1>10, <1>11 DEF MayMerge, E

LEMMA MergeGoesOn ==
  ASSUME NEW G \in GraphType, NEW pairs, MayMerge(G, pairs), NEW k \in 1 .. Len(pairs),
         NEW m \in MergeStates(G, pairs, k - 1)
  PROVE  MergePair(pairs, m, pairs[k]) \in MergeStates(G, pairs, k)
<1> DEFINE pair == pairs[k]
           E == Existing(G)
           x == MergePair(pairs, m, pair)
<1>1. /\ Matching(pairs)
      /\ Joinable(E, G.route_pred, G.route_succ, pairs)
      /\ Joinable(E, G.route_succ, G.route_pred, pairs)
      /\ G.frames[pair[1]] \cap G.frames[pair[2]] = {}
  BY DEF MayMerge, Joinable
<1>2. /\ Len(pairs) \in Nat /\ pair \in Op \X Op /\ pair[1] # pair[2] /\ link[pair[1]] = link[pair[2]]
      /\ pair[2] \in SecondsOf(pairs)
  <2>1. pairs \in Seq(Op \X Op)
    BY <1>1 DEF Matching
  <2> QED
    BY <1>1, <2>1, PairsOfMatching, LenProperties
<1>3. \A i, j \in 1 .. Len(pairs) :
        i # j => /\ pairs[i][1] # pairs[j][1] /\ pairs[i][1] # pairs[j][2]
                 /\ pairs[i][2] # pairs[j][1] /\ pairs[i][2] # pairs[j][2]
  BY <1>1, PairsOfMatching
<1>4. \A i \in 1 .. Len(pairs) : pairs[i][1] \in Op /\ pairs[i][2] \in Op /\ pairs[i][1] # pairs[i][2]
  BY <1>1, PairsOfMatching
<1>5. /\ m \in GraphType /\ m.order = G.order /\ m.position = G.position
      /\ m.route_pred \in JoinedLists(E, G.route_pred, pairs, k - 1)
      /\ m.route_succ \in JoinedLists(E, G.route_succ, pairs, k - 1)
  BY DEF MergeStates
<1>6. /\ m.route_pred \in [Node -> Seq(Node)] /\ m.route_succ \in [Node -> Seq(Node)]
      /\ m.route_pred[pair[2]] = G.route_pred[pair[2]]
      /\ m.route_succ[pair[2]] = G.route_succ[pair[2]]
  <2>1. k \in (k - 1) + 1 .. Len(pairs)
    BY <1>2
  <2> QED
    BY <1>5, <2>1 DEF JoinedLists
<1>7. pair[1] \notin Range(m.route_pred[pair[2]]) /\ pair[1] \notin Range(m.route_succ[pair[2]])
  <2>1. pair[2] \in E \cap Op /\ ~IsTerminal(pair[1])
    BY <1>1, <1>2, OperationAssumption DEF Joinable, IsTerminal
  <2> QED
    BY <1>1, <1>2, <1>6, <2>1 DEF Joinable
<1> HIDE DEF pair, E
<1>8. /\ x.order = m.order /\ x.position = m.position
      /\ x.route_pred = NextLists(m.route_pred, m.route_succ, pairs, pair[1], pair[2])
      /\ x.route_succ = NextLists(m.route_succ, m.route_pred, pairs, pair[1], pair[2])
      /\ x.frames = JoinedFrames(m.frames, pair[1], pair[2])
  BY <1>2, <1>5, <1>7, MergedPair
<1>9. x.route_pred \in JoinedLists(E, G.route_pred, pairs, k)
  BY <1>1, <1>5, <1>6, <1>8, JoinedNext DEF pair
<1>10. x.route_succ \in JoinedLists(E, G.route_succ, pairs, k)
  BY <1>1, <1>5, <1>6, <1>8, JoinedNext DEF pair
<1>11. x \in GraphType
  <2>1. x.route_pred \in [Node -> Seq(Node)] /\ x.route_succ \in [Node -> Seq(Node)]
    BY <1>9, <1>10 DEF JoinedLists
  <2> QED
    BY <1>2, <1>5, <1>7, <1>8, <2>1, MergedPair
<1> HIDE DEF x
<1>12. ASSUME NEW i \in 1 .. Len(pairs)
       PROVE  /\ x.frames[pairs[i][1]] = IF i <= k THEN G.frames[pairs[i][1]] \cup G.frames[pairs[i][2]]
                                         ELSE G.frames[pairs[i][1]]
              /\ x.frames[pairs[i][2]] = IF i <= k THEN {} ELSE G.frames[pairs[i][2]]
  <2> DEFINE a == pairs[i][1]
             b == pairs[i][2]
  <2>1. a \in Op /\ b \in Op /\ a # b /\ i \in Nat /\ k \in Nat
    BY <1>2, <1>4
  <2>2. /\ m.frames[a] = IF i <= k - 1 THEN G.frames[a] \cup G.frames[b] ELSE G.frames[a]
        /\ m.frames[b] = IF i <= k - 1 THEN {} ELSE G.frames[b]
    BY DEF MergeStates
  <2>3. CASE i = k
    <3>1. a = pair[1] /\ b = pair[2] /\ ~(i <= k - 1)
      BY <2>1, <2>3 DEF pair
    <3>2. m.frames[a] = G.frames[a] /\ m.frames[b] = G.frames[b]
      BY <2>2, <3>1
    <3> HIDE DEF a, b
    <3>3. x.frames[a] = m.frames[a] \cup m.frames[b] /\ x.frames[b] = m.frames[b] \cap m.frames[a]
      BY <1>8, <2>1, <3>1 DEF JoinedFrames
    <3>4. G.frames[b] \cap G.frames[a] = {}
      BY <1>1, <3>1
    <3> QED
      BY <2>3, <3>2, <3>3, <3>4 DEF a, b
  <2>4. CASE i # k
    <3>1. a # pair[1] /\ a # pair[2] /\ b # pair[1] /\ b # pair[2]
      BY <1>3, <2>4 DEF pair
    <3>2. i <= k <=> i <= k - 1
      BY <2>1, <2>4
    <3> HIDE DEF a, b
    <3>3. x.frames[a] = m.frames[a] /\ x.frames[b] = m.frames[b]
      BY <1>8, <2>1, <3>1 DEF JoinedFrames
    <3> QED
      BY <2>2, <3>2, <3>3 DEF a, b
  <2> QED
    BY <2>3, <2>4
<1>13. ASSUME NEW o \in Op, \A i \in 1 .. Len(pairs) : o # pairs[i][1] /\ o # pairs[i][2]
       PROVE  x.frames[o] = G.frames[o]
  <2>1. m.frames[o] = G.frames[o]
    BY <1>13 DEF MergeStates
  <2>2. o # pair[1] /\ o # pair[2]
    BY <1>13 DEF pair
  <2> QED
    BY <1>8, <2>1, <2>2 DEF JoinedFrames
<1> QED
  BY <1>5, <1>8, <1>9, <1>10, <1>11, <1>12, <1>13 DEF MergeStates, E, x, pair

LEMMA MergeStarts ==
  ASSUME NEW G \in GraphType, NEW pairs, MayMerge(G, pairs)
  PROVE  G \in MergeStates(G, pairs, 0)
<1>1. /\ Joinable(Existing(G), G.route_pred, G.route_succ, pairs)
      /\ Joinable(Existing(G), G.route_succ, G.route_pred, pairs)
  BY DEF MayMerge
<1>2. /\ G.route_pred \in JoinedLists(Existing(G), G.route_pred, pairs, 0)
      /\ G.route_succ \in JoinedLists(Existing(G), G.route_succ, pairs, 0)
  BY <1>1, JoinedStart
<1>3. \A i \in 1 .. Len(pairs) : ~(i <= 0)
  OBVIOUS
<1> QED
  BY <1>2, <1>3 DEF MergeStates

LEMMA MergePairsJoins ==
  ASSUME NEW G \in GraphType, NEW pairs, MayMerge(G, pairs), NEW x \in MergePairs(pairs, G)
  PROVE  x \in MergeStates(G, pairs, Len(pairs))
<1> DEFINE N == Len(pairs)
           At(n) == MergeStates(G, pairs, n)
           Image(n, y) == {MergePair(pairs, m, pairs[n]) : m \in y}
           h == [p \in (1 .. N) \X SUBSET GraphType |-> Image(p[1], p[2])]
           Good == [n \in 0 .. N |-> SUBSET At(n)]
           Steps(f) == [n \in 0 .. N |-> IF n = 0 THEN {G}
                                         ELSE {MergePair(pairs, m, pairs[n]) : m \in f[n - 1]}]
           merged == CHOOSE f : f = Steps(f)
<1>1. MergePairs(pairs, G) = merged[N]
  BY DEF MergePairs
<1>2. N \in Nat
  BY PairsOfMatching DEF MayMerge, Joinable
<1>3. G \in At(0)
  BY MergeStarts
<1>4. \A n \in 1 .. N : \A y \in SUBSET At(n - 1) : Image(n, y) \in SUBSET At(n)
  BY MergeGoesOn
<1>5. \A n : At(n) \subseteq GraphType
  BY DEF MergeStates
<1> HIDE DEF At, N
<1>6. PICK f : f = Recursion(N, {G}, h, f)
  BY <1>2, RecursionExists
<1>7. \A n \in 0 .. N : f[n] \in SUBSET At(n)
  <2>1. {G} \in Good[0]
    BY <1>2, <1>3
  <2>2. \A n \in 1 .. N : \A y \in Good[n - 1] : h[<<n, y>>] \in Good[n]
    <3> SUFFICES ASSUME NEW n \in 1 .. N, NEW y \in Good[n - 1]
                 PROVE  h[<<n, y>>] \in Good[n]
      OBVIOUS
    <3>1. n - 1 \in 0 .. N /\ n \in 0 .. N
      BY <1>2
    <3>2. y \in SUBSET At(n - 1)
      BY <3>1
    <3>3. h[<<n, y>>] = Image(n, y)
      BY <1>5, <3>1, <3>2
    <3> HIDE DEF h, Image
    <3> QED
      BY <1>4, <3>1, <3>2, <3>3
  <2>3. \A n \in 0 .. N : f[n] \in Good[n]
    <3> HIDE DEF Good, h
    <3> QED
      BY <1>2, <1>6, <2>1, <2>2, RecursionStays
  <2> QED
    BY <2>3
<1>8. merged = Steps(merged)
  <2>1. \A n \in 0 .. N : n # 0 => n \in 1 .. N /\ n - 1 \in 0 .. N
    BY <1>2
  <2>2. \A n \in 0 .. N : n # 0 => n \in 1 .. N /\ f[n - 1] \in SUBSET GraphType
    BY <1>5, <1>7, <2>1
  <2>3. \A n \in 0 .. N : n # 0 => h[<<n, f[n - 1]>>] = Image(n, f[n - 1])
    BY <2>2
  <2>4. Recursion(N, {G}, h, f) = Steps(f)
    <3> HIDE DEF h
    <3> QED
      BY <2>3 DEF Recursion
  <2>5. f = Steps(f)
    BY <1>6, <2>4
  <2> HIDE DEF Steps
  <2> QED
    BY <2>5
<1> HIDE DEF merged
<1>9. \A n \in 0 .. N : merged[n] \in SUBSET At(n)
  <2>1. merged[0] \in Good[0]
    BY <1>2, <1>3, <1>8
  <2>2. \A n \in 1 .. N : merged[n - 1] \in Good[n - 1] => merged[n] \in Good[n]
    <3> SUFFICES ASSUME NEW n \in 1 .. N, merged[n - 1] \in Good[n - 1]
                 PROVE  merged[n] \in Good[n]
      OBVIOUS
    <3>1. n - 1 \in 0 .. N /\ n \in 0 .. N /\ n # 0
      BY <1>2
    <3>2. merged[n - 1] \in SUBSET At(n - 1)
      BY <3>1
    <3>3. merged[n] = Image(n, merged[n - 1])
      BY <1>8, <3>1
    <3> HIDE DEF Image
    <3> QED
      BY <1>4, <3>1, <3>2, <3>3
  <2>3. \A n \in 0 .. N : merged[n] \in Good[n]
    <3> HIDE DEF Good
    <3> QED
      BY <1>2, <2>1, <2>2, StaysGood
  <2> QED
    BY <2>3
<1>10. N \in 0 .. N
  BY <1>2
<1> QED
  BY <1>1, <1>9, <1>10 DEF At, N

-----------------------------------------------------------------------------
(* Erasing the second operations. *)

\* The others are at no position, or past their vector.
PastVector(x) ==
  \A o \in Op : o \notin Range(x.order[link[o]]) =>
    x.position[o] = Unset \/ x.position[o] >= Len(x.order[link[o]])

LEMMA RemovedVector ==
  ASSUME NEW V, NEW list \in Seq(V), NEW i \in 1 .. Len(list)
  PROVE  /\ RemoveAt(list, i) \in Seq(V)
         /\ Len(RemoveAt(list, i)) = Len(list) - 1
         /\ \A k \in 1 .. Len(list) - 1 :
              RemoveAt(list, i)[k] = IF k < i THEN list[k] ELSE list[k + 1]
<1> DEFINE a == SubSeq(list, 1, i - 1)
           b == SubSeq(list, i + 1, Len(list))
<1>1. /\ Len(list) \in Nat /\ \A k \in 1 .. Len(list) : list[k] \in V
      /\ i \in Nat /\ i <= Len(list) /\ 1 <= i
  BY LenProperties
<1>2. /\ a \in Seq(V) /\ Len(a) = i - 1
      /\ \A k \in 1 .. i - 1 : a[k] = list[k]
  <2>1. \A k \in 1 .. i - 1 : list[k] \in V
    BY <1>1
  <2>2. /\ a \in Seq(V) /\ Len(a) = IF 1 <= i - 1 THEN (i - 1) - 1 + 1 ELSE 0
        /\ \A k \in 1 .. (i - 1) - 1 + 1 : a[k] = list[1 + k - 1]
    BY <1>1, <2>1, SubSeqProperties
  <2> HIDE DEF a
  <2> QED
    BY <1>1, <2>2
<1>3. /\ b \in Seq(V) /\ Len(b) = Len(list) - i
      /\ \A k \in 1 .. Len(list) - i : b[k] = list[i + k]
  <2>1. \A k \in i + 1 .. Len(list) : list[k] \in V
    BY <1>1
  <2>2. /\ b \in Seq(V) /\ Len(b) = IF i + 1 <= Len(list) THEN Len(list) - (i + 1) + 1 ELSE 0
        /\ \A k \in 1 .. Len(list) - (i + 1) + 1 : b[k] = list[(i + 1) + k - 1]
    BY <1>1, <2>1, SubSeqProperties
  <2> HIDE DEF b
  <2>3. \A k \in 1 .. Len(list) - i : k \in 1 .. Len(list) - (i + 1) + 1 /\ (i + 1) + k - 1 = i + k
    BY <1>1
  <2> QED
    BY <1>1, <2>2, <2>3
<1>4. RemoveAt(list, i) = a \o b
  BY DEF RemoveAt
<1> HIDE DEF a, b
<1>5. /\ a \o b \in Seq(V) /\ Len(a \o b) = Len(a) + Len(b)
      /\ \A k \in 1 .. Len(a) + Len(b) : (a \o b)[k] = IF k <= Len(a) THEN a[k] ELSE b[k - Len(a)]
  BY <1>2, <1>3, ConcatProperties
<1>6. ASSUME NEW k \in 1 .. Len(list) - 1
      PROVE  (a \o b)[k] = IF k < i THEN list[k] ELSE list[k + 1]
  <2>1. k \in Nat /\ k \in 1 .. Len(a) + Len(b)
    BY <1>1, <1>2, <1>3
  <2>2. CASE k < i
    BY <1>1, <1>2, <1>5, <2>1, <2>2
  <2>3. CASE ~(k < i)
    <3>1. k - (i - 1) \in 1 .. Len(list) - i /\ i + (k - (i - 1)) = k + 1 /\ ~(k <= Len(a))
      BY <1>1, <1>2, <2>1, <2>3
    <3>2. (a \o b)[k] = b[k - (i - 1)]
      BY <1>2, <1>5, <2>1, <3>1
    <3> QED
      BY <1>3, <2>3, <3>1, <3>2
  <2> QED
    BY <2>2, <2>3
<1> QED
  BY <1>1, <1>2, <1>3, <1>4, <1>5, <1>6

LEMMA ErasedPair ==
  ASSUME NEW m \in GraphType, Placed(m), PastVector(m), NEW pair \in Op \X Op,
         Present(m, pair[2])
  PROVE  /\ ErasePair(m, pair) \in GraphType
         /\ Placed(ErasePair(m, pair))
         /\ PastVector(ErasePair(m, pair))
         /\ ErasePair(m, pair).route_pred = m.route_pred
         /\ ErasePair(m, pair).route_succ = m.route_succ
         /\ ErasePair(m, pair).frames = m.frames
         /\ \A q \in Op : Present(ErasePair(m, pair), q) <=> Present(m, q) /\ q # pair[2]
<1> DEFINE o == pair[2]
           l == link[o]
           list == m.order[l]
           pos == m.position[o]
           later == {list[i] : i \in pos + 1 .. Len(list)}
           left == RemoveAt(list, pos + 1)
           order2 == [m.order EXCEPT ![l] = left]
           position2 == [q \in Op |-> CASE q = o -> Len(left)
                                        [] q \in later \ {o} -> m.position[q] - 1
                                        [] OTHER -> m.position[q]]
           x == [m EXCEPT !.order = order2, !.position = position2]
<1>1. /\ m.order \in [Link -> Seq(Op)] /\ m.position \in [Op -> Int] /\ m.link = link
      /\ OpsOf(m) = Op
  BY DEF GraphType, OpsOf
<1>2. ErasePair(m, pair) = x
  BY <1>1 DEF ErasePair
<1>3. /\ o \in Op /\ o \in Range(list) /\ l \in Link /\ list \in Seq(Op) /\ Len(list) \in Nat
      /\ pos \in 0 .. Len(list) - 1 /\ pos + 1 \in 1 .. Len(list) /\ list[pos + 1] = o
      /\ \A q \in Op : link[q] \in Link
  <2>1. o \in Op /\ o \in Range(list)
    BY <1>1 DEF Present, OnLink
  <2>2. \A q \in Op : link[q] \in Link
    BY OperationAssumption
  <2>3. list \in Seq(Op)
    BY <1>1, <2>1, <2>2
  <2> QED
    BY <2>1, <2>2, <2>3, WhereItStands
<1>4. \A i \in 1 .. Len(list) : list[i] \in Op /\ link[list[i]] = l /\ m.position[list[i]] = i - 1
  <2>1. \A i \in 1 .. Len(list) : list[i] \in Op
    BY <1>3, LenProperties
  <2>2. \A i \in 1 .. Len(m.order[l]) : link[m.order[l][i]] = l /\ m.position[m.order[l][i]] = i - 1
    <3> HIDE DEF l
    <3> QED
      BY <1>3 DEF Placed
  <2> QED
    BY <2>1, <2>2
<1>5. /\ left \in Seq(Op) /\ Len(left) = Len(list) - 1
      /\ \A k \in 1 .. Len(list) - 1 : left[k] = IF k < pos + 1 THEN list[k] ELSE list[k + 1]
  BY <1>3, RemovedVector
<1>6. \A q \in later : q \in Op /\ link[q] = l /\ m.position[q] >= pos /\ q \in Range(list)
  <2>1. \A i \in pos + 1 .. Len(list) : i \in 1 .. Len(list) /\ i - 1 >= pos
    BY <1>3
  <2>2. Range(list) = {list[i] : i \in 1 .. Len(list)}
    BY <1>3, RangeEquality
  <2> QED
    BY <1>4, <2>1, <2>2
<1>7. \A i \in pos + 1 .. Len(list) : list[i] \in later
  OBVIOUS
<1> HIDE DEF later, left, l, list, pos, o
<1>8. /\ \A q \in Op : q = o => position2[q] = Len(left)
      /\ \A q \in Op : q # o /\ q \in later => position2[q] = m.position[q] - 1
      /\ \A q \in Op : q # o /\ q \notin later => position2[q] = m.position[q]
      /\ position2 \in [Op -> Int]
  <2>1. /\ \A q \in Op : q = o => position2[q] = Len(left)
        /\ \A q \in Op : q # o /\ q \in later => position2[q] = m.position[q] - 1
        /\ \A q \in Op : q # o /\ q \notin later => position2[q] = m.position[q]
    OBVIOUS
  <2>2. \A q \in Op : m.position[q] \in Int /\ Len(left) \in Int
    BY <1>1, <1>3, <1>5
  <2>3. \A q \in Op : position2[q] \in Int
    BY <2>1, <2>2
  <2> QED
    BY <2>1, <2>3
<1>9. /\ order2 \in [Link -> Seq(Op)] /\ order2[l] = left
      /\ \A n \in Link : n # l => order2[n] = m.order[n]
  BY <1>1, <1>3, <1>5
<1> HIDE DEF order2, position2
<1>10. /\ x \in GraphType /\ x.order = order2 /\ x.position = position2
       /\ x.route_pred = m.route_pred /\ x.route_succ = m.route_succ /\ x.frames = m.frames
       /\ x.link = link
  BY <1>8, <1>9 DEF GraphType
<1> HIDE DEF x
<1>11. ASSUME NEW k \in 1 .. Len(left)
       PROVE  link[left[k]] = l /\ position2[left[k]] = k - 1
  <2>1. k \in Nat /\ k \in 1 .. Len(list) - 1 /\ k \in 1 .. Len(list) /\ k + 1 \in 1 .. Len(list)
    BY <1>3, <1>5
  <2>2. CASE k < pos + 1
    <3>1. left[k] = list[k] /\ m.position[list[k]] = k - 1 /\ list[k] \in Op /\ link[list[k]] = l
      BY <1>4, <1>5, <2>1, <2>2
    <3>2. list[k] # o /\ list[k] \notin later
      BY <1>3, <1>6, <2>1, <2>2, <3>1 DEF pos
    <3> QED
      BY <1>8, <3>1, <3>2
  <2>3. CASE ~(k < pos + 1)
    <3>1. left[k] = list[k + 1] /\ m.position[list[k + 1]] = (k + 1) - 1
          /\ list[k + 1] \in Op /\ link[list[k + 1]] = l
      BY <1>4, <1>5, <2>1, <2>3
    <3>2. k + 1 \in pos + 1 .. Len(list) /\ k # pos
      BY <1>3, <2>1, <2>3
    <3>3. list[k + 1] # o /\ list[k + 1] \in later
      BY <1>3, <1>7, <2>1, <3>1, <3>2 DEF pos
    <3> QED
      BY <1>8, <2>1, <3>1, <3>3
  <2> QED
    BY <2>2, <2>3
<1>12. Placed(x)
  <2>1. ASSUME NEW n \in Link, NEW i \in 1 .. Len(order2[n])
        PROVE  link[order2[n][i]] = n /\ position2[order2[n][i]] = i - 1
    <3>1. CASE n = l
      BY <1>9, <1>11, <2>1, <3>1
    <3>2. CASE n # l
      <4>1. order2[n] = m.order[n] /\ i \in 1 .. Len(m.order[n]) /\ m.order[n] \in Seq(Op)
        BY <1>1, <1>9, <2>1, <3>2
      <4>2. /\ link[m.order[n][i]] = n /\ m.position[m.order[n][i]] = i - 1
            /\ m.order[n][i] \in Op
        BY <4>1, LenProperties DEF Placed
      <4>3. m.order[n][i] # o /\ m.order[n][i] \notin later
        BY <1>6, <3>2, <4>2 DEF l
      <4> QED
        BY <1>8, <4>1, <4>2, <4>3
    <3> QED
      BY <3>1, <3>2
  <2> QED
    BY <1>8, <1>9, <1>10, <2>1 DEF Placed
<1>13. Range(left) = Range(list) \ {o}
  <2>1. /\ Range(list) = {list[i] : i \in 1 .. Len(list)}
        /\ Range(left) = {left[i] : i \in 1 .. Len(left)}
    BY <1>3, <1>5, RangeEquality
  <2>2. ASSUME NEW k \in 1 .. Len(left)
        PROVE  left[k] \in Range(list) /\ left[k] # o
    <3>1. k \in Nat /\ k \in 1 .. Len(list) - 1 /\ k \in 1 .. Len(list) /\ k + 1 \in 1 .. Len(list)
      BY <1>3, <1>5
    <3>2. CASE k < pos + 1
      <4>1. left[k] = list[k] /\ m.position[list[k]] = k - 1
        BY <1>4, <1>5, <3>1, <3>2
      <4>2. k - 1 # pos
        BY <1>3, <3>1, <3>2
      <4> QED
        BY <2>1, <3>1, <4>1, <4>2 DEF pos
    <3>3. CASE ~(k < pos + 1)
      <4>1. left[k] = list[k + 1] /\ m.position[list[k + 1]] = (k + 1) - 1
        BY <1>4, <1>5, <3>1, <3>3
      <4>2. (k + 1) - 1 # pos
        BY <1>3, <3>1, <3>3
      <4> QED
        BY <2>1, <3>1, <4>1, <4>2 DEF pos
    <3> QED
      BY <3>2, <3>3
  <2>3. ASSUME NEW i \in 1 .. Len(list), list[i] # o
        PROVE  \E k \in 1 .. Len(left) : left[k] = list[i]
    <3>1. i # pos + 1 /\ i \in Nat
      BY <1>3, <2>3
    <3>2. CASE i < pos + 1
      <4>1. i \in 1 .. Len(left) /\ i \in 1 .. Len(list) - 1
        BY <1>3, <1>5, <3>1, <3>2
      <4> QED
        BY <1>5, <3>2, <4>1
    <3>3. CASE i > pos + 1
      <4>1. i - 1 \in 1 .. Len(left) /\ i - 1 \in 1 .. Len(list) - 1 /\ ~(i - 1 < pos + 1)
            /\ (i - 1) + 1 = i
        BY <1>3, <1>5, <3>1, <3>3
      <4>2. left[i - 1] = list[i]
        BY <1>5, <4>1
      <4> QED
        BY <4>1, <4>2
    <3> QED
      BY <1>3, <3>1, <3>2, <3>3
  <2> QED
    BY <2>1, <2>2, <2>3
<1>14. \A q \in Op : q \in Range(order2[link[q]]) <=> q \in Range(m.order[link[q]]) /\ q # o
  <2> SUFFICES ASSUME NEW q \in Op
               PROVE  q \in Range(order2[link[q]]) <=> q \in Range(m.order[link[q]]) /\ q # o
    OBVIOUS
  <2>1. CASE link[q] = l
    BY <1>9, <1>13, <2>1 DEF list
  <2>2. CASE link[q] # l
    BY <1>3, <1>9, <2>2 DEF l
  <2> QED
    BY <2>1, <2>2
<1>15. PastVector(x)
  <2> SUFFICES ASSUME NEW q \in Op, q \notin Range(order2[link[q]])
               PROVE  position2[q] = Unset \/ position2[q] >= Len(order2[link[q]])
    BY <1>10 DEF PastVector
  <2>1. CASE q = o
    BY <1>3, <1>5, <1>8, <1>9, <2>1 DEF l
  <2>2. CASE q # o
    <3>1. q \notin Range(m.order[link[q]])
      BY <1>14, <2>2
    <3>2. q \notin later
      BY <1>6, <3>1 DEF list
    <3>3. position2[q] = m.position[q] /\ m.position[q] \in Int
      BY <1>1, <1>8, <2>2, <3>2
    <3>4. m.position[q] = Unset \/ m.position[q] >= Len(m.order[link[q]])
      BY <3>1 DEF PastVector
    <3>5. Len(m.order[link[q]]) \in Nat /\ Len(order2[link[q]]) \in Nat
          /\ Len(m.order[link[q]]) >= Len(order2[link[q]])
      <4>1. CASE link[q] = l
        BY <1>3, <1>5, <1>9, <4>1 DEF list
      <4>2. CASE link[q] # l
        BY <1>1, <1>3, <1>9, <4>2, LenProperties
      <4> QED
        BY <4>1, <4>2
    <3> QED
      BY <3>3, <3>4, <3>5
  <2> QED
    BY <2>1, <2>2
<1>16. \A q \in Op : Present(x, q) <=> Present(m, q) /\ q # o
  BY <1>1, <1>10, <1>14 DEF Present, OnLink
<1> QED
  BY <1>2, <1>10, <1>12, <1>15, <1>16 DEF o

\* The graphs that the seconds of k pairs have been erased in.
EraseStates(G, pairs, k) ==
  {x \in GraphType :
     /\ Placed(x) /\ PastVector(x)
     /\ x.route_pred = G.route_pred /\ x.route_succ = G.route_succ /\ x.frames = G.frames
     /\ \A q \in Op : Present(x, q) <=> Present(G, q) /\ \A i \in 1 .. k : q # pairs[i][2]}

LEMMA EraseGoesOn ==
  ASSUME NEW G \in GraphType, NEW pairs, Matching(pairs),
         \A i \in 1 .. Len(pairs) : Present(G, pairs[i][2]),
         NEW k \in 1 .. Len(pairs), NEW m \in EraseStates(G, pairs, k - 1)
  PROVE  ErasePair(m, pairs[k]) \in EraseStates(G, pairs, k)
<1> DEFINE x == ErasePair(m, pairs[k])
<1>1. /\ m \in GraphType /\ Placed(m) /\ PastVector(m)
      /\ m.route_pred = G.route_pred /\ m.route_succ = G.route_succ /\ m.frames = G.frames
      /\ \A q \in Op : Present(m, q) <=> Present(G, q) /\ \A i \in 1 .. k - 1 : q # pairs[i][2]
  BY DEF EraseStates
<1>2. Len(pairs) \in Nat /\ pairs[k] \in Op \X Op /\ pairs[k][2] \in Op
  <2>1. pairs \in Seq(Op \X Op)
    BY DEF Matching
  <2> QED
    BY <2>1, LenProperties
<1>3. /\ \A i \in 1 .. k - 1 : i \in 1 .. Len(pairs) /\ i \in 1 .. k /\ i # k
      /\ \A i \in 1 .. k : i = k \/ i \in 1 .. k - 1
      /\ k \in 1 .. k
  BY <1>2
<1>4. \A i \in 1 .. k - 1 : pairs[k][2] # pairs[i][2]
  BY <1>3, PairsOfMatching
<1>5. Present(m, pairs[k][2])
  BY <1>1, <1>2, <1>4
<1>6. /\ x \in GraphType /\ Placed(x) /\ PastVector(x)
      /\ x.route_pred = m.route_pred /\ x.route_succ = m.route_succ /\ x.frames = m.frames
      /\ \A q \in Op : Present(x, q) <=> Present(m, q) /\ q # pairs[k][2]
  BY <1>1, <1>2, <1>5, ErasedPair
<1> HIDE DEF x
<1>7. \A q \in Op : Present(x, q) <=> Present(G, q) /\ \A i \in 1 .. k : q # pairs[i][2]
  BY <1>1, <1>3, <1>6
<1> QED
  BY <1>1, <1>6, <1>7 DEF EraseStates, x

LEMMA ErasePairsErases ==
  ASSUME NEW G \in GraphType, Placed(G), PastVector(G), NEW pairs, Matching(pairs),
         \A i \in 1 .. Len(pairs) : Present(G, pairs[i][2]),
         NEW x \in ErasePairs(pairs, G)
  PROVE  x \in EraseStates(G, pairs, Len(pairs))
<1> DEFINE N == Len(pairs)
           At(n) == EraseStates(G, pairs, n)
           Image(n, y) == {ErasePair(m, pairs[n]) : m \in y}
           h == [p \in (1 .. N) \X SUBSET GraphType |-> Image(p[1], p[2])]
           Good == [n \in 0 .. N |-> SUBSET At(n)]
           Steps(f) == [n \in 0 .. N |-> IF n = 0 THEN {G}
                                         ELSE {ErasePair(m, pairs[n]) : m \in f[n - 1]}]
           erased == CHOOSE f : f = Steps(f)
<1>1. ErasePairs(pairs, G) = erased[N]
  BY DEF ErasePairs
<1>2. N \in Nat
  BY PairsOfMatching
<1>3. G \in At(0)
  BY DEF EraseStates
<1>4. \A n \in 1 .. N : \A y \in SUBSET At(n - 1) : Image(n, y) \in SUBSET At(n)
  BY EraseGoesOn
<1>5. \A n : At(n) \subseteq GraphType
  BY DEF EraseStates
<1> HIDE DEF At, N
<1>6. PICK f : f = Recursion(N, {G}, h, f)
  BY <1>2, RecursionExists
<1>7. \A n \in 0 .. N : f[n] \in SUBSET At(n)
  <2>1. {G} \in Good[0]
    BY <1>2, <1>3
  <2>2. \A n \in 1 .. N : \A y \in Good[n - 1] : h[<<n, y>>] \in Good[n]
    <3> SUFFICES ASSUME NEW n \in 1 .. N, NEW y \in Good[n - 1]
                 PROVE  h[<<n, y>>] \in Good[n]
      OBVIOUS
    <3>1. n - 1 \in 0 .. N /\ n \in 0 .. N
      BY <1>2
    <3>2. y \in SUBSET At(n - 1)
      BY <3>1
    <3>3. h[<<n, y>>] = Image(n, y)
      BY <1>5, <3>1, <3>2
    <3> HIDE DEF h, Image
    <3> QED
      BY <1>4, <3>1, <3>2, <3>3
  <2>3. \A n \in 0 .. N : f[n] \in Good[n]
    <3> HIDE DEF Good, h
    <3> QED
      BY <1>2, <1>6, <2>1, <2>2, RecursionStays
  <2> QED
    BY <2>3
<1>8. erased = Steps(erased)
  <2>1. \A n \in 0 .. N : n # 0 => n \in 1 .. N /\ n - 1 \in 0 .. N
    BY <1>2
  <2>2. \A n \in 0 .. N : n # 0 => n \in 1 .. N /\ f[n - 1] \in SUBSET GraphType
    BY <1>5, <1>7, <2>1
  <2>3. \A n \in 0 .. N : n # 0 => h[<<n, f[n - 1]>>] = Image(n, f[n - 1])
    BY <2>2
  <2>4. Recursion(N, {G}, h, f) = Steps(f)
    <3> HIDE DEF h
    <3> QED
      BY <2>3 DEF Recursion
  <2>5. f = Steps(f)
    BY <1>6, <2>4
  <2> HIDE DEF Steps
  <2> QED
    BY <2>5
<1> HIDE DEF erased
<1>9. \A n \in 0 .. N : erased[n] \in SUBSET At(n)
  <2>1. erased[0] \in Good[0]
    BY <1>2, <1>3, <1>8
  <2>2. \A n \in 1 .. N : erased[n - 1] \in Good[n - 1] => erased[n] \in Good[n]
    <3> SUFFICES ASSUME NEW n \in 1 .. N, erased[n - 1] \in Good[n - 1]
                 PROVE  erased[n] \in Good[n]
      OBVIOUS
    <3>1. n - 1 \in 0 .. N /\ n \in 0 .. N /\ n # 0
      BY <1>2
    <3>2. erased[n - 1] \in SUBSET At(n - 1)
      BY <3>1
    <3>3. erased[n] = Image(n, erased[n - 1])
      BY <1>8, <3>1
    <3> HIDE DEF Image
    <3> QED
      BY <1>4, <3>1, <3>2, <3>3
  <2>3. \A n \in 0 .. N : erased[n] \in Good[n]
    <3> HIDE DEF Good
    <3> QED
      BY <1>2, <2>1, <2>2, StaysGood
  <2> QED
    BY <2>3
<1>10. N \in 0 .. N
  BY <1>2
<1> QED
  BY <1>1, <1>9, <1>10 DEF At, N

-----------------------------------------------------------------------------
(* Merged operations are contracted. *)

\* If the neighbours among the second operations are neighbours among the first
\* ones, the neighbours that merging leaves are the firsts of all neighbours.
LEMMA JoinedNeighbors ==
  ASSUME NEW E, NEW lists, NEW others, NEW pairs, Joinable(E, lists, others, pairs),
         NEW new \in JoinedLists(E, lists, pairs, Len(pairs)),
         \A i, j \in 1 .. Len(pairs) : pairs[j][2] \in Range(lists[pairs[i][2]]) =>
                                         pairs[j][1] \in Range(lists[pairs[i][1]]),
         NEW x \in E \ SecondsOf(pairs), NEW y
  PROVE  y \in Range(new[x]) <=>
           \E x0 \in E : /\ First(pairs, Len(pairs), x0) = x
                         /\ \E y0 \in Range(lists[x0]) : First(pairs, Len(pairs), y0) = y
<1> DEFINE N == Len(pairs)
           F(z) == First(pairs, N, z)
           D == SecondsOf(pairs)
<1>1. /\ Matching(pairs) /\ E \subseteq Node
      /\ \A i \in 1 .. N : pairs[i][1] \in E /\ pairs[i][2] \in E
      /\ \A z \in E : Range(lists[z]) \subseteq E
  BY DEF Joinable
<1>2. Range(new[x]) = Joined(lists, pairs, N, x)
  BY DEF JoinedLists
<1>3. N \in Nat /\ N \in 0 .. N
  BY <1>1, PairsOfMatching
<1>4. /\ \A i \in 1 .. N : F(pairs[i][2]) = pairs[i][1]
      /\ \A z : z \notin D => F(z) = z
      /\ \A z : F(z) = z \/ \E i \in 1 .. N : z = pairs[i][2] /\ F(z) = pairs[i][1]
  BY <1>1, <1>3, FirstOfPair
<1>5. /\ \A z \in D : \E i \in 1 .. N : z = pairs[i][2]
      /\ \A i \in 1 .. N : pairs[i][1] \notin D
  BY <1>1, PairsOfMatching
<1> DEFINE now == {F(z) : z \in Range(lists[x])}
           added == UNION {Range(lists[pairs[i][2]]) \ D : i \in {j \in 1 .. N : pairs[j][1] = x}}
<1>6. Range(new[x]) = now \cup added
  BY <1>2 DEF Joined
<1> HIDE DEF N, F, D
<1>7. ASSUME y \in now \cup added
      PROVE  \E x0 \in E : F(x0) = x /\ \E y0 \in Range(lists[x0]) : F(y0) = y
  <2>1. CASE y \in now
    BY <1>4, <2>1 DEF D
  <2>2. CASE y \in added
    <3>1. PICK i \in 1 .. N : pairs[i][1] = x /\ y \in Range(lists[pairs[i][2]]) /\ y \notin D
      BY <2>2
    <3> QED
      BY <1>1, <1>4, <3>1
  <2> QED
    BY <1>7, <2>1, <2>2
<1>8. ASSUME NEW x0 \in E, F(x0) = x, NEW y0 \in Range(lists[x0]), F(y0) = y
      PROVE  y \in now \cup added
  <2>1. CASE x0 = x
    BY <1>8, <2>1
  <2>2. CASE x0 # x
    <3>1. PICK i \in 1 .. N : x0 = pairs[i][2] /\ x = pairs[i][1]
      BY <1>4, <1>8, <2>2
    <3>2. CASE y0 \notin D
      <4>1. y = y0
        BY <1>4, <1>8, <3>2
      <4> QED
        BY <1>8, <3>1, <3>2, <4>1
    <3>3. CASE y0 \in D
      <4>1. PICK j \in 1 .. N : y0 = pairs[j][2]
        BY <1>5, <3>3
      <4>2. y = pairs[j][1] /\ F(pairs[j][1]) = pairs[j][1]
        BY <1>4, <1>5, <1>8, <4>1
      <4>3. pairs[j][1] \in Range(lists[pairs[i][1]])
        BY <1>8, <3>1, <4>1 DEF N
      <4> QED
        BY <3>1, <4>2, <4>3
    <3> QED
      BY <3>2, <3>3
  <2> QED
    BY <2>1, <2>2
<1> HIDE DEF now, added
<1> QED
  BY <1>6, <1>7, <1>8 DEF F, N

\* In G, c[p] stands for the operation p of the initial graph.
Contracts(G, c) ==
  /\ c \in [Node -> Node]
  /\ \A p \in Node : IsTerminal(p) => c[p] = p
  /\ \A p \in Op : c[p] \in Op /\ Present(G, c[p]) /\ link[c[p]] = link[p]
  /\ \A o \in Op : Present(G, o) => c[o] = o
  /\ \A o \in Op : ~Present(G, o) => G.frames[o] = {}
  /\ \A o \in Op : \A f : Present(G, o) =>
       (f \in G.frames[o] <=> \E p \in Op : c[p] = o /\ f \in InitialFrames[p])
  /\ \A x \in Existing(G) : \A y : y \in Range(G.route_pred[x]) <=>
       \E p, q \in Node : c[p] = x /\ c[q] = y /\ q \in Range(InitialPred[p])
  /\ \A x \in Existing(G) : \A y : y \in Range(G.route_succ[x]) <=>
       \E p, q \in Node : c[p] = x /\ c[q] = y /\ q \in Range(InitialSucc[p])

ListsApart(G) ==
  \A o \in Op : Present(G, o) => Apart(G.route_pred[o]) /\ Apart(G.route_succ[o])

\* What is known of the initial job edges.
LEMMA InitialRoutes ==
  /\ InitialPred \in [Node -> Seq(Node)] /\ InitialSucc \in [Node -> Seq(Node)]
  /\ \A x, y \in Node : y \in Range(InitialPred[x]) <=> x \in Range(InitialSucc[y])
  /\ \A o \in Op : /\ Apart(InitialPred[o]) /\ Apart(InitialSucc[o])
                   /\ \A x \in Range(InitialPred[o]) \cup Range(InitialSucc[o]) :
                        ~IsTerminal(x) => link[x] # link[o]
<1>1. /\ InitialPred \in [Node -> Seq(Node)] /\ InitialSucc \in [Node -> Seq(Node)]
      /\ \A x, y \in Node : y \in Range(InitialPred[x]) <=> x \in Range(InitialSucc[y])
      /\ \A o \in Op : NeighborsAreApart(o, InitialPred[o]) /\ NeighborsAreApart(o, InitialSucc[o])
  BY RouteAssumption DEF Node
<1>2. ASSUME NEW o \in Op, NEW list \in Seq(Node), NeighborsAreApart(o, list)
      PROVE  Apart(list) /\ \A x \in Range(list) : ~IsTerminal(x) => link[x] # link[o]
  <2>1. DOMAIN list = 1 .. Len(list) /\ Range(list) = {list[i] : i \in 1 .. Len(list)}
    BY LenProperties, RangeEquality
  <2> QED
    BY <1>2, <2>1 DEF NeighborsAreApart, Apart
<1>3. \A o \in Op : InitialPred[o] \in Seq(Node) /\ InitialSucc[o] \in Seq(Node)
  BY <1>1 DEF Node
<1> QED
  BY <1>1, <1>2, <1>3

LEMMA ContractedIsLinked ==
  ASSUME NEW G \in GraphType, NEW c, Contracts(G, c), ListsApart(G)
  PROVE  Linked(G)
<1>1. /\ c \in [Node -> Node]
      /\ \A p \in Node : IsTerminal(p) => c[p] = p
      /\ \A p \in Op : c[p] \in Op /\ Present(G, c[p]) /\ link[c[p]] = link[p]
      /\ \A o \in Op : Present(G, o) => c[o] = o
  BY DEF Contracts
<1>2. /\ \A x \in Existing(G) : \A y : y \in Range(G.route_pred[x]) <=>
           \E p, q \in Node : c[p] = x /\ c[q] = y /\ q \in Range(InitialPred[p])
      /\ \A x \in Existing(G) : \A y : y \in Range(G.route_succ[x]) <=>
           \E p, q \in Node : c[p] = x /\ c[q] = y /\ q \in Range(InitialSucc[p])
  BY DEF Contracts
<1>3. /\ \A p \in Node : p \in Op \/ IsTerminal(p)
      /\ \A p \in Op : ~IsTerminal(p) /\ p \in Node
  BY OperationAssumption DEF Node, IsTerminal
<1>4. \A p \in Node : c[p] \in Existing(G)
  BY <1>1, <1>3 DEF Existing, IsTerminal
<1>5. NeighborsExist(G)
  BY <1>2, <1>4 DEF NeighborsExist
<1>6. NeighborsAgree(G)
  <2>1. \A x, y \in Node : y \in Range(InitialPred[x]) <=> x \in Range(InitialSucc[y])
    BY InitialRoutes
  <2> QED
    BY <1>2, <2>1 DEF NeighborsAgree
<1>7. ASSUME NEW o \in Op, Present(G, o),
             NEW x \in Range(G.route_pred[o]) \cup Range(G.route_succ[o]), ~IsTerminal(x)
      PROVE  link[x] # link[o]
  <2>1. o \in Existing(G)
    BY <1>7 DEF Existing
  <2>2. PICK p, q \in Node : /\ c[p] = o /\ c[q] = x
                             /\ q \in Range(InitialPred[p]) \cup Range(InitialSucc[p])
    BY <1>2, <1>7, <2>1
  <2>3. p \in Op /\ q \in Op
    BY <1>1, <1>3, <1>7, <2>2
  <2>4. link[q] # link[p]
    BY <1>3, <2>2, <2>3, InitialRoutes
  <2> QED
    BY <1>1, <2>2, <2>3, <2>4
<1>8. NeighborsApart(G)
  BY <1>7 DEF NeighborsApart, ListsApart
<1> QED
  BY <1>5, <1>6, <1>8 DEF Linked

\* Operations of one link transmit different frames.
LEMMA FramesOfTwo ==
  /\ \A o \in Op : \E f : InitialFrames[o] = {f}
  /\ \A o, q \in Op : link[o] = link[q] /\ InitialFrames[o] \cap InitialFrames[q] # {} => o = q
<1>1. \A o \in Op : \E f : InitialFrames[o] = {f}
  BY FrameAssumption, FS_Singleton
<1>2. ASSUME NEW o \in Op, NEW q \in Op, link[o] = link[q],
             InitialFrames[o] \cap InitialFrames[q] # {}
      PROVE  o = q
  <2>1. InitialFrames[o] = InitialFrames[q]
    BY <1>1, <1>2
  <2> QED
    BY <1>2, <2>1, FrameAssumption
<1> QED
  BY <1>1, <1>2

LEMMA TwinsAreDisjoint ==
  ASSUME NEW G \in GraphType, NEW c, Contracts(G, c), NEW pair \in Twins(G)
  PROVE  G.frames[pair[1]] \cap G.frames[pair[2]] = {}
<1>1. /\ pair[1] \in Op /\ pair[2] \in Op /\ pair[1] # pair[2]
      /\ Present(G, pair[1]) /\ Present(G, pair[2]) /\ link[pair[1]] = link[pair[2]]
  BY DEF Twins
<1>2. /\ \A p \in Op : c[p] \in Op /\ link[c[p]] = link[p]
      /\ \A o \in Op : \A f : Present(G, o) =>
           (f \in G.frames[o] <=> \E p \in Op : c[p] = o /\ f \in InitialFrames[p])
  BY DEF Contracts
<1> SUFFICES ASSUME NEW f \in G.frames[pair[1]] \cap G.frames[pair[2]]
             PROVE  FALSE
  OBVIOUS
<1>3. PICK p \in Op : c[p] = pair[1] /\ f \in InitialFrames[p]
  BY <1>1, <1>2
<1>4. PICK q \in Op : c[q] = pair[2] /\ f \in InitialFrames[q]
  BY <1>1, <1>2
<1>5. link[p] = link[q]
  BY <1>1, <1>2, <1>3, <1>4
<1>6. p = q
  BY <1>3, <1>4, <1>5, FramesOfTwo
<1> QED
  BY <1>1, <1>3, <1>4, <1>6

\* What is asked of the pairs of a merge: they are closed and apart, and
\* neighbours among the seconds are neighbours among the firsts.
Joins(G, pairs) ==
  /\ pairs \in Seq(Twins(G))
  /\ Matching(pairs)
  /\ \A pair \in Range(pairs) : Related(G, pair) \subseteq Range(pairs)
  /\ \A i, j \in 1 .. Len(pairs) :
       /\ pairs[j][2] \in Range(G.route_pred[pairs[i][2]]) => pairs[j][1] \in Range(G.route_pred[pairs[i][1]])
       /\ pairs[j][2] \in Range(G.route_succ[pairs[i][2]]) => pairs[j][1] \in Range(G.route_succ[pairs[i][1]])

\* c after the pairs have been merged.
Contraction(c, pairs) == [p \in Node |-> First(pairs, Len(pairs), c[p])]

LEMMA MergeContracts ==
  ASSUME NEW G \in GraphType, NEW c, Contracts(G, c), ListsApart(G),
         NEW pairs, Joins(G, pairs),
         NEW m \in MergeStates(G, pairs, Len(pairs)),
         NEW H \in EraseStates(m, pairs, Len(pairs))
  PROVE  Contracts(H, Contraction(c, pairs)) /\ ListsApart(H)
<1> DEFINE N == Len(pairs)
           F(z) == First(pairs, N, z)
           D == SecondsOf(pairs)
           E == Existing(G)
           d == Contraction(c, pairs)
<1>1. /\ Linked(G) /\ Matching(pairs) /\ MayMerge(G, pairs)
      /\ Joinable(E, G.route_pred, G.route_succ, pairs)
      /\ Joinable(E, G.route_succ, G.route_pred, pairs)
  <2>1. Linked(G)
    BY ContractedIsLinked
  <2>2. \A pair \in Twins(G) : G.frames[pair[1]] \cap G.frames[pair[2]] = {}
    BY TwinsAreDisjoint
  <2>3. MayMerge(G, pairs)
    BY <2>1, <2>2, ClosedPairsMayMerge DEF Joins
  <2> QED
    BY <2>1, <2>3 DEF Joins, MayMerge
<1>2. /\ N \in Nat /\ N \in 0 .. N
      /\ \A i \in 1 .. N : /\ pairs[i][1] \in Op /\ pairs[i][2] \in Op
                           /\ link[pairs[i][1]] = link[pairs[i][2]]
                           /\ pairs[i][2] \in D /\ pairs[i][1] \notin D
      /\ \A z \in D : \E i \in 1 .. N : z = pairs[i][2]
  BY <1>1, PairsOfMatching
<1>3. \A i \in 1 .. N : Present(G, pairs[i][1]) /\ Present(G, pairs[i][2])
  <2>1. \A i \in 1 .. N : pairs[i] \in Twins(G)
    BY LenProperties DEF Joins
  <2> QED
    BY <2>1 DEF Twins
<1>4. /\ \A i \in 1 .. N : F(pairs[i][2]) = pairs[i][1]
      /\ \A z : z \notin D => F(z) = z
      /\ \A z : F(z) = z \/ \E i \in 1 .. N : z = pairs[i][2] /\ F(z) = pairs[i][1]
      /\ \A z \in Op : F(z) \in Op /\ link[F(z)] = link[z]
  BY <1>1, <1>2, FirstOfPair
<1>5. \A z \in Node : F(z) \in Node /\ (IsTerminal(F(z)) <=> IsTerminal(z))
  BY <1>1, <1>2, FirstOfNode
<1>6. /\ H.route_pred = m.route_pred /\ H.route_succ = m.route_succ /\ H.frames = m.frames
      /\ \A q \in Op : Present(H, q) <=> Present(m, q) /\ \A i \in 1 .. N : q # pairs[i][2]
  BY DEF EraseStates
<1>7. /\ m.route_pred \in JoinedLists(E, G.route_pred, pairs, N)
      /\ m.route_succ \in JoinedLists(E, G.route_succ, pairs, N)
      /\ \A q \in Op : Present(m, q) <=> Present(G, q)
  BY DEF MergeStates, Present, OnLink, GraphType
<1>8. \A q \in Op : Present(H, q) <=> Present(G, q) /\ q \notin D
  <2> HIDE DEF D, N
  <2> QED
    BY <1>2, <1>6, <1>7
<1>9. /\ \A p \in Op : ~IsTerminal(p) /\ p \in Node
      /\ \A p \in Node : p \in Op \/ IsTerminal(p)
      /\ SOURCE_ID \in Node /\ SINK_ID \in Node
  BY OperationAssumption DEF Node, IsTerminal
<1>10. \A x : x \in Existing(H) <=> x \in E /\ x \notin D
  <2>1. D \subseteq Op
    BY <1>2
  <2>2. \A x : IsTerminal(x) => x \notin D
    BY <1>9, <2>1
  <2>3. \A x \in E : (x \in Op /\ Present(G, x)) \/ IsTerminal(x)
    BY DEF Existing, IsTerminal
  <2>4. \A x \in Existing(H) : (x \in Op /\ Present(H, x)) \/ IsTerminal(x)
    BY DEF Existing, IsTerminal
  <2>5. \A x : IsTerminal(x) => x \in E /\ x \in Existing(H)
    BY DEF Existing, IsTerminal
  <2>6. /\ \A x \in Op : Present(G, x) => x \in E
        /\ \A x \in Op : Present(H, x) => x \in Existing(H)
    BY DEF Existing
  <2> HIDE DEF D, E
  <2> QED
    BY <1>8, <2>2, <2>3, <2>4, <2>5, <2>6
<1> HIDE DEF N, D, E
<1>11. /\ c \in [Node -> Node]
       /\ \A p \in Node : IsTerminal(p) => c[p] = p
       /\ \A p \in Op : c[p] \in Op /\ Present(G, c[p]) /\ link[c[p]] = link[p]
       /\ \A o \in Op : Present(G, o) => c[o] = o
       /\ \A o \in Op : ~Present(G, o) => G.frames[o] = {}
       /\ \A o \in Op : \A f : Present(G, o) =>
            (f \in G.frames[o] <=> \E p \in Op : c[p] = o /\ f \in InitialFrames[p])
  BY DEF Contracts
<1>12. \A p \in Node : d[p] = F(c[p])
  BY DEF Contraction, N
<1>13. d \in [Node -> Node]
  <2>1. d = [p \in Node |-> F(c[p])]
    BY DEF Contraction, N
  <2> HIDE DEF d, F
  <2> QED
    BY <1>5, <1>11, <2>1
<1> HIDE DEF F, d
<1>14. \A p \in Node : IsTerminal(p) => d[p] = p
  <2>1. \A p \in Node : IsTerminal(p) => p \notin D
    BY <1>2, <1>9
  <2> QED
    BY <1>4, <1>11, <1>12, <2>1
<1>15. ASSUME NEW p \in Op
       PROVE  d[p] \in Op /\ Present(H, d[p]) /\ link[d[p]] = link[p]
  <2>1. d[p] = F(c[p]) /\ c[p] \in Op /\ Present(G, c[p]) /\ link[c[p]] = link[p]
    BY <1>9, <1>11, <1>12
  <2>2. F(c[p]) \in Op /\ link[F(c[p])] = link[p]
    BY <1>4, <2>1
  <2>3. Present(G, F(c[p])) /\ F(c[p]) \notin D
    <3>1. CASE c[p] \in D
      BY <1>2, <1>3, <1>4, <3>1 DEF N
    <3>2. CASE c[p] \notin D
      BY <1>4, <2>1, <3>2
    <3> QED
      BY <3>1, <3>2
  <2> QED
    BY <1>8, <2>1, <2>2, <2>3
<1>16. \A o \in Op : Present(H, o) => d[o] = o
  BY <1>4, <1>8, <1>9, <1>11, <1>12
<1>17. /\ \A i \in 1 .. N : /\ m.frames[pairs[i][1]] = G.frames[pairs[i][1]] \cup G.frames[pairs[i][2]]
                            /\ m.frames[pairs[i][2]] = {}
       /\ \A o \in Op : (\A i \in 1 .. N : o # pairs[i][1] /\ o # pairs[i][2]) => m.frames[o] = G.frames[o]
  <2>1. \A i \in 1 .. N : i <= N
    BY <1>2
  <2> QED
    BY <2>1 DEF MergeStates, N
<1>18. \A o \in Op : ~Present(H, o) => H.frames[o] = {}
  <2> SUFFICES ASSUME NEW o \in Op, ~Present(H, o)
               PROVE  m.frames[o] = {}
    BY <1>6
  <2>1. CASE o \in D
    BY <1>2, <1>17, <2>1
  <2>2. CASE o \notin D
    <3>1. ~Present(G, o)
      BY <1>8, <2>2
    <3>2. \A i \in 1 .. N : o # pairs[i][1] /\ o # pairs[i][2]
      BY <1>3, <3>1 DEF N
    <3> QED
      BY <1>11, <1>17, <3>1, <3>2
  <2> QED
    BY <2>1, <2>2
<1>19. ASSUME NEW o \in Op, NEW f, Present(H, o)
       PROVE  f \in H.frames[o] <=> \E p \in Op : d[p] = o /\ f \in InitialFrames[p]
  <2>1. Present(G, o) /\ o \notin D
    BY <1>8, <1>19
  <2>2. \A p \in Op : d[p] = o <=> c[p] = o \/ \E i \in 1 .. N : c[p] = pairs[i][2] /\ o = pairs[i][1]
    <3>1. \A p \in Op : d[p] = F(c[p])
      BY <1>9, <1>12
    <3>2. F(o) = o
      BY <1>4, <2>1
    <3> QED
      BY <1>4, <3>1, <3>2
  <2>3. CASE \E i \in 1 .. N : o = pairs[i][1]
    <3>1. PICK i \in 1 .. N : o = pairs[i][1]
      BY <2>3
    <3>2. H.frames[o] = G.frames[o] \cup G.frames[pairs[i][2]]
      BY <1>6, <1>17, <3>1
    <3>3. \A j \in 1 .. N : o = pairs[j][1] => j = i
      BY <1>1, <3>1, PairsOfMatching DEF N
    <3>4. \A p \in Op : d[p] = o <=> c[p] = o \/ c[p] = pairs[i][2]
      BY <2>2, <3>1, <3>3
    <3>5. f \in G.frames[o] <=> \E p \in Op : c[p] = o /\ f \in InitialFrames[p]
      BY <1>11, <2>1
    <3>6. f \in G.frames[pairs[i][2]] <=> \E p \in Op : c[p] = pairs[i][2] /\ f \in InitialFrames[p]
      BY <1>2, <1>3, <1>11, <3>1 DEF N
    <3> QED
      BY <3>2, <3>4, <3>5, <3>6
  <2>4. CASE \A i \in 1 .. N : o # pairs[i][1]
    <3>1. \A i \in 1 .. N : o # pairs[i][1] /\ o # pairs[i][2]
      BY <1>2, <2>1, <2>4
    <3>2. H.frames[o] = G.frames[o]
      BY <1>6, <1>17, <3>1
    <3>3. \A p \in Op : d[p] = o <=> c[p] = o
      BY <2>2, <2>4
    <3>4. f \in G.frames[o] <=> \E p \in Op : c[p] = o /\ f \in InitialFrames[p]
      BY <1>11, <2>1
    <3> QED
      BY <3>2, <3>3, <3>4
  <2> QED
    BY <2>3, <2>4
<1>20. \A p \in Node : c[p] \in E
  BY <1>9, <1>11 DEF E, Existing, IsTerminal
<1>21. ASSUME NEW x \in Existing(H), NEW y
       PROVE  y \in Range(H.route_pred[x]) <=>
                \E p, q \in Node : d[p] = x /\ d[q] = y /\ q \in Range(InitialPred[p])
  <2>1. x \in E \ D
    BY <1>10
  <2>2. y \in Range(m.route_pred[x]) <=>
           \E x0 \in E : F(x0) = x /\ \E y0 \in Range(G.route_pred[x0]) : F(y0) = y
    <3>1. \A i, j \in 1 .. Len(pairs) : pairs[j][2] \in Range(G.route_pred[pairs[i][2]]) =>
                                          pairs[j][1] \in Range(G.route_pred[pairs[i][1]])
      BY DEF Joins
    <3>2. /\ Joinable(E, G.route_pred, G.route_succ, pairs)
          /\ m.route_pred \in JoinedLists(E, G.route_pred, pairs, Len(pairs))
          /\ x \in E \ SecondsOf(pairs)
      BY <1>1, <1>7, <2>1 DEF N, D
    <3> QED
      BY <3>1, <3>2, JoinedNeighbors, SMTT(30) DEF F, N
  <2>3. \A x0 \in E : \A y0 : y0 \in Range(G.route_pred[x0]) <=>
           \E p, q \in Node : c[p] = x0 /\ c[q] = y0 /\ q \in Range(InitialPred[p])
    BY DEF Contracts, E
  <2>4. ASSUME y \in Range(m.route_pred[x])
        PROVE  \E p, q \in Node : d[p] = x /\ d[q] = y /\ q \in Range(InitialPred[p])
    <3>1. PICK x0 \in E : F(x0) = x /\ \E y0 \in Range(G.route_pred[x0]) : F(y0) = y
      BY <2>2, <2>4
    <3>2. PICK y0 \in Range(G.route_pred[x0]) : F(y0) = y
      BY <3>1
    <3>3. PICK p, q \in Node : c[p] = x0 /\ c[q] = y0 /\ q \in Range(InitialPred[p])
      BY <2>3
    <3> QED
      BY <1>12, <3>1, <3>2, <3>3
  <2>5. ASSUME NEW p \in Node, NEW q \in Node, d[p] = x, d[q] = y, q \in Range(InitialPred[p])
        PROVE  y \in Range(m.route_pred[x])
    <3>1. F(c[p]) = x /\ F(c[q]) = y /\ c[p] \in E
      BY <1>12, <1>20, <2>5
    <3>2. c[q] \in Range(G.route_pred[c[p]])
      BY <2>3, <2>5, <3>1
    <3> QED
      BY <2>2, <3>1, <3>2
  <2> QED
    BY <1>6, <2>4, <2>5
<1>22. ASSUME NEW x \in Existing(H), NEW y
       PROVE  y \in Range(H.route_succ[x]) <=>
                \E p, q \in Node : d[p] = x /\ d[q] = y /\ q \in Range(InitialSucc[p])
  <2>1. x \in E \ D
    BY <1>10
  <2>2. y \in Range(m.route_succ[x]) <=>
           \E x0 \in E : F(x0) = x /\ \E y0 \in Range(G.route_succ[x0]) : F(y0) = y
    <3>1. \A i, j \in 1 .. Len(pairs) : pairs[j][2] \in Range(G.route_succ[pairs[i][2]]) =>
                                          pairs[j][1] \in Range(G.route_succ[pairs[i][1]])
      BY DEF Joins
    <3>2. /\ Joinable(E, G.route_succ, G.route_pred, pairs)
          /\ m.route_succ \in JoinedLists(E, G.route_succ, pairs, Len(pairs))
          /\ x \in E \ SecondsOf(pairs)
      BY <1>1, <1>7, <2>1 DEF N, D
    <3>3. y \in Range(m.route_succ[x]) <=>
             \E x0 \in E : /\ First(pairs, Len(pairs), x0) = x
                           /\ \E y0 \in Range(G.route_succ[x0]) : First(pairs, Len(pairs), y0) = y
      <4> DEFINE lists == G.route_succ
                 others == G.route_pred
                 new == m.route_succ
      <4>1. /\ Joinable(E, lists, others, pairs)
            /\ new \in JoinedLists(E, lists, pairs, Len(pairs))
            /\ \A i, j \in 1 .. Len(pairs) : pairs[j][2] \in Range(lists[pairs[i][2]]) =>
                                              pairs[j][1] \in Range(lists[pairs[i][1]])
        BY <3>1, <3>2
      <4> HIDE DEF lists, others, new
      <4>2. y \in Range(new[x]) <=>
             \E x0 \in E : /\ First(pairs, Len(pairs), x0) = x
                           /\ \E y0 \in Range(lists[x0]) : First(pairs, Len(pairs), y0) = y
        BY <3>2, <4>1, JoinedNeighbors
      <4> QED
        BY <4>2 DEF lists, new
    <3> QED
      BY <3>3 DEF F, N
  <2>3. \A x0 \in E : \A y0 : y0 \in Range(G.route_succ[x0]) <=>
           \E p, q \in Node : c[p] = x0 /\ c[q] = y0 /\ q \in Range(InitialSucc[p])
    BY DEF Contracts, E
  <2>4. ASSUME y \in Range(m.route_succ[x])
        PROVE  \E p, q \in Node : d[p] = x /\ d[q] = y /\ q \in Range(InitialSucc[p])
    <3>1. PICK x0 \in E : F(x0) = x /\ \E y0 \in Range(G.route_succ[x0]) : F(y0) = y
      BY <2>2, <2>4
    <3>2. PICK y0 \in Range(G.route_succ[x0]) : F(y0) = y
      BY <3>1
    <3>3. PICK p, q \in Node : c[p] = x0 /\ c[q] = y0 /\ q \in Range(InitialSucc[p])
      BY <2>3
    <3> QED
      BY <1>12, <3>1, <3>2, <3>3
  <2>5. ASSUME NEW p \in Node, NEW q \in Node, d[p] = x, d[q] = y, q \in Range(InitialSucc[p])
        PROVE  y \in Range(m.route_succ[x])
    <3>1. F(c[p]) = x /\ F(c[q]) = y /\ c[p] \in E
      BY <1>12, <1>20, <2>5
    <3>2. c[q] \in Range(G.route_succ[c[p]])
      BY <2>3, <2>5, <3>1
    <3> QED
      BY <2>2, <3>1, <3>2
  <2> QED
    BY <1>6, <2>4, <2>5
<1>23. ListsApart(H)
  <2> SUFFICES ASSUME NEW o \in Op, Present(H, o)
               PROVE  Apart(m.route_pred[o]) /\ Apart(m.route_succ[o])
    BY <1>6 DEF ListsApart
  <2>1. o \in E \ D
    BY <1>8 DEF E, Existing
  <2> QED
    BY <1>7, <2>1 DEF JoinedLists, D
<1>24. Contracts(H, d)
  BY <1>13, <1>14, <1>15, <1>16, <1>18, <1>19, <1>21, <1>22 DEF Contracts
<1> QED
  BY <1>23, <1>24 DEF d

-----------------------------------------------------------------------------
(* The graphs that flips and merges lead to. *)

GraphInv(G) ==
  /\ G \in GraphType
  /\ Placed(G)
  /\ PastVector(G)
  /\ ListsApart(G)
  /\ \E c : Contracts(G, c)

\* G in another order.
LEMMA ReorderedGraph ==
  ASSUME NEW G \in GraphType, PastVector(G), NEW s, Placed(s), SameQueues(s, G)
  PROVE  /\ Reordered(G, s) \in GraphType
         /\ Placed(Reordered(G, s))
         /\ PastVector(Reordered(G, s))
         /\ Reordered(G, s).order = s.order
         /\ Reordered(G, s).position = s.position
         /\ Reordered(G, s).route_pred = G.route_pred
         /\ Reordered(G, s).route_succ = G.route_succ
         /\ Reordered(G, s).frames = G.frames
         /\ \A o \in Op : Present(Reordered(G, s), o) <=> Present(G, o)
<1> DEFINE H == Reordered(G, s)
<1>1. /\ s.order \in [Link -> Seq(Op)] /\ s.position \in [Op -> Int]
      /\ Placed(s) /\ SameQueues(s, G)
  BY DEF Placed
<1>2. /\ H \in GraphType /\ H.order = s.order /\ H.position = s.position /\ H.link = link
      /\ H.route_pred = G.route_pred /\ H.route_succ = G.route_succ /\ H.frames = G.frames
  BY <1>1 DEF GraphType, Reordered
<1> HIDE DEF H
<1>3. Placed(H)
  BY <1>1, <1>2 DEF Placed
<1>4. \A o \in Op : link[o] \in Link /\ Len(s.order[link[o]]) = Len(G.order[link[o]])
                    /\ Range(s.order[link[o]]) = Range(G.order[link[o]])
  BY <1>1, OperationAssumption DEF SameQueues
<1>5. PastVector(H)
  BY <1>1, <1>2, <1>4 DEF PastVector, SameQueues
<1>6. \A o \in Op : Present(H, o) <=> Present(G, o)
  BY <1>2, <1>4 DEF Present, OnLink, GraphType
<1> QED
  BY <1>2, <1>3, <1>5, <1>6 DEF H

\* A flip changes neither what exists nor what it is linked with.
LEMMA SameContraction ==
  ASSUME NEW G, NEW H, \A o \in Op : Present(H, o) <=> Present(G, o),
         H.route_pred = G.route_pred, H.route_succ = G.route_succ, H.frames = G.frames
  PROVE  /\ Existing(H) = Existing(G)
         /\ \A c : Contracts(G, c) => Contracts(H, c)
         /\ ListsApart(G) => ListsApart(H)
         /\ Linked(G) => Linked(H)
         /\ Twins(H) = Twins(G)
<1>1. Existing(H) = Existing(G)
  BY DEF Existing
<1>2. ASSUME NEW c, Contracts(G, c)
      PROVE  Contracts(H, c)
  BY <1>1, <1>2 DEF Contracts
<1>3. ListsApart(G) => ListsApart(H)
  BY DEF ListsApart
<1>4. Linked(G) => Linked(H)
  BY <1>1 DEF Linked, NeighborsApart, NeighborsExist, NeighborsAgree
<1>5. Twins(H) = Twins(G)
  BY DEF Twins
<1> QED
  BY <1>1, <1>2, <1>3, <1>4, <1>5

LEMMA GraphIsLinked ==
  ASSUME NEW G, GraphInv(G)
  PROVE  G \in GraphType /\ Placed(G) /\ PastVector(G) /\ Linked(G)
BY ContractedIsLinked DEF GraphInv

LEMMA ReorderedInv ==
  ASSUME NEW G, GraphInv(G), NEW s, Placed(s), SameQueues(s, G)
  PROVE  GraphInv(Reordered(G, s))
<1>1. G \in GraphType /\ Placed(G) /\ PastVector(G)
  BY DEF GraphInv
<1>2. /\ Reordered(G, s) \in GraphType /\ Placed(Reordered(G, s)) /\ PastVector(Reordered(G, s))
      /\ Reordered(G, s).route_pred = G.route_pred
      /\ Reordered(G, s).route_succ = G.route_succ
      /\ Reordered(G, s).frames = G.frames
      /\ \A o \in Op : Present(Reordered(G, s), o) <=> Present(G, o)
  BY <1>1, ReorderedGraph
<1>3. ListsApart(Reordered(G, s)) /\ \A c : Contracts(G, c) => Contracts(Reordered(G, s), c)
  BY <1>2, SameContraction DEF GraphInv
<1> QED
  BY <1>2, <1>3 DEF GraphInv

\* flip keeps the graph in order.
LEMMA FlipKeepsGraph ==
  ASSUME NEW G, GraphInv(G), NEW o \in Op, Present(G, o), NEW pos \in 0 .. Len(G.order[link[o]]) - 1,
         NEW s \in FlipOf(G, o, pos)
  PROVE  GraphInv(Reordered(G, s)) /\ \E P \in Policy : s \in FlipStates(G, P)
<1> DEFINE P == IF G.position[o] > pos THEN MOVE_BEFORE ELSE MOVE_AFTER
           r == [q \in {o} |-> pos]
<1>1. s \in Flipped(G, P, r)
  BY DEF FlipOf
<1>2. P \in Policy
  BY DEF Policy
<1>3. pos \in Nat /\ pos < Len(G.order[link[o]])
  <2>1. Len(G.order[link[o]]) \in Nat
    BY OperationAssumption, LenProperties DEF GraphInv, GraphType
  <2> QED
    BY <2>1
<1>4. r \in Requests(G, P)
  <2>1. r \in [{o} -> Nat] /\ {o} \in SUBSET Op /\ DOMAIN r = {o} /\ r[o] = pos
    BY <1>3
  <2>2. Target(G, P, o, pos)
    BY <1>3 DEF Target
  <2> HIDE DEF r
  <2> QED
    BY <2>1, <2>2 DEF Requests
<1> HIDE DEF P, r
<1>5. s \in FlipStates(G, P)
  BY <1>1, <1>2, <1>4, GraphIsLinked, FlipsKeepQueues
<1>6. GraphInv(Reordered(G, s))
  BY <1>5, GraphIsLinked, PlacedQueues, ReorderedInv
<1> QED
  BY <1>2, <1>5, <1>6

\* The pairs of neighbours do not depend on the order.
LEMMA SameRelated ==
  ASSUME NEW G, NEW H, H.link = G.link, H.route_pred = G.route_pred, H.route_succ = G.route_succ,
         NEW pair
  PROVE  Related(H, pair) = Related(G, pair)
<1>1. \A o, second : OnSameLink(H, o, second) = OnSameLink(G, o, second)
  BY DEF OnSameLink
<1>2. ASSUME NEW first, NEW second
      PROVE  NeighborPairs(H, first, second) = NeighborPairs(G, first, second)
  <2>1. {o \in Range(first) : ~IsTerminal(o) /\ OnSameLink(H, o, second) # {}}
          = {o \in Range(first) : ~IsTerminal(o) /\ OnSameLink(G, o, second) # {}}
    BY <1>1
  <2> DEFINE paired(X) == Only(first, {o \in Range(first) : ~IsTerminal(o) /\ OnSameLink(X, o, second) # {}})
             partner(X, o) == CHOOSE q \in OnSameLink(X, o, second) : TRUE
             both(X, list) == [i \in 1 .. Len(list) |-> <<list[i], partner(X, list[i])>>]
  <2>2. NeighborPairs(G, first, second) = both(G, paired(G))
        /\ NeighborPairs(H, first, second) = both(H, paired(H))
    BY Zenon DEF NeighborPairs
  <2>3. paired(H) = paired(G)
    BY <2>1
  <2>4. \A o : partner(H, o) = partner(G, o)
    BY <1>1
  <2> HIDE DEF paired, partner
  <2> QED
    BY <2>2, <2>3, <2>4
<1> QED
  BY <1>2 DEF Related, related_neighbor_pairs

LEMMA PairsAreMatching ==
  ASSUME NEW G \in GraphType, NEW pairs \in Seq(Twins(G)), ArePairwise(G, pairs)
  PROVE  Matching(pairs)
<1>1. DOMAIN pairs = 1 .. Len(pairs) /\ \A i \in 1 .. Len(pairs) : pairs[i] \in Twins(G)
  BY LenProperties
<1>2. pairs \in Seq(Op \X Op)
  <2>1. Twins(G) \subseteq Op \X Op
    BY DEF Twins
  <2> QED
    BY <2>1, SeqMonotonic
<1>3. \A i \in 1 .. Len(pairs) : pairs[i][1] # pairs[i][2] /\ link[pairs[i][1]] = link[pairs[i][2]]
  BY <1>1 DEF Twins
<1> QED
  BY <1>1, <1>2, <1>3 DEF Matching, ArePairwise

\* merge requests places for the seconds of its pairs.
LEMMA MergeAsks ==
  ASSUME NEW G \in GraphType, Placed(G), NEW pairs \in Seq(Twins(G))
  PROVE  MergeRequests(G.position, pairs) \in Requests(G, MOVE_BEFORE)
<1> DEFINE S == SecondsOf(pairs)
           first(o) == CHOOSE i \in DOMAIN pairs : /\ pairs[i][2] = o
                                                   /\ \A j \in DOMAIN pairs : pairs[j][2] = o => i <= j
           target(o) == G.position[pairs[first(o)][1]] + 1
           r == [o \in S |-> target(o)]
<1>1. MergeRequests(G.position, pairs) = r
  BY DEF MergeRequests
<1>2. DOMAIN pairs = 1 .. Len(pairs) /\ Len(pairs) \in Nat /\ \A i \in 1 .. Len(pairs) : pairs[i] \in Twins(G)
  BY LenProperties
<1>3. \A i \in 1 .. Len(pairs) : /\ pairs[i][1] \in Op /\ pairs[i][2] \in Op
                                 /\ Present(G, pairs[i][1]) /\ Present(G, pairs[i][2])
  BY <1>2 DEF Twins
<1>4. \A o \in S : o \in Op /\ Present(G, o)
  BY <1>2, <1>3 DEF SecondsOf
<1>5. ASSUME NEW o \in S
      PROVE  target(o) \in Nat
  <2> DEFINE T == {i \in 1 .. Len(pairs) : pairs[i][2] = o}
  <2>1. T \in SUBSET Nat /\ T # {}
    BY <1>2 DEF SecondsOf
  <2>2. PICK i \in T : \A j \in T : i <= j
    BY <2>1, LeastNatural
  <2>3. \E k \in DOMAIN pairs : /\ pairs[k][2] = o
                                /\ \A j \in DOMAIN pairs : pairs[j][2] = o => k <= j
    BY <1>2, <2>2
  <2>4. first(o) \in 1 .. Len(pairs)
    BY <1>2, <2>3
  <2> HIDE DEF first
  <2>5. pairs[first(o)][1] \in Op /\ Present(G, pairs[first(o)][1])
    BY <1>3, <2>4
  <2>6. G.position[pairs[first(o)][1]] \in 0 .. Len(G.order[link[pairs[first(o)][1]]]) - 1
        /\ Len(G.order[link[pairs[first(o)][1]]]) \in Nat
    BY <2>5, WhereItStands DEF Present, OnLink, GraphType
  <2> QED
    BY <2>6
<1> HIDE DEF target, S
<1>6. r \in [S -> Nat] /\ S \in SUBSET Op
  BY <1>4, <1>5
<1>7. \A o \in DOMAIN r : Target(G, MOVE_BEFORE, o, r[o])
  BY <1>4, <1>5 DEF Target, MOVE_BEFORE, MOVE_AFTER
<1> HIDE DEF r
<1> QED
  BY <1>1, <1>6, <1>7 DEF Requests

\* merge keeps the graph in order, if its pairs are apart.
LEMMA MergeKeepsGraph ==
  ASSUME NEW G, GraphInv(G), NEW o \in Op, NEW q \in Op, Mergeable(G, o, q),
         \A pairs \in equivalence_class(G, InOrder(G, o, q)) : ArePairwise(G, pairs),
         NEW H \in merge(G, o, q)
  PROVE  GraphInv(H)
<1> DEFINE t == InOrder(G, o, q)
<1>1. G \in GraphType /\ Placed(G) /\ PastVector(G) /\ Linked(G) /\ ListsApart(G)
  BY GraphIsLinked DEF GraphInv
<1>2. PICK c : Contracts(G, c)
  BY DEF GraphInv
<1>3. t \in Twins(G)
  BY <1>1 DEF InOrder, Mergeable, Twins, GraphType
<1>4. \E pairs \in equivalence_class(G, t) : \E s \in BroughtTogether(G, pairs) :
         \E m \in MergePairs(pairs, Reordered(G, s)) : H \in ErasePairs(pairs, m)
  <2> DEFINE A(pairs, s) == UNION {ErasePairs(pairs, m) : m \in MergePairs(pairs, Reordered(G, s))}
             B(pairs) == UNION {A(pairs, s) : s \in BroughtTogether(G, pairs)}
  <2>1. H \in UNION {B(pairs) : pairs \in equivalence_class(G, t)}
    BY DEF merge, Reordered
  <2> HIDE DEF A, B
  <2>2. PICK pairs \in equivalence_class(G, t) : H \in B(pairs)
    BY <2>1
  <2>3. PICK s \in BroughtTogether(G, pairs) : H \in A(pairs, s)
    BY <2>2 DEF B
  <2>4. PICK m \in MergePairs(pairs, Reordered(G, s)) : H \in ErasePairs(pairs, m)
    BY <2>3 DEF A
  <2> QED
    BY <2>2, <2>3, <2>4
<1>5. PICK pairs \in equivalence_class(G, t) :
         /\ ArePairwise(G, pairs)
         /\ \E s \in BroughtTogether(G, pairs) :
              \E m \in MergePairs(pairs, Reordered(G, s)) : H \in ErasePairs(pairs, m)
  BY <1>4
<1>5a. PICK s \in BroughtTogether(G, pairs) :
         \E m \in MergePairs(pairs, Reordered(G, s)) : H \in ErasePairs(pairs, m)
  BY <1>5
<1>5b. PICK m \in MergePairs(pairs, Reordered(G, s)) : H \in ErasePairs(pairs, m)
  BY <1>5a
<1> HIDE DEF t
<1>6. /\ pairs \in Seq(Twins(G))
      /\ \A pair \in Range(pairs) : Related(G, pair) \subseteq Range(pairs)
  BY <1>1, <1>3, ClassIsClosed
<1>7. Matching(pairs)
  BY <1>1, <1>5, <1>6, PairsAreMatching
<1> DEFINE N == Len(pairs)
           K == Reordered(G, s)
<1>8. /\ K \in GraphType /\ Placed(K) /\ PastVector(K)
      /\ K.route_pred = G.route_pred /\ K.route_succ = G.route_succ /\ K.frames = G.frames
      /\ \A p \in Op : Present(K, p) <=> Present(G, p)
  <2>1. MergeRequests(G.position, pairs) \in Requests(G, MOVE_BEFORE)
    BY <1>1, <1>6, MergeAsks
  <2>2. s \in FlipStates(G, MOVE_BEFORE)
    BY <1>1, <2>1, FlipsKeepQueues DEF BroughtTogether, Policy
  <2> QED
    BY <1>1, <2>2, PlacedQueues, ReorderedGraph
<1> HIDE DEF K
<1>9. Twins(K) = Twins(G) /\ Linked(K) /\ ListsApart(K) /\ Contracts(K, c)
  BY <1>1, <1>2, <1>8, SameContraction
<1>10. \A pair : Related(K, pair) = Related(G, pair)
  <2>1. K.link = G.link
    BY <1>1, <1>8 DEF GraphType
  <2> QED
    BY <1>8, <2>1, SameRelated
<1>11. /\ DOMAIN pairs = 1 .. N /\ N \in Nat
       /\ \A i \in 1 .. N : pairs[i] \in Twins(K) /\ pairs[i] \in Twins(G)
  BY <1>6, <1>9, LenProperties
<1>12. /\ \A i \in 1 .. N : /\ pairs[i][1] \in Existing(K) /\ pairs[i][2] \in Existing(K)
                            /\ Present(K, pairs[i][1]) /\ Present(K, pairs[i][2])
       /\ \A i, j \in 1 .. N :
            pairs[j][2] \in Range(K.route_pred[pairs[i][2]]) => pairs[j][1] \in Range(K.route_pred[pairs[i][1]])
  <2>1. \A i \in 1 .. N : /\ pairs[i][1] \in Existing(K) /\ pairs[i][2] \in Existing(K)
                          /\ Present(K, pairs[i][1]) /\ Present(K, pairs[i][2])
    BY <1>11 DEF Twins, Existing
  <2>2. \A i, j \in 1 .. N :
            pairs[j][2] \in Range(G.route_pred[pairs[i][2]]) => pairs[j][1] \in Range(G.route_pred[pairs[i][1]])
    BY <1>5, <1>11 DEF ArePairwise
  <2> QED
    BY <1>8, <2>1, <2>2
<1>13. \A i, j \in 1 .. N :
         pairs[j][2] \in Range(K.route_succ[pairs[i][2]]) => pairs[j][1] \in Range(K.route_succ[pairs[i][1]])
  <2>1. \A x, y \in Existing(K) : y \in Range(K.route_pred[x]) <=> x \in Range(K.route_succ[y])
    BY <1>9 DEF Linked, NeighborsAgree
  <2> QED
    BY <1>12, <2>1
<1>14. Joins(K, pairs)
  BY <1>6, <1>7, <1>9, <1>10, <1>12, <1>13 DEF Joins
<1>15. MayMerge(K, pairs)
  <2>1. \A pair \in Twins(K) : K.frames[pair[1]] \cap K.frames[pair[2]] = {}
    BY <1>8, <1>9, TwinsAreDisjoint
  <2> QED
    BY <1>8, <1>9, <1>14, <2>1, ClosedPairsMayMerge DEF Joins
<1>16. m \in MergeStates(K, pairs, N)
  BY <1>8, <1>15, MergePairsJoins DEF K
<1>17. m \in GraphType /\ m.order = K.order /\ m.position = K.position
  BY <1>16 DEF MergeStates
<1>18. Placed(m) /\ PastVector(m) /\ \A p \in Op : Present(m, p) <=> Present(K, p)
  BY <1>8, <1>17 DEF Placed, PastVector, Present, OnLink, GraphType
<1>19. H \in EraseStates(m, pairs, N)
  <2>1. \A i \in 1 .. Len(pairs) : Present(m, pairs[i][2])
    BY <1>11, <1>12, <1>18 DEF Twins
  <2> QED
    BY <1>5b, <1>7, <1>17, <1>18, <2>1, ErasePairsErases
<1>20. Contracts(H, Contraction(c, pairs)) /\ ListsApart(H)
  BY <1>8, <1>9, <1>14, <1>16, <1>19, MergeContracts
<1>21. H \in GraphType /\ Placed(H) /\ PastVector(H)
  BY <1>19 DEF EraseStates
<1> QED
  BY <1>20, <1>21 DEF GraphInv

-----------------------------------------------------------------------------
(* Undoing a flip. *)

\* The order and the positions that log leads back to, if it led to old.
Earlier(G, log, old) == [order |-> old, position |-> Back(G.position, log)]

\* log leads from G back to the vectors old: they hold what those of G hold, and
\* every operation of them would stand where its position says.
LeadsBack(G, log, old) ==
  /\ log \in Logs(G)
  /\ Placed(Earlier(G, log, old))
  /\ SameQueues(Earlier(G, log, old), G)

\* The empty log leads to where everything is.
LEMMA NothingLeadsBack ==
  ASSUME NEW G, GraphInv(G)
  PROVE  LeadsBack(G, NoLog, G.order)
<1>1. Placed(G) /\ G.position \in [Op -> Int]
  BY DEF GraphInv, GraphType
<1>2. NoLog \in Logs(G) /\ Back(G.position, NoLog) = G.position
  BY <1>1, NothingLogged
<1> QED
  BY <1>1, <1>2 DEF LeadsBack, Earlier, Placed, SameQueues

\* The log of a flip leads from what the flip makes of the graph back to the
\* graph.
LEMMA FlipLeadsBack ==
  ASSUME NEW G, GraphInv(G), NEW P \in Policy, NEW s \in FlipStates(G, P)
  PROVE  LeadsBack(Reordered(G, s), s.flip_log_, G.order)
<1> DEFINE H == Reordered(G, s)
<1>1. /\ G \in GraphType /\ Placed(G) /\ PastVector(G)
      /\ Placed(s) /\ SameQueues(s, G) /\ s.flip_log_ \in Logs(G)
      /\ Back(s.position, s.flip_log_) = G.position
  BY GraphIsLinked, PlacedQueues
<1>2. /\ H.order = s.order /\ H.position = s.position
      /\ \A o \in Op : Present(H, o) <=> Present(G, o)
  BY <1>1, ReorderedGraph
<1> HIDE DEF H
<1>3. s.flip_log_ \in Logs(H)
  BY <1>1, <1>2 DEF Logs
<1>4. Earlier(H, s.flip_log_, G.order) = [order |-> G.order, position |-> G.position]
  BY <1>1, <1>2 DEF Earlier
<1>5. Placed(Earlier(H, s.flip_log_, G.order))
  BY <1>1, <1>4 DEF Placed
<1>6. SameQueues(Earlier(H, s.flip_log_, G.order), H)
  <2>1. \A l \in Link : Len(G.order[l]) = Len(H.order[l]) /\ Range(G.order[l]) = Range(H.order[l])
    BY <1>1, <1>2 DEF SameQueues
  <2>2. ASSUME NEW o \in Op, o \notin Range(H.order[link[o]])
        PROVE  G.position[o] = H.position[o]
    <3>1. o \notin Range(G.order[link[o]])
      BY <2>1, <2>2, OperationAssumption
    <3> QED
      BY <1>1, <1>2, <3>1 DEF SameQueues
  <2> QED
    BY <1>4, <2>1, <2>2 DEF SameQueues
<1> QED
  BY <1>3, <1>5, <1>6 DEF LeadsBack, H

\* Restoring slot by slot restores all of it: the operation that belongs in a slot
\* is the only one logged there, or it stands there.
LEMMA UndoneVectors ==
  ASSUME NEW G, GraphInv(G), NEW log, NEW old, LeadsBack(G, log, old)
  PROVE  undo(G, log) = Reordered(G, Earlier(G, log, old))
<1> DEFINE x == Earlier(G, log, old)
<1>1. /\ G \in GraphType /\ Placed(G) /\ G.order \in [Link -> Seq(Op)]
      /\ G.position \in [Op -> Int] /\ G.link = link
  BY DEF GraphInv, GraphType
<1>2. Placed(x) /\ SameQueues(x, G) /\ log \in Logs(G) /\ x.order = old
      /\ x.position = Back(G.position, log)
  BY DEF LeadsBack, Earlier
<1>3. \A o \in Op : x.position[o] = IF o \in DOMAIN log THEN log[o] ELSE G.position[o]
  BY <1>1, <1>2, BackPositions
<1>4. DOMAIN log \subseteq Op /\ \A o \in DOMAIN log : Present(G, o)
  BY <1>2 DEF Logs
<1>5. old \in [Link -> Seq(Op)]
  BY <1>2 DEF Placed
<1>6. \A l \in Link : Len(old[l]) = Len(G.order[l]) /\ Range(old[l]) = Range(G.order[l])
  BY <1>2 DEF SameQueues
<1> HIDE DEF x
<1>7. ASSUME NEW l \in Link, NEW i \in 1 .. Len(old[l])
      PROVE  Restored(G, log, l, i) = old[l][i]
  <2> DEFINE p == old[l][i]
             back == {o \in DOMAIN log : G.link[o] = l /\ log[o] = i - 1}
  <2>1. /\ p \in Op /\ p \in Range(old[l])
        /\ Len(old[l]) \in Nat
    BY <1>5, LenProperties, RangeEquality
  <2>2. link[p] = l /\ x.position[p] = i - 1
    BY <1>2 DEF Placed
  <2>3. ASSUME NEW q \in back
        PROVE  q = p
    <3>1. q \in Op /\ link[q] = l /\ log[q] = i - 1 /\ q \in DOMAIN log /\ Present(G, q)
      BY <1>1, <1>4
    <3>2. x.position[q] = i - 1
      BY <1>3, <3>1
    <3>3. q \in Range(x.order[link[q]])
      BY <1>1, <1>2, <1>6, <3>1 DEF Present, OnLink
    <3>4. x.order[link[q]][x.position[q] + 1] = q
      BY <1>2, <3>1, <3>3, WhereItStands
    <3>5. i - 1 + 1 = i
      BY <2>1
    <3> QED
      BY <1>2, <3>1, <3>2, <3>4, <3>5
  <2>4. Restored(G, log, l, i) = IF back = {} THEN G.order[l][i]
                                  ELSE CHOOSE o \in back : \A q \in back : q <= o
    BY DEF Restored
  <2>5. CASE p \in DOMAIN log
    <3>1. p \in back
      BY <1>1, <1>3, <2>1, <2>2, <2>5
    <3>2. back = {p}
      BY <2>3, <3>1
    <3>3. p <= p
      BY <2>1, OperationAssumption
    <3> HIDE DEF p, back
    <3> QED
      BY <2>4, <3>2, <3>3 DEF p
  <2>6. CASE p \notin DOMAIN log
    <3>1. back = {}
      <4>1. \A q \in back : q \in DOMAIN log
        OBVIOUS
      <4> HIDE DEF p, back
      <4> QED
        BY <2>3, <2>6, <4>1
    <3>2. G.position[p] = i - 1
      BY <1>3, <2>1, <2>2, <2>6
    <3>3. p \in Range(G.order[link[p]])
      BY <1>6, <2>1, <2>2
    <3>4. G.order[link[p]][G.position[p] + 1] = p
      BY <1>1, <2>1, <3>3, WhereItStands
    <3>5. i - 1 + 1 = i
      BY <2>1
    <3> HIDE DEF back
    <3> QED
      BY <2>2, <2>4, <3>1, <3>2, <3>4, <3>5
  <2> QED
    BY <2>5, <2>6
<1> DEFINE vectors == [l \in DOMAIN G.order |->
                         [i \in DOMAIN G.order[l] |-> Restored(G, log, l, i)]]
<1>8. vectors = old
  <2>1. ASSUME NEW l \in Link
        PROVE  vectors[l] = old[l]
    <3>1. old[l] \in Seq(Op) /\ G.order[l] \in Seq(Op)
      BY <1>1, <1>5
    <3>2. /\ old[l] \in [1 .. Len(old[l]) -> Op]
          /\ DOMAIN G.order[l] = 1 .. Len(old[l])
      BY <1>6, <3>1, LenProperties
    <3>3. vectors[l] = [i \in 1 .. Len(old[l]) |-> Restored(G, log, l, i)]
      BY <1>1, <3>2
    <3>4. [i \in 1 .. Len(old[l]) |-> Restored(G, log, l, i)] = [i \in 1 .. Len(old[l]) |-> old[l][i]]
      BY <1>7
    <3> HIDE DEF vectors
    <3> QED
      BY <3>2, <3>3, <3>4
  <2>2. vectors = [l \in Link |-> vectors[l]]
    BY <1>1
  <2> HIDE DEF vectors
  <2> QED
    BY <1>5, <2>1, <2>2
<1>9. undo(G, log) = [G EXCEPT !.order = vectors, !.position = Back(G.position, log)]
  BY <1>1 DEF undo, GraphType
<1> HIDE DEF vectors
<1> QED
  BY <1>2, <1>8, <1>9 DEF Reordered, x

-----------------------------------------------------------------------------
(* The specification. *)

CacheInv == critical_path_.objective \in Objectives \cup {"none"}

\* The log leads back to the order before the flip it is of.
LogInv ==
  /\ flip_log_ = [merged |-> flip_log_.merged, entries |-> flip_log_.entries]
  /\ flip_log_.merged \in BOOLEAN
  /\ LeadsBack(g, flip_log_.entries, before)

Inv == GraphInv(g) /\ LogInv /\ CacheInv

LEMMA InitialPositions ==
  ASSUME Init
  PROVE  g \in GraphType /\ Placed(g) /\ \A o \in Op : Present(g, o)
<1> DEFINE at(o) == CHOOSE i \in DOMAIN InitialOrder[link[o]] : InitialOrder[link[o]][i] = o
<1>1. /\ order = InitialOrder /\ position = [o \in Op |-> at(o) - 1]
      /\ route_pred = InitialPred /\ route_succ = InitialSucc /\ frames = InitialFrames
  BY DEF Init
<1>2. /\ InitialOrder \in [Link -> Seq(Op)]
      /\ \A l \in Link : \A i, j \in DOMAIN InitialOrder[l] :
           /\ link[InitialOrder[l][i]] = l
           /\ InitialOrder[l][i] = InitialOrder[l][j] => i = j
      /\ \A o \in Op : o \in Range(InitialOrder[link[o]])
  BY OrderAssumption
<1>3. \A o \in Op : link[o] \in Link
  BY OperationAssumption
<1>4. \A l \in Link : /\ DOMAIN InitialOrder[l] = 1 .. Len(InitialOrder[l])
                      /\ Len(InitialOrder[l]) \in Nat
                      /\ \A i \in 1 .. Len(InitialOrder[l]) : InitialOrder[l][i] \in Op
  BY <1>2, LenProperties
<1>5. ASSUME NEW o \in Op
      PROVE  at(o) \in DOMAIN InitialOrder[link[o]] /\ InitialOrder[link[o]][at(o)] = o
  <2>1. \E i \in DOMAIN InitialOrder[link[o]] : InitialOrder[link[o]][i] = o
    BY <1>2 DEF Range
  <2> QED
    BY <2>1
<1> HIDE DEF at
<1>6. \A o \in Op : position[o] = at(o) - 1 /\ at(o) \in Nat
  BY <1>1, <1>3, <1>4, <1>5
<1>7. position \in [Op -> Int]
  BY <1>1, <1>6
<1>8. \A l \in Link : \A i \in 1 .. Len(order[l]) :
        link[order[l][i]] = l /\ position[order[l][i]] = i - 1
  <2> SUFFICES ASSUME NEW l \in Link, NEW i \in 1 .. Len(InitialOrder[l])
               PROVE  /\ link[InitialOrder[l][i]] = l
                      /\ position[InitialOrder[l][i]] = i - 1
    BY <1>1
  <2> DEFINE o == InitialOrder[l][i]
  <2>1. o \in Op /\ link[o] = l /\ i \in DOMAIN InitialOrder[l]
    BY <1>2, <1>4
  <2>2. at(o) \in DOMAIN InitialOrder[l] /\ InitialOrder[l][at(o)] = o
    BY <1>5, <2>1
  <2>3. at(o) = i
    BY <1>2, <2>1, <2>2
  <2> QED
    BY <1>6, <2>1, <2>3
<1>9. /\ g.order = order /\ g.position = position /\ g.link = link /\ g.pcp = pcp
      /\ g.route_pred = route_pred /\ g.route_succ = route_succ /\ g.frames = frames
  BY DEF g
<1>10. g \in GraphType
  <2>1. order \in [Link -> Seq(Op)]
    BY <1>1, <1>2
  <2>2. route_pred \in [Node -> Seq(Node)] /\ route_succ \in [Node -> Seq(Node)]
    BY <1>1, InitialRoutes
  <2>3. frames \in [Op -> SUBSET Frame]
    BY <1>1, FrameAssumption DEF Frame
  <2> QED
    BY <1>7, <2>1, <2>2, <2>3 DEF g, GraphType
<1>11. Placed(g)
  BY <1>1, <1>2, <1>7, <1>8, <1>9 DEF Placed
<1>12. \A o \in Op : Present(g, o)
  BY <1>1, <1>2, <1>9 DEF Present, OnLink
<1> QED
  BY <1>10, <1>11, <1>12

LEMMA InitEstablishesInv ==
  ASSUME Init
  PROVE  Inv
<1>1. g \in GraphType /\ Placed(g) /\ \A o \in Op : Present(g, o)
  BY InitialPositions
<1>2. /\ g.route_pred = InitialPred /\ g.route_succ = InitialSucc /\ g.frames = InitialFrames
      /\ g.order = order /\ g.link = link
  BY DEF Init, g
<1>3. PastVector(g)
  BY <1>1, <1>2 DEF PastVector, Present, OnLink
<1>4. ListsApart(g)
  BY <1>2, InitialRoutes DEF ListsApart
<1> DEFINE c == [p \in Node |-> p]
<1>5. /\ c \in [Node -> Node] /\ \A p \in Node : c[p] = p
  OBVIOUS
<1>6. \A p \in Op : p \in Node
  BY DEF Node
<1>7. \A x \in Existing(g) : x \in Node
  BY DEF Existing, Node
<1>8. \A x \in Node : \A y \in Range(InitialPred[x]) \cup Range(InitialSucc[x]) : y \in Node
  BY InitialRoutes, RangeOfSeq
<1> HIDE DEF c
<1>9. Contracts(g, c)
  <2>1. \A p \in Op : c[p] = p
    BY <1>5, <1>6
  <2>2. \A x \in Existing(g) : \A y : y \in Range(InitialPred[x]) <=>
           \E p, q \in Node : c[p] = x /\ c[q] = y /\ q \in Range(InitialPred[p])
    BY <1>5, <1>7, <1>8
  <2>3. \A x \in Existing(g) : \A y : y \in Range(InitialSucc[x]) <=>
           \E p, q \in Node : c[p] = x /\ c[q] = y /\ q \in Range(InitialSucc[p])
    BY <1>5, <1>7, <1>8
  <2> QED
    BY <1>1, <1>2, <1>5, <2>1, <2>2, <2>3 DEF Contracts
<1>10. CacheInv
  BY DEF Init, CacheInv, NoResult
<1>11. GraphInv(g)
  BY <1>1, <1>3, <1>4, <1>9 DEF GraphInv
<1>12. LogInv
  <2>1. flip_log_ = [merged |-> FALSE, entries |-> NoLog] /\ before = g.order
    BY <1>2 DEF Init
  <2> QED
    BY <1>11, <2>1, NothingLeadsBack DEF LogInv
<1> QED
  BY <1>10, <1>11, <1>12 DEF Inv

LEMMA Becoming ==
  ASSUME NEW H \in GraphType, Becomes(H)
  PROVE  g' = H
BY DEF Becomes, g, GraphType

\* A copy gives the operations that exist their positions.
LEMMA CopyKeepsGraph ==
  ASSUME GraphInv(g), Copy
  PROVE  GraphInv(g')
<1>1. /\ g \in GraphType /\ Placed(g) /\ PastVector(g) /\ ListsApart(g)
  BY DEF GraphInv
<1>2. /\ g.order = order /\ g.position = position /\ g.link = link
      /\ g.route_pred = route_pred /\ g.route_succ = route_succ /\ g.frames = frames
      /\ g'.order = order' /\ g'.position = position' /\ g'.link = link /\ g'.pcp = pcp
      /\ g'.route_pred = route_pred' /\ g'.route_succ = route_succ' /\ g'.frames = frames'
  BY DEF g
<1>3. /\ order' = order /\ route_pred' = route_pred /\ route_succ' = route_succ /\ frames' = frames
      /\ position' = [o \in Op |-> IF Present(g, o) THEN position[o] ELSE Unset]
  BY DEF Copy
<1>4. position \in [Op -> Int]
  BY <1>1, <1>2 DEF GraphType
<1>5. /\ position' \in [Op -> Int]
      /\ \A o \in Op : Present(g, o) => position'[o] = position[o]
      /\ \A o \in Op : ~Present(g, o) => position'[o] = Unset
  BY <1>3, <1>4 DEF Unset
<1>6. g' \in GraphType
  BY <1>1, <1>3, <1>5 DEF GraphType, g
<1>7. \A o \in Op : Present(g', o) <=> Present(g, o)
  BY <1>2, <1>3 DEF Present, OnLink
<1>8. PastVector(g')
  BY <1>2, <1>3, <1>5 DEF PastVector, Present, OnLink
<1>9. Placed(g')
  <2>1. ASSUME NEW l \in Link, NEW i \in 1 .. Len(order[l])
        PROVE  link[order[l][i]] = l /\ position'[order[l][i]] = i - 1
    <3>1. order[l] \in Seq(Op)
      BY <1>1, <1>2 DEF GraphType
    <3>2. order[l][i] \in Op /\ order[l][i] \in Range(order[l])
      BY <3>1, LenProperties, RangeEquality
    <3>3. link[order[l][i]] = l /\ position[order[l][i]] = i - 1
      BY <1>1, <1>2 DEF Placed
    <3>4. Present(g, order[l][i])
      BY <1>2, <3>2, <3>3 DEF Present, OnLink
    <3> QED
      BY <1>5, <3>2, <3>3, <3>4
  <2> QED
    BY <1>1, <1>2, <1>3, <1>5, <2>1, SMTT(30) DEF Placed
<1>10. ListsApart(g') /\ \A c : Contracts(g, c) => Contracts(g', c)
  BY <1>1, <1>2, <1>3, <1>7, SameContraction
<1> QED
  BY <1>6, <1>8, <1>9, <1>10 DEF GraphInv

\* A copy of the log leads back in the copy.
LEMMA CopyKeepsLog ==
  ASSUME GraphInv(g), LeadsBack(g, flip_log_.entries, before), Copy
  PROVE  LeadsBack(g', flip_log_.entries, before)
<1> DEFINE log == flip_log_.entries
           x == Earlier(g, log, before)
           y == Earlier(g', log, before)
<1>1. /\ g.order = order /\ g.position = position /\ g'.order = order' /\ g'.position = position'
      /\ g.link = link /\ g'.link = link
  BY DEF g
<1>2. /\ order' = order
      /\ position' = [o \in Op |-> IF Present(g, o) THEN position[o] ELSE Unset]
  BY DEF Copy
<1>3. position \in [Op -> Int] /\ order \in [Link -> Seq(Op)]
  BY <1>1 DEF GraphInv, GraphType
<1>4. /\ position' \in [Op -> Int]
      /\ \A o \in Op : Present(g, o) => position'[o] = position[o]
  BY <1>2, <1>3 DEF Unset
<1>5. \A o \in Op : Present(g', o) <=> Present(g, o)
  BY <1>1, <1>2 DEF Present, OnLink
<1>6. /\ log \in Logs(g) /\ Placed(x) /\ SameQueues(x, g)
      /\ x.order = before /\ x.position = Back(position, log)
      /\ y.order = before /\ y.position = Back(position', log)
  BY <1>1 DEF LeadsBack, Earlier
<1> HIDE DEF log, x, y
<1>7. log \in Logs(g') /\ \A o \in DOMAIN log : Present(g, o)
  BY <1>5, <1>6 DEF Logs
<1>8. /\ y.position \in [Op -> Int]
      /\ \A o \in Op : x.position[o] = IF o \in DOMAIN log THEN log[o] ELSE position[o]
      /\ \A o \in Op : y.position[o] = IF o \in DOMAIN log THEN log[o] ELSE position'[o]
  BY <1>3, <1>4, <1>6, BackPositions, SMTT(30)
<1>9. before \in [Link -> Seq(Op)]
  BY <1>6 DEF Placed
<1>10. ASSUME NEW l \in Link, NEW i \in 1 .. Len(before[l])
       PROVE  link[before[l][i]] = l /\ y.position[before[l][i]] = i - 1
  <2> DEFINE p == before[l][i]
  <2>1. link[p] = l /\ x.position[p] = i - 1
    BY <1>6 DEF Placed
  <2>2. p \in Op /\ p \in Range(before[l])
    BY <1>9, LenProperties, RangeEquality
  <2>3. Range(before[l]) = Range(order[l])
    BY <1>1, <1>6 DEF SameQueues
  <2>4. Present(g, p)
    BY <1>1, <2>1, <2>2, <2>3 DEF Present, OnLink
  <2> QED
    BY <1>4, <1>8, <2>1, <2>2, <2>4
<1>11. Placed(y)
  BY <1>6, <1>8, <1>9, <1>10 DEF Placed
<1>12. SameQueues(y, g')
  <2>1. \A l \in Link : Len(before[l]) = Len(order[l]) /\ Range(before[l]) = Range(order[l])
    BY <1>1, <1>6 DEF SameQueues
  <2>2. \A o \in Op : o \notin Range(order[link[o]]) => y.position[o] = position'[o]
    BY <1>1, <1>7, <1>8 DEF Present, OnLink
  <2> QED
    BY <1>1, <1>2, <1>6, <2>1, <2>2 DEF SameQueues
<1> QED
  BY <1>7, <1>11, <1>12 DEF LeadsBack, log, y

\* undo_last_flip leads to the graph before the flip, with what it has of edges
\* and frames.
LEMMA UndoKeepsInv ==
  ASSUME GraphInv(g), LogInv, UndoLastFlip
  PROVE  GraphInv(g') /\ LogInv'
<1> DEFINE log == flip_log_.entries
           x == Earlier(g, log, before)
<1>1. /\ Placed(x) /\ SameQueues(x, g) /\ LeadsBack(g, log, before)
      /\ flip_log_.merged \in BOOLEAN
      /\ flip_log_ = [merged |-> flip_log_.merged, entries |-> flip_log_.entries]
  BY DEF LogInv, LeadsBack
<1>2. undo(g, log) = Reordered(g, x)
  BY <1>1, UndoneVectors
<1>3. GraphInv(Reordered(g, x))
  BY <1>1, ReorderedInv
<1>4. /\ Becomes(undo(g, log)) /\ before' = order'
      /\ flip_log_' = [flip_log_ EXCEPT !.entries = NoLog]
  BY DEF UndoLastFlip
<1>5. g' = undo(g, log)
  BY <1>2, <1>3, <1>4, Becoming DEF GraphInv
<1>6. GraphInv(g')
  BY <1>2, <1>3, <1>5
<1>7. flip_log_' = [merged |-> flip_log_.merged, entries |-> NoLog]
  BY <1>1, <1>4
<1>8. LeadsBack(g', NoLog, before')
  <2>1. g'.order = before'
    BY <1>4 DEF g
  <2> QED
    BY <1>6, <2>1, NothingLeadsBack
<1> QED
  BY <1>1, <1>6, <1>7, <1>8 DEF LogInv

LEMMA NextKeepsInv ==
  ASSUME Inv, MergesArePairwise, [Next]_vars
  PROVE  Inv'
<1>1. GraphInv(g) /\ LogInv /\ CacheInv
  BY DEF Inv
<1>2. g.order = order /\ g.link = link
  BY DEF g
<1>3. ASSUME UNCHANGED <<graph, flip_log_, before>>
      PROVE  GraphInv(g') /\ LogInv'
  <2>1. g' = g /\ flip_log_' = flip_log_ /\ before' = before
    BY <1>3 DEF graph, g
  <2> QED
    BY <1>1, <2>1 DEF LogInv
<1>4. CASE CallFlip
  <2>1. PICK o \in Op : \E pos \in 0 .. Len(order[link[o]]) - 1 : Flip(o, pos)
    BY <1>4 DEF CallFlip
  <2>2. PICK pos \in 0 .. Len(order[link[o]]) - 1 : Flip(o, pos)
    BY <2>1
  <2>3. PICK s \in FlipOf(g, o, pos) :
          /\ Becomes(Reordered(g, s))
          /\ flip_log_' = [merged |-> FALSE, entries |-> s.flip_log_]
    BY <2>2 DEF Flip
  <2>4. GraphInv(Reordered(g, s)) /\ \E P \in Policy : s \in FlipStates(g, P)
    BY <1>1, <1>2, <2>2, FlipKeepsGraph DEF Flip
  <2>5. g' = Reordered(g, s)
    BY <2>3, <2>4, Becoming DEF GraphInv
  <2>6. CacheInv'
    BY <2>2 DEF Flip, CacheInv, NoResult
  <2>7. LeadsBack(g', s.flip_log_, before')
    <3>1. before' = g.order
      BY <1>2, <2>2 DEF Flip
    <3>2. LeadsBack(Reordered(g, s), s.flip_log_, g.order)
      BY <1>1, <2>4, FlipLeadsBack
    <3> QED
      BY <2>5, <3>1, <3>2
  <2>8. LogInv'
    BY <2>3, <2>7 DEF LogInv
  <2> QED
    BY <2>4, <2>5, <2>6, <2>8 DEF Inv
<1>4a. CASE UndoLastFlip
  <2>1. CacheInv'
    BY <1>1, <1>4a DEF UndoLastFlip, CacheInv
  <2> QED
    BY <1>1, <1>4a, <2>1, UndoKeepsInv DEF Inv
<1>5. CASE CallMerge
  <2>1. PICK o \in Op, q \in Op : Merge(o, q)
    BY <1>5 DEF CallMerge
  <2>2. PICK new \in merge(g, o, q) : Becomes(new)
    BY <2>1 DEF Merge
  <2>3. Mergeable(g, o, q) /\ \A pairs \in equivalence_class(g, InOrder(g, o, q)) : ArePairwise(g, pairs)
    BY <2>1 DEF Merge, MergesArePairwise
  <2>4. GraphInv(new)
    BY <1>1, <2>3, MergeKeepsGraph
  <2>5. GraphInv(g')
    BY <2>2, <2>4, Becoming DEF GraphInv
  <2>6. CacheInv'
    BY <1>1, <2>1 DEF Merge, CacheInv
  <2>7. LogInv'
    <3>1. flip_log_' = [merged |-> TRUE, entries |-> NoLog] /\ before' = g'.order
      BY <2>1 DEF Merge, g
    <3>2. LeadsBack(g', NoLog, g'.order)
      BY <2>5, NothingLeadsBack
    <3> QED
      BY <3>1, <3>2 DEF LogInv
  <2> QED
    BY <2>5, <2>6, <2>7 DEF Inv
<1>6. ASSUME NEW objective \in Objectives, compute(objective),
             UNCHANGED <<graph, flip_log_, before>>
      PROVE  Inv'
  <2>1. CacheInv'
    BY <1>6 DEF compute, CacheInv, NoResult
  <2> QED
    BY <1>3, <1>6, <2>1 DEF Inv
<1>7. CASE CriticalPath
  BY <1>6, <1>7, ObjectiveAssumption DEF CriticalPath
<1>8. CASE \E objective \in Objectives : CriticalPathFor(objective)
  BY <1>6, <1>8 DEF CriticalPathFor
<1>9. CASE Copy
  <2>1. CacheInv' /\ flip_log_' = flip_log_ /\ before' = before
    BY <1>9 DEF Copy, CacheInv, NoResult
  <2>2. LogInv'
    BY <1>1, <1>9, <2>1, CopyKeepsLog DEF LogInv
  <2> QED
    BY <1>1, <1>9, <2>1, <2>2, CopyKeepsGraph DEF Inv
<1>10. CASE UNCHANGED vars
  <2>1. UNCHANGED <<graph, flip_log_, before>> /\ CacheInv'
    BY <1>1, <1>10 DEF vars, graph, CacheInv
  <2> QED
    BY <1>3, <2>1 DEF Inv
<1> QED
  BY <1>4, <1>4a, <1>5, <1>7, <1>8, <1>9, <1>10 DEF Next

LEMMA SpecKeepsInv == Spec /\ []MergesArePairwise => []Inv
<1>1. Init => Inv
  BY InitEstablishesInv
<1>2. Inv /\ MergesArePairwise /\ [Next]_vars => Inv'
  BY NextKeepsInv
<1> QED
  BY <1>1, <1>2, PTL DEF Spec
-----------------------------------------------------------------------------
(* The properties. *)

LEMMA GraphFields ==
  /\ g.order = order /\ g.position = position /\ g.link = link /\ g.pcp = pcp
  /\ g.route_pred = route_pred /\ g.route_succ = route_succ /\ g.frames = frames
BY DEF g

\* The operations on a link are those of the link that exist.
LEMMA OperationsOnLink ==
  ASSUME GraphInv(g), NEW l
  PROVE  l \in Link => \A o : o \in OnLink(g, l) <=> o \in Op /\ link[o] = l /\ Present(g, o)
<1> SUFFICES ASSUME l \in Link, NEW o
             PROVE  o \in OnLink(g, l) <=> o \in Op /\ link[o] = l /\ Present(g, o)
  OBVIOUS
<1>1. /\ g.order \in [Link -> Seq(Op)]
      /\ \A i \in 1 .. Len(g.order[l]) : link[g.order[l][i]] = l
  BY DEF GraphInv, Placed
<1>2. /\ Range(g.order[l]) = {g.order[l][i] : i \in 1 .. Len(g.order[l])}
      /\ \A i \in 1 .. Len(g.order[l]) : g.order[l][i] \in Op
  BY <1>1, RangeEquality, LenProperties
<1> QED
  BY <1>1, <1>2, GraphFields DEF OnLink, Present

\* c says what transmits a frame.
LEMMA CarriersOf ==
  ASSUME GraphInv(g), NEW c, Contracts(g, c)
  PROVE  /\ \A p \in Op : Carriers(p) = {c[p]}
         /\ \A p \in Node : Carrier(p) = c[p]
         /\ \A o \in Op : Present(g, o) => Merged(o) = {p \in Op : c[p] = o}
<1>1. /\ \A p \in Node : IsTerminal(p) => c[p] = p
      /\ \A p \in Op : c[p] \in Op /\ Present(g, c[p]) /\ link[c[p]] = link[p]
      /\ \A o \in Op : \A f : Present(g, o) =>
           (f \in frames[o] <=> \E p \in Op : c[p] = o /\ f \in InitialFrames[p])
  BY GraphFields DEF Contracts
<1>2. ASSUME NEW p \in Op, NEW o \in Op, Present(g, o), link[o] = link[p]
      PROVE  InitialFrames[p] \subseteq frames[o] <=> c[p] = o
  <2>1. PICK f : InitialFrames[p] = {f}
    BY FramesOfTwo
  <2>2. ASSUME f \in frames[o]
        PROVE  c[p] = o
    <3>1. PICK q \in Op : c[q] = o /\ f \in InitialFrames[q]
      BY <1>1, <1>2, <2>2
    <3>2. link[q] = link[p]
      BY <1>1, <1>2, <3>1
    <3>3. InitialFrames[p] \cap InitialFrames[q] # {}
      BY <2>1, <3>1
    <3>4. p = q
      BY <3>2, <3>3, FramesOfTwo
    <3> QED
      BY <3>1, <3>4
  <2>3. ASSUME c[p] = o
        PROVE  f \in frames[o]
    BY <1>1, <1>2, <2>1, <2>3
  <2> QED
    BY <2>1, <2>2, <2>3
<1>3. ASSUME NEW p \in Op
      PROVE  Carriers(p) = {c[p]}
  <2>1. link[p] \in Link
    BY OperationAssumption
  <2>2. \A o : o \in Carriers(p) <=>
          o \in Op /\ link[o] = link[p] /\ Present(g, o) /\ InitialFrames[p] \subseteq frames[o]
    BY <2>1, OperationsOnLink DEF Carriers
  <2>3. \A o : o \in Carriers(p) <=> o = c[p]
    BY <1>1, <1>2, <2>2
  <2> QED
    BY <2>3
<1>4. ASSUME NEW p \in Node
      PROVE  Carrier(p) = c[p]
  <2>1. CASE IsTerminal(p)
    BY <1>1, <2>1 DEF Carrier
  <2>2. CASE ~IsTerminal(p)
    <3>1. p \in Op
      BY <2>2 DEF Node, IsTerminal
    <3>2. Carrier(p) = CHOOSE o \in Carriers(p) : TRUE
      BY <2>2 DEF Carrier
    <3> QED
      BY <1>3, <3>1, <3>2
  <2> QED
    BY <2>1, <2>2
<1>5. ASSUME NEW o \in Op, Present(g, o)
      PROVE  Merged(o) = {p \in Op : c[p] = o}
  BY <1>1, <1>2, <1>5 DEF Merged
<1> QED
  BY <1>3, <1>4, <1>5
LEMMA InvKeepsType ==
  ASSUME Inv
  PROVE  TypeOK
<1>1. /\ GraphInv(g) /\ LogInv /\ CacheInv
      /\ g \in GraphType /\ Placed(g) /\ PastVector(g)
  BY DEF Inv, GraphInv
<1>2. PICK c : Contracts(g, c)
  BY <1>1 DEF GraphInv
<1>3. /\ order \in [Link -> Seq(Op)] /\ position \in [Op -> Int]
      /\ route_pred \in [Node -> Seq(Node)] /\ route_succ \in [Node -> Seq(Node)]
      /\ DOMAIN order = Link /\ DOMAIN position = Op
  BY <1>1, GraphFields DEF GraphType
<1>4. \A o \in Op : link[o] \in Link /\ Len(order[link[o]]) \in Nat
  BY <1>3, OperationAssumption, LenProperties
<1>5. \A o \in Op : Present(g, o) <=> o \in Range(order[link[o]])
  BY GraphFields DEF Present, OnLink
<1>6. \A l \in Link : OnLink(g, l) \subseteq {o \in Op : link[o] = l}
  BY <1>1, OperationsOnLink
<1>7. ASSUME NEW o \in Op, Present(g, o)
      PROVE  /\ position[o] \in Nat /\ frames[o] # {}
             /\ position[o] + 1 \in DOMAIN order[link[o]]
             /\ order[link[o]][position[o] + 1] = o
  <2>1. /\ position[o] \in 0 .. Len(order[link[o]]) - 1
        /\ position[o] + 1 \in 1 .. Len(order[link[o]])
        /\ order[link[o]][position[o] + 1] = o
    BY <1>1, <1>5, <1>7, WhereItStands, GraphFields
  <2>2. position[o] \in Nat
    BY <1>4, <2>1
  <2>3. DOMAIN order[link[o]] = 1 .. Len(order[link[o]])
    BY <1>3, <1>4, LenProperties
  <2>4. PICK f : InitialFrames[o] = {f}
    BY FramesOfTwo
  <2>5. c[o] = o /\ (f \in frames[o] <=> \E p \in Op : c[p] = o /\ f \in InitialFrames[p])
    BY <1>2, <1>7, GraphFields DEF Contracts
  <2>6. f \in frames[o]
    BY <2>4, <2>5
  <2> QED
    BY <2>1, <2>2, <2>3, <2>6
<1>8. ASSUME NEW o \in Op, ~Present(g, o)
      PROVE  /\ position[o] \in Nat \cup {Unset} /\ frames[o] = {}
             /\ position[o] = Unset \/ ~is_valid(o)
  <2>1. frames[o] = {}
    BY <1>2, <1>8, GraphFields DEF Contracts
  <2>2. position[o] = Unset \/ position[o] >= Len(order[link[o]])
    BY <1>1, <1>5, <1>8, GraphFields DEF PastVector
  <2>3. position[o] \in Int
    BY <1>3
  <2>4. position[o] >= Len(order[link[o]]) => position[o] \in Nat
    BY <1>4, <2>3
  <2> QED
    BY <1>4, <2>1, <2>2, <2>3, <2>4 DEF is_valid
<1>9. PositionsAreCurrent
  BY <1>7, <1>8 DEF PositionsAreCurrent
<1>10. \A o \in Op : position[o] \in IF Present(g, o) THEN Nat ELSE Nat \cup {Unset}
  BY <1>7, <1>8
<1>11. \A o \in Node : Range(route_pred[o]) \cup Range(route_succ[o]) \subseteq Node
  BY <1>3, RangeOfSeq
<1>12. flip_log_.merged \in BOOLEAN
  BY <1>1 DEF LogInv
<1>13. ASSUME NEW o \in DOMAIN flip_log_.entries
       PROVE  Present(g, o) /\ flip_log_.entries[o] + 1 \in DOMAIN order[link[o]]
  <2> DEFINE log == flip_log_.entries
             x == Earlier(g, log, before)
  <2>1. /\ log \in Logs(g) /\ Placed(x) /\ SameQueues(x, g)
        /\ x.order = before /\ x.position = Back(position, log)
    BY <1>1, GraphFields DEF LogInv, LeadsBack, Earlier
  <2>2. Present(g, o) /\ o \in Op
    BY <2>1 DEF Logs
  <2>3. x.position[o] = log[o]
    <3>1. Back(position, log)[o] = IF o \in DOMAIN log THEN log[o] ELSE position[o]
      BY <1>3, <2>1, <2>2, BackPositions, Zenon
    <3>2. o \in DOMAIN log
      BY <1>13
    <3> QED
      BY <2>1, <3>1, <3>2
  <2>4. Len(before[link[o]]) = Len(order[link[o]]) /\ Range(before[link[o]]) = Range(order[link[o]])
    BY <1>4, <2>1, <2>2, GraphFields DEF SameQueues
  <2> HIDE DEF x
  <2>5. x.position[o] + 1 \in 1 .. Len(before[link[o]])
    BY <1>5, <2>1, <2>2, <2>4, WhereItStands
  <2>6. DOMAIN order[link[o]] = 1 .. Len(order[link[o]])
    BY <1>3, <1>4, <2>2, LenProperties
  <2> QED
    BY <2>2, <2>3, <2>4, <2>5, <2>6
<1> QED
  BY <1>1, <1>3, <1>6, <1>9, <1>10, <1>11, <1>12, <1>13 DEF TypeOK, CacheInv, Node

LEMMA InvKeepsFrames ==
  ASSUME Inv
  PROVE  FramesAreKept
<1>1. GraphInv(g)
  BY DEF Inv
<1>2. PICK c : Contracts(g, c)
  BY <1>1 DEF GraphInv
<1>3. /\ \A p \in Op : c[p] \in Op /\ Present(g, c[p]) /\ link[c[p]] = link[p]
      /\ \A o \in Op : \A f : Present(g, o) =>
           (f \in frames[o] <=> \E p \in Op : c[p] = o /\ f \in InitialFrames[p])
  BY <1>2, GraphFields DEF Contracts
<1>4. ASSUME NEW p \in Op
      PROVE  \E o \in OnLink(g, link[p]) : Carriers(p) = {o}
  <2>1. link[p] \in Link
    BY OperationAssumption
  <2>2. c[p] \in OnLink(g, link[p])
    BY <1>1, <1>3, <2>1, OperationsOnLink
  <2> QED
    BY <1>1, <1>2, <2>2, CarriersOf
<1>5. ASSUME NEW l \in Link
      PROVE  UNION {frames[o] : o \in OnLink(g, l)}
               = UNION {InitialFrames[p] : p \in {o \in Op : link[o] = l}}
  <2>1. \A o : o \in OnLink(g, l) <=> o \in Op /\ link[o] = l /\ Present(g, o)
    BY <1>1, OperationsOnLink
  <2>2. ASSUME NEW f, NEW o \in OnLink(g, l), f \in frames[o]
        PROVE  \E p \in Op : link[p] = l /\ f \in InitialFrames[p]
    BY <1>3, <2>1, <2>2
  <2>3. ASSUME NEW f, NEW p \in Op, link[p] = l, f \in InitialFrames[p]
        PROVE  \E o \in OnLink(g, l) : f \in frames[o]
    BY <1>3, <2>1, <2>3
  <2> QED
    BY <2>2, <2>3
<1> QED
  BY <1>4, <1>5 DEF FramesAreKept

\* A list in which the links are apart has no operation twice.
LEMMA ApartIsListedOnce ==
  ASSUME NEW list \in Seq(Node), Apart(list)
  PROVE  ListedOnce(list)
<1>1. DOMAIN list = 1 .. Len(list)
  BY LenProperties
<1> QED
  BY <1>1 DEF Apart, ListedOnce

\* The neighbours of x are those of what x stands for.
Inherits(c, initial, now, x) ==
  \A y : y \in Range(now[x]) <=>
           \E p, q \in Node : c[p] = x /\ c[q] = y /\ q \in Range(initial[p])

\* The carriers of the initial neighbours of p, and of all that x stands for.
Carried(initial, p) == {Carrier(q) : q \in Range(initial[p])}

CarriedForAll(initial, x) == UNION {Carried(initial, p) : p \in Merged(x)}

LEMMA ContractedNeighbors ==
  ASSUME GraphInv(g), NEW c, Contracts(g, c),
         NEW initial, initial \in [Node -> Seq(Node)], NEW now, NEW x, x \in Existing(g),
         Inherits(c, initial, now, x)
  PROVE  /\ x \in Op => Range(now[x]) = CarriedForAll(initial, x)
         /\ x \in {SOURCE_ID, SINK_ID} => Range(now[x]) = Carried(initial, x)
<1>1. /\ \A p \in Node : IsTerminal(p) => c[p] = p
      /\ \A p \in Op : c[p] \in Op
  BY DEF Contracts
<1>2. /\ \A p \in Node : p \in Op \/ IsTerminal(p)
      /\ \A p \in Op : ~IsTerminal(p) /\ p \in Node
      /\ SOURCE_ID \in Node /\ SINK_ID \in Node
  BY OperationAssumption DEF Node, IsTerminal
<1>3. /\ \A p \in Node : Carrier(p) = c[p]
      /\ \A o \in Op : Present(g, o) => Merged(o) = {p \in Op : c[p] = o}
  BY CarriersOf
<1>4. \A p \in Node : Range(initial[p]) \subseteq Node
  BY RangeOfSeq
<1>5. ASSUME x \in Op
      PROVE  Range(now[x]) = CarriedForAll(initial, x)
  <2>1. Present(g, x)
    BY <1>2, <1>5 DEF Existing, IsTerminal
  <2>2. \A p : p \in Merged(x) <=> p \in Node /\ c[p] = x
    BY <1>1, <1>2, <1>3, <1>5, <2>1
  <2>3. ASSUME NEW p \in Merged(x)
        PROVE  \A y : y \in Carried(initial, p) <=>
                        \E q \in Node : c[q] = y /\ q \in Range(initial[p])
    BY <1>3, <1>4, <2>2 DEF Carried
  <2>4. ASSUME NEW y
        PROVE  y \in Range(now[x]) <=>
                 \E p \in Merged(x) : y \in Carried(initial, p)
    <3>1. y \in Range(now[x]) <=>
            \E p \in Merged(x) : \E q \in Node : c[q] = y /\ q \in Range(initial[p])
      BY <2>2, Zenon DEF Inherits
    <3> QED
      BY <2>3, <3>1, Zenon
  <2>5. \A y : y \in CarriedForAll(initial, x) <=>
                 \E p \in Merged(x) : y \in Carried(initial, p)
    BY DEF CarriedForAll
  <2> QED
    BY <2>4, <2>5
<1>6. ASSUME x \in {SOURCE_ID, SINK_ID}
      PROVE  Range(now[x]) = Carried(initial, x)
  <2>1. x \in Node /\ IsTerminal(x)
    BY <1>2, <1>6 DEF IsTerminal
  <2>2. \A p \in Node : c[p] = x <=> p = x
    BY <1>1, <1>2, <2>1
  <2>3. \A y : y \in Carried(initial, x) <=>
                 \E q \in Node : c[q] = y /\ q \in Range(initial[x])
    BY <1>3, <1>4, <2>1 DEF Carried
  <2>4. \A y : y \in Range(now[x]) <=> y \in Carried(initial, x)
    BY <2>1, <2>2, <2>3 DEF Inherits
  <2> QED
    BY <2>4
<1> QED
  BY <1>5, <1>6

LEMMA ContractedNeighborsOf ==
  ASSUME GraphInv(g), NEW c, Contracts(g, c)
  PROVE  \A initial, now, x :
           /\ initial \in [Node -> Seq(Node)]
           /\ x \in Existing(g)
           /\ Inherits(c, initial, now, x)
           => /\ x \in Op => Range(now[x]) = CarriedForAll(initial, x)
              /\ x \in {SOURCE_ID, SINK_ID} => Range(now[x]) = Carried(initial, x)
BY ContractedNeighbors

LEMMA InvKeepsEdges ==
  ASSUME Inv
  PROVE  JobEdgesAreContracted
<1>1. /\ GraphInv(g) /\ ListsApart(g)
      /\ route_pred \in [Node -> Seq(Node)] /\ route_succ \in [Node -> Seq(Node)]
  BY GraphFields DEF Inv, GraphInv, GraphType
<1>2. PICK c : Contracts(g, c)
  BY <1>1 DEF GraphInv
<1>3. /\ InitialPred \in [Node -> Seq(Node)] /\ InitialSucc \in [Node -> Seq(Node)]
  BY InitialRoutes
<1>4. /\ \A x \in Existing(g) : Inherits(c, InitialPred, route_pred, x)
      /\ \A x \in Existing(g) : Inherits(c, InitialSucc, route_succ, x)
  BY <1>2, GraphFields DEF Contracts, Inherits
<1>4a. \A initial, now, x :
         /\ initial \in [Node -> Seq(Node)]
         /\ x \in Existing(g)
         /\ Inherits(c, initial, now, x)
         => /\ x \in Op => Range(now[x]) = CarriedForAll(initial, x)
            /\ x \in {SOURCE_ID, SINK_ID} => Range(now[x]) = Carried(initial, x)
  BY <1>1, <1>2, ContractedNeighborsOf
<1>5. /\ SOURCE_ID \in Existing(g) /\ SINK_ID \in Existing(g)
      /\ \A o \in Op : Present(g, o) => o \in Existing(g)
  BY DEF Existing
<1>6. ASSUME NEW o \in Op, Present(g, o)
      PROVE  /\ Range(route_succ[o]) = CarriedForAll(InitialSucc, o)
             /\ Range(route_pred[o]) = CarriedForAll(InitialPred, o)
             /\ ListedOnce(route_succ[o]) /\ ListedOnce(route_pred[o])
  <2>0. o \in Existing(g) /\ Inherits(c, InitialPred, route_pred, o) /\ Inherits(c, InitialSucc, route_succ, o)
    BY <1>4, <1>5, <1>6
  <2>1. Range(route_succ[o]) = CarriedForAll(InitialSucc, o)
    BY <1>3, <1>4a, <2>0, Zenon
  <2>2. Range(route_pred[o]) = CarriedForAll(InitialPred, o)
    BY <1>3, <1>4a, <2>0, Zenon
  <2>3. Apart(route_succ[o]) /\ Apart(route_pred[o])
    BY <1>1, <1>6, GraphFields DEF ListsApart
  <2>4. ListedOnce(route_succ[o]) /\ ListedOnce(route_pred[o])
    BY <1>1, <2>3, ApartIsListedOnce DEF Node
  <2> QED
    BY <2>1, <2>2, <2>4
<1>7. /\ Range(route_succ[SOURCE_ID]) = Carried(InitialSucc, SOURCE_ID)
      /\ Range(route_pred[SINK_ID]) = Carried(InitialPred, SINK_ID)
  <2>0. Inherits(c, InitialSucc, route_succ, SOURCE_ID) /\ Inherits(c, InitialPred, route_pred, SINK_ID)
    BY <1>4, <1>5
  <2>1. Range(route_succ[SOURCE_ID]) = Carried(InitialSucc, SOURCE_ID)
    BY <1>3, <1>4a, <1>5, <2>0, Zenon
  <2>2. Range(route_pred[SINK_ID]) = Carried(InitialPred, SINK_ID)
    BY <1>3, <1>4a, <1>5, <2>0, Zenon
  <2> QED
    BY <2>1, <2>2
<1>8. \A l \in Link : \A o \in OnLink(g, l) : o \in Op /\ Present(g, o)
  BY <1>1, OperationsOnLink
<1> QED
  BY <1>6, <1>7, <1>8, Zenon DEF JobEdgesAreContracted, CarriedForAll, Carried

LEMMA InvClosesMerges ==
  ASSUME Inv
  PROVE  MergesAreClosed
<1>1. /\ GraphInv(g) /\ ListsApart(g)
      /\ route_pred \in [Node -> Seq(Node)] /\ route_succ \in [Node -> Seq(Node)]
  BY GraphFields DEF Inv, GraphInv, GraphType
<1>2. PICK c : Contracts(g, c)
  BY <1>1 DEF GraphInv
<1>3. /\ \A p \in Op : c[p] \in Op /\ Present(g, c[p]) /\ link[c[p]] = link[p]
      /\ \A x \in Existing(g) : \A y : y \in Range(route_pred[x]) <=>
           \E p, q \in Node : c[p] = x /\ c[q] = y /\ q \in Range(InitialPred[p])
      /\ \A x \in Existing(g) : \A y : y \in Range(route_succ[x]) <=>
           \E p, q \in Node : c[p] = x /\ c[q] = y /\ q \in Range(InitialSucc[p])
  BY <1>2, GraphFields DEF Contracts
<1>4. \A p \in Op : p \in Node /\ ~IsTerminal(p) /\ Carrier(p) = c[p]
  BY <1>1, <1>2, CarriersOf, OperationAssumption DEF Node, IsTerminal
<1> SUFFICES ASSUME NEW p \in Op, NEW q \in Op, Carrier(p) = Carrier(q),
                    NEW m \in Op, NEW n \in Op, link[m] = link[n],
                    \/ m \in Range(InitialPred[p]) /\ n \in Range(InitialPred[q])
                    \/ m \in Range(InitialSucc[p]) /\ n \in Range(InitialSucc[q])
             PROVE  Carrier(m) = Carrier(n)
  BY DEF MergesAreClosed
<1> DEFINE x == c[p]
<1>5. x = c[q] /\ x \in Op /\ Present(g, x) /\ x \in Existing(g) /\ x \in Node
  BY <1>3, <1>4 DEF Existing
<1>6. c[m] \in Op /\ c[n] \in Op /\ link[c[m]] = link[c[n]]
  BY <1>3
<1>7. Apart(route_pred[x]) /\ Apart(route_succ[x])
  BY <1>1, <1>5, GraphFields DEF ListsApart
<1>8. \/ c[m] \in Range(route_pred[x]) /\ c[n] \in Range(route_pred[x])
      \/ c[m] \in Range(route_succ[x]) /\ c[n] \in Range(route_succ[x])
  BY <1>3, <1>4, <1>5
<1>9. route_pred[x] \in Seq(Node) /\ route_succ[x] \in Seq(Node)
  BY <1>1, <1>5
<1>10. c[m] = c[n]
  BY <1>4, <1>6, <1>7, <1>8, <1>9, ApartElements
<1> QED
  BY <1>4, <1>10
\* What undo_last_flip would make of the graph is the order before the flip.
LEMMA InvLeadsBack ==
  ASSUME Inv
  PROVE  UndoLeadsBack
<1> DEFINE x == Earlier(g, flip_log_.entries, before)
           undone == undo(g, flip_log_.entries)
<1>1. GraphInv(g) /\ LeadsBack(g, flip_log_.entries, before)
  BY DEF Inv, LogInv
<1>2. undone = Reordered(g, x)
  BY <1>1, UndoneVectors
<1>3. Placed(x) /\ x.order = before
  BY <1>1 DEF LeadsBack, Earlier
<1>4. Reordered(g, x).order = x.order /\ Reordered(g, x).position = x.position
  BY <1>1, <1>3, ReorderedGraph DEF GraphInv, LeadsBack
<1> HIDE DEF x
<1>5. before \in [Link -> Seq(Op)]
  BY <1>3 DEF Placed
<1>6. ASSUME NEW l \in Link, NEW i \in DOMAIN before[l]
      PROVE  undone.position[before[l][i]] = i - 1
  <2>1. i \in 1 .. Len(before[l])
    BY <1>5, LenProperties
  <2>2. x.position[before[l][i]] = i - 1
    BY <1>3, <2>1 DEF Placed
  <2> QED
    BY <1>2, <1>4, <2>2
<1>7. undone.order = before
  BY <1>2, <1>3, <1>4
<1> QED
  BY <1>6, <1>7 DEF UndoLeadsBack

\* Merges that join pairs that are apart keep the types: an operation stands in
\* its link's vector where position_ says, or has been merged and is invalid.
THEOREM TypesAreKept == Spec /\ []MergesArePairwise => []TypeOK
<1>1. Inv => TypeOK
  BY InvKeepsType
<1> QED
  BY <1>1, SpecKeepsInv, PTL

\* As long as merges join pairs that are apart, merge loses no frame and doubles
\* none: on every link, one operation transmits each frame of the link.
THEOREM NoFrameIsLost == Spec /\ []MergesArePairwise => []FramesAreKept
<1>1. Inv => FramesAreKept
  BY InvKeepsFrames
<1> QED
  BY <1>1, SpecKeepsInv, PTL

\* As long as merges join pairs that are apart, the job edges are at all times
\* those of the initial graph, contracted: neither redirecting the edges of a pair
\* nor deleting the merged neighbours loses an edge or leads to a merged operation.
THEOREM NoEdgeIsLost == Spec /\ []MergesArePairwise => []JobEdgesAreContracted
<1>1. Inv => JobEdgesAreContracted
  BY InvKeepsEdges
<1> QED
  BY <1>1, SpecKeepsInv, PTL

\* As long as merges join pairs that are apart, frames that are merged on a link
\* are merged on all links they travel together.
THEOREM MergesCloseClasses == Spec /\ []MergesArePairwise => []MergesAreClosed
<1>1. Inv => MergesAreClosed
  BY InvClosesMerges
<1> QED
  BY <1>1, SpecKeepsInv, PTL

\* As long as merges join pairs that are apart, undo_last_flip leads back to the
\* order before the last flip if nothing was merged since: the logged operations,
\* each written back to the slot it was logged from, displace no other.
THEOREM UndosLeadBack == Spec /\ []MergesArePairwise => []UndoLeadsBack
<1>1. Inv => UndoLeadsBack
  BY InvLeadsBack
<1> QED
  BY <1>1, SpecKeepsInv, PTL
=============================================================================
