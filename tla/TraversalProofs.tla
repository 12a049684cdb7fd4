---------------------------- MODULE TraversalProofs ----------------------------
(***************************************************************************)
(* Proofs about Traversal, for every graph and every consumer: the types,  *)
(* and that vertices are finished in the order of the dependencies.        *)
(*                                                                         *)
(* The order of finishing is not inductive: FinishVertex needs to know     *)
(* that what the vertex depends on is finished.  It follows from what is   *)
(* known of the visitor states that have been entered and not left: their  *)
(* vertices are the gray ones, and the sources of the edges behind them    *)
(* are finished, but for the one that is visited from there.               *)
(*                                                                         *)
(* Ancestors(v) is the least set that contains v and what its members      *)
(* depend on.  Visited vertices stay within it, and when the stack is      *)
(* empty they are such a set.                                              *)
(***************************************************************************)
EXTENDS Traversal, Induction, SequenceTheorems, TLAPS

\* The number of visitor states entered and not left, and the i-th of them.
Depth == IF pc = "visit" THEN Len(stack) + 1 ELSE Len(stack)

At(i) == IF i <= Len(stack) THEN stack[i] ELSE next

\* The gray vertices are those of the visitor states, each in one of them.
GrayIsPath ==
  /\ \A v \in Vertex : color[v] = GRAY <=> \E i \in 1 .. Depth : At(i).op = v
  /\ \A i, j \in 1 .. Depth : At(i).op = At(j).op => i = j

\* The edges behind an iterator lead to finished vertices, if they are no back
\* edges, or to the vertex that is visited from there.
PathIsExamined ==
  \A i \in 1 .. Depth : \A j \in 1 .. At(i).it - 1 :
    \/ color[edges[At(i).op][j].source] = BLACK
    \/ edges[At(i).op][j] \in back_edges
    \/ i < Depth /\ edges[At(i).op][j].source = At(i + 1).op

Path == GrayIsPath /\ PathIsExamined

IInv == /\ edges \in Graphs
        /\ TypeOK
        /\ pc # "idle" => Path
        /\ FinishedInOrder

-----------------------------------------------------------------------------
(* The edges of a graph, and the visitor states after a step. *)

LEMMA EdgesOfGraph ==
  ASSUME edges \in Graphs, NEW v \in Vertex
  PROVE  /\ edges[v] \in Seq(Edge)
         /\ Len(edges[v]) \in Nat
         /\ \A i \in 1 .. Len(edges[v]) : /\ edges[v][i] \in Edge
                                          /\ edges[v][i].source \in Vertex
                                          /\ edges[v][i].target = v
<1>1. edges[v] \in Seq(Edge)
  BY GraphAssumption
<1>2. \A i \in 1 .. Len(edges[v]) : edges[v][i].target = v
  BY GraphAssumption
<1>3. \A i \in 1 .. Len(edges[v]) : edges[v][i] \in Edge
  BY <1>1
<1>4. \A i \in 1 .. Len(edges[v]) : edges[v][i].source \in Vertex
  BY <1>3 DEF Edge
<1>5. Len(edges[v]) \in Nat
  BY <1>1
<1>6. QED
  BY <1>1, <1>2, <1>3, <1>4, <1>5

LEMMA DepthType == TypeOK => Len(stack) \in Nat /\ Depth \in Nat
<1>1. TypeOK => stack \in Seq(State)
  BY DEF TypeOK
<1>2. QED
  BY <1>1 DEF Depth

LEMMA AtType ==
  ASSUME TypeOK, NEW i \in 1 .. Depth
  PROVE  /\ At(i) \in State
         /\ At(i).op \in Vertex
         /\ At(i).it \in Nat \ {0}
         /\ At(i).it <= Len(edges[At(i).op]) + 1
<1>1. CASE i <= Len(stack)
  <2>1. i \in 1 .. Len(stack) /\ stack \in Seq(State)
    BY <1>1, DepthType DEF TypeOK
  <2>2. stack[i] \in State /\ stack[i].it <= Len(edges[stack[i].op]) + 1
    BY <2>1 DEF TypeOK
  <2>3. QED
    BY <1>1, <2>1, <2>2 DEF At, State
<1>2. CASE ~(i <= Len(stack))
  <2>1. pc = "visit"
    BY <1>2 DEF Depth
  <2>2. QED
    BY <1>2, <2>1 DEF TypeOK, At, State
<1>3. QED
  BY <1>1, <1>2

\* The edge at hand.
LEMMA EdgeAtHand ==
  ASSUME edges \in Graphs, TypeOK, pc = "visit", ~AtEnd
  PROVE  /\ next.op \in Vertex
         /\ next.it \in 1 .. Len(edges[next.op])
         /\ e \in Edge
         /\ e.source \in Vertex
<1>1. /\ next.op \in Vertex /\ next.it \in Nat \ {0}
      /\ next.it <= Len(edges[next.op]) + 1
  BY DEF TypeOK, State
<1>2. next.it \in 1 .. Len(edges[next.op])
  BY <1>1, EdgesOfGraph DEF AtEnd
<1>3. QED
  BY <1>1, <1>2, EdgesOfGraph DEF e

LEMMA PopPath ==
  ASSUME TypeOK, Pop
  PROVE  /\ Depth' = Depth
         /\ \A i \in 1 .. Depth : At(i)' = At(i)
         /\ stack' \in Seq(State)
         /\ Len(stack') = Len(stack) - 1
         /\ next' = stack[Len(stack)]
<1>1. stack \in Seq(State) /\ Len(stack) \in Nat \ {0}
  BY DEF TypeOK, Pop
<1>2. stack' = SubSeq(stack, 1, Len(stack) - 1) /\ next' = stack[Len(stack)]
  BY DEF Pop
<1>3. /\ 1 \in 1 .. Len(stack) + 1
      /\ Len(stack) - 1 \in 1 - 1 .. Len(stack)
  BY <1>1
<1>4. /\ stack' \in Seq(State)
      /\ Len(stack') = Len(stack) - 1
      /\ \A i \in 1 .. Len(stack) - 1 : stack'[i] = stack[i]
  <2> DEFINE n == Len(stack) - 1
  <2>1. /\ SubSeq(stack, 1, n) \in Seq(State)
        /\ Len(SubSeq(stack, 1, n)) = IF 1 <= n THEN n - 1 + 1 ELSE 0
        /\ \A i \in 1 .. n - 1 + 1 : SubSeq(stack, 1, n)[i] = stack[1 + i - 1]
    BY <1>1, <1>3, SubSeqProperties
  <2>2. n \in Nat /\ stack' = SubSeq(stack, 1, n)
    BY <1>1, <1>2
  <2> HIDE DEF n
  <2>3. /\ stack' \in Seq(State)
        /\ Len(stack') = n
        /\ \A i \in 1 .. n : stack'[i] = stack[i]
    BY <2>1, <2>2
  <2>4. QED
    BY <2>3 DEF n
<1>5. QED
  BY <1>1, <1>2, <1>4 DEF Pop, Depth, At

LEMMA TreeEdgePath ==
  ASSUME TypeOK, TreeEdge, e \in Edge
  PROVE  /\ Depth \in Nat \ {0}
         /\ Depth' = Depth + 1
         /\ \A i \in 1 .. Depth - 1 : At(i)' = At(i)
         /\ At(Depth) = next
         /\ \A i : i = Depth => At(i)' = Kept
         /\ At(Depth)' = next'
         /\ stack' \in Seq(State)
         /\ next' \in State
<1>1. stack \in Seq(State) /\ Len(stack) \in Nat
  BY DEF TypeOK
<1>2. stack' = Append(stack, Kept) /\ pc = "visit" /\ pc' = "visit"
  BY DEF TreeEdge, TypeOK
<1>3. Kept \in State
  BY DEF Kept, TypeOK, State
<1>4. /\ Len(stack') = Len(stack) + 1
      /\ \A i \in 1 .. Len(stack) : stack'[i] = stack[i]
      /\ stack'[Len(stack) + 1] = Kept
      /\ stack' \in Seq(State)
  BY <1>1, <1>2, <1>3
<1>5. Depth = Len(stack) + 1 /\ Depth' = Len(stack) + 2
  BY <1>1, <1>2, <1>4 DEF Depth
<1>6. At(Depth) = next
  BY <1>1, <1>5 DEF At
<1>7. \A i \in 1 .. Depth - 1 : At(i)' = At(i)
  BY <1>1, <1>4, <1>5 DEF At
<1>8. \A i : i = Depth => At(i)' = Kept
  BY <1>1, <1>4, <1>5 DEF At
<1>9. At(Depth)' = next'
  BY <1>1, <1>4, <1>5 DEF At
<1>10. next' \in State
  BY <1>3 DEF TreeEdge, State, Kept, Edge
<1>11. QED
  BY <1>1, <1>4, <1>5, <1>6, <1>7, <1>8, <1>9, <1>10

\* BackEdge and CrossEdge go on to the next edge of the same vertex.
LEMMA AdvancePath ==
  ASSUME TypeOK, pc = "visit", UNCHANGED <<stack, pc>>,
         next' = [next EXCEPT !.it = @ + 1]
  PROVE  /\ Depth \in Nat \ {0}
         /\ Depth' = Depth
         /\ \A i \in 1 .. Depth - 1 : At(i)' = At(i)
         /\ At(Depth) = next
         /\ \A i : i = Depth => At(i)' = next'
         /\ next' \in State
         /\ next'.op = next.op
         /\ next'.it = next.it + 1
<1>1. Len(stack) \in Nat /\ Depth = Len(stack) + 1 /\ Depth' = Depth
  BY DepthType DEF Depth
<1>2. /\ next' \in State
      /\ next'.op = next.op
      /\ next'.it = next.it + 1
  BY DEF TypeOK, State
<1>3. QED
  BY <1>1, <1>2 DEF At

-----------------------------------------------------------------------------
(* The types. *)

LEMMA TypeInit == Init => edges \in Graphs /\ TypeOK
<1> SUFFICES ASSUME Init
             PROVE  edges \in Graphs /\ TypeOK
  OBVIOUS
<1>1. start \in Vertex
  BY StartAssumption
<1>2. next \in State
  BY <1>1 DEF Init, VisitorState, State
<1>3. stack \in Seq(State) /\ Len(stack) = 0
  BY DEF Init
<1>4. color \in [Vertex -> {WHITE, GRAY, BLACK}] /\ before \in [Vertex -> SUBSET Vertex]
  BY DEF Init
<1>5. QED
  BY <1>2, <1>3, <1>4 DEF Init, TypeOK

LEMMA TypeStep ==
  ASSUME edges \in Graphs, TypeOK, [Next]_vars
  PROVE  edges' \in Graphs /\ TypeOK'
<1>1. ASSUME NEW G \in Graphs, Start(G)
      PROVE  edges' \in Graphs /\ TypeOK'
  <2>1. VisitorState(start) \in State
    BY StartAssumption DEF VisitorState, State
  <2>2. stack' \in Seq(State) /\ Len(stack') = 1 /\ stack'[1] = VisitorState(start)
    BY <1>1, <2>1 DEF Start
  <2>3. edges' \in Graphs
    BY <1>1 DEF Start
  <2>4. Len(edges'[start]) \in Nat
    BY <2>3, GraphAssumption, StartAssumption
  <2>5. \A i \in 1 .. Len(stack') : stack'[i].it <= Len(edges'[stack'[i].op]) + 1
    BY <2>2, <2>4 DEF VisitorState
  <2>6. color' \in [Vertex -> {WHITE, GRAY, BLACK}] /\ before' \in [Vertex -> SUBSET Vertex]
    BY <1>1 DEF Start
  <2>7. QED
    BY <1>1, <2>1, <2>2, <2>3, <2>5, <2>6 DEF Start, TypeOK
<1>2. CASE Pop
  <2>1. stack \in Seq(State) /\ Len(stack) \in Nat \ {0}
    BY <1>2 DEF TypeOK, Pop
  <2>2. /\ stack' \in Seq(State)
        /\ Len(stack') = Len(stack) - 1
        /\ next' = stack[Len(stack)]
    BY <1>2, PopPath
  <2>3. next' \in State /\ next'.it <= Len(edges[next'.op]) + 1
    BY <2>1, <2>2 DEF TypeOK
  <2>4. \A i \in 1 .. Len(stack') : stack'[i] = stack[i]
    BY <1>2, <2>1, <2>2, PopPath DEF Pop, Depth, At
  <2>5. QED
    BY <1>2, <2>1, <2>2, <2>3, <2>4 DEF Pop, TypeOK
<1>3. CASE TreeEdge
  <2>1. /\ next.op \in Vertex /\ next.it \in 1 .. Len(edges[next.op])
        /\ e \in Edge /\ e.source \in Vertex
    BY <1>3, EdgeAtHand DEF TreeEdge
  <2>2. stack' \in Seq(State) /\ next' \in State
    BY <1>3, <2>1, TreeEdgePath
  <2>3. stack \in Seq(State) /\ Kept \in State
    BY <2>1 DEF TypeOK, Kept, State
  <2>4. \A i \in 1 .. Len(stack') : i \in 1 .. Len(stack) \/ stack'[i] = Kept
    BY <1>3, <2>3 DEF TreeEdge
  <2>5. \A i \in 1 .. Len(stack) : stack'[i] = stack[i]
    BY <1>3, <2>3 DEF TreeEdge
  <2>6. Kept.it <= Len(edges[Kept.op]) + 1
    BY <2>1, EdgesOfGraph DEF Kept
  <2>7. \A i \in 1 .. Len(stack') : stack'[i].it <= Len(edges[stack'[i].op]) + 1
    BY <2>4, <2>5, <2>6 DEF TypeOK
  <2>8. next'.it <= Len(edges[next'.op]) + 1
    BY <1>3, <2>1, EdgesOfGraph DEF TreeEdge
  <2>9. color' \in [Vertex -> {WHITE, GRAY, BLACK}]
    BY <1>3, <2>1 DEF TreeEdge, TypeOK
  <2>10. QED
    BY <1>3, <2>2, <2>7, <2>8, <2>9 DEF TreeEdge, TypeOK
<1>4. CASE BackEdge \/ CrossEdge
  <2>1. /\ pc = "visit" /\ ~AtEnd /\ UNCHANGED <<edges, color, stack, pc, before>>
        /\ next' = [next EXCEPT !.it = @ + 1]
    BY <1>4 DEF BackEdge, CrossEdge
  <2>2. next.op \in Vertex /\ next.it \in 1 .. Len(edges[next.op]) /\ e \in Edge
    BY <2>1, EdgeAtHand
  <2>3. next' \in State /\ next'.op = next.op /\ next'.it = next.it + 1
    BY <2>1, AdvancePath
  <2>4. next'.it <= Len(edges[next'.op]) + 1
    BY <2>2, <2>3, EdgesOfGraph
  <2>5. back_edges' \in SUBSET Edge
    BY <1>4, <2>2 DEF BackEdge, CrossEdge, TypeOK
  <2>6. QED
    BY <2>1, <2>3, <2>4, <2>5 DEF TypeOK
<1>5. CASE FinishVertex
  <2>1. next.op \in Vertex
    BY DEF TypeOK, State
  <2>2. Black \in SUBSET Vertex
    BY DEF Black
  <2>3. /\ color' \in [Vertex -> {WHITE, GRAY, BLACK}]
        /\ before' \in [Vertex -> SUBSET Vertex]
    BY <1>5, <2>1, <2>2 DEF FinishVertex, TypeOK
  <2>4. QED
    BY <1>5, <2>3 DEF FinishVertex, TypeOK
<1>6. CASE Complete
  BY <1>6 DEF Complete, TypeOK
<1>7. CASE Destroy
  <2>1. stack' \in Seq(State) /\ Len(stack') = 0
    BY <1>7 DEF Destroy
  <2>2. QED
    BY <1>7, <2>1 DEF Destroy, TypeOK
<1>8. CASE UNCHANGED vars
  BY <1>8 DEF vars, TypeOK
<1>9. QED
  BY <1>1, <1>2, <1>3, <1>4, <1>5, <1>6, <1>7, <1>8 DEF Next, Visit

\* Every run keeps the types: no iterator is read past the edges of its vertex.
THEOREM TypeCorrect == Spec => []TypeOK
<1> DEFINE Inv == edges \in Graphs /\ TypeOK
<1>1. Init => Inv
  BY TypeInit
<1>2. Inv /\ [Next]_vars => Inv'
  BY TypeStep
<1>3. QED
  BY <1>1, <1>2, PTL DEF Spec

-----------------------------------------------------------------------------
(* The visitor states that have been entered and not left. *)

LEMMA PathOfPop ==
  ASSUME TypeOK, Path, Pop
  PROVE  Path'
<1>1. Depth' = Depth /\ \A i \in 1 .. Depth : At(i)' = At(i)
  BY PopPath
<1>2. UNCHANGED <<edges, color, back_edges>>
  BY DEF Pop
<1>3. Depth \in Nat
  BY DepthType
<1>4. GrayIsPath'
  BY <1>1, <1>2 DEF Path, GrayIsPath
<1>5. PathIsExamined'
  BY <1>1, <1>2, <1>3 DEF Path, PathIsExamined
<1>6. QED
  BY <1>4, <1>5 DEF Path

LEMMA PathOfTreeEdge ==
  ASSUME edges \in Graphs, TypeOK, Path, TreeEdge
  PROVE  Path'
<1>1. /\ next.op \in Vertex /\ next.it \in 1 .. Len(edges[next.op])
      /\ e \in Edge /\ e.source \in Vertex
  BY EdgeAtHand DEF TreeEdge
<1>2. /\ Depth \in Nat \ {0}
      /\ Depth' = Depth + 1
      /\ \A i \in 1 .. Depth - 1 : At(i)' = At(i)
      /\ At(Depth) = next
      /\ \A i : i = Depth => At(i)' = Kept
      /\ \A i : i = Depth + 1 => At(i)' = next'
  BY <1>1, TreeEdgePath
<1>3. /\ color[e.source] = WHITE
      /\ color' = [color EXCEPT ![e.source] = GRAY]
      /\ color \in [Vertex -> {WHITE, GRAY, BLACK}]
      /\ next'.op = e.source /\ next'.it = 1
      /\ UNCHANGED <<edges, back_edges>>
  BY DEF TreeEdge, TypeOK
<1>4. Kept.op = next.op /\ Kept.it = next.it + 1
  BY DEF Kept
<1>5. \A i \in 1 .. Depth : At(i)'.op = At(i).op
  BY <1>2, <1>4
<1>6. \A i : i = Depth + 1 => At(i)'.op = e.source
  BY <1>2, <1>3
<1>7. \A i \in 1 .. Depth : At(i).op # e.source
  BY <1>1, <1>3 DEF Path, GrayIsPath, WHITE, GRAY
<1>8. \A v \in Vertex : color'[v] = GRAY <=> color[v] = GRAY \/ v = e.source
  BY <1>1, <1>3
<1>9. GrayIsPath'
  <2>1. ASSUME NEW v \in Vertex
        PROVE  color'[v] = GRAY <=> \E i \in 1 .. Depth' : At(i)'.op = v
    <3>1. color[v] = GRAY <=> \E i \in 1 .. Depth : At(i).op = v
      BY DEF Path, GrayIsPath
    <3>2. color[v] = GRAY <=> \E i \in 1 .. Depth : At(i)'.op = v
      BY <3>1, <1>5
    <3>3. (\E i \in 1 .. Depth' : At(i)'.op = v)
             <=> (\E i \in 1 .. Depth : At(i)'.op = v) \/ v = e.source
      BY <1>2, <1>6
    <3>4. QED
      BY <3>2, <3>3, <1>8
  <2>2. ASSUME NEW i \in 1 .. Depth', NEW j \in 1 .. Depth', At(i)'.op = At(j)'.op
        PROVE  i = j
    <3>1. CASE i \in 1 .. Depth /\ j \in 1 .. Depth
      BY <2>2, <3>1, <1>5 DEF Path, GrayIsPath
    <3>2. CASE i = Depth + 1 /\ j = Depth + 1
      BY <3>2
    <3>3. CASE i \in 1 .. Depth /\ j = Depth + 1
      BY <2>2, <3>3, <1>5, <1>6, <1>7
    <3>4. CASE i = Depth + 1 /\ j \in 1 .. Depth
      BY <2>2, <3>4, <1>5, <1>6, <1>7
    <3>5. QED
      BY <3>1, <3>2, <3>3, <3>4, <1>2
  <2>3. QED
    BY <2>1, <2>2 DEF GrayIsPath
<1>10. PathIsExamined'
  <2>1. \A v \in Vertex : color'[v] = BLACK <=> color[v] = BLACK
    BY <1>1, <1>3 DEF WHITE, GRAY, BLACK
  <2>2. ASSUME NEW i \in 1 .. Depth', NEW j \in 1 .. At(i)'.it - 1
        PROVE  \/ color'[edges[At(i)'.op][j].source] = BLACK
               \/ edges[At(i)'.op][j] \in back_edges
               \/ i < Depth' /\ edges[At(i)'.op][j].source = At(i + 1)'.op
    <3>1. CASE i < Depth
      <4>1. At(i)' = At(i) /\ At(i + 1)'.op = At(i + 1).op /\ i \in 1 .. Depth
        BY <3>1, <1>2, <1>5
      <4>2. At(i).it \in Nat \ {0} /\ At(i).it <= Len(edges[At(i).op]) + 1 /\ At(i).op \in Vertex
        BY <4>1, AtType
      <4>3. j \in 1 .. At(i).it - 1 /\ j \in 1 .. Len(edges[At(i).op])
        BY <4>1, <4>2, EdgesOfGraph
      <4>4. edges[At(i).op][j].source \in Vertex
        BY <4>2, <4>3, EdgesOfGraph
      <4>5. \/ color[edges[At(i).op][j].source] = BLACK
            \/ edges[At(i).op][j] \in back_edges
            \/ i < Depth /\ edges[At(i).op][j].source = At(i + 1).op
        BY <4>1, <4>3 DEF Path, PathIsExamined
      <4>6. QED
        BY <4>1, <4>4, <4>5, <2>1, <3>1, <1>2
    <3>2. CASE i = Depth
      <4>1. /\ At(i)'.op = next.op /\ j \in 1 .. next.it
            /\ At(i) = next /\ At(i + 1)'.op = e.source /\ i < Depth'
        BY <3>2, <1>1, <1>2, <1>4, <1>6
      <4>2. CASE j = next.it
        BY <4>1, <4>2 DEF e
      <4>3. CASE j \in 1 .. next.it - 1
        <5>1. edges[next.op][j].source \in Vertex
          BY <4>3, <1>1, EdgesOfGraph
        <5>2. \/ color[edges[next.op][j].source] = BLACK
              \/ edges[next.op][j] \in back_edges
          BY <4>1, <4>3, <3>2, <1>2 DEF Path, PathIsExamined
        <5>3. QED
          BY <5>1, <5>2, <4>1, <2>1
      <4>4. QED
        BY <4>1, <4>2, <4>3, <1>1
    <3>3. CASE i = Depth + 1
      BY <3>3, <1>2, <1>3
    <3>4. QED
      BY <3>1, <3>2, <3>3, <1>2
  <2>3. QED
    BY <2>2, <1>3 DEF PathIsExamined
<1>11. QED
  BY <1>9, <1>10 DEF Path

LEMMA PathOfOtherEdge ==
  ASSUME edges \in Graphs, TypeOK, Path, BackEdge \/ CrossEdge
  PROVE  Path'
<1>1. /\ pc = "visit" /\ ~AtEnd /\ UNCHANGED <<edges, color, stack, pc, before>>
      /\ next' = [next EXCEPT !.it = @ + 1]
      /\ color[e.source] = BLACK \/ e \in back_edges'
      /\ back_edges \subseteq back_edges'
  BY DEF BackEdge, CrossEdge
<1>2. /\ next.op \in Vertex /\ next.it \in 1 .. Len(edges[next.op])
      /\ e \in Edge /\ e.source \in Vertex
  BY <1>1, EdgeAtHand
<1>3. /\ Depth \in Nat \ {0}
      /\ Depth' = Depth
      /\ \A i \in 1 .. Depth - 1 : At(i)' = At(i)
      /\ At(Depth) = next
      /\ \A i : i = Depth => At(i)' = next'
      /\ next'.op = next.op
      /\ next'.it = next.it + 1
  BY <1>1, AdvancePath
<1>4. \A i \in 1 .. Depth : At(i)'.op = At(i).op
  BY <1>3
<1>5. GrayIsPath'
  BY <1>1, <1>3, <1>4 DEF Path, GrayIsPath
<1>6. ASSUME NEW i \in 1 .. Depth, NEW j \in 1 .. At(i)'.it - 1
      PROVE  \/ color[edges[At(i)'.op][j].source] = BLACK
             \/ edges[At(i)'.op][j] \in back_edges'
             \/ i < Depth /\ edges[At(i)'.op][j].source = At(i + 1)'.op
  <2>1. CASE i < Depth
    <3>1. At(i)' = At(i) /\ At(i + 1)'.op = At(i + 1).op
      BY <2>1, <1>3, <1>4
    <3>2. \/ color[edges[At(i).op][j].source] = BLACK
          \/ edges[At(i).op][j] \in back_edges
          \/ i < Depth /\ edges[At(i).op][j].source = At(i + 1).op
      BY <3>1 DEF Path, PathIsExamined
    <3>3. QED
      BY <3>1, <3>2, <1>1
  <2>2. CASE i = Depth
    <3>1. At(i)'.op = next.op /\ j \in 1 .. next.it /\ At(i) = next
      BY <2>2, <1>2, <1>3
    <3>2. CASE j = next.it
      BY <3>1, <3>2, <1>1 DEF e
    <3>3. CASE j \in 1 .. next.it - 1
      <4>1. \/ color[edges[next.op][j].source] = BLACK
            \/ edges[next.op][j] \in back_edges
        BY <3>1, <3>3, <2>2, <1>3 DEF Path, PathIsExamined
      <4>2. QED
        BY <4>1, <3>1, <1>1
    <3>4. QED
      BY <3>1, <3>2, <3>3, <1>2
  <2>3. QED
    BY <2>1, <2>2, <1>3
<1>7. PathIsExamined'
  BY <1>1, <1>3, <1>6 DEF PathIsExamined
<1>8. QED
  BY <1>5, <1>7 DEF Path

LEMMA PathOfFinishVertex ==
  ASSUME edges \in Graphs, TypeOK, Path, FinishVertex
  PROVE  Path'
<1>1. /\ Len(stack) \in Nat /\ Depth = Len(stack) + 1 /\ Depth' = Len(stack)
      /\ At(Depth) = next
      /\ \A i \in 1 .. Depth' : At(i)' = At(i) /\ i \in 1 .. Depth
  BY DepthType DEF FinishVertex, Depth, At
<1>2. /\ next.op \in Vertex
      /\ color \in [Vertex -> {WHITE, GRAY, BLACK}]
      /\ color' = [color EXCEPT ![next.op] = BLACK]
      /\ UNCHANGED <<edges, back_edges>>
  BY DEF FinishVertex, TypeOK, State
<1>3. \A v \in Vertex : color'[v] = BLACK <=> color[v] = BLACK \/ v = next.op
  BY <1>2
<1>4. \A v \in Vertex : color'[v] = GRAY <=> color[v] = GRAY /\ v # next.op
  BY <1>2 DEF GRAY, BLACK
<1>5. \A i \in 1 .. Depth' : At(i).op # next.op
  BY <1>1 DEF Path, GrayIsPath
<1>6. GrayIsPath'
  <2>1. ASSUME NEW v \in Vertex
        PROVE  color'[v] = GRAY <=> \E i \in 1 .. Depth' : At(i)'.op = v
    <3>1. color[v] = GRAY <=> \E i \in 1 .. Depth : At(i).op = v
      BY DEF Path, GrayIsPath
    <3>2. (\E i \in 1 .. Depth : At(i).op = v)
             <=> (\E i \in 1 .. Depth' : At(i)'.op = v) \/ v = next.op
      BY <1>1
    <3>3. (\E i \in 1 .. Depth' : At(i)'.op = v) => v # next.op
      BY <1>1, <1>5
    <3>4. QED
      BY <3>1, <3>2, <3>3, <1>4
  <2>2. QED
    BY <2>1, <1>1 DEF Path, GrayIsPath
<1>7. ASSUME NEW i \in 1 .. Depth', NEW j \in 1 .. At(i)'.it - 1
      PROVE  \/ color'[edges[At(i)'.op][j].source] = BLACK
             \/ edges[At(i)'.op][j] \in back_edges
             \/ i < Depth' /\ edges[At(i)'.op][j].source = At(i + 1)'.op
  <2>1. At(i)' = At(i) /\ i \in 1 .. Depth /\ i < Depth
    BY <1>1
  <2>2. At(i).it \in Nat \ {0} /\ At(i).it <= Len(edges[At(i).op]) + 1 /\ At(i).op \in Vertex
    BY <2>1, AtType
  <2>3. j \in 1 .. At(i).it - 1 /\ j \in 1 .. Len(edges[At(i).op])
    BY <2>1, <2>2, EdgesOfGraph
  <2>4. edges[At(i).op][j].source \in Vertex
    BY <2>2, <2>3, EdgesOfGraph
  <2>5. \/ color[edges[At(i).op][j].source] = BLACK
        \/ edges[At(i).op][j] \in back_edges
        \/ i < Depth /\ edges[At(i).op][j].source = At(i + 1).op
    BY <2>1, <2>3 DEF Path, PathIsExamined
  <2>6. CASE i < Depth'
    <3>1. At(i + 1)' = At(i + 1)
      BY <2>6, <1>1
    <3>2. QED
      BY <3>1, <2>1, <2>4, <2>5, <2>6, <1>3
  <2>7. CASE i = Depth'
    <3>1. At(i + 1) = next
      BY <2>7, <1>1
    <3>2. QED
      BY <3>1, <2>1, <2>4, <2>5, <1>3
  <2>8. QED
    BY <2>6, <2>7, <1>1
<1>8. PathIsExamined'
  BY <1>2, <1>7 DEF PathIsExamined
<1>9. QED
  BY <1>6, <1>8 DEF Path

-----------------------------------------------------------------------------
(* The order of finishing. *)

\* Only FinishVertex finishes a vertex, and only Start forgets what is.
LEMMA OrderIsKept ==
  ASSUME TypeOK, FinishedInOrder, Black' = Black, UNCHANGED <<edges, before>>,
         back_edges \subseteq back_edges'
  PROVE  FinishedInOrder'
BY DEF FinishedInOrder

LEMMA OrderOfFinishVertex ==
  ASSUME edges \in Graphs, TypeOK, Path, FinishedInOrder, FinishVertex
  PROVE  FinishedInOrder'
<1>1. /\ next.op \in Vertex /\ next.it \in Nat \ {0}
      /\ next.it > Len(edges[next.op])
      /\ color \in [Vertex -> {WHITE, GRAY, BLACK}]
      /\ color' = [color EXCEPT ![next.op] = BLACK]
      /\ before \in [Vertex -> SUBSET Vertex]
      /\ before' = [before EXCEPT ![next.op] = Black]
      /\ UNCHANGED <<edges, back_edges>>
  BY DEF FinishVertex, AtEnd, TypeOK, State
<1>2. Len(stack) \in Nat /\ Depth = Len(stack) + 1 /\ At(Depth) = next
  BY DepthType DEF FinishVertex, Depth, At
<1>3. next.op \notin Black
  BY <1>1, <1>2 DEF Path, GrayIsPath, Black, GRAY, BLACK
<1>4. Black' = Black \cup {next.op}
  BY <1>1 DEF Black
<1>5. \A i \in 1 .. Len(edges[next.op]) :
         edges[next.op][i] \in back_edges \/ edges[next.op][i].source \in Black
  <2>1. Len(edges[next.op]) \in Nat
    BY <1>1, EdgesOfGraph
  <2>2. \A i \in 1 .. Len(edges[next.op]) : i \in 1 .. At(Depth).it - 1
    BY <1>1, <1>2, <2>1
  <2>3. \A i \in 1 .. Len(edges[next.op]) :
          \/ color[edges[next.op][i].source] = BLACK
          \/ edges[next.op][i] \in back_edges
    BY <1>2, <2>2 DEF Path, PathIsExamined
  <2>4. QED
    BY <1>1, <2>3, EdgesOfGraph DEF Black
<1>6. before'[next.op] = Black /\ \A v \in Black : before'[v] = before[v]
  BY <1>1, <1>3 DEF Black
<1>7. ASSUME NEW v \in Black
      PROVE  /\ \A i \in 1 .. Len(edges[v]) :
                  edges[v][i] \in back_edges \/ edges[v][i].source \in before'[v]
             /\ v \notin before'[v]
             /\ \A u \in before'[v] : u \in Black' /\ before'[u] \subseteq before'[v]
  BY <1>4, <1>6 DEF FinishedInOrder
<1>8. ASSUME NEW u \in Black
      PROVE  before'[u] \subseteq Black
  BY <1>6 DEF FinishedInOrder
<1>9. QED
  BY <1>1, <1>3, <1>4, <1>5, <1>6, <1>7, <1>8 DEF FinishedInOrder

-----------------------------------------------------------------------------
(* The inductive invariant. *)

LEMMA InvInit == Init => IInv
<1>1. Init => Black = {} /\ pc = "idle"
  BY DEF Init, Black, WHITE, BLACK
<1>2. QED
  BY <1>1, TypeInit DEF IInv, FinishedInOrder

LEMMA InvStep == IInv /\ [Next]_vars => IInv'
<1> SUFFICES ASSUME IInv, [Next]_vars
             PROVE  IInv'
  OBVIOUS
<1>1. edges \in Graphs /\ TypeOK /\ FinishedInOrder /\ (pc # "idle" => Path)
  BY DEF IInv
<1>2. edges' \in Graphs /\ TypeOK'
  BY <1>1, TypeStep
<1>3. ASSUME NEW G \in Graphs, Start(G)
      PROVE  Path' /\ FinishedInOrder'
  <2>1. Black' = {}
    BY <1>3 DEF Start, Black, WHITE, GRAY, BLACK
  <2>2. /\ Depth' = 1
        /\ \A i : i = 1 => At(i)' = VisitorState(start)
    BY <1>3 DEF Start, Depth, At
  <2>3. \A v \in Vertex : color'[v] = GRAY <=> v = start
    BY <1>3 DEF Start, WHITE, GRAY
  <2>4. GrayIsPath'
    BY <2>2, <2>3 DEF GrayIsPath, VisitorState
  <2>5. PathIsExamined'
    BY <2>2 DEF PathIsExamined, VisitorState
  <2>6. QED
    BY <2>1, <2>4, <2>5 DEF Path, FinishedInOrder
<1>4. CASE Pop
  <2>1. Path'
    BY <1>1, <1>4, PathOfPop DEF Pop
  <2>2. FinishedInOrder'
    BY <1>1, <1>4, OrderIsKept DEF Pop, Black
  <2>3. QED
    BY <1>2, <2>1, <2>2 DEF IInv
<1>5. CASE TreeEdge
  <2>1. Path'
    BY <1>1, <1>5, PathOfTreeEdge DEF TreeEdge
  <2>2. e.source \in Vertex /\ color \in [Vertex -> {WHITE, GRAY, BLACK}]
    BY <1>1, <1>5, EdgeAtHand DEF TreeEdge, TypeOK
  <2>3. Black' = Black
    BY <1>5, <2>2 DEF TreeEdge, Black, WHITE, GRAY, BLACK
  <2>4. FinishedInOrder'
    BY <1>1, <1>5, <2>3, OrderIsKept DEF TreeEdge
  <2>5. QED
    BY <1>2, <2>1, <2>4 DEF IInv
<1>6. CASE BackEdge \/ CrossEdge
  <2>1. Path'
    BY <1>1, <1>6, PathOfOtherEdge DEF BackEdge, CrossEdge
  <2>2. Black' = Black /\ UNCHANGED <<edges, before>> /\ back_edges \subseteq back_edges'
    BY <1>6 DEF BackEdge, CrossEdge, Black
  <2>3. QED
    BY <1>1, <1>2, <2>1, <2>2, OrderIsKept DEF IInv
<1>7. CASE FinishVertex
  <2>1. Path
    BY <1>1, <1>7 DEF FinishVertex
  <2>2. QED
    BY <1>1, <1>2, <1>7, <2>1, PathOfFinishVertex, OrderOfFinishVertex DEF IInv
<1>8. CASE Complete \/ Destroy
  <2>1. pc' = "idle" /\ Black' = Black /\ UNCHANGED <<edges, before, back_edges>>
    BY <1>8 DEF Complete, Destroy, Black
  <2>2. QED
    BY <1>1, <1>2, <2>1, OrderIsKept DEF IInv
<1>9. CASE UNCHANGED vars
  <2>1. Black' = Black /\ UNCHANGED <<edges, before, back_edges>>
    BY <1>9 DEF vars, Black
  <2>2. Path' = Path /\ pc' = pc
    BY <1>9 DEF vars, Path, GrayIsPath, PathIsExamined, Depth, At
  <2>3. QED
    BY <1>1, <1>2, <2>1, <2>2, OrderIsKept DEF IInv
<1>10. QED
  BY <1>2, <1>3, <1>4, <1>5, <1>6, <1>7, <1>8, <1>9 DEF Next, Visit, IInv

\* A FINISH_VERTEX comes after those of everything that the vertex depends on,
\* unless a BACK_EDGE has been reported: for every graph, and wherever the
\* consumer leaves its loop.
THEOREM OrderOfFinishing == Spec => []FinishedInOrder
<1>1. IInv => FinishedInOrder
  BY DEF IInv
<1>2. QED
  BY <1>1, InvInit, InvStep, PTL DEF Spec

-----------------------------------------------------------------------------
(* What a vertex depends on. *)

\* No vertex outside of S is needed for those in S.
IsClosed(G, S) == SourcesIn(G, S) \subseteq S

LEMMA EdgesOfAny ==
  ASSUME NEW G \in Graphs, NEW v \in Vertex, NEW i \in 1 .. Len(G[v])
  PROVE  G[v][i].source \in Vertex
<1>1. G[v] \in Seq(Edge)
  BY GraphAssumption
<1>2. G[v][i] \in Edge
  BY <1>1
<1> QED
  BY <1>2 DEF Edge

LEMMA SourcesAreVertices ==
  ASSUME NEW G \in Graphs, NEW S \in SUBSET Vertex
  PROVE  /\ SourcesIn(G, S) \in SUBSET Vertex
         /\ \A w \in S : \A i \in 1 .. Len(G[w]) : G[w][i].source \in SourcesIn(G, S)
         /\ \A u \in SourcesIn(G, S) : \E w \in S : \E i \in 1 .. Len(G[w]) :
              u = G[w][i].source
  BY EdgesOfAny DEF SourcesIn

\* Each step adds a vertex or there is none left to be added.
LEMMA ClosedAtLast ==
  ASSUME NEW G \in Graphs,
         NEW reached \in [Nat -> SUBSET Vertex], reached[0] # {},
         \A n \in Nat : reached[n + 1] = reached[n] \cup SourcesIn(G, reached[n])
  PROVE  IsClosed(G, reached[Cardinality(Vertex)])
<1> DEFINE T == {n \in Nat : ~IsClosed(G, reached[n]) => Cardinality(reached[n]) > n}
<1>1. \A S \in SUBSET Vertex : IsFiniteSet(S) /\ Cardinality(S) \in Nat
  BY StartAssumption, FS_Subset, FS_CardinalityType
<1>2. 0 \in T
  <2>1. reached[0] \in SUBSET Vertex
    OBVIOUS
  <2>2. Cardinality(reached[0]) \in Nat /\ Cardinality(reached[0]) # 0
    BY <1>1, <2>1, FS_EmptySet
  <2> QED
    BY <2>2
<1>3. ASSUME NEW n \in Nat, n \in T
      PROVE  n + 1 \in T
  <2> DEFINE R == reached[n]
             N == reached[n + 1]
  <2>1. R \in SUBSET Vertex /\ N \in SUBSET Vertex /\ N = R \cup SourcesIn(G, R)
    OBVIOUS
  <2>2. CASE IsClosed(G, R)
    <3>1. N = R
      BY <2>1, <2>2 DEF IsClosed
    <3> QED
      BY <2>2, <3>1
  <2>3. CASE ~IsClosed(G, R)
    <3>1. R \subseteq N /\ R # N
      BY <2>1, <2>3 DEF IsClosed
    <3>2. Cardinality(R) < Cardinality(N)
      <4> HIDE DEF R, N
      <4> QED
        BY <1>1, <2>1, <3>1, FS_Subset
    <3>3. Cardinality(R) > n /\ Cardinality(R) \in Nat /\ Cardinality(N) \in Nat
      BY <1>1, <1>3, <2>1, <2>3
    <3>4. Cardinality(N) > n + 1
      <4> HIDE DEF R, N
      <4> QED
        BY <3>2, <3>3
    <3> QED
      BY <3>4
  <2> QED
    BY <2>2, <2>3
<1>4. Nat \subseteq T
  <2> HIDE DEF T
  <2> QED
    BY <1>2, <1>3, InductionOnNaturals
<1> DEFINE all == Cardinality(Vertex)
<1>5. all \in Nat /\ reached[all] \in SUBSET Vertex
  BY <1>1
<1>6. Cardinality(reached[all]) \in Nat /\ Cardinality(reached[all]) <= all
  BY <1>5, StartAssumption, FS_Subset, FS_CardinalityType
<1> QED
  BY <1>4, <1>5, <1>6

\* AncestorsIn(G, v) is the least set that v is in and that is closed.
LEMMA AncestorsAreLeast ==
  ASSUME NEW G \in Graphs, NEW v \in Vertex
  PROVE  /\ AncestorsIn(G, v) \in SUBSET Vertex
         /\ v \in AncestorsIn(G, v)
         /\ IsClosed(G, AncestorsIn(G, v))
         /\ \A S \in SUBSET Vertex : v \in S /\ IsClosed(G, S) => AncestorsIn(G, v) \subseteq S
<1> DEFINE g == [S \in SUBSET Vertex |-> S \cup SourcesIn(G, S)]
           Steps(f) == [n \in Nat |-> IF n = 0 THEN {v} ELSE f[n - 1] \cup SourcesIn(G, f[n - 1])]
           reached == CHOOSE f : f = Steps(f)
           all == Cardinality(Vertex)
<1>1. AncestorsIn(G, v) = reached[all]
  BY DEF AncestorsIn, SourcesIn
<1>2. {v} \in SUBSET Vertex /\ g \in [SUBSET Vertex -> SUBSET Vertex]
  BY SourcesAreVertices
<1>3. PICK f : /\ f = [n \in Nat |-> IF n = 0 THEN {v} ELSE g[f[n - 1]]]
               /\ f \in [Nat -> SUBSET Vertex]
  <2> DEFINE S == SUBSET Vertex
             a == {v}
  <2>1. a \in S /\ g \in [S -> S]
    BY <1>2
  <2> HIDE DEF g, S, a
  <2>2. PICK f : f = [n \in Nat |-> IF n = 0 THEN a ELSE g[f[n - 1]]]
    BY <2>1, IterationExists
  <2>3. f \in [Nat -> S]
    BY <2>1, <2>2, IterationType
  <2> QED
    BY <2>2, <2>3 DEF S, a
<1>5. f = Steps(f)
  <2>1. \A n \in Nat : n # 0 => f[n - 1] \in SUBSET Vertex
    <3>1. \A n \in Nat : n # 0 => n - 1 \in Nat
      OBVIOUS
    <3>2. \A n \in Nat : f[n] \in SUBSET Vertex
      <4> DEFINE S == SUBSET Vertex
      <4>1. f \in [Nat -> S]
        BY <1>3
      <4> HIDE DEF S, g
      <4>2. \A n \in Nat : f[n] \in S
        BY <4>1
      <4> QED
        BY <4>2 DEF S
    <3> QED
      BY <3>1, <3>2
  <2>2. \A n \in Nat : n # 0 => g[f[n - 1]] = f[n - 1] \cup SourcesIn(G, f[n - 1])
    BY <2>1
  <2> HIDE DEF g
  <2>3. Steps(f) = [n \in Nat |-> IF n = 0 THEN {v} ELSE g[f[n - 1]]]
    BY <2>2
  <2> QED
    BY <1>3, <2>3
<1>6. reached = Steps(reached)
  <2> HIDE DEF Steps
  <2> QED
    BY <1>5
<1> HIDE DEF reached
<1>7. reached[0] = {v}
  BY <1>6
<1>8. \A n \in Nat : reached[n + 1] = reached[n] \cup SourcesIn(G, reached[n])
  <2> SUFFICES ASSUME NEW n \in Nat
               PROVE  reached[n + 1] = reached[n] \cup SourcesIn(G, reached[n])
    OBVIOUS
  <2>1. Steps(reached)[n + 1] = reached[(n + 1) - 1] \cup SourcesIn(G, reached[(n + 1) - 1])
    OBVIOUS
  <2>2. (n + 1) - 1 = n
    OBVIOUS
  <2> HIDE DEF Steps
  <2> QED
    BY <1>6, <2>1, <2>2
<1>9. reached \in [Nat -> SUBSET Vertex]
  <2> DEFINE T == {n \in Nat : reached[n] \in SUBSET Vertex}
  <2>1. 0 \in T
    BY <1>2, <1>7
  <2>2. \A n \in Nat : n \in T => n + 1 \in T
    BY <1>8, SourcesAreVertices
  <2>3. Nat \subseteq T
    <3> HIDE DEF T
    <3> QED
      BY <2>1, <2>2, InductionOnNaturals
  <2>4. reached = [n \in Nat |-> reached[n]]
    BY <1>6
  <2> QED
    BY <2>3, <2>4
<1>10. all \in Nat
  BY StartAssumption, FS_CardinalityType
<1>11. ASSUME NEW S \in SUBSET Vertex, v \in S, IsClosed(G, S)
       PROVE  reached[all] \subseteq S
  <2> DEFINE T == {n \in Nat : reached[n] \subseteq S}
  <2>1. 0 \in T
    BY <1>7, <1>11
  <2>2. ASSUME NEW n \in Nat, n \in T
        PROVE  n + 1 \in T
    <3>1. SourcesIn(G, reached[n]) \subseteq SourcesIn(G, S)
      BY <2>2 DEF SourcesIn
    <3> QED
      BY <1>8, <1>11, <2>2, <3>1 DEF IsClosed
  <2>3. Nat \subseteq T
    <3> HIDE DEF T
    <3> QED
      BY <2>1, <2>2, InductionOnNaturals
  <2> QED
    BY <1>10, <2>3
<1>12. v \in reached[all]
  <2> DEFINE T == {n \in Nat : v \in reached[n]}
  <2>1. 0 \in T /\ \A n \in Nat : n \in T => n + 1 \in T
    BY <1>7, <1>8
  <2>2. Nat \subseteq T
    <3> HIDE DEF T
    <3> QED
      BY <2>1, InductionOnNaturals
  <2> QED
    BY <1>10, <2>2
<1>13. IsClosed(G, reached[all])
  <2>1. reached[0] # {}
    BY <1>7
  <2> HIDE DEF all
  <2> QED
    BY <1>8, <1>9, <2>1, ClosedAtLast DEF all
<1> QED
  BY <1>1, <1>9, <1>10, <1>11, <1>12, <1>13

-----------------------------------------------------------------------------
(* Nothing but what the start depends on is visited, and nothing of it is  *)
(* left out.                                                               *)

\* The start has been visited, and what has been visited is needed for it.
VisitedIsNeeded ==
  /\ color[start] # WHITE
  /\ \A v \in Vertex : color[v] # WHITE => v \in Ancestors(start)
  /\ \A b \in back_edges : color[b.source] # WHITE

VisitInv == IInv /\ (pc # "idle" => VisitedIsNeeded)

LEMMA VisitedIsGray ==
  ASSUME IInv, pc = "visit"
  PROVE  color[next.op] = GRAY
<1>1. TypeOK /\ Path /\ next.op \in Vertex
  BY DEF IInv, TypeOK, State
<1>2. Depth = Len(stack) + 1 /\ Len(stack) \in Nat
  BY <1>1, DepthType DEF Depth
<1>3. At(Depth) = next /\ Depth \in 1 .. Depth
  BY <1>2 DEF At
<1> QED
  BY <1>1, <1>3 DEF Path, GrayIsPath

LEMMA VisitStep == VisitInv /\ [Next]_vars => VisitInv'
<1> SUFFICES ASSUME VisitInv, [Next]_vars
             PROVE  VisitInv'
  OBVIOUS
<1>1. IInv' /\ edges \in Graphs /\ TypeOK /\ (pc # "idle" => VisitedIsNeeded)
  BY InvStep DEF VisitInv, IInv
<1>2. ASSUME NEW G \in Graphs, Start(G)
      PROVE  VisitedIsNeeded'
  <2>1. /\ color' = [v \in Vertex |-> IF v = start THEN GRAY ELSE WHITE]
        /\ back_edges' = {} /\ edges' \in Graphs
    BY <1>2 DEF Start
  <2>2. (start \in Ancestors(start))'
    BY <2>1, AncestorsAreLeast, StartAssumption DEF Ancestors
  <2> QED
    BY <2>1, <2>2, StartAssumption DEF VisitedIsNeeded, WHITE, GRAY
<1>3. ASSUME edges' = edges, pc # "idle",
             \A v \in Vertex : color'[v] # WHITE => color[v] # WHITE,
             \A v \in Vertex : color[v] # WHITE => color'[v] # WHITE,
             \A b \in back_edges' : b \in back_edges \/ (b \in Edge /\ color[b.source] # WHITE)
      PROVE  VisitedIsNeeded'
  <2>1. (Ancestors(start))' = Ancestors(start)
    BY <1>3 DEF Ancestors
  <2>2. \A b \in back_edges' : b.source \in Vertex /\ color[b.source] # WHITE
    BY <1>1, <1>3 DEF VisitedIsNeeded, TypeOK, Edge
  <2> QED
    BY <1>1, <1>3, <2>1, <2>2, StartAssumption DEF VisitedIsNeeded
<1>4. CASE Pop
  BY <1>1, <1>3, <1>4 DEF Pop, VisitInv, VisitedIsNeeded
<1>5. CASE TreeEdge
  <2>1. /\ edges' = edges /\ pc = "visit" /\ ~AtEnd /\ color[e.source] = WHITE
        /\ color' = [color EXCEPT ![e.source] = GRAY] /\ back_edges' = back_edges
        /\ color \in [Vertex -> {WHITE, GRAY, BLACK}]
    BY <1>1, <1>5 DEF TreeEdge, TypeOK
  <2>2. next.op \in Vertex /\ next.it \in 1 .. Len(edges[next.op]) /\ e.source \in Vertex
    BY <1>1, <2>1, EdgeAtHand
  <2>3. color[next.op] # WHITE
    BY <2>1, VisitedIsGray DEF VisitInv, WHITE, GRAY
  <2>4. e.source \in Ancestors(start)
    <3>1. next.op \in Ancestors(start)
      BY <1>1, <2>1, <2>2, <2>3 DEF VisitedIsNeeded
    <3>2. Ancestors(start) \in SUBSET Vertex /\ IsClosed(edges, Ancestors(start))
      BY <1>1, AncestorsAreLeast, StartAssumption DEF Ancestors
    <3> QED
      BY <1>1, <2>2, <3>1, <3>2, SourcesAreVertices DEF IsClosed, e
  <2>5. (Ancestors(start))' = Ancestors(start)
    BY <2>1 DEF Ancestors
  <2>6. \A b \in back_edges : b.source \in Vertex
    BY <1>1 DEF TypeOK, Edge
  <2>7. VisitedIsNeeded'
    BY <1>1, <2>1, <2>2, <2>4, <2>5, <2>6, StartAssumption DEF VisitedIsNeeded, WHITE, GRAY
  <2> QED
    BY <1>1, <2>7 DEF VisitInv
<1>6. CASE BackEdge \/ CrossEdge
  <2>1. /\ edges' = edges /\ pc = "visit" /\ ~AtEnd /\ color' = color
        /\ back_edges' = back_edges \/ (back_edges' = back_edges \cup {e} /\ color[e.source] = GRAY)
    BY <1>6 DEF BackEdge, CrossEdge
  <2>2. e \in Edge
    BY <1>1, <2>1, EdgeAtHand
  <2> QED
    BY <1>1, <1>3, <2>1, <2>2 DEF VisitInv, VisitedIsNeeded, WHITE, GRAY
<1>7. CASE FinishVertex
  <2>1. /\ edges' = edges /\ pc = "visit" /\ back_edges' = back_edges
        /\ color' = [color EXCEPT ![next.op] = BLACK]
        /\ color \in [Vertex -> {WHITE, GRAY, BLACK}] /\ next.op \in Vertex
    BY <1>1, <1>7 DEF FinishVertex, TypeOK, State
  <2>2. color[next.op] # WHITE
    BY <2>1, VisitedIsGray DEF VisitInv, WHITE, GRAY
  <2> QED
    BY <1>1, <1>3, <2>1, <2>2 DEF VisitInv, VisitedIsNeeded, WHITE, BLACK
<1>8. CASE Complete \/ Destroy
  BY <1>1, <1>8 DEF Complete, Destroy, VisitInv
<1>9. CASE UNCHANGED vars
  BY <1>1, <1>3, <1>9 DEF vars, VisitInv, VisitedIsNeeded
<1> QED
  BY <1>1, <1>2, <1>4, <1>5, <1>6, <1>7, <1>8, <1>9 DEF Next, Visit, VisitInv

\* When the stack is empty no vertex is gray, so that everything the black ones
\* depend on is black.
LEMMA NothingLeftOut ==
  ASSUME VisitInv, pc = "pop", stack = <<>>
  PROVE  Black = Ancestors(start)
<1>1. /\ edges \in Graphs /\ TypeOK /\ Path /\ FinishedInOrder /\ VisitedIsNeeded
      /\ color \in [Vertex -> {WHITE, GRAY, BLACK}] /\ start \in Vertex
  BY StartAssumption DEF VisitInv, IInv, TypeOK
<1>2. Depth = 0
  BY DEF Depth
<1>3. \A v \in Vertex : color[v] # GRAY
  BY <1>1, <1>2 DEF Path, GrayIsPath
<1>4. Black \in SUBSET Vertex /\ \A v \in Vertex : v \in Black <=> color[v] # WHITE
  BY <1>1, <1>3 DEF Black, WHITE, BLACK
<1>5. ASSUME NEW v \in Black, NEW i \in 1 .. Len(edges[v])
      PROVE  edges[v][i].source \in Black
  <2>1. edges[v][i].source \in Vertex
    BY <1>1, <1>4, <1>5, EdgesOfGraph
  <2>2. CASE edges[v][i] \in back_edges
    BY <1>1, <1>4, <2>1, <2>2 DEF VisitedIsNeeded
  <2>3. CASE edges[v][i].source \in before[v]
    BY <1>1, <2>3 DEF FinishedInOrder
  <2> QED
    BY <1>1, <2>2, <2>3 DEF FinishedInOrder
<1>6. IsClosed(edges, Black)
  BY <1>1, <1>4, <1>5, SourcesAreVertices DEF IsClosed
<1>7. start \in Black
  BY <1>1, <1>4 DEF VisitedIsNeeded
<1>8. Ancestors(start) \subseteq Black
  BY <1>1, <1>4, <1>6, <1>7, AncestorsAreLeast DEF Ancestors
<1>9. Black \subseteq Ancestors(start)
  BY <1>1, <1>4 DEF VisitedIsNeeded
<1> QED
  BY <1>8, <1>9

\* A traversal that is not abandoned finishes exactly the vertices that the
\* start depends on, for every graph, cycles included.
THEOREM ExactlyTheNeeded == Spec => []EverythingIsFinished
<1>1. Init => VisitInv
  BY InvInit DEF VisitInv, Init
<1>2. VisitInv => EverythingIsFinished
  BY NothingLeftOut DEF EverythingIsFinished
<1> QED
  BY <1>1, <1>2, VisitStep, PTL DEF Spec
=============================================================================
