------------------------ MODULE DisjunctiveGraphProofs ------------------------
(***************************************************************************)
(* Lemmas about disjunctive graphs: neighbours and pairs of them, the      *)
(* edges that a traversal iterates over, and the lists that flip and merge *)
(* work on.                                                                *)
(***************************************************************************)
EXTENDS GraphOperations, EdgeIterator, Induction, SequenceTheorems, TLAPS

(* Lists. *)

LEMMA RangeOfOne ==
  ASSUME NEW e
  PROVE  Range(<<e>>) = {e}
BY DEF Range

LEMMA RangeOfNone == Range(<<>>) = {}
BY DEF Range

LEMMA RangeOfAppend ==
  ASSUME NEW V, NEW list \in Seq(V), NEW e \in V
  PROVE  Append(list, e) \in Seq(V) /\ Range(Append(list, e)) = Range(list) \cup {e}
<1>1. Append(list, e) = list \o <<e>> /\ <<e>> \in Seq(V)
  BY AppendIsConcat
<1>2. Range(list \o <<e>>) = Range(list) \cup Range(<<e>>)
  BY <1>1, RangeConcatenation
<1> QED
  BY <1>1, <1>2, RangeOfOne, AppendProperties

LEMMA RangeOfTail ==
  ASSUME NEW V, NEW list \in Seq(V), list # <<>>
  PROVE  Tail(list) \in Seq(V) /\ Range(list) = {Head(list)} \cup Range(Tail(list))
<1>1. Tail(list) \in Seq(V) /\ Head(list) \in V /\ list = <<Head(list)>> \o Tail(list)
  BY HeadTailProperties
<1>2. <<Head(list)>> \in Seq(V)
  BY <1>1
<1>3. Range(<<Head(list)>> \o Tail(list)) = Range(<<Head(list)>>) \cup Range(Tail(list))
  BY <1>1, <1>2, RangeConcatenation
<1> QED
  BY <1>1, <1>3, RangeOfOne

\* x is what is left of the first n elements of list.
IsLeft(list, S, n, x) ==
  \E e \in [1 .. Len(x) -> 1 .. n] :
    /\ \A i \in 1 .. Len(x) : x[i] = list[e[i]] /\ x[i] \in S
    /\ \A i, j \in 1 .. Len(x) : i # j => e[i] # e[j]
    /\ \A j \in 1 .. n : list[j] \in S => \E i \in 1 .. Len(x) : e[i] = j

LEMMA LeftBehind ==
  ASSUME NEW V, NEW list \in Seq(V), NEW S, NEW n \in 1 .. Len(list),
         NEW x \in Seq(V), IsLeft(list, S, n - 1, x)
  PROVE  IsLeft(list, S, n, IF list[n] \in S THEN Append(x, list[n]) ELSE x)
<1>1. PICK e \in [1 .. Len(x) -> 1 .. n - 1] :
         /\ \A i \in 1 .. Len(x) : x[i] = list[e[i]] /\ x[i] \in S
         /\ \A i, j \in 1 .. Len(x) : i # j => e[i] # e[j]
         /\ \A j \in 1 .. n - 1 : list[j] \in S => \E i \in 1 .. Len(x) : e[i] = j
  BY DEF IsLeft
<1>2. \A j \in 1 .. n : j = n \/ j \in 1 .. n - 1
  OBVIOUS
<1>3. 1 .. n - 1 \subseteq 1 .. n
  OBVIOUS
<1>4. CASE list[n] \notin S
  <2>1. e \in [1 .. Len(x) -> 1 .. n]
    BY <1>3
  <2>2. \A j \in 1 .. n : list[j] \in S => \E i \in 1 .. Len(x) : e[i] = j
    BY <1>1, <1>2, <1>4
  <2> QED
    BY <1>1, <1>4, <2>1, <2>2 DEF IsLeft
<1>5. CASE list[n] \in S
  <2> DEFINE y == Append(x, list[n])
             k == [i \in 1 .. Len(y) |-> IF i = Len(y) THEN n ELSE e[i]]
  <2>1. y \in Seq(V) /\ Len(y) = Len(x) + 1 /\ y[Len(y)] = list[n] /\ Len(x) \in Nat
    BY AppendProperties, LenProperties
  <2>2. \A i \in 1 .. Len(x) : y[i] = x[i]
    BY AppendProperties, LenProperties
  <2> HIDE DEF y
  <2>3. \A i \in 1 .. Len(y) : i = Len(y) \/ (i \in 1 .. Len(x) /\ i # Len(y))
    BY <2>1
  <2>4. Len(y) \in 1 .. Len(y) /\ \A i \in 1 .. Len(x) : i \in 1 .. Len(y) /\ i # Len(y)
    BY <2>1
  <2>5. k[Len(y)] = n /\ \A i \in 1 .. Len(x) : k[i] = e[i]
    BY <2>4
  <2>6. k \in [1 .. Len(y) -> 1 .. n]
    BY <2>3, <1>3
  <2> HIDE DEF k
  <2>7. \A i \in 1 .. Len(y) : y[i] = list[k[i]] /\ y[i] \in S
    BY <1>1, <1>5, <2>1, <2>2, <2>3, <2>5
  <2>8. \A i \in 1 .. Len(x) : e[i] # n
    OBVIOUS
  <2>9. \A i, j \in 1 .. Len(y) : i # j => k[i] # k[j]
    BY <1>1, <2>3, <2>5, <2>8
  <2>10. \A j \in 1 .. n : list[j] \in S => \E i \in 1 .. Len(y) : k[i] = j
    BY <1>1, <1>2, <2>4, <2>5
  <2>11. IsLeft(list, S, n, y)
    BY <2>6, <2>7, <2>9, <2>10 DEF IsLeft
  <2> QED
    BY <1>5, <2>11 DEF y
<1> QED
  BY <1>4, <1>5

\* Only keeps the elements of S, and each of them where it was listed once.
LEMMA OnlyKeeps ==
  ASSUME NEW V, NEW list \in Seq(V), NEW S
  PROVE  /\ Only(list, S) \in Seq(V)
         /\ IsLeft(list, S, Len(list), Only(list, S))
<1> DEFINE N == Len(list)
           Left(n) == {x \in Seq(V) : IsLeft(list, S, n, x)}
           Good == [n \in 0 .. N |-> Left(n)]
           Step(n, x) == IF list[n] \in S THEN Append(x, list[n]) ELSE x
           h == [p \in (1 .. N) \X Seq(V) |-> Step(p[1], p[2])]
           Steps(f) == [n \in 0 .. N |-> IF n = 0 THEN <<>>
                          ELSE IF list[n] \in S THEN Append(f[n - 1], list[n]) ELSE f[n - 1]]
           kept == CHOOSE f : f = Steps(f)
<1>1. Only(list, S) = kept[N]
  BY DEF Only
<1>2. N \in Nat
  BY LenProperties
<1>3. \A n \in 1 .. N : list[n] \in V
  BY LenProperties
<1>4. <<>> \in Good[0]
  <2>1. Len(<<>>) = 0 /\ <<>> \in Seq(V) /\ 0 \in 0 .. N
    BY <1>2, EmptySeq
  <2>2. [i \in 1 .. 0 |-> 0] \in [1 .. 0 -> 1 .. 0]
    OBVIOUS
  <2>3. IsLeft(list, S, 0, <<>>)
    <3> DEFINE x == <<>>
               e == [i \in 1 .. Len(x) |-> 0]
    <3>1. Len(x) = 0
      BY <2>1
    <3> HIDE DEF x
    <3>2. e \in [1 .. Len(x) -> 1 .. 0] /\ \A i \in 1 .. Len(x) : FALSE
      BY <3>1
    <3> HIDE DEF e
    <3>3. IsLeft(list, S, 0, x)
      BY <3>2 DEF IsLeft
    <3> QED
      BY <3>3 DEF x
  <2> QED
    BY <2>1, <2>3
<1>5. \A n \in 1 .. N : \A x \in Good[n - 1] : h[<<n, x>>] \in Good[n]
  <2> SUFFICES ASSUME NEW n \in 1 .. N, NEW x \in Good[n - 1]
               PROVE  h[<<n, x>>] \in Good[n]
    OBVIOUS
  <2>1. n - 1 \in 0 .. N /\ n \in 0 .. N
    BY <1>2
  <2>2. x \in Seq(V) /\ IsLeft(list, S, n - 1, x)
    BY <2>1
  <2>3. h[<<n, x>>] = Step(n, x)
    BY <2>2
  <2>4. IsLeft(list, S, n, Step(n, x))
    BY <2>2, LeftBehind
  <2>5. Step(n, x) \in Seq(V)
    BY <1>3, <2>2, AppendProperties
  <2> HIDE DEF h, Step
  <2> QED
    BY <2>1, <2>3, <2>4, <2>5
<1>6. PICK f : f = Recursion(N, <<>>, h, f)
  BY <1>2, RecursionExists
<1> DEFINE Typed(f2) == \A n \in 1 .. N : f2[n - 1] \in Seq(V)
<1>7. \A f2 : Typed(f2) => Recursion(N, <<>>, h, f2) = Steps(f2)
  <2> SUFFICES ASSUME NEW f2, Typed(f2)
               PROVE  Recursion(N, <<>>, h, f2) = Steps(f2)
    OBVIOUS
  <2>1. \A n \in 0 .. N : n # 0 => n \in 1 .. N
    BY <1>2
  <2>2. \A n \in 0 .. N : n # 0 => h[<<n, f2[n - 1]>>] = Step(n, f2[n - 1])
    BY <2>1
  <2> HIDE DEF h
  <2> QED
    BY <2>2 DEF Recursion
<1>8. \A n \in 0 .. N : f[n] \in Good[n]
  <2> HIDE DEF Good, h, N
  <2> QED
    BY <1>2, <1>4, <1>5, <1>6, RecursionStays
<1>9. Typed(f)
  <2>1. \A n \in 1 .. N : n - 1 \in 0 .. N
    BY <1>2
  <2> QED
    BY <1>8, <2>1
<1>10. kept = Steps(kept)
  <2>1. f = Steps(f)
    BY <1>6, <1>7, <1>9
  <2> HIDE DEF Steps
  <2> QED
    BY <2>1
<1> HIDE DEF kept
<1>11. Typed(kept)
  <2> DEFINE T == {n \in Nat : n \in 0 .. N => kept[n] \in Seq(V)}
  <2>1. 0 \in T
    BY <1>2, <1>10, EmptySeq
  <2>2. ASSUME NEW n \in Nat, n \in T
        PROVE  n + 1 \in T
    <3> SUFFICES ASSUME n + 1 \in 0 .. N
                 PROVE  kept[n + 1] \in Seq(V)
      OBVIOUS
    <3>1. n \in 0 .. N /\ n + 1 \in 1 .. N /\ (n + 1) - 1 = n /\ n + 1 # 0
      BY <1>2
    <3>2. kept[n + 1] = Step(n + 1, kept[n])
      BY <1>10, <3>1
    <3>3. kept[n] \in Seq(V)
      BY <2>2, <3>1
    <3> QED
      BY <3>1, <3>2, <3>3, <1>3, AppendProperties
  <2> HIDE DEF T
  <2>3. Nat \subseteq T
    BY <2>1, <2>2, InductionOnNaturals
  <2>4. \A n \in 1 .. N : n - 1 \in Nat /\ n - 1 \in 0 .. N
    BY <1>2
  <2> QED
    BY <2>3, <2>4 DEF T
<1>12. kept = Recursion(N, <<>>, h, kept)
  BY <1>7, <1>10, <1>11
<1>13. kept[N] \in Good[N]
  <2>1. N \in 0 .. N
    BY <1>2
  <2> HIDE DEF Good, h, N
  <2> QED
    BY <1>2, <1>4, <1>5, <1>12, <2>1, RecursionStays
<1>14. kept[N] \in Left(N)
  BY <1>2, <1>13
<1> QED
  BY <1>1, <1>14
LEMMA OnlyRange ==
  ASSUME NEW V, NEW list \in Seq(V), NEW S
  PROVE  Range(Only(list, S)) = Range(list) \cap S
<1> DEFINE x == Only(list, S)
<1>1. x \in Seq(V) /\ IsLeft(list, S, Len(list), x)
  BY OnlyKeeps
<1> HIDE DEF x
<1>2. PICK e \in [1 .. Len(x) -> 1 .. Len(list)] :
         /\ \A i \in 1 .. Len(x) : x[i] = list[e[i]] /\ x[i] \in S
         /\ \A j \in 1 .. Len(list) : list[j] \in S => \E i \in 1 .. Len(x) : e[i] = j
  BY <1>1 DEF IsLeft
<1>3. Range(x) = {x[i] : i \in 1 .. Len(x)} /\ Range(list) = {list[i] : i \in 1 .. Len(list)}
  BY <1>1, RangeEquality
<1>4. Range(x) = Range(list) \cap S
  BY <1>2, <1>3, SMTT(30)
<1> QED
  BY <1>4 DEF x
-----------------------------------------------------------------------------
(* The search of equivalence_class. *)

\* VisitNew keeps what was to be visited, and forgets no pair.
LEMMA VisitedAndNew ==
  ASSUME NEW V, NEW visited \in Seq(V), visited # <<>>, NEW next_pairs \in Seq(V), NEW finished
  PROVE  LET x == VisitNew(finished, visited, next_pairs)
         IN /\ x \in Seq(V) /\ x # <<>> /\ Head(x) = Head(visited)
            /\ Range(visited) \subseteq Range(x)
            /\ Range(next_pairs) \subseteq finished \cup Range(x)
<1> DEFINE N == Len(next_pairs)
           Left(n) == {x \in Seq(V) : /\ x # <<>> /\ Head(x) = Head(visited)
                                      /\ Range(visited) \subseteq Range(x)
                                      /\ \A j \in 1 .. n : next_pairs[j] \in finished \cup Range(x)}
           Good == [n \in 0 .. N |-> Left(n)]
           Step(n, x) == IF next_pairs[n] \in finished \cup Range(x) THEN x
                         ELSE Append(x, next_pairs[n])
           h == [p \in (1 .. N) \X Seq(V) |-> Step(p[1], p[2])]
           Steps(f) == [n \in 0 .. N |-> IF n = 0 THEN visited
                          ELSE IF next_pairs[n] \in finished \cup Range(f[n - 1])
                                 THEN f[n - 1] ELSE Append(f[n - 1], next_pairs[n])]
           seen == CHOOSE f : f = Steps(f)
<1>1. VisitNew(finished, visited, next_pairs) = seen[N]
  BY DEF VisitNew
<1>2. N \in Nat
  BY LenProperties
<1>3. \A n \in 1 .. N : next_pairs[n] \in V
  BY LenProperties
<1>4. visited \in Good[0]
  <2>1. 0 \in 0 .. N /\ \A j \in 1 .. 0 : FALSE
    BY <1>2
  <2> QED
    BY <2>1
<1>5. ASSUME NEW n \in 1 .. N, NEW x \in Left(n - 1)
      PROVE  Step(n, x) \in Left(n)
  <2>1. \A j \in 1 .. n : j = n \/ j \in 1 .. n - 1
    BY <1>2
  <2>2. CASE next_pairs[n] \in finished \cup Range(x)
    BY <2>1, <2>2
  <2>3. CASE next_pairs[n] \notin finished \cup Range(x)
    <3> DEFINE y == Append(x, next_pairs[n])
    <3>1. y \in Seq(V) /\ y # <<>> /\ Head(y) = Head(x)
      BY <1>3, AppendProperties, HeadTailAppend
    <3>2. y = x \o <<next_pairs[n]>> /\ <<next_pairs[n]>> \in Seq(V)
      BY <1>3, AppendIsConcat
    <3>3. Range(y) = Range(x) \cup Range(<<next_pairs[n]>>)
      BY <3>2, RangeConcatenation, ZenonT(30)
    <3>4. next_pairs[n] \in Range(<<next_pairs[n]>>)
      BY RangeOfOne
    <3>5. y \in Left(n)
      <4> HIDE DEF y
      <4>1. Head(y) = Head(visited) /\ Range(visited) \subseteq Range(y)
        BY <3>1, <3>3
      <4>2. \A j \in 1 .. n - 1 : next_pairs[j] \in finished \cup Range(x)
        OBVIOUS
      <4>3. \A j \in 1 .. n : next_pairs[j] \in finished \cup Range(y)
        BY <2>1, <3>3, <3>4, <4>2
      <4> QED
        BY <3>1, <4>1, <4>3
    <3> QED
      BY <2>3, <3>5
  <2> QED
    BY <2>2, <2>3
<1>6. \A n \in 1 .. N : \A x \in Good[n - 1] : h[<<n, x>>] \in Good[n]
  <2> SUFFICES ASSUME NEW n \in 1 .. N, NEW x \in Good[n - 1]
               PROVE  h[<<n, x>>] \in Good[n]
    OBVIOUS
  <2>1. n - 1 \in 0 .. N /\ n \in 0 .. N
    BY <1>2
  <2>2. x \in Left(n - 1) /\ x \in Seq(V)
    BY <2>1
  <2>3. h[<<n, x>>] = Step(n, x)
    BY <2>2
  <2>4. Step(n, x) \in Left(n)
    BY <1>5, <2>2
  <2> HIDE DEF h, Step, Left
  <2> QED
    BY <2>1, <2>3, <2>4
<1> DEFINE Typed(f2) == \A n \in 1 .. N : f2[n - 1] \in Seq(V)
<1>7. \A f2 : Typed(f2) => Recursion(N, visited, h, f2) = Steps(f2)
  <2> SUFFICES ASSUME NEW f2, Typed(f2)
               PROVE  Recursion(N, visited, h, f2) = Steps(f2)
    OBVIOUS
  <2>1. \A n \in 0 .. N : n # 0 => n \in 1 .. N
    BY <1>2
  <2>2. \A n \in 0 .. N : n # 0 => h[<<n, f2[n - 1]>>] = Step(n, f2[n - 1])
    BY <2>1
  <2> HIDE DEF h
  <2> QED
    BY <2>2 DEF Recursion
<1>8. \A f2 : f2 = Recursion(N, visited, h, f2) =>
         Typed(f2) /\ \A n \in 0 .. N : f2[n] \in Left(n)
  <2> SUFFICES ASSUME NEW f2, f2 = Recursion(N, visited, h, f2)
               PROVE  Typed(f2) /\ \A n \in 0 .. N : f2[n] \in Left(n)
    OBVIOUS
  <2>1. \A n \in 0 .. N : f2[n] \in Good[n]
    <3> HIDE DEF Good, h, N
    <3> QED
      BY <1>2, <1>4, <1>6, RecursionStays
  <2>2. \A n \in 1 .. N : n - 1 \in 0 .. N
    BY <1>2
  <2> QED
    BY <2>1, <2>2
<1>9. PICK f : f = Recursion(N, visited, h, f)
  BY <1>2, RecursionExists
<1>10. seen = Steps(seen)
  <2>1. f = Steps(f)
    BY <1>7, <1>8, <1>9
  <2> HIDE DEF Steps
  <2> QED
    BY <2>1
<1> HIDE DEF seen
<1>11. Typed(seen)
  <2> DEFINE T == {n \in Nat : n \in 0 .. N => seen[n] \in Seq(V)}
  <2>1. 0 \in T
    BY <1>2, <1>10
  <2>2. ASSUME NEW n \in Nat, n \in T
        PROVE  n + 1 \in T
    <3> SUFFICES ASSUME n + 1 \in 0 .. N
                 PROVE  seen[n + 1] \in Seq(V)
      OBVIOUS
    <3>1. n \in 0 .. N /\ n + 1 \in 1 .. N /\ (n + 1) - 1 = n /\ n + 1 # 0
      BY <1>2
    <3>2. seen[n + 1] = Step(n + 1, seen[n])
      BY <1>10, <3>1
    <3>3. seen[n] \in Seq(V)
      BY <2>2, <3>1
    <3> QED
      BY <3>1, <3>2, <3>3, <1>3, AppendProperties
  <2> HIDE DEF T
  <2>3. Nat \subseteq T
    BY <2>1, <2>2, InductionOnNaturals
  <2>4. \A n \in 1 .. N : n - 1 \in Nat /\ n - 1 \in 0 .. N
    BY <1>2
  <2> QED
    BY <2>3, <2>4 DEF T
<1>12. seen[N] \in Left(N)
  <2>1. N \in 0 .. N
    BY <1>2
  <2> HIDE DEF Left, h, N, Steps
  <2>2. seen = Recursion(N, visited, h, seen)
    BY <1>7, <1>10, <1>11
  <2> QED
    BY <1>8, <2>1, <2>2
<1>13. Range(next_pairs) = {next_pairs[j] : j \in 1 .. N}
  BY RangeEquality
<1> DEFINE x == seen[N]
<1> HIDE DEF seen, N
<1>14. /\ x \in Seq(V) /\ x # <<>> /\ Head(x) = Head(visited)
       /\ Range(visited) \subseteq Range(x)
       /\ Range(next_pairs) \subseteq finished \cup Range(x)
  BY <1>12, <1>13
<1> QED
  BY <1>1, <1>14
-----------------------------------------------------------------------------
(* The edges that an iterator goes through. *)

\* The iterators at an edge of v, and their order.
FifoStops(g, v) ==
  {Iterator(FIFO, k) : k \in {j \in 1 .. Len(g.route_succ[v]) :
                                ~IsTerminal(v) /\ PcpPredecessor(g, g.route_succ[v][j]) # {}}}

MachineStops(g, v) ==
  IF ~IsTerminal(v) /\ g.position[v] > 0 THEN {Iterator(MACHINE, 0)} ELSE {}

JobStops(g, v) ==
  IF v = SOURCE_ID THEN {} ELSE {Iterator(JOB, k) : k \in 1 .. Len(g.route_pred[v])}

Stops(g, v) == FifoStops(g, v) \cup MachineStops(g, v) \cup JobStops(g, v)

StopsAndEnd(g, v) == Stops(g, v) \cup {END_OF_EDGES}

LastRank(g, v) == Len(g.route_succ[v]) + Len(g.route_pred[v]) + 2

Rank(g, v, i) ==
  CASE i.type = FIFO -> i.it
    [] i.type = MACHINE -> Len(g.route_succ[v]) + 1
    [] i.type = JOB -> Len(g.route_succ[v]) + 1 + i.it
    [] i.type = "END" -> LastRank(g, v)

\* i is the first iterator of a rank above r.
IsNext(g, v, r, i) ==
  /\ i \in StopsAndEnd(g, v)
  /\ Rank(g, v, i) > r
  /\ \A j \in StopsAndEnd(g, v) : Rank(g, v, j) > r => Rank(g, v, i) <= Rank(g, v, j)

LEMMA RankOfStops ==
  ASSUME NEW G, NEW v, IsVertex(G, v)
  PROVE  /\ \A i \in FifoStops(G, v) :
              /\ i.type = FIFO /\ i.it \in 1 .. Len(G.route_succ[v])
              /\ i = Iterator(FIFO, i.it)
              /\ ~IsTerminal(v) /\ PcpPredecessor(G, G.route_succ[v][i.it]) # {}
              /\ Rank(G, v, i) = i.it
         /\ \A i \in MachineStops(G, v) :
              /\ i = Iterator(MACHINE, 0) /\ i.type = MACHINE
              /\ ~IsTerminal(v) /\ G.position[v] > 0
              /\ Rank(G, v, i) = Len(G.route_succ[v]) + 1
         /\ \A i \in JobStops(G, v) :
              /\ i.type = JOB /\ i.it \in 1 .. Len(G.route_pred[v]) /\ i = Iterator(JOB, i.it)
              /\ v # SOURCE_ID
              /\ Rank(G, v, i) = Len(G.route_succ[v]) + 1 + i.it
         /\ END_OF_EDGES.type = "END" /\ Rank(G, v, END_OF_EDGES) = LastRank(G, v)
<1>1. \A i \in FifoStops(G, v) :
        /\ i.type = FIFO /\ i.it \in 1 .. Len(G.route_succ[v])
        /\ i = Iterator(FIFO, i.it)
        /\ ~IsTerminal(v) /\ PcpPredecessor(G, G.route_succ[v][i.it]) # {}
  BY DEF FifoStops, Iterator
<1>2. \A i \in MachineStops(G, v) :
        i = Iterator(MACHINE, 0) /\ i.type = MACHINE /\ ~IsTerminal(v) /\ G.position[v] > 0
  BY DEF MachineStops, Iterator
<1>3. \A i \in JobStops(G, v) :
        i.type = JOB /\ i.it \in 1 .. Len(G.route_pred[v]) /\ i = Iterator(JOB, i.it) /\ v # SOURCE_ID
  BY DEF JobStops, Iterator
<1>4. END_OF_EDGES.type = "END"
  BY DEF END_OF_EDGES, Iterator
<1>5. \A i \in FifoStops(G, v) : Rank(G, v, i) = i.it
  BY <1>1 DEF Rank, FIFO, MACHINE, JOB
<1>6. \A i \in MachineStops(G, v) : Rank(G, v, i) = Len(G.route_succ[v]) + 1
  BY <1>2 DEF Rank, FIFO, MACHINE, JOB
<1>7. \A i \in JobStops(G, v) : Rank(G, v, i) = Len(G.route_succ[v]) + 1 + i.it
  BY <1>3 DEF Rank, FIFO, MACHINE, JOB
<1>8. Rank(G, v, END_OF_EDGES) = LastRank(G, v)
  BY <1>4 DEF Rank, FIFO, MACHINE, JOB
<1> QED
  BY <1>1, <1>2, <1>3, <1>4, <1>5, <1>6, <1>7, <1>8

\* Ranks are numbers from 1 on, the end has the last, and no two iterators have
\* the same.
LEMMA RanksDiffer ==
  ASSUME NEW G, NEW v, IsVertex(G, v)
  PROVE  /\ LastRank(G, v) \in Nat
         /\ \A i \in StopsAndEnd(G, v) : Rank(G, v, i) \in 1 .. LastRank(G, v)
         /\ \A i \in Stops(G, v) : i # END_OF_EDGES /\ Rank(G, v, i) < LastRank(G, v)
         /\ \A i, j \in StopsAndEnd(G, v) : Rank(G, v, i) = Rank(G, v, j) => i = j
<1> DEFINE K == Len(G.route_succ[v])
           M == Len(G.route_pred[v])
<1>1. K \in Nat /\ M \in Nat /\ LastRank(G, v) = K + M + 2
  BY DEF IsVertex, LastRank
<1>2. \A i \in FifoStops(G, v) : i.it \in 1 .. K /\ i = Iterator(FIFO, i.it) /\ Rank(G, v, i) = i.it
  BY RankOfStops
<1>3. \A i \in MachineStops(G, v) : i = Iterator(MACHINE, 0) /\ Rank(G, v, i) = K + 1
  BY RankOfStops
<1>4. \A i \in JobStops(G, v) : i.it \in 1 .. M /\ i = Iterator(JOB, i.it) /\ Rank(G, v, i) = K + 1 + i.it
  BY RankOfStops
<1>5. Rank(G, v, END_OF_EDGES) = K + M + 2
  BY <1>1, RankOfStops
<1>6. \A i \in StopsAndEnd(G, v) :
        i \in FifoStops(G, v) \/ i \in MachineStops(G, v) \/ i \in JobStops(G, v) \/ i = END_OF_EDGES
  BY DEF StopsAndEnd, Stops
<1>7. \A i \in Stops(G, v) :
        i \in FifoStops(G, v) \/ i \in MachineStops(G, v) \/ i \in JobStops(G, v)
  BY DEF Stops
<1> HIDE DEF K, M
<1>8. \A i \in Stops(G, v) : Rank(G, v, i) \in 1 .. K + M + 1
  BY <1>1, <1>2, <1>3, <1>4, <1>7
<1>9. \A i \in Stops(G, v) : i # END_OF_EDGES /\ Rank(G, v, i) < LastRank(G, v)
  BY <1>1, <1>5, <1>8
<1>10. \A i \in StopsAndEnd(G, v) : Rank(G, v, i) \in 1 .. LastRank(G, v)
  BY <1>1, <1>5, <1>8 DEF StopsAndEnd
<1>11. ASSUME NEW i \in StopsAndEnd(G, v), NEW j \in StopsAndEnd(G, v), Rank(G, v, i) = Rank(G, v, j)
       PROVE  i = j
  <2>1. CASE i \in FifoStops(G, v)
    BY <2>1, <1>1, <1>2, <1>3, <1>4, <1>5, <1>6, <1>11
  <2>2. CASE i \in MachineStops(G, v)
    BY <2>2, <1>1, <1>2, <1>3, <1>4, <1>5, <1>6, <1>11
  <2>3. CASE i \in JobStops(G, v)
    BY <2>3, <1>1, <1>2, <1>3, <1>4, <1>5, <1>6, <1>11
  <2>4. CASE i = END_OF_EDGES
    BY <2>4, <1>1, <1>2, <1>3, <1>4, <1>5, <1>6, <1>11
  <2> QED
    BY <2>1, <2>2, <2>3, <2>4, <1>6
<1> QED
  BY <1>1, <1>9, <1>10, <1>11

LEMMA SetupIsNext ==
  ASSUME NEW G, NEW v, IsVertex(G, v)
  PROVE  /\ IsNext(G, v, Len(G.route_succ[v]) + 1, setup_JOB(G, v))
         /\ ~IsTerminal(v) => IsNext(G, v, Len(G.route_succ[v]), setup_MACHINE(G, v))
         /\ IsTerminal(v) => IsNext(G, v, 0, setup_JOB(G, v))
<1> DEFINE K == Len(G.route_succ[v])
           M == Len(G.route_pred[v])
<1>1. K \in Nat /\ M \in Nat /\ LastRank(G, v) = K + M + 2
  BY DEF IsVertex, LastRank
<1>2. \A i \in FifoStops(G, v) : i.it \in 1 .. K /\ ~IsTerminal(v) /\ Rank(G, v, i) = i.it
  BY RankOfStops
<1>3. \A i \in MachineStops(G, v) : ~IsTerminal(v) /\ G.position[v] > 0 /\ Rank(G, v, i) = K + 1
  BY RankOfStops
<1>4. \A i \in JobStops(G, v) : v # SOURCE_ID /\ i.it \in 1 .. M /\ Rank(G, v, i) = K + 1 + i.it
  BY RankOfStops
<1>5. Rank(G, v, END_OF_EDGES) = K + M + 2
  BY <1>1, RankOfStops
<1>6. \A i \in StopsAndEnd(G, v) :
        i \in FifoStops(G, v) \/ i \in MachineStops(G, v) \/ i \in JobStops(G, v) \/ i = END_OF_EDGES
  BY DEF StopsAndEnd, Stops
<1>7. /\ setup_JOB(G, v) \in StopsAndEnd(G, v)
      /\ Rank(G, v, setup_JOB(G, v)) = IF v = SOURCE_ID THEN K + M + 2 ELSE K + 2
  <2>1. CASE v = SOURCE_ID
    BY <2>1, <1>5 DEF setup_JOB, StopsAndEnd
  <2>2. CASE v # SOURCE_ID
    <3>1. M # 0
      BY <2>2, EmptySeq DEF IsVertex
    <3>2. Iterator(JOB, 1) \in JobStops(G, v)
      <4>1. 1 \in 1 .. M
        <5> HIDE DEF M
        <5> QED
          BY <1>1, <3>1
      <4> QED
        BY <2>2, <4>1 DEF JobStops
    <3>3. Iterator(JOB, 1).it = 1
      BY DEF Iterator
    <3> QED
      BY <2>2, <1>1, <1>4, <3>2, <3>3 DEF setup_JOB, StopsAndEnd, Stops
  <2> QED
    BY <2>1, <2>2
<1>8. ASSUME NEW r \in Nat, r <= K + 1,
             \A i \in FifoStops(G, v) \cup MachineStops(G, v) : Rank(G, v, i) <= r
      PROVE  IsNext(G, v, r, setup_JOB(G, v))
  <2>1. Rank(G, v, setup_JOB(G, v)) > r
    <3> HIDE DEF K, M
    <3> QED
      BY <1>1, <1>7, <1>8
  <2>2. \A j \in StopsAndEnd(G, v) :
          Rank(G, v, j) > r => Rank(G, v, setup_JOB(G, v)) <= Rank(G, v, j)
    <3> HIDE DEF K, M
    <3> QED
      BY <1>1, <1>2, <1>3, <1>4, <1>5, <1>6, <1>7, <1>8
  <2> QED
    BY <1>7, <2>1, <2>2 DEF IsNext
<1>9. IsNext(G, v, K + 1, setup_JOB(G, v))
  BY <1>1, <1>2, <1>3, <1>8
<1>10. IsTerminal(v) => IsNext(G, v, 0, setup_JOB(G, v))
  BY <1>1, <1>2, <1>3, <1>8
<1>11. ASSUME ~IsTerminal(v)
       PROVE  IsNext(G, v, K, setup_MACHINE(G, v))
  <2>1. CASE G.position[v] > 0
    <3>1. Iterator(MACHINE, 0) \in MachineStops(G, v)
      BY <1>11, <2>1 DEF MachineStops
    <3>2. setup_MACHINE(G, v) = Iterator(MACHINE, 0)
      BY <2>1 DEF setup_MACHINE
    <3>3. Rank(G, v, Iterator(MACHINE, 0)) = K + 1 /\ Iterator(MACHINE, 0) \in StopsAndEnd(G, v)
      BY <1>3, <3>1 DEF StopsAndEnd, Stops
    <3>4. \A j \in StopsAndEnd(G, v) : Rank(G, v, j) > K => K + 1 <= Rank(G, v, j)
      <4> HIDE DEF K, M
      <4> QED
        BY <1>1, <1>2, <1>3, <1>4, <1>5, <1>6
    <3> QED
      BY <1>1, <3>2, <3>3, <3>4 DEF IsNext
  <2>2. CASE ~(G.position[v] > 0)
    <3>1. setup_MACHINE(G, v) = setup_JOB(G, v)
      BY <2>2 DEF setup_MACHINE
    <3> QED
      BY <1>1, <1>2, <1>3, <1>8, <2>2, <3>1
  <2> QED
    BY <2>1, <2>2
<1> QED
  BY <1>9, <1>10, <1>11
LEMMA FifoIsNext ==
  ASSUME NEW G, NEW v, IsVertex(G, v), ~IsTerminal(v),
         NEW place \in 1 .. Len(G.route_succ[v]) + 1
  PROVE  IsNext(G, v, place - 1, FifoFrom(G, v, place))
<1> DEFINE K == Len(G.route_succ[v])
           M == Len(G.route_pred[v])
           found == {k \in place .. K : PcpPredecessor(G, G.route_succ[v][k]) # {}}
<1>1. K \in Nat /\ M \in Nat /\ LastRank(G, v) = K + M + 2
  BY DEF IsVertex, LastRank
<1>2. \A i \in FifoStops(G, v) :
        /\ i.it \in 1 .. K /\ i = Iterator(FIFO, i.it) /\ Rank(G, v, i) = i.it
        /\ PcpPredecessor(G, G.route_succ[v][i.it]) # {}
  BY RankOfStops
<1>3. \A i \in MachineStops(G, v) : Rank(G, v, i) = K + 1
  BY RankOfStops
<1>4. \A i \in JobStops(G, v) : i.it \in 1 .. M /\ Rank(G, v, i) = K + 1 + i.it
  BY RankOfStops
<1>5. Rank(G, v, END_OF_EDGES) = K + M + 2
  BY <1>1, RankOfStops
<1>6. \A i \in StopsAndEnd(G, v) :
        i \in FifoStops(G, v) \/ i \in MachineStops(G, v) \/ i \in JobStops(G, v) \/ i = END_OF_EDGES
  BY DEF StopsAndEnd, Stops
<1>7. \A i \in FifoStops(G, v) : i.it >= place => i.it \in found
  <2> SUFFICES ASSUME NEW i \in FifoStops(G, v), i.it >= place
               PROVE  i.it \in found
    OBVIOUS
  <2>1. i.it \in 1 .. K /\ PcpPredecessor(G, G.route_succ[v][i.it]) # {}
    BY <1>2
  <2>2. i.it \in place .. K
    <3> HIDE DEF K
    <3> QED
      BY <1>1, <2>1
  <2> QED
    BY <2>1, <2>2
<1>8. \A k \in found : /\ k \in 1 .. K /\ k >= place
                       /\ Iterator(FIFO, k) \in FifoStops(G, v) /\ Iterator(FIFO, k).it = k
  <2> SUFFICES ASSUME NEW k \in found
               PROVE  /\ k \in 1 .. K /\ k >= place
                      /\ Iterator(FIFO, k) \in FifoStops(G, v) /\ Iterator(FIFO, k).it = k
    OBVIOUS
  <2>1. k \in place .. K /\ PcpPredecessor(G, G.route_succ[v][k]) # {}
    OBVIOUS
  <2>2. k \in 1 .. K /\ k >= place
    <3> HIDE DEF K, found
    <3> QED
      BY <1>1, <2>1
  <2> HIDE DEF found
  <2> QED
    BY <2>1, <2>2 DEF FifoStops, Iterator
<1>9. found \in SUBSET Nat
  <2> HIDE DEF K
  <2> QED
    BY <1>1
<1>10. place \in 1 .. K + 1
  OBVIOUS
<1>11. CASE found = {}
  <2>1. FifoFrom(G, v, place) = setup_MACHINE(G, v)
    BY <1>11 DEF FifoFrom
  <2>2. IsNext(G, v, K, setup_MACHINE(G, v))
    BY SetupIsNext
  <2>3. \A j \in StopsAndEnd(G, v) : Rank(G, v, j) > place - 1 => Rank(G, v, j) > K
    <3> HIDE DEF K, M, found
    <3> QED
      BY <1>1, <1>2, <1>3, <1>4, <1>5, <1>6, <1>7, <1>10, <1>11
  <2>4. Rank(G, v, setup_MACHINE(G, v)) \in Nat /\ Rank(G, v, setup_MACHINE(G, v)) > K
    BY <2>2, RanksDiffer DEF IsNext
  <2>5. Rank(G, v, setup_MACHINE(G, v)) > place - 1
    <3> HIDE DEF K
    <3> QED
      BY <2>4, <1>1, <1>10
  <2> QED
    BY <2>1, <2>2, <2>3, <2>5 DEF IsNext
<1>12. CASE found # {}
  <2> DEFINE first == CHOOSE k \in found : \A j \in found : k <= j
  <2>1. \E k \in found : \A j \in found : k <= j
    <3> HIDE DEF found
    <3> QED
      BY <1>9, <1>12, LeastNatural
  <2>2. first \in found /\ \A j \in found : first <= j
    <3> HIDE DEF found
    <3> QED
      BY <2>1
  <2>3. FifoFrom(G, v, place) = Iterator(FIFO, first)
    BY <1>12 DEF FifoFrom
  <2> HIDE DEF first
  <2>4. Iterator(FIFO, first) \in FifoStops(G, v) /\ Rank(G, v, Iterator(FIFO, first)) = first
    BY <1>2, <1>8, <2>2
  <2>5. first \in 1 .. K /\ first >= place
    BY <1>8, <2>2
  <2>6. \A j \in StopsAndEnd(G, v) : Rank(G, v, j) > place - 1 => first <= Rank(G, v, j)
    <3> HIDE DEF K, M, found
    <3> QED
      BY <1>1, <1>2, <1>3, <1>4, <1>5, <1>6, <1>7, <1>10, <2>2, <2>5
  <2>7. first > place - 1
    <3> HIDE DEF K
    <3> QED
      BY <1>1, <1>10, <2>5
  <2>8. Iterator(FIFO, first) \in StopsAndEnd(G, v)
    BY <2>4 DEF StopsAndEnd, Stops
  <2> QED
    BY <2>3, <2>4, <2>6, <2>7, <2>8 DEF IsNext
<1> QED
  BY <1>11, <1>12

LEMMA BeginIsFirst ==
  ASSUME NEW G, NEW v, IsVertex(G, v)
  PROVE  IsNext(G, v, 0, begin(G, v))
<1>1. CASE IsTerminal(v)
  BY <1>1, SetupIsNext DEF begin
<1>2. CASE ~IsTerminal(v)
  <2>1. 1 \in 1 .. Len(G.route_succ[v]) + 1 /\ 1 - 1 = 0
    BY DEF IsVertex
  <2>2. IsNext(G, v, 1 - 1, FifoFrom(G, v, 1))
    BY <1>2, <2>1, FifoIsNext
  <2> QED
    BY <1>2, <2>1, <2>2 DEF begin
<1> QED
  BY <1>1, <1>2

LEMMA IncrementIsNext ==
  ASSUME NEW G, NEW v, IsVertex(G, v), NEW i \in Stops(G, v)
  PROVE  IsNext(G, v, Rank(G, v, i), following(G, v, i))
<1> DEFINE K == Len(G.route_succ[v])
           M == Len(G.route_pred[v])
<1>1. K \in Nat /\ M \in Nat /\ LastRank(G, v) = K + M + 2
  BY DEF IsVertex, LastRank
<1>2. following(G, v, i) = increment(G, v, i)
  BY RanksDiffer DEF following
<1>3. CASE i \in FifoStops(G, v)
  <2>1. i.type = FIFO /\ i.it \in 1 .. K /\ ~IsTerminal(v) /\ Rank(G, v, i) = i.it
    BY <1>3, RankOfStops
  <2>2. i.it + 1 \in 1 .. K + 1 /\ (i.it + 1) - 1 = i.it
    <3> HIDE DEF K
    <3> QED
      BY <1>1, <2>1
  <2>3. IsNext(G, v, (i.it + 1) - 1, FifoFrom(G, v, i.it + 1))
    BY <2>1, <2>2, FifoIsNext
  <2>4. increment(G, v, i) = FifoFrom(G, v, i.it + 1)
    BY <2>1 DEF increment, FIFO, MACHINE, JOB
  <2> QED
    BY <1>2, <2>1, <2>2, <2>3, <2>4
<1>4. CASE i \in MachineStops(G, v)
  <2>1. i.type = MACHINE /\ Rank(G, v, i) = K + 1
    BY <1>4, RankOfStops
  <2>2. increment(G, v, i) = setup_JOB(G, v)
    BY <2>1 DEF increment, FIFO, MACHINE, JOB
  <2> QED
    BY <1>2, <2>1, <2>2, SetupIsNext
<1>5. CASE i \in JobStops(G, v)
  <2>1. /\ i.type = JOB /\ i.it \in 1 .. M /\ v # SOURCE_ID
        /\ Rank(G, v, i) = K + 1 + i.it
    BY <1>5, RankOfStops
  <2>2. increment(G, v, i) = IF i.it + 1 > M THEN END_OF_EDGES ELSE Iterator(JOB, i.it + 1)
    BY <2>1 DEF increment, FIFO, MACHINE, JOB
  <2>3. \A j \in FifoStops(G, v) : Rank(G, v, j) \in 1 .. K
    BY RankOfStops
  <2>4. \A j \in MachineStops(G, v) : Rank(G, v, j) = K + 1
    BY RankOfStops
  <2>5. \A j \in JobStops(G, v) : j.it \in 1 .. M /\ Rank(G, v, j) = K + 1 + j.it
    BY RankOfStops
  <2>6. Rank(G, v, END_OF_EDGES) = K + M + 2
    BY <1>1, RankOfStops
  <2>7. \A j \in StopsAndEnd(G, v) :
          j \in FifoStops(G, v) \/ j \in MachineStops(G, v) \/ j \in JobStops(G, v) \/ j = END_OF_EDGES
    BY DEF StopsAndEnd, Stops
  <2>8. CASE i.it + 1 > M
    <3>1. \A j \in StopsAndEnd(G, v) : Rank(G, v, j) > Rank(G, v, i) => K + M + 2 <= Rank(G, v, j)
      <4> HIDE DEF K, M
      <4> QED
        BY <1>1, <2>1, <2>3, <2>4, <2>5, <2>6, <2>7, <2>8
    <3>2. Rank(G, v, END_OF_EDGES) > Rank(G, v, i)
      <4> HIDE DEF K, M
      <4> QED
        BY <1>1, <2>1, <2>6
    <3>3. END_OF_EDGES \in StopsAndEnd(G, v)
      BY DEF StopsAndEnd
    <3>4. following(G, v, i) = END_OF_EDGES
      BY <1>2, <2>2, <2>8
    <3> QED
      BY <2>6, <3>1, <3>2, <3>3, <3>4 DEF IsNext
  <2>9. CASE ~(i.it + 1 > M)
    <3> DEFINE after == Iterator(JOB, i.it + 1)
    <3>1. i.it + 1 \in 1 .. M
      <4> HIDE DEF M
      <4> QED
        BY <1>1, <2>1, <2>9
    <3>2. after \in JobStops(G, v) /\ after.it = i.it + 1
      BY <2>1, <3>1 DEF JobStops, Iterator
    <3>3. following(G, v, i) = after
      BY <1>2, <2>2, <2>9
    <3> HIDE DEF after
    <3>4. Rank(G, v, after) = K + 1 + (i.it + 1)
      BY <2>5, <3>2
    <3>5. after \in StopsAndEnd(G, v)
      BY <3>2 DEF StopsAndEnd, Stops
    <3>6. /\ Rank(G, v, after) > Rank(G, v, i)
          /\ \A j \in StopsAndEnd(G, v) :
               Rank(G, v, j) > Rank(G, v, i) => Rank(G, v, after) <= Rank(G, v, j)
      <4> HIDE DEF K, M
      <4> QED
        BY <1>1, <2>1, <2>3, <2>4, <2>5, <2>6, <2>7, <3>1, <3>4
    <3> QED
      BY <3>3, <3>5, <3>6 DEF IsNext
  <2> QED
    BY <2>8, <2>9
<1> QED
  BY <1>3, <1>4, <1>5 DEF Stops
\* it is what an iterator of v is after each increment.
IsIteration(g, v, it) ==
  /\ it \in [Nat -> StopsAndEnd(g, v)]
  /\ it[0] = begin(g, v)
  /\ \A n \in Nat : it[n + 1] = following(g, v, it[n])

\* The iterators of VisitedEdges.
Iterators(g, v) ==
  CHOOSE it : it = [n \in Nat |-> IF n = 0 THEN begin(g, v) ELSE following(g, v, it[n - 1])]

LEMMA IteratorsGoOn ==
  ASSUME NEW G, NEW v, IsVertex(G, v)
  PROVE  IsIteration(G, v, Iterators(G, v))
<1> DEFINE S == StopsAndEnd(G, v)
           h == [i \in S |-> following(G, v, i)]
           Steps(f) == [n \in Nat |-> IF n = 0 THEN begin(G, v) ELSE following(G, v, f[n - 1])]
<1>1. begin(G, v) \in S
  BY BeginIsFirst DEF IsNext
<1>2. \A i \in S : following(G, v, i) \in S
  <2>1. \A i \in Stops(G, v) : following(G, v, i) \in S
    BY IncrementIsNext DEF IsNext
  <2>2. following(G, v, END_OF_EDGES) \in S
    BY DEF following, StopsAndEnd
  <2> QED
    BY <2>1, <2>2 DEF StopsAndEnd
<1>3. h \in [S -> S]
  BY <1>2
<1> HIDE DEF S
<1>4. PICK f : f = [n \in Nat |-> IF n = 0 THEN begin(G, v) ELSE h[f[n - 1]]]
  <2> HIDE DEF h
  <2> DEFINE first == begin(G, v)
  <2>1. first \in S
    BY <1>1
  <2> HIDE DEF first
  <2>2. \E f : f = [n \in Nat |-> IF n = 0 THEN first ELSE h[f[n - 1]]]
    BY <1>3, <2>1, IterationExists
  <2> QED
    BY <2>2 DEF first
<1>5. f \in [Nat -> S] /\ f[0] = begin(G, v) /\ \A n \in Nat : f[n + 1] = h[f[n]]
  <2> HIDE DEF h
  <2> QED
    BY <1>1, <1>3, <1>4, IterationType
<1>6. \A n \in Nat : n # 0 => n - 1 \in Nat
  OBVIOUS
<1>7. \A n \in Nat : n # 0 => h[f[n - 1]] = following(G, v, f[n - 1])
  BY <1>5, <1>6
<1>8. f = Steps(f)
  <2> HIDE DEF h
  <2> QED
    BY <1>4, <1>7
<1> DEFINE it == Iterators(G, v)
<1>9. it = Steps(it)
  <2>1. \E x : x = Steps(x)
    <3> HIDE DEF Steps
    <3> QED
      BY <1>8
  <2> QED
    BY <2>1 DEF Iterators
<1> HIDE DEF it
<1>10. it[0] = begin(G, v) /\ \A n \in Nat : it[n + 1] = following(G, v, it[n])
  BY <1>9
<1> DEFINE T == {n \in Nat : it[n] \in S}
<1>11. 0 \in T
  BY <1>1, <1>10
<1>12. \A n \in Nat : n \in T => n + 1 \in T
  BY <1>2, <1>10
<1>13. Nat \subseteq T
  <2> HIDE DEF T
  <2> QED
    BY <1>11, <1>12, InductionOnNaturals
<1>14. it \in [Nat -> S]
  <2>1. it = [n \in Nat |-> it[n]]
    BY <1>9
  <2>2. \A n \in Nat : it[n] \in S
    BY <1>13
  <2> HIDE DEF T
  <2> QED
    BY <2>1, <2>2
<1> QED
  BY <1>10, <1>14 DEF IsIteration, it, S

\* The number of edges of an iteration.
IsCount(g, v, it, n) ==
  /\ n \in 0 .. LastRank(g, v) - 1
  /\ it[n] = END_OF_EDGES
  /\ \A m \in 0 .. n - 1 : it[m] # END_OF_EDGES

LEMMA IterationsEnd ==
  ASSUME NEW G, NEW v, IsVertex(G, v), NEW it, IsIteration(G, v, it)
  PROVE  \E n : IsCount(G, v, it, n)
<1> DEFINE R(n) == Rank(G, v, it[n])
           T == {n \in Nat : it[n] = END_OF_EDGES \/ R(n) > n}
           ends == {n \in Nat : it[n] = END_OF_EDGES}
           E == LastRank(G, v)
<1>1. /\ E \in Nat
      /\ \A n \in Nat : R(n) \in 1 .. E /\ (it[n] # END_OF_EDGES => R(n) < E)
  BY RanksDiffer DEF IsIteration, StopsAndEnd
<1>2. \A n \in Nat : it[n] # END_OF_EDGES => R(n + 1) > R(n)
  BY IncrementIsNext DEF IsIteration, StopsAndEnd, IsNext
<1>3. \A n \in Nat : it[n] = END_OF_EDGES => it[n + 1] = END_OF_EDGES
  BY DEF IsIteration, following
<1> HIDE DEF R, E
<1>4. 0 \in T
  BY <1>1
<1>5. \A n \in Nat : n \in T => n + 1 \in T
  BY <1>1, <1>2, <1>3
<1>6. Nat \subseteq T
  <2> HIDE DEF T
  <2> QED
    BY <1>4, <1>5, InductionOnNaturals
<1>7. E >= 1 /\ E - 1 \in Nat
  BY <1>1
<1>8. E - 1 \in ends
  BY <1>1, <1>6, <1>7
<1>9. PICK n \in ends : \A m \in ends : n <= m
  <2>1. ends \in SUBSET Nat
    OBVIOUS
  <2> HIDE DEF ends
  <2> QED
    BY <1>8, <2>1, LeastNatural
<1>10. n \in 0 .. E - 1
  BY <1>7, <1>8, <1>9
<1>11. \A m \in 0 .. n - 1 : it[m] # END_OF_EDGES
  BY <1>9
<1> QED
  BY <1>9, <1>10, <1>11 DEF IsCount, E

\* The iteration stops once at every stop.
LEMMA EveryStopOnce ==
  ASSUME NEW G, NEW v, IsVertex(G, v), NEW it, IsIteration(G, v, it),
         NEW count, IsCount(G, v, it, count)
  PROVE  /\ \A n \in 0 .. count - 1 : it[n] \in Stops(G, v)
         /\ \A i \in Stops(G, v) : \E n \in 0 .. count - 1 : it[n] = i
         /\ \A m, n \in 0 .. count - 1 : it[m] = it[n] => m = n
<1> DEFINE R(n) == Rank(G, v, it[n])
           E == LastRank(G, v)
<1>1. /\ E \in Nat
      /\ \A n \in Nat : R(n) \in 1 .. E /\ (it[n] # END_OF_EDGES => R(n) < E)
  BY RanksDiffer DEF IsIteration, StopsAndEnd
<1>2. \A n \in Nat : it[n] # END_OF_EDGES => IsNext(G, v, R(n), it[n + 1])
  BY IncrementIsNext DEF IsIteration, StopsAndEnd
<1>3. count \in Nat /\ it[count] = END_OF_EDGES /\ R(count) = E
  BY <1>1, RankOfStops DEF IsCount
<1>4. \A n \in 0 .. count - 1 : n \in Nat /\ it[n] # END_OF_EDGES
  BY <1>3 DEF IsCount
<1>5. \A n \in 0 .. count - 1 : it[n] \in Stops(G, v)
  BY <1>4 DEF IsIteration, StopsAndEnd
<1>6. ASSUME NEW i \in Stops(G, v)
      PROVE  \E n \in 0 .. count - 1 : it[n] = i
  <2> DEFINE T == {n \in Nat : R(n) >= Rank(G, v, i)}
  <2>1. i \in StopsAndEnd(G, v) /\ i # END_OF_EDGES /\ Rank(G, v, i) \in 1 .. E
        /\ Rank(G, v, i) < E
    BY RanksDiffer DEF StopsAndEnd
  <2>2. count \in T
    <3> HIDE DEF R, E
    <3> QED
      BY <1>1, <1>3, <2>1
  <2>3. PICK n \in T : \A m \in T : n <= m
    <3>1. T \in SUBSET Nat
      OBVIOUS
    <3> HIDE DEF T
    <3> QED
      BY <2>2, <3>1, LeastNatural
  <2>4. R(n) <= Rank(G, v, i)
    <3>1. CASE n = 0
      <4>1. IsNext(G, v, 0, it[0])
        BY BeginIsFirst DEF IsIteration
      <4>2. Rank(G, v, i) > 0
        <5> HIDE DEF E
        <5> QED
          BY <1>1, <2>1
      <4> QED
        BY <3>1, <4>1, <4>2, <2>1 DEF IsNext
    <3>2. CASE n # 0
      <4>1. n - 1 \in Nat /\ (n - 1) + 1 = n /\ n - 1 \notin T
        <5>1. n \in Nat
          OBVIOUS
        <5> HIDE DEF T
        <5> QED
          BY <2>3, <3>2, <5>1
      <4>2. R(n - 1) < Rank(G, v, i)
        <5>1. R(n - 1) \in Int /\ Rank(G, v, i) \in Int
          BY <1>1, <2>1, <4>1
        <5>2. ~(R(n - 1) >= Rank(G, v, i))
          BY <4>1
        <5> HIDE DEF R
        <5> QED
          BY <5>1, <5>2
      <4>3. it[n - 1] # END_OF_EDGES
        <5> SUFFICES ASSUME it[n - 1] = END_OF_EDGES
                     PROVE  FALSE
          OBVIOUS
        <5>1. R(n - 1) = E
          BY RankOfStops
        <5> HIDE DEF R, E
        <5> QED
          BY <1>1, <2>1, <4>2, <5>1
      <4>4. IsNext(G, v, R(n - 1), it[n])
        BY <1>2, <4>1, <4>3
      <4>5. Rank(G, v, i) > R(n - 1)
        <5>1. R(n - 1) \in Int /\ Rank(G, v, i) \in Int
          BY <1>1, <2>1, <4>1
        <5> HIDE DEF R
        <5> QED
          BY <4>2, <5>1
      <4> QED
        BY <2>1, <4>4, <4>5 DEF IsNext
    <3> QED
      BY <3>1, <3>2
  <2>5. R(n) = Rank(G, v, i)
    <3>1. n \in Nat /\ R(n) >= Rank(G, v, i)
      OBVIOUS
    <3>2. R(n) \in Int /\ Rank(G, v, i) \in Int
      BY <1>1, <2>1, <3>1
    <3> HIDE DEF R, T
    <3> QED
      BY <2>4, <3>1, <3>2
  <2>6. it[n] = i
    BY <2>1, <2>5, RanksDiffer DEF IsIteration
  <2>7. n <= count /\ n # count /\ n \in Nat
    BY <1>3, <2>1, <2>2, <2>3, <2>6
  <2> HIDE DEF T
  <2>8. n \in 0 .. count - 1
    BY <1>3, <2>7
  <2> QED
    BY <2>6, <2>8
<1>7. ASSUME NEW m \in 0 .. count - 1
      PROVE  \A n \in 0 .. count - 1 : m < n => R(m) < R(n)
  <2> DEFINE T == {n \in Nat : n \in 0 .. count - 1 /\ m < n => R(m) < R(n)}
  <2>1. 0 \in T
    BY <1>3
  <2>2. ASSUME NEW n \in Nat, n \in T
        PROVE  n + 1 \in T
    <3> SUFFICES ASSUME n + 1 \in 0 .. count - 1, m < n + 1
                 PROVE  R(m) < R(n + 1)
      OBVIOUS
    <3>1. n \in 0 .. count - 1 /\ n + 1 \in Nat
      BY <1>3
    <3>2. R(n + 1) > R(n)
      BY <1>2, <1>4, <3>1 DEF IsNext
    <3>3. R(n) \in Int /\ R(m) \in Int /\ R(n + 1) \in Int
      BY <1>1, <1>4, <3>1
    <3>4. m = n \/ m < n
      BY <1>3
    <3>5. m < n => R(m) < R(n)
      BY <2>2, <3>1
    <3> HIDE DEF R, T
    <3> QED
      BY <3>2, <3>3, <3>4, <3>5
  <2> HIDE DEF T
  <2>3. Nat \subseteq T
    BY <2>1, <2>2, InductionOnNaturals
  <2> QED
    BY <1>4, <2>3 DEF T
<1>8. \A m, n \in 0 .. count - 1 : it[m] = it[n] => m = n
  <2> SUFFICES ASSUME NEW m \in 0 .. count - 1, NEW n \in 0 .. count - 1, it[m] = it[n]
               PROVE  m = n
    OBVIOUS
  <2>1. R(m) = R(n) /\ R(m) \in Int
    BY <1>1, <1>4
  <2>2. (m < n => R(m) < R(n)) /\ (n < m => R(n) < R(m))
    BY <1>7
  <2> HIDE DEF R
  <2> QED
    BY <1>3, <2>1, <2>2
<1> QED
  BY <1>5, <1>6, <1>8
LEMMA OnePcpPredecessor ==
  ASSUME NEW G, NEW s, ~IsTerminal(s) => G.position[s] \in Nat
  PROVE  /\ \A u, w \in PcpPredecessor(G, s) : u = w
         /\ \A u \in PcpPredecessor(G, s) :
              ~IsTerminal(s) /\ \E i \in 0 .. G.position[s] - 1 : u = OpAt(G, G.link[s], i)
<1>1. CASE IsTerminal(s)
  BY <1>1 DEF PcpPredecessor
<1>2. CASE ~IsTerminal(s)
  <2> DEFINE l == G.link[s]
             earlier == {i \in 0 .. G.position[s] - 1 : G.pcp[OpAt(G, l, i)] = G.pcp[s]}
             latest == {j \in earlier : \A k \in earlier : k <= j}
  <2>1. PcpPredecessor(G, s) = {OpAt(G, l, i) : i \in latest}
    BY <1>2 DEF PcpPredecessor
  <2>2. \A i \in latest : i \in 0 .. G.position[s] - 1
    OBVIOUS
  <2>3. \A i, j \in latest : i <= j /\ j <= i
    OBVIOUS
  <2> HIDE DEF latest
  <2>4. \A i, j \in latest : i = j
    BY <1>2, <2>2, <2>3
  <2> QED
    BY <1>2, <2>1, <2>2, <2>4
<1> QED
  BY <1>1, <1>2

\* The edge that an iterator is at.
EdgeAt(g, v, i) == <<dereference(g, v, i), v, i.type>>

LEMMA StopsAreEdges ==
  ASSUME NEW G, NEW v, IsVertex(G, v)
  PROVE  /\ {EdgeAt(G, v, i) : i \in Stops(G, v)} = EdgesInto(G, v)
         /\ \A i, j \in Stops(G, v) :
              dereference(G, v, i) = dereference(G, v, j) /\ i.type = j.type => i = j
<1> DEFINE succ == G.route_succ[v]
           pred == G.route_pred[v]
           d(i) == dereference(G, v, i)
           EdgesOf(S) == {EdgeAt(G, v, i) : i \in S}
<1>1. /\ DOMAIN succ = 1 .. Len(succ) /\ DOMAIN pred = 1 .. Len(pred)
      /\ Len(succ) \in Nat /\ Len(pred) \in Nat
  BY DEF IsVertex
<1>2. Range(succ) = {succ[k] : k \in 1 .. Len(succ)} /\ Range(pred) = {pred[k] : k \in 1 .. Len(pred)}
  BY <1>1 DEF Range
<1>3. ~IsTerminal(v) => \A s \in Range(succ) :
        /\ \A u, w \in PcpPredecessor(G, s) : u = w
        /\ \A u \in PcpPredecessor(G, s) : ~IsTerminal(s) /\ G.link[u] = G.link[s]
  <2> SUFFICES ASSUME ~IsTerminal(v), NEW s \in Range(succ)
               PROVE  /\ \A u, w \in PcpPredecessor(G, s) : u = w
                      /\ \A u \in PcpPredecessor(G, s) : ~IsTerminal(s) /\ G.link[u] = G.link[s]
    OBVIOUS
  <2>1. ~IsTerminal(s) =>
          /\ G.position[s] \in Nat
          /\ \A i \in 0 .. G.position[s] - 1 : G.link[OpAt(G, G.link[s], i)] = G.link[s]
    BY DEF IsVertex
  <2> QED
    BY <2>1, OnePcpPredecessor
<1>4. \A i \in FifoStops(G, v) :
        /\ i.type = FIFO /\ i.it \in 1 .. Len(succ) /\ i = Iterator(FIFO, i.it) /\ ~IsTerminal(v)
        /\ PcpPredecessor(G, succ[i.it]) # {}
  BY RankOfStops
<1>5. \A i \in MachineStops(G, v) :
        i = Iterator(MACHINE, 0) /\ i.type = MACHINE /\ ~IsTerminal(v) /\ G.position[v] > 0
  BY RankOfStops
<1>6. \A i \in JobStops(G, v) :
        i.type = JOB /\ i.it \in 1 .. Len(pred) /\ i = Iterator(JOB, i.it) /\ v # SOURCE_ID
  BY RankOfStops
<1>7. \A i \in FifoStops(G, v) : d(i) \in PcpPredecessor(G, succ[i.it]) /\ succ[i.it] \in Range(succ)
  <2> SUFFICES ASSUME NEW i \in FifoStops(G, v)
               PROVE  d(i) \in PcpPredecessor(G, succ[i.it]) /\ succ[i.it] \in Range(succ)
    OBVIOUS
  <2>1. d(i) = CHOOSE u \in PcpPredecessor(G, succ[i.it]) : TRUE
    BY <1>4 DEF dereference, FIFO, MACHINE, JOB
  <2> QED
    BY <1>2, <1>4, <2>1
<1>8. \A i \in MachineStops(G, v) : d(i) = OpAt(G, G.link[v], G.position[v] - 1)
  BY <1>5 DEF dereference, FIFO, MACHINE, JOB
<1>9. \A i \in JobStops(G, v) : d(i) = pred[i.it]
  BY <1>6 DEF dereference, FIFO, MACHINE, JOB
<1>10. EdgesOf(FifoStops(G, v)) =
         IF IsTerminal(v) THEN {}
         ELSE {<<u, v, FIFO>> : u \in UNION {PcpPredecessor(G, s) : s \in Range(succ)}}
  <2>1. CASE IsTerminal(v)
    BY <1>4, <2>1
  <2>2. CASE ~IsTerminal(v)
    <3>1. \A i \in FifoStops(G, v) : d(i) \in UNION {PcpPredecessor(G, s) : s \in Range(succ)}
      BY <1>7
    <3>2. ASSUME NEW s \in Range(succ), NEW u \in PcpPredecessor(G, s)
          PROVE  \E i \in FifoStops(G, v) : d(i) = u
      <4>1. PICK k \in 1 .. Len(succ) : s = succ[k]
        BY <1>2
      <4>2. Iterator(FIFO, k) \in FifoStops(G, v) /\ Iterator(FIFO, k).it = k
        BY <2>2, <3>2, <4>1 DEF FifoStops, Iterator
      <4>3. d(Iterator(FIFO, k)) \in PcpPredecessor(G, s)
        BY <1>7, <4>1, <4>2
      <4> QED
        BY <1>3, <1>4, <4>2, <4>3
    <3>3. \A i \in FifoStops(G, v) : EdgeAt(G, v, i) = <<d(i), v, FIFO>>
      BY <1>4 DEF EdgeAt
    <3> HIDE DEF d
    <3> QED
      BY <2>2, <3>1, <3>2, <3>3
  <2> QED
    BY <2>1, <2>2
<1>11. EdgesOf(MachineStops(G, v)) =
         IF IsTerminal(v) THEN {}
         ELSE {<<OpAt(G, G.link[v], i), v, MACHINE>> : i \in {G.position[v] - 1} \cap Nat}
  <2>1. CASE IsTerminal(v)
    BY <1>5, <2>1
  <2>2. CASE ~IsTerminal(v) /\ G.position[v] > 0
    <3>1. MachineStops(G, v) = {Iterator(MACHINE, 0)}
      BY <2>2 DEF MachineStops
    <3>2. EdgesOf(MachineStops(G, v)) = {EdgeAt(G, v, Iterator(MACHINE, 0))}
      BY <3>1
    <3>3. EdgeAt(G, v, Iterator(MACHINE, 0)) = <<OpAt(G, G.link[v], G.position[v] - 1), v, MACHINE>>
      BY <1>5, <1>8, <3>1 DEF EdgeAt
    <3>4. G.position[v] \in Nat
      BY <2>2 DEF IsVertex
    <3>5. {G.position[v] - 1} \cap Nat = {G.position[v] - 1}
      BY <2>2, <3>4
    <3> QED
      BY <2>2, <3>2, <3>3, <3>5
  <2>3. CASE ~IsTerminal(v) /\ ~(G.position[v] > 0)
    <3>1. G.position[v] \in Nat
      BY <2>3 DEF IsVertex
    <3>2. {G.position[v] - 1} \cap Nat = {}
      BY <2>3, <3>1
    <3>3. MachineStops(G, v) = {}
      BY <2>3 DEF MachineStops
    <3> QED
      BY <2>3, <3>2, <3>3
  <2> QED
    BY <2>1, <2>2, <2>3
<1>12. EdgesOf(JobStops(G, v)) =
         IF v = SOURCE_ID THEN {} ELSE {<<u, v, JOB>> : u \in Range(pred)}
  <2>1. CASE v = SOURCE_ID
    BY <1>6, <2>1
  <2>2. CASE v # SOURCE_ID
    <3>1. \A i \in JobStops(G, v) : EdgeAt(G, v, i) = <<pred[i.it], v, JOB>> /\ i.it \in 1 .. Len(pred)
      BY <1>6, <1>9 DEF EdgeAt
    <3>2. \A k \in 1 .. Len(pred) : Iterator(JOB, k) \in JobStops(G, v) /\ Iterator(JOB, k).it = k
      BY <2>2 DEF JobStops, Iterator
    <3> QED
      BY <1>2, <2>2, <3>1, <3>2
  <2> QED
    BY <2>1, <2>2
<1>13. EdgesOf(Stops(G, v)) =
         EdgesOf(FifoStops(G, v)) \cup EdgesOf(MachineStops(G, v)) \cup EdgesOf(JobStops(G, v))
  BY DEF Stops
<1>14. EdgesOf(Stops(G, v)) = EdgesInto(G, v)
  <2> HIDE DEF EdgesOf
  <2>1. CASE IsTerminal(v)
    BY <1>10, <1>11, <1>12, <1>13, <2>1 DEF EdgesInto
  <2>2. CASE ~IsTerminal(v)
    BY <1>10, <1>11, <1>12, <1>13, <2>2 DEF EdgesInto
  <2> QED
    BY <2>1, <2>2
<1>15. ASSUME NEW i \in Stops(G, v), NEW j \in Stops(G, v), d(i) = d(j), i.type = j.type
       PROVE  i = j
  <2>1. CASE i \in FifoStops(G, v) /\ j \in FifoStops(G, v)
    <3>1. /\ ~IsTerminal(succ[i.it]) /\ G.link[d(i)] = G.link[succ[i.it]]
          /\ ~IsTerminal(succ[j.it]) /\ G.link[d(j)] = G.link[succ[j.it]]
      BY <1>3, <1>4, <1>7, <2>1
    <3>2. i.it \in DOMAIN succ /\ j.it \in DOMAIN succ /\ ~IsTerminal(v)
      BY <1>1, <1>4, <2>1
    <3>3. i.it = j.it
      BY <1>15, <3>1, <3>2 DEF IsVertex
    <3> QED
      BY <1>4, <2>1, <3>3
  <2>2. CASE i \in MachineStops(G, v) /\ j \in MachineStops(G, v)
    BY <1>5, <2>2
  <2>3. CASE i \in JobStops(G, v) /\ j \in JobStops(G, v)
    <3>1. i.it \in DOMAIN pred /\ j.it \in DOMAIN pred /\ pred[i.it] = pred[j.it]
      BY <1>1, <1>6, <1>9, <1>15, <2>3
    <3>2. i.it = j.it
      BY <3>1 DEF IsVertex
    <3> QED
      BY <1>6, <2>3, <3>2
  <2> QED
    BY <1>4, <1>5, <1>6, <1>15, <2>1, <2>2, <2>3 DEF Stops, FIFO, MACHINE, JOB
<1> QED
  BY <1>14, <1>15

\* A traversal that asks the iterators of an operation for its edges, as
\* DFSTraversal does before every visit, sees all of them and none twice,
\* whatever the orders of the links: the first hop that waits for nobody in its
\* queue does not end the search for those that wait, and an operation that is
\* the first of its link still has its job edges.
THEOREM EveryEdgeOnce ==
  ASSUME NEW G, NEW v, IsVertex(G, v)
  PROVE  AreEdgesInto(G, v, VisitedEdges(G, v))
<1> DEFINE it == Iterators(G, v)
           bound == Len(G.route_succ[v]) + Len(G.route_pred[v]) + 1
           count == CHOOSE n \in 0 .. bound : /\ it[n] = END_OF_EDGES
                                              /\ \A m \in 0 .. n - 1 : it[m] # END_OF_EDGES
           edge(i) == [source |-> dereference(G, v, i), edge_type |-> i.type, target |-> v]
           edges == VisitedEdges(G, v)
<1>1. edges = [n \in 1 .. count |-> edge(it[n - 1])]
  BY DEF VisitedEdges, Iterators
<1>2. IsIteration(G, v, it)
  BY IteratorsGoOn
<1> HIDE DEF it
<1>3. bound = LastRank(G, v) - 1
  BY DEF IsVertex, LastRank
<1>4. IsCount(G, v, it, count)
  <2>1. PICK n : IsCount(G, v, it, n)
    BY <1>2, IterationsEnd
  <2>2. \E m \in 0 .. bound : /\ it[m] = END_OF_EDGES
                              /\ \A k \in 0 .. m - 1 : it[k] # END_OF_EDGES
    BY <1>3, <2>1 DEF IsCount
  <2> HIDE DEF bound
  <2>3. count \in 0 .. bound /\ it[count] = END_OF_EDGES /\ \A m \in 0 .. count - 1 : it[m] # END_OF_EDGES
    BY <2>2
  <2> HIDE DEF count
  <2> QED
    BY <1>3, <2>3 DEF IsCount
<1>5. count \in Nat
  BY <1>4, RanksDiffer DEF IsCount
<1> HIDE DEF count
<1>6. /\ \A n \in 0 .. count - 1 : it[n] \in Stops(G, v)
      /\ \A i \in Stops(G, v) : \E n \in 0 .. count - 1 : it[n] = i
      /\ \A m, n \in 0 .. count - 1 : it[m] = it[n] => m = n
  BY <1>2, <1>4, EveryStopOnce
<1>7. /\ \A n \in 1 .. count : n - 1 \in 0 .. count - 1
      /\ \A n \in 0 .. count - 1 : n + 1 \in 1 .. count /\ (n + 1) - 1 = n
  BY <1>5
<1>8. /\ DOMAIN edges = 1 .. count
      /\ \A n \in 1 .. count : /\ edges[n].source = dereference(G, v, it[n - 1])
                               /\ edges[n].edge_type = it[n - 1].type
  BY <1>1
<1> HIDE DEF edges
<1>9. {<<edges[n].source, v, edges[n].edge_type>> : n \in DOMAIN edges} = EdgesInto(G, v)
  <2>1. \A n \in 1 .. count :
          <<edges[n].source, v, edges[n].edge_type>> = EdgeAt(G, v, it[n - 1])
    BY <1>8 DEF EdgeAt
  <2>2. {EdgeAt(G, v, it[n - 1]) : n \in 1 .. count} = {EdgeAt(G, v, i) : i \in Stops(G, v)}
    BY <1>6, <1>7
  <2> QED
    BY <1>8, <2>1, <2>2, StopsAreEdges
<1>10. \A m, n \in DOMAIN edges :
         edges[m].source = edges[n].source /\ edges[m].edge_type = edges[n].edge_type => m = n
  <2> SUFFICES ASSUME NEW m \in 1 .. count, NEW n \in 1 .. count,
                      edges[m].source = edges[n].source, edges[m].edge_type = edges[n].edge_type
               PROVE  m = n
    BY <1>8
  <2>1. it[m - 1] \in Stops(G, v) /\ it[n - 1] \in Stops(G, v)
    BY <1>6, <1>7
  <2>2. it[m - 1] = it[n - 1]
    BY <1>8, <2>1, StopsAreEdges
  <2>3. m - 1 = n - 1
    BY <1>6, <1>7, <2>2
  <2> QED
    BY <1>5, <2>3
<1> QED
  BY <1>9, <1>10 DEF AreEdgesInto, edges
=============================================================================
