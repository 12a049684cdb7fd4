------------------------------ MODULE RouteProofs ------------------------------
(***************************************************************************)
(* Proofs about Route, for every network and every set of paths.           *)
(***************************************************************************)
EXTENDS Route, SequenceTheorems, TLAPS

-----------------------------------------------------------------------------
(* Lists without duplicates. *)

LEMMA AppendLists ==
  ASSUME NEW S, NEW seq \in Seq(S), NEW x \in S
  PROVE  /\ Append(seq, x) \in Seq(S)
         /\ Range(Append(seq, x)) = Range(seq) \cup {x}
         /\ IsInjective(seq) /\ x \notin Range(seq) => IsInjective(Append(seq, x))
<1>1. /\ Append(seq, x) \in Seq(S) /\ Len(seq) \in Nat
      /\ Len(Append(seq, x)) = Len(seq) + 1
      /\ Append(seq, x)[Len(seq) + 1] = x
      /\ \A i \in 1 .. Len(seq) : Append(seq, x)[i] = seq[i]
      /\ DOMAIN Append(seq, x) = 1 .. Len(seq) + 1 /\ DOMAIN seq = 1 .. Len(seq)
  BY AppendProperties
<1>2. Range(Append(seq, x)) = Range(seq) \cup {x}
  <2>1. \A i : i \in 1 .. Len(seq) + 1 <=> i \in 1 .. Len(seq) \/ i = Len(seq) + 1
    BY <1>1
  <2> QED
    BY <1>1, <2>1 DEF Range
<1>3. ASSUME IsInjective(seq), x \notin Range(seq)
      PROVE  IsInjective(Append(seq, x))
  <2>1. \A i : i \in 1 .. Len(seq) + 1 <=> i \in 1 .. Len(seq) \/ i = Len(seq) + 1
    BY <1>1
  <2> QED
    BY <1>1, <1>3, <2>1 DEF Range, IsInjective
<1> QED
  BY <1>1, <1>2, <1>3

LEMMA EmptyList ==
  ASSUME NEW S
  PROVE  <<>> \in Seq(S) /\ Range(<<>>) = {} /\ IsInjective(<<>>)
  BY DEF Range, IsInjective

LEMMA ListOfOne ==
  ASSUME NEW S, NEW x \in S
  PROVE  <<x>> \in Seq(S) /\ Range(<<x>>) = {x} /\ IsInjective(<<x>>)
  BY DEF Range, IsInjective

\* A list without duplicates is determined by its range if that has one member.
LEMMA OnlyMember ==
  ASSUME NEW S, NEW seq \in Seq(S), IsInjective(seq), NEW x, Range(seq) = {x}
  PROVE  seq = <<x>>
<1>1. seq \in [1 .. Len(seq) -> S] /\ Len(seq) \in Nat /\ DOMAIN seq = 1 .. Len(seq)
  OBVIOUS
<1>2. \A i \in 1 .. Len(seq) : seq[i] = x
  BY <1>1 DEF Range
<1>3. \A i, j \in 1 .. Len(seq) : i = j
  BY <1>1, <1>2 DEF IsInjective
<1>4. Len(seq) # 0
  BY <1>1 DEF Range
<1>5. Len(seq) = 1
  <2>1. Len(seq) > 1 => FALSE
    <3> SUFFICES ASSUME Len(seq) > 1
                 PROVE  FALSE
      OBVIOUS
    <3>1. 1 \in 1 .. Len(seq) /\ 2 \in 1 .. Len(seq)
      BY <1>1
    <3>2. 1 = 2
      BY <1>3, <3>1
    <3> QED
      BY <3>2
  <2> QED
    BY <1>1, <1>4, <2>1
<1> QED
  BY <1>1, <1>2, <1>5

\* erase(find) removes the one place of o.
LEMMA WithoutLists ==
  ASSUME NEW S, NEW seq \in Seq(S), IsInjective(seq), NEW o \in Range(seq)
  PROVE  /\ Without(seq, o) \in Seq(S)
         /\ Range(Without(seq, o)) = Range(seq) \ {o}
         /\ IsInjective(Without(seq, o))
<1>1. DOMAIN seq = 1 .. Len(seq) /\ Len(seq) \in Nat
  OBVIOUS
<1>2. PICK k \in 1 .. Len(seq) : seq[k] = o
  BY <1>1 DEF Range
<1>3. \A j \in 1 .. Len(seq) : seq[j] = o => j = k
  BY <1>1, <1>2 DEF IsInjective
<1>4. (CHOOSE i \in DOMAIN seq : seq[i] = o /\ \A j \in DOMAIN seq : seq[j] = o => i <= j) = k
  BY <1>1, <1>2, <1>3
<1> DEFINE a == SubSeq(seq, 1, k - 1)
           b == SubSeq(seq, k + 1, Len(seq))
<1>5. Without(seq, o) = a \o b
  BY <1>4 DEF Without, RemoveAt
<1>6. /\ a \in Seq(S) /\ Len(a) = k - 1 /\ b \in Seq(S) /\ Len(b) = Len(seq) - k
      /\ \A i \in 1 .. k - 1 : a[i] = seq[i]
      /\ \A i \in 1 .. Len(seq) - k : b[i] = seq[k + i]
  <2>1. /\ a \in Seq(S) /\ Len(a) = k - 1
        /\ \A i \in 1 .. k - 1 : a[i] = seq[i]
    OBVIOUS
  <2>2. b \in Seq(S) /\ Len(b) = Len(seq) - k
    OBVIOUS
  <2>3. \A i \in 1 .. Len(seq) - k : b[i] = seq[k + i]
    OBVIOUS
  <2> QED
    BY <2>1, <2>2, <2>3
<1> HIDE DEF a, b
<1> DEFINE w == a \o b
           at(i) == IF i < k THEN i ELSE i + 1
<1>7. /\ w \in Seq(S) /\ Len(w) = Len(seq) - 1 /\ DOMAIN w = 1 .. Len(seq) - 1
      /\ \A i \in 1 .. Len(seq) - 1 : w[i] = seq[at(i)]
  <2>1. w \in Seq(S) /\ Len(w) = Len(a) + Len(b)
    BY ONLY <1>6, ConcatProperties
  <2>2. \A i \in 1 .. Len(a) + Len(b) : w[i] = IF i <= Len(a) THEN a[i] ELSE b[i - Len(a)]
    BY <1>6
  <2>3. ASSUME NEW i \in 1 .. Len(seq) - 1
        PROVE  w[i] = seq[at(i)]
    <3>1. CASE i < k
      <4>1. i \in 1 .. k - 1 /\ i <= Len(a) /\ i \in 1 .. Len(a) + Len(b)
        BY <1>6, <3>1
      <4> QED
        BY <1>6, <2>2, <4>1
    <3>2. CASE ~(i < k)
      <4>1. /\ i - (k - 1) \in 1 .. Len(seq) - k /\ ~(i <= Len(a)) /\ i \in 1 .. Len(a) + Len(b)
            /\ k + (i - (k - 1)) = i + 1
        BY <1>6, <3>2
      <4>2. w[i] = b[i - (k - 1)]
        BY <1>6, <2>2, <4>1
      <4> HIDE DEF w
      <4> QED
        BY <1>6, <3>2, <4>1, <4>2
    <3> QED
      BY <3>1, <3>2
  <2>4. Len(w) = Len(seq) - 1
    <3> HIDE DEF w
    <3> QED
      BY <1>1, <1>6, <2>1
  <2>5. DOMAIN w = 1 .. Len(seq) - 1
    <3> HIDE DEF w
    <3> QED
      BY <2>1, <2>4
  <2> QED
    BY <2>1, <2>3, <2>4, <2>5
<1> HIDE DEF w
<1>8. \A i \in 1 .. Len(seq) - 1 : at(i) \in 1 .. Len(seq) /\ at(i) # k
  BY <1>1
<1>9. \A i, j \in 1 .. Len(seq) - 1 : at(i) = at(j) => i = j
  BY <1>1
<1>10. \A j \in 1 .. Len(seq) : j # k => \E i \in 1 .. Len(seq) - 1 : at(i) = j
  <2> SUFFICES ASSUME NEW j \in 1 .. Len(seq), j # k
               PROVE  \E i \in 1 .. Len(seq) - 1 : at(i) = j
    OBVIOUS
  <2>1. CASE j < k
    BY <1>1, <2>1
  <2>2. CASE j > k
    <3>1. j - 1 \in 1 .. Len(seq) - 1 /\ at(j - 1) = j
      BY <1>1, <2>2
    <3> QED
      BY <3>1
  <2> QED
    BY <2>1, <2>2
<1> HIDE DEF at
<1>11. Range(w) = Range(seq) \ {o}
  <2>1. ASSUME NEW x \in Range(w)
        PROVE  x \in Range(seq) \ {o}
    <3>1. PICK i \in 1 .. Len(seq) - 1 : x = seq[at(i)]
      BY <1>7, <2>1 DEF Range
    <3>2. at(i) \in 1 .. Len(seq) /\ at(i) # k
      BY <1>8
    <3> QED
      BY <1>1, <1>3, <3>1, <3>2 DEF Range
  <2>2. ASSUME NEW x \in Range(seq) \ {o}
        PROVE  x \in Range(w)
    <3>1. PICK j \in 1 .. Len(seq) : x = seq[j]
      BY <1>1, <2>2 DEF Range
    <3>2. j # k
      BY <1>2, <2>2, <3>1
    <3>3. PICK i \in 1 .. Len(seq) - 1 : at(i) = j
      BY <1>10, <3>2
    <3> QED
      BY <1>7, <3>1, <3>3 DEF Range
  <2> QED
    BY <2>1, <2>2
<1>12. IsInjective(w)
  <2> SUFFICES ASSUME NEW i \in 1 .. Len(seq) - 1, NEW j \in 1 .. Len(seq) - 1, w[i] = w[j]
               PROVE  i = j
    BY <1>7 DEF IsInjective
  <2>1. seq[at(i)] = seq[at(j)] /\ at(i) \in 1 .. Len(seq) /\ at(j) \in 1 .. Len(seq)
    BY <1>7, <1>8
  <2>2. at(i) = at(j)
    BY <1>1, <2>1 DEF IsInjective
  <2> QED
    BY <1>9, <2>2
<1> QED
  BY <1>5, <1>7, <1>11, <1>12 DEF w

-----------------------------------------------------------------------------
(* The route and its links. *)

\* add_path stands between two hops of a path.
AtHop ==
  /\ path \in Paths
  /\ place \in 1 .. Len(path) + 1
  /\ parent = IF place = 1 THEN SOURCE ELSE path[place - 1]
  /\ place > 1 => parent \in hops

RouteTypes ==
  /\ device = NULL
  /\ hops \in SUBSET Device
  /\ parents \in [Device -> Seq(Device \cup {SOURCE})]
  /\ childs \in [Device -> Seq(Device)]
  /\ talkers \in Seq(Device)

RInv == /\ RouteTypes
        /\ path # Idle => AtHop
        /\ RouteIsItsLinks

LEMMA HopAtHand ==
  ASSUME RInv, path # Idle, place <= Len(path)
  PROVE  /\ path \in Seq(Device) /\ Len(path) \in Nat /\ place \in 1 .. Len(path)
         /\ id \in Device
         /\ parent = SOURCE <=> place = 1
         /\ parent # SOURCE => parent \in hops /\ parent \in Device
         /\ parent # SOURCE /\ id = path[1] => parent = id
<1>1. AtHop /\ hops \in SUBSET Device
  BY DEF RInv, RouteTypes
<1>2. path \in Seq(Device) /\ Len(path) \in Nat /\ place \in 1 .. Len(path)
  BY <1>1, PathAssumption DEF AtHop
<1>3. \A i \in 1 .. Len(path) : path[i] \in Device
  BY <1>2
<1>4. place > 1 => place - 1 \in 1 .. Len(path) /\ place \in 2 .. Len(path)
  BY <1>2
<1>5. id \in Device
  BY <1>2, <1>3 DEF id
<1>6. parent = SOURCE <=> place = 1
  BY <1>1, <1>2, <1>3, <1>4, DeviceAssumption DEF AtHop
<1>7. parent # SOURCE => place > 1
  BY <1>2, <1>6
<1>8. parent # SOURCE /\ id = path[1] => parent = id
  BY <1>1, <1>4, <1>7, PathAssumption DEF AtHop, id
<1> QED
  BY <1>1, <1>2, <1>5, <1>6, <1>7, <1>8 DEF AtHop

LEMMA TalkerIsUnlinked ==
  ASSUME RInv, NEW b \in hops
  PROVE  is_talker(b) <=> Sources(b) = {}
<1>1. /\ b \in Device /\ SOURCE \notin Device /\ device = NULL
      /\ parents[b] \in Seq(Device \cup {SOURCE}) /\ IsInjective(parents[b])
      /\ Range(parents[b]) = IF Sources(b) = {} THEN {SOURCE} ELSE Sources(b)
  BY DeviceAssumption DEF RInv, RouteTypes, RouteIsItsLinks
<1>2. Range(<<SOURCE>>) = {SOURCE} /\ Sources(b) \subseteq Device
  BY ListOfOne DEF Sources
<1>3. Range(parents[b]) = {SOURCE} => parents[b] = <<SOURCE>>
  BY <1>1, OnlyMember
<1> QED
  BY <1>1, <1>2, <1>3 DEF is_talker

\* A link is added between hops that are not linked in that direction: the new
\* child is no talker any more.
LEMMA LinkAdded ==
  ASSUME RInv, NEW p \in hops, NEW b \in Device, <<p, b>> \notin links,
         hops' = hops \cup {b},
         links' = links \cup {<<p, b>>},
         childs' = [childs EXCEPT ![p] = Append(@, b)],
         parents' = [parents EXCEPT ![b] = IF Sources(b) = {} THEN <<p>> ELSE Append(@, p)],
         talkers' \in Seq(Device), IsInjective(talkers'),
         Range(talkers') = Range(talkers) \ {b},
         device' = device
  PROVE  RouteTypes' /\ RouteIsItsLinks'
<1>1. /\ RouteTypes /\ RouteIsItsLinks /\ p \in Device
  BY DEF RInv, RouteTypes
<1>2. \A o \in Device : Sources(o)' = IF o = b THEN Sources(o) \cup {p} ELSE Sources(o)
  BY <1>1 DEF Sources
<1>3. b \notin Range(childs[p]) /\ p \notin Sources(b)
  BY <1>1 DEF RouteIsItsLinks, Sources
<1>4. /\ Append(childs[p], b) \in Seq(Device) /\ IsInjective(Append(childs[p], b))
      /\ Range(Append(childs[p], b)) = Range(childs[p]) \cup {b}
  BY <1>1, <1>3, AppendLists DEF RouteTypes, RouteIsItsLinks
<1>5. /\ \A o \in Device \ {p} : childs'[o] = childs[o]
      /\ childs'[p] = Append(childs[p], b)
      /\ \A o \in Device \ {b} : parents'[o] = parents[o]
      /\ parents'[b] = IF Sources(b) = {} THEN <<p>> ELSE Append(parents[b], p)
  BY <1>1 DEF RouteTypes
<1>6. /\ parents'[b] \in Seq(Device \cup {SOURCE}) /\ IsInjective(parents'[b])
      /\ Range(parents'[b]) = Sources(b) \cup {p}
  <2>1. CASE Sources(b) = {}
    <3>1. parents'[b] = <<p>> /\ p \in Device \cup {SOURCE}
      BY <1>1, <1>5, <2>1
    <3>2. <<p>> \in Seq(Device \cup {SOURCE}) /\ Range(<<p>>) = {p} /\ IsInjective(<<p>>)
      BY <3>1, ListOfOne
    <3> QED
      BY <2>1, <3>1, <3>2
  <2>2. CASE Sources(b) # {}
    <3>1. /\ parents[b] \in Seq(Device \cup {SOURCE}) /\ IsInjective(parents[b])
          /\ Range(parents[b]) = Sources(b)
      BY <1>1, <2>2 DEF RouteTypes, RouteIsItsLinks
    <3> QED
      BY <1>1, <1>3, <1>5, <2>2, <3>1, AppendLists
  <2> QED
    BY <2>1, <2>2
<1>7. RouteTypes'
  <2>1. childs' \in [Device -> Seq(Device)]
    BY <1>1, <1>4 DEF RouteTypes
  <2>2. parents' \in [Device -> Seq(Device \cup {SOURCE})]
    BY <1>1, <1>5, <1>6 DEF RouteTypes
  <2> QED
    BY <1>1, <2>1, <2>2 DEF RouteTypes
<1>8. \A a \in Device : Range(childs'[a]) = {o \in Device : <<a, o>> \in links'}
  <2> SUFFICES ASSUME NEW a \in Device
               PROVE  Range(childs'[a]) = {o \in Device : <<a, o>> \in links'}
    OBVIOUS
  <2>1. Range(childs[a]) = {o \in Device : <<a, o>> \in links}
    BY <1>1 DEF RouteIsItsLinks
  <2> QED
    BY <1>4, <1>5, <2>1
<1>9. \A a \in Device : IsInjective(childs'[a]) /\ IsInjective(parents'[a])
  BY <1>1, <1>4, <1>5, <1>6 DEF RouteIsItsLinks
<1>10. \A o \in Device :
         Range(parents'[o]) = IF o \in hops' /\ Sources(o)' = {} THEN {SOURCE} ELSE Sources(o)'
  <2> SUFFICES ASSUME NEW o \in Device
               PROVE  Range(parents'[o])
                        = IF o \in hops' /\ Sources(o)' = {} THEN {SOURCE} ELSE Sources(o)'
    OBVIOUS
  <2>1. CASE o = b
    BY <1>2, <1>6, <2>1
  <2>2. CASE o # b
    <3>1. Range(parents[o]) = IF o \in hops /\ Sources(o) = {} THEN {SOURCE} ELSE Sources(o)
      BY <1>1 DEF RouteIsItsLinks
    <3> QED
      BY <1>2, <1>5, <2>2, <3>1
  <2> QED
    BY <2>1, <2>2
<1>11. Range(talkers') = {o \in hops' : Sources(o)' = {}}
  <2>1. Range(talkers) = {o \in hops : Sources(o) = {}} /\ hops \subseteq Device
    BY <1>1 DEF RouteIsItsLinks, RouteTypes
  <2> QED
    BY <1>2, <2>1
<1>12. links' \subseteq hops' \X hops'
  BY <1>1 DEF RouteIsItsLinks
<1> QED
  BY <1>7, <1>8, <1>9, <1>10, <1>11, <1>12 DEF RouteIsItsLinks, Sources

LEMMA InvOfKnownHop ==
  ASSUME RInv, KnownHop
  PROVE  RInv'
<1>1. /\ RouteTypes /\ RouteIsItsLinks /\ AtHop
      /\ path # Idle /\ place <= Len(path) /\ id \in hops /\ ~MustRepeat
  BY DEF RInv, KnownHop
<1>2. /\ Len(path) \in Nat /\ place \in 1 .. Len(path) /\ id \in Device
      /\ parent = SOURCE <=> place = 1
      /\ parent # SOURCE => parent \in hops /\ parent \in Device
      /\ parent # SOURCE => id # path[1]
  BY <1>1, HopAtHand DEF MustRepeat
<1>3. /\ hops' = hops /\ device' = device /\ path' = path
      /\ place' = place + 1 /\ parent' = id
      /\ links' = IF parent = SOURCE THEN links ELSE links \cup {<<parent, id>>}
  BY DEF KnownHop, Advance
<1>4. AtHop'
  BY <1>1, <1>2, <1>3 DEF AtHop, id
<1> DEFINE demoted == parent # SOURCE /\ is_talker(id)
           linked == id # path[1] /\ id \notin Range(childs[parent])
           above == IF demoted THEN <<>> ELSE parents[id]
<1>5. /\ talkers' = IF demoted THEN Without(talkers, id) ELSE talkers
      /\ parents' = [parents EXCEPT ![id] = IF linked THEN Append(above, parent) ELSE above]
      /\ childs' = IF linked THEN [childs EXCEPT ![parent] = Append(@, id)] ELSE childs
  BY DEF KnownHop
<1>6. ASSUME UNCHANGED <<talkers, parents, childs, links>>
      PROVE  RouteTypes' /\ RouteIsItsLinks'
  BY <1>1, <1>3, <1>6 DEF RouteTypes, RouteIsItsLinks, Sources
<1>7. CASE parent = SOURCE
  <2>1. ~demoted /\ ~linked
    BY <1>2, <1>7 DEF id
  <2>2. UNCHANGED <<talkers, parents, childs, links>>
    BY <1>1, <1>2, <1>3, <1>5, <1>7, <2>1 DEF RouteTypes
  <2> QED
    BY <1>4, <1>6, <2>2 DEF RInv
<1>8. CASE parent # SOURCE
  <2>1. /\ parent \in hops /\ parent \in Device /\ links' = links \cup {<<parent, id>>}
        /\ demoted <=> Sources(id) = {}
        /\ linked <=> <<parent, id>> \notin links
    <3>1. demoted <=> Sources(id) = {}
      BY <1>1, <1>8, TalkerIsUnlinked
    <3>2. Range(childs[parent]) = {b \in Device : <<parent, b>> \in links}
      BY <1>1, <1>2, <1>8 DEF RouteIsItsLinks
    <3> QED
      BY <1>2, <1>3, <1>8, <3>1, <3>2
  <2>2. CASE <<parent, id>> \in links
    <3>1. ~linked /\ ~demoted
      BY <2>1, <2>2 DEF Sources
    <3>2. UNCHANGED <<talkers, parents, childs, links>>
      BY <1>1, <1>2, <1>5, <2>1, <2>2, <3>1 DEF RouteTypes
    <3> QED
      BY <1>4, <1>6, <3>2 DEF RInv
  <2>3. CASE <<parent, id>> \notin links
    <3>1. linked
      BY <2>1, <2>3
    <3>2. /\ childs' = [childs EXCEPT ![parent] = Append(@, id)]
          /\ parents' = [parents EXCEPT ![id] = IF Sources(id) = {} THEN <<parent>>
                                                ELSE Append(@, parent)]
      <4>1. Append(<<>>, parent) = <<parent>>
        OBVIOUS
      <4> HIDE DEF demoted, linked
      <4> QED
        BY <1>5, <2>1, <3>1, <4>1
    <3>3. hops' = hops \cup {id}
      BY <1>1, <1>3
    <3>4. /\ talkers' \in Seq(Device) /\ IsInjective(talkers')
          /\ Range(talkers') = Range(talkers) \ {id}
      <4>1. /\ talkers \in Seq(Device) /\ IsInjective(talkers)
            /\ Range(talkers) = {b \in hops : Sources(b) = {}}
        BY <1>1 DEF RouteTypes, RouteIsItsLinks
      <4>2. CASE demoted
        <5>1. id \in Range(talkers) /\ talkers' = Without(talkers, id)
          BY <1>1, <1>5, <2>1, <4>1, <4>2
        <5> QED
          BY <4>1, <5>1, WithoutLists
      <4>3. CASE ~demoted
        <5>1. id \notin Range(talkers) /\ talkers' = talkers
          BY <1>5, <2>1, <4>1, <4>3
        <5> QED
          BY <4>1, <5>1
      <4> QED
        BY <4>2, <4>3
    <3>5. RouteTypes' /\ RouteIsItsLinks'
      BY <1>2, <1>3, <2>1, <2>3, <3>2, <3>3, <3>4, LinkAdded
    <3> QED
      BY <1>4, <3>5 DEF RInv
  <2> QED
    BY <2>2, <2>3
<1> QED
  BY <1>7, <1>8

LEMMA InvOfNewHop ==
  ASSUME RInv, NewHop
  PROVE  RInv'
<1>1. /\ RouteTypes /\ RouteIsItsLinks /\ AtHop
      /\ path # Idle /\ place <= Len(path) /\ id \notin hops
  BY DEF RInv, NewHop
<1>2. /\ Len(path) \in Nat /\ place \in 1 .. Len(path) /\ id \in Device
      /\ parent = SOURCE <=> place = 1
      /\ parent # SOURCE => parent \in hops /\ parent \in Device
  BY <1>1, HopAtHand
<1>3. /\ hops' = hops \cup {id} /\ device' = device /\ path' = path
      /\ place' = place + 1 /\ parent' = id
      /\ links' = IF parent = SOURCE THEN links ELSE links \cup {<<parent, id>>}
      /\ parents' = [parents EXCEPT ![id] = <<parent>>]
      /\ talkers' = IF parent = SOURCE THEN Append(talkers, id) ELSE talkers
      /\ childs' = IF parent = SOURCE THEN childs ELSE [childs EXCEPT ![parent] = Append(@, id)]
  BY DEF NewHop, Advance
<1>4. AtHop'
  BY <1>1, <1>2, <1>3 DEF AtHop, id
<1>5. Sources(id) = {} /\ \A b : <<id, b>> \notin links /\ <<b, id>> \notin links
  BY <1>1 DEF RouteIsItsLinks, Sources
<1>6. /\ talkers \in Seq(Device) /\ IsInjective(talkers)
      /\ Range(talkers) = {b \in hops : Sources(b) = {}} /\ id \notin Range(talkers)
  BY <1>1 DEF RouteTypes, RouteIsItsLinks
<1>7. CASE parent = SOURCE
  <2>1. /\ talkers' \in Seq(Device) /\ IsInjective(talkers')
        /\ Range(talkers') = Range(talkers) \cup {id}
    BY <1>2, <1>3, <1>6, <1>7, AppendLists
  <2>2. /\ <<SOURCE>> \in Seq(Device \cup {SOURCE}) /\ Range(<<SOURCE>>) = {SOURCE}
        /\ IsInjective(<<SOURCE>>)
    <3>1. SOURCE \in Device \cup {SOURCE}
      OBVIOUS
    <3> QED
      BY <3>1, ListOfOne
  <2>3. /\ parents'[id] = <<SOURCE>> /\ \A o \in Device \ {id} : parents'[o] = parents[o]
        /\ parents' \in [Device -> Seq(Device \cup {SOURCE})]
    BY <1>1, <1>2, <1>3, <1>7, <2>2 DEF RouteTypes
  <2>4. RouteTypes'
    BY <1>1, <1>2, <1>3, <1>7, <2>1, <2>3 DEF RouteTypes
  <2>5. links' = links /\ childs' = childs /\ \A o : Sources(o)' = Sources(o)
    BY <1>3, <1>7 DEF Sources
  <2>6. \A b \in Device :
          Range(parents'[b]) = IF b \in hops' /\ Sources(b) = {} THEN {SOURCE} ELSE Sources(b)
    <3> SUFFICES ASSUME NEW b \in Device
                 PROVE  Range(parents'[b])
                          = IF b \in hops' /\ Sources(b) = {} THEN {SOURCE} ELSE Sources(b)
      OBVIOUS
    <3>1. CASE b = id
      BY <1>3, <1>5, <2>2, <2>3, <3>1
    <3>2. CASE b # id
      <4>1. Range(parents[b]) = IF b \in hops /\ Sources(b) = {} THEN {SOURCE} ELSE Sources(b)
        BY <1>1 DEF RouteIsItsLinks
      <4> QED
        BY <1>3, <2>3, <3>2, <4>1
    <3> QED
      BY <3>1, <3>2
  <2>7. \A a \in Device : IsInjective(parents'[a])
    BY <1>1, <2>2, <2>3 DEF RouteIsItsLinks
  <2>8. Range(talkers') = {b \in hops' : Sources(b) = {}}
    BY <1>3, <1>5, <1>6, <2>1
  <2>9. RouteIsItsLinks'
    BY <1>1, <1>3, <2>1, <2>5, <2>6, <2>7, <2>8, ZenonT(30) DEF RouteIsItsLinks
  <2> QED
    BY <1>4, <2>4, <2>9 DEF RInv
<1>8. CASE parent # SOURCE
  <2>1. /\ talkers' = talkers /\ links' = links \cup {<<parent, id>>}
        /\ childs' = [childs EXCEPT ![parent] = Append(@, id)]
        /\ parents' = [parents EXCEPT ![id] = IF Sources(id) = {} THEN <<parent>>
                                              ELSE Append(@, parent)]
    BY <1>3, <1>5, <1>8
  <2>2. Range(talkers') = Range(talkers) \ {id}
    BY <1>6, <2>1
  <2>3. RouteTypes' /\ RouteIsItsLinks'
    BY <1>2, <1>3, <1>5, <1>6, <1>8, <2>1, <2>2, LinkAdded
  <2> QED
    BY <1>4, <2>3 DEF RInv
<1> QED
  BY <1>7, <1>8

\* A copy has the links that it is given, under the same keys.
LEMMA CopyIsTheSame ==
  ASSUME RInv, Copy
  PROVE  /\ hops' = hops
         /\ parents' \in [Device -> Seq(Device \cup {SOURCE})]
         /\ \A o \in Device : /\ Range(parents'[o]) = Range(parents[o])
                             /\ IsInjective(parents'[o])
         /\ LinkedHops = {o \in hops : childs[o] # <<>> \/ Sources(o) # {}}
<1>1. /\ RouteTypes /\ RouteIsItsLinks /\ hops \subseteq Device
  BY DEF RInv, RouteTypes
<1>2. \A o \in Device : {p \in hops : o \in Range(childs[p])} = Sources(o)
  BY <1>1 DEF RouteIsItsLinks, Sources
<1>3. LinkedHops = {o \in hops : childs[o] # <<>> \/ Sources(o) # {}}
  <2>1. \A o \in hops : (\E p \in hops : o \in Range(childs[p])) <=> Sources(o) # {}
    BY <1>1, <1>2
  <2> QED
    BY <2>1 DEF LinkedHops
<1>4. hops' = hops
  BY <1>1, <1>3 DEF Copy, RouteIsItsLinks
<1>5. ASSUME NEW o \in Device
      PROVE  /\ parents'[o] \in Seq(Device \cup {SOURCE})
             /\ Range(parents'[o]) = Range(parents[o])
             /\ IsInjective(parents'[o])
  <2>1. parents'[o] = IF o \in hops THEN CopiedParents(o) ELSE <<>>
    BY <1>4 DEF Copy
  <2>2. Range(parents[o]) = IF o \in hops /\ Sources(o) = {} THEN {SOURCE} ELSE Sources(o)
    BY <1>1 DEF RouteIsItsLinks
  <2>3. CASE o \notin hops
    <3>1. Sources(o) = {}
      BY <1>1, <2>3 DEF RouteIsItsLinks, Sources
    <3> QED
      BY <2>1, <2>2, <2>3, <3>1, EmptyList
  <2>4. CASE o \in hops /\ Sources(o) = {}
    <3>1. parents'[o] = <<SOURCE>>
      BY <1>1, <2>1, <2>4 DEF CopiedParents, RouteIsItsLinks
    <3>2. SOURCE \in Device \cup {SOURCE}
      OBVIOUS
    <3>3. /\ <<SOURCE>> \in Seq(Device \cup {SOURCE}) /\ Range(<<SOURCE>>) = {SOURCE}
          /\ IsInjective(<<SOURCE>>)
      BY <3>2, ListOfOne
    <3> QED
      BY <2>2, <2>4, <3>1, <3>3
  <2>5. CASE o \in hops /\ Sources(o) # {}
    <3>1. parents'[o] = Listed[Sources(o)]
      BY <1>1, <1>2, <2>1, <2>5 DEF CopiedParents, RouteIsItsLinks
    <3>2. Sources(o) \in SUBSET Device
      BY DEF Sources
    <3>3. /\ Listed[Sources(o)] \in Seq(Device) /\ Range(Listed[Sources(o)]) = Sources(o)
          /\ IsInjective(Listed[Sources(o)])
      BY <3>2, ListedAssumption
    <3>4. Seq(Device) \subseteq Seq(Device \cup {SOURCE})
      BY SeqMonotonic
    <3> QED
      BY <2>2, <2>5, <3>1, <3>3, <3>4
  <2> QED
    BY <2>3, <2>4, <2>5
<1>6. parents' = [o \in Device |-> parents'[o]]
  BY DEF Copy
<1> QED
  BY <1>3, <1>4, <1>5, <1>6

LEMMA InvOfCopy ==
  ASSUME RInv, Copy
  PROVE  RInv'
<1>1. RouteTypes /\ RouteIsItsLinks
  BY DEF RInv
<1>2. /\ device' = NULL /\ UNCHANGED <<childs, talkers, path, place, parent, links>>
      /\ path = Idle
  BY DEF Copy
<1>3. RouteTypes'
  BY <1>1, <1>2, CopyIsTheSame DEF RouteTypes
<1>4. \A o : Sources(o)' = Sources(o)
  BY <1>2 DEF Sources
<1>5. RouteIsItsLinks'
  BY <1>1, <1>2, <1>4, CopyIsTheSame DEF RouteIsItsLinks
<1> QED
  BY <1>2, <1>3, <1>5 DEF RInv

\* The talkers have listed the old source only.
LEMMA InvOfMove ==
  ASSUME RInv, Move
  PROVE  RInv'
<1>1. RouteTypes /\ RouteIsItsLinks
  BY DEF RInv
<1>2. /\ device' = NULL /\ UNCHANGED <<hops, childs, talkers, path, place, parent, links>>
      /\ path = Idle
      /\ parents' = [o \in Device |-> IF o \in Range(talkers) THEN <<SOURCE>> ELSE parents[o]]
  BY DEF Move
<1>3. parents' = parents
  <2>1. ASSUME NEW o \in Range(talkers)
        PROVE  parents[o] = <<SOURCE>>
    <3>1. o \in hops /\ Sources(o) = {}
      BY <1>1, <2>1 DEF RouteIsItsLinks
    <3> QED
      BY <3>1, TalkerIsUnlinked DEF is_talker
  <2> QED
    BY <1>1, <1>2, <2>1 DEF RouteTypes
<1>4. RouteTypes' /\ RouteIsItsLinks'
  BY <1>1, <1>2, <1>3, ZenonT(30) DEF RouteTypes, RouteIsItsLinks, Sources
<1> QED
  BY <1>2, <1>4 DEF RInv

-----------------------------------------------------------------------------
(* The theorems: for routes whose source starts with the null pointer. *)

LEMMA RInvInit ==
  ASSUME InitialDevices = {NULL}
  PROVE  Init => RInv
<1> SUFFICES ASSUME Init
             PROVE  RInv
  OBVIOUS
<1>1. /\ \A S : <<>> \in Seq(S)
      /\ Range(<<>>) = {} /\ IsInjective(<<>>)
  BY EmptyList
<1>2. RouteTypes
  BY <1>1 DEF Init, RouteTypes
<1>3. RouteIsItsLinks
  BY <1>1 DEF Init, RouteIsItsLinks, Sources
<1> QED
  BY <1>2, <1>3 DEF RInv, Init

LEMMA RInvStep == RInv /\ [Next]_vars => RInv'
<1> SUFFICES ASSUME RInv, [Next]_vars
             PROVE  RInv'
  OBVIOUS
<1>1. ASSUME UNCHANGED <<hops, parents, childs, talkers, device, links>>
      PROVE  RouteTypes' /\ RouteIsItsLinks'
  BY <1>1 DEF RInv, RouteTypes, RouteIsItsLinks, Sources
<1>2. ASSUME NEW p \in Paths, AddPath(p)
      PROVE  RInv'
  <2>1. Len(p) \in Nat
    BY PathAssumption
  <2>2. path' = p /\ place' = 1 /\ parent' = SOURCE
    BY <1>2 DEF AddPath
  <2>3. AtHop'
    BY <2>1, <2>2 DEF AtHop
  <2> QED
    BY <1>1, <1>2, <2>3 DEF AddPath, RInv
<1>3. CASE Throw \/ \E b \in BOOLEAN : Return(b)
  BY <1>1, <1>3 DEF Throw, Return, RInv
<1>4. CASE UNCHANGED vars
  <2>1. AtHop' = AtHop /\ path' = path
    BY <1>4 DEF vars, AtHop
  <2> QED
    BY <1>1, <1>4, <2>1 DEF vars, RInv
<1> QED
  BY <1>2, <1>3, <1>4, InvOfKnownHop, InvOfNewHop, InvOfCopy, InvOfMove DEF Next, Hop

\* Whatever paths are added, wherever one of them is refused and however the
\* route is copied and moved: childs and parents are the links, and the talkers
\* are the hops that no link leads to.
THEOREM RouteIsWhatWasAdded ==
  ASSUME InitialDevices = {NULL}
  PROVE  Spec => []RouteIsItsLinks
<1>1. RInv => RouteIsItsLinks
  BY DEF RInv
<1> QED
  BY <1>1, RInvInit, RInvStep, PTL DEF Spec

\* A copy has the hops, links and talkers of the route, and the listeners, but
\* for the talkers that no link mentions.
THEOREM CopiesAreRoutes ==
  ASSUME InitialDevices = {NULL}
  PROVE  Spec => CopiesAgree
<1>1. RInv /\ [Next]_vars => [CopyAgrees]_vars
  <2> SUFFICES ASSUME RInv, Copy
               PROVE  /\ hops' = hops
                      /\ \A o \in Device : Range(parents'[o]) = Range(parents[o])
                      /\ listeners' = {o \in hops : is_listener(o)}
                                        \ {o \in Range(talkers) : is_listener(o)}
    BY DEF CopyAgrees
  <2>1. Range(talkers) = {b \in hops : Sources(b) = {}}
    BY DEF RInv, RouteIsItsLinks
  <2>2. listeners' = {o \in LinkedHops : is_listener(o)}
    BY DEF Copy
  <2>3. LinkedHops = {o \in hops : ~is_listener(o) \/ Sources(o) # {}}
    BY CopyIsTheSame DEF is_listener
  <2>4. listeners' = {o \in hops : is_listener(o)} \ {o \in Range(talkers) : is_listener(o)}
    BY <2>1, <2>2, <2>3
  <2> QED
    BY <2>4, CopyIsTheSame
<1> QED
  BY <1>1, RInvInit, RInvStep, PTL DEF Spec, CopiesAgree
\* add_path has added the links of the path up to the hop at hand.
PathLinked == path # Idle => \A j \in 2 .. place - 1 : <<path[j - 1], path[j]>> \in links

\* The i-th link of p has the one before it in p, if there is one.
GoesBack(p, i) == i = 1 \/ <<p[i - 1], p[i]>> \in links

\* It has the one after it, unless p ends or stops there, or is on the way.
GoesOn(p, i) ==
  \/ i + 2 > Len(p)
  \/ <<p[i + 1], p[i + 2]>> \in links
  \/ p[i + 2] \notin Network \/ p[i + 2] = p[i + 1]
  \/ path = p /\ place = i + 2

IsLinkOf(l, p, i) ==
  /\ l = <<p[i], p[i + 1]>> /\ p[i] # p[i + 1]
  /\ GoesBack(p, i) /\ GoesOn(p, i)

\* The links are links of paths.
LinksInv ==
  /\ PathLinked
  /\ \A l \in links : \E p \in Paths : \E i \in 1 .. Len(p) - 1 : IsLinkOf(l, p, i)

\* A hop is added behind the ones before.
LEMMA LinksOfHop ==
  ASSUME RInv, LinksInv, KnownHop \/ NewHop
  PROVE  LinksInv'
<1>1. /\ path # Idle /\ place <= Len(path) /\ ~MustRepeat /\ Advance
  BY DEF KnownHop, NewHop
<1>2. /\ Len(path) \in Nat /\ place \in 1 .. Len(path)
      /\ parent = SOURCE <=> place = 1
  BY <1>1, HopAtHand
<1>3. path \in Paths /\ parent = IF place = 1 THEN SOURCE ELSE path[place - 1]
  BY <1>1 DEF RInv, AtHop
<1>4. /\ path' = path /\ place' = place + 1
      /\ links' = IF place = 1 THEN links ELSE links \cup {<<path[place - 1], path[place]>>}
  BY <1>1, <1>2, <1>3 DEF Advance, id
<1>5. PathLinked'
  <2> SUFFICES ASSUME NEW j \in 2 .. place
               PROVE  <<path[j - 1], path[j]>> \in links'
    BY <1>2, <1>4 DEF PathLinked
  <2>1. CASE j = place
    BY <1>2, <1>4, <2>1
  <2>2. CASE j # place
    <3>1. j \in 2 .. place - 1
      BY <1>2, <2>2
    <3> QED
      BY <1>1, <1>4, <3>1 DEF LinksInv, PathLinked
  <2> QED
    BY <2>1, <2>2
<1>6. ASSUME NEW l \in links, NEW p \in Paths, NEW i \in 1 .. Len(p) - 1, IsLinkOf(l, p, i)
      PROVE  IsLinkOf(l, p, i)'
  <2>1. GoesBack(p, i)'
    BY <1>4, <1>6 DEF IsLinkOf, GoesBack
  <2>2. ASSUME path = p, place = i + 2
        PROVE  <<p[i + 1], p[i + 2]>> \in links'
    <3>1. place # 1 /\ place - 1 = i + 1
      BY <1>2, <2>2
    <3> QED
      BY <1>4, <2>2, <3>1
  <2>3. GoesOn(p, i)'
    BY <1>4, <1>6, <2>2 DEF IsLinkOf, GoesOn
  <2> QED
    BY <1>6, <2>1, <2>3 DEF IsLinkOf
<1>7. ASSUME NEW l \in links' \ links
      PROVE  \E p \in Paths : \E i \in 1 .. Len(p) - 1 : IsLinkOf(l, p, i)'
  <2>1. PICK p \in Paths : p = path
    BY <1>3
  <2>2. place # 1 /\ l = <<p[place - 1], p[place]>>
    BY <1>4, <1>7, <2>1
  <2>3. PICK i \in 1 .. Len(p) - 1 : i = place - 1
    BY <1>2, <2>1, <2>2
  <2>4. i + 1 = place /\ i + 2 = place + 1
    BY <1>2, <2>3
  <2>5. l = <<p[i], p[i + 1]>> /\ p[i] # p[i + 1]
    BY <1>1, <1>2, <1>3, <2>1, <2>2, <2>3, <2>4 DEF MustRepeat, id
  <2>6. i # 1 => i \in 2 .. place - 1
    BY <1>2, <2>3
  <2>7. GoesBack(p, i)'
    BY <1>1, <1>4, <2>1, <2>6 DEF LinksInv, PathLinked, GoesBack
  <2>8. GoesOn(p, i)'
    BY <1>4, <2>1, <2>4 DEF GoesOn
  <2> QED
    BY <2>5, <2>7, <2>8 DEF IsLinkOf
<1> QED
  BY <1>5, <1>6, <1>7 DEF LinksInv

\* A path that ends or is refused leaves the links of a whole path, or up to a
\* hop that goes nowhere.
LEMMA LinksOfLeaving ==
  ASSUME RInv, LinksInv, Throw \/ \E b \in BOOLEAN : Return(b)
  PROVE  LinksInv'
<1>1. path # Idle /\ path' = Idle /\ links' = links
  BY DEF Throw, Return
<1>2. AtHop /\ device = NULL
  BY <1>1 DEF RInv, RouteTypes
<1>3. path \in Seq(Device) /\ Len(path) \in Nat /\ place \in 1 .. Len(path) + 1
  BY <1>2, PathAssumption DEF AtHop
<1>4. ASSUME NEW i \in 1 .. Len(path) - 1, place = i + 2, i + 2 <= Len(path)
      PROVE  path[i + 2] \notin Network \/ path[i + 2] = path[i + 1]
  <2>1. Throw
    BY <1>3, <1>4 DEF Return
  <2>2. parent = path[i + 1]
    BY <1>2, <1>3, <1>4 DEF AtHop
  <2>3. NULL # WILD
    BY DEF NULL, WILD
  <2> QED
    BY <1>2, <1>4, <2>1, <2>2, <2>3 DEF Throw, MayRepeat, id
<1>5. ASSUME NEW l \in links, NEW p \in Paths, NEW i \in 1 .. Len(p) - 1, IsLinkOf(l, p, i)
      PROVE  IsLinkOf(l, p, i)'
  <2>1. p \in Seq(Device) /\ Len(p) \in Nat
    BY PathAssumption
  <2>2. GoesBack(p, i)'
    BY <1>1, <1>5 DEF IsLinkOf, GoesBack
  <2>3. GoesOn(p, i)'
    BY <1>1, <1>4, <1>5, <2>1 DEF IsLinkOf, GoesOn
  <2> QED
    BY <1>5, <2>2, <2>3 DEF IsLinkOf
<1> QED
  BY <1>1, <1>5 DEF LinksInv, PathLinked

LEMMA LinksInvStep == RInv /\ LinksInv /\ [Next]_vars => LinksInv'
<1> SUFFICES ASSUME RInv, LinksInv, [Next]_vars
             PROVE  LinksInv'
  OBVIOUS
<1>1. CASE \E p \in Paths : AddPath(p)
  <2>1. path = Idle /\ links' = links /\ place' = 1
    BY <1>1 DEF AddPath
  <2>2. ASSUME NEW l \in links, NEW p \in Paths, NEW i \in 1 .. Len(p) - 1, IsLinkOf(l, p, i)
        PROVE  IsLinkOf(l, p, i)'
    <3>1. path # p
      BY <2>1, PathAssumption DEF Idle
    <3>2. GoesBack(p, i)' /\ GoesOn(p, i)'
      BY <2>1, <2>2, <3>1 DEF IsLinkOf, GoesBack, GoesOn
    <3> QED
      BY <2>2, <3>2 DEF IsLinkOf
  <2>3. PathLinked'
    BY <2>1 DEF PathLinked
  <2> QED
    BY <2>1, <2>2, <2>3 DEF LinksInv
<1>2. CASE Copy \/ Move \/ UNCHANGED vars
  <2>1. UNCHANGED <<path, place, links>>
    BY <1>2 DEF Copy, Move, vars
  <2> QED
    BY <2>1, SMTT(30) DEF LinksInv, PathLinked, IsLinkOf, GoesBack, GoesOn
<1> QED
  BY <1>1, <1>2, LinksOfHop, LinksOfLeaving DEF Next, Hop

\* A link that is taken in both directions has others of its path before and
\* behind it.
LEMMA BothWays ==
  ASSUME RInv, LinksInv, NoneTurnsBack, path = Idle, NEW l \in links, <<l[2], l[1]>> \in links
  PROVE  /\ \E a : a # l[2] /\ <<a, l[1]>> \in links
         /\ \E c : c # l[1] /\ <<l[2], c>> \in links
<1>1. PICK p \in Paths : \E i \in 1 .. Len(p) - 1 : IsLinkOf(l, p, i)
  BY DEF LinksInv
<1>2. PICK i \in 1 .. Len(p) - 1 : IsLinkOf(l, p, i)
  BY <1>1
<1>3. PICK q \in Paths : \E j \in 1 .. Len(q) - 1 : IsLinkOf(<<l[2], l[1]>>, q, j)
  BY DEF LinksInv
<1>4. PICK j \in 1 .. Len(q) - 1 : IsLinkOf(<<l[2], l[1]>>, q, j)
  BY <1>3
<1>5. l[1] = p[i] /\ l[2] = p[i + 1] /\ l[2] = q[j] /\ l[1] = q[j + 1] /\ p[i] # p[i + 1]
  BY <1>2, <1>4 DEF IsLinkOf
<1>6. IsWithin(p, i)
  BY <1>5 DEF NoneTurnsBack
<1>7. p \in Seq(Device) /\ p # <<>> /\ Len(p) \in Nat
  BY PathAssumption
<1>8. <<p[i - 1], p[i]>> \in links
  BY <1>2, <1>6 DEF IsLinkOf, GoesBack, IsWithin
<1>9. <<p[i + 1], p[i + 2]>> \in links
  BY <1>2, <1>6, <1>7 DEF IsLinkOf, GoesOn, IsWithin, Idle
<1> QED
  BY <1>5, <1>6, <1>8, <1>9 DEF IsWithin

\* If paths take a link both ways only on their way, whatever was refused or
\* copied: every link is a talker's or has one before it, and is a listener's or
\* has one behind it, as the constructor of a transmission graph reads the route.
THEOREM LinksGoOn ==
  ASSUME InitialDevices = {NULL}, NoneTurnsBack
  PROVE  Spec => []LinksAreConnected
<1>1. Init => LinksInv
  BY DEF Init, LinksInv, PathLinked
<1>2. RInv /\ LinksInv => LinksAreConnected
  <2> SUFFICES ASSUME RInv, LinksInv, path = Idle, listeners = {o \in hops : is_listener(o)},
                      NEW l \in links
               PROVE  /\ IsTalkerLink(l[1], l[2]) \/ \E a \in hops : Consecutive(a, l[1], l[2])
                      /\ IsListenerLink(l[1], l[2]) \/ \E c \in hops : Consecutive(l[1], l[2], c)
    BY DEF LinksAreConnected
  <2>1. /\ links \subseteq hops \X hops /\ hops \subseteq Device
        /\ \A a \in Device : Range(childs[a]) = {b \in Device : <<a, b>> \in links}
        /\ \A b \in Device :
             Range(parents[b]) = IF b \in hops /\ Sources(b) = {} THEN {SOURCE} ELSE Sources(b)
        /\ Range(talkers) = {b \in hops : Sources(b) = {}}
        /\ childs \in [Device -> Seq(Device)]
    BY DEF RInv, RouteTypes, RouteIsItsLinks
  <2>2. l = <<l[1], l[2]>> /\ l[1] \in hops /\ l[2] \in hops /\ l[1] \in Device /\ l[2] \in Device
    BY <2>1
  <2>3. IsTalkerLink(l[1], l[2]) \/ \E a \in hops : Consecutive(a, l[1], l[2])
    <3>1. CASE Sources(l[1]) = {}
      BY <2>1, <2>2, <3>1 DEF IsTalkerLink
    <3>2. CASE Sources(l[1]) # {}
      <4>1. PICK a : a # l[2] /\ <<a, l[1]>> \in links
        <5>1. PICK b \in Device : <<b, l[1]>> \in links
          BY <3>2 DEF Sources
        <5> QED
          BY <5>1, BothWays
      <4>2. a \in hops /\ a \in Device
        BY <2>1, <4>1
      <4> QED
        BY <2>1, <2>2, <4>1, <4>2 DEF Consecutive
    <3> QED
      BY <3>1, <3>2
  <2>4. IsListenerLink(l[1], l[2]) \/ \E c \in hops : Consecutive(l[1], l[2], c)
    <3>1. CASE is_listener(l[2])
      <4>1. l[1] \in Sources(l[2]) /\ l[2] \in listeners
        BY <2>2, <3>1 DEF Sources
      <4> QED
        BY <2>1, <2>2, <4>1 DEF IsListenerLink
    <3>2. CASE ~is_listener(l[2])
      <4>1. childs[l[2]] \in Seq(Device) /\ childs[l[2]] # <<>>
        BY <2>1, <2>2, <3>2 DEF is_listener
      <4>2. PICK b \in Device : b \in Range(childs[l[2]])
        <5>1. 1 \in DOMAIN childs[l[2]] /\ childs[l[2]][1] \in Device
          BY <4>1
        <5> QED
          BY <5>1 DEF Range
      <4>3. <<l[2], b>> \in links
        BY <2>1, <2>2, <4>2
      <4>4. PICK c : c # l[1] /\ <<l[2], c>> \in links
        BY <4>3, BothWays
      <4>5. c \in hops /\ c \in Device
        BY <2>1, <4>4
      <4> QED
        BY <2>1, <2>2, <4>4, <4>5 DEF Consecutive
    <3> QED
      BY <3>1, <3>2
  <2> QED
    BY <2>3, <2>4
<1> QED
  BY <1>1, <1>2, RInvInit, RInvStep, LinksInvStep, PTL DEF Spec
=============================================================================
