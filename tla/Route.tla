-------------------------------- MODULE Route --------------------------------
(***************************************************************************)
(* The route of a stream (struct Route, src/src/network/topology.{h,cc}):  *)
(* hops that list their parents and their childs, grown path by path, and  *)
(* a virtual source whose childs are the talkers.                          *)
(*                                                                         *)
(* add_path runs one hop per step: an exception leaves what the hops       *)
(* before have added.  A route is copied or moved between two calls only;  *)
(* the copy takes the place of the route, which is destroyed.              *)
(***************************************************************************)
EXTENDS Integers, Sequences, SequencesExt

CONSTANTS Device,        \* the identifiers a path may mention
          Network,       \* those of the devices of the network
          SOURCE,        \* the parent that a talker lists: &source
          Listed,        \* Listed[S] : the devices of S in the key order of hops_
          Paths,         \* the paths that are added
          InitialDevices \* what source.device may hold before it is assigned

ASSUME DeviceAssumption == SOURCE \notin Device /\ Network \subseteq Device

ASSUME ListedAssumption ==
  \A S \in SUBSET Device : /\ Listed[S] \in Seq(Device)
                           /\ Range(Listed[S]) = S
                           /\ IsInjective(Listed[S])

\* No path comes back to its first hop, which add_path would not link again,
\* unless it is refused for repeating that hop.
ASSUME PathAssumption ==
  /\ Paths \subseteq Seq(Device) \ {<<>>}
  /\ \A p \in Paths : \A i \in 2 .. Len(p) : p[i] = p[1] => p[i - 1] = p[1]

NULL == "nullptr"
WILD == "indeterminate"

ASSUME InitialDeviceAssumption == InitialDevices \subseteq {NULL, WILD}

VARIABLES hops,      \* the keys of hops_
          parents,   \* hops_[id].parents
          childs,    \* hops_[id].childs
          talkers,   \* source.childs
          device,    \* source.device
          listeners, \* listeners_
          path,      \* the path that add_path is at, or Idle
          place,     \* the place of the next hop in it
          parent,    \* the hop before
          links      \* history: the links of the paths so far

vars == <<hops, parents, childs, talkers, device, listeners, path, place, parent, links>>

Idle == <<>>

id == path[place]

is_talker(o) == parents[o] = <<SOURCE>> /\ device = NULL

is_listener(o) == childs[o] = <<>>

\* Default initialization of Route leaves the pointer source.device as it is.
Init == /\ hops = {} /\ talkers = <<>> /\ listeners = {} /\ links = {}
        /\ parents = [o \in Device |-> <<>>]
        /\ childs = [o \in Device |-> <<>>]
        /\ device \in InitialDevices
        /\ path = Idle /\ place = 1 /\ parent = SOURCE

-----------------------------------------------------------------------------
(* add_path; add_link adds a path of two hops. *)

AddPath(p) ==
  /\ path = Idle
  /\ path' = p /\ place' = 1 /\ parent' = SOURCE
  /\ UNCHANGED <<hops, parents, childs, talkers, device, listeners, links>>

\* The hop may be taken for its own parent; of a wild device any id may be read.
MayRepeat == IF parent = SOURCE THEN device = WILD ELSE parent = id

MustRepeat == parent # SOURCE /\ parent = id

\* invalid_argument for a hop that follows itself, out_of_range for a device
\* that the network does not have.
Throw ==
  /\ path # Idle /\ place <= Len(path)
  /\ MayRepeat \/ id \notin hops \cup Network
  /\ path' = Idle
  /\ UNCHANGED <<hops, parents, childs, talkers, device, listeners, place, parent, links>>

Advance ==
  /\ place' = place + 1
  /\ parent' = id
  /\ links' = IF parent = SOURCE THEN links ELSE links \cup {<<parent, id>>}
  /\ UNCHANGED <<device, listeners, path>>

\* erase(find): the first place of o.
Without(seq, o) ==
  RemoveAt(seq, CHOOSE i \in DOMAIN seq : seq[i] = o /\ \A j \in DOMAIN seq : seq[j] = o => i <= j)

\* Mutant: a talker that is linked to stays one.
KnownHopStays ==
  /\ path # Idle /\ place <= Len(path) /\ id \in hops /\ ~MustRepeat
  /\ LET linked == id # path[1] /\ id \notin Range(childs[parent])
     IN /\ parents' = IF linked THEN [parents EXCEPT ![id] = Append(@, parent)] ELSE parents
        /\ childs' = IF linked THEN [childs EXCEPT ![parent] = Append(@, id)] ELSE childs
  /\ UNCHANGED <<hops, talkers>>
  /\ Advance

\* The hop is there: it is no talker any more if a hop leads to it, and is
\* linked unless it is linked already or the path begins with it.
KnownHop ==
  /\ path # Idle /\ place <= Len(path) /\ id \in hops /\ ~MustRepeat
  /\ LET demoted == parent # SOURCE /\ is_talker(id)
         linked == id # path[1] /\ id \notin Range(childs[parent])
         above == IF demoted THEN <<>> ELSE parents[id]
     IN /\ talkers' = IF demoted THEN Without(talkers, id) ELSE talkers
        /\ parents' = [parents EXCEPT ![id] = IF linked THEN Append(above, parent) ELSE above]
        /\ childs' = IF linked THEN [childs EXCEPT ![parent] = Append(@, id)] ELSE childs
  /\ UNCHANGED hops
  /\ Advance

NewHop ==
  /\ path # Idle /\ place <= Len(path) /\ id \in Network \ hops /\ ~MustRepeat
  /\ hops' = hops \cup {id}
  /\ parents' = [parents EXCEPT ![id] = <<parent>>]
  /\ talkers' = IF parent = SOURCE THEN Append(talkers, id) ELSE talkers
  /\ childs' = IF parent = SOURCE THEN childs ELSE [childs EXCEPT ![parent] = Append(@, id)]
  /\ Advance

\* The listeners are recomputed if the caller wants them to be.
Return(b_recompute_listeners) ==
  /\ path # Idle /\ place > Len(path)
  /\ path' = Idle
  /\ listeners' = IF b_recompute_listeners THEN {o \in hops : is_listener(o)} ELSE listeners
  /\ UNCHANGED <<hops, parents, childs, talkers, device, place, parent, links>>

-----------------------------------------------------------------------------
(* Copying and moving. *)

\* Mutant: the hops under the source only.
CopiedParentsUnlinked(o) == Listed[{p \in hops : o \in Range(childs[p])}]

\* The links are added in the order of traverse_hops, and the talkers linked to
\* the new source.
CopiedParents(o) ==
  IF o \in Range(talkers) THEN <<SOURCE>> ELSE Listed[{p \in hops : o \in Range(childs[p])}]

\* The hops of the copied links.
LinkedHops == {o \in hops : childs[o] # <<>> \/ \E p \in hops : o \in Range(childs[p])}

\* copy_links and relink_source.  The listeners are recomputed before the
\* talkers are created that no link mentions.
Copy ==
  /\ path = Idle
  /\ hops' = LinkedHops \cup Range(talkers)
  /\ parents' = [o \in Device |-> IF o \in hops' THEN CopiedParents(o) ELSE <<>>]
  /\ listeners' = {o \in LinkedHops : is_listener(o)}
  /\ device' = NULL
  /\ UNCHANGED <<childs, talkers, path, place, parent, links>>

\* hops_ and listeners_ are moved; relink_source.
Move ==
  /\ path = Idle
  /\ parents' = [o \in Device |-> IF o \in Range(talkers) THEN <<SOURCE>> ELSE parents[o]]
  /\ device' = NULL
  /\ UNCHANGED <<hops, childs, talkers, listeners, path, place, parent, links>>

Hop == KnownHop \/ NewHop \/ Throw \/ (\E b \in BOOLEAN : Return(b))

Next == (\E p \in Paths : AddPath(p)) \/ Hop \/ Copy \/ Move

Spec == Init /\ [][Next]_vars

-----------------------------------------------------------------------------
(* What the constructor of a transmission graph reads of a route. *)

\* traverse_consecutive_links yields the links a-b and b-c.
Consecutive(a, b, c) == b \in Range(childs[a]) /\ c \in Range(childs[b]) /\ c # a

\* traverse_talker_links.
IsTalkerLink(a, b) == a \in Range(talkers) /\ b \in Range(childs[a])

\* Mutant: the first link to every listener only.
IsListenerLinkOnce(a, b) == b \in listeners /\ a = Head(parents[b])

\* traverse_listener_links.
IsListenerLink(a, b) == b \in listeners /\ a \in Range(parents[b])

-----------------------------------------------------------------------------
(* Properties. *)

Sources(o) == {a \in Device : <<a, o>> \in links}

\* However the paths of a stream arrive, whichever hop an exception stops at,
\* and whether the route is copied or moved in between: childs and parents are
\* the links of the paths, each listed once at both ends, and the talkers are
\* the hops that no link leads to.
RouteIsItsLinks ==
  /\ links \subseteq hops \X hops
  /\ \A a \in Device : Range(childs[a]) = {b \in Device : <<a, b>> \in links}
  /\ \A a \in Device : IsInjective(childs[a]) /\ IsInjective(parents[a])
  /\ \A b \in Device :
       Range(parents[b]) = IF b \in hops /\ Sources(b) = {} THEN {SOURCE} ELSE Sources(b)
  /\ Range(talkers) = {b \in hops : Sources(b) = {}}
  /\ IsInjective(talkers)

\* Copying a route gives the hops, links and talkers it had, in their order, and
\* the listeners it would have if they had just been recomputed; the talkers
\* without a link, which a copy does not make listeners, are the exception.
CopyAgrees ==
  Copy => /\ hops' = hops
          /\ \A o \in Device : Range(parents'[o]) = Range(parents[o])
          /\ listeners' = {o \in hops : is_listener(o)} \ {o \in Range(talkers) : is_listener(o)}

CopiesAgree == [][CopyAgrees]_vars

\* The i-th link of p is not its first one, nor the last one that it adds.
IsWithin(p, i) ==
  /\ i > 1 /\ p[i - 1] # p[i + 1]
  /\ i + 2 <= Len(p) /\ p[i + 2] \in Network \ {p[i], p[i + 1]}

\* If two paths take a link in different directions, both go on at its ends.
NoneTurnsBack ==
  \A p, q \in Paths : \A i \in 1 .. Len(p) - 1, j \in 1 .. Len(q) - 1 :
    p[i] = q[j + 1] /\ p[i + 1] = q[j] /\ p[i] # p[i + 1] => IsWithin(p, i)

\* Every link of the route is reached from a talker and leads to a listener
\* over consecutive links: no operation of the transmission graph is without
\* predecessors or successors, although a frame never turns back at once.
LinksAreConnected ==
  path = Idle /\ listeners = {o \in hops : is_listener(o)} =>
    \A l \in links :
      /\ IsTalkerLink(l[1], l[2]) \/ \E a \in hops : Consecutive(a, l[1], l[2])
      /\ IsListenerLink(l[1], l[2]) \/ \E c \in hops : Consecutive(l[1], l[2], c)
===============================================================================
