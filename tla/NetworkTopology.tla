--------------------------- MODULE NetworkTopology ---------------------------
(***************************************************************************)
(* struct NetworkTopology (src/src/network/topology.{h,cc}): devices and   *)
(* their outgoing links, built by calls or from a JSON dump.               *)
(***************************************************************************)
EXTENDS Integers, Sequences, SequencesExt

CONSTANTS Device,   \* the identifiers
          Property  \* type, data rate and delay of a link

VARIABLES devices,  \* the identifiers in devices_, in their order
          out       \* out[d] : the outgoing links of d, as [target, property]

vars == <<devices, out>>

UNIDIRECTIONAL == "UNIDIRECTIONAL"
BIDIRECTIONAL == "BIDIRECTIONAL"

Init == devices = <<>> /\ out = [d \in Device |-> <<>>]

Targets(o, d) == {o[d][i].target : i \in DOMAIN o[d]}

\* A device that is there already is refused.
AddDevice(d) ==
  /\ d \notin Range(devices)
  /\ devices' = Append(devices, d)
  /\ UNCHANGED out

\* One direction, from a device that exists; a link that is there is kept.
AddOneWay(o, source, target, property) ==
  IF target \in Targets(o, source) THEN o
  ELSE [o EXCEPT ![source] = Append(@, [target |-> target, property |-> property])]

\* Mutant: the second direction is added only if the first was new.
AddBothWaysOnce(o, known, link, property) ==
  LET forth == AddOneWay(o, link[1], link[2], property)
  IN IF link[2] \in known /\ forth = o
       THEN AddOneWay(forth, link[2], link[1], property) ELSE forth

\* Both directions; an unknown target is noticed only on the way back.
AddBothWays(o, known, link, property) ==
  LET forth == AddOneWay(o, link[1], link[2], property)
  IN IF link[2] \in known THEN AddOneWay(forth, link[2], link[1], property) ELSE forth

AddDataLink(link, property, direction) ==
  /\ link[1] \in Range(devices)
  /\ out' = IF direction = BIDIRECTIONAL THEN AddBothWays(out, Range(devices), link, property)
                                         ELSE AddOneWay(out, link[1], link[2], property)
  /\ UNCHANGED devices

-----------------------------------------------------------------------------
(* Writing and reading. *)

\* dump_to_json: the links device by device.
Dump ==
  FlattenSeq([i \in 1 .. Len(devices) |->
    [j \in 1 .. Len(out[devices[i]]) |->
       [source |-> devices[i], target |-> out[devices[i]][j].target,
        property |-> out[devices[i]][j].property]]])

\* The constructor from JSON adds every link in both directions.
Loaded(links) ==
  FoldLeft(LAMBDA o, l : AddBothWays(o, Range(devices), <<l.source, l.target>>, l.property),
           [d \in Device |-> <<>>], links)

\* The constructor throws for a link to an unknown device.
Loadable == \A d \in Device : Targets(out, d) \subseteq Range(devices)

\* The network is dumped and a new one is loaded in its place.
Reload == Loadable /\ out' = Loaded(Dump) /\ UNCHANGED devices

Next == \/ \E d \in Device : AddDevice(d)
        \/ \E l \in Device \X Device, p \in Property, w \in {UNIDIRECTIONAL, BIDIRECTIONAL} :
             l[1] # l[2] /\ AddDataLink(l, p, w)
        \/ Reload

Spec == Init /\ [][Next]_vars

-----------------------------------------------------------------------------
(* Properties. *)

Links(o) == UNION {{<<d, o[d][i].target, o[d][i].property>> : i \in DOMAIN o[d]} : d \in Device}

\* What a dumped network is when it is loaded again: every device has the links
\* it had, and those back that are not there; a link that is there keeps its
\* property if the device of its source comes first.
ReloadKeepsLinks ==
  Loadable =>
    LET loaded == Links(Loaded(Dump))
        Before(a, b) == \E i, j \in DOMAIN devices : i < j /\ devices[i] = a /\ devices[j] = b
    IN /\ \A l \in Links(out) : Before(l[1], l[2]) => l \in loaded
       /\ \A l \in loaded : \/ l \in Links(out)
                            \/ <<l[2], l[1], l[3]>> \in Links(out)
       /\ \A l \in loaded : <<l[2], l[1], l[3]>> \in loaded
===============================================================================
