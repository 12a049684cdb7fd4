------------------------ MODULE MCIncrementalHeuristic ------------------------
(***************************************************************************)
(* Instances of IncrementalHeuristic.  "Line": streams over a wireless     *)
(* link and wired ones that meet them behind it.  "Ring": wired streams    *)
(* around a ring of switches.                                              *)
(***************************************************************************)
EXTENDS IncrementalHeuristic

Wireless == {4}

Along(links, queue, number, start, latency, size, wireless) ==
  [hops |-> links, consecutive |-> [i \in 1 .. Len(links) - 1 |-> <<links[i], links[i + 1]>>],
   talker_links |-> <<links[1]>>, listener_links |-> <<Last(links)>>,
   wireless |-> Range(links) \cap Wireless,
   frames |-> number, pcp |-> queue, phase |-> start, period |-> 12 \div number,
   e2e_latency |-> latency,
   pdb |-> [l \in Range(links) |->
              [serialization |-> [min |-> size, max |-> size],
               wireless |-> IF l \in Wireless THEN [min |-> wireless[1], max |-> wireless[2]]
                            ELSE [min |-> 0, max |-> 0]]] @@ <<>>]

Wired == <<0, 0>>

\* 1 and 2: talkers -> sw1, 4: sw1 -> sw2, over the air, 3: talker -> sw2,
\* 5 and 6: sw2 -> listeners.
LineStreams ==
  << Along(<<1, 4, 5>>, 1, 2, 0, 15, 1, <<1, 7>>), Along(<<2, 4, 5>>, 1, 1, 2, 14, 1, <<1, 2>>),
     Along(<<3, 5>>, 1, 1, 2, 8, 1, Wired), Along(<<2, 4, 6>>, 1, 1, 1, 9, 2, <<1, 4>>),
     Along(<<3, 5>>, 2, 2, 0, 5, 1, Wired) >>

\* 11, 12, 13: talkers -> sw1, sw2, sw3; 15: sw1 -> sw2, 17: sw2 -> sw3, 19: sw3 -> sw1;
\* 14, 16, 18: sw1, sw2, sw3 -> listeners.
RingStreams ==
  << Along(<<11, 15, 17, 18>>, 1, 1, 0, 14, 2, Wired), Along(<<12, 17, 19, 14>>, 1, 1, 1, 14, 2, Wired),
     Along(<<13, 19, 15, 16>>, 1, 1, 0, 14, 2, Wired) >>

\* The first frame of the first stream may arrive behind the last frame of the
\* second, which is sent after the second frame of the first.
ReorderedStreams ==
  << Along(<<1, 4, 5>>, 1, 2, 0, 40, 1, <<9, 12>>), Along(<<2, 4, 5>>, 1, 1, 7, 20, 1, <<1, 2>>),
     Along(<<3, 5>>, 1, 1, 0, 40, 1, Wired) >>

MixedStreams == LineStreams \o RingStreams \o ReorderedStreams
=============================================================================
