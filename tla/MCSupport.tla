------------------------------ MODULE MCSupport ------------------------------
(***************************************************************************)
(* Instances of the parts that keep their state to themselves: a route, a  *)
(* network, a generator, a packet delay and the token bucket of a link.    *)
(* They share no state, so that a behaviour is one of one part, and the    *)
(* others stay as they are.                                                *)
(***************************************************************************)
EXTENDS Route, FiniteSets

VARIABLES part, \* the part at work
          devices, out,
          body, at, active, nested, pc, caller, started, seen,
          histogram, size, lower_bound, state, asked, pdb,
          streams, bucket

-----------------------------------------------------------------------------
(* Routes: a talker 1, bridges 2 and 3, a listener 4, and 5, a device in   *)
(* front of the talker; the network has no device 6.                       *)

MCDevice == 1 .. 6

MCListed == [S \in SUBSET MCDevice |-> SetToSortSeq(S, <)]

\* Disjoint paths, paths that cross the link between the bridges in both
\* directions, single links in any order, a device before the talker, and
\* paths that are refused after some of their hops.
Replicated == { <<1, 2, 4>>, <<1, 2, 3, 4>>, <<1, 3, 2, 4>>, <<3, 4>>, <<5, 1>>,
                <<1, 1>>, <<2, 6, 4>> }

\* What LinksGoOn presumes.
ASSUME InstancesGoOn == NoneTurnsBack

-----------------------------------------------------------------------------
Topology == INSTANCE NetworkTopology WITH Device <- 1 .. 3, Property <- {"wired", "wireless"}

-----------------------------------------------------------------------------
(* Generators: every way to nest up to four of them that yield up to twice *)
(* each.                                                                   *)

CONSTANT VALUE

\* A generator is yielded by one of smaller number, and at most once; those
\* that are not yielded are empty.
MCBodies ==
  LET Places(c) == UNION {[1 .. n -> {VALUE} \cup (c + 1 .. 4)] : n \in 0 .. 2}
      Uses(b, c) == UNION {{<<p, i>> : i \in {j \in DOMAIN b[p] : b[p][j] = c}} : p \in 1 .. 4}
      all == {<<b1, b2, b3, b4>> :
                b1 \in Places(1), b2 \in Places(2), b3 \in Places(3), b4 \in Places(4)}
  IN {b \in all : \A c \in 2 .. 4 : \/ Cardinality(Uses(b, c)) = 1
                                    \/ Uses(b, c) = {} /\ b[c] = <<>>}

Generator == INSTANCE NestedGenerator
               WITH Coroutine <- 1 .. 4, root <- 1, Bodies <- MCBodies, out <- seen

ASSUME Generator!RootAssumption

-----------------------------------------------------------------------------
(* Histograms: up to five bounds, one of them negative, with gaps.         *)

CONSTANT Counts

Delay == INSTANCE PacketDelay
           WITH Bounds <- {-2, 0, 1, 2, 4},
                Reliabilities <- {<<0, 1>>, <<1, 3>>, <<3, 4>>, <<1, 1>>}

ASSUME Delay!HistogramAssumption

-----------------------------------------------------------------------------
CONSTANTS TicksPerSec, Periods, Lengths, Sizes, Latencies

Tokens == INSTANCE MCTokenBucket

-----------------------------------------------------------------------------
(* The parts side by side. *)

network_vars == <<devices, out>>
generator_vars == <<body, at, active, nested, pc, caller, started, seen>>
delay_vars == <<histogram, size, lower_bound, state, asked, pdb>>
token_vars == <<streams, bucket>>

Parts == {"route", "network", "generator", "delay", "tokens"}

SupportInit ==
  /\ part \in Parts
  /\ Init /\ Topology!Init /\ Delay!Init
  /\ IF part = "generator" THEN TRUE ELSE body = << <<>>, <<>>, <<>>, <<>> >>
  /\ Generator!Init
  /\ IF part = "tokens" THEN Tokens!InitCounted
                        ELSE streams = <<>> /\ bucket = Tokens!NoBucket

RouteStep == /\ part = "route" /\ Next
             /\ UNCHANGED <<part, network_vars, generator_vars, delay_vars, token_vars>>

NetworkStep == /\ part = "network" /\ Topology!Next
               /\ UNCHANGED <<part, vars, generator_vars, delay_vars, token_vars>>

GeneratorStep == /\ part = "generator" /\ Generator!Next
                 /\ UNCHANGED <<part, vars, network_vars, delay_vars, token_vars>>

DelayStep == /\ part = "delay" /\ Delay!Next
             /\ UNCHANGED <<part, vars, network_vars, generator_vars, token_vars>>

TokenStep == /\ part = "tokens" /\ Tokens!Compute
             /\ UNCHANGED <<part, vars, network_vars, generator_vars, delay_vars>>

SupportNext == RouteStep \/ NetworkStep \/ GeneratorStep \/ DelayStep \/ TokenStep

support_vars == <<part, vars, network_vars, generator_vars, delay_vars, token_vars>>

\* The coroutines return, and their consumer reads on.
SupportSpec == SupportInit /\ [][SupportNext]_support_vars /\ WF_support_vars(GeneratorStep)

-----------------------------------------------------------------------------
(* Properties; those of a route have their names in Route. *)

\* See NetworkTopology.
ReloadKeepsLinks == Topology!ReloadKeepsLinks

\* See NestedGenerator.
KeepsPromise == Generator!KeepsPromise

\* The loop over a generator ends, however its coroutines return.
LoopEnds == part = "generator" ~> pc = "ended"

\* See PacketDelay.
BudgetsAreSufficient == Delay!BudgetsAreSufficient

\* See MCTokenBucket.
BucketsCoverElevations == part = "tokens" => Tokens!BucketsCoverElevations
===============================================================================
