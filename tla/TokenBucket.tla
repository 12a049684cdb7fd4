----------------------------- MODULE TokenBucket -----------------------------
(***************************************************************************)
(* The token bucket that bounds the elevated traffic of the streams of a   *)
(* link (src/src/dgm/mk_firm_extension.cc).  Frame i of a stream with the  *)
(* mask m of k flags may be elevated if m[i mod k] is set, from its        *)
(* release at i * period until its deadline e2e_latency later.             *)
(*                                                                         *)
(* A stream is a record of period, e2e_latency, mask (a sequence of        *)
(* Booleans) and size, its largest frame with the inter-frame gap.         *)
(***************************************************************************)
EXTENDS Integers, Sequences, SequencesExt, FiniteSetsExt

CONSTANT TicksPerSec

BitsPerByte == 8

\* Integer division of C++ truncates.
Quotient(a, b) == IF a < 0 THEN -((-a) \div b) ELSE a \div b

k(s) == Len(s.mask)

Elevates(s, i) == s.mask[(i % k(s)) + 1]

\* ElevationCount(t1, t2): the frames that may be elevated between t1 and t2.
\* The remainder of a negative index is negative: mask is read out of bounds.
ElevationCount(s, t1, t2) ==
  Cardinality({i \in Quotient(t1 - s.e2e_latency, s.period) + 1 .. Quotient(t2, s.period) :
                 Elevates(s, i)})

Lcm(a, b) == CHOOSE n \in 1 .. a * b : /\ n % a = 0 /\ n % b = 0
                                       /\ \A m \in 1 .. n - 1 : ~(m % a = 0 /\ m % b = 0)

hyper_cycle(streams) == FoldSeq(LAMBDA s, h : Lcm(h, s.period * k(s)), 1, streams)

\* ElevationStepFunctions: when elevations begin and end in a hyper cycle.
increments(streams) ==
  UNION {{i * s.period : i \in {j \in 0 .. (hyper_cycle(streams) \div s.period) - 1 : Elevates(s, j)}} :
         s \in Range(streams)}

decrements(streams) ==
  UNION {{i * s.period + s.e2e_latency :
            i \in {j \in 0 .. (hyper_cycle(streams) \div s.period) - 1 : Elevates(s, j)}} :
         s \in Range(streams)}

\* The bytes that the streams may elevate between t1 and t2.
refill(streams, t1, t2) ==
  FoldSeq(LAMBDA s, b : b + ElevationCount(s, t1, t2) * s.size, 0, streams)

MaxOf(S) == IF S = {} THEN 0 ELSE Max(S \cup {0})

compute_bucket_size(streams) == MaxOf({refill(streams, t, t) : t \in increments(streams)})

\* Mutant: intervals that reach into the next hyper cycle are left out.
compute_token_rate_once(streams, bucket_size) ==
  MaxOf({Quotient(BitsPerByte * TicksPerSec * (refill(streams, t[1], t[2]) - bucket_size), t[2] - t[1]) :
           t \in {u \in increments(streams) \X decrements(streams) : u[1] < u[2]}})

\* The intervals from an increment to a decrement of this hyper cycle or the next.
compute_token_rate(streams, bucket_size) ==
  LET H == hyper_cycle(streams)
      intervals == {u \in increments(streams) \X decrements(streams) : u[1] < u[2]}
                     \cup {<<u[1], u[2] + H>> : u \in increments(streams) \X decrements(streams)}
  IN MaxOf({Quotient(BitsPerByte * TicksPerSec * (refill(streams, t[1], t[2]) - bucket_size),
                     t[2] - t[1]) : t \in intervals})

compute_token_bucket(streams, data_rate) ==
  LET b == compute_bucket_size(streams)
  IN [bucket_size |-> b, token_rate |-> compute_token_rate(streams, b),
      link_data_rate |-> data_rate]
===============================================================================
