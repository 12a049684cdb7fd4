---------------------------- MODULE MCTokenBucket ----------------------------
(***************************************************************************)
(* Instances of TokenBucket: the bucket of one or two streams of a link.   *)
(***************************************************************************)
EXTENDS TokenBucket

CONSTANTS Periods, Lengths, Sizes,
          Latencies \* the latencies of a stream of a period and a mask

VARIABLES streams, \* the streams of the link
          bucket   \* token_bucket_ of the link, once it is computed

NoBucket == [bucket_size |-> 0, token_rate |-> 0, link_data_rate |-> 0]

DataRate == 1

Stream == {[period |-> p, e2e_latency |-> l, mask |-> m, size |-> n] :
             p \in Periods, m \in UNION {[1 .. length -> BOOLEAN] : length \in Lengths},
             n \in Sizes, l \in Latencies}

Elevating == {s \in Stream : \E i \in DOMAIN s.mask : s.mask[i]}

\* The deadlines of the networks that the scripts build: a period after the release.
Shipped == {s \in Elevating : s.e2e_latency = s.period}

\* Streams whose first frame is not elevated: no elevation is under way when
\* the first hyper cycle begins.
StartingLater == {s \in Elevating : s.e2e_latency <= s.period /\ ~s.mask[1]}

Compute == /\ bucket = NoBucket
           /\ bucket' = compute_token_bucket(streams, DataRate)
           /\ UNCHANGED streams

InitShipped == /\ \E s, t \in Shipped : streams = <<s, t>>
               /\ bucket = NoBucket

InitCounted == /\ \/ \E s \in Shipped \cup StartingLater : streams = <<s>>
                  \/ \E s, t \in StartingLater : streams = <<s, t>>
               /\ bucket = NoBucket

SpecShipped == InitShipped /\ [][Compute]_<<streams, bucket>>
SpecCounted == InitCounted /\ [][Compute]_<<streams, bucket>>

\* The bytes of the frames that are released by t2 and are not due by t1.
ElevatedBytes(t1, t2) ==
  FoldSeq(LAMBDA s, b :
            b + s.size * Cardinality({i \in -1 .. t2 \div s.period :
                  Elevates(s, i) /\ i * s.period + s.e2e_latency > t1 /\ i * s.period <= t2}),
          0, streams)

Computed == bucket # NoBucket

Cycles(times) == {t + n * hyper_cycle(streams) : t \in times, n \in 0 .. 3}

\* Counted once in the first hyper cycle, the bucket is large enough at any
\* time of any of them, whichever elevations reach from one into the next.
BucketHoldsWhatIsElevated ==
  Computed => \A t \in Cycles(0 .. hyper_cycle(streams) - 1) : ElevatedBytes(t, t) <= bucket.bucket_size

\* And it is refilled fast enough, up to the rounding of the rate, from the
\* beginning of any elevation to the end of any other up to a hyper cycle later.
RateCoversElevations ==
  Computed => \A t1 \in Cycles(increments(streams)), t2 \in Cycles(decrements(streams)) :
    t1 < t2 /\ t2 <= t1 + hyper_cycle(streams) =>
      BitsPerByte * TicksPerSec * (ElevatedBytes(t1, t2) - bucket.bucket_size)
        < (bucket.token_rate + 1) * (t2 - t1)

BucketsCoverElevations == BucketHoldsWhatIsElevated /\ RateCoversElevations
==============================================================================
