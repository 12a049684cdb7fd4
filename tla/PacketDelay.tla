----------------------------- MODULE PacketDelay -----------------------------
(***************************************************************************)
(* DelayHistogram (src/src/network/histogram.cc): a histogram of the delay *)
(* of a wireless link is read bin by bin, and the wireless part of a       *)
(* packet delay budget is the interval of delays that a frame meets with   *)
(* the reliability it is asked for.                                        *)
(*                                                                         *)
(* Reliabilities are fractions <<numerator, denominator>>; the rounding of *)
(* doubles is left out.  The delays of bins are read in ascending order.   *)
(***************************************************************************)
EXTENDS Integers, FiniteSets, Functions

CONSTANTS Bounds,        \* the bounds of bins, ticks
          Counts,        \* the counts of bins
          Reliabilities  \* what compute_pdb is asked for

\* Assumed by the modules that instantiate this one.
HistogramAssumption ==
  /\ Bounds \subseteq Int /\ Counts \subseteq Nat
  /\ \A r \in Reliabilities : r[1] \in 0 .. r[2] /\ r[2] > 0

VARIABLES histogram,   \* bound -> count of the delays from there to the next bound
          size,        \* of all delays
          lower_bound, \* of the bin to be read next
          state,       \* what is done with the histogram
          asked,       \* the arguments of compute_pdb
          pdb          \* its result

vars == <<histogram, size, lower_bound, state, asked, pdb>>

MINIMIZE_INTERVAL == "MINIMIZE_INTERVAL"
MINIMIZE_DMAX == "MINIMIZE_DMAX"

\* Above every delay.
Infinity == 1 + CHOOSE m \in Bounds : \A n \in Bounds : n <= m

Smallest(S) == CHOOSE n \in S : \A m \in S : n <= m
Largest(S) == CHOOSE n \in S : \A m \in S : n >= m

Bins == DOMAIN histogram

CountOf(bins) == SumFunctionOnSet(histogram, bins)

\* compute_reliability(c) >= r; 0.0 / 0.0 compares with nothing.
Reached(c, r) == size > 0 /\ c * r[2] >= r[1] * size

-----------------------------------------------------------------------------
(* compute_pdb. *)

\* Mutant: the bin that starts at max is counted.
CountBetween_closed(min, max) == CountOf({b \in Bins : min <= b /\ b <= max})

CountBetween(min, max) == CountOf({b \in Bins : min <= b /\ b < max})

\* The first bound at which enough delays have been counted from min on, as a
\* set of at most one.
FirstReached(min, r) ==
  LET reached == {b \in Bins : min <= b /\ Reached(CountBetween(min, b), r)}
  IN {b \in reached : \A c \in reached : b <= c}

\* The smallest interval, the first of several; no bound below 0 starts one.
MinimalInterval(r) ==
  LET intervals == {i \in [min : Bins \cap Nat, max : Bins] : i.max \in FirstReached(i.min, r)}
      narrowest == {i \in intervals : \A j \in intervals : i.max - i.min <= j.max - j.min}
  IN IF intervals = {} THEN [min |-> 0, max |-> Infinity]
     ELSE CHOOSE i \in narrowest : \A j \in narrowest : i.min <= j.min

compute_pdb(r, policy) ==
  IF r[1] = 0 THEN {[min |-> 0, max |-> 0]}
  ELSE IF policy = MINIMIZE_INTERVAL THEN {MinimalInterval(r)}
  ELSE {[min |-> 0, max |-> b] : b \in FirstReached(Smallest(Bins), r)}

-----------------------------------------------------------------------------
(* compute_reliability of an interval: the share of the bins from the first *)
(* that starts within it to the last before the one that max lies in.       *)

\* The bins that are counted; max is not below all of them.
BinsWithin(min, max) ==
  IF \A b \in Bins : b <= max THEN {b \in Bins : min <= b}
  ELSE {b \in Bins : min <= b /\ b < Largest({c \in Bins : c <= max})}

\* compute_reliability({min, max}) >= r.
IsReliable(min, max, r) == Reached(CountOf(BinsWithin(min, max)), r)

-----------------------------------------------------------------------------
NoBound == -1000
NoPdb == [min |-> NoBound, max |-> NoBound]
NotAsked == [reliability |-> <<0, 1>>, policy |-> "none"]

Init ==
  /\ histogram = <<>> /\ size = 0 /\ lower_bound = NoBound
  /\ state = "reading" /\ asked = NotAsked /\ pdb = NoPdb

\* The bin below upper_bound is read: the count of the first one is ignored.
ReadBin(count, upper_bound) ==
  /\ state = "reading"
  /\ upper_bound > lower_bound
  /\ histogram' = [b \in Bins \cup {upper_bound} |->
                     IF b = upper_bound THEN 0
                     ELSE IF b = lower_bound THEN count ELSE histogram[b]]
  /\ size' = IF Bins = {} THEN 0 ELSE size + count
  /\ lower_bound' = upper_bound
  /\ UNCHANGED <<state, asked, pdb>>

\* The last bin, which has no upper bound; verify_upper_bound throws unless its
\* count is 0.
ReadLastBin(count) ==
  /\ state = "reading"
  /\ Bins # {}
  /\ histogram' = [histogram EXCEPT ![lower_bound] = count]
  /\ size' = size + count
  /\ state' = IF count = 0 THEN "ready" ELSE "invalid"
  /\ UNCHANGED <<lower_bound, asked, pdb>>

\* compute_pdb(r, policy); with no delay at all MINIMIZE_DMAX comes to a place
\* that is said to be unreachable.
ComputePdb(r, policy) ==
  /\ state \in {"ready", "computed"}
  /\ asked' = [reliability |-> r, policy |-> policy]
  /\ IF compute_pdb(r, policy) = {}
       THEN state' = "undefined" /\ pdb' = NoPdb
       ELSE state' = "computed" /\ pdb' \in compute_pdb(r, policy)
  /\ UNCHANGED <<histogram, size, lower_bound>>

Next ==
  \/ \E count \in Counts, b \in Bounds : ReadBin(count, b)
  \/ \E count \in Counts : ReadLastBin(count)
  \/ \E r \in Reliabilities, policy \in {MINIMIZE_INTERVAL, MINIMIZE_DMAX} : ComputePdb(r, policy)

Spec == Init /\ [][Next]_vars

-----------------------------------------------------------------------------
(* Properties. *)

\* Delays that an interval may be asked for.
Delays == 0 .. Infinity - 1

\* The budget of MINIMIZE_INTERVAL has the reliability it was asked for by what
\* compute_reliability says, no shorter interval has it, wherever it starts and
\* ends, and if no interval is found there is none.  That of MINIMIZE_DMAX ends
\* at the least delay that has it, if no delay lies below 0.
BudgetsAreSufficient ==
  state = "computed" /\ asked.reliability[1] > 0 =>
    LET r == asked.reliability
        starts == {b \in Delays : \E c \in Bins : c <= b}
    IN IF asked.policy = MINIMIZE_INTERVAL
         THEN /\ pdb.max # Infinity => IsReliable(pdb.min, pdb.max, r)
              /\ \A min \in Delays, max \in starts :
                   min <= max /\ IsReliable(min, max, r) => pdb.max - pdb.min <= max - min
         ELSE (\A b \in Bins : histogram[b] > 0 => b >= 0) =>
                /\ IsReliable(0, pdb.max, r)
                /\ \A max \in starts : max < pdb.max => ~IsReliable(0, max, r)
=============================================================================
