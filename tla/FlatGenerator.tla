---------------------------- MODULE FlatGenerator ----------------------------
(***************************************************************************)
(* What iterating over a generator promises, however its values are        *)
(* nested: each of them once, in the order of the bodies, and then the     *)
(* end.                                                                    *)
(***************************************************************************)
EXTENDS Integers, Sequences

VARIABLES values, \* of the generator and those it delegates to
          out,    \* those the consumer has seen
          ended   \* whether the loop over them has ended

vars == <<values, out, ended>>

Init == out = <<>> /\ ended = FALSE

Produce == /\ Len(out) < Len(values)
           /\ out' = Append(out, values[Len(out) + 1])
           /\ UNCHANGED <<values, ended>>

End == /\ out = values /\ ~ended
       /\ ended' = TRUE
       /\ UNCHANGED <<values, out>>

Spec == Init /\ [][Produce \/ End]_vars
===============================================================================
