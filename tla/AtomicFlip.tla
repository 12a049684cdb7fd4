------------------------------ MODULE AtomicFlip ------------------------------
(***************************************************************************)
(* What flip and undo_last_flip promise their caller, without how: a flip  *)
(* puts one operation where it was asked to go (or beyond, when frames     *)
(* replicated over joining paths push it further), moves nothing but the   *)
(* other operations of the same frame in the same direction, and leaves    *)
(* every queue FIFO; an undo goes back to the arrangement before the last  *)
(* flip.                                                                   *)
(***************************************************************************)
EXTENDS TransmissionOperations

CONSTANT InitialArrangements   \* what the constructors may start from

VARIABLES placed,    \* the arrangement after the last completed call
          previous,  \* the arrangement an undo goes back to
          inst       \* the flip being executed; op_id = NoOp when there is none

vars == <<placed, previous, inst>>

Idle == [op_id |-> NoOp, new_pos |-> 0]

\* flip(inst) may turn the arrangement pos into new.
IsOutcome(pos, new) ==
  LET forward == pos[inst.op_id] > inst.new_pos
      Moves(o) == frame[o] = frame[inst.op_id]
  IN /\ IsArrangement(new)
     /\ check_consistency(new)
     /\ IF forward THEN new[inst.op_id] <= inst.new_pos
                   ELSE new[inst.op_id] >= inst.new_pos
     /\ \A o \in Op : Moves(o) =>
          IF forward THEN new[o] <= pos[o] ELSE new[o] >= pos[o]
     /\ \A o, q \in Op :
          ~Moves(o) /\ ~Moves(q) /\ link[o] = link[q] /\ pos[o] < pos[q]
             => new[o] < new[q]

-----------------------------------------------------------------------------
Init == /\ placed \in InitialArrangements
        /\ previous = placed
        /\ inst = Idle

Begin == /\ inst = Idle
         /\ \E o \in Op : \E p \in Slots(link[o]) :
              inst' = [op_id |-> o, new_pos |-> p]
         /\ previous' = placed
         /\ UNCHANGED placed

Complete == /\ inst # Idle
            /\ IsOutcome(placed, placed')
            /\ inst' = Idle
            /\ UNCHANGED previous

Undo == /\ inst = Idle
        /\ placed' = previous
        /\ UNCHANGED <<previous, inst>>

Next == Begin \/ Complete \/ Undo

Spec == Init /\ [][Next]_vars
=============================================================================
