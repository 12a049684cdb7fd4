--------------------------- MODULE NestedGenerator ---------------------------
(***************************************************************************)
(* Gen<T> (src/src/utils/generator.h): a coroutine that yields values and  *)
(* other generators, and a consumer that iterates over the outermost one.  *)
(*                                                                         *)
(* The stack of active coroutines is kept by the outermost promise.  A     *)
(* coroutine that yields a generator resumes it inside of yield_value and  *)
(* stays suspended unless there was no value in it; nested counts these    *)
(* calls of yield_value that have not returned.  Co-yields are the steps.  *)
(***************************************************************************)
EXTENDS Integers, Sequences, SequencesExt

CONSTANTS Coroutine, \* the coroutine frames
          root,      \* that of the outermost generator
          VALUE,     \* a value is yielded
          Bodies     \* what the coroutines may yield, for each a sequence of
                     \*   coroutines and VALUE

\* Assumed by the modules that instantiate this one.
RootAssumption == root \in Coroutine /\ VALUE \notin Coroutine

VARIABLES body,       \* what the coroutines yield
          at,         \* at[c] : how much of it c has been through
          active,     \* active_, its top at the end
          nested,     \* the calls of yield_value on the thread's stack
          pc,         \* "idle", "running", "suspended", "finished", "ended"
          caller,     \* what has resumed the coroutine: begin() or operator++
          started,    \* started_
          out         \* history: the values the consumer has seen

vars == <<body, at, active, nested, pc, caller, started, out>>

current_coro == Last(active)

done(c) == at[c] = Len(body[c])

\* What the current coroutine comes to next.
upcoming == body[current_coro][at[current_coro] + 1]

Advanced == [at EXCEPT ![current_coro] = @ + 1]

Init == /\ body \in Bodies
        /\ at = [c \in Coroutine |-> 0]
        /\ active = <<root>>
        /\ nested = 0
        /\ pc = "idle"
        /\ caller = "begin"
        /\ started = FALSE
        /\ out = <<>>

\* begin(): the first call resumes the coroutine.
Begin ==
  /\ pc \in {"idle", "suspended"}
  /\ ~started
  /\ started' = TRUE
  /\ caller' = "begin"
  /\ pc' = "running"
  /\ UNCHANGED <<body, at, active, nested, out>>

\* co_yield of a value suspends the coroutine and those that wait for it.
YieldValue ==
  /\ pc = "running" /\ ~done(current_coro)
  /\ upcoming = VALUE
  /\ at' = Advanced
  /\ nested' = 0
  /\ pc' = "suspended"
  /\ UNCHANGED <<body, active, caller, started, out>>

\* co_yield of a generator: it is entered at once.
YieldGenerator ==
  /\ pc = "running" /\ ~done(current_coro)
  /\ upcoming # VALUE
  /\ at' = Advanced
  /\ active' = Append(active, upcoming)
  /\ nested' = nested + 1
  /\ UNCHANGED <<body, pc, caller, started, out>>

\* The generator had no value: yield_value lets its caller go on.
ReturnEmpty ==
  /\ pc = "running" /\ done(current_coro)
  /\ nested > 0
  /\ active' = Front(active)
  /\ nested' = nested - 1
  /\ UNCHANGED <<body, at, pc, caller, started, out>>

\* Mutant: only one finished coroutine is discarded.
DiscardOnce ==
  /\ pc = "running" /\ done(current_coro)
  /\ nested = 0 /\ caller = "increment" /\ Len(active) > 1
  /\ active' = Front(active)
  /\ pc' = IF done(Last(active')) THEN "suspended" ELSE "running"
  /\ UNCHANGED <<body, at, nested, caller, started, out>>

\* Mutant: it stays on the stack.
DiscardKept ==
  /\ pc = "running" /\ done(current_coro)
  /\ nested = 0 /\ caller = "increment" /\ Len(active) > 1
  /\ UNCHANGED vars

\* mark_current_coro_finished: the coroutine is discarded and the one that
\* waits for it is resumed.
Discard ==
  /\ pc = "running" /\ done(current_coro)
  /\ nested = 0 /\ caller = "increment" /\ Len(active) > 1
  /\ active' = Front(active)
  /\ UNCHANGED <<body, at, nested, pc, caller, started, out>>

\* The outermost coroutine is finished; begin() discards none.
Return ==
  /\ pc = "running" /\ done(current_coro)
  /\ nested = 0 /\ (caller = "begin" \/ Len(active) = 1)
  /\ pc' = "finished"
  /\ UNCHANGED <<body, at, active, nested, caller, started, out>>

\* it != end(): the consumer reads the value and increments the iterator.
Increment ==
  /\ started /\ pc = "suspended"
  /\ out' = Append(out, <<current_coro, at[current_coro]>>)
  /\ caller' = "increment"
  /\ pc' = "running"
  /\ UNCHANGED <<body, at, active, nested, started>>

\* it == end().
End ==
  /\ pc = "finished"
  /\ pc' = "ended"
  /\ UNCHANGED <<body, at, active, nested, caller, started, out>>

Next == \/ Begin \/ YieldValue \/ YieldGenerator \/ ReturnEmpty \/ Discard \/ Return
        \/ Increment \/ End

Spec == Init /\ [][Next]_vars

-----------------------------------------------------------------------------
(* Properties. *)

\* The values of a coroutine and of those it delegates to, in their order.
Flattened ==
  LET values[c \in Coroutine] ==
        FlattenSeq([i \in 1 .. Len(body[c]) |->
                      IF body[c][i] = VALUE THEN <<<<c, i>>>> ELSE values[body[c][i]]])
  IN values[root]

Flat == INSTANCE FlatGenerator WITH values <- Flattened, ended <- (pc = "ended")

\* However deep generators are nested, and whichever of them are empty or end
\* with a delegation: the consumer sees every value once and in order, and its
\* loop ends after the last one only.
KeepsPromise == Flat!Spec
===============================================================================
