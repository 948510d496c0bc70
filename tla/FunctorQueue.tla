---------------------------- MODULE FunctorQueue ----------------------------
(***************************************************************************)
(* What EventLoop::queueInLoop promises its callers, without threads,      *)
(* wakeups or batches: functors are posted, and the loop runs each posted  *)
(* functor once, in the order of posting.                                  *)
(***************************************************************************)
EXTENDS Naturals, Sequences

CONSTANT Functors

VARIABLES posted,   \* every functor posted so far, oldest first
          ran       \* every posted functor run so far, oldest first

vars == <<posted, ran>>

Init == posted = <<>> /\ ran = <<>>

Post(f) ==
    /\ posted' = Append(posted, f)
    /\ UNCHANGED ran

RunNext ==
    /\ Len(ran) < Len(posted)
    /\ ran' = Append(ran, posted[Len(ran) + 1])
    /\ UNCHANGED posted

Next == RunNext \/ \E f \in Functors : Post(f)

Spec == Init /\ [][Next]_vars

=============================================================================
