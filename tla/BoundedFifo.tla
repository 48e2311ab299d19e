---------------------------- MODULE BoundedFifo ----------------------------
(***************************************************************************)
(* What SpscQueue promises: a bounded first-in first-out queue whose calls *)
(* take effect at one instant.  A push is refused only when the queue is   *)
(* full at that instant, a pop only when it is empty.                      *)
(***************************************************************************)
EXTENDS Naturals, Sequences

CONSTANTS Values,      \* the items
          Capacity,    \* capacity(), in user-visible items
          NoValue      \* what the consumer's variable holds before the first pop

VARIABLES q,           \* the items pushed and not yet popped, oldest first
          pushResult,  \* what the last push returned
          popResult,   \* what the last try_pop returned
          out          \* the consumer's variable

vars == <<q, pushResult, popResult, out>>

Init == q = <<>> /\ pushResult = TRUE /\ popResult = FALSE /\ out = NoValue

Push(v) ==
    /\ Len(q) < Capacity
    /\ q' = Append(q, v)
    /\ pushResult' = TRUE
    /\ UNCHANGED <<popResult, out>>

PushFull ==
    /\ Len(q) = Capacity
    /\ pushResult' = FALSE
    /\ UNCHANGED <<q, popResult, out>>

Pop ==
    /\ q # <<>>
    /\ out' = Head(q)
    /\ q' = Tail(q)
    /\ popResult' = TRUE
    /\ UNCHANGED pushResult

PopEmpty ==
    /\ q = <<>>
    /\ popResult' = FALSE
    /\ UNCHANGED <<q, pushResult, out>>

Next == (\E v \in Values : Push(v)) \/ PushFull \/ Pop \/ PopEmpty

Spec == Init /\ [][Next]_vars
=============================================================================
