----------------------------- MODULE SpscQueue -----------------------------
(***************************************************************************)
(* app::SpscQueue: the single-producer single-consumer ring buffer behind  *)
(* the command bus.  One slot is kept empty, so that head = tail means     *)
(* empty and never full.                                                   *)
(*                                                                         *)
(* push and try_pop are split at their accesses of shared memory: the load *)
(* of the other side's index, the access of the slot, the store of one's   *)
(* own index.  (A side's load of its own index cannot be disturbed.)  The  *)
(* release stores and acquire loads make the slot's contents visible with  *)
(* the index, which is why plain interleaving is a faithful reading.       *)
(***************************************************************************)
EXTENDS Naturals, Sequences

CONSTANTS Values,      \* the items
          Capacity,    \* the constructor's argument
          NoValue      \* a default-constructed item

ASSUME CapacityAssumption == Capacity \in Nat
ASSUME NoValueAssumption  == NoValue \notin Values

VARIABLES
    buffer, head, tail,    \* buffer_, head_, tail_
    pPc, item,             \* the producer's call of push(item)
    cPc, taken,            \* the consumer's call of try_pop, and the item it moved out
    pushResult, popResult, out   \* what the calls returned to their callers

queueVars    == <<buffer, head, tail>>
producerVars == <<pPc, item, pushResult>>
consumerVars == <<cPc, taken, popResult, out>>
vars == <<queueVars, producerVars, consumerVars>>

Slots == Capacity + 1

\* Mutant of After: the index does not wrap.
AfterUnbounded(i) == i + 1

\* The slot after slot i, round the ring.
After(i) == (i + 1) % Slots

Init ==
    /\ buffer = [i \in 0 .. Capacity |-> NoValue]
    /\ head = 0 /\ tail = 0
    /\ pPc = "idle" /\ item = NoValue /\ pushResult = TRUE
    /\ cPc = "idle" /\ taken = NoValue /\ popResult = FALSE /\ out = NoValue

-----------------------------------------------------------------------------
(* The producer: push(v).                                                  *)

PushRefused ==
    /\ pPc = "idle"
    /\ After(tail) = head
    /\ pushResult' = FALSE
    /\ UNCHANGED <<queueVars, pPc, item, consumerVars>>

\* Mutant of PushAccepted: the queue is not tested for being full.
PushUnchecked(v) ==
    /\ pPc = "idle"
    /\ pPc' = "write" /\ item' = v
    /\ UNCHANGED <<queueVars, pushResult, consumerVars>>

PushAccepted(v) ==
    /\ pPc = "idle"
    /\ After(tail) # head
    /\ pPc' = "write" /\ item' = v
    /\ UNCHANGED <<queueVars, pushResult, consumerVars>>

PushWrites ==
    /\ pPc = "write"
    /\ buffer' = [buffer EXCEPT ![tail] = item]
    /\ pPc' = "publish"
    /\ UNCHANGED <<head, tail, item, pushResult, consumerVars>>

PushPublishes ==
    /\ pPc = "publish"
    /\ tail' = After(tail)
    /\ pPc' = "idle" /\ item' = NoValue /\ pushResult' = TRUE
    /\ UNCHANGED <<buffer, head, consumerVars>>

-----------------------------------------------------------------------------
(* The consumer: try_pop(out).                                             *)

PopRefused ==
    /\ cPc = "idle"
    /\ head = tail
    /\ popResult' = FALSE
    /\ UNCHANGED <<queueVars, producerVars, cPc, taken, out>>

PopAccepted ==
    /\ cPc = "idle"
    /\ head # tail
    /\ cPc' = "read"
    /\ UNCHANGED <<queueVars, producerVars, taken, popResult, out>>

\* Mutant of PopReads: head is advanced before the slot is read.
PopReadsNext ==
    /\ cPc = "read"
    /\ taken' = buffer[After(head)]
    /\ cPc' = "publish"
    /\ UNCHANGED <<queueVars, producerVars, popResult, out>>

PopReads ==
    /\ cPc = "read"
    /\ taken' = buffer[head]
    /\ cPc' = "publish"
    /\ UNCHANGED <<queueVars, producerVars, popResult, out>>

PopPublishes ==
    /\ cPc = "publish"
    /\ head' = After(head)
    /\ out' = taken /\ taken' = NoValue
    /\ cPc' = "idle" /\ popResult' = TRUE
    /\ UNCHANGED <<buffer, tail, producerVars>>

Next ==
    \/ PushRefused \/ (\E v \in Values : PushAccepted(v)) \/ PushWrites \/ PushPublishes
    \/ PopRefused \/ PopAccepted \/ PopReads \/ PopPublishes

Spec == Init /\ [][Next]_vars

-----------------------------------------------------------------------------
(* Properties.                                                             *)

\* Every variable holds a value of its type.
TypeOK ==
    /\ buffer \in [0 .. Capacity -> Values \cup {NoValue}]
    /\ head \in 0 .. Capacity /\ tail \in 0 .. Capacity
    /\ pPc \in {"idle", "write", "publish"} /\ item \in Values \cup {NoValue}
    /\ cPc \in {"idle", "read", "publish"} /\ taken \in Values \cup {NoValue}
    /\ pushResult \in BOOLEAN /\ popResult \in BOOLEAN
    /\ out \in Values \cup {NoValue}

\* No data race: the producer never writes the slot the consumer is reading.
NoSlotShared == pPc = "write" /\ cPc = "read" => head # tail

\* How many items lie between head and tail, and the slot of the n-th.
Used == IF head <= tail THEN tail - head ELSE tail + Slots - head

SlotOf(n) == IF head + n - 1 < Slots THEN head + n - 1 ELSE head + n - 1 - Slots

Contents == [n \in 1 .. Used |-> buffer[SlotOf(n)]]

Fifo == INSTANCE BoundedFifo WITH q <- Contents

\* The ring buffer is a bounded fifo: a push takes effect when tail is stored,
\* a pop when head is stored, and a call is refused only when the queue is
\* full, or empty, at that moment.
ImplementsFifo == Fifo!Spec
=============================================================================
