-------------------------- MODULE SpscQueueProofs --------------------------
(***************************************************************************)
(* Machine-checked proofs about module SpscQueue, for every capacity and   *)
(* every set of items: no slot is ever shared, and the ring buffer         *)
(* implements the bounded fifo.                                            *)
(***************************************************************************)
EXTENDS SpscQueue, TLAPS, SequenceTheorems

\* The index after i, without the modulo.
LEMMA AfterIs ==
    ASSUME NEW i \in 0 .. Capacity
    PROVE  After(i) = IF i = Capacity THEN 0 ELSE i + 1
<1>1. CASE i = Capacity
  BY <1>1, CapacityAssumption DEF After, Slots
<1>2. CASE i # Capacity
  <2>1. i + 1 \in 0 .. Capacity
    BY <1>2, CapacityAssumption
  <2> QED  BY <1>2, <2>1, CapacityAssumption DEF After, Slots
<1> QED  BY <1>1, <1>2

\* A call of push that goes on has found a free slot, and keeps it free; a
\* call of try_pop that goes on has found a full one, and keeps it full.
CallsInv ==
    /\ pPc # "idle" => After(tail) # head /\ item \in Values
    /\ pPc = "publish" => buffer[tail] = item
    /\ cPc # "idle" => head # tail
    /\ cPc = "publish" => taken = buffer[head]

Inv == TypeOK /\ CallsInv

LEMMA InvInit == Init => Inv
<1> SUFFICES ASSUME Init PROVE Inv
  OBVIOUS
<1>1. pushResult \in BOOLEAN /\ popResult \in BOOLEAN
  BY Zenon DEF Init
<1> QED  BY <1>1, CapacityAssumption DEF Init, Inv, TypeOK, CallsInv

LEMMA InvStep == Inv /\ [Next]_vars => Inv'
<1> SUFFICES ASSUME Inv, [Next]_vars PROVE Inv'
  OBVIOUS
<1> USE CapacityAssumption DEF queueVars, producerVars, consumerVars
<1>0. /\ After(tail) = IF tail = Capacity THEN 0 ELSE tail + 1
      /\ After(head) = IF head = Capacity THEN 0 ELSE head + 1
      /\ After(tail) \in 0 .. Capacity /\ After(head) \in 0 .. Capacity
  BY AfterIs DEF Inv, TypeOK
<1>1. CASE PushRefused
  <2>1. pushResult' \in BOOLEAN
    BY <1>1, Zenon DEF PushRefused
  <2> QED  BY <1>1, <2>1 DEF PushRefused, Inv, TypeOK, CallsInv, After
<1>2. ASSUME NEW v \in Values, PushAccepted(v) PROVE Inv'
  BY <1>2 DEF PushAccepted, Inv, TypeOK, CallsInv, After
<1>3. CASE PushWrites
  BY <1>3 DEF PushWrites, Inv, TypeOK, CallsInv, After
<1>4. CASE PushPublishes
  <2>1. pushResult' \in BOOLEAN
    BY <1>4, Zenon DEF PushPublishes
  <2> QED  BY <1>0, <1>4, <2>1 DEF PushPublishes, Inv, TypeOK, CallsInv
<1>5. CASE PopRefused
  <2>1. popResult' \in BOOLEAN
    BY <1>5, Zenon DEF PopRefused
  <2> QED  BY <1>5, <2>1 DEF PopRefused, Inv, TypeOK, CallsInv, After
<1>6. CASE PopAccepted
  BY <1>6 DEF PopAccepted, Inv, TypeOK, CallsInv, After
<1>7. CASE PopReads
  BY <1>7 DEF PopReads, Inv, TypeOK, CallsInv, After
<1>8. CASE PopPublishes
  <2>1. popResult' \in BOOLEAN
    BY <1>8, Zenon DEF PopPublishes
  <2>2. After(tail)' = After(tail)
    BY <1>8 DEF PopPublishes, After
  <2>3. pPc # "idle" => After(tail) # After(head)
    BY <1>0, <1>8 DEF PopPublishes, Inv, TypeOK, CallsInv
  <2>4. TypeOK'
    BY <1>0, <1>8, <2>1 DEF PopPublishes, Inv, TypeOK
  <2>5. CallsInv'
    BY <1>8, <2>2, <2>3 DEF PopPublishes, Inv, CallsInv
  <2> QED  BY <2>4, <2>5 DEF Inv
<1>9. CASE UNCHANGED vars
  BY <1>9 DEF vars, Inv, TypeOK, CallsInv, After
<1> QED  BY <1>1, <1>2, <1>3, <1>4, <1>5, <1>6, <1>7, <1>8, <1>9 DEF Next

THEOREM QueueInvariant == Spec => []Inv
BY InvInit, InvStep, PTL DEF Spec

\* Every variable of the queue keeps to its type.
THEOREM QueueTypeCorrect == Spec => []TypeOK
<1>1. Inv => TypeOK
  BY DEF Inv
<1>2. QED  BY <1>1, QueueInvariant, PTL

\* The producer never writes the slot the consumer is reading.
THEOREM SlotNeverShared == Spec => []NoSlotShared
<1>1. Inv => NoSlotShared
  BY DEF Inv, CallsInv, NoSlotShared
<1>2. QED  BY <1>1, QueueInvariant, PTL
-----------------------------------------------------------------------------
(* The ring buffer implements the fifo.                                    *)

LEMMA ContentsType ==
    ASSUME TypeOK
    PROVE  /\ Used \in 0 .. Capacity
           /\ \A n \in 1 .. Used : SlotOf(n) \in 0 .. Capacity
           /\ Contents \in Seq(Values \cup {NoValue})
           /\ Len(Contents) = Used
           /\ \A n \in 1 .. Used : Contents[n] = buffer[SlotOf(n)]
<1> USE CapacityAssumption
<1>1. Used \in 0 .. Capacity
  BY DEF TypeOK, Used, Slots
<1>2. ASSUME NEW n \in 1 .. Used PROVE SlotOf(n) \in 0 .. Capacity
  BY <1>1 DEF TypeOK, Used, SlotOf, Slots
<1>3. \A n \in 1 .. Used : buffer[SlotOf(n)] \in Values \cup {NoValue}
  BY <1>2 DEF TypeOK
<1>4. Contents \in Seq(Values \cup {NoValue}) /\ Len(Contents) = Used
  BY <1>1, <1>3 DEF Contents
<1>5. \A n \in 1 .. Used : Contents[n] = buffer[SlotOf(n)]
  BY <1>1 DEF Contents
<1> QED  BY <1>1, <1>2, <1>4, <1>5

\* Storing tail appends the item written to the slot it used to denote.
LEMMA PublishAppends ==
    ASSUME Inv, PushPublishes
    PROVE  /\ Used < Capacity
           /\ Contents' = Append(Contents, item)
<1> USE CapacityAssumption
<1>1. /\ After(tail) = IF tail = Capacity THEN 0 ELSE tail + 1
      /\ tail' = After(tail) /\ head' = head /\ buffer' = buffer
      /\ After(tail) # head /\ buffer[tail] = item
      /\ head \in 0 .. Capacity /\ tail \in 0 .. Capacity
  BY AfterIs DEF PushPublishes, Inv, TypeOK, CallsInv
<1>2. Used < Capacity /\ Used' = Used + 1 /\ Used \in Nat
  BY <1>1 DEF Used, Slots
<1>3. SlotOf(Used + 1) = tail
  BY <1>1 DEF Used, SlotOf, Slots
<1>4. \A n \in 1 .. Used' : Contents'[n] = buffer[SlotOf(n)]
  BY <1>1, <1>2 DEF Contents, SlotOf
<1>5. /\ Contents \in Seq(Values \cup {NoValue}) /\ Len(Contents) = Used
      /\ \A n \in 1 .. Used : Contents[n] = buffer[SlotOf(n)]
  BY ContentsType DEF Inv
<1>6. item \in Values \cup {NoValue}
  BY DEF Inv, TypeOK
<1>7. /\ Append(Contents, item) \in Seq(Values \cup {NoValue})
      /\ Len(Append(Contents, item)) = Used + 1
      /\ \A n \in 1 .. Used : Append(Contents, item)[n] = Contents[n]
      /\ Append(Contents, item)[Used + 1] = item
  BY <1>5, <1>6, AppendProperties
<1>8. Contents' \in Seq(Values \cup {NoValue}) /\ Len(Contents') = Used'
  <2>1. Contents' = [n \in 1 .. Used' |-> buffer[SlotOf(n)]]
    BY <1>1 DEF Contents, SlotOf
  <2>2. \A n \in 1 .. Used' : buffer[SlotOf(n)] \in Values \cup {NoValue}
    <3>1. \A n \in 1 .. Used' : SlotOf(n) \in 0 .. Capacity
      BY <1>1, <1>2 DEF SlotOf, Slots
    <3> QED  BY <3>1 DEF Inv, TypeOK
  <2> QED  BY <1>2, <2>1, <2>2
<1>9. \A n \in 1 .. Len(Contents') : Contents'[n] = Append(Contents, item)[n]
  BY <1>1, <1>2, <1>3, <1>4, <1>5, <1>7, <1>8
<1>10. Contents' = Append(Contents, item)
  BY <1>2, <1>7, <1>8, <1>9, SeqEqual
<1> QED  BY <1>2, <1>10
\* Storing head takes the oldest item away, which is the one read before.
LEMMA PublishTakesOldest ==
    ASSUME Inv, PopPublishes
    PROVE  /\ Contents # <<>>
           /\ taken = Head(Contents)
           /\ Contents' = Tail(Contents)
<1> USE CapacityAssumption
<1>1. /\ After(head) = IF head = Capacity THEN 0 ELSE head + 1
      /\ head' = After(head) /\ tail' = tail /\ buffer' = buffer
      /\ head # tail /\ taken = buffer[head]
      /\ head \in 0 .. Capacity /\ tail \in 0 .. Capacity
  BY AfterIs DEF PopPublishes, Inv, TypeOK, CallsInv
<1>2. Used \in 1 .. Capacity /\ Used' = Used - 1
  BY <1>1 DEF Used, Slots
<1>3. /\ Contents \in Seq(Values \cup {NoValue}) /\ Len(Contents) = Used
      /\ \A n \in 1 .. Used : Contents[n] = buffer[SlotOf(n)]
      /\ \A n \in 1 .. Used : SlotOf(n) \in 0 .. Capacity
  BY ContentsType DEF Inv
<1>4. Contents # <<>>
  BY <1>2, <1>3
<1>5. SlotOf(1) = head
  BY <1>1 DEF SlotOf, Slots
<1>6. taken = Head(Contents)
  BY <1>1, <1>2, <1>3, <1>4, <1>5
<1>7. \A n \in 1 .. Used' : SlotOf(n)' = SlotOf(n + 1)
  BY <1>1, <1>2 DEF SlotOf, Slots
<1>8. Contents' = [n \in 1 .. Used' |-> buffer[SlotOf(n + 1)]]
  BY <1>1, <1>7 DEF Contents
<1>9. Contents' \in Seq(Values \cup {NoValue}) /\ Len(Contents') = Used'
  <2>1. \A n \in 1 .. Used' : buffer[SlotOf(n + 1)] \in Values \cup {NoValue}
    BY <1>2, <1>3 DEF Inv, TypeOK
  <2> QED  BY <1>2, <1>8, <2>1
<1>10. /\ Tail(Contents) \in Seq(Values \cup {NoValue})
       /\ Len(Tail(Contents)) = Used - 1
       /\ \A n \in 1 .. (Used - 1) : Tail(Contents)[n] = Contents[n + 1]
  BY <1>3, <1>4, HeadTailProperties
<1>11. \A n \in 1 .. Len(Contents') : Contents'[n] = Tail(Contents)[n]
  BY <1>2, <1>3, <1>8, <1>9, <1>10
<1>12. Contents' = Tail(Contents)
  BY <1>2, <1>9, <1>10, <1>11, SeqEqual
<1> QED  BY <1>4, <1>6, <1>12

\* Writing the free slot changes nothing between head and tail.
LEMMA WriteInvisible ==
    ASSUME Inv, PushWrites
    PROVE  Contents' = Contents
<1> USE CapacityAssumption
<1>1. /\ head' = head /\ tail' = tail /\ buffer' = [buffer EXCEPT ![tail] = item]
      /\ head \in 0 .. Capacity /\ tail \in 0 .. Capacity
      /\ buffer \in [0 .. Capacity -> Values \cup {NoValue}]
  BY DEF PushWrites, Inv, TypeOK
<1>2. Used' = Used /\ \A n \in 1 .. Used : SlotOf(n)' = SlotOf(n)
  BY <1>1 DEF Used, SlotOf
<1>3. \A n \in 1 .. Used : SlotOf(n) # tail /\ SlotOf(n) \in 0 .. Capacity
  BY <1>1 DEF Used, SlotOf, Slots
<1>4. \A n \in 1 .. Used : buffer'[SlotOf(n)] = buffer[SlotOf(n)]
  BY <1>1, <1>3
<1> QED  BY <1>2, <1>4 DEF Contents

LEMMA FifoInit == Init => Fifo!Init
<1> SUFFICES ASSUME Init PROVE Fifo!Init
  OBVIOUS
<1>1. Used = 0
  BY DEF Init, Used
<1>2. Contents = <<>>
  BY <1>1 DEF Contents
<1> QED  BY <1>2 DEF Init, Fifo!Init

\* Every step of the ring buffer is a step of the fifo or leaves it alone.
LEMMA FifoStep == Inv /\ [Next]_vars => [Fifo!Next]_(Fifo!vars)
<1> SUFFICES ASSUME Inv, [Next]_vars PROVE [Fifo!Next]_(Fifo!vars)
  OBVIOUS
<1> USE CapacityAssumption DEF queueVars, producerVars, consumerVars
<1>0. /\ Contents \in Seq(Values \cup {NoValue}) /\ Len(Contents) = Used
      /\ head \in 0 .. Capacity /\ tail \in 0 .. Capacity
  BY ContentsType DEF Inv, TypeOK
<1>1. ASSUME UNCHANGED queueVars PROVE UNCHANGED Contents
  BY <1>1 DEF Contents, Used, SlotOf
<1>2. CASE PushRefused
  <2>1. Used = Capacity
    BY <1>0, <1>2, AfterIs DEF PushRefused, Used, Slots
  <2>2. Fifo!PushFull
    BY <1>0, <1>1, <1>2, <2>1 DEF PushRefused, Fifo!PushFull
  <2> QED  BY <2>2 DEF Fifo!Next
<1>3. ASSUME NEW v \in Values, PushAccepted(v) PROVE UNCHANGED Fifo!vars
  BY <1>1, <1>3 DEF PushAccepted, Fifo!vars
<1>4. CASE PushWrites
  BY <1>4, WriteInvisible DEF PushWrites, Fifo!vars
<1>5. CASE PushPublishes
  <2>1. item \in Values
    BY <1>5 DEF PushPublishes, Inv, CallsInv
  <2>2. Fifo!Push(item)
    BY <1>0, <1>5, PublishAppends DEF PushPublishes, Fifo!Push
  <2> QED  BY <2>1, <2>2 DEF Fifo!Next
<1>6. CASE PopRefused
  <2>1. Used = 0
    BY <1>0, <1>6 DEF PopRefused, Used
  <2>2. Contents = <<>>
    BY <2>1 DEF Contents
  <2>3. Fifo!PopEmpty
    BY <1>1, <1>6, <2>2 DEF PopRefused, Fifo!PopEmpty
  <2> QED  BY <2>3 DEF Fifo!Next
<1>7. CASE PopAccepted \/ PopReads
  BY <1>1, <1>7 DEF PopAccepted, PopReads, Fifo!vars
<1>8. CASE PopPublishes
  <2>1. Fifo!Pop
    BY <1>8, PublishTakesOldest DEF PopPublishes, Fifo!Pop
  <2> QED  BY <2>1 DEF Fifo!Next
<1>9. CASE UNCHANGED vars
  BY <1>1, <1>9 DEF vars, Fifo!vars
<1> QED  BY <1>2, <1>3, <1>4, <1>5, <1>6, <1>7, <1>8, <1>9 DEF Next

\* The ring buffer implements a bounded fifo, whatever its capacity.
THEOREM QueueImplementsFifo == Spec => ImplementsFifo
<1>1. QED
  BY QueueInvariant, FifoInit, FifoStep, PTL DEF Spec, ImplementsFifo, Fifo!Spec
=============================================================================
