--------------------------- MODULE IdCounterProofs ---------------------------
(***************************************************************************)
(* Machine-checked proofs about the id counter, for any number of threads  *)
(* and any floors: it implements IdSupply, so no id is handed out twice.   *)
(***************************************************************************)
EXTENDS IdCounter, TLAPS

\* What a thread in the middle of a call knows: it works towards a floor that
\* was asked for, and once it has swapped the counter is there.
CallInv ==
    \A t \in Threads :
        /\ pc[t] # "idle" => target[t] + 1 \in Floors
        /\ pc[t] = "swapped" => target[t] <= counter

IInv == TypeOK /\ NeverBehind /\ CallInv

LEMMA InitInv == Init => IInv
BY DEF Init, IInv, TypeOK, NeverBehind, CallInv

LEMMA NextIdInv ==
    ASSUME IInv, NEW t \in Threads, NextId(t)
    PROVE  IInv'
BY DEF IInv, TypeOK, NeverBehind, CallInv, NextId, locals

LEMMA EnsureBeginsInv ==
    ASSUME IInv, NEW t \in Threads, NEW v \in Floors, EnsureBegins(t, v)
    PROVE  IInv'
<1>1. v \in Nat /\ v # 0 /\ v - 1 \in Nat /\ (v - 1) + 1 = v
  BY FloorsAssumption DEF EnsureBegins
<1>2. TypeOK'
  BY <1>1 DEF IInv, TypeOK, EnsureBegins
<1>3. NeverBehind'
  BY DEF IInv, TypeOK, NeverBehind, EnsureBegins
<1>4. CallInv'
  BY <1>1 DEF IInv, TypeOK, CallInv, EnsureBegins
<1> QED  BY <1>2, <1>3, <1>4 DEF IInv

LEMMA EnsureReturnsInv ==
    ASSUME IInv, NEW t \in Threads, EnsureReturns(t)
    PROVE  IInv'
<1>1. target[t] \in Nat /\ current[t] \in Nat /\ counter \in Nat /\ floor \in Nat \ {0}
  BY DEF IInv, TypeOK
<1>2. target[t] <= counter
  BY <1>1 DEF IInv, NeverBehind, CallInv, EnsureReturns
<1>3. /\ floor' \in Nat \ {0} /\ floor' <= counter + 1
      /\ UNCHANGED <<counter, target, current, issued>>
      /\ pc' = [pc EXCEPT ![t] = "idle"]
  BY <1>1, <1>2 DEF EnsureReturns, Raised, IInv, NeverBehind
<1> QED  BY <1>3 DEF IInv, TypeOK, NeverBehind, CallInv

LEMMA EnsureSwapsInv ==
    ASSUME IInv, NEW t \in Threads, EnsureSwaps(t)
    PROVE  IInv'
<1>1. counter <= counter' /\ counter' = target[t] /\ counter' \in Nat /\ counter \in Nat
  BY DEF IInv, TypeOK, EnsureSwaps
<1>2. TypeOK' /\ CallInv'
  BY <1>1 DEF IInv, TypeOK, CallInv, EnsureSwaps
<1>3. NeverBehind'
  BY <1>1 DEF IInv, TypeOK, NeverBehind, EnsureSwaps
<1> QED  BY <1>2, <1>3 DEF IInv

LEMMA EnsureFailsInv ==
    ASSUME IInv, NEW t \in Threads, EnsureFails(t)
    PROVE  IInv'
BY DEF IInv, TypeOK, NeverBehind, CallInv, EnsureFails

LEMMA StepInv == IInv /\ [Next]_vars => IInv'
<1> SUFFICES ASSUME IInv, [Next]_vars PROVE IInv'
  OBVIOUS
<1>1. CASE UNCHANGED vars
  BY <1>1 DEF IInv, TypeOK, NeverBehind, CallInv, vars, locals
<1>2. ASSUME NEW t \in Threads, EnsureZero(t) PROVE IInv'
  BY <1>2 DEF EnsureZero, Raised, IInv, TypeOK, NeverBehind, CallInv, locals
<1> QED
  BY <1>1, <1>2, NextIdInv, EnsureBeginsInv, EnsureReturnsInv, EnsureSwapsInv,
     EnsureFailsInv DEF Next, Step

LEMMA AlwaysInv == Spec => []IInv
BY InitInv, StepInv, PTL DEF Spec

\* The counter, the threads' locals and the observers keep their types.
THEOREM IdTypeCorrect == Spec => []TypeOK
<1>1. IInv => TypeOK
  BY DEF IInv
<1> QED  BY <1>1, AlwaysInv, PTL

\* The counter is never behind an id, a floor granted, or a value a thread read.
THEOREM CounterNeverBehind == Spec => []NeverBehind
<1>1. IInv => NeverBehind
  BY DEF IInv
<1> QED  BY <1>1, AlwaysInv, PTL

-----------------------------------------------------------------------------
(* Refinement.                                                             *)

LEMMA RefinedStep == IInv /\ [Next]_vars => [Supply!Next]_<<issued, floor>>
<1> SUFFICES ASSUME IInv, [Next]_vars PROVE [Supply!Next]_<<issued, floor>>
  OBVIOUS
<1> DEFINE Ids == Floors \cup (0 .. MaxId)
<1>1. ASSUME NEW t \in Threads, NextId(t) PROVE Supply!Next
  <2>1. counter + 1 \in Ids
    BY <1>1, FloorsAssumption DEF NextId, IInv, TypeOK
  <2>2. Supply!Issue(counter + 1)
    BY <1>1 DEF NextId, Supply!Issue, IInv, TypeOK, NeverBehind
  <2> QED  BY <2>1, <2>2 DEF Supply!Next
<1>2. ASSUME NEW t \in Threads, EnsureReturns(t) PROVE Supply!Next
  <2>1. target[t] + 1 \in Ids
    BY <1>2 DEF EnsureReturns, IInv, CallInv
  <2>2. Supply!Reserve(target[t] + 1)
    BY <1>2 DEF EnsureReturns, Raised, Supply!Reserve
  <2> QED  BY <2>1, <2>2 DEF Supply!Next
<1>3. ASSUME NEW t \in Threads, EnsureZero(t) PROVE UNCHANGED <<issued, floor>>
  BY <1>3 DEF EnsureZero, Raised, IInv, TypeOK
<1>4. ASSUME NEW t \in Threads,
             \/ \E v \in Floors : EnsureBegins(t, v)
             \/ EnsureSwaps(t) \/ EnsureFails(t)
      PROVE  UNCHANGED <<issued, floor>>
  BY <1>4 DEF EnsureBegins, EnsureSwaps, EnsureFails
<1>5. CASE UNCHANGED vars
  BY <1>5 DEF vars
<1> QED  BY <1>1, <1>2, <1>3, <1>4, <1>5 DEF Next, Step

\* Whatever the threads do, ids are handed out as IdSupply promises: none twice,
\* and none below a floor once the call that asked for it has returned.
THEOREM CounterImplementsSupply == Spec => ImplementsIdSupply
<1>1. Init => Supply!Init
  BY DEF Init, Supply!Init
<1> QED  BY <1>1, AlwaysInv, RefinedStep, PTL DEF Spec, ImplementsIdSupply, Supply!Spec
=============================================================================
