------------------------------ MODULE IdCounter ------------------------------
(***************************************************************************)
(* core::Id<Tag>: one atomic counter, from which any thread takes ids with *)
(* next() and which any thread raises with ensure_next_at_least(), a loop  *)
(* around a compare-and-swap that may fail for no reason.                  *)
(*                                                                         *)
(* Operations of the counter are relaxed, but they are operations of one   *)
(* atomic, which all threads see in one order.  The word is 64 bits: its   *)
(* last id is out of reach of a program that only counts (MaxId).          *)
(***************************************************************************)
EXTENDS Integers

CONSTANTS
    Threads,
    Floors,     \* what ensure_next_at_least is called with
    MaxId       \* bound: no id beyond this one is handed out

ASSUME FloorsAssumption == Floors \subseteq Nat /\ MaxId \in Nat

VARIABLES
    counter,
    pc,         \* per thread: "idle", or where in ensure_next_at_least it is
    target,     \* per thread: its locals
    current,
    issued,     \* auxiliary: the ids handed out
    floor       \* auxiliary: the highest floor a call has returned from

locals == <<pc, target, current>>
vars   == <<counter, locals, issued, floor>>

Init ==
    /\ counter = 0
    /\ pc = [t \in Threads |-> "idle"]
    /\ target = [t \in Threads |-> 0] /\ current = [t \in Threads |-> 0]
    /\ issued = {} /\ floor = 1

\* next(): fetch_add(1) + 1
NextId(t) ==
    /\ pc[t] = "idle" /\ counter < MaxId
    /\ counter' = counter + 1
    /\ issued' = issued \cup {counter + 1}
    /\ UNCHANGED <<locals, floor>>

Raised(v) == floor' = IF floor < v THEN v ELSE floor

EnsureZero(t) ==
    /\ pc[t] = "idle" /\ 0 \in Floors
    /\ Raised(0)
    /\ UNCHANGED <<counter, locals, issued>>

\* Mutant of EnsureBegins: 0 is no special case.
EnsureBeginsAtZero(t, v) ==
    /\ pc[t] = "idle"
    /\ pc' = [pc EXCEPT ![t] = "compare"]
    /\ target' = [target EXCEPT ![t] = v - 1]
    /\ current' = [current EXCEPT ![t] = counter]
    /\ UNCHANGED <<counter, issued, floor>>

\* The load of the counter.
EnsureBegins(t, v) ==
    /\ pc[t] = "idle" /\ v # 0
    /\ pc' = [pc EXCEPT ![t] = "compare"]
    /\ target' = [target EXCEPT ![t] = v - 1]
    /\ current' = [current EXCEPT ![t] = counter]
    /\ UNCHANGED <<counter, issued, floor>>

\* Mutant of EnsureReturns: the swap is tried once.
EnsureReturnsAnyway(t) ==
    /\ pc[t] \in {"compare", "swapped"}
    /\ pc' = [pc EXCEPT ![t] = "idle"]
    /\ Raised(target[t] + 1)
    /\ UNCHANGED <<counter, target, current, issued>>

\* current < target fails, or the swap has succeeded: the call returns.
EnsureReturns(t) ==
    /\ \/ pc[t] = "compare" /\ current[t] >= target[t]
       \/ pc[t] = "swapped"
    /\ pc' = [pc EXCEPT ![t] = "idle"]
    /\ Raised(target[t] + 1)
    /\ UNCHANGED <<counter, target, current, issued>>

\* Mutant of EnsureSwaps: a store, whatever the counter is by now.
EnsureStores(t) ==
    /\ pc[t] = "compare" /\ current[t] < target[t]
    /\ counter' = target[t]
    /\ pc' = [pc EXCEPT ![t] = "swapped"]
    /\ UNCHANGED <<target, current, issued, floor>>

\* compare_exchange_weak succeeds ...
EnsureSwaps(t) ==
    /\ pc[t] = "compare" /\ current[t] < target[t]
    /\ counter = current[t]
    /\ counter' = target[t]
    /\ pc' = [pc EXCEPT ![t] = "swapped"]
    /\ UNCHANGED <<target, current, issued, floor>>

\* Mutant of EnsureFails: the loop goes round with the value it had.
EnsureFailsStale(t) ==
    /\ pc[t] = "compare" /\ current[t] < target[t]
    /\ UNCHANGED vars

\* ... or fails, and current is the counter's value of now; the weak form may
\* fail although nothing has changed.
EnsureFails(t) ==
    /\ pc[t] = "compare" /\ current[t] < target[t]
    /\ current' = [current EXCEPT ![t] = counter]
    /\ UNCHANGED <<counter, pc, target, issued, floor>>

Step(t) ==
    \/ NextId(t) \/ EnsureZero(t)
    \/ \E v \in Floors : EnsureBegins(t, v)
    \/ EnsureReturns(t) \/ EnsureSwaps(t) \/ EnsureFails(t)

Next == \E t \in Threads : Step(t)

Spec == Init /\ [][Next]_vars

\* A thread goes on with its call, and a swap does not fail for ever without cause.
FairSpec ==
    /\ Spec
    /\ \A t \in Threads : /\ WF_vars(EnsureReturns(t))
                          /\ WF_vars(EnsureFails(t))
                          /\ SF_vars(EnsureSwaps(t))

-----------------------------------------------------------------------------
(* Properties.                                                             *)

\* Every variable holds a value of its type.
TypeOK ==
    /\ counter \in Nat
    /\ pc \in [Threads -> {"idle", "compare", "swapped"}]
    /\ target \in [Threads -> Nat] /\ current \in [Threads -> Nat]
    /\ issued \subseteq Nat \ {0} /\ floor \in Nat \ {0}

\* The counter is never behind: not behind an id handed out, a floor a call
\* has returned from, or the value a thread read before.
NeverBehind ==
    /\ \A n \in issued : n <= counter
    /\ floor <= counter + 1
    /\ \A t \in Threads : current[t] <= counter

\* Id.hpp: ids are monotonic, and after ensure_next_at_least(v) next() returns an
\* id that is v or more; no id is handed out twice, whatever the threads do.
Supply == INSTANCE IdSupply WITH Ids <- Floors \cup (0 .. MaxId)
ImplementsIdSupply == Supply!Spec

\* A call of ensure_next_at_least returns, whatever the other threads take.
EnsureTerminates == \A t \in Threads : pc[t] = "compare" ~> pc[t] = "idle"
=============================================================================
