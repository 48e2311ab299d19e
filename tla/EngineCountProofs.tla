-------------------------- MODULE EngineCountProofs --------------------------
(***************************************************************************)
(* Proofs about module Engine that count: the clock pulses a follower has  *)
(* received, and how often a slice starts each note.  As in EngineProofs,  *)
(* for every set of projects, ports, slice sizes, loop regions and pulse   *)
(* spacing.                                                                *)
(***************************************************************************)
EXTENDS EngineProofs

-----------------------------------------------------------------------------
(* Arithmetic.                                                             *)

LEMMA DivMod ==
    ASSUME NEW x \in Int, NEW d \in Nat \ {0}
    PROVE  /\ x \div d \in Int /\ x % d \in 0 .. d - 1
           /\ x = d * (x \div d) + (x % d)
OBVIOUS

LEMMA DivModUnique ==
    ASSUME NEW d \in Nat \ {0}, NEW q \in Int, NEW r \in 0 .. d - 1,
           NEW x \in Int, x = d * q + r
    PROVE  x \div d = q /\ x % d = r
OBVIOUS

\* CeilDiv(x, T) is the least k with x <= k * T.
LEMMA CeilIs ==
    ASSUME NEW x \in Int
    PROVE  /\ CeilDiv(x, TicksPerPulse) \in Int
           /\ \A k \in Int : x <= k * TicksPerPulse <=> CeilDiv(x, TicksPerPulse) <= k
<1> DEFINE T == TicksPerPulse
           c == (x + T - 1) \div T
<1>1. T \in Nat \ {0}
  BY TicksPerPulseAssumption
<1> HIDE DEF T
<1>2. /\ c \in Int /\ (x + T - 1) % T \in 0 .. T - 1
      /\ x + T - 1 = T * c + ((x + T - 1) % T)
  BY <1>1, DivMod
<1> HIDE DEF c
<1>3. T * c - T < x /\ x <= T * c
  BY <1>1, <1>2
<1>4. ASSUME NEW k \in Int, c <= k PROVE x <= k * T
  <2>1. T * c <= k * T
    BY <1>1, <1>2, <1>4
  <2>2. T * c \in Int /\ k * T \in Int
    BY <1>1, <1>2
  <2> QED  BY <1>3, <2>1, <2>2
<1>5. ASSUME NEW k \in Int, k < c PROVE k * T < x
  <2>1. k <= c - 1
    BY <1>2, <1>5
  <2>2. k * T <= (c - 1) * T
    BY <1>1, <1>2, <2>1
  <2>3. (c - 1) * T = T * c - T
    BY <1>1, <1>2
  <2>4. T * c \in Int /\ k * T \in Int
    BY <1>1, <1>2
  <2> QED  BY <1>1, <1>3, <2>2, <2>3, <2>4
<1>6. \A k \in Int : x <= k * T <=> c <= k
  <2> TAKE k \in Int
  <2>1. k * T \in Int
    BY <1>1
  <2> QED  BY <1>2, <1>4, <1>5, <2>1
<1> QED  BY <1>2, <1>6 DEF c, T, CeilDiv

\* Shifting by whole pulses shifts the count.
LEMMA CeilShift ==
    ASSUME NEW x \in Int, NEW k \in Int
    PROVE  CeilDiv(x + k * TicksPerPulse, TicksPerPulse) = CeilDiv(x, TicksPerPulse) + k
<1> DEFINE T == TicksPerPulse
           c == CeilDiv(x, T)
           d == CeilDiv(x + k * T, T)
<1>1. T \in Nat \ {0} /\ k * T \in Int
  BY TicksPerPulseAssumption
<1>2. c \in Int /\ \A m \in Int : x <= m * T <=> c <= m
  BY CeilIs
<1>3. d \in Int /\ \A m \in Int : x + k * T <= m * T <=> d <= m
  <2>1. x + k * T \in Int
    BY <1>1
  <2> QED  BY <2>1, CeilIs
<1> HIDE DEF c, d, T
<1>4. \A m \in Int : d <= m <=> c <= m - k
  <2> TAKE m \in Int
  <2>1. m - k \in Int /\ (m - k) * T = m * T - k * T /\ m * T \in Int
    BY <1>1
  <2>2. x + k * T <= m * T <=> x <= (m - k) * T
    BY <1>1, <2>1
  <2> QED  BY <1>2, <1>3, <2>1, <2>2
<1>5. d <= c + k
  BY <1>2, <1>4
<1>6. c <= d - k
  BY <1>3, <1>4
<1> QED  BY <1>2, <1>3, <1>5, <1>6 DEF c, d, T

\* emit_pulses(a, b) sends as many pulses as there are multiples of T in [a, b).
LEMMA PulsesSent ==
    ASSUME NEW a \in Int, NEW b \in Int, a <= b
    PROVE  Cardinality(PulseTicks(a, b))
              = CeilDiv(b, TicksPerPulse) - CeilDiv(a, TicksPerPulse)
<1> DEFINE T == TicksPerPulse
           c == CeilDiv(a, T)
           d == CeilDiv(b, T)
           f == [k \in c .. (d - 1) |-> k * T]
<1>1. T \in Nat \ {0}
  BY TicksPerPulseAssumption
<1>2. c \in Int /\ \A k \in Int : a <= k * T <=> c <= k
  BY CeilIs
<1>3. d \in Int /\ \A k \in Int : b <= k * T <=> d <= k
  BY CeilIs
<1>4. PulseTicks(a, b) = {t \in (c * T) .. (b - 1) : (t - c * T) % T = 0}
  BY DEF PulseTicks, FirstPulse
<1> HIDE DEF c, d, T
<1>5. c <= d
  <2>1. b <= d * T
    BY <1>3
  <2>2. d * T \in Int
    BY <1>1, <1>3
  <2>3. a <= d * T
    BY <2>1, <2>2
  <2> QED  BY <1>2, <1>3, <2>3
<1>6. ASSUME NEW k \in c .. (d - 1) PROVE k * T \in PulseTicks(a, b)
  <2>1. k \in Int /\ c <= k /\ ~(d <= k)
    BY <1>2, <1>3
  <2>2. k * T \in Int /\ c * T \in Int
    BY <1>1, <1>2, <2>1
  <2>3. c * T <= k * T
    BY <1>1, <1>2, <2>1
  <2>4. ~(b <= k * T)
    BY <1>3, <2>1
  <2>5. k * T - c * T = T * (k - c) + 0
    BY <1>1, <1>2, <2>1
  <2>6. (k * T - c * T) % T = 0
    <3> DEFINE q == k - c
               x == k * T - c * T
    <3>1. q \in Int /\ 0 \in 0 .. T - 1 /\ x \in Int /\ x = T * q + 0
      BY <1>1, <1>2, <2>1, <2>2, <2>5
    <3> HIDE DEF q, x
    <3>2. x % T = 0
      BY <1>1, <3>1, DivModUnique
    <3> QED  BY <3>2 DEF x
  <2> QED  BY <1>4, <2>2, <2>3, <2>4, <2>6
<1>7. ASSUME NEW t \in PulseTicks(a, b) PROVE \E k \in c .. (d - 1) : t = k * T
  <2>1. c * T \in Int
    BY <1>1, <1>2
  <2>2. t \in Int /\ c * T <= t /\ t < b /\ (t - c * T) % T = 0
    BY <1>4, <2>1
  <2> DEFINE m == (t - c * T) \div T
  <2>3. t - c * T \in Int
    BY <2>1, <2>2
  <2>4. m \in Int /\ t - c * T = T * m + 0
    BY <1>1, <2>2, <2>3, DivMod
  <2> HIDE DEF m
  <2>5. 0 <= m
    <3>1. 0 <= t - c * T /\ T * m \in Int
      BY <1>1, <2>1, <2>2, <2>4
    <3>2. 0 <= T * m
      BY <2>3, <2>4, <3>1
    <3> QED  BY <1>1, <2>4, <3>2
  <2>6. t = (c + m) * T
    <3>1. (c + m) * T = c * T + T * m
      BY <1>1, <1>2, <2>4
    <3>2. T * m \in Int
      BY <1>1, <2>4
    <3> QED  BY <2>1, <2>2, <2>4, <3>1, <3>2
  <2>7. c + m \in Int /\ ~(d <= c + m)
    BY <1>2, <1>3, <2>2, <2>4, <2>6
  <2> QED  BY <1>2, <1>3, <2>4, <2>5, <2>6, <2>7
<1>8. f \in Bijection(c .. (d - 1), PulseTicks(a, b))
  <2>1. f \in [c .. (d - 1) -> PulseTicks(a, b)]
    BY <1>6
  <2>2. ASSUME NEW j \in c .. (d - 1), NEW k \in c .. (d - 1), f[j] = f[k] PROVE j = k
    <3>1. j \in Int /\ k \in Int /\ j * T = k * T
      BY <1>2, <1>3, <2>2
    <3> QED  BY <1>1, <3>1
  <2>3. \A t \in PulseTicks(a, b) : \E k \in c .. (d - 1) : f[k] = t
    BY <1>7
  <2> HIDE DEF f
  <2> QED  BY <2>1, <2>2, <2>3 DEF Bijection, Injection, IsInjective, Surjection
<1>9. /\ IsFiniteSet(c .. (d - 1))
      /\ Cardinality(c .. (d - 1)) = d - c
  <2>1. d - 1 \in Int
    BY <1>3
  <2>2. /\ IsFiniteSet(c .. (d - 1))
        /\ Cardinality(c .. (d - 1)) = IF c > d - 1 THEN 0 ELSE (d - 1) - c + 1
    BY <1>2, <2>1, FS_Interval
  <2> QED  BY <1>2, <1>3, <1>5, <2>2
<1>10. Cardinality(PulseTicks(a, b)) = d - c
  BY <1>8, <1>9, FS_Bijection DEF ExistsBijection
<1> QED  BY <1>10 DEF c, d, T
-----------------------------------------------------------------------------
(* The clock follower.                                                     *)

\* The place is song ticks after Start, up to whole pulses.
OnPulse(place, s) == \E k \in Int : place = s + k * TicksPerPulse

\* What a tracked follower knows while a call of advance() is under way: it has
\* the pulses of the ticks played so far, and the place playing goes on from
\* lies on the same pulse grid as their number.
FollowInv ==
    /\ pc \in {"release", "passes", "seek"} => LoopEnabled
    /\ tracked =>
        /\ port # NoPort
        /\ pulses = CeilDiv(song, TicksPerPulse)
        /\ following <=> prevState = "Playing"
        /\ pc \in {"idle", "position"} => OnPulse(lastKnown, song)
        /\ pc = "range"   => OnPulse(from, song)
        /\ pc = "add"     => OnPulse(from + delta, song)
        /\ pc = "release" => OnPulse(loopEnd, song)
        /\ pc = "passes"  => OnPulse(loopEnd, song) /\ AlignedLoop
        /\ pc = "seek"    => OnPulse(loopStart + rem, song)

LEMMA FollowImplies == TypeOK /\ FollowInv => SlaveInSync
BY DEF FollowInv, SlaveInSync, TypeOK

\* A slice sends the pulses of its ticks.
LEMMA RangeFollows ==
    ASSUME TypeOK, FollowInv, NEW a \in Int, NEW b \in Int, a <= b,
           ProcessRange(a, b), tracked => OnPulse(a, song)
    PROVE  /\ tracked' => /\ tracked /\ port # NoPort
                          /\ pulses' = CeilDiv(song', TicksPerPulse)
                          /\ OnPulse(b, song')
           /\ following' = following
<1> DEFINE T == TicksPerPulse
<1>1. T \in Nat \ {0}
  BY TicksPerPulseAssumption
<1>2. CASE port = NoPort
  BY <1>2 DEF ProcessRange, clockVars, FollowInv
<1>3. CASE port # NoPort
  <2>1. EmitPulses(a, b) /\ following' = following
    BY <1>3 DEF ProcessRange
  <2>2. ASSUME tracked'
        PROVE  /\ tracked /\ pulses' = CeilDiv(song', T) /\ OnPulse(b, song')
    <3>1. /\ tracked
          /\ pulses' = pulses + Cardinality(PulseTicks(a, b))
          /\ song' = song + (b - a)
      BY <2>1, <2>2 DEF EmitPulses, Track
    <3>2. PICK k \in Int : a = song + k * T
      BY <3>1 DEF OnPulse
    <3>3. song \in Int /\ k * T \in Int /\ song' \in Int
      BY <1>1, <3>1 DEF TypeOK
    <3> HIDE DEF T
    <3>4. CeilDiv(a, T) = CeilDiv(song, T) + k
      BY <3>2, <3>3, CeilShift DEF T
    <3>5. b = song' + k * T
      BY <3>1, <3>2, <3>3
    <3>6. CeilDiv(b, T) = CeilDiv(song', T) + k
      BY <3>3, <3>5, CeilShift DEF T
    <3>7. Cardinality(PulseTicks(a, b)) = CeilDiv(b, T) - CeilDiv(a, T)
      BY PulsesSent DEF T
    <3>8. pulses = CeilDiv(song, T)
      BY <3>1 DEF FollowInv, T
    <3>9. CeilDiv(song, T) \in Int /\ CeilDiv(song', T) \in Int
      BY <3>3, CeilIs DEF T
    <3>10. pulses' = CeilDiv(song', T)
      BY <3>1, <3>4, <3>6, <3>7, <3>8, <3>9
    <3> QED  BY <3>1, <3>5, <3>10 DEF OnPulse, T
  <2> QED  BY <1>3, <2>1, <2>2
<1> QED  BY <1>2, <1>3

\* A loop between pulse boundaries is a whole number of pulses long.
LEMMA AlignedWrap ==
    ASSUME TypeOK, AlignedLoop, OnPulse(loopEnd, song)
    PROVE  OnPulse(loopStart, song)
<1> DEFINE T == TicksPerPulse
           i == loopStart \div T
           j == loopEnd \div T
<1>1. T \in Nat \ {0} /\ loopStart \in Int /\ loopEnd \in Int /\ song \in Int
  BY TicksPerPulseAssumption DEF TypeOK
<1>2. PICK k \in Int : loopEnd = song + k * T
  BY DEF OnPulse
<1>3. loopStart % T = 0 /\ loopEnd % T = 0
  BY DEF AlignedLoop
<1> HIDE DEF T
<1>4. i \in Int /\ loopStart = T * i + 0 /\ j \in Int /\ loopEnd = T * j + 0
  BY <1>1, <1>3, DivMod
<1> HIDE DEF i, j
<1>5. (k + (i - j)) * T = k * T + T * i - T * j
  BY <1>1, <1>2, <1>4
<1>6. k * T \in Int /\ T * i \in Int /\ T * j \in Int
  BY <1>1, <1>2, <1>4
<1>7. loopStart = song + (k + (i - j)) * T /\ k + (i - j) \in Int
  BY <1>1, <1>2, <1>4, <1>5, <1>6
<1> QED  BY <1>7 DEF OnPulse, T

LEMMA FollowAdvance == TypeOK /\ FollowInv /\ AdvanceStep => FollowInv'
<1> SUFFICES ASSUME TypeOK, FollowInv, AdvanceStep PROVE FollowInv'
  OBVIOUS
<1> USE DEF transportVars, setupVars, frameVars
<1>0. /\ pos \in Int /\ lastKnown \in Int /\ from \in Int /\ delta \in Nat /\ rem \in Nat
      /\ loopStart \in Int /\ loopEnd \in Int /\ song \in Int
  BY DEF TypeOK
<1>1. CASE AdvanceStarts
  <2>1. /\ pc' = "range" /\ from' = pos /\ port' = port /\ prevState' = "Playing"
    BY <1>1 DEF AdvanceStarts, AdvanceEdge
  <2>2. ASSUME tracked'
        PROVE  /\ port # NoPort /\ following'
               /\ pulses' = CeilDiv(song', TicksPerPulse) /\ OnPulse(pos, song')
    <3>1. clockOn /\ port # NoPort
      BY <1>1, <2>2 DEF AdvanceStarts, Track
    <3>2. following' = TRUE
      BY <1>1, <3>1 DEF AdvanceStarts
    <3>3. CASE PlayMessage(pos) = "start"
      <4>1. pos = 0
        BY <3>3 DEF PlayMessage
      <4>2. pulses' = 0 /\ song' = 0
        BY <1>1, <3>1, <3>3 DEF AdvanceStarts, Track
      <4>3. CeilDiv(0, TicksPerPulse) = 0
        <5>1. TicksPerPulse \in Nat \ {0}
          BY TicksPerPulseAssumption
        <5> QED  BY <5>1 DEF CeilDiv
      <4>4. 0 = 0 + 0 * TicksPerPulse
        BY TicksPerPulseAssumption
      <4> QED  BY <3>1, <3>2, <4>1, <4>2, <4>3, <4>4 DEF OnPulse
    <3>4. CASE PlayMessage(pos) # "start"
      <4>1. Track(tracked /\ pos = lastKnown, pulses, song)
        BY <1>1, <3>1, <3>4 DEF AdvanceStarts
      <4>2. /\ tracked /\ pos = lastKnown /\ pulses' = pulses /\ song' = song
        BY <2>2, <4>1 DEF Track
      <4>3. pc = "position"
        BY <1>1 DEF AdvanceStarts, AdvanceEdge
      <4> QED  BY <3>1, <3>2, <4>2, <4>3 DEF FollowInv
    <3> QED  BY <3>3, <3>4
  <2> QED  BY <2>1, <2>2 DEF FollowInv
<1>2. CASE AdvanceStops
  <2>1. /\ pc = "position" /\ pc' = "idle" /\ prevState' # "Playing"
        /\ UNCHANGED <<port, lastKnown>>
    BY <1>2 DEF AdvanceStops, AdvanceEdge
  <2>2. tracked' => tracked /\ ~following' /\ UNCHANGED <<pulses, song>>
    BY <1>2 DEF AdvanceStops, Track
  <2> QED  BY <2>1, <2>2 DEF FollowInv
<1>3. CASE AdvanceContinues
  <2>1. /\ pc = "position" /\ pc' = "range" /\ prevState' = prevState /\ from' = pos
        /\ UNCHANGED <<port, following>>
    BY <1>3 DEF AdvanceContinues, AdvanceEdge
  <2>2. tracked' => tracked /\ pos = lastKnown /\ UNCHANGED <<pulses, song>>
    BY <1>3 DEF AdvanceContinues, Track
  <2> QED  BY <2>1, <2>2 DEF FollowInv
<1>4. CASE AdvanceRests
  <2>1. /\ pc = "position" /\ pc' = "idle" /\ prevState # "Playing" /\ prevState' # "Playing"
        /\ UNCHANGED <<port, lastKnown, following, tracked, pulses, song>>
    BY <1>4 DEF AdvanceRests, AdvanceEdge, clockVars
  <2> QED  BY <2>1 DEF FollowInv
<1>5. CASE PlayStraight
  <2>1. /\ pc = "range" /\ pc' = "add" /\ ProcessRange(from, from + delta)
        /\ UNCHANGED <<port, prevState, from, delta>>
    BY <1>5 DEF PlayStraight
  <2>2. from + delta \in Int /\ from <= from + delta /\ (tracked => OnPulse(from, song))
    BY <1>0, <2>1 DEF FollowInv
  <2>3. /\ tracked' => /\ tracked /\ port # NoPort
                       /\ pulses' = CeilDiv(song', TicksPerPulse)
                       /\ OnPulse(from + delta, song')
        /\ following' = following
    BY <1>0, <2>1, <2>2, RangeFollows
  <2> QED  BY <2>1, <2>3 DEF FollowInv
<1>6. CASE PlayToLoopEnd
  <2>1. /\ pc = "range" /\ pc' = "release" /\ ProcessRange(from, loopEnd)
        /\ LoopEnabled /\ from < loopEnd
        /\ UNCHANGED <<port, prevState, loopStart, loopEnd>>
    BY <1>6 DEF PlayToLoopEnd, Wraps
  <2>2. from <= loopEnd /\ (tracked => OnPulse(from, song))
    BY <1>0, <2>1 DEF FollowInv
  <2>3. /\ tracked' => /\ tracked /\ port # NoPort
                       /\ pulses' = CeilDiv(song', TicksPerPulse)
                       /\ OnPulse(loopEnd, song')
        /\ following' = following
    BY <1>0, <2>1, <2>2, RangeFollows
  <2> QED  BY <2>1, <2>3 DEF FollowInv, LoopEnabled
<1>7. CASE ReleaseAtLoopEnd
  <2>1. /\ pc = "release" /\ pc' = "passes"
        /\ UNCHANGED <<port, prevState, loopStart, loopEnd, following>>
    BY <1>7 DEF ReleaseAtLoopEnd
  <2>2. tracked' => tracked /\ AlignedLoop /\ UNCHANGED <<pulses, song>>
    BY <1>7 DEF ReleaseAtLoopEnd, Track
  <2> QED  BY <2>1, <2>2 DEF FollowInv, LoopEnabled, AlignedLoop
<1>8. CASE PlayFullPass
  <2>1. /\ pc = "passes" /\ pc' = "release" /\ ProcessRange(loopStart, loopEnd)
        /\ UNCHANGED <<port, prevState, loopStart, loopEnd>>
    BY <1>8 DEF PlayFullPass
  <2>2. LoopEnabled /\ loopStart <= loopEnd /\ (tracked => OnPulse(loopStart, song))
    BY <1>0, <2>1, AlignedWrap DEF FollowInv, LoopEnabled
  <2>3. /\ tracked' => /\ tracked /\ port # NoPort
                       /\ pulses' = CeilDiv(song', TicksPerPulse)
                       /\ OnPulse(loopEnd, song')
        /\ following' = following
    BY <1>0, <2>1, <2>2, RangeFollows
  <2> QED  BY <2>1, <2>2, <2>3 DEF FollowInv, LoopEnabled
<1>9. CASE PlayLastPass
  <2>1. /\ pc = "passes" /\ pc' = "seek" /\ ProcessRange(loopStart, loopStart + rem)
        /\ UNCHANGED <<port, prevState, loopStart, loopEnd, rem>>
    BY <1>9 DEF PlayLastPass
  <2>2. /\ LoopEnabled /\ loopStart + rem \in Int /\ loopStart <= loopStart + rem
        /\ tracked => OnPulse(loopStart, song)
    BY <1>0, <2>1, AlignedWrap DEF FollowInv
  <2>3. /\ tracked' => /\ tracked /\ port # NoPort
                       /\ pulses' = CeilDiv(song', TicksPerPulse)
                       /\ OnPulse(loopStart + rem, song')
        /\ following' = following
    BY <1>0, <2>1, <2>2, RangeFollows
  <2> QED  BY <2>1, <2>2, <2>3 DEF FollowInv, LoopEnabled
<1>10. CASE AddDelta
  <2>1. /\ pc = "add" /\ pc' = "idle" /\ lastKnown' = from + delta
        /\ UNCHANGED <<port, prevState, following, tracked, pulses, song>>
    BY <1>10 DEF AddDelta, Return, clockVars
  <2> QED  BY <2>1 DEF FollowInv
<1>11. CASE SeekIntoLoop
  <2>1. /\ pc = "seek" /\ pc' = "idle" /\ lastKnown' = loopStart + rem
        /\ UNCHANGED <<port, prevState, following, tracked, pulses, song>>
    BY <1>11 DEF SeekIntoLoop, Return, clockVars
  <2> QED  BY <2>1 DEF FollowInv
<1> QED
  BY <1>1, <1>2, <1>3, <1>4, <1>5, <1>6, <1>7, <1>8, <1>9, <1>10, <1>11
  DEF AdvanceStep

\* The other thread moves neither the follower nor the end of the last slice,
\* unless it takes another port.
LEMMA FollowStep == TypeOK /\ FollowInv /\ [Next]_vars => FollowInv'
<1> SUFFICES ASSUME TypeOK, FollowInv, [Next]_vars PROVE FollowInv'
  OBVIOUS
<1> USE DEF setupVars, noteVars, frameVars, clockVars
<1>1. CASE AdvanceCall
  <2>1. /\ pc = "idle" /\ pc' = "position"
        /\ UNCHANGED <<port, prevState, lastKnown, following, tracked, pulses, song>>
    BY <1>1 DEF AdvanceCall, AdvanceBegin
  <2> QED  BY <2>1 DEF FollowInv
<1>2. CASE \/ Play \/ Pause \/ StopState \/ StopPosition
           \/ \E t \in SeekTargets : Seek(t)
           \/ \E b \in BOOLEAN : SetClockEnabled(b)
           \/ UNCHANGED vars
  <2>1. UNCHANGED <<port, loopStart, loopEnd, prevState, lastKnown, pc, delta, from, rem,
                    following, tracked, pulses, song>>
    BY <1>2 DEF Play, Pause, StopState, StopPosition, Seek, SetClockEnabled,
                TransportWrite, vars
  <2> QED  BY <2>1 DEF FollowInv, LoopEnabled, AlignedLoop
<1>3. CASE \/ \E prj \in Projects : SetProject(prj)
           \/ ClearProject \/ AllNotesOff
           \/ \E region \in LoopChoices : SetLoop(region)
  <2>1. /\ pc = "idle"
        /\ UNCHANGED <<port, prevState, lastKnown, pc, following, tracked, pulses, song>>
    BY <1>3 DEF SetProject, ClearProject, AllNotesOff, SetLoop, BetweenCalls
  <2> QED  BY <2>1 DEF FollowInv
<1>4. ASSUME NEW p \in Ports \cup {NoPort}, SetPort(p) PROVE FollowInv'
  <2>1. /\ pc = "idle" /\ UNCHANGED <<prevState, lastKnown, pc>> /\ port' = p
        /\ tracked' => p = port /\ UNCHANGED <<following, tracked, pulses, song>>
    BY <1>4 DEF SetPort, BetweenCalls, Track
  <2> QED  BY <2>1 DEF FollowInv
<1> QED  BY <1>1, <1>2, <1>3, <1>4, FollowAdvance DEF Next, UIStep

\* A device that follows the clock from tick 0 counts one pulse for every
\* TicksPerPulse ticks played and runs exactly while the engine plays.
THEOREM FollowerInSync == Spec => []SlaveInSync
<1>1. Init => FollowInv
  BY DEF Init, FollowInv
<1> QED  BY <1>1, FollowStep, FollowImplies, TypeCorrect, PTL DEF Spec
-----------------------------------------------------------------------------
(* The notes a slice starts.                                               *)

\* How often the playhead, moved tick by tick from the start of the slice,
\* passes v's first tick before it comes to `last`.
Crossings(v, last) == Cardinality({u \in from .. (last - 1) : SongTick(u) = v.on})

\* The notes started so far are those crossed before this tick.
HeardUpTo(last) ==
    port # NoPort =>
        \A v \in Voices : heard[v] = IF v \in CurrentScore THEN Crossings(v, last) ELSE 0

\* How far a call of advance() has come: nothing was started before "range"; at
\* the loop point whole passes were played since the first one.
HeardInv ==
    /\ pc \in {"idle", "position", "range"} => heard = Nothing
    /\ pc \in {"release", "passes", "seek"} =>
        /\ LoopEnabled /\ from < loopEnd /\ rem <= from + delta - loopEnd
        /\ \E k \in Nat : from + delta - rem = loopEnd + k * LoopLength
    /\ pc \in {"release", "passes"} => HeardUpTo(from + delta - rem)
    /\ pc \in {"add", "seek"} => HeardUpTo(from + delta)

\* A stretch of len ticks from q on that is heard as the ticks from a on crosses
\* the note at a tick of the stretch once and every other note not at all.
LEMMA StretchCrossings ==
    ASSUME TypeOK, NEW v \in Voices, NEW q \in Int, NEW a \in Int, NEW len \in Nat,
           from <= q, \A j \in 0 .. (len - 1) : SongTick(q + j) = a + j
    PROVE  Crossings(v, q + len) = Crossings(v, q) + Count(a <= v.on /\ v.on < a + len)
<1> DEFINE S(n) == {u \in from .. (n - 1) : SongTick(u) = v.on}
           x == q + (v.on - a)
<1>1. v.on \in Int /\ from \in Int
  BY VoiceTicks DEF TypeOK
<1>2. IsFiniteSet(S(q)) /\ Cardinality(S(q)) \in Nat
  <2>1. IsFiniteSet(from .. (q - 1))
    BY <1>1, FS_Interval
  <2>2. S(q) \subseteq from .. (q - 1)
    OBVIOUS
  <2> QED  BY <2>1, <2>2, FS_Subset, FS_CardinalityType
<1>3. ASSUME NEW u \in q .. (q + len - 1) PROVE SongTick(u) = a + (u - q)
  <2>1. u - q \in 0 .. (len - 1) /\ q + (u - q) = u
    BY <1>3
  <2> QED  BY <2>1
<1>4. CASE a <= v.on /\ v.on < a + len
  <2>1. x \in q .. (q + len - 1) /\ x \notin from .. (q - 1)
    BY <1>1, <1>4
  <2>2. S(q + len) = S(q) \cup {x}
    <3>1. ASSUME NEW u \in S(q + len) PROVE u \in S(q) \cup {x}
      <4>1. u \in from .. (q + len - 1) /\ SongTick(u) = v.on
        OBVIOUS
      <4>2. CASE u < q
        BY <1>1, <4>1, <4>2
      <4>3. CASE u >= q
        <5>1. a + (u - q) = v.on
          BY <1>1, <1>3, <4>1, <4>3
        <5> QED  BY <1>1, <4>1, <5>1
      <4> QED  BY <1>1, <4>1, <4>2, <4>3
    <3>2. SongTick(x) = v.on
      BY <1>1, <1>3, <2>1
    <3>3. x \in S(q + len)
      BY <1>1, <2>1, <3>2
    <3>4. S(q) \subseteq S(q + len)
      BY <1>1
    <3> HIDE DEF x, S
    <3> QED  BY <3>1, <3>3, <3>4
  <2>3. x \notin S(q)
    BY <2>1
  <2> HIDE DEF x, S
  <2>4. Cardinality(S(q + len)) = Cardinality(S(q)) + 1
    BY <1>2, <2>2, <2>3, FS_AddElement
  <2> QED  BY <1>4, <2>4 DEF Crossings, Count, S
<1>5. CASE ~(a <= v.on /\ v.on < a + len)
  <2>1. S(q + len) = S(q)
    <3>1. ASSUME NEW u \in S(q + len) PROVE u \in S(q)
      <4>1. u \in from .. (q + len - 1) /\ SongTick(u) = v.on
        OBVIOUS
      <4>2. CASE u < q
        BY <1>1, <4>1, <4>2
      <4>3. CASE u >= q
        <5>1. a + (u - q) = v.on
          BY <1>1, <1>3, <4>1, <4>3
        <5> QED  BY <1>1, <1>5, <4>1, <4>3, <5>1
      <4> QED  BY <1>1, <4>1, <4>2, <4>3
    <3>2. S(q) \subseteq S(q + len)
      BY <1>1
    <3> HIDE DEF S
    <3> QED  BY <3>1, <3>2
  <2> HIDE DEF S
  <2> QED  BY <1>2, <1>5, <2>1 DEF Crossings, Count, S
<1> QED  BY <1>4, <1>5

\* Up to the first loop end, or without a loop, song time is the playhead's.
LEMMA StraightTick ==
    ASSUME TypeOK, NEW u \in Int, ~(LoopEnabled /\ from < loopEnd) \/ u < loopEnd
    PROVE  SongTick(u) = u
BY DEF SongTick, TypeOK

\* The j-th tick of a pass of the loop is j ticks after its start.
LEMMA PassTick ==
    ASSUME TypeOK, LoopEnabled, from < loopEnd, NEW k \in Nat,
           NEW j \in 0 .. (LoopLength - 1)
    PROVE  SongTick(loopEnd + k * LoopLength + j) = loopStart + j
<1> DEFINE L == LoopLength
           u == loopEnd + k * L + j
<1>1. L \in Nat \ {0} /\ loopEnd \in Nat
  BY DEF LoopLength, LoopEnabled, TypeOK
<1> HIDE DEF L
<1>2. k * L \in Nat /\ L * k = k * L
  BY <1>1
<1>3. u >= loopEnd /\ u - loopEnd = L * k + j /\ u - loopEnd \in Int
  BY <1>1, <1>2 DEF L
<1> HIDE DEF u
<1>4. (u - loopEnd) % L = j
  <2>1. j \in 0 .. L - 1 /\ k \in Int
    BY DEF L
  <2> QED  BY <1>1, <1>3, <2>1, DivModUnique
<1>5. SongTick(u) = loopStart + ((u - loopEnd) % L)
  BY <1>3 DEF SongTick, L
<1> QED  BY <1>4, <1>5 DEF u, L

\* A range of advance() starts the notes of its stretch.
LEMMA RangeHeard ==
    ASSUME TypeOK, NEW q \in Int, NEW a \in Int, NEW len \in Nat,
           from <= q, \A j \in 0 .. (len - 1) : SongTick(q + j) = a + j,
           HeardUpTo(q), ProcessRange(a, a + len)
    PROVE  port # NoPort =>
             \A v \in Voices :
               heard'[v] = IF v \in CurrentScore THEN Crossings(v, q + len) ELSE 0
<1> SUFFICES ASSUME port # NoPort, NEW v \in Voices
             PROVE  heard'[v] = IF v \in CurrentScore THEN Crossings(v, q + len) ELSE 0
  OBVIOUS
<1>1. heard'[v] = heard[v] + Count(v \in Started(a, a + len))
  BY DEF ProcessRange
<1>2. heard[v] = IF v \in CurrentScore THEN Crossings(v, q) ELSE 0
  BY DEF HeardUpTo
<1>3. CASE v \in CurrentScore
  <2>1. Crossings(v, q + len) = Crossings(v, q) + Count(a <= v.on /\ v.on < a + len)
    BY StretchCrossings
  <2>2. v \in Started(a, a + len) <=> a <= v.on /\ v.on < a + len
    BY <1>3 DEF Started
  <2> QED  BY <1>1, <1>2, <1>3, <2>1, <2>2 DEF Count
<1>4. CASE v \notin CurrentScore
  BY <1>1, <1>2, <1>4 DEF Started, Count
<1> QED  BY <1>3, <1>4

\* Nothing is crossed before the first tick.
LEMMA HeardAtFirst ==
    ASSUME TypeOK, heard = Nothing
    PROVE  HeardUpTo(from)
<1>1. ASSUME NEW v \in Voices PROVE Crossings(v, from) = 0
  <2>1. {u \in from .. (from - 1) : SongTick(u) = v.on} = {}
    BY DEF TypeOK
  <2> QED  BY <2>1, FS_EmptySet DEF Crossings
<1> QED  BY <1>1 DEF HeardUpTo, Nothing

\* The notes a range started are those of the next state's count.
LEMMA HeardNext ==
    ASSUME UNCHANGED <<port, project, loopStart, loopEnd, from>>, NEW last \in Int,
           port # NoPort =>
             \A v \in Voices :
               heard'[v] = IF v \in CurrentScore THEN Crossings(v, last) ELSE 0
    PROVE  port' # NoPort =>
             \A v \in Voices :
               heard'[v] = IF v \in CurrentScore'
                           THEN Cardinality({u \in from' .. (last - 1) : SongTick(u)' = v.on})
                           ELSE 0
<1>1. \A u : SongTick(u)' = SongTick(u)
  BY DEF SongTick, LoopEnabled, LoopLength
<1>2. CurrentScore' = CurrentScore
  BY DEF CurrentScore
<1>3. \A v \in Voices : {u \in from' .. (last - 1) : SongTick(u)' = v.on}
                        = {u \in from .. (last - 1) : SongTick(u) = v.on}
  BY <1>1
<1> QED  BY <1>2, <1>3 DEF Crossings

LEMMA HeardAdvance == TypeOK /\ HeardInv /\ AdvanceStep => HeardInv'
<1> SUFFICES ASSUME TypeOK, HeardInv, AdvanceStep PROVE HeardInv'
  OBVIOUS
<1> USE DEF transportVars, setupVars, frameVars, noteVars
<1>0. /\ from \in Nat /\ delta \in Nat /\ rem \in Nat
      /\ loopStart \in Nat /\ loopEnd \in Nat /\ LoopLength \in Int
  BY DEF TypeOK, LoopLength
<1>1. CASE AdvanceStarts \/ AdvanceStops \/ AdvanceContinues \/ AdvanceRests
  <2>1. pc = "position" /\ pc' \in {"idle", "range"} /\ heard' = heard
    BY <1>1 DEF AdvanceStarts, AdvanceStops, AdvanceContinues, AdvanceRests, AdvanceEdge
  <2> QED  BY <2>1 DEF HeardInv, Nothing
<1>2. CASE PlayStraight
  <2>1. /\ pc = "range" /\ pc' = "add" /\ ~Wraps /\ ProcessRange(from, from + delta)
        /\ UNCHANGED <<port, project, loopStart, loopEnd, from, delta>>
    BY <1>2 DEF PlayStraight
  <2>2. HeardUpTo(from)
    BY <2>1, HeardAtFirst DEF HeardInv
  <2>3. \A j \in 0 .. (delta - 1) : SongTick(from + j) = from + j
    <3> TAKE j \in 0 .. (delta - 1)
    <3>1. from + j \in Int /\ from + j < from + delta
      BY <1>0
    <3>2. ~(LoopEnabled /\ from < loopEnd) \/ from + j < loopEnd
      BY <1>0, <2>1, <3>1 DEF Wraps
    <3> QED  BY <3>1, <3>2, StraightTick
  <2>4. from + delta \in Int /\ from \in Int /\ from <= from
    BY <1>0
  <2>5. port # NoPort =>
          \A v \in Voices :
            heard'[v] = IF v \in CurrentScore THEN Crossings(v, from + delta) ELSE 0
    BY <1>0, <2>1, <2>2, <2>3, <2>4, RangeHeard
  <2>7. HeardUpTo(from + delta)'
    BY <2>1, <2>4, <2>5, HeardNext DEF HeardUpTo, Crossings
  <2> QED  BY <2>1, <2>7 DEF HeardInv
<1>3. CASE PlayToLoopEnd
  <2>1. /\ pc = "range" /\ pc' = "release" /\ Wraps /\ ProcessRange(from, loopEnd)
        /\ rem' = from + delta - loopEnd
        /\ UNCHANGED <<port, project, loopStart, loopEnd, from, delta>>
    BY <1>3 DEF PlayToLoopEnd
  <2>2. HeardUpTo(from)
    BY <2>1, HeardAtFirst DEF HeardInv
  <2>3. LoopEnabled /\ from < loopEnd
    BY <2>1 DEF Wraps
  <2>4. \A j \in 0 .. (loopEnd - from - 1) : SongTick(from + j) = from + j
    <3> TAKE j \in 0 .. (loopEnd - from - 1)
    <3>1. from + j \in Int /\ from + j < loopEnd
      BY <1>0
    <3> QED  BY <3>1, StraightTick
  <2>5. port # NoPort =>
          \A v \in Voices :
            heard'[v] = IF v \in CurrentScore THEN Crossings(v, loopEnd) ELSE 0
    <3> DEFINE len == loopEnd - from
    <3>1. from \in Int /\ from <= from /\ len \in Nat /\ from + len = loopEnd
      BY <1>0, <2>3
    <3>2. ProcessRange(from, from + len) /\ \A j \in 0 .. (len - 1) : SongTick(from + j) = from + j
      BY <2>1, <2>4, <3>1
    <3> HIDE DEF len
    <3>3. port # NoPort =>
            \A v \in Voices :
              heard'[v] = IF v \in CurrentScore THEN Crossings(v, from + len) ELSE 0
      BY <2>2, <3>1, <3>2, RangeHeard
    <3> QED  BY <3>1, <3>3
  <2>6. from + delta - rem' = loopEnd
    BY <1>0, <2>1
  <2>7. HeardUpTo(from + delta - rem)'
    BY <1>0, <2>1, <2>5, <2>6, HeardNext DEF HeardUpTo, Crossings
  <2>8. (from + delta - rem)' = loopEnd + 0 * LoopLength'
    BY <1>0, <2>1, <2>6 DEF LoopLength
  <2> QED  BY <1>0, <2>1, <2>3, <2>7, <2>8 DEF HeardInv, LoopEnabled
<1>4. CASE ReleaseAtLoopEnd
  <2>1. /\ pc = "release" /\ pc' = "passes"
        /\ UNCHANGED <<port, project, loopStart, loopEnd, from, delta, rem, heard>>
    BY <1>4 DEF ReleaseAtLoopEnd
  <2>2. HeardUpTo(from + delta - rem)
    BY <2>1 DEF HeardInv
  <2>3. HeardUpTo(from + delta - rem)'
    BY <1>0, <2>1, <2>2, HeardNext DEF HeardUpTo, Crossings
  <2> QED  BY <2>1, <2>3 DEF HeardInv, LoopEnabled, LoopLength
<1>5. ASSUME pc = "passes", NEW len \in Nat, len <= LoopLength, len <= rem,
             ProcessRange(loopStart, loopStart + len)
      PROVE  port # NoPort =>
               \A v \in Voices :
                 heard'[v] = IF v \in CurrentScore
                             THEN Crossings(v, from + delta - rem + len) ELSE 0
  <2> DEFINE q == from + delta - rem
  <2>1. LoopEnabled /\ from < loopEnd /\ rem <= from + delta - loopEnd /\ HeardUpTo(q)
    BY <1>5 DEF HeardInv
  <2>2. PICK k \in Nat : q = loopEnd + k * LoopLength
    BY <1>5 DEF HeardInv
  <2>3. \A j \in 0 .. (len - 1) : SongTick(q + j) = loopStart + j
    <3> TAKE j \in 0 .. (len - 1)
    <3>1. j \in 0 .. (LoopLength - 1)
      BY <1>0, <1>5
    <3>2. SongTick(loopEnd + k * LoopLength + j) = loopStart + j
      BY <2>1, <3>1, PassTick
    <3> QED  BY <2>2, <3>2
  <2>4. q \in Int /\ from <= q /\ loopStart \in Int
    BY <1>0, <2>1
  <2> HIDE DEF q
  <2>5. port # NoPort =>
          \A v \in Voices :
            heard'[v] = IF v \in CurrentScore THEN Crossings(v, q + len) ELSE 0
    BY <1>5, <2>1, <2>3, <2>4, RangeHeard
  <2> QED  BY <2>5 DEF q
<1>6. CASE PlayFullPass
  <2>1. /\ pc = "passes" /\ pc' = "release" /\ rem >= LoopLength
        /\ ProcessRange(loopStart, loopEnd) /\ rem' = rem - LoopLength
        /\ UNCHANGED <<port, project, loopStart, loopEnd, from, delta>>
    BY <1>6 DEF PlayFullPass
  <2>2. LoopEnabled /\ from < loopEnd /\ rem <= from + delta - loopEnd
    BY <2>1 DEF HeardInv
  <2>3. PICK k \in Nat : from + delta - rem = loopEnd + k * LoopLength
    BY <2>1 DEF HeardInv
  <2>4. LoopLength \in Nat \ {0} /\ loopEnd = loopStart + LoopLength
    BY <1>0, <2>2 DEF LoopEnabled, LoopLength
  <2>5. from + delta - rem + LoopLength = from + delta - rem'
        /\ from + delta - rem' \in Int /\ rem' <= rem
    BY <1>0, <2>1, <2>4
  <2>6. port # NoPort =>
          \A v \in Voices :
            heard'[v] = IF v \in CurrentScore
                        THEN Crossings(v, from + delta - rem + LoopLength) ELSE 0
    <3>1. LoopLength \in Nat /\ LoopLength <= LoopLength /\ LoopLength <= rem
      BY <2>1, <2>4
    <3>2. ProcessRange(loopStart, loopStart + LoopLength)
      BY <2>1, <2>4
    <3> QED  BY <1>5, <2>1, <3>1, <3>2
  <2>7. HeardUpTo(from + delta - rem)'
    BY <2>1, <2>5, <2>6, HeardNext DEF HeardUpTo, Crossings
  <2>8. (from + delta - rem)' = loopEnd + (k + 1) * LoopLength
    BY <1>0, <2>1, <2>3, <2>4, <2>5
  <2>9. (rem <= from + delta - loopEnd)'
    BY <1>0, <2>1, <2>2, <2>4
  <2> QED  BY <2>1, <2>2, <2>7, <2>8, <2>9 DEF HeardInv, LoopEnabled, LoopLength
<1>7. CASE PlayLastPass
  <2>1. /\ pc = "passes" /\ pc' = "seek" /\ rem < LoopLength
        /\ ProcessRange(loopStart, loopStart + rem)
        /\ UNCHANGED <<port, project, loopStart, loopEnd, from, delta, rem>>
    BY <1>7 DEF PlayLastPass
  <2>2. rem \in Nat /\ rem <= LoopLength /\ rem <= rem /\ from + delta - rem + rem = from + delta
        /\ from + delta \in Int
    BY <1>0, <2>1
  <2>3. port # NoPort =>
          \A v \in Voices :
            heard'[v] = IF v \in CurrentScore
                        THEN Crossings(v, from + delta - rem + rem) ELSE 0
    BY <1>5, <2>1, <2>2
  <2>4. HeardUpTo(from + delta)'
    BY <2>1, <2>2, <2>3, HeardNext DEF HeardUpTo, Crossings
  <2> QED  BY <2>1, <2>4 DEF HeardInv, LoopEnabled, LoopLength
<1>8. CASE AddDelta \/ SeekIntoLoop
  <2>1. pc' = "idle" /\ heard' = Nothing
    BY <1>8 DEF AddDelta, SeekIntoLoop, Return
  <2> QED  BY <2>1 DEF HeardInv, Nothing
<1> QED
  BY <1>1, <1>2, <1>3, <1>4, <1>6, <1>7, <1>8 DEF AdvanceStep

\* The other thread touches none of this during a call, and between two calls
\* nothing has been started.
LEMMA HeardStep == TypeOK /\ HeardInv /\ [Next]_vars => HeardInv'
<1> SUFFICES ASSUME TypeOK, HeardInv, [Next]_vars PROVE HeardInv'
  OBVIOUS
<1> USE DEF setupVars, noteVars, frameVars
<1>1. CASE \/ AdvanceCall
           \/ \E prj \in Projects : SetProject(prj)
           \/ ClearProject \/ AllNotesOff
           \/ \E region \in LoopChoices : SetLoop(region)
           \/ \E p \in Ports \cup {NoPort} : SetPort(p)
  <2>1. pc = "idle" /\ pc' \in {"idle", "position"} /\ heard' = heard
    BY <1>1 DEF AdvanceCall, AdvanceBegin, SetProject, ClearProject, AllNotesOff, SetLoop,
                SetPort, BetweenCalls
  <2> QED  BY <2>1 DEF HeardInv, Nothing
<1>2. CASE \/ Play \/ Pause \/ StopState \/ StopPosition
           \/ \E t \in SeekTargets : Seek(t)
           \/ \E b \in BOOLEAN : SetClockEnabled(b)
           \/ UNCHANGED vars
  <2>1. UNCHANGED <<port, project, loopStart, loopEnd, pc, delta, from, rem, heard>>
    BY <1>2 DEF Play, Pause, StopState, StopPosition, Seek, SetClockEnabled,
                TransportWrite, vars
  <2>2. ASSUME NEW last \in Int, HeardUpTo(last)
        PROVE  port' # NoPort =>
                 \A v \in Voices :
                   heard'[v] = IF v \in CurrentScore'
                               THEN Cardinality({u \in from' .. (last - 1) :
                                                    SongTick(u)' = v.on})
                               ELSE 0
    <3>1. port # NoPort =>
            \A v \in Voices :
              heard'[v] = IF v \in CurrentScore THEN Crossings(v, last) ELSE 0
      BY <2>1, <2>2 DEF HeardUpTo
    <3> QED  BY <2>1, <3>1, HeardNext
  <2>3. from + delta - rem \in Int /\ from + delta \in Int
    BY DEF TypeOK
  <2>4. HeardUpTo(from + delta - rem) => HeardUpTo(from + delta - rem)'
    BY <2>1, <2>2, <2>3 DEF HeardUpTo, Crossings
  <2>5. HeardUpTo(from + delta) => HeardUpTo(from + delta)'
    BY <2>1, <2>2, <2>3 DEF HeardUpTo, Crossings
  <2> QED  BY <2>1, <2>4, <2>5 DEF HeardInv, LoopEnabled, LoopLength, Nothing
<1> QED  BY <1>1, <1>2, HeardAdvance DEF Next, UIStep

LEMMA HeardCorrect == Spec => []HeardInv
<1>1. Init => HeardInv
  BY DEF Init, HeardInv, Nothing
<1> QED  BY <1>1, HeardStep, TypeCorrect, PTL DEF Spec

\* Whatever the size of the slice and the loop passes it covers, a call of
\* advance() starts each note of the score as often as the playhead, moved tick
\* by tick, passes the note's first tick; and starts nothing else.
THEOREM CrossedNotesStarted == Spec => []EveryCrossedNoteOnce
<1>1. TypeOK /\ HeardInv => EveryCrossedNoteOnce
  <2> SUFFICES ASSUME TypeOK, HeardInv, pc \in {"add", "seek"}, port # NoPort,
                      NEW v \in Voices
               PROVE  heard[v] = IF v \in CurrentScore
                                 THEN Cardinality({u \in from .. (from + delta - 1) :
                                                      SongTick(u) = v.on})
                                 ELSE 0
    BY DEF EveryCrossedNoteOnce
  <2>1. HeardUpTo(from + delta)
    BY DEF HeardInv
  <2>2. heard[v] = IF v \in CurrentScore THEN Crossings(v, from + delta) ELSE 0
    BY <2>1 DEF HeardUpTo
  <2>3. from + delta - 1 = (from + delta) - 1
    BY DEF TypeOK
  <2> QED  BY <2>2, <2>3 DEF Crossings
<1> QED  BY <1>1, HeardCorrect, TypeCorrect, PTL
=============================================================================
