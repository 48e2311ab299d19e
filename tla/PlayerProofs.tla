---------------------------- MODULE PlayerProofs ----------------------------
(***************************************************************************)
(* Machine-checked proofs about turdus_play.  Every step of the player is  *)
(* a step of the engine's specification or leaves the engine alone, so     *)
(* what EngineProofs proves of every use of the engine holds here.         *)
(***************************************************************************)
EXTENDS Player, EngineCountProofs

LEMMA StepsOfEngine == [PlayerNext]_allVars => [Next]_vars
<1> SUFFICES ASSUME [PlayerNext]_allVars PROVE [Next]_vars
  OBVIOUS
<1>1. ASSUME NEW f \in Files, Setup(f) PROVE Next
  <2>1. WithArrangement(f) \in Projects
    BY FilesAssumption
  <2> QED  BY <1>1, <2>1 DEF Setup, Next, UIStep
<1>2. ASSUME NEW emit \in BOOLEAN, ChooseClock(emit) PROVE Next
  BY <1>2 DEF ChooseClock, Next, UIStep
<1>3. CASE StartPlaying
  BY <1>3 DEF StartPlaying, Next, UIStep
<1>4. CASE StopTransport
  BY <1>4 DEF StopTransport, Next, UIStep
<1>5. CASE ReleaseHeld
  BY <1>5 DEF ReleaseHeld, Next, UIStep
<1>6. CASE ThreadCalls \/ ThreadAdvances
  BY <1>6 DEF ThreadCalls, ThreadAdvances, Next
<1>7. CASE \/ StartClock \/ StopClock \/ JoinClock \/ Interrupt
           \/ ThreadTests \/ ThreadSkips \/ Finished \/ UNCHANGED allVars
  BY <1>7 DEF StartClock, StopClock, JoinClock, Interrupt, ThreadTests, ThreadSkips,
              Finished, allVars
<1> QED
  BY <1>1, <1>2, <1>3, <1>4, <1>5, <1>6, <1>7 DEF PlayerNext, MainStep, ThreadStep

\* Everything turdus_play does to the engine, the engine's specification allows.
THEOREM PlayerUsesEngine == PlayerSpec => Spec
<1>1. PlayerInit => Init
  BY DEF PlayerInit
<1> QED  BY <1>1, StepsOfEngine, PTL DEF PlayerSpec, Spec

-----------------------------------------------------------------------------
(* The clock's thread and main() take turns at the engine.                 *)

AloneInv ==
    /\ mainPc \in {"setup", "clock", "play", "start"} => thread = "none"
    /\ mainPc \in {"stop", "rewind", "release", "closed"} => thread = "exited"
    /\ thread # "called" => pc = "idle"

\* Steps of main() other than StartClock and JoinClock, and the signal handler,
\* move neither the thread nor a call of advance().
LEMMA MainKeepsCall ==
    ASSUME \/ \E f \in Files : Setup(f)
           \/ \E emit \in BOOLEAN : ChooseClock(emit)
           \/ StartPlaying \/ StopClock \/ StopTransport \/ ReleaseHeld
           \/ Interrupt \/ Finished \/ UNCHANGED allVars
    PROVE  UNCHANGED <<thread, pc>>
BY DEF Setup, ChooseClock, StartPlaying, StopClock, StopTransport, ReleaseHeld,
       Interrupt, Finished, allVars, playerVars, vars, frameVars, SetProject,
       BetweenCalls, SetClockEnabled, Play, StopState, StopPosition, TransportWrite,
       AllNotesOff

LEMMA AloneStep == AloneInv /\ [PlayerNext]_allVars => AloneInv'
<1> SUFFICES ASSUME AloneInv, [PlayerNext]_allVars PROVE AloneInv'
  OBVIOUS
<1>1. CASE \/ \E f \in Files : Setup(f)
           \/ \E emit \in BOOLEAN : ChooseClock(emit)
           \/ StartPlaying \/ StopClock \/ StopTransport \/ ReleaseHeld
           \/ Interrupt \/ Finished \/ UNCHANGED allVars
  <2>1. UNCHANGED <<thread, pc>>
    BY <1>1, MainKeepsCall
  <2>2. \/ mainPc' = mainPc
        \/ At("setup", "clock") \/ At("clock", "play") \/ At("play", "start")
        \/ At("wait", "join") \/ At("stop", "rewind") \/ At("rewind", "release")
        \/ At("release", "closed")
    BY <1>1 DEF Setup, ChooseClock, StartPlaying, StopClock, StopTransport,
                ReleaseHeld, Interrupt, Finished, allVars, playerVars
  <2> QED  BY <2>1, <2>2 DEF AloneInv, At
<1>2. CASE StartClock \/ JoinClock
  BY <1>2 DEF StartClock, JoinClock, At, AloneInv, vars, frameVars
<1>3. CASE ThreadTests \/ ThreadSkips
  BY <1>3 DEF ThreadTests, ThreadSkips, AloneInv, vars, frameVars
<1>4. CASE ThreadCalls \/ ThreadAdvances
  BY <1>4 DEF ThreadCalls, ThreadAdvances, AloneInv
<1> QED  BY <1>1, <1>2, <1>3, <1>4 DEF PlayerNext, MainStep, ThreadStep

\* The operations the engine wants kept out of advance() are called by main()
\* only before the clock's thread exists or after it has been joined.
THEOREM EngineAlone == PlayerSpec => []AloneWithEngine
<1>1. PlayerInit => AloneInv
  BY DEF PlayerInit, Init, AloneInv
<1>2. AloneInv => AloneWithEngine
  BY DEF AloneInv, AloneWithEngine
<1> QED  BY <1>1, <1>2, AloneStep, PTL DEF PlayerSpec

ClockTypes ==
    accumulator \in 0 .. Fraction - 1 /\ measured \in Nat /\ elapsed \in Nat

\* What a slice adds to the accumulator, after rounding.
Gain(g) == Sum(accumulator, g) - accumulator

LEMMA GainType ==
    ASSUME accumulator \in 0 .. Fraction - 1, NEW g \in Gains
    PROVE  /\ Sum(accumulator, g) \in Nat /\ Gain(g) \in Nat
           /\ Sum(accumulator, g) = accumulator + Gain(g)
<1>1. Fraction \in Nat /\ accumulator \in Nat
  BY ClockAssumption
<1>2. Sum(accumulator, g) \in Nat /\ accumulator <= Sum(accumulator, g)
  BY DoubleAssumption
<1> HIDE DEF Sum
<1> QED  BY <1>1, <1>2 DEF Gain

LEMMA RemainderType ==
    ASSUME NEW n \in Nat, NEW d \in Nat \ {0}
    PROVE  n % d \in 0 .. d - 1
OBVIOUS

\* The clock keeps less than a tick over, and its time never runs below zero.
LEMMA ClockStep == TypeOK /\ ClockTypes /\ [PlayerNext]_allVars => ClockTypes'
<1> SUFFICES ASSUME TypeOK, ClockTypes, [PlayerNext]_allVars PROVE ClockTypes'
  OBVIOUS
<1>1. /\ {Fraction, Rate} \subseteq Nat \ {0} /\ Gains \subseteq Nat
      /\ loopStart \in Nat /\ loopEnd \in Nat
  BY ClockAssumption DEF TypeOK
<1>2. ASSUME NEW g \in Gains, Pass(g) PROVE measured' \in Nat /\ elapsed' \in Nat
  <2>1. /\ elapsed' = IF LoopEnabled THEN elapsed ELSE elapsed + g * Rate
        /\ measured' = IF LoopEnabled THEN (measured + Gain(g)) % (LoopLength * Fraction)
                       ELSE measured + Gain(g)
    BY <1>2 DEF Pass, Gain
  <2>2. g * Rate \in Nat /\ elapsed + g * Rate \in Nat
    <3>1. g \in Nat /\ Rate \in Nat /\ elapsed \in Nat
      BY <1>1 DEF ClockTypes
    <3> QED  BY <3>1
  <2>3. measured + Gain(g) \in Nat
    BY GainType DEF ClockTypes
  <2>4. CASE LoopEnabled
    <3>1. LoopLength \in Nat \ {0}
      BY <1>1, <2>4 DEF LoopEnabled, LoopLength
    <3>2. LoopLength * Fraction \in Nat \ {0}
      BY <1>1, <3>1
    <3> HIDE DEF LoopLength
    <3>3. (measured + Gain(g)) % (LoopLength * Fraction) \in 0 .. LoopLength * Fraction - 1
      BY <2>3, <3>2, RemainderType
    <3>4. (measured + Gain(g)) % (LoopLength * Fraction) \in Nat
      BY <3>2, <3>3
    <3> QED  BY <2>1, <2>4, <3>4 DEF ClockTypes
  <2>5. CASE ~LoopEnabled
    BY <2>1, <2>2, <2>3, <2>5
  <2> QED  BY <2>4, <2>5
<1>3. CASE ThreadSkips
  <2>1. PICK g \in Gains : /\ Sum(accumulator, g) < Fraction
                           /\ accumulator' = Sum(accumulator, g) /\ Pass(g)
    BY <1>3 DEF ThreadSkips
  <2>2. accumulator' \in 0 .. Fraction - 1
    <3>1. Sum(accumulator, g) \in Nat
      BY GainType DEF ClockTypes
    <3> HIDE DEF Sum
    <3> QED  BY <1>1, <2>1, <3>1
  <2> QED  BY <1>2, <2>1, <2>2 DEF ClockTypes
<1>4. CASE ThreadCalls
  <2>1. PICK g \in Gains : accumulator' = Sum(accumulator, g) % Fraction /\ Pass(g)
    BY <1>4 DEF ThreadCalls
  <2>2. Sum(accumulator, g) \in Nat
    BY GainType DEF ClockTypes
  <2>3. accumulator' \in 0 .. Fraction - 1
    BY <1>1, <2>1, <2>2, RemainderType
  <2> QED  BY <1>2, <2>1, <2>3 DEF ClockTypes
<1>5. CASE \/ MainStep \/ Interrupt \/ ThreadTests \/ ThreadAdvances \/ Finished
           \/ UNCHANGED allVars
  <2>1. UNCHANGED <<accumulator, measured, elapsed>>
    BY <1>5 DEF MainStep, Setup, ChooseClock, StartPlaying, StartClock, StopClock,
                JoinClock, StopTransport, ReleaseHeld, Interrupt, ThreadTests,
                ThreadAdvances, Finished, allVars, playerVars, timeVars
  <2> QED  BY <2>1 DEF ClockTypes
<1> QED  BY <1>3, <1>4, <1>5 DEF PlayerNext, ThreadStep

\* Type correctness of the player and of the engine under it.
THEOREM PlayerTypeCorrect == PlayerSpec => []PlayerTypeOK
<1> DEFINE PTypes ==
        /\ mainPc \in {"setup", "clock", "play", "start", "wait", "join", "stop",
                       "rewind", "release", "closed"}
        /\ gRunning \in BOOLEAN /\ running \in BOOLEAN
        /\ thread \in {"none", "test", "slice", "called", "exited"}
<1>1. PlayerInit => PTypes
  BY DEF PlayerInit
<1>2. PTypes /\ [PlayerNext]_allVars => PTypes'
  BY DEF PlayerNext, MainStep, ThreadStep, Setup, ChooseClock, StartPlaying, StartClock,
         StopClock, JoinClock, StopTransport, ReleaseHeld, Interrupt, Finished,
         ThreadTests, ThreadSkips, ThreadCalls, ThreadAdvances, At, allVars, playerVars
<1>3. PlayerInit => ClockTypes
  BY ClockAssumption DEF PlayerInit, ClockTypes
<1>4. PTypes /\ ClockTypes /\ TypeOK => PlayerTypeOK
  BY DEF PlayerTypeOK, ClockTypes
<1> QED
  BY <1>1, <1>2, <1>3, <1>4, ClockStep, PlayerUsesEngine, TypeCorrect, PTL DEF PlayerSpec

-----------------------------------------------------------------------------
(* Nothing sounds after the player.                                        *)

ExitInv ==
    /\ cleanSwaps
    /\ port \in Ports
    /\ mainPc = "closed" => pending = Nothing /\ thread = "exited"

LEMMA ExitStep == AloneInv /\ ExitInv /\ [PlayerNext]_allVars => ExitInv'
<1> SUFFICES ASSUME AloneInv, ExitInv, [PlayerNext]_allVars PROVE ExitInv'
  OBVIOUS
<1> USE DEF transportVars, setupVars, noteVars
<1>1. UNCHANGED <<cleanSwaps, port>>
  <2>1. AdvanceCall \/ AdvanceStep => UNCHANGED <<cleanSwaps, port>>
    BY DEF AdvanceCall, AdvanceBegin, AdvanceStep, AdvanceStarts, AdvanceStops,
           AdvanceContinues, AdvanceRests, AdvanceEdge, PlayStraight, PlayToLoopEnd,
           ReleaseAtLoopEnd, PlayFullPass, PlayLastPass, AddDelta, SeekIntoLoop, Return
  <2>2. CASE MainStep
    BY <2>2 DEF MainStep, Setup, ChooseClock, StartPlaying, StartClock, StopClock,
                JoinClock, StopTransport, ReleaseHeld, SetProject, SetClockEnabled, Play,
                StopState, StopPosition, TransportWrite, AllNotesOff, vars
  <2>3. CASE ThreadStep
    BY <2>1, <2>3 DEF ThreadStep, ThreadTests, ThreadSkips, ThreadCalls,
                      ThreadAdvances, vars
  <2>4. CASE Interrupt \/ Finished \/ UNCHANGED allVars
    BY <2>4 DEF Interrupt, Finished, allVars, vars
  <2> QED  BY <2>2, <2>3, <2>4 DEF PlayerNext
<1>2. CASE mainPc = "closed"
  <2>1. UNCHANGED <<mainPc, thread, pending>>
    BY <1>2 DEF ExitInv, PlayerNext, MainStep, Setup, ChooseClock, StartPlaying,
                StartClock, StopClock, JoinClock, StopTransport, ReleaseHeld, At,
                ThreadStep, ThreadTests, ThreadSkips, ThreadCalls, ThreadAdvances,
                Interrupt, Finished, allVars, playerVars, vars
  <2> QED  BY <1>1, <2>1 DEF ExitInv
<1>3. CASE mainPc # "closed" /\ mainPc' = "closed"
  <2>1. ReleaseHeld
    BY <1>3 DEF PlayerNext, MainStep, Setup, ChooseClock, StartPlaying,
                StartClock, StopClock, JoinClock, StopTransport, At,
                ThreadStep, ThreadTests, ThreadSkips, ThreadCalls, ThreadAdvances,
                Interrupt, Finished, allVars, playerVars
  <2>2. pending' = Nothing /\ thread' = thread /\ mainPc = "release"
    BY <2>1 DEF ReleaseHeld, At, AllNotesOff, ForceReleaseAll
  <2> QED  BY <1>1, <2>2 DEF ExitInv, AloneInv
<1>4. CASE mainPc' # "closed"
  BY <1>1, <1>4 DEF ExitInv
<1> QED  BY <1>2, <1>3, <1>4

\* No note is left sounding when the port is closed, for every project, slice
\* size and moment of the interrupt.
THEOREM PlayerLeavesSilence == PlayerSpec => []SilentAtExit
<1>1. PlayerInit => AloneInv /\ ExitInv
  BY DEF PlayerInit, Init, AloneInv, ExitInv
<1>2. ExitInv /\ NoStuckNotes => SilentAtExit
  BY DEF ExitInv, NoStuckNotes, SilentAtExit
<1> QED
  BY <1>1, <1>2, AloneStep, ExitStep, PlayerUsesEngine, NotesNeverStuck, PTL
     DEF PlayerSpec

-----------------------------------------------------------------------------
(* No tick is lost.  MeasuredTicksPlayed speaks of the moments between      *)
(* two slices; within one, the ticks it was called with count as played.   *)

\* What was measured is counted modulo this; without a loop it is exact.
Period == IF LoopEnabled THEN LoopLength * Fraction ELSE 0

\* The song is at `place`, up to passes of the loop.
OnTime(place) == \E k \in Int : measured - (place * Fraction + accumulator) = k * Period

TimeInv ==
    /\ mainPc \in {"setup", "clock", "play", "start"} => pos = 0 /\ measured = 0 /\ accumulator = 0
    /\ mainPc \in {"start", "wait", "join"} => tState = "Playing"
    /\ mainPc \in {"wait", "join", "stop", "rewind"} =>
           OnTime(IF thread = "called" THEN pos + delta ELSE pos)
    /\ thread = "called" => cur = "Playing" /\ pc # "idle"
    /\ thread = "called" /\ pc # "position" => from = pos

LEMMA PeriodType == TypeOK => Period \in Nat /\ (LoopEnabled => Period \in Nat \ {0})
<1> SUFFICES ASSUME TypeOK PROVE Period \in Nat /\ (LoopEnabled => Period \in Nat \ {0})
  OBVIOUS
<1>1. LoopEnabled => LoopLength \in Nat \ {0}
  BY DEF LoopEnabled, LoopLength, TypeOK
<1>2. Fraction \in Nat \ {0}
  BY ClockAssumption
<1> HIDE DEF LoopLength
<1>3. LoopEnabled => LoopLength * Fraction \in Nat \ {0}
  BY <1>1, <1>2
<1> QED  BY <1>3 DEF Period

LEMMA TimeImplies == PlayerTypeOK /\ TimeInv => MeasuredTicksPlayed
<1> SUFFICES ASSUME PlayerTypeOK, TimeInv,
                    mainPc \in {"wait", "join", "stop", "rewind"}, thread # "called"
             PROVE  LET late == measured - (pos * Fraction + accumulator)
                    IN IF LoopEnabled THEN late % (LoopLength * Fraction) = 0 ELSE late = 0
  BY DEF MeasuredTicksPlayed
<1> DEFINE late == measured - (pos * Fraction + accumulator)
<1>1. PICK k \in Int : late = k * Period
  BY DEF TimeInv, OnTime
<1>2. Period \in Nat /\ (LoopEnabled => Period \in Nat \ {0})
  BY PeriodType DEF PlayerTypeOK
<1> HIDE DEF late
<1>3. CASE LoopEnabled
  <2>1. Period \in Nat \ {0} /\ 0 \in 0 .. Period - 1 /\ late = Period * k + 0 /\ late \in Int
    BY <1>1, <1>2, <1>3
  <2>2. late % Period = 0
    BY <2>1, DivModUnique
  <2> QED  BY <1>3, <2>2 DEF Period, late
<1>4. CASE ~LoopEnabled
  <2>1. Period = 0
    BY <1>4 DEF Period
  <2>2. late = 0
    BY <1>1, <2>1
  <2> QED  BY <1>4, <2>2 DEF late
<1> QED  BY <1>3, <1>4

\* A slice adds what it is converted to, up to the loop.
LEMMA PassShifts ==
    ASSUME TypeOK, measured \in Nat, NEW g, Gain(g) \in Nat, Pass(g)
    PROVE  \E q \in Int : measured' = measured + Gain(g) - q * Period
<1>1. Period \in Nat /\ (LoopEnabled => Period \in Nat \ {0})
  BY PeriodType
<1>2. CASE LoopEnabled
  <2> DEFINE q == (measured + Gain(g)) \div Period
  <2>1. measured' = (measured + Gain(g)) % Period
    BY <1>2 DEF Pass, Period, Gain
  <2>2. measured + Gain(g) \in Int /\ Period \in Nat \ {0}
    BY <1>1, <1>2
  <2>3. /\ q \in Int /\ (measured + Gain(g)) % Period \in 0 .. Period - 1
        /\ measured + Gain(g) = Period * q + ((measured + Gain(g)) % Period)
    BY <2>2, DivMod
  <2> HIDE DEF q
  <2>4. Period * q = q * Period /\ q * Period \in Int
    BY <1>1, <2>3
  <2>5. measured' = measured + Gain(g) - q * Period
    BY <1>1, <2>1, <2>3, <2>4
  <2> QED  BY <2>3, <2>5
<1>3. CASE ~LoopEnabled
  <2>1. measured' = measured + Gain(g) /\ Period = 0
    BY <1>3 DEF Pass, Period, Gain
  <2>2. measured' = measured + Gain(g) - 0 * Period
    BY <2>1
  <2> QED  BY <2>2
<1> QED  BY <1>2, <1>3

\* The slice goes to the place and the accumulator.
LEMMA OnTimeMoves ==
    ASSUME TypeOK, measured \in Nat, accumulator \in Nat, NEW place \in Nat, OnTime(place),
           NEW g, Gain(g) \in Nat, Pass(g), NEW there \in Nat, accumulator' \in Nat,
           there * Fraction + accumulator' = place * Fraction + accumulator + Gain(g)
    PROVE  \E k \in Int : measured' - (there * Fraction + accumulator') = k * Period
<1>1. PICK k \in Int : measured - (place * Fraction + accumulator) = k * Period
  BY DEF OnTime
<1>2. PICK q \in Int : measured' = measured + Gain(g) - q * Period
  BY PassShifts
<1>3. Period \in Int /\ Fraction \in Int
  BY PeriodType, ClockAssumption
<1>4. (k - q) * Period = k * Period - q * Period /\ k - q \in Int
  BY <1>3
<1>5. k * Period \in Int /\ q * Period \in Int /\ place * Fraction \in Int /\ there * Fraction \in Int
  BY <1>3
<1>6. measured' - (there * Fraction + accumulator') = (k - q) * Period
  BY <1>1, <1>2, <1>4, <1>5
<1> QED  BY <1>4, <1>6

\* The same time and place, up to passes of the loop.
LEMMA OnTimeTurns ==
    ASSUME TypeOK, measured \in Nat, accumulator \in Nat, NEW place \in Nat, OnTime(place),
           NEW there \in Nat, NEW m \in Int, place = there + m * LoopLength, LoopEnabled
    PROVE  OnTime(there)
<1>1. PICK k \in Int : measured - (place * Fraction + accumulator) = k * Period
  BY DEF OnTime
<1>2. Fraction \in Int /\ LoopLength \in Int /\ Period = LoopLength * Fraction /\ Period \in Int
  BY ClockAssumption, PeriodType DEF Period, LoopLength, TypeOK
<1>3. place * Fraction = there * Fraction + m * (LoopLength * Fraction)
  BY <1>2
<1>4. place * Fraction = there * Fraction + m * Period
  BY <1>2, <1>3
<1>5. (k + m) * Period = k * Period + m * Period /\ k + m \in Int
  BY <1>2
<1>6. /\ k * Period \in Int /\ m * Period \in Int
      /\ place * Fraction \in Int /\ there * Fraction \in Int
  BY <1>2
<1>7. measured - (there * Fraction + accumulator) = (k + m) * Period
  BY <1>1, <1>4, <1>5, <1>6
<1> QED  BY <1>5, <1>7 DEF OnTime

\* A step that leaves what was measured, the loop and the place alone.
LEMMA OnTimeStays ==
    ASSUME NEW place, OnTime(place), NEW there, there = place,
           UNCHANGED <<measured, accumulator, loopStart, loopEnd>>
    PROVE  \E k \in Int : measured' - (there * Fraction + accumulator') = k * Period'
BY DEF OnTime, Period, LoopEnabled, LoopLength

LEMMA TimeMain ==
    PlayerTypeOK /\ AloneInv /\ TimeInv /\ (MainStep \/ Interrupt \/ Finished \/ UNCHANGED allVars)
        => TimeInv'
<1> SUFFICES ASSUME PlayerTypeOK, AloneInv, TimeInv,
                    MainStep \/ Interrupt \/ Finished \/ UNCHANGED allVars
             PROVE  TimeInv'
  OBVIOUS
<1> USE DEF transportVars, setupVars, frameVars, timeVars
<1>1. pos \in Int /\ delta \in Int /\ measured \in Int /\ accumulator \in Int
  BY DEF PlayerTypeOK, TypeOK
<1>2. CASE (\E f \in Files : Setup(f)) \/ (\E emit \in BOOLEAN : ChooseClock(emit)) \/ StartPlaying
  <2>1. /\ mainPc \in {"setup", "clock", "play"} /\ mainPc' \in {"clock", "play", "start"}
        /\ mainPc' = "start" => tState' = "Playing"
        /\ UNCHANGED <<pos, measured, accumulator, thread>>
    BY <1>2 DEF Setup, ChooseClock, StartPlaying, At, SetProject, BetweenCalls,
                SetClockEnabled, Play, TransportWrite
  <2>2. thread' = "none" /\ pos' = 0 /\ measured' = 0 /\ accumulator' = 0
    BY <2>1 DEF AloneInv, TimeInv
  <2> QED  BY <2>1, <2>2 DEF TimeInv
<1>3. CASE StartClock
  <2>1. /\ mainPc = "start" /\ mainPc' = "wait" /\ thread' = "test"
        /\ UNCHANGED <<tState, pos, measured, accumulator, loopStart, loopEnd>>
    BY <1>3 DEF StartClock, At, vars
  <2>2. tState' = "Playing" /\ pos' = 0 /\ measured' = 0 /\ accumulator' = 0
    BY <2>1 DEF TimeInv
  <2>3. Fraction \in Int /\ Period' \in Int
    <3>1. Period' = Period
      BY <2>1 DEF Period, LoopEnabled, LoopLength
    <3> QED  BY <3>1, ClockAssumption, PeriodType DEF PlayerTypeOK
  <2>4. measured' - (pos' * Fraction + accumulator') = 0 * Period'
    <3> DEFINE p == Period'
    <3>1. \A x \in Int : 0 * x = 0
      OBVIOUS
    <3>2. 0 * Fraction = 0 /\ 0 * p = 0
      <4>1. p \in Int
        BY <2>3
      <4> HIDE DEF p
      <4> QED  BY <2>3, <3>1, <4>1
    <3> QED  BY <2>2, <3>2
  <2>5. OnTime(pos)'
    BY <2>4 DEF OnTime
  <2> QED  BY <2>1, <2>2, <2>5 DEF TimeInv
<1>4. CASE \/ StopClock \/ JoinClock \/ StopTransport \/ ReleaseHeld
           \/ Interrupt \/ Finished \/ UNCHANGED allVars
  <2>1. /\ UNCHANGED <<thread, delta, cur, from, pc, measured, accumulator, loopStart, loopEnd>>
        /\ mainPc' \in {"wait", "join", "stop", "rewind"} =>
              \/ mainPc = mainPc'
              \/ mainPc \in {"wait", "join", "stop"}
        /\ mainPc' # "release" /\ mainPc' # "closed" => pos' = pos
        /\ mainPc' \in {"start", "wait", "join"} =>
              tState' = tState /\ mainPc \in {"start", "wait", "join"}
        /\ mainPc' \in {"setup", "clock", "play", "start"} => mainPc = mainPc'
        /\ mainPc' \in {"release", "closed"} => mainPc \in {"rewind", "release", "closed"}
    BY <1>4 DEF StopClock, JoinClock, StopTransport, ReleaseHeld, Interrupt, Finished, At,
                StopState, StopPosition, TransportWrite, AllNotesOff, BetweenCalls,
                allVars, playerVars, vars
  <2>2. thread = "called" => pos' = pos
    BY <2>1 DEF AloneInv, PlayerTypeOK
  <2>3. mainPc' \in {"wait", "join", "stop", "rewind"} =>
          OnTime(IF thread = "called" THEN pos + delta ELSE pos)'
    <3> HAVE mainPc' \in {"wait", "join", "stop", "rewind"}
    <3> DEFINE here == IF thread = "called" THEN pos + delta ELSE pos
               there == IF thread' = "called" THEN pos' + delta' ELSE pos'
    <3>1. OnTime(here)
      BY <2>1 DEF TimeInv
    <3>2. there = here
      BY <2>1
    <3> HIDE DEF here, there
    <3>3. \E k \in Int : measured' - (there * Fraction + accumulator') = k * Period'
      BY <2>1, <3>1, <3>2, OnTimeStays
    <3> QED  BY <3>3 DEF OnTime, there
  <2> QED  BY <2>1, <2>2, <2>3 DEF TimeInv
<1> QED  BY <1>2, <1>3, <1>4 DEF MainStep

LEMMA TimeThread ==
    PlayerTypeOK /\ AloneInv /\ HeardInv /\ TimeInv /\ ThreadStep => TimeInv'
<1> SUFFICES ASSUME PlayerTypeOK, AloneInv, HeardInv, TimeInv, ThreadStep PROVE TimeInv'
  OBVIOUS
<1> USE DEF transportVars, setupVars, frameVars, timeVars
<1>1. /\ TypeOK /\ pos \in Nat /\ delta \in Nat /\ measured \in Nat /\ accumulator \in Nat
      /\ from \in Nat /\ rem \in Nat /\ loopStart \in Nat /\ loopEnd \in Nat
      /\ Fraction \in Nat \ {0} /\ Gains \subseteq Nat
  BY ClockAssumption DEF PlayerTypeOK, TypeOK
<1>2. mainPc' = mainPc
  BY DEF ThreadStep, ThreadTests, ThreadSkips, ThreadCalls, ThreadAdvances
<1>3. mainPc \notin {"setup", "clock", "play", "start"}
  BY DEF ThreadStep, ThreadTests, ThreadSkips, ThreadCalls, ThreadAdvances, AloneInv
<1>4. CASE ThreadTests
  <2>1. /\ thread = "test" /\ thread' # "called"
        /\ UNCHANGED <<tState, pos, measured, accumulator, loopStart, loopEnd>>
    BY <1>4 DEF ThreadTests, vars
  <2>2. mainPc \in {"wait", "join", "stop", "rewind"} => OnTime(pos)'
    <3> HAVE mainPc \in {"wait", "join", "stop", "rewind"}
    <3>1. OnTime(pos)
      BY <2>1 DEF TimeInv
    <3> QED  BY <2>1, <3>1 DEF OnTime, Period, LoopEnabled, LoopLength
  <2> QED  BY <1>2, <1>3, <2>1, <2>2 DEF TimeInv
<1>5. CASE ThreadSkips
  <2>1. PICK g \in Gains : accumulator' = Sum(accumulator, g) /\ Pass(g)
    BY <1>5 DEF ThreadSkips
  <2>2. /\ thread = "slice" /\ thread' = "test"
        /\ UNCHANGED <<tState, pos, loopStart, loopEnd>>
    BY <1>5 DEF ThreadSkips, vars
  <2>3. mainPc \in {"wait", "join", "stop", "rewind"} => OnTime(pos)'
    <3> HAVE mainPc \in {"wait", "join", "stop", "rewind"}
    <3>1. OnTime(pos)
      BY <2>2 DEF TimeInv
    <3>2. /\ Gain(g) \in Nat /\ accumulator' \in Nat
          /\ accumulator' = accumulator + Gain(g)
      BY <2>1, GainType DEF PlayerTypeOK
    <3> HIDE DEF Gain
    <3>3. pos * Fraction + accumulator' = pos * Fraction + accumulator + Gain(g)
      <4>1. pos * Fraction \in Int
        BY <1>1
      <4> QED  BY <1>1, <3>2, <4>1
    <3>4. \E k \in Int : measured' - (pos * Fraction + accumulator') = k * Period
      BY <1>1, <2>1, <3>1, <3>2, <3>3, OnTimeMoves
    <3> QED  BY <2>2, <3>4 DEF OnTime, Period, LoopEnabled, LoopLength
  <2> QED  BY <1>2, <1>3, <2>2, <2>3 DEF TimeInv
<1>6. CASE ThreadCalls
  <2>1. PICK g \in Gains : /\ delta' = Sum(accumulator, g) \div Fraction
                           /\ accumulator' = Sum(accumulator, g) % Fraction /\ Pass(g)
    BY <1>6 DEF ThreadCalls
  <2>2. /\ thread = "slice" /\ thread' = "called" /\ pc' = "position" /\ cur' = tState
        /\ UNCHANGED <<tState, pos, loopStart, loopEnd>>
    BY <1>6 DEF ThreadCalls, AdvanceCall, AdvanceBegin
  <2>3. mainPc \in {"wait", "join"}
    BY <1>3, <2>2 DEF AloneInv, PlayerTypeOK
  <2>4. OnTime(pos)
    BY <2>2, <2>3 DEF TimeInv
  <2> DEFINE n == Sum(accumulator, g)
  <2>5. n \in Nat /\ Gain(g) \in Nat /\ n = accumulator + Gain(g)
    BY GainType DEF PlayerTypeOK
  <2>6. delta' = n \div Fraction /\ accumulator' = n % Fraction
    BY <2>1
  <2> HIDE DEF n
  <2>7. /\ n \div Fraction \in Int /\ n % Fraction \in 0 .. Fraction - 1
        /\ n = Fraction * (n \div Fraction) + (n % Fraction)
    <3>1. n \in Int /\ Fraction \in Nat \ {0}
      BY <1>1, <2>5
    <3> QED  BY <3>1, DivMod
  <2>8. delta' \in Nat /\ accumulator' \in Nat /\ pos + delta' \in Nat
    <3>1. n \div Fraction \in Nat
      BY <1>1, <2>5
    <3>2. n % Fraction \in Nat
      BY <1>1, <2>7
    <3> QED  BY <1>1, <2>6, <3>1, <3>2
  <2>9. (pos + delta') * Fraction + accumulator' = pos * Fraction + accumulator + Gain(g)
    <3>1. n = Fraction * delta' + accumulator'
      BY <2>6, <2>7
    <3>2. (pos + delta') * Fraction = pos * Fraction + Fraction * delta'
      BY <1>1, <2>8
    <3>3. pos * Fraction \in Int /\ Fraction * delta' \in Int
      BY <1>1, <2>8
    <3>4. pos * Fraction + accumulator + Gain(g) = pos * Fraction + n
      BY <1>1, <2>5, <3>3
    <3> QED  BY <2>5, <2>8, <3>1, <3>2, <3>3, <3>4
  <2>10. \E k \in Int : measured' - ((pos + delta') * Fraction + accumulator') = k * Period
    <3> DEFINE there == pos + delta'
    <3>1. there \in Nat /\ there * Fraction + accumulator' = pos * Fraction + accumulator + Gain(g)
      BY <2>8, <2>9
    <3> HIDE DEF there
    <3>2. \E k \in Int : measured' - (there * Fraction + accumulator') = k * Period
      BY <1>1, <2>1, <2>4, <2>5, <2>8, <3>1, OnTimeMoves
    <3> QED  BY <3>2 DEF there
  <2>11. OnTime(pos + delta)'
    BY <2>2, <2>10 DEF OnTime, Period, LoopEnabled, LoopLength
  <2> QED  BY <1>2, <1>3, <2>2, <2>3, <2>11 DEF TimeInv
<1>7. CASE ThreadAdvances
  <2>1. /\ thread = "called" /\ AdvanceStep /\ UNCHANGED <<measured, accumulator>>
        /\ thread' = IF pc' = "idle" THEN "test" ELSE "called"
    BY <1>7 DEF ThreadAdvances
  <2>2. mainPc \in {"wait", "join"} /\ tState = "Playing" /\ cur = "Playing"
    BY <1>3, <2>1 DEF AloneInv, PlayerTypeOK, TimeInv
  <2>3. OnTime(pos + delta)
    BY <2>1, <2>2 DEF TimeInv
  <2>4. CASE \/ AdvanceStarts \/ AdvanceContinues \/ PlayStraight \/ PlayToLoopEnd
             \/ ReleaseAtLoopEnd \/ PlayFullPass \/ PlayLastPass
    <3>1. /\ pc' \notin {"idle", "position"}
          /\ pc = "position" => from' = pos
          /\ pc # "position" => from' = from
          /\ UNCHANGED <<tState, pos, delta, cur, loopStart, loopEnd>>
      BY <2>4 DEF AdvanceStarts, AdvanceContinues, AdvanceEdge, PlayStraight, PlayToLoopEnd,
                  ReleaseAtLoopEnd, PlayFullPass, PlayLastPass
    <3>2. OnTime(pos + delta)'
      BY <2>1, <2>3, <3>1 DEF OnTime, Period, LoopEnabled, LoopLength
    <3> QED  BY <1>2, <1>3, <2>1, <2>2, <3>1, <3>2 DEF TimeInv
  <2>5. CASE AdvanceStops \/ AdvanceRests
    BY <2>2, <2>5 DEF AdvanceStops, AdvanceRests
  <2>6. CASE AddDelta \/ SeekIntoLoop
    <3>1. pc' = "idle" /\ UNCHANGED <<tState, loopStart, loopEnd>>
      BY <2>6 DEF AddDelta, SeekIntoLoop, Return
    <3>2. OnTime(pos')
      <4>1. CASE AddDelta
        BY <2>3, <4>1 DEF AddDelta
      <4>2. CASE SeekIntoLoop
        <5>1. pc = "seek" /\ pos' = loopStart + rem
          BY <4>2 DEF SeekIntoLoop
        <5>2. LoopEnabled /\ from = pos
          BY <2>1, <5>1 DEF HeardInv, TimeInv
        <5>3. PICK k \in Nat : from + delta - rem = loopEnd + k * LoopLength
          BY <5>1 DEF HeardInv
        <5>4. LoopLength = loopEnd - loopStart /\ LoopLength \in Int
          BY <1>1 DEF LoopLength
        <5>5. k * LoopLength \in Int /\ (k + 1) * LoopLength = k * LoopLength + LoopLength
          BY <5>4
        <5>6. pos + delta = pos' + (k + 1) * LoopLength
          BY <1>1, <5>1, <5>2, <5>3, <5>4, <5>5
        <5>7. pos + delta \in Nat /\ pos' \in Nat /\ k + 1 \in Int
          BY <1>1, <5>1
        <5> QED  BY <1>1, <2>3, <5>2, <5>6, <5>7, OnTimeTurns
      <4> QED  BY <2>6, <4>1, <4>2
    <3>3. OnTime(pos)'
      BY <2>1, <3>1, <3>2 DEF OnTime, Period, LoopEnabled, LoopLength
    <3> QED  BY <1>2, <1>3, <2>1, <2>2, <3>1, <3>3 DEF TimeInv
  <2> QED  BY <2>1, <2>4, <2>5, <2>6 DEF AdvanceStep
<1> QED  BY <1>4, <1>5, <1>6, <1>7 DEF ThreadStep

\* Whatever the slices, the passes of the loop they cover and the moment of the
\* interrupt, the playhead and the part of a tick left over are what the slices
\* were measured and converted to.
THEOREM PlayerKeepsTicks == PlayerSpec => []MeasuredTicksPlayed
<1>1. PlayerInit => AloneInv /\ TimeInv
  BY DEF PlayerInit, Init, AloneInv, TimeInv
<1>2. PlayerTypeOK /\ AloneInv /\ HeardInv /\ TimeInv /\ [PlayerNext]_allVars => TimeInv'
  BY TimeMain, TimeThread DEF PlayerNext
<1> QED
  BY <1>1, <1>2, AloneStep, TimeImplies, PlayerTypeCorrect, PlayerUsesEngine, HeardCorrect, PTL
     DEF PlayerSpec
=============================================================================
