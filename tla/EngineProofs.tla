---------------------------- MODULE EngineProofs ----------------------------
(***************************************************************************)
(* Machine-checked proofs about module Engine, for every set of projects,  *)
(* ports, slice sizes, loop regions and pulse spacing.                     *)
(***************************************************************************)
EXTENDS Engine, TLAPS, FiniteSetTheorems

\* The ticks of every voice of every project are integers.
LEMMA VoiceTicks == \A v \in Voices : v.on \in Int /\ v.due \in Int
<1> SUFFICES ASSUME NEW v \in Voices PROVE v.on \in Int /\ v.due \in Int
  OBVIOUS
<1>1. PICK prj \in Projects : v \in ScoreOf(prj)
  BY DEF Voices
<1>2. PICK i \in DOMAIN prj.arrangement : v \in PlacementVoices(prj, i)
  BY <1>1 DEF ScoreOf
<1> DEFINE pl == prj.arrangement[i]
           pat == PatternOf(prj, pl.pattern)
<1>3. /\ Resolves(prj, pl)
      /\ \E n \in DOMAIN pat.notes : v = VoiceAt(prj, i, n)
  BY <1>2 DEF PlacementVoices
<1>4. PICK n \in DOMAIN pat.notes : v = VoiceAt(prj, i, n)
  BY <1>3
<1>5. /\ v.on = pl.start + pat.notes[n].start
      /\ v.due = pl.start + pat.notes[n].start + pat.notes[n].length
  BY <1>4 DEF VoiceAt
<1>6. pl.start \in Int /\ pat.notes[n].start \in Int /\ pat.notes[n].length \in Int
  BY <1>3, ProjectsAssumption DEF IsProject
<1> QED  BY <1>5, <1>6

\* The pulses of a slice are finitely many.
LEMMA PulseCount ==
    ASSUME NEW a \in Int, NEW b \in Int
    PROVE  IsFiniteSet(PulseTicks(a, b)) /\ Cardinality(PulseTicks(a, b)) \in Nat
<1>1. FirstPulse(a) \in Int
  BY TicksPerPulseAssumption DEF FirstPulse, CeilDiv
<1>2. IsFiniteSet(FirstPulse(a) .. (b - 1))
  BY <1>1, FS_Interval
<1>3. PulseTicks(a, b) \subseteq FirstPulse(a) .. (b - 1)
  BY DEF PulseTicks
<1>4. IsFiniteSet(PulseTicks(a, b))
  BY <1>2, <1>3, FS_Subset
<1> QED  BY <1>4, FS_CardinalityType
\* Entry counts stay entry counts through a release and through a slice, and
\* the follower's bookkeeping keeps its types.
LEMMA ReleaseTypes ==
    ASSUME TypeOK, ForceReleaseAll
    PROVE  pending' \in [Voices -> Nat] /\ sounding' \in [Ports -> [Voices -> Int]]
<1>1. pending' \in [Voices -> Nat]
  BY DEF ForceReleaseAll, Nothing
<1>2. sounding' \in [Ports -> [Voices -> Int]]
  <2>1. CASE port = NoPort
    BY <2>1 DEF ForceReleaseAll, TypeOK
  <2>2. CASE port # NoPort
    <3>1. port \in Ports
      BY <2>2 DEF TypeOK
    <3>2. [v \in Voices |-> sounding[port][v] - pending[v]] \in [Voices -> Int]
      BY <3>1 DEF TypeOK
    <3> QED  BY <2>2, <3>1, <3>2 DEF ForceReleaseAll, TypeOK
  <2> QED  BY <2>1, <2>2
<1> QED  BY <1>1, <1>2

LEMMA TrackTypes ==
    ASSUME NEW b \in BOOLEAN, NEW c \in Nat, NEW t \in Int, Track(b, c, t)
    PROVE  tracked' \in BOOLEAN /\ pulses' \in Nat /\ song' \in Int
BY DEF Track

LEMMA ResetTypes ==
    ASSUME Track(FALSE, 0, 0) \/ Track(TRUE, 0, 0)
    PROVE  tracked' \in BOOLEAN /\ pulses' \in Nat /\ song' \in Int
<1>1. tracked' = FALSE \/ tracked' = TRUE
  BY Zenon DEF Track
<1>2. tracked' \in BOOLEAN
  BY <1>1, Zenon
<1>3. pulses' = 0 /\ song' = 0
  BY DEF Track
<1> QED  BY <1>2, <1>3

LEMMA RangeTypes ==
    ASSUME TypeOK, NEW a \in Int, NEW b \in Int, ProcessRange(a, b)
    PROVE  /\ pending' \in [Voices -> Nat]
           /\ sounding' \in [Ports -> [Voices -> Int]]
           /\ heard' \in [Voices -> Nat]
           /\ following' \in BOOLEAN /\ tracked' \in BOOLEAN
           /\ pulses' \in Nat /\ song' \in Int
<1>1. CASE port = NoPort
  BY <1>1 DEF ProcessRange, noteVars, clockVars, TypeOK
<1>2. CASE port # NoPort
  <2>0. port \in Ports
    BY <1>2 DEF TypeOK
  <2> DEFINE on(v)  == Count(v \in Started(a, b))
             off(v) == IF v.due < b THEN pending[v] + on(v) ELSE 0
  <2>1. \A v \in Voices : on(v) \in Nat /\ off(v) \in Nat
    BY DEF Count, TypeOK
  <2>2. /\ pending' = [v \in Voices |-> IF v.due < b THEN 0 ELSE pending[v] + on(v)]
        /\ sounding' = [sounding EXCEPT ![port] =
                           [v \in Voices |-> sounding[port][v] + on(v) - off(v)]]
        /\ heard' = [v \in Voices |-> heard[v] + on(v)]
        /\ EmitPulses(a, b)
        /\ UNCHANGED following
    BY <1>2 DEF ProcessRange
  <2> HIDE DEF on, off
  <2>3. pending' \in [Voices -> Nat]
    BY <2>1, <2>2 DEF TypeOK
  <2>4. sounding' \in [Ports -> [Voices -> Int]]
    <3>1. [v \in Voices |-> sounding[port][v] + on(v) - off(v)] \in [Voices -> Int]
      BY <2>0, <2>1 DEF TypeOK
    <3> QED  BY <2>0, <2>2, <3>1 DEF TypeOK
  <2>5. heard' \in [Voices -> Nat]
    <3>1. heard \in [Voices -> Nat]
      BY DEF TypeOK
    <3>2. \A v \in Voices : heard[v] + on(v) \in Nat
      BY <2>1, <3>1
    <3> QED  BY <2>2, <3>2
  <2>6. tracked' \in BOOLEAN /\ pulses' \in Nat /\ song' \in Int
    <3>1. pulses + Cardinality(PulseTicks(a, b)) \in Nat
      <4>1. Cardinality(PulseTicks(a, b)) \in Nat
        BY PulseCount
      <4>2. pulses \in Nat
        BY DEF TypeOK
      <4> QED  BY <4>1, <4>2
    <3>2. (tracked /\ (clockOn \/ b <= a)) \in BOOLEAN
      OBVIOUS
    <3>3. song + (b - a) \in Int
      BY DEF TypeOK
    <3> QED  BY <2>2, <3>1, <3>2, <3>3, TrackTypes DEF EmitPulses
  <2> QED  BY <2>2, <2>3, <2>4, <2>5, <2>6 DEF TypeOK
<1> QED  BY <1>1, <1>2
-----------------------------------------------------------------------------
(* Type correctness.                                                       *)

LEMMA TypeInit == Init => TypeOK
<1> SUFFICES ASSUME Init PROVE TypeOK
  OBVIOUS
<1>1. Nothing \in [Voices -> Nat] /\ Nothing \in [Voices -> Int]
  BY DEF Nothing
<1>2. sounding \in [Ports -> [Voices -> Int]]
  BY <1>1 DEF Init
<1>3. /\ rewinding \in BOOLEAN /\ clockOn \in BOOLEAN /\ following \in BOOLEAN
      /\ tracked \in BOOLEAN /\ cleanSwaps \in BOOLEAN
  BY Zenon DEF Init
<1>4. /\ tState \in States /\ prevState \in States /\ cur \in States /\ pc \in PCs
      /\ port \in Ports \cup {NoPort} /\ project \in Projects \cup {NoProject}
  BY DEF Init, States, PCs
<1>5. /\ pos \in Nat /\ loopStart \in Nat /\ loopEnd \in Nat /\ lastKnown \in Nat
      /\ delta \in Nat /\ from \in Nat /\ rem \in Nat /\ pulses \in Nat /\ song \in Int
  BY DEF Init
<1>6. pending \in [Voices -> Nat] /\ heard \in [Voices -> Nat]
  BY <1>1 DEF Init
<1> QED  BY <1>2, <1>3, <1>4, <1>5, <1>6 DEF TypeOK

LEMMA TypeAdvance == TypeOK /\ AdvanceStep => TypeOK'
<1> SUFFICES ASSUME TypeOK, AdvanceStep PROVE TypeOK'
  OBVIOUS
<1> USE DEF transportVars, setupVars, frameVars
<1>1. CASE AdvanceStarts
  <2>1. following' \in BOOLEAN /\ tracked' \in BOOLEAN /\ pulses' \in Nat /\ song' \in Int
    <3>1. CASE ~(clockOn /\ port # NoPort)
      <4>1. following' = following /\ Track(FALSE, 0, 0)
        BY <1>1, <3>1 DEF AdvanceStarts
      <4> QED  BY <4>1, ResetTypes DEF TypeOK
    <3>2. CASE clockOn /\ port # NoPort /\ PlayMessage(pos) = "start"
      <4>1. following' = TRUE /\ Track(TRUE, 0, 0)
        BY <1>1, <3>2 DEF AdvanceStarts
      <4>2. following' \in BOOLEAN
        BY <4>1, Zenon
      <4> QED  BY <4>1, <4>2, ResetTypes
    <3>3. CASE clockOn /\ port # NoPort /\ PlayMessage(pos) # "start"
      <4>1. following' = TRUE /\ Track(tracked /\ pos = lastKnown, pulses, song)
        BY <1>1, <3>3 DEF AdvanceStarts
      <4>2. following' \in BOOLEAN
        BY <4>1, Zenon
      <4> QED  BY <4>1, <4>2, TrackTypes DEF TypeOK
    <3> QED  BY <3>1, <3>2, <3>3
  <2> QED  BY <1>1, <2>1 DEF AdvanceStarts, AdvanceEdge, TypeOK, PCs, States
<1>2. CASE AdvanceStops
  <2>1. following' \in BOOLEAN /\ tracked' \in BOOLEAN /\ pulses' \in Nat /\ song' \in Int
    <3>1. CASE clockOn /\ port # NoPort
      <4>1. following' = FALSE /\ UNCHANGED <<tracked, pulses, song>>
        BY <1>2, <3>1 DEF AdvanceStops
      <4>2. following' \in BOOLEAN
        BY <4>1, Zenon
      <4> QED  BY <4>1, <4>2 DEF TypeOK
    <3>2. CASE ~(clockOn /\ port # NoPort)
      <4>1. following' = following /\ Track(FALSE, 0, 0)
        BY <1>2, <3>2 DEF AdvanceStops
      <4> QED  BY <4>1, ResetTypes DEF TypeOK
    <3> QED  BY <3>1, <3>2
  <2>2. pending' \in [Voices -> Nat] /\ sounding' \in [Ports -> [Voices -> Int]]
    BY <1>2, ReleaseTypes DEF AdvanceStops
  <2> QED  BY <1>2, <2>1, <2>2 DEF AdvanceStops, AdvanceEdge, TypeOK, PCs, States
<1>3. CASE AdvanceContinues
  <2>1. tracked' \in BOOLEAN /\ pulses' \in Nat /\ song' \in Int
    BY <1>3, TrackTypes DEF AdvanceContinues, TypeOK
  <2> QED  BY <1>3, <2>1 DEF AdvanceContinues, AdvanceEdge, TypeOK, PCs, States
<1>4. CASE AdvanceRests
  BY <1>4 DEF AdvanceRests, AdvanceEdge, clockVars, TypeOK, PCs, States
<1>5. CASE PlayStraight
  <2>1. from \in Int /\ from + delta \in Int /\ ProcessRange(from, from + delta)
    BY <1>5 DEF PlayStraight, TypeOK
  <2>2. /\ pending' \in [Voices -> Nat] /\ sounding' \in [Ports -> [Voices -> Int]]
        /\ heard' \in [Voices -> Nat] /\ following' \in BOOLEAN
        /\ tracked' \in BOOLEAN /\ pulses' \in Nat /\ song' \in Int
    BY <2>1, RangeTypes
  <2> QED  BY <1>5, <2>2 DEF PlayStraight, TypeOK, PCs
<1>6. CASE PlayToLoopEnd
  <2>1. from \in Int /\ loopEnd \in Int /\ ProcessRange(from, loopEnd)
    BY <1>6 DEF PlayToLoopEnd, TypeOK
  <2>2. /\ pending' \in [Voices -> Nat] /\ sounding' \in [Ports -> [Voices -> Int]]
        /\ heard' \in [Voices -> Nat] /\ following' \in BOOLEAN
        /\ tracked' \in BOOLEAN /\ pulses' \in Nat /\ song' \in Int
    BY <2>1, RangeTypes
  <2>3. rem' \in Nat
    BY <1>6 DEF PlayToLoopEnd, Wraps, TypeOK
  <2> QED  BY <1>6, <2>2, <2>3 DEF PlayToLoopEnd, TypeOK, PCs
<1>7. CASE ReleaseAtLoopEnd
  <2>1. pending' \in [Voices -> Nat] /\ sounding' \in [Ports -> [Voices -> Int]]
    BY <1>7, ReleaseTypes DEF ReleaseAtLoopEnd
  <2>2. tracked' \in BOOLEAN /\ pulses' \in Nat /\ song' \in Int
    BY <1>7, TrackTypes DEF ReleaseAtLoopEnd, TypeOK
  <2> QED  BY <1>7, <2>1, <2>2 DEF ReleaseAtLoopEnd, TypeOK, PCs
<1>8. CASE PlayFullPass
  <2>1. loopStart \in Int /\ loopEnd \in Int /\ ProcessRange(loopStart, loopEnd)
    BY <1>8 DEF PlayFullPass, TypeOK
  <2>2. /\ pending' \in [Voices -> Nat] /\ sounding' \in [Ports -> [Voices -> Int]]
        /\ heard' \in [Voices -> Nat] /\ following' \in BOOLEAN
        /\ tracked' \in BOOLEAN /\ pulses' \in Nat /\ song' \in Int
    BY <2>1, RangeTypes
  <2>3. rem' \in Nat
    BY <1>8 DEF PlayFullPass, LoopLength, TypeOK
  <2> QED  BY <1>8, <2>2, <2>3 DEF PlayFullPass, TypeOK, PCs
<1>9. CASE PlayLastPass
  <2>1. /\ loopStart \in Int /\ loopStart + rem \in Int
        /\ ProcessRange(loopStart, loopStart + rem)
    BY <1>9 DEF PlayLastPass, TypeOK
  <2>2. /\ pending' \in [Voices -> Nat] /\ sounding' \in [Ports -> [Voices -> Int]]
        /\ heard' \in [Voices -> Nat] /\ following' \in BOOLEAN
        /\ tracked' \in BOOLEAN /\ pulses' \in Nat /\ song' \in Int
    BY <2>1, RangeTypes
  <2> QED  BY <1>9, <2>2 DEF PlayLastPass, TypeOK, PCs
<1>10. CASE AddDelta
  BY <1>10 DEF AddDelta, Return, clockVars, Nothing, TypeOK, PCs, States
<1>11. CASE SeekIntoLoop
  BY <1>11 DEF SeekIntoLoop, Return, clockVars, Nothing, TypeOK, PCs, States
<1> QED
  BY <1>1, <1>2, <1>3, <1>4, <1>5, <1>6, <1>7, <1>8, <1>9, <1>10, <1>11
  DEF AdvanceStep

LEMMA TypeUI == TypeOK /\ UIStep => TypeOK'
<1> SUFFICES ASSUME TypeOK, UIStep PROVE TypeOK'
  OBVIOUS
<1> USE DEF transportVars, setupVars, noteVars, frameVars, clockVars
<1>1. CASE Play \/ Pause \/ StopState \/ StopPosition
  <2>1. tState' \in States /\ pos' \in Nat
    BY <1>1 DEF Play, Pause, StopState, StopPosition, TypeOK, States
  <2>2. rewinding' \in BOOLEAN
    BY <1>1, Zenon DEF Play, Pause, StopState, StopPosition, TypeOK
  <2>3. TransportWrite
    BY <1>1 DEF Play, Pause, StopState, StopPosition
  <2> QED  BY <2>1, <2>2, <2>3 DEF TransportWrite, TypeOK
<1>2. CASE \E t \in SeekTargets : Seek(t)
  BY <1>2, TicksAssumption DEF Seek, TransportWrite, TypeOK
<1>3. CASE \E b \in BOOLEAN : SetClockEnabled(b)
  BY <1>3 DEF SetClockEnabled, TypeOK
<1>4. ASSUME NEW prj \in Projects, SetProject(prj) PROVE TypeOK'
  <2>1. pending' \in [Voices -> Nat] /\ sounding' \in [Ports -> [Voices -> Int]]
    BY <1>4, ReleaseTypes DEF SetProject
  <2>2. prj.loop.start \in Nat /\ prj.loop.end \in Nat
    BY ProjectsAssumption DEF IsProject
  <2> QED  BY <1>4, <2>1, <2>2 DEF SetProject, BetweenCalls, TypeOK
<1>5. CASE ClearProject
  <2>1. pending' \in [Voices -> Nat] /\ sounding' \in [Ports -> [Voices -> Int]]
    BY <1>5, ReleaseTypes DEF ClearProject
  <2> QED  BY <1>5, <2>1 DEF ClearProject, BetweenCalls, TypeOK
<1>6. ASSUME NEW region \in LoopChoices, SetLoop(region) PROVE TypeOK'
  <2>1. region.start \in Nat /\ region.end \in Nat
    BY TicksAssumption
  <2> QED  BY <1>6, <2>1 DEF SetLoop, BetweenCalls, TypeOK
<1>7. ASSUME NEW p \in Ports \cup {NoPort}, SetPort(p) PROVE TypeOK'
  <2>1. /\ following' \in BOOLEAN /\ tracked' \in BOOLEAN
        /\ pulses' \in Nat /\ song' \in Int
    <3>1. CASE p = port
      BY <1>7, <3>1 DEF SetPort, TypeOK
    <3>2. CASE p # port
      <4>1. following' = FALSE /\ Track(FALSE, 0, 0)
        BY <1>7, <3>2 DEF SetPort
      <4>2. following' \in BOOLEAN
        BY <4>1, Zenon
      <4> QED  BY <4>1, <4>2, ResetTypes
    <3> QED  BY <3>1, <3>2
  <2> QED  BY <1>7, <2>1 DEF SetPort, BetweenCalls, TypeOK
<1>8. CASE AllNotesOff
  <2>1. pending' \in [Voices -> Nat] /\ sounding' \in [Ports -> [Voices -> Int]]
    BY <1>8, ReleaseTypes DEF AllNotesOff
  <2> QED  BY <1>8, <2>1 DEF AllNotesOff, BetweenCalls, TypeOK
<1> QED
  BY <1>1, <1>2, <1>3, <1>4, <1>5, <1>6, <1>7, <1>8 DEF UIStep

LEMMA TypeStep == TypeOK /\ [Next]_vars => TypeOK'
<1> SUFFICES ASSUME TypeOK, [Next]_vars PROVE TypeOK'
  OBVIOUS
<1>1. ASSUME NEW d \in Deltas, AdvanceBegin(d) PROVE TypeOK'
  BY <1>1, DeltasAssumption
  DEF AdvanceBegin, transportVars, setupVars, noteVars, clockVars, TypeOK, PCs
<1>2. CASE UNCHANGED vars
  BY <1>2 DEF vars, transportVars, setupVars, noteVars, frameVars, clockVars, TypeOK
<1> QED  BY <1>1, <1>2, TypeAdvance, TypeUI DEF Next, AdvanceCall

\* In every behaviour of the engine every variable keeps to its type.
THEOREM TypeCorrect == Spec => []TypeOK
BY TypeInit, TypeStep, PTL DEF Spec
-----------------------------------------------------------------------------
(* No stuck notes.  With TypeOK the property is inductive: a release and a *)
(* slice change `pending` and the sounding notes of the port alike.        *)

LEMMA ReleaseBalanced ==
    ASSUME TypeOK, NoStuckNotes, ForceReleaseAll, UNCHANGED <<port, cleanSwaps>>
    PROVE  NoStuckNotes'
<1> SUFFICES ASSUME cleanSwaps, NEW p \in Ports
             PROVE  sounding'[p] = IF p = port THEN pending' ELSE Nothing
  BY DEF NoStuckNotes, Nothing
<1>1. sounding[p] = IF p = port THEN pending ELSE Nothing
  BY DEF NoStuckNotes
<1>2. CASE port = NoPort
  BY <1>1, <1>2, NoneAssumption DEF ForceReleaseAll
<1>3. CASE port # NoPort /\ p # port
  BY <1>1, <1>3 DEF ForceReleaseAll, TypeOK
<1>4. CASE port # NoPort /\ p = port
  <2>1. sounding'[p] = [v \in Voices |-> sounding[port][v] - pending[v]]
    BY <1>4 DEF ForceReleaseAll, TypeOK
  <2>2. \A v \in Voices : sounding[port][v] - pending[v] = 0
    BY <1>1, <1>4 DEF TypeOK
  <2> QED  BY <1>4, <2>1, <2>2 DEF ForceReleaseAll, Nothing
<1> QED  BY <1>2, <1>3, <1>4

LEMMA RangeBalanced ==
    ASSUME TypeOK, NoStuckNotes, NEW a \in Int, NEW b \in Int,
           ProcessRange(a, b), UNCHANGED <<port, cleanSwaps>>
    PROVE  NoStuckNotes'
<1> SUFFICES ASSUME cleanSwaps, NEW p \in Ports
             PROVE  sounding'[p] = IF p = port THEN pending' ELSE Nothing
  BY DEF NoStuckNotes, Nothing
<1>1. sounding[p] = IF p = port THEN pending ELSE Nothing
  BY DEF NoStuckNotes
<1>2. CASE port = NoPort
  BY <1>1, <1>2, NoneAssumption DEF ProcessRange, noteVars
<1>3. CASE port # NoPort
  <2> DEFINE on(v)  == Count(v \in Started(a, b))
             off(v) == IF v.due < b THEN pending[v] + on(v) ELSE 0
  <2>1. /\ pending' = [v \in Voices |-> IF v.due < b THEN 0 ELSE pending[v] + on(v)]
        /\ sounding' = [sounding EXCEPT ![port] =
                           [v \in Voices |-> sounding[port][v] + on(v) - off(v)]]
    BY <1>3 DEF ProcessRange
  <2>2. CASE p # port
    BY <1>1, <2>1, <2>2 DEF TypeOK
  <2>3. CASE p = port
    <3>1. sounding'[p] = [v \in Voices |-> sounding[port][v] + on(v) - off(v)]
      BY <2>1, <2>3 DEF TypeOK
    <3>2. ASSUME NEW v \in Voices
          PROVE  sounding[port][v] + on(v) - off(v)
                     = IF v.due < b THEN 0 ELSE pending[v] + on(v)
      <4>1. pending[v] \in Nat /\ on(v) \in Nat /\ sounding[port][v] = pending[v]
        BY <1>1, <2>3 DEF Count, TypeOK
      <4> HIDE DEF on
      <4> QED  BY <4>1
    <3> HIDE DEF on, off
    <3> QED  BY <2>1, <2>3, <3>1, <3>2
  <2> QED  BY <2>2, <2>3
<1> QED  BY <1>2, <1>3

LEMMA NoStuckStep == TypeOK /\ NoStuckNotes /\ [Next]_vars => NoStuckNotes'
<1> SUFFICES ASSUME TypeOK, NoStuckNotes, [Next]_vars PROVE NoStuckNotes'
  OBVIOUS
<1>1. CASE UNCHANGED <<pending, sounding, port, cleanSwaps>>
  BY <1>1 DEF NoStuckNotes, Nothing
<1>2. CASE ForceReleaseAll /\ UNCHANGED <<port, cleanSwaps>>
  BY <1>2, ReleaseBalanced
<1>3. ASSUME NEW a \in Int, NEW b \in Int,
             ProcessRange(a, b), UNCHANGED <<port, cleanSwaps>>
      PROVE  NoStuckNotes'
  BY <1>3, RangeBalanced
<1>4. ASSUME NEW p \in Ports \cup {NoPort}, SetPort(p)
      PROVE  NoStuckNotes'
  <2>1. /\ port' = p /\ UNCHANGED <<pending, sounding>>
        /\ cleanSwaps' => cleanSwaps /\ (p = port \/ pending = Nothing)
    BY <1>4 DEF SetPort
  <2> QED  BY <2>1 DEF NoStuckNotes, Nothing
<1>5. CASE AdvanceCall
  BY <1>1, <1>5 DEF AdvanceCall, AdvanceBegin, noteVars, setupVars
<1>6. CASE AdvanceStep
  <2>1. CASE AdvanceStarts \/ AdvanceContinues \/ AdvanceRests
    BY <1>1, <2>1 DEF AdvanceStarts, AdvanceContinues, AdvanceRests, AdvanceEdge, setupVars
  <2>2. CASE AdvanceStops
    BY <1>2, <2>2 DEF AdvanceStops, AdvanceEdge, setupVars
  <2>3. CASE PlayStraight
    <3>1. from \in Int /\ from + delta \in Int
      BY DEF TypeOK
    <3> QED  BY <1>3, <2>3, <3>1 DEF PlayStraight, setupVars
  <2>4. CASE PlayToLoopEnd
    BY <1>3, <2>4 DEF PlayToLoopEnd, setupVars, TypeOK
  <2>5. CASE ReleaseAtLoopEnd
    BY <1>2, <2>5 DEF ReleaseAtLoopEnd, setupVars
  <2>6. CASE PlayFullPass
    BY <1>3, <2>6 DEF PlayFullPass, setupVars, TypeOK
  <2>7. CASE PlayLastPass
    <3>1. loopStart \in Int /\ loopStart + rem \in Int
      BY DEF TypeOK
    <3> QED  BY <1>3, <2>7, <3>1 DEF PlayLastPass, setupVars
  <2>8. CASE AddDelta \/ SeekIntoLoop
    BY <1>1, <2>8 DEF AddDelta, SeekIntoLoop, Return, setupVars
  <2> QED  BY <1>6, <2>1, <2>2, <2>3, <2>4, <2>5, <2>6, <2>7, <2>8 DEF AdvanceStep
<1>7. CASE UIStep
  <2>1. CASE \/ Play \/ Pause \/ StopState \/ StopPosition
             \/ \E t \in SeekTargets : Seek(t)
    BY <1>1, <2>1 DEF Play, Pause, StopState, StopPosition, Seek, TransportWrite,
                      noteVars, setupVars
  <2>2. CASE \E b \in BOOLEAN : SetClockEnabled(b)
    BY <1>1, <2>2 DEF SetClockEnabled, noteVars
  <2>3. CASE (\E prj \in Projects : SetProject(prj)) \/ ClearProject \/ AllNotesOff
    BY <1>2, <2>3 DEF SetProject, ClearProject, AllNotesOff
  <2>4. CASE \E region \in LoopChoices : SetLoop(region)
    BY <1>1, <2>4 DEF SetLoop
  <2> QED  BY <1>4, <1>7, <2>1, <2>2, <2>3, <2>4 DEF UIStep
<1>8. CASE UNCHANGED vars
  BY <1>1, <1>8 DEF vars, noteVars, setupVars
<1> QED  BY <1>5, <1>6, <1>7, <1>8 DEF Next

\* As long as no port is swapped under held notes, the device on the engine's
\* port sounds exactly the notes the engine still owes a note_off.
THEOREM NotesNeverStuck == Spec => []NoStuckNotes
<1>1. Init => NoStuckNotes
  BY DEF Init, NoStuckNotes
<1>2. QED  BY <1>1, NoStuckStep, TypeCorrect, PTL DEF Spec
-----------------------------------------------------------------------------
(* Nothing overdue.  The property speaks of the moments between two calls; *)
(* the invariant says what holds inside one: after the last range of a     *)
(* slice, what is still owed is due at or after the position about to be   *)
(* stored.                                                                 *)

DueFrom(t) == \A v \in Voices : pending[v] > 0 => v.due >= t

OwedInv ==
    cleanSwaps =>
        /\ port = NoPort \/ prevState # "Playing" => pending = Nothing
        /\ pc \notin {"idle", "position"} => prevState = "Playing"
        /\ pc = "idle" => DueFrom(lastKnown)
        /\ pc = "add" => DueFrom(from + delta)
        /\ pc = "seek" => DueFrom(loopStart + rem)

LEMMA OwedImplies == TypeOK /\ OwedInv => NothingOverdue
<1> SUFFICES ASSUME TypeOK, OwedInv, cleanSwaps, pc = "idle",
                    NEW v \in Voices, pending[v] > 0
             PROVE  prevState = "Playing" /\ v.due >= lastKnown
  BY DEF NothingOverdue
<1>1. pending # Nothing
  BY DEF Nothing
<1> QED  BY <1>1 DEF OwedInv, DueFrom

\* A release leaves nothing that could be overdue.
LEMMA ReleaseOwed ==
    ASSUME ForceReleaseAll, NEW t \in Int
    PROVE  pending' = Nothing /\ DueFrom(t)'
BY DEF ForceReleaseAll, DueFrom, Nothing

\* A slice that ends at b leaves only what is due at b or later.
LEMMA RangeOwed ==
    ASSUME TypeOK, NEW a \in Int, NEW b \in Int, ProcessRange(a, b),
           port = NoPort => pending = Nothing
    PROVE  /\ port = NoPort => pending' = Nothing
           /\ \A v \in Voices : pending'[v] > 0 => v.due >= b
<1>1. CASE port = NoPort
  BY <1>1 DEF ProcessRange, noteVars, Nothing
<1>2. CASE port # NoPort
  <2>1. \A v \in Voices : v.due < b => pending'[v] = 0
    BY <1>2 DEF ProcessRange
  <2> QED  BY <1>2, <2>1, VoiceTicks
<1> QED  BY <1>1, <1>2

LEMMA OwedAdvance == TypeOK /\ OwedInv /\ AdvanceStep => OwedInv'
<1> SUFFICES ASSUME TypeOK, OwedInv, AdvanceStep, cleanSwaps' PROVE OwedInv'
  BY DEF OwedInv
<1> USE DEF transportVars, setupVars
<1>0. cleanSwaps /\ UNCHANGED <<port, cleanSwaps, loopStart, loopEnd>>
  BY DEF AdvanceStep, AdvanceStarts, AdvanceStops, AdvanceContinues, AdvanceRests,
         AdvanceEdge, PlayStraight, PlayToLoopEnd, ReleaseAtLoopEnd, PlayFullPass,
         PlayLastPass, AddDelta, SeekIntoLoop, Return
<1>1. CASE AdvanceStarts \/ AdvanceContinues
  BY <1>0, <1>1 DEF AdvanceStarts, AdvanceContinues, AdvanceEdge, OwedInv, Nothing
<1>2. CASE AdvanceStops
  <2>1. lastKnown \in Int
    BY DEF TypeOK
  <2> QED  BY <1>0, <1>2, <2>1, ReleaseOwed
           DEF AdvanceStops, AdvanceEdge, OwedInv, DueFrom, Nothing
<1>3. CASE AdvanceRests
  <2>1. pending' = Nothing /\ prevState' # "Playing" /\ pc' = "idle"
    BY <1>0, <1>3 DEF AdvanceRests, AdvanceEdge, OwedInv
  <2> QED  BY <2>1 DEF OwedInv, DueFrom, Nothing
<1>4. CASE PlayStraight
  <2>1. from \in Int /\ from + delta \in Int /\ prevState = "Playing"
        /\ (port = NoPort => pending = Nothing)
    BY <1>0, <1>4 DEF PlayStraight, OwedInv, TypeOK
  <2>2. /\ port = NoPort => pending' = Nothing
        /\ \A v \in Voices : pending'[v] > 0 => v.due >= from + delta
    BY <1>4, <2>1, RangeOwed DEF PlayStraight
  <2> QED  BY <1>0, <1>4, <2>1, <2>2 DEF PlayStraight, OwedInv, DueFrom, Nothing
<1>5. CASE PlayToLoopEnd
  <2>1. from \in Int /\ loopEnd \in Int /\ prevState = "Playing"
        /\ (port = NoPort => pending = Nothing)
    BY <1>0, <1>5 DEF PlayToLoopEnd, OwedInv, TypeOK
  <2>2. port = NoPort => pending' = Nothing
    BY <1>5, <2>1, RangeOwed DEF PlayToLoopEnd
  <2> QED  BY <1>0, <1>5, <2>1, <2>2 DEF PlayToLoopEnd, OwedInv, Nothing
<1>6. CASE ReleaseAtLoopEnd
  <2>1. pending' = Nothing /\ prevState' = "Playing" /\ pc' = "passes"
    BY <1>0, <1>6 DEF ReleaseAtLoopEnd, ForceReleaseAll, OwedInv
  <2> QED  BY <2>1 DEF OwedInv, Nothing
<1>7. CASE PlayFullPass
  <2>1. loopStart \in Int /\ loopEnd \in Int /\ prevState = "Playing"
        /\ (port = NoPort => pending = Nothing)
    BY <1>0, <1>7 DEF PlayFullPass, OwedInv, TypeOK
  <2>2. port = NoPort => pending' = Nothing
    BY <1>7, <2>1, RangeOwed DEF PlayFullPass
  <2> QED  BY <1>0, <1>7, <2>1, <2>2 DEF PlayFullPass, OwedInv, Nothing
<1>8. CASE PlayLastPass
  <2>1. loopStart \in Int /\ loopStart + rem \in Int /\ prevState = "Playing"
        /\ (port = NoPort => pending = Nothing)
    BY <1>0, <1>8 DEF PlayLastPass, OwedInv, TypeOK
  <2>2. /\ port = NoPort => pending' = Nothing
        /\ \A v \in Voices : pending'[v] > 0 => v.due >= loopStart + rem
    BY <1>8, <2>1, RangeOwed DEF PlayLastPass
  <2> QED  BY <1>0, <1>8, <2>1, <2>2 DEF PlayLastPass, OwedInv, DueFrom, Nothing
<1>9. CASE AddDelta
  <2>1. DueFrom(from + delta) /\ lastKnown' = from + delta /\ pc' = "idle"
        /\ UNCHANGED <<pending, prevState>>
    BY <1>0, <1>9 DEF AddDelta, Return, OwedInv
  <2> QED  BY <1>0, <2>1 DEF OwedInv, DueFrom, Nothing
<1>10. CASE SeekIntoLoop
  <2>1. DueFrom(loopStart + rem) /\ lastKnown' = loopStart + rem /\ pc' = "idle"
        /\ UNCHANGED <<pending, prevState>>
    BY <1>0, <1>10 DEF SeekIntoLoop, Return, OwedInv
  <2> QED  BY <1>0, <2>1 DEF OwedInv, DueFrom, Nothing
<1> QED
  BY <1>1, <1>2, <1>3, <1>4, <1>5, <1>6, <1>7, <1>8, <1>9, <1>10 DEF AdvanceStep

LEMMA OwedStep == TypeOK /\ OwedInv /\ [Next]_vars => OwedInv'
<1> SUFFICES ASSUME TypeOK, OwedInv, [Next]_vars PROVE OwedInv'
  OBVIOUS
<1> USE DEF setupVars, noteVars, frameVars
<1>1. CASE AdvanceCall
  BY <1>1 DEF AdvanceCall, AdvanceBegin, OwedInv, Nothing
<1>2. CASE \/ Play \/ Pause \/ StopState \/ StopPosition
           \/ \E t \in SeekTargets : Seek(t)
           \/ UNCHANGED vars
  <2>1. UNCHANGED <<port, loopStart, pending, prevState, lastKnown, pc, delta, from,
                    rem, cleanSwaps>>
    BY <1>2 DEF Play, Pause, StopState, StopPosition, Seek, TransportWrite, vars
  <2> QED  BY <2>1 DEF OwedInv, DueFrom, Nothing
<1>3. CASE \E b \in BOOLEAN : SetClockEnabled(b)
  BY <1>3 DEF SetClockEnabled, OwedInv, DueFrom, Nothing
<1>4. CASE (\E prj \in Projects : SetProject(prj)) \/ ClearProject \/ AllNotesOff
  <2>1. /\ ForceReleaseAll /\ pc = "idle"
        /\ UNCHANGED <<port, prevState, lastKnown, pc, cleanSwaps>>
    BY <1>4 DEF SetProject, ClearProject, AllNotesOff, BetweenCalls
  <2>2. lastKnown \in Int
    BY DEF TypeOK
  <2> QED  BY <2>1, <2>2, ReleaseOwed DEF OwedInv, DueFrom, Nothing
<1>5. CASE \E region \in LoopChoices : SetLoop(region)
  <2>1. pc = "idle" /\ UNCHANGED <<port, pending, prevState, lastKnown, pc, cleanSwaps>>
    BY <1>5 DEF SetLoop, BetweenCalls
  <2> QED  BY <2>1 DEF OwedInv, DueFrom, Nothing
<1>6. ASSUME NEW p \in Ports \cup {NoPort}, SetPort(p) PROVE OwedInv'
  <2>1. /\ pc = "idle" /\ port' = p
        /\ UNCHANGED <<pending, prevState, lastKnown, pc>>
        /\ cleanSwaps' => cleanSwaps /\ (p = port \/ pending = Nothing)
    BY <1>6 DEF SetPort, BetweenCalls
  <2> QED  BY <2>1 DEF OwedInv, DueFrom, Nothing
<1> QED  BY <1>1, <1>2, <1>3, <1>4, <1>5, <1>6, OwedAdvance DEF Next, UIStep

\* Between two calls of advance() no note_off is overdue, and none is owed
\* once advance() has found the transport stopped.
THEOREM NeverOverdue == Spec => []NothingOverdue
<1>1. Init => OwedInv
  BY DEF Init, OwedInv, DueFrom, Nothing
<1>2. QED  BY <1>1, OwedStep, OwedImplies, TypeCorrect, PTL DEF Spec
=============================================================================
