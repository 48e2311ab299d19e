------------------------------- MODULE Engine -------------------------------
(***************************************************************************)
(* engine::Engine with the Transport it owns and the MIDI clock emitter.   *)
(*                                                                         *)
(* Two threads meet here.  The clock thread calls Engine::advance(delta)   *)
(* over and over; the UI (or main) thread writes the transport's atomics   *)
(* and the clock flag at any moment, and between two calls of advance,     *)
(* never during one, replaces the project, the loop region or the port.    *)
(* advance() is therefore split where it touches what the other thread     *)
(* writes (the loads of state and position, the final write of position)   *)
(* and at every iteration of its loop; Transport::stop() is split between  *)
(* its two stores.                                                         *)
(*                                                                         *)
(* What goes out of the port is observed, not recorded: `sounding` counts  *)
(* the note_ons a device received and has not been sent the note_off of,   *)
(* `following` and `pulses` are a device that follows the MIDI clock.      *)
(***************************************************************************)
EXTENDS Score, MidiClockEmitter

CONSTANTS
    Projects,      \* the projects set_project can be given
    NoProject,     \* project_ holds no value
    Ports,         \* the output ports
    NoPort,        \* port_ == nullptr
    Deltas,        \* the tick counts advance() is called with
    SeekTargets,   \* the positions Transport::seek is called with
    LoopChoices,   \* the [start, end] regions set_loop is called with
    MaxTick,       \* bound: no slice goes beyond this tick of song time
    MaxHeld        \* bound: no slice begins with more pending entries than this for a voice

ASSUME ProjectsAssumption == \A prj \in Projects : IsProject(prj)
ASSUME NoneAssumption     == NoProject \notin Projects /\ NoPort \notin Ports
ASSUME DeltasAssumption   == Deltas \subseteq Nat \ {0}
ASSUME TicksAssumption    == /\ SeekTargets \subseteq Nat
                             /\ LoopChoices \subseteq [start : Nat, end : Nat]
                             /\ MaxTick \in Nat /\ MaxHeld \in Nat

VARIABLES
    \* Transport
    tState,        \* state_
    pos,           \* position_
    rewinding,     \* the UI thread is between the two stores of stop()
    \* MidiClockEmitter and Engine
    clockOn,       \* enabled_
    port,          \* port_
    project,       \* project_
    loopStart,     \* loop_start_
    loopEnd,       \* loop_end_
    pending,       \* pending_offs_: how many entries there are for each voice
    prevState,     \* prev_state_
    lastKnown,     \* last_known_position_
    \* the frame of the call of advance() in progress
    pc, delta, cur, from, rem,
    \* the devices
    sounding,      \* port -> voice -> note_ons minus note_offs received
    following,     \* the clock follower on `port` is running
    pulses,        \* the pulses it has received since Start, while tracked
    \* auxiliary
    heard,         \* how often each voice was started by the call in progress
    tracked,       \* nothing but playing, pausing and looping since Start
    song,          \* ticks played since Start, while tracked
    cleanSwaps     \* no port was ever swapped while notes were held

transportVars == <<tState, pos, rewinding>>
frameVars     == <<pc, delta, cur, from, rem>>
setupVars     == <<clockOn, port, project, loopStart, loopEnd>>
noteVars      == <<pending, sounding, heard>>
clockVars     == <<following, tracked, pulses, song>>
vars == <<transportVars, setupVars, noteVars, prevState, lastKnown, frameVars,
          clockVars, cleanSwaps>>

States == {"Stopped", "Playing"}
Voices == UNION {ScoreOf(prj) : prj \in Projects}
Nothing == [v \in Voices |-> 0]

CurrentScore == IF project = NoProject THEN {} ELSE ScoreOf(project)
LoopEnabled  == loopStart < loopEnd
LoopLength   == loopEnd - loopStart
Count(b)     == IF b THEN 1 ELSE 0

-----------------------------------------------------------------------------
(* Helpers of advance().                                                   *)

\* force_release_all_at: with no port the entries are dropped unsent.
ForceReleaseAll ==
    /\ pending' = Nothing
    /\ sounding' = IF port = NoPort THEN sounding
                   ELSE [sounding EXCEPT ![port] =
                            [v \in Voices |-> sounding[port][v] - pending[v]]]

\* Mutant of Started: the end of the slice is taken as part of it.
StartedTooFar(a, b) == {v \in CurrentScore : a <= v.on /\ v.on <= b}

\* The voices whose note_on falls in [a, b).
Started(a, b) == {v \in CurrentScore : a <= v.on /\ v.on < b}

\* The follower's count and the ticks it should account for are kept while it
\* is tracked and dropped when it is not.
Track(b, count, ticks) ==
    /\ tracked' = b
    /\ pulses' = IF b THEN count ELSE 0
    /\ song' = IF b THEN ticks ELSE 0

\* emit_pulses: a follower that misses pulses is no longer tracked.
EmitPulses(a, b) ==
    Track(tracked /\ (clockOn \/ b <= a),
          pulses + Cardinality(PulseTicks(a, b)), song + (b - a))

\* process_range: pending note_offs due before b, the clock pulses, then the
\* notes starting in [a, b), each with its note_off at once when that is due
\* before b and as a pending entry otherwise.
ProcessRange(a, b) ==
    IF port = NoPort
    THEN UNCHANGED <<noteVars, clockVars>>
    ELSE LET on(v)  == Count(v \in Started(a, b))
             off(v) == IF v.due < b THEN pending[v] + on(v) ELSE 0
         IN /\ pending' = [v \in Voices |-> IF v.due < b THEN 0 ELSE pending[v] + on(v)]
            /\ sounding' = [sounding EXCEPT ![port] =
                               [v \in Voices |-> sounding[port][v] + on(v) - off(v)]]
            /\ heard' = [v \in Voices |-> heard[v] + on(v)]
            /\ EmitPulses(a, b)
            /\ UNCHANGED following

-----------------------------------------------------------------------------
(* Engine::advance, on the clock thread.                                   *)

\* advance(d) is called and loads the transport's state.
AdvanceBegin(d) ==
    /\ pc = "idle"
    /\ tState = "Playing" => /\ pos + d <= MaxTick /\ song + d <= MaxTick
                             /\ \A v \in Voices : pending[v] <= MaxHeld
    /\ pc' = "position"
    /\ delta' = d
    /\ cur' = tState
    /\ UNCHANGED <<transportVars, setupVars, noteVars, prevState, lastKnown,
                   from, rem, clockVars, cleanSwaps>>

\* It loads the position and looks for an edge of the state.
AdvanceEdge ==
    /\ pc = "position"
    /\ prevState' = cur
    /\ UNCHANGED <<transportVars, setupVars, heard, lastKnown, rem, cleanSwaps>>

\* Stopped -> Playing: emit_play.
AdvanceStarts ==
    /\ AdvanceEdge
    /\ cur = "Playing" /\ prevState # "Playing"
    /\ IF clockOn /\ port # NoPort
       THEN /\ following' = TRUE
            /\ IF PlayMessage(pos) = "start" THEN Track(TRUE, 0, 0)
               ELSE Track(tracked /\ pos = lastKnown, pulses, song)
       ELSE following' = following /\ Track(FALSE, 0, 0)
    /\ from' = pos
    /\ pc' = "range"
    /\ UNCHANGED <<pending, sounding, delta, cur>>

\* Mutant of AdvanceStops: held notes are left sounding.
AdvanceStopsHolding ==
    /\ AdvanceEdge
    /\ cur # "Playing" /\ prevState = "Playing"
    /\ following' = FALSE
    /\ pc' = "idle"
    /\ delta' = 0 /\ cur' = "Stopped"
    /\ UNCHANGED <<from, pending, sounding, tracked, pulses, song>>

\* Playing -> Stopped: release what is held, emit_stop, return.
AdvanceStops ==
    /\ AdvanceEdge
    /\ cur # "Playing" /\ prevState = "Playing"
    /\ ForceReleaseAll
    /\ IF clockOn /\ port # NoPort
       THEN following' = FALSE /\ UNCHANGED <<tracked, pulses, song>>
       ELSE following' = following /\ Track(FALSE, 0, 0)
    /\ pc' = "idle"
    /\ delta' = 0 /\ cur' = "Stopped" /\ UNCHANGED from

\* Playing, as in the previous call.
AdvanceContinues ==
    /\ AdvanceEdge
    /\ cur = "Playing" /\ prevState = "Playing"
    /\ Track(tracked /\ pos = lastKnown, pulses, song)
    /\ from' = pos
    /\ pc' = "range"
    /\ UNCHANGED <<following, pending, sounding, delta, cur>>

\* Stopped, as in the previous call: nothing to do.
AdvanceRests ==
    /\ AdvanceEdge
    /\ cur # "Playing" /\ prevState # "Playing"
    /\ pc' = "idle"
    /\ delta' = 0 /\ cur' = "Stopped"
    /\ UNCHANGED <<from, clockVars, pending, sounding>>

\* Mutant of Wraps: the end of the slice is not looked at.
WrapsAlways == LoopEnabled /\ from < loopEnd

\* The condition under which the slice wraps.
Wraps == LoopEnabled /\ from < loopEnd /\ from + delta > loopEnd

\* A slice within the song or within the loop.
PlayStraight ==
    /\ pc = "range" /\ ~Wraps
    /\ ProcessRange(from, from + delta)
    /\ pc' = "add"
    /\ UNCHANGED <<transportVars, setupVars, prevState, lastKnown, delta, cur,
                   from, rem, cleanSwaps>>

\* A pass up to the loop point.  A follower of the clock does not know of the
\* loop: its count stays in step only when the loop bounds are pulse boundaries.
AlignedLoop == loopStart % TicksPerPulse = 0 /\ loopEnd % TicksPerPulse = 0

PlayToLoopEnd ==
    /\ pc = "range" /\ Wraps
    /\ ProcessRange(from, loopEnd)
    /\ rem' = from + delta - loopEnd
    /\ pc' = "release"
    /\ UNCHANGED <<transportVars, setupVars, prevState, lastKnown, delta, cur,
                   from, cleanSwaps>>

\* force_release_all_at(loop_end_), at the wrap and after every full pass.
ReleaseAtLoopEnd ==
    /\ pc = "release"
    /\ ForceReleaseAll
    /\ Track(tracked /\ AlignedLoop, pulses, song)
    /\ pc' = "passes"
    /\ UNCHANGED <<transportVars, setupVars, heard, prevState, lastKnown, delta,
                   cur, from, rem, following, cleanSwaps>>

\* Mutant of PlayFullPass: remaining is not reduced.
PlayFullPassAgain ==
    /\ pc = "passes" /\ rem >= LoopLength
    /\ ProcessRange(loopStart, loopEnd)
    /\ pc' = "release"
    /\ UNCHANGED <<transportVars, setupVars, prevState, lastKnown, delta, cur,
                   from, rem, cleanSwaps>>

\* while (remaining >= loop_len)
PlayFullPass ==
    /\ pc = "passes" /\ rem >= LoopLength
    /\ ProcessRange(loopStart, loopEnd)
    /\ rem' = rem - LoopLength
    /\ pc' = "release"
    /\ UNCHANGED <<transportVars, setupVars, prevState, lastKnown, delta, cur,
                   from, cleanSwaps>>

\* The partial pass that ends the slice.
PlayLastPass ==
    /\ pc = "passes" /\ rem < LoopLength
    /\ ProcessRange(loopStart, loopStart + rem)
    /\ pc' = "seek"
    /\ UNCHANGED <<transportVars, setupVars, prevState, lastKnown, delta, cur,
                   from, rem, cleanSwaps>>

\* advance() returns: its locals are gone.
Return ==
    /\ pc' = "idle"
    /\ delta' = 0 /\ cur' = "Stopped" /\ from' = 0 /\ rem' = 0
    /\ heard' = Nothing
    /\ UNCHANGED <<tState, rewinding, setupVars, prevState, pending, sounding,
                   clockVars, cleanSwaps>>

\* transport_.advance(delta): a fetch_add.
AddDelta ==
    /\ pc = "add"
    /\ pos' = pos + delta
    /\ lastKnown' = from + delta
    /\ Return

\* transport_.seek(new_to): a plain store.
SeekIntoLoop ==
    /\ pc = "seek"
    /\ pos' = loopStart + rem
    /\ lastKnown' = loopStart + rem
    /\ Return

AdvanceStep ==
    \/ AdvanceStarts \/ AdvanceStops \/ AdvanceContinues \/ AdvanceRests
    \/ PlayStraight \/ PlayToLoopEnd \/ ReleaseAtLoopEnd
    \/ PlayFullPass \/ PlayLastPass \/ AddDelta \/ SeekIntoLoop

-----------------------------------------------------------------------------
(* The other thread: writes of atomics, at any time.                       *)

TransportWrite ==
    UNCHANGED <<setupVars, noteVars, prevState, lastKnown, frameVars, clockVars,
                cleanSwaps>>

Play ==
    /\ ~rewinding
    /\ tState' = "Playing"
    /\ UNCHANGED <<pos, rewinding>>
    /\ TransportWrite

Pause ==
    /\ ~rewinding
    /\ tState' = "Stopped"
    /\ UNCHANGED <<pos, rewinding>>
    /\ TransportWrite

\* stop(), first store
StopState ==
    /\ ~rewinding
    /\ tState' = "Stopped"
    /\ rewinding' = TRUE
    /\ UNCHANGED pos
    /\ TransportWrite

\* stop(), second store
StopPosition ==
    /\ rewinding
    /\ pos' = 0
    /\ rewinding' = FALSE
    /\ UNCHANGED tState
    /\ TransportWrite

Seek(t) ==
    /\ ~rewinding
    /\ pos' = t
    /\ UNCHANGED <<tState, rewinding>>
    /\ TransportWrite

SetClockEnabled(b) ==
    /\ ~rewinding
    /\ clockOn' = b
    /\ UNCHANGED <<transportVars, port, project, loopStart, loopEnd, noteVars,
                   prevState, lastKnown, frameVars, clockVars, cleanSwaps>>

-----------------------------------------------------------------------------
(* The other thread: operations to be kept out of advance().  Engine.hpp    *)
(* asks it of set_port's callers; the others write the project, the loop   *)
(* bounds or the pending notes, which advance() reads without a lock too.  *)
(* The program calls none of them during play but set_loop, and set_loop   *)
(* is called by nothing.                                                   *)

BetweenCalls ==
    /\ pc = "idle" /\ ~rewinding
    /\ UNCHANGED <<transportVars, clockOn, heard, prevState, lastKnown, frameVars>>

\* Mutant of SetProject: the entries go, the note_offs are never sent.
SetProjectForgetting(prj) ==
    /\ BetweenCalls
    /\ pending' = Nothing
    /\ project' = prj
    /\ loopStart' = prj.loop.start /\ loopEnd' = prj.loop.end
    /\ UNCHANGED <<port, sounding, clockVars, cleanSwaps>>

SetProject(prj) ==
    /\ BetweenCalls
    /\ ForceReleaseAll
    /\ project' = prj
    /\ loopStart' = prj.loop.start /\ loopEnd' = prj.loop.end
    /\ UNCHANGED <<port, clockVars, cleanSwaps>>

ClearProject ==
    /\ BetweenCalls
    /\ ForceReleaseAll
    /\ project' = NoProject
    /\ loopStart' = 0 /\ loopEnd' = 0
    /\ UNCHANGED <<port, clockVars, cleanSwaps>>

SetLoop(region) ==
    /\ BetweenCalls
    /\ loopStart' = region.start /\ loopEnd' = region.end
    /\ UNCHANGED <<port, project, pending, sounding, clockVars, cleanSwaps>>

\* set_port: nothing is released; the follower is another device from now on.
\* Bound: no further swap is explored once one left notes held (cleanSwaps).
SetPort(p) ==
    /\ BetweenCalls
    /\ cleanSwaps
    /\ port' = p
    /\ cleanSwaps' = (cleanSwaps /\ (p = port \/ pending = Nothing))
    /\ IF p = port THEN UNCHANGED clockVars
       ELSE following' = FALSE /\ Track(FALSE, 0, 0)
    /\ UNCHANGED <<project, loopStart, loopEnd, pending, sounding>>

AllNotesOff ==
    /\ BetweenCalls
    /\ ForceReleaseAll
    /\ UNCHANGED <<port, project, loopStart, loopEnd, clockVars, cleanSwaps>>

-----------------------------------------------------------------------------
Init ==
    /\ tState = "Stopped" /\ pos = 0 /\ rewinding = FALSE
    /\ clockOn = FALSE
    /\ port \in Ports \cup {NoPort}
    /\ project = NoProject /\ loopStart = 0 /\ loopEnd = 0
    /\ pending = Nothing
    /\ prevState = "Stopped" /\ lastKnown = 0
    /\ pc = "idle" /\ delta = 0 /\ cur = "Stopped" /\ from = 0 /\ rem = 0
    /\ sounding = [p \in Ports |-> Nothing]
    /\ heard = Nothing
    /\ following = FALSE /\ tracked = FALSE /\ pulses = 0 /\ song = 0
    /\ cleanSwaps = TRUE

UIStep ==
    \/ Play \/ Pause \/ StopState \/ StopPosition
    \/ \E t \in SeekTargets : Seek(t)
    \/ \E b \in BOOLEAN : SetClockEnabled(b)
    \/ \E prj \in Projects : SetProject(prj)
    \/ ClearProject
    \/ \E region \in LoopChoices : SetLoop(region)
    \/ \E p \in Ports \cup {NoPort} : SetPort(p)
    \/ AllNotesOff

AdvanceCall == \E d \in Deltas : AdvanceBegin(d)

Next == AdvanceCall \/ AdvanceStep \/ UIStep

\* The clock thread keeps running: it keeps calling advance() and every call
\* goes on to its end.  The UI thread finishes a stop() it has begun.
Fairness == WF_vars(AdvanceCall) /\ WF_vars(AdvanceStep) /\ WF_vars(StopPosition)

Spec == Init /\ [][Next]_vars

FairSpec == Spec /\ Fairness

-----------------------------------------------------------------------------
(* Properties.                                                             *)

PCs == {"idle", "position", "range", "release", "passes", "add", "seek"}

\* Every variable holds a value of its type.
TypeOK ==
    /\ tState \in States /\ pos \in Nat /\ rewinding \in BOOLEAN
    /\ clockOn \in BOOLEAN
    /\ port \in Ports \cup {NoPort}
    /\ project \in Projects \cup {NoProject}
    /\ loopStart \in Nat /\ loopEnd \in Nat
    /\ pending \in [Voices -> Nat]
    /\ prevState \in States /\ lastKnown \in Nat
    /\ pc \in PCs /\ delta \in Nat /\ cur \in States /\ from \in Nat /\ rem \in Nat
    /\ sounding \in [Ports -> [Voices -> Int]]
    /\ heard \in [Voices -> Nat]
    /\ following \in BOOLEAN /\ tracked \in BOOLEAN /\ pulses \in Nat /\ song \in Int
    /\ cleanSwaps \in BOOLEAN

\* No stuck notes: as long as no port was swapped under held notes, the notes
\* that sound on the engine's port are exactly those it still owes a note_off,
\* and no other port sounds; at every point of advance(), whatever the slices,
\* the wraps, the edits and the writes of the transport in between.
NoStuckNotes ==
    cleanSwaps => \A p \in Ports : sounding[p] = IF p = port THEN pending ELSE Nothing

\* No note is held too long: between two calls of advance(), a note_off still
\* owed is due at or after the tick the last slice ended on, and nothing is
\* owed once advance() has seen the transport stopped.
NothingOverdue ==
    cleanSwaps /\ pc = "idle" =>
        \A v \in Voices : pending[v] > 0 => prevState = "Playing" /\ v.due >= lastKnown

\* The song tick that is u - from ticks ahead of the start of the slice when
\* one steps tick by tick and wraps at the loop end.
SongTick(u) ==
    IF LoopEnabled /\ from < loopEnd /\ u >= loopEnd
    THEN loopStart + ((u - loopEnd) % LoopLength)
    ELSE u

\* Whatever the size of the slice, and however many loop passes it covers, a
\* call of advance() starts each note of the score as often as the playhead,
\* moved tick by tick, passes the note's first tick; and starts nothing else.
EveryCrossedNoteOnce ==
    pc \in {"add", "seek"} /\ port # NoPort =>
        \A v \in Voices :
            heard[v] = IF v \in CurrentScore
                       THEN Cardinality({u \in from .. (from + delta - 1) : SongTick(u) = v.on})
                       ELSE 0

\* A follower that was started from tick 0 and was never cut off has counted
\* one pulse for every TicksPerPulse ticks played, through pauses, Continue
\* and wraps of an aligned loop, and runs exactly while the engine plays.
SlaveInSync ==
    pc = "idle" /\ tracked =>
        /\ pulses = CeilDiv(song, TicksPerPulse)
        /\ following = (prevState = "Playing")

\* Once the transport is stopped, what sounds is released, unless playback is
\* resumed first: advance() notices a stop that lasts.
StopSilences ==
    (tState = "Stopped") ~>
        (tState = "Playing" \/ ~cleanSwaps \/ \A p \in Ports : sounding[p] = Nothing)

\* A call of advance() always returns: the wrap loop comes to its end.
CallReturns == (pc # "idle") ~> (pc = "idle")

-----------------------------------------------------------------------------
(* What the comments promise and the code does not keep.                   *)

\* Engine.hpp: with a loop region active the engine wraps from loop_end back
\* to loop_start; so a slice that begins in the region, or on its end, never
\* plays beyond the end.
LoopNeverLeft ==
    pc = "add" /\ LoopEnabled /\ loopStart <= from /\ from <= loopEnd
        => from + delta <= loopEnd

\* Transport.hpp: the fields have no inter-invariant, so independent atomic
\* accesses are correct; so the rewind to 0 made by a stop() while a slice that
\* began elsewhere is being played survives the end of the slice.
StopRewinds == [][(pc \in {"add", "seek"} /\ from # 0 /\ pos = 0) => pos' = 0]_vars
=============================================================================
