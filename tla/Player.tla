------------------------------- MODULE Player -------------------------------
(***************************************************************************)
(* turdus_play: one Engine driven by one engine::Clock, set up, waited for *)
(* and torn down by main().                                                *)
(*                                                                         *)
(* Nothing in the engine keeps set_project and all_notes_off out of        *)
(* advance().  Here that is a property (AloneWithEngine), not an           *)
(* assumption: main() joins the clock's thread.                            *)
(***************************************************************************)
EXTENDS Engine

CONSTANTS
    Files,      \* the projects ProjectIO::load can return
    Fraction,   \* a tick is this many units of the clock's accumulator
    Rate,       \* units a microsecond adds to it: the tempo times kPpq
    Precision,  \* instants of the steady clock in a microsecond
    Gains,      \* instants a slice takes; 0 stands for those beyond MaxTick
    Double(_)   \* the double nearest to a number of units

ASSUME ClockAssumption ==
    {Fraction, Rate, Precision} \subseteq Nat \ {0} /\ Gains \subseteq Nat

\* duration_cast<Duration>: whole microseconds.
Measured(g) == g \div Precision

\* What the accumulator holds after a slice of g instants.
Sum(held, g) == Double(held + Double(Measured(g) * Rate))

\* Doubles are rounded in order, and what is held is one.
ASSUME DoubleAssumption ==
    \A g \in Gains, held \in 0 .. Fraction - 1 : Sum(held, g) \in Nat /\ held <= Sum(held, g)

VARIABLES
    mainPc,     \* where main() is
    gRunning,   \* g_running, cleared by the SIGINT handler
    running,    \* the clock's running_
    thread,     \* the clock's thread: where thread_loop() is
    accumulator,   \* the part of a tick thread_loop() has over, in units
    measured,   \* auxiliary: units the slices were measured and converted to
    elapsed     \* auxiliary: time since the start, in 1/Precision of a unit

timeVars   == <<accumulator, measured, elapsed>>
playerVars == <<mainPc, gRunning, running, thread, timeVars>>
allVars == <<vars, playerVars>>

-----------------------------------------------------------------------------
(* The arrangement main() makes up for a project that has none.            *)

\* The tracks that have a pattern, in order.
Playable(prj) == SelectSeq(prj.tracks, LAMBDA track : track.patterns # <<>>)

\* The longest of the tracks' first patterns; 0 when there is none.
LongestFirst(prj) ==
    LET lengths == {0} \cup {Playable(prj)[i].patterns[1].length : i \in DOMAIN Playable(prj)}
    IN CHOOSE l \in lengths : \A m \in lengths : m <= l

\* Every track's first pattern at tick 0, and a loop over the longest of them.
WithArrangement(prj) ==
    IF prj.arrangement # <<>> THEN prj
    ELSE [prj EXCEPT
            !.arrangement = [i \in DOMAIN Playable(prj) |->
                                [track   |-> Playable(prj)[i].id,
                                 pattern |-> Playable(prj)[i].patterns[1].id,
                                 start   |-> 0]],
            !.loop = IF LongestFirst(prj) > 0 THEN [start |-> 0, end |-> LongestFirst(prj)]
                     ELSE prj.loop]

ASSUME FilesAssumption == \A f \in Files : WithArrangement(f) \in Projects

-----------------------------------------------------------------------------
(* main().                                                                 *)

At(here, there) == mainPc = here /\ mainPc' = there

\* set_project, once the file is loaded (it has tracks) and the port is open
Setup(f) ==
    /\ At("setup", "clock")
    /\ f.tracks # <<>>
    /\ SetProject(WithArrangement(f))
    /\ UNCHANGED <<gRunning, running, thread, timeVars>>

\* set_clock_enabled(emit_clock)
ChooseClock(emit) ==
    /\ At("clock", "play")
    /\ SetClockEnabled(emit)
    /\ UNCHANGED <<gRunning, running, thread, timeVars>>

StartPlaying ==
    /\ At("play", "start")
    /\ Play
    /\ UNCHANGED <<gRunning, running, thread, timeVars>>

\* clock.start()
StartClock ==
    /\ At("start", "wait")
    /\ running' = TRUE /\ thread' = "test"
    /\ UNCHANGED <<vars, gRunning, timeVars>>

\* The signal handler, installed before play().
Interrupt ==
    /\ mainPc \notin {"setup", "clock"}
    /\ gRunning
    /\ gRunning' = FALSE
    /\ UNCHANGED <<vars, mainPc, running, thread, timeVars>>

\* The wait loop ends and clock.stop() stores running_.
StopClock ==
    /\ At("wait", "join")
    /\ ~gRunning
    /\ running' = FALSE
    /\ UNCHANGED <<vars, gRunning, thread, timeVars>>

\* Mutant of JoinClock: the thread is left to itself (detached).
DetachClock ==
    /\ At("join", "stop")
    /\ UNCHANGED <<vars, gRunning, running, thread, timeVars>>

\* thread_.join()
JoinClock ==
    /\ At("join", "stop")
    /\ thread = "exited"
    /\ UNCHANGED <<vars, gRunning, running, thread, timeVars>>

\* transport().stop(), its two stores
StopTransport ==
    /\ \/ At("stop", "rewind") /\ StopState
       \/ At("rewind", "release") /\ StopPosition
    /\ UNCHANGED <<gRunning, running, thread, timeVars>>

\* Mutant of ReleaseHeld: only the transport is stopped.
ReleaseNothing ==
    /\ At("release", "closed")
    /\ UNCHANGED <<vars, gRunning, running, thread, timeVars>>

\* all_notes_off(); then the port is closed and main() returns
ReleaseHeld ==
    /\ At("release", "closed")
    /\ AllNotesOff
    /\ UNCHANGED <<gRunning, running, thread, timeVars>>

MainStep ==
    \/ \E f \in Files : Setup(f)
    \/ \E emit \in BOOLEAN : ChooseClock(emit)
    \/ StartPlaying \/ StartClock \/ StopClock \/ JoinClock \/ StopTransport \/ ReleaseHeld

-----------------------------------------------------------------------------
(* Clock::thread_loop().                                                   *)

\* Mutant of ThreadTests: running_ is not looked at again.
ThreadNeverEnds ==
    /\ thread = "test"
    /\ thread' = "slice"
    /\ UNCHANGED <<vars, mainPc, gRunning, running, timeVars>>

\* while (running_.load())
ThreadTests ==
    /\ thread = "test"
    /\ thread' = IF running THEN "slice" ELSE "exited"
    /\ UNCHANGED <<vars, mainPc, gRunning, running, timeVars>>

\* Auxiliary: a slice of g instants goes by.  Round a loop the units are counted
\* anew; the time that passed is not counted then.
Pass(g) ==
    LET units == measured + (Sum(accumulator, g) - accumulator)
    IN /\ measured' = IF LoopEnabled THEN units % (LoopLength * Fraction) ELSE units
       /\ elapsed' = IF LoopEnabled THEN elapsed ELSE elapsed + g * Rate

\* A slice that does not complete a tick adds to the accumulator only.
ThreadSkips ==
    /\ thread = "slice"
    /\ \E g \in Gains :
          /\ Sum(accumulator, g) < Fraction
          /\ accumulator' = Sum(accumulator, g) /\ Pass(g)
    /\ thread' = "test"
    /\ UNCHANGED <<vars, mainPc, gRunning, running>>

\* Mutant of ThreadCalls: the remainder is dropped.
ThreadCallsRounding ==
    /\ thread = "slice"
    /\ AdvanceCall
    /\ \E g \in Gains :
          /\ Sum(accumulator, g) >= Fraction
          /\ delta' = Sum(accumulator, g) \div Fraction
          /\ accumulator' = 0 /\ Pass(g)
    /\ thread' = "called"
    /\ UNCHANGED <<mainPc, gRunning, running>>

\* The whole ticks go to advance(), the remainder stays.
ThreadCalls ==
    /\ thread = "slice"
    /\ AdvanceCall
    /\ \E g \in Gains :
          /\ Sum(accumulator, g) >= Fraction
          /\ delta' = Sum(accumulator, g) \div Fraction
          /\ accumulator' = Sum(accumulator, g) % Fraction /\ Pass(g)
    /\ thread' = "called"
    /\ UNCHANGED <<mainPc, gRunning, running>>

ThreadAdvances ==
    /\ thread = "called"
    /\ AdvanceStep
    /\ thread' = IF pc' = "idle" THEN "test" ELSE "called"
    /\ UNCHANGED <<mainPc, gRunning, running, timeVars>>

ThreadStep == ThreadTests \/ ThreadSkips \/ ThreadCalls \/ ThreadAdvances

-----------------------------------------------------------------------------
PlayerInit ==
    /\ Init /\ port \in Ports
    /\ mainPc = "setup" /\ gRunning = TRUE
    /\ running = FALSE /\ thread = "none"
    /\ accumulator = 0 /\ measured = 0 /\ elapsed = 0

\* main() has returned.
Finished == mainPc = "closed" /\ UNCHANGED allVars

PlayerNext == MainStep \/ Interrupt \/ ThreadStep \/ Finished

\* Both threads are scheduled; nobody need press Ctrl+C.
PlayerFairness == WF_allVars(MainStep) /\ WF_allVars(ThreadStep)

PlayerSpec == PlayerInit /\ [][PlayerNext]_allVars

FairPlayerSpec == PlayerSpec /\ PlayerFairness

-----------------------------------------------------------------------------
(* Properties.                                                             *)

\* Every variable holds a value of its type.
PlayerTypeOK ==
    /\ TypeOK
    /\ mainPc \in {"setup", "clock", "play", "start", "wait", "join", "stop", "rewind",
                   "release", "closed"}
    /\ gRunning \in BOOLEAN /\ running \in BOOLEAN
    /\ thread \in {"none", "test", "slice", "called", "exited"}
    /\ accumulator \in 0 .. Fraction - 1 /\ measured \in Nat /\ elapsed \in Nat

\* Whenever main() is about to call an operation of the engine that must not
\* run concurrently with advance(), or is past the last one, the clock's thread
\* does not exist (yet, or any more) and no call of advance() is in progress.
AloneWithEngine ==
    mainPc \in {"setup", "stop", "rewind", "release", "closed"}
        => thread \in {"none", "exited"} /\ pc = "idle"

\* turdus_play leaves no note sounding when it closes the port, wherever in the
\* song, in a slice or in a loop pass the interrupt comes.
SilentAtExit ==
    mainPc = "closed" => \A p \in Ports : sounding[p] = Nothing

\* No tick that was measured is lost: between slices the playhead and the
\* accumulator together are what the slices were measured and converted to, up to
\* passes of the loop, so the rest of a tick is neither dropped nor counted twice.
\* What measuring itself loses is not in it; NoRoundingDrift is about that.
MeasuredTicksPlayed ==
    mainPc \in {"wait", "join", "stop", "rewind"} /\ thread # "called" =>
        LET late == measured - (pos * Fraction + accumulator)
        IN IF LoopEnabled THEN late % (LoopLength * Fraction) = 0 ELSE late = 0

\* Ctrl+C ends the program: the clock's thread comes back from sleep or from
\* advance(), sees running_, and is joined.
ExitsAfterInterrupt == ~gRunning ~> mainPc = "closed"

-----------------------------------------------------------------------------
(* What a document promises and the code does not keep.                    *)

\* MIDI_SYNC.md: Ctrl+C on Turdus stops the slave.
SlaveStoppedAtExit == mainPc = "closed" => ~following

\* Clock.hpp: the accumulator is there to eliminate rounding drift over time.  So
\* a song without a loop is never a whole tick behind the time that has passed.
NoRoundingDrift ==
    mainPc \in {"wait", "join", "stop", "rewind"} /\ thread # "called" /\ ~LoopEnabled =>
        elapsed - (pos * Fraction + accumulator) * Precision < Fraction * Precision
=============================================================================
