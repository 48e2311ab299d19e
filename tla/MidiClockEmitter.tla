-------------------------- MODULE MidiClockEmitter --------------------------
(***************************************************************************)
(* engine::MidiClockEmitter: which MIDI real-time messages a range of song *)
(* ticks calls for.  The class keeps only its enabled flag and its port,   *)
(* which are variables of module Engine.                                   *)
(***************************************************************************)
EXTENDS Integers, FiniteSets

CONSTANT TicksPerPulse    \* kTicksPerPulse, 40: 960 ticks per quarter / 24

ASSUME TicksPerPulseAssumption == TicksPerPulse \in Nat \ {0}

\* x divided by y, rounded up.
CeilDiv(x, y) == (x + y - 1) \div y

\* Mutant of FirstPulse: rounded down.
FirstPulseBehind(from) == (from \div TicksPerPulse) * TicksPerPulse

\* The first pulse of emit_pulses: `from` rounded up to a pulse boundary.
FirstPulse(from) == CeilDiv(from, TicksPerPulse) * TicksPerPulse

\* The ticks emit_pulses(from, to) sends a Clock message for.
PulseTicks(from, to) ==
    {t \in FirstPulse(from) .. (to - 1) : (t - FirstPulse(from)) % TicksPerPulse = 0}

\* The message emit_play(from) sends.
PlayMessage(from) == IF from = 0 THEN "start" ELSE "continue"
=============================================================================
