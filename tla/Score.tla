------------------------------- MODULE Score -------------------------------
(***************************************************************************)
(* What a model::Project asks the engine to play.                          *)
(*                                                                         *)
(* A project is a record                                                   *)
(*   tracks      : a sequence of [id, channel, patterns], patterns being a *)
(*                 sequence of [id, length, notes], notes a function from  *)
(*                 note ids to [pitch, start, length];                     *)
(*   arrangement : a sequence of placements [track, pattern, start];       *)
(*   loop        : [start, end].                                           *)
(* Names, velocities, mute/solo/transpose and port mappings are left out:  *)
(* the engine does not read them, or passes them on untouched.             *)
(***************************************************************************)
EXTENDS Integers, Sequences

\* Track::find_pattern: the positions of a track's patterns with this id; there
\* is at most one, ids being unique within a track.
PatternsWithId(track, patternId) ==
    {k \in DOMAIN track.patterns : track.patterns[k].id = patternId}

\* The positions of the tracks that hold a pattern with this id.
Holders(prj, patternId) ==
    {t \in DOMAIN prj.tracks : PatternsWithId(prj.tracks[t], patternId) # {}}

\* Engine::find_pattern_by_id: every track is searched, the first hit wins,
\* whatever track the placement names.
PatternOf(prj, patternId) ==
    LET first == CHOOSE t \in Holders(prj, patternId) :
                    \A u \in Holders(prj, patternId) : t <= u
        track == prj.tracks[first]
    IN track.patterns[CHOOSE k \in PatternsWithId(track, patternId) : TRUE]

\* Engine::find_track_by_id: track ids are unique within a project.
TracksWithId(prj, trackId) ==
    {t \in DOMAIN prj.tracks : prj.tracks[t].id = trackId}

ChannelOf(prj, trackId) ==
    prj.tracks[CHOOSE t \in TracksWithId(prj, trackId) : TRUE].channel

\* A placement whose pattern or track is gone is skipped.
Resolves(prj, pl) ==
    /\ Holders(prj, pl.pattern) # {}
    /\ TracksWithId(prj, pl.track) # {}

\* One note of one placement: the song tick at which it starts, the tick at
\* which its note_off is due, and the (channel, pitch) key both are sent on.
VoiceAt(prj, i, n) ==
    LET pl   == prj.arrangement[i]
        note == PatternOf(prj, pl.pattern).notes[n]
    IN [placement |-> i,
        note      |-> n,
        key       |-> <<ChannelOf(prj, pl.track), note.pitch>>,
        on        |-> pl.start + note.start,
        due       |-> pl.start + note.start + note.length]

\* The notes of placement i that can ever sound: process_range clips the slice
\* to [placement.start, placement.start + pattern.length), so a note placed
\* outside the pattern is never started.
PlacementVoices(prj, i) ==
    LET pl  == prj.arrangement[i]
        pat == PatternOf(prj, pl.pattern)
    IN IF Resolves(prj, pl)
       THEN {VoiceAt(prj, i, n) :
                n \in {m \in DOMAIN pat.notes : /\ 0 <= pat.notes[m].start
                                                /\ pat.notes[m].start < pat.length}}
       ELSE {}

\* Everything the project's arrangement can play.
ScoreOf(prj) == UNION {PlacementVoices(prj, i) : i \in DOMAIN prj.arrangement}

\* What the proofs need to know of a project: ticks are integers, and the loop
\* region lies in non-negative song time.
IsProject(prj) ==
    /\ \A i \in DOMAIN prj.arrangement :
          /\ prj.arrangement[i].start \in Int
          /\ Resolves(prj, prj.arrangement[i]) =>
                \A n \in DOMAIN PatternOf(prj, prj.arrangement[i].pattern).notes :
                    LET note == PatternOf(prj, prj.arrangement[i].pattern).notes[n]
                    IN note.start \in Int /\ note.length \in Int
    /\ prj.loop.start \in Nat
    /\ prj.loop.end \in Nat
=============================================================================
