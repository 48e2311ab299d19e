------------------------------ MODULE MCEngine ------------------------------
(* Small instances of Engine for TLC: pulses every 2 ticks, short patterns. *)
EXTENDS Engine

Note(pitch, start, length) == [pitch |-> pitch, start |-> start, length |-> length]

\* Two tracks on two channels.  Of the first pattern's notes two overlap on one
\* key, the second of them due on the loop's end, and the third lies beyond its
\* pattern's end.  The second track's note is held across the loop's end.  The
\* third placement's pattern does not exist.  The loop begins after the song
\* does and lies on pulse boundaries.
Song ==
    [tracks |-> << [id |-> 1, channel |-> 0,
                    patterns |-> << [id |-> 1, length |-> 4,
                                     notes |-> << Note(60, 0, 2), Note(60, 1, 3),
                                                  Note(62, 4, 1) >>] >>],
                   [id |-> 2, channel |-> 1,
                    patterns |-> << [id |-> 2, length |-> 2,
                                     notes |-> << Note(60, 1, 4) >>] >>] >>,
     arrangement |-> << [track |-> 1, pattern |-> 1, start |-> 0],
                        [track |-> 2, pattern |-> 2, start |-> 2],
                        [track |-> 1, pattern |-> 9, start |-> 0] >>,
     loop |-> [start |-> 2, end |-> 4]]

MCProjects == {Song}

\* A loop off the pulse grid.
MCLoopChoices == {[start |-> 1, end |-> 4]}
=============================================================================
