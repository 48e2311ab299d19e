----------------------------- MODULE MCPianoRoll -----------------------------
(* A small instance of PianoRoll for TLC. *)
EXTENDS PianoRoll

Note(id, start, length) ==
    [id |-> id, start |-> start, length |-> length, pitch |-> 60, velocity |-> 1]

Song(patterns) ==
    [version |-> 1, tempo |-> 120, meter |-> [num |-> 4, den |-> 4],
     tracks |-> << [id |-> 1, channel |-> 0, transpose |-> 0, patterns |-> patterns] >>,
     arrangement |-> << [track |-> 2, pattern |-> 1, start |-> 0],
                        [track |-> 1, pattern |-> 2, start |-> 0],
                        [track |-> 1, pattern |-> 1, start |-> 0] >>,
     mappings |-> <<>>, loop |-> {}]

\* Two patterns, a note of the first off the grid; and the second pattern only.
Two == Song(<< [id |-> 1, length |-> 8, notes |-> << Note(1, 1, 3) >>],
               [id |-> 2, length |-> 4, notes |-> <<>>] >>)
One == Song(<< [id |-> 2, length |-> 4, notes |-> << Note(1, 0, 4) >>] >>)

MCFiles == {[path \in Paths |-> IF path = "two" THEN File(Two) ELSE File(One)]}
MCPoints == {[tick |-> 3, pitch |-> 60], [tick |-> 5, pitch |-> 61]}
MCDeltas == {-3, 2}
MCStale == {Note(1, 1, 3)}
=============================================================================
