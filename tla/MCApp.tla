------------------------------- MODULE MCApp -------------------------------
(* A small instance of App for TLC. *)
EXTENDS App

Note(id, start, length, velocity) ==
    [id |-> id, start |-> start, length |-> length, pitch |-> 60, velocity |-> velocity]

\* A file with notes out of order, one id missing, one taken twice, values out
\* of range, two patterns with the same note id and no loop region.
Song ==
    [version |-> 1, tempo |-> 5, meter |-> [num |-> 40, den |-> 3],
     tracks |-> << [id |-> 1, channel |-> 20, transpose |-> 0,
                    patterns |-> << [id |-> 1, length |-> 4,
                                     notes |-> << Note(2, 1, 2, 200), Note(1, 1, 1, 2),
                                                  Note(0, 0, 1, 1), Note(2, 0, 1, 1) >>],
                                    [id |-> 2, length |-> 4, notes |-> << Note(1, 0, 1, 1) >>],
                                    [id |-> 2, length |-> 1, notes |-> <<>>] >>] >>,
     arrangement |-> << [track |-> 1, pattern |-> 2, start |-> 0] >>,
     mappings |-> << [label |-> "A", device |-> "x"], [label |-> "A", device |-> "y"] >>,
     loop |-> {}]

Newer == [Song EXCEPT !.version = 2]

MCNewNotes == {[start |-> 1, length |-> 1, pitch |-> 61, velocity |-> 1]}
MCRegions == {[start |-> 0, end |-> 4]}
MCStarts == {-1, 2}
MCFiles == {[path \in Paths |-> c] : c \in {File(Song), File(Newer), Malformed}}
=============================================================================
