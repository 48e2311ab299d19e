------------------------------ MODULE MCPlayer ------------------------------
(* Small instances of Player for TLC: pulses every 2 ticks, short patterns. *)
EXTENDS Player

Note(pitch, start, length) == [pitch |-> pitch, start |-> start, length |-> length]

\* No arrangement: the first patterns of tracks 1 and 3 are played and loop over
\* the longer of them; a note of each is held across the loop end.
Unarranged ==
    [tracks |-> << [id |-> 1, channel |-> 0,
                    patterns |-> << [id |-> 1, length |-> 4,
                                     notes |-> << Note(60, 3, 3) >>],
                                    [id |-> 2, length |-> 8,
                                     notes |-> << Note(61, 0, 1) >>] >>],
                   [id |-> 2, channel |-> 1, patterns |-> <<>>],
                   [id |-> 3, channel |-> 2,
                    patterns |-> << [id |-> 3, length |-> 2,
                                     notes |-> << Note(60, 1, 4) >>] >>] >>,
     arrangement |-> <<>>,
     loop |-> [start |-> 0, end |-> 0]]

\* An arrangement of its own, without a loop: the song runs on past its end.
Arranged ==
    [tracks |-> << [id |-> 1, channel |-> 0,
                    patterns |-> << [id |-> 1, length |-> 3,
                                     notes |-> << Note(60, 1, 3) >>] >>] >>,
     arrangement |-> << [track |-> 1, pattern |-> 1, start |-> 0],
                        [track |-> 1, pattern |-> 1, start |-> 2] >>,
     loop |-> [start |-> 0, end |-> 0]]

\* A pattern without notes: a loop off the pulse grid, for the follower only.
Silent ==
    [tracks |-> << [id |-> 1, channel |-> 0,
                    patterns |-> << [id |-> 1, length |-> 3, notes |-> <<>>] >>] >>,
     arrangement |-> <<>>,
     loop |-> [start |-> 0, end |-> 0]]

\* Loaded and turned away: there is no track to play.
Empty == [tracks |-> <<>>, arrangement |-> <<>>, loop |-> [start |-> 0, end |-> 0]]

\* The multiple of q nearest to n, the even one if two are.
Nearest(n, q) ==
    LET below == n - (n % q)
    IN IF 2 * (n % q) < q \/ (2 * (n % q) = q /\ (below \div q) % 2 = 0)
       THEN below ELSE below + q

\* Doubles of three significant bits, for the numbers up to 32 that occur.
Coarse(n) == IF n < 8 THEN n ELSE IF n < 16 THEN Nearest(n, 2) ELSE Nearest(n, 4)

\* No slice is turned away because advance() may not be called with its ticks.
ASSUME SlicesFit ==
    \A g \in Gains, held \in 0 .. Fraction - 1 :
        Sum(held, g) >= Fraction => Sum(held, g) \div Fraction \in Deltas

MCFiles == {Unarranged, Arranged, Silent, Empty}
MCProjects == {WithArrangement(f) : f \in MCFiles}
=============================================================================
