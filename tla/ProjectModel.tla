---------------------------- MODULE ProjectModel ----------------------------
(***************************************************************************)
(* model::Project, Track and Pattern with the core value types they clamp  *)
(* into, as values.  Notes, patterns and tracks are the entries of their   *)
(* vectors, each with its id:                                              *)
(*   note    : [id, start, length, pitch, velocity];                       *)
(*   pattern : [id, length, notes], notes kept sorted by start;            *)
(*   track   : [id, channel, transpose, patterns];                         *)
(*   project : [tempo, meter, tracks, arrangement, mappings, loop].        *)
(* Names, mute and solo flags are left out: they are stored and never read.*)
(***************************************************************************)
EXTENDS Integers, FiniteSets, SequencesExt

Clamp(v, lo, hi) == IF v < lo THEN lo ELSE IF v > hi THEN hi ELSE v

\* Mutant of Bpm: the value is taken as it is.
BpmUnclamped(v) == v

\* The constructors of the core types.
Bpm(v)       == Clamp(v, 20, 999)
Pitch(v)     == Clamp(v, 0, 127)
Velocity(v)  == Clamp(v, 0, 127)
Channel(v)   == Clamp(v, 0, 15)
Transpose(v) == Clamp(v, -64, 64)
TimeSignature(num, den) ==
    [num |-> Clamp(num, 1, 32), den |-> IF den \in {1, 2, 4, 8, 16, 32} THEN den ELSE 4]

DefaultTempo == 120
NoRegion     == [start |-> 0, end |-> 0]
EmptyProject == [tempo |-> DefaultTempo, meter |-> TimeSignature(4, 4), tracks |-> <<>>,
                 arrangement |-> <<>>, mappings |-> <<>>, loop |-> NoRegion]

-----------------------------------------------------------------------------
(* Entries of a vector, found by id.                                       *)

IsValid(id)        == id # 0
HasId(entries, id) == \E i \in DOMAIN entries : entries[i].id = id
IndexOf(entries, id) == CHOOSE i \in DOMAIN entries : entries[i].id = id

\* add_pattern_with_id, add_track_with_id: refused if the id is 0 or taken.
AddWithId(entries, e) ==
    IF IsValid(e.id) /\ ~HasId(entries, e.id) THEN Append(entries, e) ELSE entries

-----------------------------------------------------------------------------
(* Pattern.                                                                *)

\* upper_bound by start, and insert there.
InsertByStart(notes, e) ==
    InsertAt(notes, 1 + Cardinality({i \in DOMAIN notes : notes[i].start <= e.start}), e)

\* add_note_with_id: the file's notes are put in order.
AddNoteWithId(notes, e) ==
    IF IsValid(e.id) /\ ~HasId(notes, e.id) THEN InsertByStart(notes, e) ELSE notes

\* Mutant of RemoveNoteFrom: the notes are told apart by their start.
RemoveStart(notes, id) ==
    LET start == notes[IndexOf(notes, id)].start
    IN SelectSeq(notes, LAMBDA n : n.start # start)

RemoveNoteFrom(notes, id) == RemoveAt(notes, IndexOf(notes, id))

\* The place of a note once the notes are sorted by start, equals in the order they had.
Rank(notes, i) ==
    Cardinality({j \in DOMAIN notes : \/ notes[j].start < notes[i].start
                                      \/ notes[j].start = notes[i].start /\ j <= i})

\* Mutant of StableSort: the note stays where it was in the vector.
Unsorted(notes) == notes

StableSort(notes) ==
    [k \in DOMAIN notes |-> notes[CHOOSE i \in DOMAIN notes : Rank(notes, i) = k]]

\* update_note: the note with e's id becomes e.
UpdateNote(notes, e) == StableSort([notes EXCEPT ![IndexOf(notes, e.id)] = e])

-----------------------------------------------------------------------------
(* Project.                                                                *)

\* find_track, then find_pattern: where the pattern is; no place, or one.
FindPattern(prj, trackId, patternId) ==
    {at \in UNION {{<<t, p>> : p \in DOMAIN prj.tracks[t].patterns} : t \in DOMAIN prj.tracks} :
        /\ prj.tracks[at[1]].id = trackId
        /\ prj.tracks[at[1]].patterns[at[2]].id = patternId}

PatternAt(prj, at) == prj.tracks[at[1]].patterns[at[2]]

WithNotes(prj, at, notes) ==
    [prj EXCEPT !.tracks[at[1]].patterns[at[2]].notes = notes]

\* add_port_mapping: labels are unique, a second one is ignored.
AddPortMapping(mappings, m) ==
    IF \E i \in DOMAIN mappings : mappings[i].label = m.label THEN mappings
    ELSE Append(mappings, m)

\* The note entries of all patterns, each with the pattern it is in.
NotesOf(prj) ==
    UNION {UNION {{[pattern |-> <<t, p>>, note |-> prj.tracks[t].patterns[p].notes[n]] :
                      n \in DOMAIN prj.tracks[t].patterns[p].notes} :
                  p \in DOMAIN prj.tracks[t].patterns} : t \in DOMAIN prj.tracks}
=============================================================================
