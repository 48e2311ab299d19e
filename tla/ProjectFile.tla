----------------------------- MODULE ProjectFile -----------------------------
(***************************************************************************)
(* io::ProjectIO and the JSON mapping of Serialization: what a file holds, *)
(* what loading it makes of that and what saving writes.                   *)
(*                                                                         *)
(* A path holds nothing, text that is not JSON (the beginning of a file    *)
(* whose writing was cut short), JSON that is not a project, or a document.*)
(* A document has the fields of a project in the order of the file: ids    *)
(* may be missing (0) or repeated, numbers out of range, notes unsorted;   *)
(* `loop` holds the optional region.                                       *)
(***************************************************************************)
EXTENDS ProjectModel

Absent     == [kind |-> "absent"]
Torn       == [kind |-> "torn"]
Malformed  == [kind |-> "malformed"]
File(doc)  == [kind |-> "document", doc |-> doc]

CurrentSchemaVersion == 1

\* from_json_string gets as far as a project: the text parses, is of a known
\* version and has every field.
Loadable(content) ==
    /\ content.kind = "document"
    /\ content.doc.version <= CurrentSchemaVersion

-----------------------------------------------------------------------------
(* The types of a document's fields: get<> of a field that has another one *)
(* throws, and the file does not load.                                     *)

DocNotes    == [id : Nat, start : Int, length : Int, pitch : Int, velocity : Int]
DocPatterns == [id : Nat, length : Int, notes : Seq(DocNotes)]
DocTracks   == [id : Nat, channel : Int, transpose : Int, patterns : Seq(DocPatterns)]
Mappings    == [label : STRING, device : STRING]

IsDocument(doc) ==
    /\ doc.tempo \in Int /\ doc.meter \in [num : Int, den : Int]
    /\ doc.tracks \in Seq(DocTracks) /\ doc.mappings \in Seq(Mappings)

-----------------------------------------------------------------------------
(* from_json.                                                              *)

NoteFrom(d) ==
    [id |-> d.id, start |-> d.start, length |-> d.length,
     pitch |-> Pitch(d.pitch), velocity |-> Velocity(d.velocity)]

PatternFrom(d) ==
    [id |-> d.id, length |-> d.length,
     notes |-> FoldLeft(AddNoteWithId, <<>>, [i \in DOMAIN d.notes |-> NoteFrom(d.notes[i])])]

TrackFrom(d) ==
    [id |-> d.id, channel |-> Channel(d.channel), transpose |-> Transpose(d.transpose),
     patterns |-> FoldLeft(AddWithId, <<>>, [i \in DOMAIN d.patterns |-> PatternFrom(d.patterns[i])])]

ProjectFrom(d) ==
    [tempo       |-> Bpm(d.tempo),
     meter       |-> TimeSignature(d.meter.num, d.meter.den),
     tracks      |-> FoldLeft(AddWithId, <<>>, [i \in DOMAIN d.tracks |-> TrackFrom(d.tracks[i])]),
     arrangement |-> d.arrangement,
     mappings    |-> FoldLeft(AddPortMapping, <<>>, d.mappings),
     loop        |-> IF d.loop = {} THEN NoRegion ELSE CHOOSE r \in d.loop : TRUE]

-----------------------------------------------------------------------------
(* to_json.                                                                *)

NoteTo(n) ==
    [id |-> n.id, pitch |-> n.pitch, start |-> n.start, length |-> n.length,
     velocity |-> n.velocity]

PatternTo(p) ==
    [id |-> p.id, length |-> p.length, notes |-> [i \in DOMAIN p.notes |-> NoteTo(p.notes[i])]]

TrackTo(t) ==
    [id |-> t.id, channel |-> t.channel, transpose |-> t.transpose,
     patterns |-> [i \in DOMAIN t.patterns |-> PatternTo(t.patterns[i])]]

\* to_json_string, with the schema version.
ProjectTo(prj) ==
    [version |-> CurrentSchemaVersion, tempo |-> prj.tempo, meter |-> prj.meter,
     tracks |-> [i \in DOMAIN prj.tracks |-> TrackTo(prj.tracks[i])],
     arrangement |-> prj.arrangement, mappings |-> prj.mappings, loop |-> {prj.loop}]

-----------------------------------------------------------------------------
(* The id counter of the notes (module IdCounter has its threads).         *)

\* Mutant of BumpNoteIds: the counter is left where it was.
BumpNothing(counter, prj) == counter

\* bump_id_counters: ensure_next_at_least(id + 1) for every note of the project.
BumpNoteIds(counter, prj) ==
    LET ids == {counter} \cup {n.note.id : n \in NotesOf(prj)}
    IN CHOOSE c \in ids : \A d \in ids : d <= c
=============================================================================
