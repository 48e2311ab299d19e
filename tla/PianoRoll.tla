------------------------------ MODULE PianoRoll ------------------------------
(***************************************************************************)
(* The piano roll: PianoRollComponent (tools, selection, gestures),        *)
(* PianoRollEditor (pattern picker, the ids it edits under, its timer) and *)
(* the song view's double click, over AppController, while the File menu   *)
(* replaces the project at any moment.                                     *)
(*                                                                         *)
(* The roll keeps a raw pointer to the pattern it shows: `shown` is its    *)
(* place in the project and `dangling` says that the project it was taken  *)
(* from is gone.  Places on the screen are ticks and pitches; how many     *)
(* pixels they take, and so how wide a note's right edge is, is left open. *)
(* The picker calls onChange asynchronously: `notified`.  Nothing moves    *)
(* the position while this runs, so the playhead is left out.              *)
(***************************************************************************)
EXTENDS AppController

CONSTANTS
    PickerBase,    \* 10000 in encode_id
    Snaps,         \* the snap resolutions, in ticks
    DefaultSnap,
    Points,        \* where the mouse may be: [tick, pitch]
    Deltas,        \* how far it may be dragged, in ticks
    Stale,         \* what a hit test may read through a dangling pointer
    MaxEdits       \* bound: edits in a behaviour

\* The resolutions are divisors of a quarter note, each of the next.
ASSUME SnapAssumption ==
    /\ Snaps \subseteq Nat \ {0} /\ DefaultSnap \in Snaps
    /\ \E fine \in Snaps : \A s \in Snaps : s % fine = 0

\* x_to_tick and y_to_pitch clamp; a hit test reads some note, whatever is there.
ASSUME MouseAssumption ==
    /\ Points \subseteq [tick : Nat, pitch : 0 .. 127] /\ Deltas \subseteq Int
    /\ Stale \subseteq [id : Nat, start : Int, length : Int, pitch : Int, velocity : Int]

\* encode_id tells the patterns of a track apart as long as there are fewer than
\* PickerBase of them; only files bring patterns.
ASSUME RoomAssumption ==
    /\ PickerBase \in Nat \ {0}
    /\ \A files \in Files, path \in Paths :
          Loadable(files[path]) =>
              LET tracks == ProjectFrom(files[path].doc).tracks
              IN \A t \in DOMAIN tracks : Len(tracks[t].patterns) < PickerBase

VARIABLES
    tool, snap,
    selected,      \* selected_, 0 if none
    drag,          \* drag_: [mode, target, original, ghost]
    shown,         \* pattern_: the place <<track, pattern>> it was taken from, or no place
    dangling,
    comboId,       \* current_combo_id_
    picked,        \* pattern_picker_.getSelectedId()
    items,         \* the ids of the picker's items
    active,        \* active_track_id_, active_pattern_id_
    lastSignature, \* last_seen_project_signature_; no signature yet, or one
    notified,      \* the picker will call onChange
    edits          \* how many edits there have been

rollVars   == <<tool, snap, selected, drag, shown, dangling>>
editorVars == <<comboId, picked, items, active, lastSignature, notified>>
vars       == <<appVars, rollVars, editorVars, edits>>

-----------------------------------------------------------------------------
(* Data.                                                                   *)

SnapFloor(t, step) == (t \div step) * step

\* Tracks and patterns count from 1 here, from 0 in the source.
Encode(at) == at[1] * PickerBase + at[2]

\* Mutant of Decode: the pattern's index is taken as it is.
DecodeFromZero(id) == <<id \div PickerBase, (id % PickerBase) + 1>>

Decode(id) == <<id \div PickerBase, id % PickerBase>>

Places(prj) == UNION {{<<t, p>> : p \in DOMAIN prj.tracks[t].patterns} : t \in DOMAIN prj.tracks}
Items(prj)  == {Encode(at) : at \in Places(prj)}

\* Mutant of Signature: a track is told by its id alone.
SignatureOfTracks(prj) == [t \in DOMAIN prj.tracks |-> prj.tracks[t].id]

\* project_signature: the ids only, and the hash taken as injective.
Signature(prj) ==
    [t \in DOMAIN prj.tracks |->
        [id |-> prj.tracks[t].id,
         patterns |-> [p \in DOMAIN prj.tracks[t].patterns |-> prj.tracks[t].patterns[p].id]]]

NoNote   == [start |-> 0, length |-> 0, pitch |-> 0, velocity |-> 0]
NoDrag   == [mode |-> "none", target |-> 0, original |-> NoNote, ghost |-> NoNote]
NoActive == [track |-> 0, pattern |-> 0]

\* Mutant of ActiveAt: the track's first pattern is taken for the one at the place.
ActiveAtFirst(prj, at) ==
    [track |-> prj.tracks[at[1]].id, pattern |-> PatternAt(prj, <<at[1], 1>>).id]

ActiveAt(prj, at) == [track |-> prj.tracks[at[1]].id, pattern |-> PatternAt(prj, at).id]

NoteOf(e) ==
    [start |-> e.start, length |-> e.length, pitch |-> e.pitch, velocity |-> e.velocity]

-----------------------------------------------------------------------------
(* What the editor does to the roll.                                       *)

\* Mutant of SetPattern: the gesture and the selection go on.
SetPatternOnly(at) ==
    shown' = at /\ dangling' = FALSE /\ UNCHANGED <<selected, drag>>

SetPattern(at) ==
    shown' = at /\ dangling' = FALSE /\ selected' = 0 /\ drag' = NoDrag

\* apply_picker_selection with id selected.  An id beyond the project leaves the
\* roll and the active ids as they are: sel and drg are its selection and gesture.
ApplyPicker(prj, id, sel, drg) ==
    /\ comboId' = id
    /\ \/ id = 0 /\ active' = NoActive /\ SetPattern({})
       \/ /\ id # 0 /\ Decode(id) \in Places(prj)
          /\ active' = ActiveAt(prj, Decode(id)) /\ SetPattern({Decode(id)})
       \/ /\ id # 0 /\ Decode(id) \notin Places(prj)
          /\ selected' = sel /\ drag' = drg
          /\ UNCHANGED <<active, shown, dangling>>

First(ids) == CHOOSE i \in ids : \A j \in ids : i <= j

\* rebuild_pattern_picker: the id picked before if it still is one, or the first.
Rebuild(prj) ==
    /\ items' = Items(prj)
    /\ \/ items' = {} /\ picked' = 0
       \/ items' # {} /\ picked' = IF comboId \in items' THEN comboId ELSE First(items')
    /\ ApplyPicker(prj, picked', selected, drag)

\* The File menu: the pattern the roll shows goes with the old project.
Replaced ==
    /\ dangling' = (shown # {})
    /\ UNCHANGED <<tool, snap, selected, drag, shown, editorVars, edits>>

FileNew        == NewProject /\ Replaced
FileOpen(path) == OpenProject(path) /\ Replaced

-----------------------------------------------------------------------------
(* The picker.                                                             *)

\* timerCallback, 30 times a second; without a change it does nothing here.
TimerTick ==
    /\ {Signature(project)} # lastSignature
    /\ lastSignature' = {Signature(project)}
    /\ Rebuild(project)
    /\ UNCHANGED <<appVars, tool, snap, notified, edits>>

\* Mutant of Select: the id is taken, item or not.
SelectAny(id) ==
    /\ picked' = id
    /\ picked' # picked
    /\ notified' = TRUE
    /\ UNCHANGED <<appVars, rollVars, comboId, items, active, lastSignature, edits>>

\* setSelectedId: an id that is no item selects nothing.
Select(id) ==
    /\ picked' = IF id \in items THEN id ELSE 0
    /\ picked' # picked
    /\ notified' = TRUE
    /\ UNCHANGED <<appVars, rollVars, comboId, items, active, lastSignature, edits>>

PickItem(id) == id \in items /\ Select(id)

PickerChanged ==
    /\ notified
    /\ notified' = FALSE
    /\ ApplyPicker(project, picked, selected, drag)
    /\ UNCHANGED <<appVars, tool, snap, picked, items, lastSignature, edits>>

\* The pattern of the first placement on the track at `row` that covers tick.
Covers(pl, row, tick) ==
    /\ pl.track = project.tracks[row].id
    /\ \E p \in DOMAIN project.tracks[row].patterns :
          /\ project.tracks[row].patterns[p].id = pl.pattern
          /\ pl.start <= tick /\ tick < pl.start + project.tracks[row].patterns[p].length

\* select_pattern, if there is that pattern.
SelectPattern(t, p) == \E at \in FindPattern(project, t, p) : Select(Encode(at))

\* SongView's double click.
DoubleClick(row, tick) ==
    /\ row \in DOMAIN project.tracks
    /\ \E i \in DOMAIN project.arrangement :
          /\ Covers(project.arrangement[i], row, tick)
          /\ \A j \in 1 .. i - 1 : ~Covers(project.arrangement[j], row, tick)
          /\ SelectPattern(project.arrangement[i].track, project.arrangement[i].pattern)

PickerStep ==
    \/ TimerTick \/ PickerChanged
    \/ \E id \in items : PickItem(id)
    \/ \E row \in DOMAIN project.tracks, pt \in Points : DoubleClick(row, pt.tick)

-----------------------------------------------------------------------------
(* The editor's listener: an edit under the active ids, and the roll bound *)
(* anew.                                                                   *)

ActiveIsValid == active.track # 0 /\ active.pattern # 0

Found(n) ==
    \E at \in FindPattern(project, active.track, active.pattern) :
        HasId(PatternAt(project, at).notes, n)

\* Rebound after an operation of the controller, which may find nothing to do.
Rebound(sel, drg) ==
    /\ ApplyPicker(project', picked, sel, drg)
    /\ UNCHANGED <<tool, snap, picked, items, lastSignature, notified>>

Ignored(sel, drg) ==
    /\ ~ActiveIsValid
    /\ selected' = sel /\ drag' = drg
    /\ UNCHANGED <<appVars, tool, snap, shown, dangling, editorVars, edits>>

FoundNothing(sel, drg) == UNCHANGED <<appVars, edits>> /\ Rebound(sel, drg)

Counted == edits < MaxEdits /\ edits' = edits + 1

RollAddNote(note) ==
    \/ Ignored(selected, NoDrag)
    \/ ActiveIsValid /\ Counted /\ AddNote(active.track, active.pattern, note) /\ Rebound(selected, NoDrag)
    \/ /\ ActiveIsValid /\ FindPattern(project, active.track, active.pattern) = {}
       /\ FoundNothing(selected, NoDrag)

RollRemoveNote(n, sel, drg) ==
    \/ Ignored(sel, drg)
    \/ /\ ActiveIsValid /\ Counted
       /\ RemoveNote(active.track, active.pattern, n) /\ Rebound(sel, drg)
    \/ ActiveIsValid /\ ~Found(n) /\ FoundNothing(sel, drg)

RollMoveNote(n, start, pitch) ==
    \/ Ignored(selected, NoDrag)
    \/ /\ ActiveIsValid /\ Counted
       /\ MoveNote(active.track, active.pattern, n, start, pitch) /\ Rebound(selected, NoDrag)
    \/ ActiveIsValid /\ ~Found(n) /\ FoundNothing(selected, NoDrag)

RollResizeNote(n, length) ==
    \/ Ignored(selected, NoDrag)
    \/ /\ ActiveIsValid /\ Counted
       /\ ResizeNote(active.track, active.pattern, n, length) /\ Rebound(selected, NoDrag)
    \/ ActiveIsValid /\ ~Found(n) /\ FoundNothing(selected, NoDrag)

-----------------------------------------------------------------------------
(* Gestures.                                                               *)

\* hit_test: the note drawn last of those under the point; no note, or one.
Under(notes, pt) ==
    {i \in DOMAIN notes : /\ notes[i].pitch = pt.pitch
                          /\ notes[i].start <= pt.tick
                          /\ pt.tick < notes[i].start + notes[i].length}

HitTest(pt) ==
    IF dangling THEN Stale
    ELSE UNION {LET notes == PatternAt(project, at).notes
                    under == Under(notes, pt)
                IN {notes[i] : i \in {j \in under : \A k \in under : k <= j}} : at \in shown}

EditorOnly == UNCHANGED <<appVars, tool, snap, shown, dangling, editorVars, edits>>

SetTool(t) ==
    /\ tool # t
    /\ tool' = t /\ drag' = NoDrag
    /\ selected' = IF t = "select" THEN selected ELSE 0
    /\ UNCHANGED <<appVars, snap, shown, dangling, editorVars, edits>>

SetSnap(s) ==
    /\ snap' = s
    /\ UNCHANGED <<appVars, tool, selected, drag, shown, dangling, editorVars, edits>>

DeleteSelected == selected # 0 /\ RollRemoveNote(selected, 0, drag)

\* A button goes down only after it came up, and then there is no gesture.
MouseDown == drag = NoDrag

EraseDown(pt) ==
    /\ MouseDown /\ tool = "erase"
    /\ \E e \in HitTest(pt) : RollRemoveNote(e.id, selected, NoDrag)

DrawDown(pt) ==
    /\ MouseDown /\ tool = "draw"
    /\ drag' = [NoDrag EXCEPT !.mode = "create",
                !.ghost = [start |-> SnapFloor(pt.tick, snap), length |-> snap,
                           pitch |-> pt.pitch, velocity |-> 100]]
    /\ UNCHANGED selected /\ EditorOnly

\* Whether the point is near enough to the right edge depends on the zoom.
SelectDown(pt) ==
    /\ MouseDown /\ tool = "select"
    /\ \/ /\ ~dangling => HitTest(pt) = {}
          /\ selected' = 0 /\ UNCHANGED drag
       \/ \E e \in HitTest(pt), mode \in {"move", "resize"} :
             /\ selected' = e.id
             /\ drag' = [mode |-> mode, target |-> e.id,
                         original |-> NoteOf(e), ghost |-> NoteOf(e)]
    /\ EditorOnly

DragCreating(pt) ==
    /\ drag.mode = "create"
    /\ drag' = [drag EXCEPT
          !.ghost.length = AtLeast(snap, SnapFloor(pt.tick, snap) + snap - drag.ghost.start),
          !.ghost.pitch = pt.pitch]
    /\ UNCHANGED selected /\ EditorOnly

\* Mutant of DragMoving: the start follows the mouse, off the grid.
DragMovingFreely(d, pitch) ==
    /\ drag.mode = "move"
    /\ drag' = [drag EXCEPT !.ghost.start = AtLeast(0, drag.original.start + d),
                            !.ghost.pitch = pitch]
    /\ UNCHANGED selected /\ EditorOnly

DragMoving(d, pitch) ==
    /\ drag.mode = "move"
    /\ drag' = [drag EXCEPT
          !.ghost.start = SnapFloor(AtLeast(0, drag.original.start + d), snap),
          !.ghost.pitch = pitch]
    /\ UNCHANGED selected /\ EditorOnly

\* The end is put on the grid, unless that makes the note shorter than a step.
DragResizing(d) ==
    /\ drag.mode = "resize"
    /\ LET start == drag.original.start
           end   == start + AtLeast(snap, drag.original.length + d)
       IN drag' = [drag EXCEPT !.ghost.length = AtLeast(snap, SnapFloor(end, snap) - start)]
    /\ UNCHANGED selected /\ EditorOnly

MouseUp ==
    \/ drag.mode = "create" /\ RollAddNote(drag.ghost)
    \/ /\ drag.mode = "move"
       /\ \/ drag.ghost.start # drag.original.start
          \/ drag.ghost.pitch # drag.original.pitch
       /\ RollMoveNote(drag.target, drag.ghost.start, drag.ghost.pitch)
    \/ /\ drag.mode = "resize"
       /\ drag.ghost.length # drag.original.length
       /\ RollResizeNote(drag.target, drag.ghost.length)
    \/ /\ drag.mode \in {"move", "resize"} /\ drag.ghost = drag.original
       /\ drag' = NoDrag /\ UNCHANGED selected /\ EditorOnly

GestureStep ==
    \/ DeleteSelected \/ MouseUp
    \/ \E t \in {"select", "draw", "erase"} : SetTool(t)
    \/ \E s \in Snaps : SetSnap(s)
    \/ \E pt \in Points : \/ EraseDown(pt) \/ DrawDown(pt) \/ SelectDown(pt) \/ DragCreating(pt)
    \/ \E d \in Deltas : \/ DragResizing(d)
                         \/ \E pt \in Points : DragMoving(d, pt.pitch)

-----------------------------------------------------------------------------
(* The application with an empty project, the roll with nothing to show.   *)

Init ==
    /\ plugged = Devices /\ disk \in Files /\ edits = 0
    /\ Launched(NoDevice)
    /\ tool = "select" /\ snap = DefaultSnap /\ selected = 0 /\ drag = NoDrag
    /\ shown = {} /\ dangling = FALSE
    /\ comboId = 0 /\ picked = 0 /\ items = {} /\ active = NoActive
    /\ lastSignature = {} /\ notified = FALSE

Next ==
    \/ PickerStep \/ GestureStep
    \/ FileNew \/ \E path \in Paths : FileOpen(path)

Spec == Init /\ [][Next]_vars

\* JUCE keeps calling the timer and delivers its notifications.
FairSpec == Spec /\ WF_vars(TimerTick) /\ WF_vars(PickerChanged)
-----------------------------------------------------------------------------
(* Properties.                                                             *)

\* Every variable holds a value of its type.
TypeOK ==
    /\ tool \in {"select", "draw", "erase"} /\ snap \in Snaps
    /\ selected \in Nat
    /\ drag.mode \in {"none", "create", "move", "resize"}
    /\ Cardinality(shown) <= 1 /\ dangling \in BOOLEAN /\ notified \in BOOLEAN
    /\ comboId \in Nat /\ items \subseteq Nat \ {0} /\ picked \in items \cup {0}
    /\ Cardinality(lastSignature) <= 1

\* An edit goes to the pattern on the screen: while the roll's pattern is alive it
\* is the one the active ids name in the project, and with nothing on the screen
\* there are no active ids.
EditsGoWhereShown ==
    ~dangling =>
        /\ shown = {} => active = NoActive
        /\ shown \subseteq FindPattern(project, active.track, active.pattern)

\* The selected note and the note of a gesture are notes of the pattern on the
\* screen.  (While the picker is behind, an id beyond the project can be picked,
\* and the gesture on a note that is deleted goes on without it.)
GestureHasNote ==
    ~dangling /\ items = Items(project) =>
        \A at \in shown, n \in {selected, drag.target} \ {0} :
            HasId(PatternAt(project, at).notes, n)

\* The pattern on the screen is the one the picker names, once its notification
\* has come and it offers the patterns the project has.  (Nothing may be on the
\* screen: an id that is beyond the project when it is applied shows nothing,
\* and a project that has it again may come with the signature seen last.)
PickerShowsPattern ==
    ~dangling /\ ~notified /\ items = Items(project) /\ shown # {} =>
        {Encode(at) : at \in shown} = {picked} /\ comboId = picked

\* Gestures put notes on the grid: a note that was drawn, moved or resized starts
\* where it did or on the grid, not before 0, and ends on the grid or one step
\* after its start, whatever the snap was when the gesture began.  (A gesture
\* that survives its project may end on a note it was not computed for.)
Fine == CHOOSE s \in Snaps : \A t \in Snaps : s <= t

OnGrid ==
    [][edits' # edits /\ ~dangling =>
          \A n \in NotesOf(project') \ NotesOf(project) :
              LET old == {m.note : m \in {k \in NotesOf(project) :
                                k.pattern = n.pattern /\ k.note.id = n.note.id}}
              IN /\ \/ n.note.start % Fine = 0 /\ n.note.start >= 0
                    \/ \E m \in old : m.start = n.note.start
                 /\ \/ (n.note.start + n.note.length) % Fine = 0
                    \/ n.note.length \in Snaps
                    \/ \E m \in old : m.length = n.note.length]_vars

\* The picker's items come to have the ids of the project's patterns, after every
\* New and Open.  A label may stay old, when all ids stay and a name does not.
PickerCatchesUp == items # Items(project) ~> items = Items(project)

\* PianoRollComponent.hpp: the caller must keep the pattern alive while it is set.
ObservedAlive == ~dangling
=============================================================================
