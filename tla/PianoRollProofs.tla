--------------------------- MODULE PianoRollProofs ---------------------------
(***************************************************************************)
(* Proofs about PianoRoll, for all projects, picker bases, snaps, places   *)
(* of the mouse and bounds.                                                *)
(***************************************************************************)
EXTENDS PianoRoll, ProjectProofs

\* The places of a project's patterns.
LEMMA PlaceIs ==
  ASSUME NEW prj, NEW at
  PROVE  at \in Places(prj) <=>
            \E a \in DOMAIN prj.tracks : \E b \in DOMAIN prj.tracks[a].patterns : at = <<a, b>>
  BY DEF Places

LEMMA FoundIs ==
  ASSUME NEW prj, NEW x, NEW y, NEW at
  PROVE  at \in FindPattern(prj, x, y) <=>
            \E a \in DOMAIN prj.tracks : \E b \in DOMAIN prj.tracks[a].patterns :
                /\ at = <<a, b>>
                /\ prj.tracks[a].id = x /\ prj.tracks[a].patterns[b].id = y
<1> DEFINE All == UNION {{<<t, p>> : p \in DOMAIN prj.tracks[t].patterns} : t \in DOMAIN prj.tracks}
<1>1. at \in All <=>
         \E a \in DOMAIN prj.tracks : \E b \in DOMAIN prj.tracks[a].patterns : at = <<a, b>>
  OBVIOUS
<1>2. at \in FindPattern(prj, x, y) <=>
         /\ at \in All
         /\ prj.tracks[at[1]].id = x
         /\ prj.tracks[at[1]].patterns[at[2]].id = y
  BY DEF FindPattern
<1> HIDE DEF All
<1>3. QED
  BY <1>1, <1>2

\* A pattern that is bound in the roll is found under the ids of its place.
LEMMA ActiveFinds ==
  ASSUME NEW prj, NEW at \in Places(prj)
  PROVE  at \in FindPattern(prj, ActiveAt(prj, at).track, ActiveAt(prj, at).pattern)
<1>1. PICK a \in DOMAIN prj.tracks : \E b \in DOMAIN prj.tracks[a].patterns : at = <<a, b>>
  BY PlaceIs
<1>2. PICK b \in DOMAIN prj.tracks[a].patterns : at = <<a, b>>
  BY <1>1
<1>3. /\ ActiveAt(prj, at).track = prj.tracks[a].id
      /\ ActiveAt(prj, at).pattern = prj.tracks[a].patterns[b].id
  BY <1>2 DEF ActiveAt, PatternAt
<1>4. QED
  BY <1>2, <1>3, FoundIs

\* Editing notes leaves every pattern where it was.
LEMMA EditFinds ==
  ASSUME NEW prj, NEW to, NEW notes, NEW x, NEW y, NEW at \in FindPattern(prj, x, y)
  PROVE  at \in FindPattern(WithNotes(prj, to, notes), x, y)
<1> DEFINE new == WithNotes(prj, to, notes)
<1>1. PICK a \in DOMAIN prj.tracks : \E b \in DOMAIN prj.tracks[a].patterns :
         at = <<a, b>> /\ prj.tracks[a].id = x /\ prj.tracks[a].patterns[b].id = y
  BY FoundIs
<1>2. PICK b \in DOMAIN prj.tracks[a].patterns :
         at = <<a, b>> /\ prj.tracks[a].id = x /\ prj.tracks[a].patterns[b].id = y
  BY <1>1
<1>3. a \in DOMAIN new.tracks /\ new.tracks[a].id = x
  BY <1>2 DEF WithNotes
<1>4. /\ DOMAIN new.tracks[a].patterns = DOMAIN prj.tracks[a].patterns
      /\ new.tracks[a].patterns[b].id = y
  BY <1>2 DEF WithNotes
<1> HIDE DEF new
<1>5. at \in FindPattern(new, x, y)
  BY <1>2, <1>3, <1>4, FoundIs
<1>6. QED
  BY <1>5 DEF new

-----------------------------------------------------------------------------
(* The active ids.                                                         *)

\* EditsGoWhereShown says nothing while the pattern is dangling; that there are
\* no active ids without a pattern holds then, too.
ShownInv ==
    /\ shown = {} => active = NoActive
    /\ ~dangling => shown \subseteq FindPattern(project, active.track, active.pattern)

\* What keeps the active pattern in its place may be followed by anything the
\* picker does.
LEMMA ApplyKeeps ==
  ASSUME ShownInv, NEW id, NEW sel, NEW drg, ApplyPicker(project', id, sel, drg),
         \A at \in FindPattern(project, active.track, active.pattern) :
             at \in FindPattern(project', active.track, active.pattern)
  PROVE  ShownInv'
<1>1. CASE id = 0
  BY <1>1 DEF ApplyPicker, SetPattern, ShownInv
<1>2. CASE Decode(id) \in Places(project') /\ active' = ActiveAt(project', Decode(id))
           /\ SetPattern({Decode(id)})
  <2>1. Decode(id) \in FindPattern(project', active'.track, active'.pattern)
    BY <1>2, ActiveFinds
  <2>2. QED
    BY <1>2, <2>1 DEF SetPattern, ShownInv
<1>3. CASE UNCHANGED <<active, shown, dangling>>
  BY <1>3 DEF ShownInv
<1>4. QED
  BY <1>1, <1>2, <1>3 DEF ApplyPicker

LEMMA SameShown ==
  ASSUME ShownInv, UNCHANGED <<shown, dangling, active, project>>
  PROVE  ShownInv'
  BY DEF ShownInv

\* The listener: an edit, or nothing, and the roll is bound anew.
LEMMA ReboundKeeps ==
  ASSUME ShownInv, NEW sel, NEW drg, Rebound(sel, drg),
         \/ UNCHANGED project
         \/ \E t, p, to, notes : /\ to \in FindPattern(project, t, p)
                                 /\ Edited(WithNotes(project, to, notes))
  PROVE  ShownInv'
<1>1. \A at \in FindPattern(project, active.track, active.pattern) :
          at \in FindPattern(project', active.track, active.pattern)
  BY EditFinds DEF Edited
<1>2. QED
  BY <1>1, ApplyKeeps DEF Rebound

LEMMA EditsKeep ==
  ASSUME ShownInv, NEW n, NEW note, NEW start, NEW pitch, NEW length, NEW sel, NEW drg,
         \/ RollAddNote(note)
         \/ RollRemoveNote(n, sel, drg)
         \/ RollMoveNote(n, start, pitch)
         \/ RollResizeNote(n, length)
  PROVE  ShownInv'
<1> DEFINE EditOf == \E t, p, to, notes : /\ to \in FindPattern(project, t, p)
                                          /\ Edited(WithNotes(project, to, notes))
<1>1. CASE \E s, d : Ignored(s, d)
  BY <1>1, SameShown DEF Ignored, appVars, memoryVars, editorVars
<1>2. CASE \E s, d : FoundNothing(s, d)
  BY <1>2, ReboundKeeps DEF FoundNothing, appVars, memoryVars
<1>3. ASSUME NEW s, NEW d, Rebound(s, d),
             \/ AddNote(active.track, active.pattern, note)
             \/ RemoveNote(active.track, active.pattern, n)
             \/ MoveNote(active.track, active.pattern, n, start, pitch)
             \/ ResizeNote(active.track, active.pattern, n, length)
      PROVE  ShownInv'
  <2>1. EditOf
    BY <1>3 DEF AddNote, RemoveNote, MoveNote, ResizeNote, ChangeNote
  <2>2. QED
    BY <1>3, <2>1, ReboundKeeps
<1>4. QED
  BY <1>1, <1>2, <1>3 DEF RollAddNote, RollRemoveNote, RollMoveNote, RollResizeNote

LEMMA GesturesKeep == ShownInv /\ GestureStep => ShownInv'
<1> SUFFICES ASSUME ShownInv, GestureStep PROVE ShownInv'
  OBVIOUS
<1>1. CASE DeleteSelected
  BY <1>1, EditsKeep DEF DeleteSelected
<1>2. CASE MouseUp
  <2>1. CASE EditorOnly
    BY <2>1, SameShown DEF EditorOnly, appVars, memoryVars, editorVars
  <2>2. QED
    BY <1>2, <2>1, EditsKeep DEF MouseUp
<1>3. ASSUME NEW pt, EraseDown(pt) PROVE ShownInv'
  BY <1>3, EditsKeep DEF EraseDown
<1>4. CASE UNCHANGED <<shown, dangling, active, project>>
  BY <1>4, SameShown
<1>5. CASE \/ \E t : SetTool(t)
           \/ \E s : SetSnap(s)
           \/ \E pt : DrawDown(pt) \/ SelectDown(pt) \/ DragCreating(pt)
           \/ \E d : DragResizing(d)
           \/ \E d, pitch : DragMoving(d, pitch)
  BY <1>4, <1>5 DEF SetTool, SetSnap, DrawDown, SelectDown, DragCreating, DragResizing,
                    DragMoving, EditorOnly, appVars, memoryVars, editorVars
<1>6. QED
  BY <1>1, <1>2, <1>3, <1>5 DEF GestureStep

LEMMA PickerKeeps == ShownInv /\ PickerStep => ShownInv'
<1> SUFFICES ASSUME ShownInv, PickerStep PROVE ShownInv'
  OBVIOUS
<1>1. CASE TimerTick
  <2>1. ApplyPicker(project', picked', selected, drag) /\ UNCHANGED project
    BY <1>1 DEF TimerTick, Rebuild, appVars, memoryVars
  <2>2. QED
    BY <2>1, ApplyKeeps
<1>2. CASE PickerChanged
  <2>1. ApplyPicker(project', picked, selected, drag) /\ UNCHANGED project
    BY <1>2 DEF PickerChanged, appVars, memoryVars
  <2>2. QED
    BY <2>1, ApplyKeeps
<1>3. CASE \E id : Select(id)
  BY <1>3, SameShown DEF Select, appVars, memoryVars, rollVars
<1>4. QED
  BY <1>1, <1>2, <1>3 DEF PickerStep, PickItem, DoubleClick, SelectPattern

LEMMA ReplacingKeeps ==
  ASSUME ShownInv, Replaced
  PROVE  ShownInv'
  BY DEF ShownInv, Replaced, editorVars

LEMMA ShownStep == ShownInv /\ [Next]_vars => ShownInv'
<1> SUFFICES ASSUME ShownInv, [Next]_vars PROVE ShownInv'
  OBVIOUS
<1>1. CASE FileNew \/ \E path \in Paths : FileOpen(path)
  BY <1>1, ReplacingKeeps DEF FileNew, FileOpen
<1>2. CASE UNCHANGED vars
  BY <1>2, SameShown DEF vars, appVars, memoryVars, rollVars, editorVars
<1>3. QED
  BY <1>1, <1>2, PickerKeeps, GesturesKeep DEF Next

\* Whatever is picked, opened, drawn and dragged: while the pattern on the screen
\* is alive, it is the one that edits go to.
THEOREM EditsReachShown == Spec => []EditsGoWhereShown
<1>1. Init => ShownInv
  BY DEF Init, ShownInv
<1>2. ShownInv => EditsGoWhereShown
  BY DEF ShownInv, EditsGoWhereShown
<1>3. QED
  BY <1>1, <1>2, ShownStep, PTL DEF Spec

-----------------------------------------------------------------------------
(* The picker's ids.                                                       *)

Roomy(prj) == \A t \in DOMAIN prj.tracks : Len(prj.tracks[t].patterns) < PickerBase

LEMMA PlaceNumbers ==
  ASSUME NEW prj, WellFormed(prj), Roomy(prj), NEW at \in Places(prj)
  PROVE  \E a \in Nat \ {0} : \E b \in 1 .. PickerBase - 1 : at = <<a, b>> /\ At(prj, a, b)
<1>1. PICK a \in DOMAIN prj.tracks : \E b \in DOMAIN prj.tracks[a].patterns : at = <<a, b>>
  BY PlaceIs
<1>2. PICK b \in DOMAIN prj.tracks[a].patterns : at = <<a, b>>
  BY <1>1
<1>3. At(prj, a, b)
  BY <1>1, <1>2 DEF At
<1>4. prj.tracks \in Seq(Tracks) /\ prj.tracks[a].patterns \in Seq(Patterns)
  BY <1>3, WellFormedAt DEF Uniques
<1>5. /\ DOMAIN prj.tracks = 1 .. Len(prj.tracks) /\ Len(prj.tracks) \in Nat
      /\ DOMAIN prj.tracks[a].patterns = 1 .. Len(prj.tracks[a].patterns)
      /\ Len(prj.tracks[a].patterns) \in Nat
  BY <1>4, IsList
<1>6. Len(prj.tracks[a].patterns) < PickerBase
  BY DEF Roomy
<1>7. a \in Nat \ {0} /\ b \in 1 .. PickerBase - 1
  BY <1>1, <1>2, <1>5, <1>6, RoomAssumption
<1>8. QED
  BY <1>2, <1>3, <1>7

LEMMA DivMod ==
  ASSUME NEW B \in Nat \ {0}, NEW a \in Nat, NEW b \in 0 .. B - 1
  PROVE  (a * B + b) \div B = a /\ (a * B + b) % B = b
<1> DEFINE n == a * B + b
           q == n \div B
<1>1. n \in Nat /\ q \in Nat /\ n % B \in 0 .. B - 1 /\ n = B * q + (n % B)
  OBVIOUS
<1>2. QED
  OBVIOUS

LEMMA DecodedItem ==
  ASSUME NEW prj, WellFormed(prj), Roomy(prj), NEW at \in Places(prj)
  PROVE  Encode(at) \in Nat \ {0} /\ Decode(Encode(at)) = at
<1>1. PICK a \in Nat \ {0} : \E b \in 1 .. PickerBase - 1 : at = <<a, b>>
  BY PlaceNumbers
<1>2. PICK b \in 1 .. PickerBase - 1 : at = <<a, b>>
  BY <1>1
<1>3. PickerBase \in Nat \ {0} /\ b \in 0 .. PickerBase - 1
  BY RoomAssumption
<1>4. Encode(at) = a * PickerBase + b
  BY <1>2 DEF Encode
<1>5. a * PickerBase \in Nat
  BY <1>3
<1>6. /\ (a * PickerBase + b) \div PickerBase = a
      /\ (a * PickerBase + b) % PickerBase = b
  BY <1>3, DivMod
<1>7. QED
  BY <1>2, <1>4, <1>5, <1>6 DEF Decode

LEMMA EncodedItem == ASSUME NEW id \in Nat PROVE Encode(Decode(id)) = id
<1>1. id = PickerBase * (id \div PickerBase) + (id % PickerBase)
  BY RoomAssumption
<1>2. QED
  BY <1>1, RoomAssumption DEF Encode, Decode

LEMMA ItemsAre ==
  ASSUME NEW prj, WellFormed(prj), Roomy(prj)
  PROVE  /\ Items(prj) \subseteq Nat \ {0}
         /\ \A id \in Items(prj) : Decode(id) \in Places(prj)
  BY DecodedItem DEF Items

LEMMA FirstIs ==
  ASSUME NEW ids, ids \subseteq Nat, ids # {}
  PROVE  First(ids) \in ids
<1>1. \E i \in ids : \A j \in ids : i <= j
  BY LeastNumber
<1>2. QED
  BY <1>1 DEF First

\* Editing notes moves no pattern.
LEMMA EditedPlaces ==
  ASSUME NEW prj, WellFormed(prj), NEW a, NEW b, At(prj, a, b), NEW notes
  PROVE  /\ Places(WithNotes(prj, <<a, b>>, notes)) = Places(prj)
         /\ Items(WithNotes(prj, <<a, b>>, notes)) = Items(prj)
         /\ Roomy(prj) => Roomy(WithNotes(prj, <<a, b>>, notes))
<1> DEFINE new == WithNotes(prj, <<a, b>>, notes)
<1>1. Rewritten(prj, new, a, b, notes)
  BY WithNotesIs
<1> HIDE DEF new
<1>2. /\ DOMAIN new.tracks = DOMAIN prj.tracks
      /\ \A c \in DOMAIN prj.tracks : DOMAIN new.tracks[c].patterns = DOMAIN prj.tracks[c].patterns
  BY <1>1 DEF Rewritten
<1>3. \A at : at \in Places(new) <=> at \in Places(prj)
  BY <1>2, PlaceIs
<1>4. Places(new) = Places(prj)
  BY <1>3
<1>5. Items(new) = Items(prj)
  BY <1>4 DEF Items
<1>6. Roomy(prj) => Roomy(new)
  <2> SUFFICES ASSUME Roomy(prj), NEW c \in DOMAIN prj.tracks
               PROVE  Len(new.tracks[c].patterns) < PickerBase
    BY <1>2 DEF Roomy
  <2>1. CASE c # a
    BY <1>1, <2>1 DEF Rewritten, Roomy
  <2>2. CASE c = a
    <3> DEFINE s == prj.tracks[a].patterns
               t == new.tracks[a].patterns
    <3>1. t = [s EXCEPT ![b] = t[b]]
      BY <1>1 DEF Rewritten
    <3>2. s \in Seq(Patterns)
      BY WellFormedAt DEF Uniques
    <3>3. Len(s) \in Nat /\ DOMAIN s = 1 .. Len(s)
      BY <3>2, IsList
    <3>4. Len(s) < PickerBase
      BY <2>2 DEF Roomy
    <3> HIDE DEF s, t
    <3>5. t \in [1 .. Len(s) -> {t[i] : i \in 1 .. Len(s)}]
      BY <3>1, <3>3
    <3>6. t \in Seq({t[i] : i \in 1 .. Len(s)}) /\ Len(t) = Len(s)
      BY <3>3, <3>5, SeqDef, LenProperties
    <3>7. QED
      BY <2>2, <3>4, <3>6 DEF t
  <2>3. QED
    BY <2>1, <2>2
<1>7. QED
  BY <1>4, <1>5, <1>6 DEF new

\* A pattern's ids lead to one place.
LEMMA FoundOnce ==
  ASSUME NEW prj, WellFormed(prj), NEW x, NEW y,
         NEW at \in FindPattern(prj, x, y), NEW to \in FindPattern(prj, x, y)
  PROVE  at = to
<1>1. PICK a, b : /\ At(prj, a, b) /\ at = <<a, b>>
                  /\ prj.tracks[a].id = x /\ prj.tracks[a].patterns[b].id = y
  BY FoundAt
<1>2. PICK c, d : /\ At(prj, c, d) /\ to = <<c, d>>
                  /\ prj.tracks[c].id = x /\ prj.tracks[c].patterns[d].id = y
  BY FoundAt
<1>3. prj.tracks \in Uniques(Tracks) /\ prj.tracks[a].patterns \in Uniques(Patterns)
  BY <1>1, WellFormedAt
<1>4. a = c
  BY <1>1, <1>2, <1>3 DEF Uniques, Proper, At
<1>5. b = d
  BY <1>1, <1>2, <1>3, <1>4 DEF Uniques, Proper, At
<1>6. QED
  BY <1>1, <1>2, <1>4, <1>5

-----------------------------------------------------------------------------
(* The grid.                                                               *)

LEMMA GridSum ==
  ASSUME NEW F \in Nat \ {0}, NEW x \in Int, NEW y \in Int, x % F = 0, y % F = 0
  PROVE  (x + y) % F = 0 /\ (x - y) % F = 0
<1> DEFINE p == x \div F
           q == y \div F
<1>1. p \in Int /\ q \in Int /\ x = F * p /\ y = F * q
  OBVIOUS
<1> HIDE DEF p, q
<1>2. x + y = F * (p + q) /\ x - y = F * (p - q)
  BY <1>1
<1>3. \A k \in Int : (F * k) % F = 0
  OBVIOUS
<1>4. QED
  BY <1>1, <1>2, <1>3

LEMMA GridTimes ==
  ASSUME NEW F \in Nat \ {0}, NEW x \in Int, x % F = 0, NEW k \in Int
  PROVE  (k * x) % F = 0
<1> DEFINE p == x \div F
<1>1. p \in Int /\ x = F * p
  OBVIOUS
<1> HIDE DEF p
<1>2. k * x = F * (k * p) /\ k * p \in Int
  BY <1>1
<1>3. \A n \in Int : (F * n) % F = 0
  OBVIOUS
<1>4. QED
  BY <1>2, <1>3

LEMMA FineIs == Fine \in Nat \ {0} /\ \A s \in Snaps : s % Fine = 0
<1>1. PICK fine \in Snaps : \A s \in Snaps : s % fine = 0
  BY SnapAssumption
<1>2. Snaps \subseteq Nat \ {0}
  BY SnapAssumption
<1>3. ASSUME NEW s \in Snaps PROVE fine <= s
  BY <1>1, <1>2
<1>4. Fine \in Snaps /\ \A t \in Snaps : Fine <= t
  BY <1>1, <1>3 DEF Fine
<1>5. Fine = fine
  BY <1>1, <1>2, <1>3, <1>4
<1>6. QED
  BY <1>1, <1>2, <1>5

LEMMA Snapped ==
  ASSUME NEW t \in Int, NEW s \in Snaps
  PROVE  /\ SnapFloor(t, s) \in Int /\ SnapFloor(t, s) % Fine = 0
         /\ t >= 0 => SnapFloor(t, s) >= 0
<1>1. s \in Nat \ {0} /\ s \in Int /\ Fine \in Nat \ {0} /\ s % Fine = 0
  BY FineIs, SnapAssumption
<1>2. t \div s \in Int /\ (t >= 0 => t \div s >= 0)
  BY <1>1
<1>3. SnapFloor(t, s) = (t \div s) * s
  BY DEF SnapFloor
<1> DEFINE k == t \div s
<1> HIDE DEF k
<1>4. k \in Int /\ (t >= 0 => k >= 0)
  BY <1>2 DEF k
<1>5. (k * s) % Fine = 0
  BY <1>1, <1>4, GridTimes, Zenon
<1>6. k * s \in Int /\ (t >= 0 => k * s >= 0)
  BY <1>1, <1>4
<1>7. QED
  BY <1>3, <1>5, <1>6 DEF k

-----------------------------------------------------------------------------
(* The gesture: what it will commit is on the grid, or nothing was dragged *)
(* yet.                                                                    *)

Shapes == [start : Int, length : Int, pitch : Int, velocity : Int]
Drags  == [mode : {"none", "create", "move", "resize"}, target : Nat,
           original : Shapes, ghost : Shapes]

Drawn(d) ==
    d.mode = "create" =>
        /\ d.ghost \in Sketches
        /\ d.ghost.start % Fine = 0 /\ d.ghost.start >= 0
        /\ (d.ghost.start + d.ghost.length) % Fine = 0

Moved(d) ==
    d.mode = "move" =>
        \/ d.ghost = d.original
        \/ /\ d.ghost.start % Fine = 0 /\ d.ghost.start >= 0
           /\ d.ghost.pitch \in 0 .. 127

Resized(d) ==
    d.mode = "resize" =>
        \/ d.ghost = d.original
        \/ /\ d.ghost.length >= 1
           /\ \/ (d.original.start + d.ghost.length) % Fine = 0
              \/ d.ghost.length \in Snaps

DragInv == drag \in Drags /\ Drawn(drag) /\ Moved(drag) /\ Resized(drag) /\ snap \in Snaps

LEMMA NoDragIs ==
  /\ NoDrag \in Drags /\ Drawn(NoDrag) /\ Moved(NoDrag) /\ Resized(NoDrag)
  /\ NoDrag.mode = "none" /\ NoDrag.target = 0
  BY DEF NoDrag, NoNote, Drags, Shapes, Drawn, Moved, Resized

\* A gesture that does not change, or ends.
LEMMA DragKept ==
  ASSUME DragInv, drag' \in {NoDrag, drag}, snap' = snap
  PROVE  DragInv'
  BY NoDragIs DEF DragInv, Drawn, Moved, Resized

LEMMA Redrawn ==
  ASSUME NEW g \in Shapes, NEW l, NEW p
  PROVE  [g EXCEPT !.length = l, !.pitch = p]
            = [start |-> g.start, length |-> l, pitch |-> p, velocity |-> g.velocity]
<1> DEFINE new == [g EXCEPT !.length = l, !.pitch = p]
<1>1. DOMAIN g = {"start", "length", "pitch", "velocity"}
  BY DEF Shapes
<1>2. new = [x \in DOMAIN g |-> new[x]]
  OBVIOUS
<1>3. new.start = g.start /\ new.length = l /\ new.pitch = p /\ new.velocity = g.velocity
  BY <1>1
<1> HIDE DEF new
<1>4. new = [start |-> new.start, length |-> new.length, pitch |-> new.pitch,
             velocity |-> new.velocity]
  BY <1>1, <1>2
<1>5. QED
  BY <1>3, <1>4 DEF new

LEMMA Shifted ==
  ASSUME NEW g \in Shapes, NEW s, NEW p
  PROVE  [g EXCEPT !.start = s, !.pitch = p]
            = [start |-> s, length |-> g.length, pitch |-> p, velocity |-> g.velocity]
<1> DEFINE new == [g EXCEPT !.start = s, !.pitch = p]
<1>1. DOMAIN g = {"start", "length", "pitch", "velocity"}
  BY DEF Shapes
<1>2. new = [x \in DOMAIN g |-> new[x]]
  OBVIOUS
<1>3. new.start = s /\ new.length = g.length /\ new.pitch = p /\ new.velocity = g.velocity
  BY <1>1
<1> HIDE DEF new
<1>4. new = [start |-> new.start, length |-> new.length, pitch |-> new.pitch,
             velocity |-> new.velocity]
  BY <1>1, <1>2
<1>5. QED
  BY <1>3, <1>4 DEF new

LEMMA DragDraws ==
  ASSUME DragInv, NEW pt \in Points, DrawDown(pt)
  PROVE  DragInv' /\ drag'.mode = "create" /\ drag'.target = 0
<1> DEFINE g == [start |-> SnapFloor(pt.tick, snap), length |-> snap,
                 pitch |-> pt.pitch, velocity |-> 100]
<1>1. pt.tick \in Nat /\ pt.pitch \in 0 .. 127 /\ snap \in Snaps /\ snap \in Nat \ {0}
  BY MouseAssumption, SnapAssumption DEF DragInv
<1>2. /\ SnapFloor(pt.tick, snap) \in Int /\ SnapFloor(pt.tick, snap) % Fine = 0
      /\ SnapFloor(pt.tick, snap) >= 0
  BY <1>1, Snapped
<1>3. (SnapFloor(pt.tick, snap) + snap) % Fine = 0
  BY <1>1, <1>2, GridSum, FineIs
<1>4. /\ drag' = [mode |-> "create", target |-> 0, original |-> NoNote, ghost |-> g]
      /\ snap' = snap
  BY DEF DrawDown, EditorOnly, NoDrag
<1>5. g \in Sketches /\ g \in Shapes
  BY <1>1, <1>2 DEF Sketches, Shapes
<1>6. /\ g.start % Fine = 0 /\ g.start >= 0 /\ (g.start + g.length) % Fine = 0
  BY <1>2, <1>3
<1> HIDE DEF g
<1>7. NoNote \in Shapes
  BY DEF NoNote, Shapes
<1>8. QED
  BY <1>1, <1>4, <1>5, <1>6, <1>7 DEF DragInv, Drags, Drawn, Moved, Resized

LEMMA DragGrows ==
  ASSUME DragInv, NEW pt \in Points, DragCreating(pt)
  PROVE  DragInv'
<1> DEFINE len == SnapFloor(pt.tick, snap) + snap - drag.ghost.start
           l == AtLeast(snap, len)
           g == [drag.ghost EXCEPT !.length = l, !.pitch = pt.pitch]
<1>1. pt.tick \in Nat /\ pt.pitch \in 0 .. 127 /\ snap \in Snaps /\ snap \in Nat \ {0}
  BY MouseAssumption, SnapAssumption DEF DragInv
<1>2. /\ drag.mode = "create" /\ drag \in Drags /\ drag.ghost \in Sketches
      /\ drag.ghost.start % Fine = 0 /\ drag.ghost.start >= 0 /\ drag.ghost.start \in Int
  BY DEF DragCreating, DragInv, Drawn, Sketches
<1>3. SnapFloor(pt.tick, snap) \in Int /\ SnapFloor(pt.tick, snap) % Fine = 0
  BY <1>1, Snapped
<1>4. Fine \in Nat \ {0} /\ snap % Fine = 0
  BY <1>1, FineIs
<1>5. l \in Int /\ (drag.ghost.start + l) % Fine = 0
  <2>1. (SnapFloor(pt.tick, snap) + snap) % Fine = 0
    BY <1>1, <1>3, <1>4, GridSum
  <2>2. (drag.ghost.start + snap) % Fine = 0
    BY <1>1, <1>2, <1>4, GridSum
  <2>3. len \in Int /\ drag.ghost.start + len = SnapFloor(pt.tick, snap) + snap
    BY <1>1, <1>2, <1>3
  <2>4. l = snap \/ l = len
    BY DEF AtLeast
  <2>5. QED
    BY <1>1, <2>1, <2>2, <2>3, <2>4
<1> HIDE DEF l
<1>6. drag' = [drag EXCEPT !.ghost = g] /\ snap' = snap
  BY DEF DragCreating, EditorOnly, l
<1>7. g \in Sketches /\ g \in Shapes /\ g.start = drag.ghost.start /\ g.length = l
  <2>1. g = [start |-> drag.ghost.start, length |-> l, pitch |-> pt.pitch,
             velocity |-> drag.ghost.velocity]
    <3>1. drag.ghost \in Shapes
      BY <1>2 DEF Drags
    <3>2. QED
      BY <3>1, Redrawn
  <2> HIDE DEF g
  <2>2. /\ drag.ghost.start \in Int /\ drag.ghost.velocity \in 0 .. 127
        /\ pt.pitch \in 0 .. 127 /\ pt.pitch \in Int /\ drag.ghost.velocity \in Int
    BY <1>1, <1>2 DEF Sketches
  <2>3. QED
    BY <1>5, <2>1, <2>2 DEF Sketches, Shapes
<1> HIDE DEF g
<1>8. /\ drag' \in Drags /\ drag'.mode = "create" /\ drag'.ghost = g
  BY <1>2, <1>6, <1>7 DEF Drags
<1>9. QED
  BY <1>1, <1>2, <1>5, <1>6, <1>7, <1>8 DEF DragInv, Drawn, Moved, Resized

LEMMA DragMoves ==
  ASSUME DragInv, NEW d \in Deltas, NEW pitch \in 0 .. 127, DragMoving(d, pitch)
  PROVE  DragInv'
<1> DEFINE at == AtLeast(0, drag.original.start + d)
           start == SnapFloor(at, snap)
           g == [drag.ghost EXCEPT !.start = start, !.pitch = pitch]
<1>1. /\ drag.mode = "move" /\ drag \in Drags /\ drag.original.start \in Int
      /\ drag.ghost \in Shapes /\ d \in Int /\ snap \in Snaps
  BY MouseAssumption DEF DragMoving, DragInv, Drags, Shapes
<1>2. at \in Int /\ at >= 0
  BY <1>1 DEF AtLeast
<1> HIDE DEF at
<1>3. start \in Int /\ start % Fine = 0 /\ start >= 0
  BY <1>1, <1>2, Snapped
<1>4. drag' = [drag EXCEPT !.ghost = g] /\ snap' = snap
  BY DEF DragMoving, EditorOnly, at
<1> HIDE DEF start
<1>5. g \in Shapes /\ g.start = start /\ g.pitch = pitch
  <2>1. g = [start |-> start, length |-> drag.ghost.length, pitch |-> pitch,
             velocity |-> drag.ghost.velocity]
    BY <1>1, Shifted
  <2> HIDE DEF g
  <2>2. drag.ghost.length \in Int /\ drag.ghost.velocity \in Int /\ pitch \in Int
    BY <1>1 DEF Shapes
  <2>3. QED
    BY <1>3, <2>1, <2>2 DEF Shapes
<1> HIDE DEF g
<1>6. drag' \in Drags /\ drag'.mode = "move" /\ drag'.ghost = g
  BY <1>1, <1>4, <1>5 DEF Drags
<1>7. QED
  BY <1>1, <1>3, <1>4, <1>5, <1>6 DEF DragInv, Drawn, Moved, Resized

LEMMA DragResizes ==
  ASSUME DragInv, NEW d \in Deltas, DragResizing(d)
  PROVE  DragInv'
<1> DEFINE start == drag.original.start
           end == start + AtLeast(snap, drag.original.length + d)
           len == SnapFloor(end, snap) - start
           l == AtLeast(snap, len)
           g == [drag.ghost EXCEPT !.length = l]
<1>1. /\ drag.mode = "resize" /\ drag \in Drags /\ start \in Int
      /\ drag.original.length \in Int
      /\ drag.ghost \in Shapes /\ d \in Int /\ snap \in Snaps /\ snap \in Nat \ {0}
  BY MouseAssumption, SnapAssumption DEF DragResizing, DragInv, Drags, Shapes
<1>2. drag' = [drag EXCEPT !.ghost = g] /\ snap' = snap
  BY DEF DragResizing, EditorOnly
<1>3. end \in Int
  BY <1>1 DEF AtLeast
<1> HIDE DEF end
<1>4. SnapFloor(end, snap) \in Int /\ SnapFloor(end, snap) % Fine = 0
  BY <1>1, <1>3, Snapped
<1>5. len \in Int /\ start + len = SnapFloor(end, snap)
  BY <1>1, <1>4
<1> HIDE DEF len
<1>6. l \in Int /\ l >= 1 /\ (l \in Snaps \/ (start + l) % Fine = 0)
  BY <1>1, <1>4, <1>5 DEF AtLeast
<1> HIDE DEF l, start
<1>7. g \in Shapes /\ g.length = l
  BY <1>1, <1>6 DEF Shapes
<1> HIDE DEF g
<1>8. /\ drag' \in Drags /\ drag'.mode = "resize" /\ drag'.ghost = g
      /\ drag'.original = drag.original
  BY <1>1, <1>2, <1>7 DEF Drags
<1>9. QED
  BY <1>1, <1>2, <1>6, <1>7, <1>8 DEF DragInv, Drawn, Moved, Resized, start

-----------------------------------------------------------------------------
(* The invariant.                                                          *)

\* A gesture on a note of the pattern at a place began where the note starts.
Aims(prj, at, drg) ==
    drg.mode \in {"move", "resize"} =>
        \A o \in Range(PatternAt(prj, at).notes) :
            o.id = drg.target => o.start = drg.original.start

Aimed == ~dangling => \A at \in shown : Aims(project, at, drag)

Screen ==
    /\ shown = {} \/ \E at : shown = {at}
    /\ items \subseteq Nat \ {0} /\ picked \in items \cup {0} /\ comboId \in Nat
    /\ ~notified => comboId = picked
    /\ ~dangling /\ items = Items(project) /\ shown # {} =>
          comboId # 0 /\ shown = {Decode(comboId)}

Stored  == DataInv /\ disk \in Files /\ Roomy(project)
Gesture == DragInv /\ selected \in Nat
Seen    == Screen /\ GestureHasNote /\ Aimed

RollInv == Stored /\ Gesture /\ ShownInv /\ Seen

LEMMA StoredSame == ASSUME Stored, UNCHANGED appVars PROVE Stored'
<1>1. UNCHANGED <<project, noteIds, disk>>
  BY DEF appVars, memoryVars
<1>2. DataInv'
  BY <1>1, DataSame DEF Stored, DataInv, TypedDisk
<1>3. QED
  BY <1>1, <1>2 DEF Stored, Roomy

LEMMA RollInit == Init => RollInv
<1> SUFFICES ASSUME Init PROVE RollInv
  OBVIOUS
<1>1. project = EmptyProject /\ noteIds = 0 /\ disk \in Files
  BY DEF Init, Launched
<1>2. TypedDisk
  BY <1>1, FilesAssumption DEF TypedDisk
<1>3. DataInv
  BY <1>1, <1>2, EmptyWellFormed, EmptyFresh DEF DataInv, IdsPassed
<1>4. Roomy(project)
  BY <1>1 DEF Roomy, EmptyProject
<1>5. Gesture
  BY NoDragIs, SnapAssumption DEF Init, Gesture, DragInv
<1>6. ShownInv
  BY DEF Init, ShownInv
<1>7. Seen
  BY DEF Init, Seen, Screen, GestureHasNote, Aimed
<1>8. QED
  BY <1>1, <1>3, <1>4, <1>5, <1>6, <1>7 DEF RollInv, Stored

-----------------------------------------------------------------------------
(* What the steps do to what is seen.                                      *)

LEMMA Applied ==
  ASSUME Screen, WellFormed(project'), Roomy(project'), items' \subseteq Nat \ {0},
         NEW id \in items' \cup {0}, picked' = id,
         NEW sel, NEW drg, ApplyPicker(project', id, sel, drg),
         ~dangling => \A at \in shown : Aims(project', at, drg)
  PROVE  Seen'
<1>1. comboId' = id /\ id \in Nat
  BY DEF ApplyPicker
<1>2. CASE id = 0 /\ SetPattern({})
  <2>1. shown' = {}
    BY <1>2 DEF SetPattern
  <2>2. QED
    BY <1>1, <1>2, <2>1 DEF Seen, Screen, GestureHasNote, Aimed
<1>3. CASE id # 0 /\ SetPattern({Decode(id)})
  <2>1. /\ shown' = {Decode(id)} /\ selected' = 0 /\ drag' = NoDrag
        /\ drag'.mode = "none" /\ drag'.target = 0
    BY <1>3, NoDragIs DEF SetPattern
  <2>2. Screen'
    BY <1>1, <1>3, <2>1 DEF Screen
  <2>3. GestureHasNote' /\ Aimed'
    BY <2>1 DEF GestureHasNote, Aimed, Aims
  <2>4. QED
    BY <2>2, <2>3 DEF Seen
<1>4. CASE id # 0 /\ Decode(id) \notin Places(project') /\ drag' = drg
           /\ UNCHANGED <<shown, dangling>>
  <2>1. items' # Items(project')
    BY <1>4, ItemsAre
  <2>2. Screen'
    BY <1>1, <1>4, <2>1 DEF Screen
  <2>3. GestureHasNote'
    BY <2>1 DEF GestureHasNote
  <2>4. Aimed'
    BY <1>4 DEF Aimed
  <2>5. QED
    BY <2>2, <2>3, <2>4 DEF Seen
<1>5. QED
  BY <1>2, <1>3, <1>4 DEF ApplyPicker

\* The project is gone, and with it what is on the screen.
LEMMA SeenReplaced == ASSUME Seen, Replaced PROVE Seen'
<1>1. shown' = shown /\ (~dangling' => shown' = {})
  BY DEF Replaced
<1>2. UNCHANGED <<items, picked, comboId, notified>>
  BY DEF Replaced, editorVars
<1>3. QED
  BY <1>1, <1>2 DEF Seen, Screen, GestureHasNote, Aimed

\* A gesture goes on, ends, or a note is drawn.
Continued ==
    /\ UNCHANGED <<appVars, shown, dangling, editorVars, edits>>
    /\ {selected', drag'.target} \ {0} \subseteq {selected, drag.target}
    /\ \/ drag'.mode \in {"none", "create"}
       \/ /\ drag'.mode = drag.mode /\ drag'.target = drag.target
          /\ drag'.original = drag.original

LEMMA SeenContinued == ASSUME Seen, Continued PROVE Seen'
<1>1. UNCHANGED <<project, shown, dangling, items, picked, comboId, notified>>
  BY DEF Continued, appVars, memoryVars, editorVars
<1>2. Screen'
  BY <1>1 DEF Seen, Screen
<1>3. GestureHasNote'
  BY <1>1 DEF Seen, GestureHasNote, Continued
<1>4. Aimed'
  BY <1>1 DEF Seen, Aimed, Aims, Continued
<1>5. QED
  BY <1>2, <1>3, <1>4 DEF Seen

\* A note that is hit: of its type, and one of those shown.
LEMMA Hit ==
  ASSUME RollInv, NEW pt \in Points, NEW e \in HitTest(pt)
  PROVE  /\ e.id \in Nat /\ NoteOf(e) \in Shapes
         /\ ~dangling => \E a, b : /\ At(project, a, b) /\ shown = {<<a, b>>}
                                   /\ e \in Range(project.tracks[a].patterns[b].notes)
<1>1. CASE dangling
  <2>1. e \in [id : Nat, start : Int, length : Int, pitch : Int, velocity : Int]
    BY <1>1, MouseAssumption DEF HitTest
  <2>2. QED
    BY <1>1, <2>1 DEF NoteOf, Shapes
<1>2. CASE ~dangling
  <2>1. PICK at \in shown : \E i \in DOMAIN PatternAt(project, at).notes :
           e = PatternAt(project, at).notes[i]
    BY <1>2 DEF HitTest, Under
  <2>2. PICK a, b : At(project, a, b) /\ at = <<a, b>>
    BY <1>2, <2>1, FoundAt DEF RollInv, ShownInv
  <2> DEFINE s == project.tracks[a].patterns[b].notes
  <2>3. PICK i \in DOMAIN s : e = s[i]
    BY <2>1, <2>2 DEF PatternAt
  <2>4. s \in Lists(Notes)
    BY <2>2, WellFormedAt DEF RollInv, Stored, DataInv
  <2> HIDE DEF s
  <2>5. e \in Notes /\ e \in Range(s)
    BY <2>3, <2>4, InRange, IsList DEF Lists
  <2>6. e.id \in Nat /\ NoteOf(e) \in Shapes
    BY <2>5 DEF Notes, NoteOf, Shapes
  <2>7. shown = {<<a, b>>}
    BY <2>1, <2>2 DEF RollInv, Seen, Screen
  <2>8. QED
    BY <2>2, <2>5, <2>6, <2>7 DEF s
<1>3. QED
  BY <1>1, <1>2

\* The button goes down on a note.
Grabbed(e, mode) ==
    /\ selected' = e.id
    /\ drag' = [mode |-> mode, target |-> e.id, original |-> NoteOf(e), ghost |-> NoteOf(e)]
    /\ EditorOnly

LEMMA GrabbedKeeps ==
  ASSUME RollInv, NEW pt \in Points, NEW e \in HitTest(pt), NEW mode \in {"move", "resize"},
         Grabbed(e, mode)
  PROVE  Gesture' /\ Seen'
<1>1. e.id \in Nat /\ NoteOf(e) \in Shapes
  BY Hit
<1>2. /\ drag'.mode = mode /\ drag'.target = e.id /\ drag'.original = NoteOf(e)
      /\ drag'.ghost = NoteOf(e) /\ drag' \in Drags /\ selected' = e.id /\ snap' = snap
  BY <1>1 DEF Grabbed, Drags, EditorOnly
<1>3. UNCHANGED <<project, shown, dangling, items, picked, comboId, notified>>
  BY DEF Grabbed, EditorOnly, appVars, memoryVars, editorVars
<1>4. Gesture'
  BY <1>1, <1>2 DEF RollInv, Gesture, DragInv, Drawn, Moved, Resized
<1>5. Screen'
  BY <1>3 DEF RollInv, Seen, Screen
<1>6. CASE dangling
  BY <1>3, <1>4, <1>5, <1>6 DEF Seen, GestureHasNote, Aimed
<1>7. CASE ~dangling
  <2>1. PICK a, b : /\ At(project, a, b) /\ shown = {<<a, b>>}
                    /\ e \in Range(project.tracks[a].patterns[b].notes)
    BY <1>7, Hit
  <2> DEFINE s == project.tracks[a].patterns[b].notes
  <2>2. s \in Lists(Notes)
    BY <2>1, WellFormedAt DEF RollInv, Stored, DataInv
  <2>3. PatternAt(project, <<a, b>>).notes = s
    BY DEF PatternAt
  <2> HIDE DEF s
  <2>4. PICK i \in DOMAIN s : e = s[i]
    BY <2>1, InRange DEF s
  <2>5. HasId(s, e.id)
    BY <2>4 DEF HasId
  <2>6. \A o \in Range(s) : o.id = e.id => o = e
    BY <2>2, <2>4, InRange DEF Lists, Proper
  <2>7. NoteOf(e).start = e.start
    BY DEF NoteOf
  <2>8. GestureHasNote'
    BY <1>2, <1>3, <2>1, <2>3, <2>5 DEF GestureHasNote
  <2>9. Aimed'
    BY <1>2, <1>3, <2>1, <2>3, <2>6, <2>7 DEF Aimed, Aims
  <2>10. QED
    BY <1>4, <1>5, <2>8, <2>9 DEF Seen
<1>8. QED
  BY <1>6, <1>7

-----------------------------------------------------------------------------
(* What an edit is: one note of the active pattern, on the grid.           *)

\* The new note of an edit starts and ends on the grid, or as one it replaces.
Gridded(e, old) ==
    /\ \/ e.start % Fine = 0 /\ e.start >= 0
       \/ \E m \in old : m.id = e.id /\ m.start = e.start
    /\ \/ (e.start + e.length) % Fine = 0
       \/ e.length \in Snaps
       \/ \E m \in old : m.id = e.id /\ m.length = e.length

ActiveEdit(drg) ==
    \E a, b, notes, id, e :
        /\ <<a, b>> \in FindPattern(project, active.track, active.pattern)
        /\ OneNote(a, b, notes, id, e)
        /\ ~dangling => Gridded(e, Range(project.tracks[a].patterns[b].notes))
        /\ drg = NoDrag \/ Range(notes) \subseteq Range(project.tracks[a].patterns[b].notes)

\* The editor's answer to a gesture that asks for an edit.
Answered(sel, drg) ==
    \/ Ignored(sel, drg)
    \/ Rebound(sel, drg) /\ UNCHANGED <<appVars, edits>>
    \/ Rebound(sel, drg) /\ ActiveEdit(drg) /\ UNCHANGED disk

LEMMA AnsweredRemove ==
  ASSUME RollInv, NEW n, NEW sel, NEW drg, RollRemoveNote(n, sel, drg)
  PROVE  Answered(sel, drg)
<1>1. CASE Ignored(sel, drg) \/ FoundNothing(sel, drg)
  BY <1>1 DEF Answered, FoundNothing
<1>2. CASE RemoveNote(active.track, active.pattern, n) /\ Rebound(sel, drg)
  <2>1. PICK a, b, notes :
           /\ <<a, b>> \in FindPattern(project, active.track, active.pattern)
           /\ \E e \in Range(project.tracks[a].patterns[b].notes) : OneNote(a, b, notes, n, e)
    BY <1>2, RemovedOne DEF RollInv, Stored
  <2> DEFINE old == Range(project.tracks[a].patterns[b].notes)
  <2>2. PICK e \in old : OneNote(a, b, notes, n, e)
    BY <2>1
  <2>3. Range(notes) \subseteq old
    BY <2>2 DEF OneNote
  <2>4. Gridded(e, old)
    BY <2>2 DEF Gridded
  <2>5. UNCHANGED disk
    BY <1>2 DEF RemoveNote, Edited
  <2> HIDE DEF old
  <2>6. ActiveEdit(drg)
    BY <2>1, <2>2, <2>3, <2>4 DEF ActiveEdit, old
  <2>7. QED
    BY <1>2, <2>5, <2>6 DEF Answered
<1>3. QED
  BY <1>1, <1>2 DEF RollRemoveNote

LEMMA AnsweredAdd ==
  ASSUME RollInv, drag.mode = "create", RollAddNote(drag.ghost)
  PROVE  Answered(selected, NoDrag)
<1>1. CASE Ignored(selected, NoDrag) \/ FoundNothing(selected, NoDrag)
  BY <1>1 DEF Answered, FoundNothing
<1>2. CASE AddNote(active.track, active.pattern, drag.ghost) /\ Rebound(selected, NoDrag)
  <2> DEFINE e == NextNote(drag.ghost)
  <2>1. /\ drag.ghost \in Sketches
        /\ drag.ghost.start % Fine = 0 /\ drag.ghost.start >= 0
        /\ (drag.ghost.start + drag.ghost.length) % Fine = 0
    BY DEF RollInv, Gesture, DragInv, Drawn
  <2>2. e.start = drag.ghost.start /\ e.length = drag.ghost.length
    BY DEF NextNote
  <2> HIDE DEF e
  <2>3. \A old : Gridded(e, old)
    BY <2>1, <2>2 DEF Gridded
  <2>4. PICK a, b, notes : /\ <<a, b>> \in FindPattern(project, active.track, active.pattern)
                           /\ OneNote(a, b, notes, noteIds + 1, e)
    BY <1>2, <2>1, AddedOne DEF RollInv, Stored, e
  <2>5. UNCHANGED disk
    BY <1>2 DEF AddNote, Edited
  <2>6. ActiveEdit(NoDrag)
    BY <2>3, <2>4 DEF ActiveEdit
  <2>7. QED
    BY <1>2, <2>5, <2>6 DEF Answered
<1>3. QED
  BY <1>1, <1>2 DEF RollAddNote

LEMMA ActiveNotes ==
  ASSUME RollInv, NEW a, NEW b, <<a, b>> \in FindPattern(project, active.track, active.pattern),
         NEW o \in Range(project.tracks[a].patterns[b].notes)
  PROVE  o \in Notes
<1>1. At(project, a, b)
  <2>1. PICK c, d : At(project, c, d) /\ <<a, b>> = <<c, d>>
    BY FoundAt
  <2>2. QED
    BY <2>1
<1> DEFINE s == project.tracks[a].patterns[b].notes
<1>2. s \in Lists(Notes)
  BY <1>1, WellFormedAt DEF RollInv, Stored, DataInv
<1> HIDE DEF s
<1>3. PICK i \in DOMAIN s : o = s[i]
  BY InRange DEF s
<1>4. QED
  BY <1>2, <1>3, IsList DEF Lists

\* While the pattern lives, edits go to the one shown.
LEMMA ActiveIsShown ==
  ASSUME RollInv, ~dangling, ActiveIsValid,
         NEW at \in FindPattern(project, active.track, active.pattern)
  PROVE  shown = {at}
<1>1. shown # {}
  BY DEF RollInv, ShownInv, NoActive, ActiveIsValid
<1>2. PICK to : shown = {to}
  BY <1>1 DEF RollInv, Seen, Screen
<1>3. to \in FindPattern(project, active.track, active.pattern)
  BY <1>2 DEF RollInv, ShownInv
<1>4. at = to
  BY <1>3, FoundOnce DEF RollInv, Stored, DataInv
<1>5. QED
  BY <1>2, <1>4

LEMMA AnsweredMove ==
  ASSUME RollInv, drag.mode = "move", drag.ghost # drag.original,
         RollMoveNote(drag.target, drag.ghost.start, drag.ghost.pitch)
  PROVE  Answered(selected, NoDrag)
<1>1. CASE Ignored(selected, NoDrag) \/ FoundNothing(selected, NoDrag)
  BY <1>1 DEF Answered, FoundNothing
<1>2. CASE /\ MoveNote(active.track, active.pattern, drag.target, drag.ghost.start, drag.ghost.pitch)
           /\ Rebound(selected, NoDrag)
  <2> DEFINE start  == drag.ghost.start
             fields == [start |-> AtLeast(0, start), pitch |-> drag.ghost.pitch]
  <2>1. /\ start \in Int /\ start % Fine = 0 /\ start >= 0 /\ drag.ghost.pitch \in 0 .. 127
    BY DEF RollInv, Gesture, DragInv, Drags, Shapes, Moved
  <2>2. AtLeast(0, start) = start
    BY <2>1 DEF AtLeast
  <2> HIDE DEF start
  <2>3. /\ DOMAIN fields = {"start", "pitch"}
        /\ fields.start = start /\ fields.pitch = drag.ghost.pitch
    BY <2>2
  <2> HIDE DEF fields
  <2>4. IsChange(fields)
    BY <2>1, <2>3 DEF IsChange
  <2>5. ChangeNote(active.track, active.pattern, drag.target, fields)
    BY <1>2 DEF MoveNote, fields, start
  <2>6. PICK a, b, notes :
           /\ <<a, b>> \in FindPattern(project, active.track, active.pattern)
           /\ \E o \in Range(project.tracks[a].patterns[b].notes) :
                 o.id = drag.target /\ OneNote(a, b, notes, drag.target, WithFields(o, fields))
    BY <2>4, <2>5, ChangedOne DEF RollInv, Stored
  <2> DEFINE old == Range(project.tracks[a].patterns[b].notes)
  <2>7. PICK o \in old : OneNote(a, b, notes, drag.target, WithFields(o, fields))
    BY <2>6
  <2>8. o \in Notes
    BY <2>6, <2>7, ActiveNotes
  <2> DEFINE e == WithFields(o, fields)
  <2>9. e.id = o.id /\ e.start = start /\ e.length = o.length
    BY <2>3, <2>8 DEF WithFields, Notes
  <2> HIDE DEF e, old
  <2>10. Gridded(e, old)
    BY <2>1, <2>7, <2>9 DEF Gridded
  <2>11. UNCHANGED disk
    BY <2>5 DEF ChangeNote, Edited
  <2>12. ActiveEdit(NoDrag)
    BY <2>6, <2>7, <2>10 DEF ActiveEdit, old, e
  <2>13. QED
    BY <1>2, <2>11, <2>12 DEF Answered
<1>3. QED
  BY <1>1, <1>2 DEF RollMoveNote

LEMMA AnsweredResize ==
  ASSUME RollInv, drag.mode = "resize", drag.ghost # drag.original,
         RollResizeNote(drag.target, drag.ghost.length)
  PROVE  Answered(selected, NoDrag)
<1>1. CASE Ignored(selected, NoDrag) \/ FoundNothing(selected, NoDrag)
  BY <1>1 DEF Answered, FoundNothing
<1>2. CASE /\ ActiveIsValid
           /\ ResizeNote(active.track, active.pattern, drag.target, drag.ghost.length)
           /\ Rebound(selected, NoDrag)
  <2> DEFINE length == drag.ghost.length
             fields == [length |-> AtLeast(1, length)]
  <2>1. /\ length \in Int /\ length >= 1
        /\ (drag.original.start + length) % Fine = 0 \/ length \in Snaps
    BY DEF RollInv, Gesture, DragInv, Drags, Shapes, Resized
  <2>2. AtLeast(1, length) = length
    BY <2>1 DEF AtLeast
  <2> HIDE DEF length
  <2>3. DOMAIN fields = {"length"} /\ fields.length = length
    BY <2>2
  <2> HIDE DEF fields
  <2>4. IsChange(fields)
    BY <2>1, <2>3 DEF IsChange
  <2>5. ChangeNote(active.track, active.pattern, drag.target, fields)
    BY <1>2 DEF ResizeNote, fields, length
  <2>6. PICK a, b, notes :
           /\ <<a, b>> \in FindPattern(project, active.track, active.pattern)
           /\ \E o \in Range(project.tracks[a].patterns[b].notes) :
                 o.id = drag.target /\ OneNote(a, b, notes, drag.target, WithFields(o, fields))
    BY <2>4, <2>5, ChangedOne DEF RollInv, Stored
  <2> DEFINE old == Range(project.tracks[a].patterns[b].notes)
  <2>7. PICK o \in old : /\ o.id = drag.target
                         /\ OneNote(a, b, notes, drag.target, WithFields(o, fields))
    BY <2>6
  <2>8. o \in Notes
    BY <2>6, <2>7, ActiveNotes
  <2> DEFINE e == WithFields(o, fields)
  <2>9. e.id = o.id /\ e.start = o.start /\ e.length = length
    BY <2>3, <2>8 DEF WithFields, Notes
  <2>10. ~dangling => o.start = drag.original.start
    <3> SUFFICES ASSUME ~dangling PROVE o.start = drag.original.start
      OBVIOUS
    <3>1. shown = {<<a, b>>}
      BY <1>2, <2>6, ActiveIsShown
    <3>2. PatternAt(project, <<a, b>>).notes = project.tracks[a].patterns[b].notes
      BY DEF PatternAt
    <3>3. QED
      BY <2>7, <3>1, <3>2 DEF RollInv, Seen, Aimed, Aims
  <2> HIDE DEF e, old
  <2>11. ~dangling => Gridded(e, old)
    BY <2>1, <2>7, <2>9, <2>10 DEF Gridded
  <2>12. UNCHANGED disk
    BY <2>5 DEF ChangeNote, Edited
  <2>13. ActiveEdit(NoDrag)
    BY <2>6, <2>7, <2>11 DEF ActiveEdit, old, e
  <2>14. QED
    BY <1>2, <2>12, <2>13 DEF Answered
<1>3. QED
  BY <1>1, <1>2 DEF RollResizeNote

-----------------------------------------------------------------------------
(* Every step keeps the invariant.                                         *)

LEMMA ReboundGesture ==
  ASSUME Gesture, NEW id, NEW prj, NEW sel \in {0, selected}, NEW drg \in {NoDrag, drag},
         ApplyPicker(prj, id, sel, drg), snap' = snap
  PROVE  Gesture'
<1>1. selected' \in {0, selected} /\ drag' \in {NoDrag, drag}
  BY DEF ApplyPicker, SetPattern
<1>2. QED
  BY <1>1, DragKept DEF Gesture

\* The edit leaves the places of the patterns, and the notes of a gesture that
\* outlives it.
LEMMA AnsweredEdit ==
  ASSUME RollInv, NEW drg \in {NoDrag, drag}, ActiveEdit(drg), UNCHANGED disk
  PROVE  Stored' /\ (~dangling => \A at \in shown : Aims(project', at, drg))
<1>1. PICK a, b, notes, id, e :
         /\ <<a, b>> \in FindPattern(project, active.track, active.pattern)
         /\ OneNote(a, b, notes, id, e)
         /\ drg = NoDrag \/ Range(notes) \subseteq Range(project.tracks[a].patterns[b].notes)
  BY DEF ActiveEdit
<1>2. At(project, a, b) /\ project' = WithNotes(project, <<a, b>>, notes)
  BY <1>1 DEF OneNote
<1>3. DataInv'
  BY <1>1, DataOneNote DEF RollInv, Stored
<1>4. Roomy(project')
  BY <1>2, EditedPlaces DEF RollInv, Stored, DataInv
<1>5. CASE drg = NoDrag
  BY <1>3, <1>4, <1>5, NoDragIs DEF Aims, RollInv, Stored
<1>6. ASSUME ~dangling, NEW at \in shown,
             Range(notes) \subseteq Range(project.tracks[a].patterns[b].notes), drg = drag
      PROVE  Aims(project', at, drg)
  <2>1. at = <<a, b>>
    BY <1>1, <1>6, FoundOnce DEF RollInv, ShownInv, Stored, DataInv
  <2>2. project'.tracks[a].patterns[b].notes = notes
    <3>1. Rewritten(project, project', a, b, notes)
      BY <1>2, WithNotesIs DEF RollInv, Stored, DataInv
    <3>2. QED
      BY <3>1 DEF Rewritten
  <2>3. Aims(project, at, drag)
    BY <1>6 DEF RollInv, Seen, Aimed
  <2>4. /\ PatternAt(project', at).notes = notes
        /\ PatternAt(project, at).notes = project.tracks[a].patterns[b].notes
    BY <2>1, <2>2 DEF PatternAt
  <2>5. QED
    BY <1>6, <2>3, <2>4 DEF Aims
<1>7. QED
  BY <1>1, <1>3, <1>4, <1>5, <1>6 DEF RollInv, Stored

LEMMA AnsweredKeeps ==
  ASSUME RollInv, NEW sel \in {0, selected}, NEW drg \in {NoDrag, drag}, Answered(sel, drg)
  PROVE  Stored' /\ Gesture' /\ Seen'
<1>1. CASE Ignored(sel, drg)
  <2>1. Stored'
    BY <1>1, StoredSame DEF Ignored, RollInv
  <2>2. Gesture'
    BY <1>1, DragKept DEF Ignored, RollInv, Gesture
  <2>3. Continued
    BY <1>1, NoDragIs DEF Ignored, Continued
  <2>4. QED
    BY <2>1, <2>2, <2>3, SeenContinued DEF RollInv
<1>2. ASSUME Rebound(sel, drg), Stored', ~dangling => \A at \in shown : Aims(project', at, drg)
      PROVE  Gesture' /\ Seen'
  <2>1. /\ ApplyPicker(project', picked, sel, drg)
        /\ picked' = picked /\ items' = items /\ snap' = snap
    BY <1>2 DEF Rebound
  <2>2. /\ Screen /\ items' \subseteq Nat \ {0} /\ picked \in items' \cup {0}
        /\ WellFormed(project') /\ Roomy(project')
    BY <1>2, <2>1 DEF RollInv, Seen, Screen, Stored, DataInv
  <2>3. Seen'
    BY <1>2, <2>1, <2>2, Applied
  <2>4. Gesture'
    BY <2>1, ReboundGesture DEF RollInv
  <2>5. QED
    BY <2>3, <2>4
<1>3. CASE Rebound(sel, drg) /\ UNCHANGED <<appVars, edits>>
  <2>1. Stored'
    BY <1>3, StoredSame DEF RollInv
  <2>2. project' = project
    BY <1>3 DEF appVars, memoryVars
  <2>3. ~dangling => \A at \in shown : Aims(project', at, drg)
    BY <2>2, NoDragIs DEF RollInv, Seen, Aimed, Aims
  <2>4. QED
    BY <1>2, <1>3, <2>1, <2>3
<1>4. CASE Rebound(sel, drg) /\ ActiveEdit(drg) /\ UNCHANGED disk
  BY <1>2, <1>4, AnsweredEdit
<1>5. QED
  BY <1>1, <1>3, <1>4 DEF Answered

LEMMA FileKeeps ==
  ASSUME RollInv, FileNew \/ \E path \in Paths : FileOpen(path)
  PROVE  Stored' /\ Gesture' /\ Seen'
<1>1. Replaced
  BY DEF FileNew, FileOpen
<1>2. Gesture' /\ Seen'
  BY <1>1, DragKept, SeenReplaced DEF Replaced, RollInv, Gesture
<1>3. CASE FileNew
  <2>1. project' = EmptyProject /\ UNCHANGED <<noteIds, disk>>
    BY <1>3 DEF FileNew, NewProject
  <2>2. DataInv'
    BY <2>1, DataEmptied DEF RollInv, Stored, DataInv, TypedDisk
  <2>3. Roomy(project')
    BY <2>1 DEF Roomy, EmptyProject
  <2>4. QED
    BY <1>2, <2>1, <2>2, <2>3 DEF RollInv, Stored
<1>4. ASSUME NEW path \in Paths, FileOpen(path) PROVE Stored'
  <2>1. OpenProject(path) /\ disk' = disk
    BY <1>4 DEF FileOpen, OpenProject
  <2>2. DataInv'
    BY <2>1, DataOpened DEF RollInv, Stored
  <2>3. Loadable(disk[path]) /\ project' = ProjectFrom(disk[path].doc)
    BY <2>1 DEF OpenProject
  <2>4. Roomy(project')
    BY <2>3, RoomAssumption DEF RollInv, Stored, Roomy
  <2>5. QED
    BY <2>1, <2>2, <2>4 DEF RollInv, Stored
<1>5. QED
  BY <1>2, <1>3, <1>4

LEMMA PickerSees ==
  ASSUME RollInv, PickerStep
  PROVE  Stored' /\ Gesture' /\ Seen'
<1>1. Stored'
  <2>1. UNCHANGED appVars
    BY DEF PickerStep, TimerTick, PickerChanged, PickItem, DoubleClick, SelectPattern, Select
  <2>2. QED
    BY <2>1, StoredSame DEF RollInv
<1>2. project' = project
  BY DEF PickerStep, TimerTick, PickerChanged, PickItem, DoubleClick, SelectPattern, Select,
         appVars, memoryVars
<1>3. WellFormed(project') /\ Roomy(project')
  BY <1>1 DEF Stored, DataInv
<1>4. ~dangling => \A at \in shown : Aims(project', at, drag)
  BY <1>2 DEF RollInv, Seen, Aimed
<1>5. Screen
  BY DEF RollInv, Seen
<1>6. CASE TimerTick
  <2>1. items' = Items(project')
    BY <1>2, <1>6 DEF TimerTick, Rebuild
  <2>2. items' \subseteq Nat \ {0}
    BY <1>3, <2>1, ItemsAre
  <2>3. /\ ApplyPicker(project', picked', selected, drag) /\ snap' = snap
        /\ \/ items' = {} /\ picked' = 0
           \/ items' # {} /\ picked' = IF comboId \in items' THEN comboId ELSE First(items')
    BY <1>2, <1>6 DEF TimerTick, Rebuild
  <2>4. picked' \in items' \cup {0}
    BY <2>2, <2>3, FirstIs
  <2>5. Seen'
    BY <1>3, <1>4, <1>5, <2>2, <2>3, <2>4, Applied
  <2>6. Gesture'
    BY <2>3, ReboundGesture DEF RollInv
  <2>7. QED
    BY <1>1, <2>5, <2>6
<1>7. CASE PickerChanged
  <2>1. /\ ApplyPicker(project', picked, selected, drag)
        /\ snap' = snap /\ picked' = picked /\ items' = items
    BY <1>2, <1>7 DEF PickerChanged
  <2>2. Seen'
    BY <1>3, <1>4, <1>5, <2>1, Applied DEF Screen
  <2>3. Gesture'
    BY <2>1, ReboundGesture DEF RollInv
  <2>4. QED
    BY <1>1, <2>2, <2>3
<1>8. ASSUME NEW id, Select(id) PROVE Gesture' /\ Seen'
  <2>1. /\ UNCHANGED <<selected, drag, snap, shown, dangling, comboId, items>>
        /\ picked' \in items' \cup {0} /\ notified' = TRUE
    BY <1>8 DEF Select, rollVars
  <2>2. Gesture'
    BY <2>1, DragKept DEF RollInv, Gesture
  <2>3. Screen'
    BY <1>2, <1>5, <2>1 DEF Screen
  <2>4. GestureHasNote' /\ Aimed'
    BY <1>2, <2>1 DEF RollInv, Seen, GestureHasNote, Aimed
  <2>5. QED
    BY <2>2, <2>3, <2>4 DEF Seen
<1>9. QED
  BY <1>1, <1>6, <1>7, <1>8 DEF PickerStep, PickItem, DoubleClick, SelectPattern

\* Gestures that ask for no edit, and the button down on a note.
LEMMA GestureIs ==
  ASSUME RollInv, GestureStep
  PROVE  \/ Continued /\ Gesture'
         \/ \E pt \in Points : \E e \in HitTest(pt) : \E mode \in {"move", "resize"} :
               Grabbed(e, mode)
         \/ \E sel \in {0, selected}, drg \in {NoDrag, drag} : Answered(sel, drg)
<1>1. NoDrag \in {NoDrag, drag} /\ drag \in {NoDrag, drag} /\ selected \in {0, selected}
  OBVIOUS
<1>2. CASE DeleteSelected
  BY <1>1, <1>2, AnsweredRemove DEF DeleteSelected
<1>3. ASSUME NEW pt \in Points, EraseDown(pt)
      PROVE  \E sel \in {0, selected}, drg \in {NoDrag, drag} : Answered(sel, drg)
  BY <1>1, <1>3, AnsweredRemove DEF EraseDown
<1>4. CASE MouseUp
  <2>1. CASE drag.mode = "create" /\ RollAddNote(drag.ghost)
    BY <1>1, <2>1, AnsweredAdd
  <2>2. CASE /\ drag.mode = "move" /\ drag.ghost # drag.original
             /\ RollMoveNote(drag.target, drag.ghost.start, drag.ghost.pitch)
    BY <1>1, <2>2, AnsweredMove
  <2>3. CASE /\ drag.mode = "resize" /\ drag.ghost # drag.original
             /\ RollResizeNote(drag.target, drag.ghost.length)
    BY <1>1, <2>3, AnsweredResize
  <2>4. CASE drag' = NoDrag /\ UNCHANGED selected /\ EditorOnly
    <3>1. Continued
      BY <2>4, NoDragIs DEF Continued, EditorOnly
    <3>2. Gesture'
      BY <2>4, DragKept DEF RollInv, Gesture, EditorOnly
    <3>3. QED
      BY <3>1, <3>2
  <2>5. QED
    BY <1>4, <2>1, <2>2, <2>3, <2>4 DEF MouseUp
<1>5. ASSUME NEW t, SetTool(t) PROVE Continued /\ Gesture'
  <2>1. Continued
    BY <1>5, NoDragIs DEF SetTool, Continued
  <2>2. Gesture'
    BY <1>5, DragKept DEF RollInv, Gesture, SetTool
  <2>3. QED
    BY <2>1, <2>2
<1>6. ASSUME NEW s \in Snaps, SetSnap(s) PROVE Continued /\ Gesture'
  BY <1>6 DEF SetSnap, Continued, RollInv, Gesture, DragInv, Drawn, Moved, Resized
<1>7. ASSUME NEW pt \in Points, DrawDown(pt) PROVE Continued /\ Gesture'
  <2>1. DragInv' /\ drag'.mode = "create" /\ drag'.target = 0
    BY <1>7, DragDraws DEF RollInv, Gesture
  <2>2. UNCHANGED selected /\ EditorOnly
    BY <1>7 DEF DrawDown
  <2>3. QED
    BY <2>1, <2>2 DEF Continued, EditorOnly, RollInv, Gesture
<1>8. ASSUME NEW pt \in Points, SelectDown(pt)
      PROVE  \/ Continued /\ Gesture'
             \/ \E e \in HitTest(pt) : \E mode \in {"move", "resize"} : Grabbed(e, mode)
  <2>1. CASE selected' = 0 /\ UNCHANGED drag /\ EditorOnly
    <3>1. Continued
      BY <2>1 DEF Continued, EditorOnly
    <3>2. Gesture'
      BY <2>1, DragKept DEF RollInv, Gesture, EditorOnly
    <3>3. QED
      BY <3>1, <3>2
  <2>2. CASE \E e \in HitTest(pt), mode \in {"move", "resize"} : Grabbed(e, mode)
    BY <2>2
  <2>3. QED
    BY <1>8, <2>1, <2>2 DEF SelectDown, Grabbed
\* What is dragged changes the ghost only.
<1>9. ASSUME DragInv', UNCHANGED selected, EditorOnly,
             \E ghost : drag' = [drag EXCEPT !.ghost = ghost]
      PROVE  Continued /\ Gesture'
  <2>1. drag'.mode = drag.mode /\ drag'.target = drag.target /\ drag'.original = drag.original
    BY <1>9 DEF RollInv, Gesture, DragInv, Drags
  <2>2. QED
    BY <1>9, <2>1 DEF Continued, EditorOnly, RollInv, Gesture
<1>10. ASSUME NEW pt \in Points, DragCreating(pt) PROVE Continued /\ Gesture'
  <2>1. DragInv'
    BY <1>10, DragGrows DEF RollInv, Gesture
  <2>2. QED
    BY <1>9, <1>10, <2>1 DEF DragCreating
<1>11. ASSUME NEW d \in Deltas, NEW pt \in Points, DragMoving(d, pt.pitch)
       PROVE  Continued /\ Gesture'
  <2>1. pt.pitch \in 0 .. 127
    BY MouseAssumption
  <2>2. DragInv'
    BY <1>11, <2>1, DragMoves DEF RollInv, Gesture
  <2>3. QED
    BY <1>9, <1>11, <2>2 DEF DragMoving
<1>12. ASSUME NEW d \in Deltas, DragResizing(d) PROVE Continued /\ Gesture'
  <2>1. DragInv'
    BY <1>12, DragResizes DEF RollInv, Gesture
  <2>2. QED
    BY <1>9, <1>12, <2>1 DEF DragResizing
<1>13. QED
  BY <1>2, <1>3, <1>4, <1>5, <1>6, <1>7, <1>8, <1>10, <1>11, <1>12 DEF GestureStep

LEMMA RollStep == RollInv /\ [Next]_vars => RollInv'
<1> SUFFICES ASSUME RollInv, [Next]_vars PROVE RollInv'
  OBVIOUS
<1>1. ShownInv'
  BY ShownStep DEF RollInv
<1>2. CASE FileNew \/ \E path \in Paths : FileOpen(path)
  BY <1>1, <1>2, FileKeeps DEF RollInv
<1>3. CASE PickerStep
  BY <1>1, <1>3, PickerSees DEF RollInv
<1>4. CASE Continued /\ Gesture'
  <2>1. Stored'
    BY <1>4, StoredSame DEF Continued, RollInv
  <2>2. Seen'
    BY <1>4, SeenContinued DEF RollInv
  <2>3. QED
    BY <1>1, <1>4, <2>1, <2>2 DEF RollInv
<1>5. ASSUME NEW pt \in Points, NEW e \in HitTest(pt), NEW mode \in {"move", "resize"},
             Grabbed(e, mode)
      PROVE  RollInv'
  <2>1. Stored'
    BY <1>5, StoredSame DEF Grabbed, EditorOnly, RollInv
  <2>2. Gesture' /\ Seen'
    BY <1>5, GrabbedKeeps
  <2>3. QED
    BY <1>1, <2>1, <2>2 DEF RollInv
<1>6. ASSUME NEW sel \in {0, selected}, NEW drg \in {NoDrag, drag}, Answered(sel, drg)
      PROVE  RollInv'
  BY <1>1, <1>6, AnsweredKeeps DEF RollInv
<1>7. CASE GestureStep
  BY <1>4, <1>5, <1>6, <1>7, GestureIs
<1>8. CASE UNCHANGED vars
  <2>1. Continued /\ Gesture'
    BY <1>8, DragKept DEF vars, rollVars, Continued, RollInv, Gesture
  <2>2. QED
    BY <1>4, <2>1
<1>9. QED
  BY <1>2, <1>3, <1>7, <1>8 DEF Next

\* Whatever is opened, picked, edited and dragged: the selected note and the note
\* of a gesture are notes of the pattern on the screen, once the picker offers the
\* project's patterns and while that pattern is alive.
THEOREM GesturesHaveNotes == Spec => []GestureHasNote
<1>1. RollInv => GestureHasNote
  BY DEF RollInv, Seen
<1>2. QED
  BY <1>1, RollInit, RollStep, PTL DEF Spec

\* The picker names the pattern on the screen, whatever ids were picked before the
\* project was replaced, and whenever its notification comes.
THEOREM PickerNamesShown == Spec => []PickerShowsPattern
<1>1. ASSUME RollInv, ~dangling, ~notified, items = Items(project), shown # {}
      PROVE  {Encode(at) : at \in shown} = {picked} /\ comboId = picked
  <2>1. comboId \in Nat /\ comboId = picked /\ shown = {Decode(comboId)}
    BY <1>1 DEF RollInv, Seen, Screen
  <2>2. Encode(Decode(comboId)) = comboId
    BY <2>1, EncodedItem
  <2>3. QED
    BY <2>1, <2>2
<1>2. RollInv => PickerShowsPattern
  BY <1>1 DEF PickerShowsPattern
<1>3. QED
  BY <1>2, RollInit, RollStep, PTL DEF Spec

\* Gestures leave the project with values in range, ids of its own in every vector,
\* notes in order, and no note id beyond the counter that hands them out.
THEOREM GesturesKeepProject == Spec => [](WellFormed(project) /\ IdsPassed)
<1>1. RollInv => WellFormed(project) /\ IdsPassed
  BY DEF RollInv, Stored, DataInv
<1>2. QED
  BY <1>1, RollInit, RollStep, PTL DEF Spec

-----------------------------------------------------------------------------
(* The grid, kept by every edit.                                           *)

\* The edit, as the action property reads it.
Grid ==
    edits' # edits /\ ~dangling =>
        \A n \in NotesOf(project') \ NotesOf(project) :
            Gridded(n.note, {m.note : m \in {k \in NotesOf(project) :
                                k.pattern = n.pattern /\ k.note.id = n.note.id}})

LEMMA EditOnGrid == ASSUME RollInv, ~dangling, NEW drg, ActiveEdit(drg) PROVE Grid
<1>1. PICK a, b, notes, id, e :
         OneNote(a, b, notes, id, e) /\ Gridded(e, Range(project.tracks[a].patterns[b].notes))
  BY DEF ActiveEdit
<1> DEFINE was == Range(project.tracks[a].patterns[b].notes)
<1>2. /\ At(project, a, b) /\ project' = WithNotes(project, <<a, b>>, notes)
      /\ \A x \in Range(notes) : x = e \/ x \in was
  BY <1>1 DEF OneNote
<1> SUFFICES ASSUME NEW n \in NotesOf(project') \ NotesOf(project)
             PROVE  Gridded(n.note, {m.note : m \in {k \in NotesOf(project) :
                                k.pattern = n.pattern /\ k.note.id = n.note.id}})
  BY DEF Grid
<1>3. PICK x \in Range(notes) : n = [pattern |-> <<a, b>>, note |-> x]
  BY <1>2, EditedNotes DEF RollInv, Stored, DataInv
<1>4. \A m \in was : [pattern |-> <<a, b>>, note |-> m] \in NotesOf(project)
  BY <1>2, NoteIn
<1>5. x = e
  BY <1>2, <1>3, <1>4
<1> DEFINE old == {m.note : m \in {k \in NotesOf(project) :
                                k.pattern = n.pattern /\ k.note.id = n.note.id}}
<1>6. ASSUME NEW m \in was, m.id = e.id PROVE m \in old
  <2> DEFINE k == [pattern |-> <<a, b>>, note |-> m]
  <2>1. k \in NotesOf(project) /\ k.note = m /\ k.pattern = n.pattern /\ k.note.id = n.note.id
    BY <1>3, <1>4, <1>5, <1>6
  <2> HIDE DEF k
  <2>2. QED
    BY <2>1
<1> HIDE DEF old, was
<1>7. Gridded(e, old)
  BY <1>1, <1>6 DEF Gridded, was
<1>8. n.note = e
  BY <1>3, <1>5
<1>9. QED
  BY <1>7, <1>8 DEF old

LEMMA GridStep == RollInv /\ [Next]_vars => Grid
<1> SUFFICES ASSUME RollInv, [Next]_vars, edits' # edits, ~dangling PROVE Grid
  BY DEF Grid
<1>1. GestureStep
  BY DEF Next, FileNew, FileOpen, Replaced, PickerStep, TimerTick, PickerChanged, PickItem,
         DoubleClick, SelectPattern, Select, vars
<1>2. PICK sel \in {0, selected}, drg \in {NoDrag, drag} : Answered(sel, drg)
  BY <1>1, GestureIs DEF Continued, Grabbed, EditorOnly
<1>3. QED
  BY <1>2, EditOnGrid DEF Answered, Ignored

\* Whatever the snap was when a gesture began and however far it was dragged, the
\* note it draws, moves or resizes is on the grid, or where it was.
THEOREM GesturesSnap == Spec => OnGrid
<1>1. Grid => (edits' # edits /\ ~dangling =>
          \A n \in NotesOf(project') \ NotesOf(project) :
              LET old == {m.note : m \in {k \in NotesOf(project) :
                                k.pattern = n.pattern /\ k.note.id = n.note.id}}
              IN /\ \/ n.note.start % Fine = 0 /\ n.note.start >= 0
                    \/ \E m \in old : m.start = n.note.start
                 /\ \/ (n.note.start + n.note.length) % Fine = 0
                    \/ n.note.length \in Snaps
                    \/ \E m \in old : m.length = n.note.length)
  BY DEF Grid, Gridded
<1>2. QED
  BY <1>1, RollInit, RollStep, GridStep, PTL DEF Spec, OnGrid

-----------------------------------------------------------------------------
(* Types.                                                                  *)

Bound ==
    /\ tool \in {"select", "draw", "erase"} /\ dangling \in BOOLEAN /\ notified \in BOOLEAN
    /\ lastSignature = {} \/ \E s : lastSignature = {s}

LEMMA BoundStep == Bound /\ [Next]_vars => Bound'
<1> SUFFICES ASSUME Bound, [Next]_vars PROVE Bound'
  OBVIOUS
<1>1. CASE UNCHANGED <<tool, dangling, notified, lastSignature>>
  BY <1>1 DEF Bound
<1>2. CASE FileNew \/ \E path \in Paths : FileOpen(path)
  BY <1>2 DEF FileNew, FileOpen, Replaced, editorVars, Bound
<1>3. ASSUME NEW prj, NEW id, NEW sel, NEW drg, ApplyPicker(prj, id, sel, drg)
      PROVE  dangling' \in BOOLEAN
  BY <1>3 DEF ApplyPicker, SetPattern, Bound
<1>4. CASE TimerTick
  BY <1>3, <1>4 DEF TimerTick, Rebuild, Bound
<1>5. CASE PickerChanged
  BY <1>3, <1>5 DEF PickerChanged, Bound
<1>6. CASE \E id : Select(id)
  BY <1>6 DEF Select, rollVars, Bound
<1>7. ASSUME NEW sel, NEW drg, Rebound(sel, drg) \/ Ignored(sel, drg)
      PROVE  Bound'
  BY <1>3, <1>7 DEF Rebound, Ignored, editorVars, Bound
<1>8. CASE \E n, note, start, pitch, length, sel, drg :
             \/ RollAddNote(note) \/ RollRemoveNote(n, sel, drg)
             \/ RollMoveNote(n, start, pitch) \/ RollResizeNote(n, length)
  BY <1>7, <1>8 DEF RollAddNote, RollRemoveNote, RollMoveNote, RollResizeNote, FoundNothing
<1>9. CASE \E t \in {"select", "draw", "erase"} : SetTool(t)
  BY <1>9 DEF SetTool, editorVars, Bound
<1>10. CASE EditorOnly
  BY <1>1, <1>10 DEF EditorOnly, editorVars
<1>11. CASE GestureStep
  BY <1>1, <1>8, <1>9, <1>10, <1>11
  DEF GestureStep, DeleteSelected, MouseUp, EraseDown, DrawDown, SelectDown, DragCreating,
      DragMoving, DragResizing, SetSnap, editorVars
<1>12. CASE UNCHANGED vars
  BY <1>1, <1>12 DEF vars, rollVars, editorVars
<1>13. QED
  BY <1>2, <1>4, <1>5, <1>6, <1>11, <1>12 DEF Next, PickerStep, PickItem, DoubleClick, SelectPattern

LEMMA AtMostOne == ASSUME NEW S, S = {} \/ \E x : S = {x} PROVE Cardinality(S) <= 1
<1>1. CASE S = {}
  <2>1. Cardinality(S) = 0
    BY <1>1, FS_EmptySet
  <2>2. QED
    BY <2>1
<1>2. ASSUME NEW x, S = {x} PROVE Cardinality(S) <= 1
  <2>1. Cardinality({x}) = 1
    BY FS_Singleton
  <2>2. QED
    BY <1>2, <2>1
<1>3. QED
  BY <1>1, <1>2

\* Every variable holds a value of its type: nothing, or one thing, is shown, and
\* what is picked is an item.
THEOREM RollTypes == Spec => []TypeOK
<1>1. RollInv /\ Bound => TypeOK
  <2> SUFFICES ASSUME RollInv, Bound PROVE TypeOK
    OBVIOUS
  <2>1. /\ drag.mode \in {"none", "create", "move", "resize"} /\ snap \in Snaps
        /\ selected \in Nat
    BY DEF RollInv, Gesture, DragInv, Drags
  <2>2. Cardinality(shown) <= 1 /\ Cardinality(lastSignature) <= 1
    BY AtMostOne DEF RollInv, Seen, Screen, Bound
  <2>3. comboId \in Nat /\ items \subseteq Nat \ {0} /\ picked \in items \cup {0}
    BY DEF RollInv, Seen, Screen
  <2>4. QED
    BY <2>1, <2>2, <2>3 DEF TypeOK, Bound
<1>2. Init => Bound
  BY DEF Init, Bound
<1>3. QED
  BY <1>1, <1>2, RollInit, RollStep, BoundStep, PTL DEF Spec
=============================================================================
