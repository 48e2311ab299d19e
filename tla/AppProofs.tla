------------------------------ MODULE AppProofs ------------------------------
(***************************************************************************)
(* Proofs about App, for all devices, files, notes, regions and bounds.    *)
(***************************************************************************)
EXTENDS App, ProjectProofs

-----------------------------------------------------------------------------
(* The engine is in sync with the edited project.                          *)

EngineFields == {"project", "loop", "port", "clockOn"}

\* A project is a record with a loop region among its fields.
Shaped(prj) == "loop" \in DOMAIN prj /\ prj = [prj EXCEPT !.loop = prj.loop]

SyncInv ==
    /\ DOMAIN engine = EngineFields
    /\ Shaped(project)
    /\ EngineInSync

\* A project that is empty, loaded or edited is shaped.
LEMMA EmptyShaped == Shaped(EmptyProject)
  BY DEF Shaped, EmptyProject

LEMMA LoadedShaped == ASSUME NEW doc PROVE Shaped(ProjectFrom(doc))
  BY DEF Shaped, ProjectFrom

LEMMA EditedShaped ==
  ASSUME NEW prj, Shaped(prj), NEW at, NEW notes
  PROVE  Shaped(WithNotes(prj, at, notes))
  BY DEF Shaped, WithNotes

LEMMA LoopShaped ==
  ASSUME NEW prj, Shaped(prj), NEW region
  PROVE  /\ Shaped([prj EXCEPT !.loop = region])
         /\ [prj EXCEPT !.loop = region].loop = region
  BY DEF Shaped

\* A project that is installed is what is played.
LEMMA InstalledInSync ==
  ASSUME SyncInv, NEW prj, Shaped(prj), project' = prj, engine' = Installed(prj)
  PROVE  SyncInv'
<1>1. DOMAIN engine' = EngineFields /\ engine'.loop = prj.loop /\ engine'.project = {prj}
  BY DEF SyncInv, Installed, EngineFields
<1>2. Played' = {prj}
  BY <1>1 DEF Played
<1>3. QED
  BY <1>1, <1>2 DEF SyncInv, EngineInSync, Shaped

\* Port, clock flag and everything but the two projects are of no concern.
LEMMA SameProjects ==
  ASSUME SyncInv, UNCHANGED project, DOMAIN engine' = EngineFields,
         engine'.project = engine.project, engine'.loop = engine.loop
  PROVE  SyncInv'
<1>1. Played' = Played
  BY DEF Played
<1>2. QED
  BY <1>1 DEF SyncInv, EngineInSync

\* No project in the engine: it plays nothing, as the empty project does.
LEMMA EmptiedInSync ==
  ASSUME project' = EmptyProject, DOMAIN engine' = EngineFields,
         engine'.project = {}, engine'.loop = NoRegion
  PROVE  SyncInv'
<1>1. Played' = {EmptyProject}
  BY DEF Played
<1>2. EmptyProject.loop = NoRegion
  BY DEF EmptyProject
<1>3. QED
  BY <1>1, <1>2, EmptyShaped DEF SyncInv, EngineInSync, Shaped

LEMMA SyncInit == Init => SyncInv
<1> SUFFICES ASSUME Init PROVE SyncInv
  OBVIOUS
<1>1. project = EmptyProject /\ \E d : engine = NewEngine(d)
  BY DEF Init, Launched
<1>2. DOMAIN engine = EngineFields /\ engine.project = {} /\ engine.loop = NoRegion
  BY <1>1 DEF NewEngine, EngineFields
<1>3. Played = {EmptyProject}
  BY <1>2 DEF Played
<1>4. EmptyProject.loop = NoRegion
  BY DEF EmptyProject
<1>5. QED
  BY <1>1, <1>2, <1>3, <1>4, EmptyShaped DEF SyncInv, EngineInSync, Shaped

LEMMA SyncRelaunch == Relaunch => SyncInv'
<1> SUFFICES ASSUME Relaunch PROVE SyncInv'
  OBVIOUS
<1>1. project' = EmptyProject /\ \E d : engine' = NewEngine(d)
  BY DEF Relaunch, Relaunched
<1>2. DOMAIN engine' = EngineFields /\ engine'.project = {} /\ engine'.loop = NoRegion
  BY <1>1 DEF NewEngine, EngineFields
<1>3. QED
  BY <1>1, <1>2, EmptiedInSync

\* Every edit of a pattern's notes installs what it made.
LEMMA SyncEdited ==
  ASSUME SyncInv, NEW at, NEW notes, Edited(WithNotes(project, at, notes))
  PROVE  SyncInv'
<1>1. Shaped(WithNotes(project, at, notes))
  BY EditedShaped DEF SyncInv
<1>2. QED
  BY <1>1, InstalledInSync DEF Edited, Resynced

LEMMA SyncNoteEdit == SyncInv /\ NoteEdit => SyncInv'
<1> SUFFICES ASSUME SyncInv, NEW t, NEW p, NEW n, NEW note, NEW start, NEW length,
                    \/ AddNote(t, p, note)
                    \/ RemoveNote(t, p, n)
                    \/ MoveNote(t, p, n, start, 60)
                    \/ ResizeNote(t, p, n, length)
                    \/ SetNoteVelocity(t, p, n, 1)
             PROVE  SyncInv'
  BY DEF NoteEdit
<1>1. \E at, notes : Edited(WithNotes(project, at, notes))
  BY DEF AddNote, RemoveNote, MoveNote, ResizeNote, SetNoteVelocity, ChangeNote
<1>2. QED
  BY <1>1, SyncEdited

LEMMA SyncSetLoop == ASSUME SyncInv, NEW region, SetLoop(region) PROVE SyncInv'
<1>1. DOMAIN engine' = EngineFields /\ engine'.project = engine.project /\ engine'.loop = region
  BY DEF SyncInv, SetLoop, EngineFields
<1>2. Shaped(project') /\ project'.loop = region
  BY LoopShaped DEF SyncInv, SetLoop
<1>3. Played' = Played
  BY <1>1 DEF Played
<1>4. \A q \in Played' : [q EXCEPT !.loop = project'.loop] = project'
  <2> SUFFICES ASSUME NEW q \in Played PROVE [q EXCEPT !.loop = region] = project'
    BY <1>2, <1>3
  <2>1. [q EXCEPT !.loop = project.loop] = project
    BY DEF SyncInv, EngineInSync
  <2>2. [[q EXCEPT !.loop = project.loop] EXCEPT !.loop = region] = [q EXCEPT !.loop = region]
    OBVIOUS
  <2>3. QED
    BY <2>1, <2>2 DEF SetLoop
<1>5. QED
  BY <1>1, <1>2, <1>4 DEF SyncInv, EngineInSync

LEMMA SyncFile == SyncInv /\ FileStep => SyncInv'
<1> SUFFICES ASSUME SyncInv, FileStep PROVE SyncInv'
  OBVIOUS
<1>1. CASE FileNew
  <2>1. /\ project' = EmptyProject /\ DOMAIN engine' = EngineFields
        /\ engine'.project = {} /\ engine'.loop = NoRegion
    BY <1>1 DEF SyncInv, FileNew, NewProject, EngineFields
  <2>2. QED
    BY <2>1, EmptiedInSync
<1>2. CASE \E path \in Paths : OpenProject(path)
  <2>1. PICK path \in Paths : OpenProject(path)
    BY <1>2
  <2>2. QED
    BY <2>1, LoadedShaped, InstalledInSync DEF OpenProject
<1>3. CASE \E path \in Paths : CrashInSave(path)
  BY <1>3, SyncRelaunch DEF CrashInSave
<1>4. CASE UNCHANGED <<project, engine>>
  BY <1>4, SameProjects DEF SyncInv
<1>5. QED
  BY <1>1, <1>2, <1>3, <1>4
  DEF FileStep, FileSave, FileChoose, ChooserCancelled, OpenChosen, SaveAsChosen, Delete,
      SaveProject, SaveCutShort, appVars, memoryVars

LEMMA SyncPort == SyncInv /\ PortStep => SyncInv'
<1> SUFFICES ASSUME SyncInv, PortStep PROVE SyncInv'
  OBVIOUS
<1>1. CASE UNCHANGED <<project, engine>>
  BY <1>1, SameProjects DEF SyncInv
<1>2. CASE UNCHANGED project /\ \E d : Activate(d)
  <2>1. /\ DOMAIN engine' = EngineFields
        /\ engine'.project = engine.project /\ engine'.loop = engine.loop
    BY <1>2 DEF Activate, SyncInv, EngineFields
  <2>2. QED
    BY <1>2, <2>1, SameProjects
<1>3. QED
  BY <1>1, <1>2
  DEF PortStep, RefreshPorts, PickPort, PortSelected, PortOpens, PortFails, Replug, appVars, memoryVars

LEMMA SyncBar == SyncInv /\ BarStep => SyncInv'
<1> SUFFICES ASSUME SyncInv, BarStep PROVE SyncInv'
  OBVIOUS
<1>1. CASE UNCHANGED <<project, engine>>
  BY <1>1, SameProjects DEF SyncInv
<1>2. CASE \E b : SetClockEnabled(b)
  <2>1. /\ UNCHANGED project /\ DOMAIN engine' = EngineFields
        /\ engine'.project = engine.project /\ engine'.loop = engine.loop
    BY <1>2 DEF SetClockEnabled, SyncInv, EngineFields
  <2>2. QED
    BY <2>1, SameProjects
<1>3. CASE \E bpm \in Tempos : SliderMoved(bpm)
  <2>1. UNCHANGED <<project, engine>>
    BY <1>3 DEF SliderMoved, SetTempo, TransportOnly
  <2>2. QED
    BY <1>1, <2>1
<1>4. QED
  BY <1>1, <1>2, <1>3
  DEF BarStep, PlayClicked, StopClicked, ClockToggled, BarTimer, PlayTransport, StopTransport,
      TransportOnly, appVars, memoryVars

\* Whatever is opened, edited, saved, plugged and crashed, the engine's snapshot
\* is the project the user edits and its loop region that project's.
THEOREM EngineFollowsEdits == Spec => []EngineInSync
<1>1. Init => SyncInv
  BY SyncInit
<1>2. SyncInv /\ [Next]_vars => SyncInv'
  <2> SUFFICES ASSUME SyncInv, [Next]_vars PROVE SyncInv'
    OBVIOUS
  <2>1. CASE FileStep
    BY <2>1, SyncFile
  <2>2. CASE PortStep
    BY <2>2, SyncPort
  <2>3. CASE BarStep
    BY <2>3, SyncBar
  <2>4. CASE EditStep
    BY <2>4, SyncNoteEdit, SyncSetLoop DEF EditStep
  <2>5. CASE Crash
    BY <2>5, SyncRelaunch DEF Crash
  <2>6. CASE UNCHANGED vars
    BY <2>6, SameProjects DEF SyncInv, vars, appVars, memoryVars
  <2>7. QED
    BY <2>1, <2>2, <2>3, <2>4, <2>5, <2>6 DEF Next
<1>3. SyncInv => EngineInSync
  BY DEF SyncInv
<1>4. QED
  BY <1>1, <1>2, <1>3, PTL DEF Spec


-----------------------------------------------------------------------------
(* The port that is open, the one the engine has and the one the panel     *)
(* shows.                                                                  *)

PortInv ==
    /\ DOMAIN engine = EngineFields
    /\ engine.port = portName /\ activePort = portName
    /\ NoDevice \notin plugged

PanelInv == PortInv /\ PanelShowsPort

\* Nothing about ports happens.
LEMMA SamePorts ==
  ASSUME PanelInv, DOMAIN engine' = EngineFields, engine'.port = engine.port,
         UNCHANGED <<portVars, plugged, combo, status, portPicked>>
  PROVE  PanelInv'
  BY DEF PanelInv, PortInv, PanelShowsPort, portVars

LEMMA PanelInit == Init => PanelInv
<1> SUFFICES ASSUME Init PROVE PanelInv
  OBVIOUS
<1>1. PICK d \in Devices \cup {NoDevice} : Launched(d) /\ combo = d
  BY DEF Init
<1>2. DOMAIN engine = EngineFields /\ engine.port = d
  BY <1>1 DEF Launched, NewEngine, EngineFields
<1>3. QED
  BY <1>1, <1>2, NoneAssumption DEF Launched, Init, PanelInv, PortInv, PanelShowsPort

LEMMA PanelRelaunch == PanelInv /\ Relaunch => PanelInv'
<1> SUFFICES ASSUME PanelInv, Relaunch PROVE PanelInv'
  OBVIOUS
<1>1. PICK d \in plugged \cup {NoDevice} : Relaunched(d) /\ combo' = d
  BY DEF Relaunch
<1>2. DOMAIN engine' = EngineFields /\ engine'.port = d
  BY <1>1 DEF Relaunched, NewEngine, EngineFields
<1>3. QED
  BY <1>1, <1>2 DEF Relaunched, Relaunch, PanelInv, PortInv, PanelShowsPort

LEMMA PanelActivate ==
  ASSUME PanelInv, NEW d, Activate(d), UNCHANGED plugged
  PROVE  PortInv' /\ engine'.port = d /\ opened' = {d} \ {NoDevice}
<1>1. DOMAIN engine' = EngineFields /\ engine'.port = d
  BY DEF Activate, PanelInv, PortInv, EngineFields
<1>2. opened = {activePort} \ {NoDevice}
  BY DEF PanelInv, PortInv, PanelShowsPort
<1>3. QED
  BY <1>1, <1>2 DEF Activate, PanelInv, PortInv

LEMMA PanelPort == PanelInv /\ PortStep => PanelInv'
<1> SUFFICES ASSUME PanelInv, PortStep PROVE PanelInv'
  OBVIOUS
<1>1. CASE RefreshPorts
  BY <1>1 DEF RefreshPorts, appVars, memoryVars, portVars, PanelInv, PortInv, PanelShowsPort
<1>2. CASE PortSelected
  <2>1. CASE PortOpens(combo) /\ status' = "connected"
    <3>1. PortInv' /\ engine'.port = combo /\ opened' = {combo} \ {NoDevice}
      BY <2>1, PanelActivate DEF PortOpens
    <3>2. QED
      BY <1>2, <3>1 DEF PortSelected, PanelInv, PanelShowsPort
  <2>2. CASE PortFails /\ status' = IF combo = NoDevice THEN "no port" ELSE "failed"
    <3>1. PortInv' /\ engine'.port = NoDevice /\ opened' = {}
      BY <2>2, PanelActivate DEF PortFails
    <3>2. QED
      BY <1>2, <2>2, <3>1 DEF PortSelected, PanelInv, PanelShowsPort
  <2>3. QED
    BY <1>2, <2>1, <2>2 DEF PortSelected
<1>3. ASSUME NEW d \in Hotplugged, Replug(d), UNCHANGED uiVars PROVE PanelInv'
  BY <1>3, NoneAssumption, HotplugAssumption
  DEF Replug, memoryVars, portVars, uiVars, panelVars, PanelInv, PortInv, PanelShowsPort
<1>4. ASSUME NEW d, PickPort(d) PROVE PanelInv'
  BY <1>4 DEF PickPort, appVars, memoryVars, portVars, PanelInv, PortInv, PanelShowsPort
<1>5. QED
  BY <1>1, <1>2, <1>3, <1>4 DEF PortStep

LEMMA PanelFile == PanelInv /\ FileStep => PanelInv'
<1> SUFFICES ASSUME PanelInv, FileStep PROVE PanelInv'
  OBVIOUS
<1>1. CASE \E path \in Paths : CrashInSave(path)
  <2>1. Relaunch
    BY <1>1 DEF CrashInSave
  <2>2. QED
    BY <2>1, PanelRelaunch
<1>2. CASE /\ \/ UNCHANGED engine
              \/ \E p, l : engine' = [engine EXCEPT !.project = p, !.loop = l]
           /\ UNCHANGED <<portVars, plugged, combo, status, portPicked>>
  <2>1. DOMAIN engine' = EngineFields /\ engine'.port = engine.port
    BY <1>2 DEF PanelInv, PortInv, EngineFields
  <2>2. QED
    BY <1>2, <2>1, SamePorts
<1>3. CASE FileNew
  BY <1>2, <1>3 DEF FileNew, NewProject, panelVars
<1>4. ASSUME NEW path, OpenChosen(path) PROVE PanelInv'
  BY <1>2, <1>4 DEF OpenChosen, OpenProject, Installed, ChooserDone, appVars, memoryVars, panelVars
<1>5. QED
  BY <1>1, <1>2, <1>3, <1>4
  DEF FileStep, FileSave, FileChoose, ChooserCancelled, ChooserDone, SaveAsChosen, Delete,
      SaveProject, SaveCutShort, appVars, memoryVars, panelVars, uiVars

LEMMA PanelBar == PanelInv /\ BarStep => PanelInv'
<1> SUFFICES ASSUME PanelInv, BarStep PROVE PanelInv'
  OBVIOUS
<1>1. CASE UNCHANGED <<engine, portVars, plugged, combo, status, portPicked>>
  BY <1>1, SamePorts DEF PanelInv, PortInv
<1>2. CASE ClockToggled
  <2>1. DOMAIN engine' = EngineFields /\ engine'.port = engine.port
    BY <1>2 DEF ClockToggled, SetClockEnabled, PanelInv, PortInv, EngineFields
  <2>2. QED
    BY <1>2, <2>1, SamePorts DEF ClockToggled, SetClockEnabled, BarOnly, panelVars
<1>3. QED
  BY <1>1, <1>2
  DEF BarStep, PlayClicked, StopClicked, SliderMoved, BarTimer, PlayTransport, StopTransport,
      SetTempo, TransportOnly, BarOnly, appVars, memoryVars, panelVars

LEMMA PanelEdit == PanelInv /\ EditStep => PanelInv'
<1> SUFFICES ASSUME PanelInv, EditStep PROVE PanelInv'
  OBVIOUS
<1>1. CASE NoteEdit
  <2>1. PICK t, p, n, note, start, length :
           \/ AddNote(t, p, note)
           \/ RemoveNote(t, p, n)
           \/ MoveNote(t, p, n, start, 60)
           \/ ResizeNote(t, p, n, length)
           \/ SetNoteVelocity(t, p, n, 1)
    BY <1>1 DEF NoteEdit
  <2>2. PICK prj : Edited(prj)
    BY <2>1 DEF AddNote, RemoveNote, MoveNote, ResizeNote, SetNoteVelocity, ChangeNote
  <2>3. /\ DOMAIN engine' = EngineFields /\ engine'.port = engine.port
        /\ UNCHANGED <<portVars, plugged>>
    BY <2>2 DEF Edited, Resynced, Installed, PanelInv, PortInv, EngineFields
  <2>4. QED
    BY <2>3, SamePorts DEF EditStep, uiVars, panelVars
<1>2. ASSUME NEW region, SetLoop(region) PROVE PanelInv'
  <2>1. DOMAIN engine' = EngineFields /\ engine'.port = engine.port
    BY <1>2 DEF SetLoop, PanelInv, PortInv, EngineFields
  <2>2. QED
    BY <1>2, <2>1, SamePorts DEF SetLoop, EditStep, uiVars, panelVars
<1>3. QED
  BY <1>1, <1>2 DEF EditStep

\* Devices may come and go and fail to open: the engine sends to the one device
\* that is open, and the panel shows that device or says why there is none.
THEOREM PanelTellsPort == Spec => []PanelShowsPort
<1>1. Init => PanelInv
  BY PanelInit
<1>2. PanelInv /\ [Next]_vars => PanelInv'
  <2> SUFFICES ASSUME PanelInv, [Next]_vars PROVE PanelInv'
    OBVIOUS
  <2>1. CASE UNCHANGED vars
    BY <2>1, SamePorts DEF PanelInv, PortInv, vars, appVars, memoryVars, uiVars, panelVars
  <2>2. CASE Crash
    BY <2>2, PanelRelaunch DEF Crash
  <2>3. QED
    BY <2>1, <2>2, PanelFile, PanelPort, PanelBar, PanelEdit DEF Next
<1>3. PanelInv => PanelShowsPort
  BY DEF PanelInv
<1>4. QED
  BY <1>1, <1>2, <1>3, PTL DEF Spec

-----------------------------------------------------------------------------
(* The projects: what is edited, saved and loaded is always well formed,   *)
(* so every file that is saved loads as the project it was made from.      *)

LEMMA DataInit == Init => DataInv
<1> SUFFICES ASSUME Init PROVE DataInv
  OBVIOUS
<1>1. project = EmptyProject /\ noteIds = 0 /\ disk \in Files
  BY DEF Init, Launched
<1>2. TypedDisk
  BY <1>1, FilesAssumption DEF TypedDisk
<1>3. QED
  BY <1>1, <1>2, EmptyWellFormed, EmptyFresh DEF DataInv, IdsPassed

LEMMA DataFile == DataInv /\ FileStep => DataInv'
<1> SUFFICES ASSUME DataInv, FileStep PROVE DataInv'
  OBVIOUS
<1>1. CASE FileNew
  <2>1. TypedDisk'
    BY <1>1 DEF FileNew, NewProject, DataInv, TypedDisk
  <2>2. QED
    BY <1>1, <2>1, DataEmptied DEF FileNew, NewProject, DataInv
<1>2. CASE \E path \in Paths : OpenProject(path)
  BY <1>2, DataOpened
<1>3. CASE \E path : SaveProject(path) \/ SaveCutShort(path)
  BY <1>3, DataSaved
<1>4. CASE \E path \in Paths : CrashInSave(path)
  <2>1. PICK path \in Paths : disk' = [disk EXCEPT ![path] = Torn]
    BY <1>4 DEF CrashInSave
  <2>2. TypedDisk'
    BY <2>1, DataWritten DEF Torn, DataInv
  <2>3. project' = EmptyProject /\ noteIds' = 0
    BY <1>4 DEF CrashInSave, Relaunch, Relaunched
  <2>4. QED
    BY <2>2, <2>3, DataEmptied
<1>5. CASE \E path \in Paths : Delete(path)
  <2>1. PICK path \in Paths : disk' = [disk EXCEPT ![path] = Absent]
    BY <1>5 DEF Delete
  <2>2. TypedDisk'
    BY <2>1, DataWritten DEF Absent, DataInv
  <2>3. QED
    BY <1>5, <2>2, DataSame DEF Delete, memoryVars
<1>6. CASE UNCHANGED <<project, noteIds, disk>>
  BY <1>6, DataSame DEF DataInv, TypedDisk
<1>7. QED
  BY <1>1, <1>2, <1>3, <1>4, <1>5, <1>6
  DEF FileStep, FileSave, FileChoose, ChooserCancelled, OpenChosen, SaveAsChosen,
      appVars, memoryVars

LEMMA OneEdited == DataInv /\ NoteEdit => \E a, b, notes, id, e : OneNote(a, b, notes, id, e)
<1> SUFFICES ASSUME DataInv, NoteEdit PROVE \E a, b, notes, id, e : OneNote(a, b, notes, id, e)
  OBVIOUS
<1>1. PICK x \in Targets :
         \/ \E note \in NewNotes : AddNote(x[1], x[2], note)
         \/ RemoveNote(x[1], x[2], x[3])
         \/ \E start \in Starts : MoveNote(x[1], x[2], x[3], start, 60)
         \/ \E length \in Lengths : ResizeNote(x[1], x[2], x[3], length)
         \/ SetNoteVelocity(x[1], x[2], x[3], 1)
  BY DEF NoteEdit
<1>2. CASE \E note \in NewNotes : AddNote(x[1], x[2], note)
  <2>1. PICK note \in NewNotes : AddNote(x[1], x[2], note)
    BY <1>2
  <2>2. note \in Sketches
    BY EditsAssumption DEF Sketches
  <2>3. QED
    BY <2>1, <2>2, AddedOne
<1>3. CASE RemoveNote(x[1], x[2], x[3])
  <2>1. PICK a, b, notes :
           \E e \in Range(project.tracks[a].patterns[b].notes) : OneNote(a, b, notes, x[3], e)
    BY <1>3, RemovedOne
  <2>2. QED
    BY <2>1
<1>4. ASSUME NEW fields, IsChange(fields), ChangeNote(x[1], x[2], x[3], fields)
      PROVE  \E a, b, notes, id, e : OneNote(a, b, notes, id, e)
  <2>1. PICK a, b, notes :
           \E o \in Range(project.tracks[a].patterns[b].notes) :
              OneNote(a, b, notes, x[3], WithFields(o, fields))
    BY <1>4, ChangedOne
  <2>2. QED
    BY <2>1
<1>5. ASSUME NEW start \in Starts, MoveNote(x[1], x[2], x[3], start, 60)
      PROVE  \E a, b, notes, id, e : OneNote(a, b, notes, id, e)
  <2>1. IsChange([start |-> AtLeast(0, start), pitch |-> 60])
    BY EditsAssumption DEF IsChange, AtLeast
  <2>2. QED
    BY <1>5, <2>1, <1>4 DEF MoveNote
<1>6. ASSUME NEW length \in Lengths, ResizeNote(x[1], x[2], x[3], length)
      PROVE  \E a, b, notes, id, e : OneNote(a, b, notes, id, e)
  <2>1. IsChange([length |-> AtLeast(1, length)])
    BY EditsAssumption DEF IsChange, AtLeast
  <2>2. QED
    BY <1>6, <2>1, <1>4 DEF ResizeNote
<1>7. CASE SetNoteVelocity(x[1], x[2], x[3], 1)
  <2>1. IsChange([velocity |-> 1])
    BY DEF IsChange
  <2>2. QED
    BY <1>7, <2>1, <1>4 DEF SetNoteVelocity
<1>8. QED
  BY <1>1, <1>2, <1>3, <1>5, <1>6, <1>7

LEMMA DataStep == DataInv /\ [Next]_vars => DataInv'
<1> SUFFICES ASSUME DataInv, [Next]_vars PROVE DataInv'
  OBVIOUS
<1>1. CASE FileStep
  BY <1>1, DataFile
<1>2. CASE UNCHANGED <<project, noteIds, disk>>
  BY <1>2, DataSame DEF DataInv, TypedDisk
<1>3. CASE PortStep
  BY <1>2, <1>3
  DEF PortStep, RefreshPorts, PickPort, PortSelected, PortOpens, PortFails, Replug,
      appVars, memoryVars
<1>4. CASE BarStep
  BY <1>2, <1>4
  DEF BarStep, PlayClicked, StopClicked, SliderMoved, ClockToggled, BarTimer, PlayTransport,
      StopTransport, SetTempo, SetClockEnabled, TransportOnly, appVars, memoryVars
<1>5. CASE EditStep
  <2>1. CASE NoteEdit
    <3>1. PICK a, b, notes, id, e : OneNote(a, b, notes, id, e)
      BY <2>1, OneEdited
    <3>2. UNCHANGED disk
      BY <2>1 DEF NoteEdit, AddNote, RemoveNote, MoveNote, ResizeNote, SetNoteVelocity,
                  ChangeNote, Edited
    <3>3. QED
      BY <3>1, <3>2, DataOneNote
  <2>2. QED
    BY <1>5, <2>1, DataSetLoop DEF EditStep
<1>6. CASE Crash
  <2>1. project' = EmptyProject /\ noteIds' = 0 /\ TypedDisk'
    BY <1>6 DEF Crash, Relaunch, Relaunched, DataInv, TypedDisk
  <2>2. QED
    BY <2>1, DataEmptied
<1>7. CASE UNCHANGED vars
  BY <1>2, <1>7 DEF vars, appVars, memoryVars
<1>8. QED
  BY <1>1, <1>3, <1>4, <1>5, <1>6, <1>7 DEF Next

\* Whatever was loaded, edited and saved, and however often the program died in
\* between, writing the project and loading what was written gives it back.
THEOREM SavedProjectsReload == Spec => []RoundTrip
<1>1. DataInv => RoundTrip
  BY SavedLoads DEF DataInv, RoundTrip
<1>2. QED
  BY <1>1, DataInit, DataStep, PTL DEF Spec

\* A note that is added gets an id no note of the project has, whatever ids the
\* files that were opened brought with them.
THEOREM NewIdsAreNew == Spec => []IdsFresh
<1>1. DataInv => IdsFresh
  BY DEF DataInv, IdsPassed, IdsFresh
<1>2. QED
  BY <1>1, DataInit, DataStep, PTL DEF Spec

\* Whatever the files hold and whatever is edited, the project has its values in
\* range, ids of its own in every vector, and notes in order of their start.
THEOREM ProjectKept == Spec => []WellFormed(project)
<1>1. DataInv => WellFormed(project)
  BY DEF DataInv
<1>2. QED
  BY <1>1, DataInit, DataStep, PTL DEF Spec

-----------------------------------------------------------------------------
(* What an edit leaves alone.                                              *)

LEMMA EditedOne ==
  ASSUME DataInv, NEW a, NEW b, NEW notes, NEW id, NEW new, OneNote(a, b, notes, id, new)
  PROVE  \E x \in NotesOf(project) \cup NotesOf(project') :
            OthersOf(NotesOf(project), x) = OthersOf(NotesOf(project'), x)
<1> DEFINE old == project.tracks[a].patterns[b].notes
<1>1. /\ At(project, a, b) /\ project' = WithNotes(project, <<a, b>>, notes)
      /\ \A e : e.id # id => (e \in Range(notes) <=> e \in Range(old))
      /\ HasId(old, id) \/ HasId(notes, id)
  BY DEF OneNote
<1> HIDE DEF old
<1>2. PICK e : e \in Range(old) \cup Range(notes) /\ e.id = id
  <2>1. CASE HasId(old, id)
    BY <2>1, InRange DEF HasId
  <2>2. CASE HasId(notes, id)
    BY <2>2, InRange DEF HasId
  <2>3. QED
    BY <1>1, <2>1, <2>2
<1> DEFINE x == [pattern |-> <<a, b>>, note |-> e]
<1>3. x \in NotesOf(project) \cup NotesOf(project')
  <2>1. CASE e \in Range(old)
    BY <1>1, <2>1, NoteIn DEF old
  <2>2. CASE e \in Range(notes)
    BY <1>1, <2>2, EditedNotes DEF DataInv
  <2>3. QED
    BY <1>2, <2>1, <2>2
<1>4. x.pattern = <<a, b>> /\ x.note.id = id
  BY <1>2
<1> HIDE DEF x
<1>5. OthersOf(NotesOf(project), x) = OthersOf(NotesOf(project'), x)
  BY <1>1, <1>4, LocalEdit DEF DataInv, old
<1>6. QED
  BY <1>3, <1>5

\* The edit, as the action property reads it.
Local ==
    edits' # edits =>
        \/ NotesOf(project) = NotesOf(project')
        \/ \E x \in NotesOf(project) \cup NotesOf(project') :
              OthersOf(NotesOf(project), x) = OthersOf(NotesOf(project'), x)

LEMMA LocalStep == DataInv /\ [Next]_vars => Local
<1> SUFFICES ASSUME DataInv, [Next]_vars, edits' # edits PROVE Local
  BY DEF Local
<1>1. EditStep
  <2>1. ASSUME ~EditStep PROVE UNCHANGED edits
    <3>1. CASE FileStep
      BY <3>1 DEF FileStep, FileNew, FileSave, FileChoose, ChooserCancelled, OpenChosen,
                  SaveAsChosen, CrashInSave, Relaunch, Delete, ChooserDone
    <3>2. CASE PortStep \/ BarStep
      BY <3>2 DEF PortStep, RefreshPorts, PickPort, PortSelected,
                  BarStep, PlayClicked, StopClicked, SliderMoved, ClockToggled, BarTimer, BarOnly
    <3>3. CASE Crash \/ UNCHANGED vars
      BY <3>3 DEF Crash, Relaunch, vars
    <3>4. QED
      BY <2>1, <3>1, <3>2, <3>3 DEF Next
  <2>2. QED
    BY <2>1
<1>2. CASE NoteEdit
  <2>1. PICK a, b, notes, id, e : OneNote(a, b, notes, id, e)
    BY <1>2, OneEdited
  <2>2. QED
    BY <2>1, EditedOne DEF Local
<1>3. ASSUME NEW region, SetLoop(region) PROVE Local
  <2>1. project'.tracks = project.tracks
    BY <1>3 DEF SetLoop, DataInv, WellFormed
  <2>2. QED
    BY <2>1 DEF Local, NotesOf
<1>4. QED
  BY <1>1, <1>2, <1>3 DEF EditStep

\* An edit touches one note: inserting, removing and sorting again leave every
\* other note of every pattern as it was.
THEOREM EditsTouchOneNote == Spec => EditsAreLocal
<1>1. Local => (edits' # edits =>
          LET before == NotesOf(project)
              after  == NotesOf(project')
              Others(notes, x) == {n \in notes : n.pattern # x.pattern \/ n.note.id # x.note.id}
          IN before = after \/ \E x \in before \cup after : Others(before, x) = Others(after, x))
  BY DEF Local, OthersOf
<1>2. QED
  BY <1>1, DataInit, DataStep, LocalStep, PTL DEF Spec, EditsAreLocal

-----------------------------------------------------------------------------
(* Types.                                                                  *)

Sounding ==
    /\ DOMAIN engine = EngineFields
    /\ engine.port \in Devices \cup {NoDevice} /\ engine.clockOn \in BOOLEAN
    /\ tState \in {"Stopped", "Playing"} /\ tempo \in 20 .. 999 /\ pos \in Nat
    /\ clockRunning \in BOOLEAN
    /\ activePort \in Devices \cup {NoDevice} /\ portName \in Devices \cup {NoDevice}
    /\ opened \subseteq Devices /\ plugged \subseteq Devices

Shown ==
    /\ stopEnabled \in BOOLEAN /\ portPicked \in BOOLEAN
    /\ combo \in Devices \cup {NoDevice} /\ listed \subseteq Devices
    /\ currentPath \in Paths \cup {NoPath}
    /\ chooser \in {"none", "open", "saveAs"}
    /\ status \in {"", "no port", "connected", "failed", "disappeared"}

LEMMA FieldsInit == Init => Sounding /\ Shown
<1> SUFFICES ASSUME Init PROVE Sounding /\ Shown
  OBVIOUS
<1>1. PICK d \in Devices \cup {NoDevice} : Launched(d) /\ combo = d
  BY DEF Init
<1>2. DOMAIN engine = EngineFields /\ engine.port = d /\ engine.clockOn = FALSE
  BY <1>1 DEF Launched, NewEngine, EngineFields
<1>3. Sounding
  <2>1. /\ tState = "Stopped" /\ tempo = 120 /\ pos = 0 /\ activePort = d /\ portName = d
        /\ opened = {d} \ {NoDevice} /\ plugged = Devices
    BY <1>1 DEF Init, Launched, DefaultTempo
  <2>2. clockRunning \in BOOLEAN /\ engine.clockOn \in BOOLEAN
    BY <1>1, <1>2 DEF Launched
  <2>3. QED
    BY <1>2, <2>1, <2>2 DEF Sounding
<1>4. Shown
  BY <1>1 DEF Init, Shown
<1>5. QED
  BY <1>3, <1>4

LEMMA FieldsRelaunch == ASSUME Sounding, Relaunch PROVE Sounding' /\ Shown'
<1>1. PICK d \in plugged \cup {NoDevice} : Relaunched(d) /\ combo' = d
  BY DEF Relaunch
<1>2. DOMAIN engine' = EngineFields /\ engine'.port = d /\ engine'.clockOn = FALSE
  BY <1>1 DEF Relaunched, NewEngine, EngineFields
<1>3. Sounding'
  <2>1. /\ tState' = "Stopped" /\ tempo' = 120 /\ pos' = 0 /\ activePort' = d /\ portName' = d
        /\ opened' = {d} \ {NoDevice} /\ plugged' = plugged
    BY <1>1 DEF Relaunch, Relaunched, DefaultTempo
  <2>2. clockRunning' \in BOOLEAN /\ engine'.clockOn \in BOOLEAN
    BY <1>1, <1>2 DEF Relaunched
  <2>3. QED
    BY <1>2, <2>1, <2>2 DEF Sounding
<1>4. Shown'
  BY <1>1 DEF Relaunch, Shown, Sounding
<1>5. QED
  BY <1>3, <1>4

\* A step that changes no port and no clock flag of the engine.
SameEngine ==
    /\ DOMAIN engine' = EngineFields
    /\ engine'.port = engine.port /\ engine'.clockOn = engine.clockOn

LEMMA EngineKept ==
  ASSUME Sounding, \/ UNCHANGED engine
                   \/ \E prj, l : engine' = [engine EXCEPT !.project = prj, !.loop = l]
                   \/ \E l : engine' = [engine EXCEPT !.loop = l]
  PROVE  SameEngine
  BY DEF Sounding, EngineFields, SameEngine

LEMMA SoundingKept ==
  ASSUME Sounding, SameEngine, UNCHANGED <<tState, tempo, pos, clockRunning, portVars, plugged>>
  PROVE  Sounding'
  BY DEF Sounding, SameEngine, portVars

LEMMA SoundingFile == DataInv' /\ Sounding /\ FileStep => Sounding'
<1> SUFFICES ASSUME DataInv', Sounding, FileStep PROVE Sounding'
  OBVIOUS
<1>1. CASE FileNew
  <2>1. SameEngine
    BY <1>1, EngineKept DEF FileNew, NewProject
  <2>2. QED
    BY <1>1, <2>1 DEF FileNew, NewProject, portVars, Sounding, SameEngine
<1>2. ASSUME NEW path, OpenProject(path) PROVE Sounding'
  <2>1. SameEngine
    BY <1>2, EngineKept DEF OpenProject, Installed
  <2>2. tempo' \in 20 .. 999
    <3>1. WellFormed(project')
      BY DEF DataInv
    <3>2. tempo' = project'.tempo
      BY <1>2 DEF OpenProject
    <3>3. QED
      BY <3>1, <3>2 DEF WellFormed
  <2>3. /\ tState' = "Stopped" /\ pos' = 0
        /\ UNCHANGED <<clockRunning, portVars, plugged>>
    BY <1>2 DEF OpenProject
  <2>4. QED
    BY <2>1, <2>2, <2>3 DEF portVars, Sounding, SameEngine
<1>3. ASSUME NEW path \in Paths, CrashInSave(path) PROVE Sounding'
  BY <1>3, FieldsRelaunch DEF CrashInSave
<1>4. CASE UNCHANGED <<memoryVars, portVars, plugged>>
  BY <1>4, EngineKept, SoundingKept DEF memoryVars
<1>5. QED
  BY <1>1, <1>2, <1>3, <1>4
  DEF FileStep, FileSave, FileChoose, ChooserCancelled, OpenChosen, SaveAsChosen, Delete,
      SaveProject, SaveCutShort, appVars

LEMMA SoundingPort == Sounding /\ Shown /\ PortStep => Sounding'
<1> SUFFICES ASSUME Sounding, Shown, PortStep PROVE Sounding'
  OBVIOUS
<1>1. CASE UNCHANGED <<memoryVars, portVars, plugged>>
  BY <1>1, EngineKept, SoundingKept DEF memoryVars
<1>2. CASE PortSelected
  <2>1. PICK d \in Devices \cup {NoDevice} :
           Activate(d) /\ UNCHANGED <<tState, tempo, pos, plugged>>
    BY <1>2 DEF PortSelected, PortOpens, PortFails, Shown
  <2>2. /\ DOMAIN engine' = EngineFields
        /\ engine'.port = d /\ engine'.clockOn = engine.clockOn
    BY <2>1 DEF Activate, EngineFields, Sounding
  <2>3. QED
    BY <2>1, <2>2 DEF Activate, Sounding
<1>3. ASSUME NEW d \in Hotplugged, Replug(d) PROVE Sounding'
  <2>1. d \in Devices
    BY HotplugAssumption
  <2>2. QED
    BY <1>3, <2>1 DEF Replug, memoryVars, portVars, Sounding
<1>4. QED
  BY <1>1, <1>2, <1>3 DEF PortStep, RefreshPorts, PickPort, appVars

LEMMA SoundingBar == Sounding /\ BarStep => Sounding'
<1> SUFFICES ASSUME Sounding, BarStep PROVE Sounding'
  OBVIOUS
<1>1. CASE PlayClicked \/ StopClicked
  BY <1>1
  DEF PlayClicked, StopClicked, PlayTransport, StopTransport, TransportOnly, portVars, Sounding
<1>2. CASE BarTimer
  BY <1>2, EngineKept, SoundingKept DEF BarTimer, appVars, memoryVars
<1>3. ASSUME NEW bpm \in Tempos, SliderMoved(bpm) PROVE Sounding'
  <2>1. bpm \in Int
    BY EditsAssumption
  <2>2. Bpm(bpm) \in 20 .. 999
    BY <2>1 DEF Bpm, Clamp
  <2>3. QED
    BY <1>3, <2>2 DEF SliderMoved, SetTempo, TransportOnly, portVars, Sounding
<1>4. CASE ClockToggled
  <2>1. /\ DOMAIN engine' = EngineFields /\ engine'.port = engine.port
        /\ engine'.clockOn \in BOOLEAN
    BY <1>4 DEF ClockToggled, SetClockEnabled, EngineFields, Sounding
  <2>2. QED
    BY <1>4, <2>1 DEF ClockToggled, SetClockEnabled, portVars, Sounding
<1>5. QED
  BY <1>1, <1>2, <1>3, <1>4 DEF BarStep

LEMMA SoundingEdit == Sounding /\ EditStep => Sounding'
<1> SUFFICES ASSUME Sounding, EditStep PROVE Sounding'
  OBVIOUS
<1>1. CASE NoteEdit
  <2>1. PICK prj : Edited(prj)
    BY <1>1 DEF NoteEdit, AddNote, RemoveNote, MoveNote, ResizeNote, SetNoteVelocity, ChangeNote
  <2>2. SameEngine
    BY <2>1, EngineKept DEF Edited, Resynced, Installed
  <2>3. QED
    BY <2>1, <2>2, SoundingKept DEF Edited
<1>2. ASSUME NEW region, SetLoop(region) PROVE Sounding'
  BY <1>2, EngineKept, SoundingKept DEF SetLoop
<1>3. QED
  BY <1>1, <1>2 DEF EditStep

LEMMA SoundingStep == DataInv' /\ Sounding /\ Shown /\ [Next]_vars => Sounding'
<1> SUFFICES ASSUME DataInv', Sounding, Shown, [Next]_vars PROVE Sounding'
  OBVIOUS
<1>1. CASE Crash
  BY <1>1, FieldsRelaunch DEF Crash
<1>2. CASE UNCHANGED vars
  BY <1>2, EngineKept, SoundingKept DEF vars, appVars, memoryVars
<1>3. QED
  BY <1>1, <1>2, SoundingFile, SoundingPort, SoundingBar, SoundingEdit DEF Next

LEMMA ShownStep == Sounding /\ Shown /\ [Next]_vars => Shown'
<1> SUFFICES ASSUME Sounding, Shown, [Next]_vars PROVE Shown'
  OBVIOUS
<1>1. CASE UNCHANGED uiVars
  BY <1>1 DEF uiVars, windowVars, panelVars, Shown
<1>2. CASE FileStep
  <2>1. CASE FileNew \/ FileSave \/ ChooserCancelled
    BY <2>1 DEF FileNew, FileSave, ChooserCancelled, ChooserDone, panelVars, Shown
  <2>2. ASSUME NEW mode \in {"open", "saveAs"}, FileChoose(mode) PROVE Shown'
    BY <2>2 DEF FileChoose, panelVars, Shown
  <2>3. ASSUME NEW path \in Paths, OpenChosen(path) \/ SaveAsChosen(path) PROVE Shown'
    BY <2>3 DEF OpenChosen, SaveAsChosen, ChooserDone, panelVars, Shown
  <2>4. ASSUME NEW path, CrashInSave(path) PROVE Shown'
    BY <2>4, FieldsRelaunch DEF CrashInSave
  <2>5. QED
    BY <1>1, <1>2, <2>1, <2>2, <2>3, <2>4 DEF FileStep, Delete
<1>3. CASE PortStep
  <2>1. CASE RefreshPorts
    BY <2>1 DEF RefreshPorts, appVars, portVars, windowVars, Sounding, Shown
  <2>2. CASE PortSelected
    BY <2>2 DEF PortSelected, windowVars, Shown
  <2>3. ASSUME NEW d, PickPort(d) PROVE Shown'
    BY <2>3 DEF PickPort, windowVars, Shown
  <2>4. QED
    BY <1>1, <1>3, <2>1, <2>2, <2>3 DEF PortStep
<1>4. CASE BarStep
  BY <1>4
  DEF BarStep, PlayClicked, StopClicked, SliderMoved, ClockToggled, BarTimer, BarOnly,
      windowVars, panelVars, Shown
<1>5. CASE Crash
  BY <1>5, FieldsRelaunch DEF Crash
<1>6. QED
  BY <1>1, <1>2, <1>3, <1>4, <1>5 DEF Next, EditStep, vars

\* Every variable holds a value of its type, whatever the files hold.
THEOREM AppTypes == Spec => []TypeOK
<1>1. Sounding /\ Shown /\ DataInv => TypeOK
  <2> SUFFICES ASSUME Sounding, Shown, DataInv PROVE TypeOK
    OBVIOUS
  <2>1. /\ noteIds \in Nat
        /\ \A path \in Paths : disk[path].kind \in {"absent", "torn", "malformed", "document"}
    BY DEF DataInv, TypedDisk
  <2>2. /\ engine.port \in Devices \cup {NoDevice} /\ engine.clockOn \in BOOLEAN
        /\ tState \in {"Stopped", "Playing"} /\ tempo \in 20 .. 999 /\ pos \in Nat
        /\ {clockRunning, stopEnabled, portPicked} \subseteq BOOLEAN
    BY DEF Sounding, Shown
  <2>3. /\ {activePort, portName, combo} \subseteq Devices \cup {NoDevice}
        /\ opened \subseteq Devices /\ plugged \subseteq Devices /\ listed \subseteq Devices
        /\ currentPath \in Paths \cup {NoPath}
    <3>1. /\ activePort \in Devices \cup {NoDevice} /\ portName \in Devices \cup {NoDevice}
          /\ opened \subseteq Devices /\ plugged \subseteq Devices
      BY DEF Sounding
    <3>2. /\ combo \in Devices \cup {NoDevice} /\ listed \subseteq Devices
          /\ currentPath \in Paths \cup {NoPath}
      BY DEF Shown
    <3>3. QED
      BY <3>1, <3>2
  <2>4. /\ chooser \in {"none", "open", "saveAs"}
        /\ status \in {"", "no port", "connected", "failed", "disappeared"}
    BY DEF Shown
  <2>5. QED
    BY <2>1, <2>2, <2>3, <2>4, Zenon DEF TypeOK
<1>2. QED
  BY <1>1, FieldsInit, SoundingStep, ShownStep, DataInit, DataStep, PTL DEF Spec
=============================================================================
