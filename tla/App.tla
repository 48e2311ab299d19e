--------------------------------- MODULE App ---------------------------------
(***************************************************************************)
(* The application around AppController: main(), the main window's File    *)
(* menu, the ports panel and the transport bar, on the UI thread.  The     *)
(* file chooser is asynchronous: everything else goes on while it is up.   *)
(* The system unplugs devices, deletes files and lets writes fail; the     *)
(* program may die at any moment, in the middle of a save too, and be      *)
(* started again over the same disk.                                       *)
(*                                                                         *)
(* What the piano roll edits is module PianoRoll; here it is any edit.     *)
(***************************************************************************)
EXTENDS AppController

CONSTANTS
    NoPath,        \* current_path_ is the empty File
    NewNotes,      \* notes that are added
    Starts,        \* where notes are moved to
    Lengths,       \* what notes are resized to
    Tempos,        \* settings of the tempo slider
    Regions,       \* loop regions
    Hotplugged,    \* bound: the devices that come and go
    MaxEdits       \* bound: edits in a behaviour

ASSUME HotplugAssumption == Hotplugged \subseteq Devices

ASSUME EditsAssumption ==
    /\ NewNotes \subseteq [start : Int, length : Int, pitch : 0 .. 127, velocity : 0 .. 127]
    /\ Starts \subseteq Int /\ Lengths \subseteq Int /\ Tempos \subseteq Int

VARIABLES
    currentPath,   \* current_path_
    chooser,       \* the file chooser that is up
    combo,         \* the device port_combo_ shows
    listed,        \* the devices port_combo_ offers
    status,        \* status_label_
    portPicked,    \* port_combo_ will call onChange
    stopEnabled,   \* the stop button is enabled and the play button is not
    edits          \* how many edits there have been

windowVars == <<currentPath, chooser>>
panelVars  == <<combo, listed, status, portPicked>>
uiVars     == <<windowVars, panelVars, stopEnabled>>
vars       == <<appVars, uiVars, edits>>

-----------------------------------------------------------------------------
(* main(): a port is tried, then the window is built.                      *)

Init ==
    /\ plugged = Devices /\ disk \in Files /\ edits = 0
    /\ \E d \in Devices \cup {NoDevice} : Launched(d) /\ combo = d
    /\ currentPath = NoPath /\ chooser = "none"
    /\ listed = plugged /\ status = "" /\ portPicked = FALSE /\ stopEnabled = FALSE

\* The program dies and is started again.
Relaunch ==
    /\ \E d \in plugged \cup {NoDevice} : Relaunched(d) /\ combo' = d
    /\ currentPath' = NoPath /\ chooser' = "none"
    /\ listed' = plugged /\ status' = "" /\ portPicked' = FALSE /\ stopEnabled' = FALSE
    /\ UNCHANGED <<plugged, edits>>

Crash == Relaunch /\ UNCHANGED disk

-----------------------------------------------------------------------------
(* MainWindow.                                                             *)

Exists(path) == path # NoPath /\ disk[path].kind # "absent"

FileNew ==
    /\ NewProject
    /\ currentPath' = NoPath
    /\ UNCHANGED <<chooser, panelVars, stopEnabled, edits>>

\* Open... and Save As... put a chooser up, in the place of one that is still up.
FileChoose(mode) ==
    /\ chooser' = mode
    /\ UNCHANGED <<appVars, currentPath, panelVars, stopEnabled, edits>>

ChooserDone == chooser' = "none" /\ UNCHANGED <<panelVars, stopEnabled, edits>>

\* The chooser's callback: a file that does not load leaves everything as it is.
OpenChosen(path) ==
    /\ chooser = "open"
    /\ Exists(path)
    /\ \/ OpenProject(path) /\ currentPath' = path
       \/ ~Loadable(disk[path]) /\ UNCHANGED <<appVars, currentPath>>
    /\ ChooserDone

ChooserCancelled ==
    /\ chooser # "none"
    /\ UNCHANGED <<appVars, currentPath>>
    /\ ChooserDone

\* Save is offered while current_path_ is a file; if it has gone by then a
\* chooser is put up.  The write may fail after the file was truncated.
FileSave ==
    /\ currentPath # NoPath
    /\ \/ /\ Exists(currentPath)
          /\ SaveProject(currentPath) \/ SaveCutShort(currentPath)
          /\ UNCHANGED chooser
       \/ /\ ~Exists(currentPath)
          /\ chooser' = "saveAs"
          /\ UNCHANGED appVars
    /\ UNCHANGED <<currentPath, panelVars, stopEnabled, edits>>

\* A failed save is reported, or not when it is the destructor of the stream
\* that fails to flush.
SaveAsChosen(path) ==
    /\ chooser = "saveAs"
    /\ \/ SaveProject(path) /\ currentPath' = path
       \/ SaveCutShort(path) /\ currentPath' \in {currentPath, path}
    /\ ChooserDone

CrashInSave(path) ==
    /\ \/ path = currentPath /\ Exists(path)
       \/ chooser = "saveAs"
    /\ disk' = [disk EXCEPT ![path] = Torn]
    /\ Relaunch

\* Another program deletes a file.
Delete(path) ==
    /\ disk[path].kind # "absent"
    /\ disk' = [disk EXCEPT ![path] = Absent]
    /\ UNCHANGED <<memoryVars, portVars, plugged, uiVars, edits>>

FileStep ==
    \/ FileNew \/ FileSave \/ ChooserCancelled
    \/ \E mode \in {"open", "saveAs"} : FileChoose(mode)
    \/ \E path \in Paths : \/ OpenChosen(path) \/ SaveAsChosen(path) \/ CrashInSave(path)
                           \/ Delete(path)

-----------------------------------------------------------------------------
(* PortsPanel.                                                             *)

\* refresh_port_list, on the button and every 30 s: the combo box shows the
\* active port if it is still there.
RefreshPorts ==
    /\ listed' = plugged
    /\ combo' = IF portName \in plugged THEN portName ELSE NoDevice
    /\ status' = IF portName \in plugged \cup {NoDevice} THEN "" ELSE "disappeared"
    /\ UNCHANGED <<portPicked, appVars, windowVars, stopEnabled, edits>>

\* Another item is picked; the combo box calls back later.
PickPort(d) ==
    /\ d \in listed \cup {NoDevice}
    /\ d # combo
    /\ combo' = d /\ portPicked' = TRUE
    /\ UNCHANGED <<appVars, listed, status, windowVars, stopEnabled, edits>>

\* on_selection_changed: of what the combo box shows by then.
PortSelected ==
    /\ portPicked /\ portPicked' = FALSE
    /\ \/ PortOpens(combo) /\ status' = "connected"
       \/ PortFails /\ status' = IF combo = NoDevice THEN "no port" ELSE "failed"
    /\ UNCHANGED <<combo, listed, windowVars, stopEnabled, edits>>

PortStep ==
    \/ RefreshPorts \/ PortSelected
    \/ \E d \in Devices \cup {NoDevice} : PickPort(d)
    \/ \E d \in Hotplugged : Replug(d) /\ UNCHANGED <<uiVars, edits>>

-----------------------------------------------------------------------------
(* TransportBar: the buttons follow the transport at every click and at    *)
(* every tick of the bar's timer.                                          *)

BarOnly == UNCHANGED <<windowVars, panelVars, edits>>

PlayClicked == ~stopEnabled /\ PlayTransport /\ stopEnabled' = TRUE /\ BarOnly
StopClicked == stopEnabled /\ StopTransport /\ stopEnabled' = FALSE /\ BarOnly
SliderMoved(bpm) == SetTempo(bpm) /\ UNCHANGED stopEnabled /\ BarOnly
ClockToggled == SetClockEnabled(~engine.clockOn) /\ UNCHANGED stopEnabled /\ BarOnly
BarTimer == stopEnabled' = (tState = "Playing") /\ UNCHANGED appVars /\ BarOnly

BarStep ==
    \/ PlayClicked \/ StopClicked \/ ClockToggled \/ BarTimer
    \/ \E bpm \in Tempos : SliderMoved(bpm)

-----------------------------------------------------------------------------
(* Edits.                                                                  *)

Targets == {<<project.tracks[n.pattern[1]].id, PatternAt(project, n.pattern).id, n.note.id>> :
               n \in NotesOf(project)}

NoteEdit ==
    \/ \E x \in Targets :
          \/ \E note \in NewNotes : AddNote(x[1], x[2], note)
          \/ RemoveNote(x[1], x[2], x[3])
          \/ \E start \in Starts : MoveNote(x[1], x[2], x[3], start, 60)
          \/ \E length \in Lengths : ResizeNote(x[1], x[2], x[3], length)
          \/ SetNoteVelocity(x[1], x[2], x[3], 1)

EditStep ==
    /\ edits < MaxEdits /\ edits' = edits + 1
    /\ NoteEdit \/ \E region \in Regions : SetLoop(region)
    /\ UNCHANGED uiVars

Next == FileStep \/ PortStep \/ BarStep \/ EditStep \/ Crash

Spec == Init /\ [][Next]_vars

-----------------------------------------------------------------------------
(* Properties.                                                             *)

\* Every variable holds a value of its type.
TypeOK ==
    /\ noteIds \in Nat
    /\ engine.port \in Devices \cup {NoDevice} /\ engine.clockOn \in BOOLEAN
    /\ tState \in {"Stopped", "Playing"} /\ tempo \in 20 .. 999 /\ pos \in Nat
    /\ {clockRunning, stopEnabled, portPicked} \subseteq BOOLEAN
    /\ {activePort, portName, combo} \subseteq Devices \cup {NoDevice}
    /\ opened \subseteq Devices /\ plugged \subseteq Devices /\ listed \subseteq Devices
    /\ \A path \in Paths : disk[path].kind \in {"absent", "torn", "malformed", "document"}
    /\ currentPath \in Paths \cup {NoPath}
    /\ chooser \in {"none", "open", "saveAs"}
    /\ status \in {"", "no port", "connected", "failed", "disappeared"}

\* What the engine would play is what the user edits: after every operation its
\* snapshot is the edited project and its loop region is the project's.
Played == IF engine.project = {} THEN {EmptyProject} ELSE engine.project

EngineInSync ==
    /\ engine.loop = project.loop
    /\ \A p \in Played : [p EXCEPT !.loop = project.loop] = project

\* A project survives a save: writing it and loading what was written gives the
\* same project, so loading never drops or reorders what editing produced.
RoundTrip == ProjectFrom(ProjectTo(project)) = project

\* A note that is added gets an id no note of the project has, after loads of
\* files with ids of their own, restarts and replacements of the project.
IdsFresh == \A n \in NotesOf(project) : IsValid(n.note.id) /\ n.note.id <= noteIds

\* The engine sends to the one device that is open, and the panel says so: once
\* a pick was handled the combo box shows that device, or the status line why it
\* does not.
PanelShowsPort ==
    /\ opened = {engine.port} \ {NoDevice}
    /\ \/ portPicked
       \/ combo = engine.port
       \/ combo # NoDevice /\ engine.port = NoDevice /\ status = "failed"
       \/ combo = NoDevice /\ status = "disappeared"

\* An edit touches one note: every other note of every pattern is still there,
\* as it was, after inserting, removing, and sorting again.
EditsAreLocal ==
    [][edits' # edits =>
          LET before == NotesOf(project)
              after  == NotesOf(project')
              Others(notes, x) == {n \in notes : n.pattern # x.pattern \/ n.note.id # x.note.id}
          IN before = after \/ \E x \in before \cup after : Others(before, x) = Others(after, x)]_vars

-----------------------------------------------------------------------------
(* Play.                                                                   *)

\* A slice of the clock's thread, if there is one (bound: one tick of song).
ClockTick ==
    /\ clockRunning /\ tState = "Playing" /\ pos = 0
    /\ pos' = 1
    /\ UNCHANGED <<project, noteIds, engine, tState, tempo, clockRunning, portVars,
                   plugged, disk, uiVars, edits>>

FairPlaySpec == Init /\ [][Next \/ ClockTick]_vars /\ WF_vars(ClockTick)

\* main.cpp: a port is picked at startup so the user can hit Play immediately;
\* so while the transport plays on a port the song advances.
PlayProgresses ==
    (tState = "Playing" /\ engine.port # NoDevice)
        ~> (pos > 0 \/ tState = "Stopped" \/ engine.port = NoDevice)
=============================================================================
