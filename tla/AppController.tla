--------------------------- MODULE AppController ---------------------------
(***************************************************************************)
(* app::AppController: the edited project, the snapshot of it the engine   *)
(* plays, the transport, the clock, the active port, and the files.        *)
(*                                                                         *)
(* Every operation runs to its end on the UI thread.  Those that replace   *)
(* the engine's project or port stop the clock if it runs, do their work   *)
(* and start it again; clockRunning is what they leave behind.  set_loop   *)
(* does not stop it, but nothing in the program calls set_loop or starts   *)
(* the clock.  While the clock does not run advance() is not called, so    *)
(* the engine holds no pending note and its part here is what it was       *)
(* given: project, loop region, port and clock flag.                       *)
(***************************************************************************)
EXTENDS ProjectFile

CONSTANTS
    Devices,       \* names of MIDI output devices
    NoDevice,      \* no port; the empty device name
    Paths,         \* paths of project files
    Files,         \* what the disk holds at first: functions from Paths to contents
    MaxNoteId      \* bound: no note id beyond this one is handed out

ASSUME NoneAssumption == NoDevice \notin Devices

ASSUME FilesAssumption ==
    \A files \in Files :
        /\ DOMAIN files = Paths
        /\ \A path \in Paths :
              /\ files[path].kind \in {"absent", "torn", "malformed", "document"}
              /\ files[path].kind = "document" => IsDocument(files[path].doc)

VARIABLES
    project,       \* project_
    noteIds,       \* the id counter of the notes
    engine,        \* engine_: [project, loop, port, clockOn]; no project, or one
    tState, tempo, pos,   \* its transport
    clockRunning,  \* clock_.is_running()
    activePort,    \* the device of active_port_, or none
    portName,      \* active_port_name_
    opened,        \* the devices this program has open
    plugged,       \* the devices the system lists
    disk           \* what is at each path

memoryVars == <<project, noteIds, engine, tState, tempo, pos, clockRunning>>
portVars   == <<activePort, portName, opened>>
appVars    == <<memoryVars, portVars, plugged, disk>>

NewEngine(d) ==
    [project |-> {}, loop |-> NoRegion, port |-> d, clockOn |-> FALSE]

\* The program has just started; main() has tried a port, and got d.
Launched(d) ==
    /\ project = EmptyProject /\ noteIds = 0
    /\ engine = NewEngine(d)
    /\ tState = "Stopped" /\ tempo = DefaultTempo /\ pos = 0 /\ clockRunning = FALSE
    /\ activePort = d /\ portName = d /\ opened = {d} \ {NoDevice}

\* It died and was started again.
Relaunched(d) ==
    /\ project' = EmptyProject /\ noteIds' = 0
    /\ engine' = NewEngine(d)
    /\ tState' = "Stopped" /\ tempo' = DefaultTempo /\ pos' = 0 /\ clockRunning' = FALSE
    /\ activePort' = d /\ portName' = d /\ opened' = {d} \ {NoDevice}

-----------------------------------------------------------------------------
(* Transport: the atomics are written, nothing else.                       *)

TransportOnly ==
    UNCHANGED <<project, noteIds, engine, clockRunning, portVars, plugged, disk>>

PlayTransport == tState' = "Playing" /\ UNCHANGED <<tempo, pos>> /\ TransportOnly
StopTransport == tState' = "Stopped" /\ pos' = 0 /\ UNCHANGED tempo /\ TransportOnly
SetTempo(bpm) == tempo' = Bpm(bpm) /\ UNCHANGED <<tState, pos>> /\ TransportOnly

SetClockEnabled(b) ==
    /\ engine' = [engine EXCEPT !.clockOn = b]
    /\ UNCHANGED <<project, noteIds, tState, tempo, pos, clockRunning, portVars, plugged, disk>>

-----------------------------------------------------------------------------
(* Projects.                                                               *)

\* engine_.set_project(prj): a copy, and its loop region.
Installed(prj) == [engine EXCEPT !.project = {prj}, !.loop = prj.loop]

NewProject ==
    /\ project' = EmptyProject
    /\ tState' = "Stopped" /\ pos' = 0
    /\ engine' = [engine EXCEPT !.project = {}, !.loop = NoRegion]
    /\ UNCHANGED <<noteIds, tempo, clockRunning, portVars, plugged, disk>>

\* open_project: a file that does not load changes nothing.
OpenProject(path) ==
    /\ Loadable(disk[path])
    /\ LET loaded == ProjectFrom(disk[path].doc)
       IN /\ project' = loaded
          /\ noteIds' = BumpNoteIds(noteIds, loaded)
          /\ engine' = Installed(loaded)
          /\ tempo' = loaded.tempo
    /\ tState' = "Stopped" /\ pos' = 0
    /\ UNCHANGED <<clockRunning, portVars, plugged, disk>>

\* save_project: opening the stream truncates the file before anything is
\* written; what a write that fails part way leaves does not parse.
SaveProject(path) ==
    /\ disk' = [disk EXCEPT ![path] = File(ProjectTo(project))]
    /\ UNCHANGED <<memoryVars, portVars, plugged>>

SaveCutShort(path) ==
    /\ disk' = [disk EXCEPT ![path] = Torn]
    /\ UNCHANGED <<memoryVars, portVars, plugged>>

\* set_loop: the engine's copy of the project keeps its own region.
SetLoop(region) ==
    /\ project' = [project EXCEPT !.loop = region]
    /\ engine' = [engine EXCEPT !.loop = region]
    /\ UNCHANGED <<noteIds, tState, tempo, pos, clockRunning, portVars, plugged, disk>>

-----------------------------------------------------------------------------
(* Ports.                                                                  *)

\* Mutant of Activate: the engine is not detached from a port that is gone.
ActivateOver(d) ==
    /\ activePort' = d /\ portName' = d
    /\ opened' = (opened \ {activePort}) \cup ({d} \ {NoDevice})
    /\ engine' = IF d = NoDevice THEN engine ELSE [engine EXCEPT !.port = d]
    /\ clockRunning' = (clockRunning /\ d # NoDevice)

\* The engine is detached and the old port closed before the new one, if any,
\* is opened; the clock is started again only over a port.
Activate(d) ==
    /\ activePort' = d /\ portName' = d
    /\ opened' = (opened \ {activePort}) \cup ({d} \ {NoDevice})
    /\ engine' = [engine EXCEPT !.port = d]
    /\ clockRunning' = (clockRunning /\ d # NoDevice)

\* set_active_port(d), which opens: the device is still listed and not in use
\* elsewhere ...
PortOpens(d) ==
    /\ d \in plugged
    /\ Activate(d)
    /\ UNCHANGED <<project, noteIds, tState, tempo, pos, plugged, disk>>

\* ... which does not, or is asked for no port.
PortFails ==
    /\ Activate(NoDevice)
    /\ UNCHANGED <<project, noteIds, tState, tempo, pos, plugged, disk>>

\* The system: devices come and go.
Replug(d) ==
    /\ plugged' = IF d \in plugged THEN plugged \ {d} ELSE plugged \cup {d}
    /\ UNCHANGED <<memoryVars, portVars, disk>>

-----------------------------------------------------------------------------
(* Note edits.                                                             *)

\* Mutant of Resynced: the engine keeps playing what it has.
Unsynced(prj) == engine

\* resync_engine_if_needed: whatever the pattern, the project is installed anew.
Resynced(prj) == Installed(prj)

Edited(prj) ==
    /\ project' = prj
    /\ engine' = Resynced(prj)
    /\ UNCHANGED <<tState, tempo, pos, clockRunning, portVars, plugged, disk>>

\* add_note, for a pattern that exists; the note takes the next id.
AddNote(t, p, note) ==
    /\ noteIds < MaxNoteId
    /\ noteIds' = noteIds + 1
    /\ \E at \in FindPattern(project, t, p) :
          Edited(WithNotes(project, at,
                    InsertByStart(PatternAt(project, at).notes,
                        [id |-> noteIds + 1, start |-> note.start, length |-> note.length,
                         pitch |-> note.pitch, velocity |-> note.velocity])))

RemoveNote(t, p, n) ==
    /\ \E at \in FindPattern(project, t, p) :
          LET notes == PatternAt(project, at).notes
          IN HasId(notes, n) /\ Edited(WithNotes(project, at, RemoveNoteFrom(notes, n)))
    /\ UNCHANGED noteIds

WithFields(note, fields) ==
    [x \in DOMAIN note |-> IF x \in DOMAIN fields THEN fields[x] ELSE note[x]]

\* The note n of a pattern gets these fields; nothing happens without pattern or
\* note.
ChangeNote(t, p, n, fields) ==
    /\ \E at \in FindPattern(project, t, p) :
          LET notes == PatternAt(project, at).notes
          IN /\ HasId(notes, n)
             /\ Edited(WithNotes(project, at,
                          UpdateNote(notes, WithFields(notes[IndexOf(notes, n)], fields))))
    /\ UNCHANGED noteIds

AtLeast(lo, v) == IF v < lo THEN lo ELSE v

MoveNote(t, p, n, start, pitch) ==
    ChangeNote(t, p, n, [start |-> AtLeast(0, start), pitch |-> pitch])

ResizeNote(t, p, n, length) == ChangeNote(t, p, n, [length |-> AtLeast(1, length)])

SetNoteVelocity(t, p, n, velocity) == ChangeNote(t, p, n, [velocity |-> velocity])
=============================================================================
