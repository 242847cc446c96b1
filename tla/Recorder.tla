------------------------------ MODULE Recorder ------------------------------
(***************************************************************************)
(* The recordings of decoded packets that the DLL makes at the request of  *)
(* its application (src/mmtsRecorder.cpp, the exports of src/dllmain.cpp)  *)
(* with the map of each (src/mmtsMapWriter.cpp).                           *)
(*                                                                         *)
(* Threads of the application start and stop recordings; the thread that   *)
(* reads the tuner writes packets to all of them.  A critical section of   *)
(* g_mutex is one step.  Stop finishes the files with the mutex released.  *)
(* A time is the number of the packet that has it, an offset is counted in *)
(* packets.                                                                *)
(***************************************************************************)
EXTENDS Naturals, Sequences, FiniteSets, Functions

CONSTANTS
  Controls,     \* the application's control threads
  Saver,        \* the one of them that calls StartMmtsSave and StopMmtsSave,
                \* whose legacyMmtsSessionId no mutex protects
  Media,        \* the paths recordings are made to; a path is one for all its
                \* spellings and links (sameFilePath)
  MapOf(_),     \* the path of the map that belongs to one
  None,
  MinGap,       \* the least time between two points of a map
  MaxSessions   \* bound: session IDs given out; the code's 2^32 - 1 do not
                \* come round

Paths == Media \cup {MapOf(p) : p \in Media}

ASSUME RecorderAssumption ==
  /\ MaxSessions \in Nat /\ MinGap \in Nat
  /\ Saver \in Controls
  /\ None \notin Controls \cup Paths
  /\ \A p, q \in Media : MapOf(p) # p /\ (MapOf(p) = MapOf(q) => p = q)

VARIABLES
  sessions,  \* g_sessions
  nextId,    \* g_nextSessionId
  closing,   \* g_closingSessions
  stops,     \* per control thread, where its Stop is and the session it holds
  legacy,    \* legacyMmtsSessionId, or None
  disk       \* external: what the files hold; None is no file

recVars == <<sessions, nextId, closing, stops, legacy, disk>>

Ids == 1..MaxSessions

Sessions ==
  [path : Media, failed : BOOLEAN, fallbackUsed : BOOLEAN, first : Nat,
   outputOffset : Nat, currentPacketOffset : Nat,
   points : Seq([time : Nat, offset : Nat])]

RecorderTypeOK ==
  /\ \E ids \in SUBSET Ids : sessions \in [ids -> Sessions]
  /\ nextId \in 1..MaxSessions + 1
  /\ closing \in SUBSET Media
  /\ stops \in [Controls -> [at : {"idle", "finish", "release", "start"},
                             session : Sessions \cup {None},
                             then : Media \cup {None, "save"}]]
  /\ legacy \in Ids \cup {None}
  /\ DOMAIN disk = Paths

Idle == [at |-> "idle", session |-> None, then |-> None]

RecorderInit ==
  /\ sessions = <<>> /\ nextId = 1
  /\ closing = {}
  /\ stops = [c \in Controls |-> Idle]
  /\ legacy = None
  /\ disk = [p \in Paths |-> None]

-----------------------------------------------------------------------------
(* Mutated forms of definitions below, each with a mistake that the code   *)
(* could have been written with; they are no part of the model.            *)

ForgetPaths(c, id, next) ==
  /\ sessions' = Restrict(sessions, DOMAIN sessions \ {id})
  /\ stops' = [stops EXCEPT ![c] = [at |-> "finish", session |-> sessions[id], then |-> next]]
  /\ UNCHANGED closing

AddedBefore(s, ok) ==
  [s EXCEPT !.outputOffset = @ + 1, !.currentPacketOffset = s.outputOffset + 1,
            !.failed = @ \/ ~ok]

LastResult(s, ok) ==
  [s EXCEPT !.currentPacketOffset = s.outputOffset, !.outputOffset = @ + 1,
            !.failed = ~ok]

MarkOldest ==
  /\ sessions' = [id \in DOMAIN sessions |->
                    IF \E older \in DOMAIN sessions : older < id
                    THEN sessions[id] ELSE [sessions[id] EXCEPT !.fallbackUsed = TRUE]]
  /\ UNCHANGED <<nextId, closing, stops, legacy, disk>>

-----------------------------------------------------------------------------
(* Start.                                                                  *)

Files(p) == {p, MapOf(p)}

\* PathInUse, by recordings under way and by those being finished.
InUse(p) ==
  \E q \in {sessions[id].path : id \in DOMAIN sessions} \cup closing :
    Files(p) \cap Files(q) # {}

Exists(p) == \E f \in Files(p) : disk[f] # None

NewSession(p, now) ==
  [path |-> p, failed |-> FALSE, fallbackUsed |-> FALSE, first |-> now,
   outputOffset |-> 0, currentPacketOffset |-> 0, points |-> <<>>]

\* The files are removed one after the other if they may be overwritten, then
\* opened one after the other, and the operating system may refuse each.
Removed(p)  == [disk EXCEPT ![p] = None]
Cleared(p)  == [f \in Paths |-> IF f \in Files(p) THEN None ELSE disk[f]]
Opened(p)   == [f \in Paths |-> IF f \in Files(p) THEN <<>> ELSE disk[f]]
AfterRefusal(p, overwrite) ==
  {disk, [Cleared(p) EXCEPT ![p] = <<>>]} \cup IF overwrite THEN {Removed(p), Cleared(p)} ELSE {}

\* now is history: the number of packets written so far.
Start(p, overwrite, now) ==
  /\ ~InUse(p) /\ (overwrite \/ ~Exists(p))
  /\ nextId <= MaxSessions /\ nextId' = nextId + 1
  /\ \/ /\ disk' = Opened(p)
        /\ sessions' = [id \in DOMAIN sessions \cup {nextId} |->
                          IF id = nextId THEN NewSession(p, now) ELSE sessions[id]]
     \/ disk' \in AfterRefusal(p, overwrite) /\ UNCHANGED sessions
  /\ UNCHANGED closing

StartRecording(c, p, overwrite, now) ==
  /\ stops[c] = Idle
  /\ Start(p, overwrite, now)
  /\ UNCHANGED <<stops, legacy>>

-----------------------------------------------------------------------------
(* Stop.                                                                   *)

\* The session leaves the table; its paths stay reserved.
TakeOut(c, id, next) ==
  /\ sessions' = Restrict(sessions, DOMAIN sessions \ {id})
  /\ stops' = [stops EXCEPT ![c] = [at |-> "finish", session |-> sessions[id], then |-> next]]
  /\ closing' = closing \cup {sessions[id].path}

StopRecording(c, id) ==
  /\ stops[c] = Idle /\ id \in DOMAIN sessions
  /\ TakeOut(c, id, None)
  /\ UNCHANGED <<nextId, legacy, disk>>

\* FinishSession closes the media file and writes the map, if it can.
Finish(c) ==
  /\ stops[c].at = "finish"
  /\ \/ disk' = [disk EXCEPT ![MapOf(stops[c].session.path)] = stops[c].session.points]
     \/ UNCHANGED disk
  /\ stops' = [stops EXCEPT ![c].at = "release"]
  /\ UNCHANGED <<sessions, nextId, closing, legacy>>

Release(c) ==
  /\ stops[c].at = "release"
  /\ closing' = closing \ {stops[c].session.path}
  /\ stops' = [stops EXCEPT ![c] = IF @.then \in Media THEN [@ EXCEPT !.at = "start", !.session = None]
                                                       ELSE Idle]
  /\ legacy' = IF stops[c].then = None THEN legacy ELSE None
  /\ UNCHANGED <<sessions, nextId, disk>>

-----------------------------------------------------------------------------
(* StartMmtsSave and StopMmtsSave, which have one recording of their own.  *)

\* Its session may have been stopped by ID: then Stop returns at once.
StopSave ==
  /\ stops[Saver] = Idle /\ legacy # None
  /\ IF legacy \in DOMAIN sessions
     THEN TakeOut(Saver, legacy, "save") /\ UNCHANGED legacy
     ELSE legacy' = None /\ UNCHANGED <<sessions, closing, stops>>
  /\ UNCHANGED <<nextId, disk>>

StartSave(p) ==
  /\ stops[Saver] = Idle
  /\ IF legacy \in DOMAIN sessions
     THEN TakeOut(Saver, legacy, p) /\ UNCHANGED legacy
     ELSE /\ stops' = [stops EXCEPT ![Saver] = [at |-> "start", session |-> None, then |-> p]]
          /\ legacy' = None
          /\ UNCHANGED <<sessions, closing>>
  /\ UNCHANGED <<nextId, disk>>

\* The ID is written only if the recording has started.
ContinueSave(overwrite, now) ==
  /\ stops[Saver].at = "start"
  /\ \/ /\ Start(stops[Saver].then, overwrite, now)
        /\ legacy' = IF sessions' = sessions THEN None ELSE nextId
     \/ UNCHANGED <<sessions, nextId, closing, legacy, disk>>
  /\ stops' = [stops EXCEPT ![Saver] = Idle]

-----------------------------------------------------------------------------
(* The thread that reads the tuner.                                        *)

\* noteOutputPacket and the write; a stream that has failed stays so.
Noted(s, ok) ==
  [s EXCEPT !.currentPacketOffset = s.outputOffset, !.outputOffset = @ + 1,
            !.failed = @ \/ ~ok]

WriteDecoded(packet) ==
  \E refused \in SUBSET DOMAIN sessions :
    /\ sessions' = [id \in DOMAIN sessions |-> Noted(sessions[id], id \notin refused)]
    /\ disk' = [f \in Paths |->
                  IF \E id \in DOMAIN sessions \ refused :
                       sessions[id].path = f /\ ~sessions[id].failed
                  THEN Append(disk[f], packet) ELSE disk[f]]
    /\ UNCHANGED <<nextId, closing, stops, legacy>>

MarkDecodeFailure ==
  /\ sessions' = [id \in DOMAIN sessions |-> [sessions[id] EXCEPT !.fallbackUsed = TRUE]]
  /\ UNCHANGED <<nextId, closing, stops, legacy, disk>>

\* rememberTimedPoint.
Pointed(s, time) ==
  IF s.points = <<>> \/ time >= s.points[Len(s.points)].time + MinGap
  THEN [s EXCEPT !.points = Append(@, [time |-> time, offset |-> s.currentPacketOffset])]
  ELSE s

OnVideoData(time) ==
  /\ sessions' = [id \in DOMAIN sessions |-> Pointed(sessions[id], time)]
  /\ UNCHANGED <<nextId, closing, stops, legacy, disk>>

-----------------------------------------------------------------------------
ControlStep(c, now) ==
  \/ \E p \in Media, overwrite \in BOOLEAN : StartRecording(c, p, overwrite, now)
  \/ \E id \in DOMAIN sessions : StopRecording(c, id)
  \/ Finish(c)
  \/ Release(c)

SaverStep(now) ==
  \/ StopSave
  \/ \E p \in Media : StartSave(p)
  \/ \E overwrite \in BOOLEAN : ContinueSave(overwrite, now)

-----------------------------------------------------------------------------
\* The paths that sessions, under way or being finished, write to.
Held(c) == IF stops[c].at \in {"finish", "release"} THEN {stops[c].session} ELSE {}

\* No file is written by two recordings, although a stopped one writes its map
\* and closes its file with the mutex released (mmtsRecorder.cpp:29-31: "their
\* media and map paths stay reserved until the final map write and media close
\* are done").
OneWriterPerFile ==
  /\ \A i, j \in DOMAIN sessions :
       i # j => Files(sessions[i].path) \cap Files(sessions[j].path) = {}
  /\ \A c \in Controls : \A s \in Held(c) :
       /\ \A i \in DOMAIN sessions : Files(sessions[i].path) \cap Files(s.path) = {}
       /\ \A d \in Controls \ {c} : \A t \in Held(d) : Files(t.path) \cap Files(s.path) = {}

=============================================================================
