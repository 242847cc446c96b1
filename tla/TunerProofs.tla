---------------------------- MODULE TunerProofs -----------------------------
(***************************************************************************)
(* The DLL: proofs that no file is written by two recordings, that         *)
(* GetTsStream neither loses nor keeps what it should not, and that a      *)
(* recording and its map are what was received, for any number of threads, *)
(* paths, packets and channels.                                            *)
(***************************************************************************)
EXTENDS Tuner, SequenceTheorems, TLAPS

-----------------------------------------------------------------------------
(* The reading thread.  The channel's number is a mark on everything that  *)
(* is on its way, so that what is left of an earlier one would show.       *)

\* A packet that comes behind what is held back comes behind all that is due.
LEMMA ComesLast ==
  ASSUME NEW S, NEW out \in Seq(S), NEW back \in Seq(S), NEW x \in S
  PROVE  /\ Append(back, x) \in Seq(S) /\ out \o Append(back, x) \in Seq(S)
         /\ Append(out \o back, x) = out \o Append(back, x)
         /\ (out \o Append(back, x)) \o <<>> = out \o Append(back, x)
<1>1. out \o back \in Seq(S) /\ <<x>> \in Seq(S) /\ Append(back, x) \in Seq(S)
  OBVIOUS
<1>2. Append(out \o back, x) = (out \o back) \o <<x>> /\ Append(back, x) = back \o <<x>>
  BY <1>1, AppendIsConcat
<1>3. Append(out \o back, x) = out \o Append(back, x)
  BY <1>1, <1>2, ConcatAssociative
<1>4. out \o Append(back, x) \in Seq(S)
  BY <1>1
<1>5. (out \o Append(back, x)) \o <<>> = out \o Append(back, x)
  BY <1>4, ConcatEmptySeq
<1> QED
  BY <1>1, <1>3, <1>4, <1>5, Zenon

\* The packets of channel c, and their pieces.
PacketOf(c) == [n : Nat, channel : {c}]
PieceOf(c)  == [packet : PacketOf(c), last : BOOLEAN]

\* Whatever is on its way is of the channel that is selected.
OfThisChannel ==
  /\ driver \in Seq(PieceOf(channel))
  /\ inputBuffer \in Seq(PieceOf(channel))
  /\ held \in Seq(PacketOf(channel))
  /\ remuxOutput \in Seq(PacketOf(channel))
  /\ outputBuffer \in Seq(PacketOf(channel))
  /\ reader \in [at : Places, clear : BOOLEAN, packet : PacketOf(channel) \cup {None}]
  /\ reader.at \in {"mark", "write", "process"} => reader.packet \in PacketOf(channel)
  /\ reader.at = "idle" => reader.packet = None

\* What is to come out has come out or is held back.
DueIsKept == due = remuxOutput \o held

StreamInv == sent \in Nat /\ channel \in Nat /\ OfThisChannel /\ DueIsKept

LEMMA StreamInit == Init => StreamInv
  BY DEF Init, NotReading, Places, StreamInv, OfThisChannel, DueIsKept, PacketOf, PieceOf

\* What the driver has begun to deliver is of the channel.
LEMMA UnfinishedOfChannel ==
  ASSUME StreamInv, NEW p \in Unfinished
  PROVE  p \in PacketOf(channel)
<1> DEFINE pieces == inputBuffer \o driver
<1>1. pieces \in Seq(PieceOf(channel))
  BY DEF StreamInv, OfThisChannel
<1>2. Len(pieces) % 2 = 1 /\ p = pieces[Len(pieces)].packet
  BY DEF Unfinished
<1>3. Len(pieces) \in 1..Len(pieces)
  <2> HIDE DEF pieces
  <2>1. Len(pieces) \in Nat
    BY <1>1
  <2>2. Len(pieces) # 0
    BY <1>2
  <2> QED
    BY <2>1, <2>2
<1>4. pieces[Len(pieces)] \in PieceOf(channel)
  <2> HIDE DEF pieces
  <2> QED
    BY <1>1, <1>3
<1> QED
  BY <1>2, <1>4 DEF PieceOf

LEMMA StreamDeliver == StreamInv /\ Deliver => StreamInv'
<1> SUFFICES ASSUME StreamInv, Deliver PROVE StreamInv'
  OBVIOUS
<1>1. /\ UNCHANGED <<channel, reader, inputBuffer, held, remuxOutput, outputBuffer, due>>
      /\ sent' \in Nat
  BY DEF Deliver, StreamInv
<1>2. PICK x \in PieceOf(channel) : driver' = Append(driver, x)
  <2>1. CASE Unfinished = {}
    <3>1. [n |-> sent', channel |-> channel] \in PacketOf(channel)
      BY <1>1 DEF PacketOf
    <3> QED
      BY <2>1, <3>1 DEF Deliver, PieceOf
  <2>2. CASE Unfinished # {}
    BY <2>2, UnfinishedOfChannel DEF Deliver, PieceOf
  <2> QED
    BY <2>1, <2>2
<1>3. driver' \in Seq(PieceOf(channel))
  BY <1>2 DEF StreamInv, OfThisChannel
<1> QED
  BY <1>1, <1>3 DEF StreamInv, OfThisChannel, DueIsKept

\* The reading thread's steps, one after the other.
LEMMA StreamRead == StreamInv /\ Read => StreamInv'
<1> SUFFICES ASSUME StreamInv, Read PROVE StreamInv'
  OBVIOUS
<1> USE DEF StreamInv, OfThisChannel, Places
<1>1. CASE BeginRead
  <2>1. inputBuffer' \in Seq(PieceOf(channel)) /\ driver' = <<>> /\ outputBuffer' = <<>>
    BY <1>1 DEF BeginRead
  <2>2. reader' \in [at : Places, clear : BOOLEAN, packet : PacketOf(channel) \cup {None}]
    BY <1>1 DEF BeginRead, At
  <2>3. reader'.at = "demux"
    BY <1>1 DEF BeginRead, At
  <2> QED
    BY <1>1, <2>1, <2>2, <2>3 DEF BeginRead, DueIsKept
<1>2. CASE ReadThrough
  <2>1. \A i \in DOMAIN driver : driver[i].packet \in PacketOf(channel)
    <3>1. \A i \in DOMAIN driver : driver[i] \in PieceOf(channel)
      OBVIOUS
    <3> QED
      BY <3>1 DEF PieceOf
  <2>2. outputBuffer' \in Seq(PacketOf(channel))
    BY <1>2, <2>1 DEF ReadThrough
  <2>3. driver' \in Seq(PieceOf(channel))
    BY <1>2 DEF ReadThrough
  <2> QED
    BY <1>2, <2>2, <2>3 DEF ReadThrough, DueIsKept
<1>3. CASE Demux
  <2>1. inputBuffer[1] \in PieceOf(channel)
    BY <1>3 DEF Demux
  <2>2. inputBuffer[1].packet \in PacketOf(channel)
    BY <2>1 DEF PieceOf
  <2>3. inputBuffer' \in Seq(PieceOf(channel))
    BY <1>3 DEF Demux
  <2>4. reader' \in [at : Places, clear : BOOLEAN, packet : PacketOf(channel)]
    BY <1>3, <2>2 DEF Demux
  <2>5. reader'.packet \in PacketOf(channel)
    BY <2>4
  <2> QED
    BY <1>3, <2>3, <2>4, <2>5 DEF Demux, DueIsKept
<1>4. CASE Mark
  BY <1>4 DEF Mark, At, DueIsKept
<1>5. CASE Write
  <2>1. reader'.at \in {"process", "demux"} /\ UNCHANGED <<reader.clear, reader.packet>>
    BY <1>5 DEF Write, At
  <2> QED
    BY <1>5, <2>1 DEF Write, At, DueIsKept
<1>6. CASE Process
  <2>1. reader.packet \in PacketOf(channel)
    BY <1>6 DEF Process
  <2>2. /\ held' \in Seq(PacketOf(channel)) /\ remuxOutput' \in Seq(PacketOf(channel))
        /\ due' = remuxOutput' \o held'
    <3>1. /\ due' = Append(remuxOutput \o held, reader.packet)
          /\ \/ remuxOutput' = remuxOutput \o Append(held, reader.packet) /\ held' = <<>>
             \/ remuxOutput' = remuxOutput /\ held' = Append(held, reader.packet)
      BY <1>6 DEF Process, DueIsKept
    <3>2. held \in Seq(PacketOf(channel)) /\ remuxOutput \in Seq(PacketOf(channel))
      OBVIOUS
    <3> HIDE DEF StreamInv, OfThisChannel
    <3> DEFINE behind == Append(held, reader.packet)
    <3>3. /\ behind \in Seq(PacketOf(channel)) /\ remuxOutput \o behind \in Seq(PacketOf(channel))
          /\ Append(remuxOutput \o held, reader.packet) = remuxOutput \o behind
          /\ (remuxOutput \o behind) \o <<>> = remuxOutput \o behind
      BY <2>1, <3>2, ComesLast
    <3>4. <<>> \in Seq(PacketOf(channel))
      OBVIOUS
    <3> HIDE DEF behind
    <3>5. \/ remuxOutput' = remuxOutput \o behind /\ held' = <<>>
          \/ remuxOutput' = remuxOutput /\ held' = behind
      BY <3>1 DEF behind
    <3> QED
      BY <3>1, <3>2, <3>3, <3>4, <3>5, Zenon
  <2>3. /\ UNCHANGED <<sent, channel, driver, inputBuffer, outputBuffer>>
        /\ reader'.at \in {"demux", "map"}
        /\ reader' \in [at : Places, clear : BOOLEAN, packet : PacketOf(channel) \cup {None}]
    BY <1>6 DEF Process, At
  <2> QED
    BY <2>2, <2>3 DEF DueIsKept
<1>7. CASE Map
  BY <1>7 DEF Map, At, DueIsKept
<1>8. CASE EndRead
  <2>1. due' = held
    BY <1>8 DEF EndRead, DueIsKept
  <2>2. remuxOutput' = <<>> /\ outputBuffer' \in Seq(PacketOf(channel))
    BY <1>8 DEF EndRead, HandOut
  <2> QED
    BY <1>8, <2>1, <2>2 DEF EndRead, NotReading, DueIsKept
<1> QED
  BY <1>1, <1>2, <1>3, <1>4, <1>5, <1>6, <1>7, <1>8 DEF Read

\* A Purge and a change of channel leave nothing on its way.
LEMMA StreamForget == StreamInv /\ (Purge \/ SetChannel) => StreamInv'
<1> SUFFICES ASSUME StreamInv, Purge \/ SetChannel PROVE StreamInv'
  OBVIOUS
<1>1. /\ driver' = <<>> /\ inputBuffer' = <<>> /\ held' = <<>> /\ remuxOutput' = <<>>
      /\ outputBuffer' = <<>> /\ due' = <<>>
      /\ reader' = reader /\ reader.at = "idle" /\ sent' = sent /\ channel' \in Nat
  BY DEF Purge, SetChannel, ForgetStream, Locked, StreamInv
<1>2. reader' \in [at : Places, clear : BOOLEAN, packet : PacketOf(channel') \cup {None}]
  <2>1. reader \in [at : Places, clear : BOOLEAN, packet : {None}]
    BY <1>1 DEF StreamInv, OfThisChannel
  <2> QED
    BY <1>1, <2>1
<1> QED
  BY <1>1, <1>2 DEF StreamInv, OfThisChannel, DueIsKept

\* The control threads touch nothing of it, and everything that does keeps it.
LEMMA StreamStep == StreamInv /\ [Next]_vars => StreamInv'
<1> SUFFICES ASSUME StreamInv, [Next]_vars PROVE StreamInv'
  OBVIOUS
<1>1. CASE UNCHANGED tunerVars
  BY <1>1 DEF tunerVars, StreamInv, OfThisChannel, DueIsKept
<1>2. Record \/ UNCHANGED vars => UNCHANGED tunerVars
  BY DEF Record, vars
<1> QED
  BY <1>1, <1>2, StreamDeliver, StreamRead, StreamForget DEF Next

\* What GetTsStream hands out is of the channel that is selected; what is held
\* back in demultiplexer and remultiplexer is not lost, and a Purge or a change
\* of channel leaves nothing of before.
THEOREM NothingIsLostOrStale == Spec => []NothingLostOrStale
<1>1. StreamInv => NothingLostOrStale
  <2> SUFFICES ASSUME StreamInv PROVE NothingLostOrStale
    OBVIOUS
  <2>1. \A i \in DOMAIN outputBuffer : outputBuffer[i] \in PacketOf(channel)
    BY DEF StreamInv, OfThisChannel
  <2> QED
    BY <2>1 DEF StreamInv, DueIsKept, NothingLostOrStale, PacketOf
<1> QED
  BY <1>1, StreamInit, StreamStep, PTL DEF Spec

-----------------------------------------------------------------------------
(* The recordings' files.  What keeps them apart is what is reserved: a    *)
(* path is in the table of sessions, or in closing as long as a control    *)
(* thread has its session in hand.                                         *)

\* The table and the threads' sessions are well formed.
SessionsTyped ==
  /\ nextId \in Nat
  /\ sessions \in [DOMAIN sessions -> Sessions]
  /\ \A id \in DOMAIN sessions : id \in Nat /\ id < nextId
  /\ stops \in [Controls -> [at : {"idle", "finish", "release", "start"},
                             session : Sessions \cup {None}, then : Media \cup {None, "save"}]]
  /\ \A c \in Controls :
       /\ stops[c].at \in {"finish", "release"} => stops[c].session \in Sessions
       /\ stops[c].at = "start" => stops[c].then \in Media

\* The files of what is being finished stay reserved.
StoppedAreReserved == \A c \in Controls : \A s \in Held(c) : s.path \in closing

WriterInv == SessionsTyped /\ StoppedAreReserved /\ OneWriterPerFile

LEMMA WriterInit == Init => WriterInv
<1> SUFFICES ASSUME Init PROVE WriterInv
  OBVIOUS
<1>1. /\ sessions = <<>> /\ nextId = 1 /\ DOMAIN sessions = {}
      /\ stops = [c \in Controls |-> Idle]
  BY DEF Init, RecorderInit
<1>2. \A c \in Controls : stops[c] = Idle /\ Held(c) = {}
  BY <1>1 DEF Held, Idle
<1>3. SessionsTyped
  BY <1>1, <1>2 DEF SessionsTyped, Idle
<1> QED
  BY <1>1, <1>2, <1>3 DEF WriterInv, StoppedAreReserved, OneWriterPerFile

\* Nothing of this changes with what a session has counted and noted.
LEMMA WriterKept ==
  ASSUME WriterInv, UNCHANGED <<nextId, closing, stops>>,
         sessions' \in [DOMAIN sessions -> Sessions],
         \A id \in DOMAIN sessions : sessions'[id].path = sessions[id].path
  PROVE  WriterInv'
<1>1. DOMAIN sessions' = DOMAIN sessions
  OBVIOUS
<1>2. SessionsTyped'
  BY <1>1 DEF WriterInv, SessionsTyped
<1>3. \A c : Held(c)' = Held(c)
  BY DEF Held
<1>4. StoppedAreReserved'
  BY <1>3 DEF WriterInv, StoppedAreReserved
<1>5. OneWriterPerFile'
  BY <1>1, <1>3 DEF WriterInv, OneWriterPerFile, Files
<1> QED
  BY <1>2, <1>4, <1>5 DEF WriterInv

\* A path in use has its files in the table of sessions or in closing, so that
\* one that is not in use shares no file with any session.
LEMMA NotInUse ==
  ASSUME StoppedAreReserved, NEW p, ~InUse(p)
  PROVE  /\ \A id \in DOMAIN sessions : Files(sessions[id].path) \cap Files(p) = {}
         /\ \A c \in Controls : \A s \in Held(c) : Files(s.path) \cap Files(p) = {}
<1>1. \A q \in {sessions[id].path : id \in DOMAIN sessions} \cup closing :
        Files(p) \cap Files(q) = {}
  BY DEF InUse
<1>2. \A c \in Controls : \A s \in Held(c) : s.path \in closing
  BY DEF StoppedAreReserved
<1> QED
  BY <1>1, <1>2

\* A thread that has nothing in hand starts a recording, or fails to.
LEMMA WriterStart ==
  ASSUME WriterInv, NEW c \in Controls, Held(c) = {}, NEW p \in Media, NEW o, NEW now \in Nat,
         Start(p, o, now),
         stops' = stops \/ stops' = [stops EXCEPT ![c] = Idle]
  PROVE  WriterInv'
<1>1. /\ \A d \in Controls : Held(d)' = Held(d)
      /\ stops' \in [Controls -> [at : {"idle", "finish", "release", "start"},
                             session : Sessions \cup {None}, then : Media \cup {None, "save"}]]
      /\ \A d \in Controls :
           /\ stops'[d].at \in {"finish", "release"} => stops'[d].session \in Sessions
           /\ stops'[d].at = "start" => stops'[d].then \in Media
  <2>1. CASE stops' = stops
    BY <2>1 DEF Held, WriterInv, SessionsTyped
  <2>2. CASE stops' = [stops EXCEPT ![c] = Idle]
    BY <2>2 DEF Held, WriterInv, SessionsTyped, Idle
  <2> QED
    BY <2>1, <2>2
<1>2. closing' = closing /\ nextId' = nextId + 1 /\ ~InUse(p)
  BY DEF Start
<1>3. StoppedAreReserved'
  BY <1>1, <1>2 DEF WriterInv, StoppedAreReserved
<1>4. CASE UNCHANGED sessions
  BY <1>1, <1>2, <1>3, <1>4 DEF WriterInv, SessionsTyped, OneWriterPerFile, Files
<1>5. CASE sessions' = [id \in DOMAIN sessions \cup {nextId} |->
                          IF id = nextId THEN NewSession(p, now) ELSE sessions[id]]
  <2>1. NewSession(p, now) \in Sessions /\ NewSession(p, now).path = p
    BY DEF NewSession, Sessions
  <2>2. nextId \notin DOMAIN sessions
    BY DEF WriterInv, SessionsTyped
  <2>3. /\ DOMAIN sessions' = DOMAIN sessions \cup {nextId}
        /\ sessions' \in [DOMAIN sessions' -> Sessions]
        /\ sessions'[nextId].path = p
        /\ \A id \in DOMAIN sessions : sessions'[id] = sessions[id]
    BY <1>5, <2>1, <2>2 DEF WriterInv, SessionsTyped
  <2>4. SessionsTyped'
    BY <1>1, <1>2, <2>3 DEF WriterInv, SessionsTyped
  <2>5. /\ \A id \in DOMAIN sessions : Files(sessions[id].path) \cap Files(p) = {}
        /\ \A d \in Controls : \A s \in Held(d) : Files(s.path) \cap Files(p) = {}
    BY <1>2, NotInUse DEF WriterInv
  <2>6. OneWriterPerFile'
    BY <1>1, <2>3, <2>5 DEF WriterInv, OneWriterPerFile, Files
  <2> QED
    BY <1>3, <2>4, <2>6 DEF WriterInv
<1> QED
  BY <1>4, <1>5 DEF Start

\* A session that leaves the table takes its reservation along.
LEMMA WriterTakeOut ==
  ASSUME WriterInv, NEW c \in Controls, Held(c) = {}, NEW id \in DOMAIN sessions,
         NEW next \in Media \cup {None, "save"}, TakeOut(c, id, next), UNCHANGED nextId
  PROVE  WriterInv'
<1>1. /\ DOMAIN sessions' = DOMAIN sessions \ {id}
      /\ \A i \in DOMAIN sessions' : sessions'[i] = sessions[i]
      /\ sessions' \in [DOMAIN sessions' -> Sessions]
      /\ sessions[id] \in Sessions
  BY DEF TakeOut, Restrict, WriterInv, SessionsTyped
<1>2. /\ stops' = [stops EXCEPT ![c] = [at |-> "finish", session |-> sessions[id], then |-> next]]
      /\ closing' = closing \cup {sessions[id].path}
  BY DEF TakeOut
<1>3. /\ Held(c)' = {sessions[id]}
      /\ \A d \in Controls \ {c} : Held(d)' = Held(d)
  BY <1>2 DEF Held, WriterInv, SessionsTyped
<1>4. SessionsTyped'
  BY <1>1, <1>2 DEF WriterInv, SessionsTyped
<1>5. StoppedAreReserved'
  BY <1>2, <1>3 DEF WriterInv, StoppedAreReserved
<1>6. OneWriterPerFile'
  BY <1>1, <1>3 DEF WriterInv, OneWriterPerFile, Files
<1> QED
  BY <1>4, <1>5, <1>6 DEF WriterInv

\* What is released is reserved by no other thread.
LEMMA WriterRelease == WriterInv /\ (\E c \in Controls : Release(c)) => WriterInv'
<1> SUFFICES ASSUME WriterInv, NEW c \in Controls, Release(c) PROVE WriterInv'
  OBVIOUS
<1>1. /\ UNCHANGED <<sessions, nextId>>
      /\ closing' = closing \ {stops[c].session.path}
      /\ stops' = [stops EXCEPT ![c] = IF @.then \in Media
                                       THEN [@ EXCEPT !.at = "start", !.session = None] ELSE Idle]
      /\ Held(c) = {stops[c].session}
  BY DEF Release, Held
<1>2. /\ Held(c)' = {} /\ \A d \in Controls \ {c} : Held(d)' = Held(d)
      /\ SessionsTyped'
  BY <1>1 DEF WriterInv, SessionsTyped, Held, Idle
<1>3. ASSUME NEW d \in Controls \ {c}, NEW s \in Held(d)
      PROVE  s.path \in closing'
  <2>1. Files(s.path) \cap Files(stops[c].session.path) = {}
    BY <1>1, <1>3 DEF WriterInv, OneWriterPerFile
  <2>2. s.path # stops[c].session.path
    BY <2>1 DEF Files
  <2> QED
    BY <1>1, <1>3, <2>2 DEF WriterInv, StoppedAreReserved
<1>4. StoppedAreReserved'
  BY <1>2, <1>3 DEF StoppedAreReserved
<1>5. OneWriterPerFile'
  BY <1>1, <1>2 DEF WriterInv, OneWriterPerFile, Files
<1> QED
  BY <1>2, <1>4, <1>5 DEF WriterInv

\* The control threads' steps.
LEMMA WriterControl ==
  ASSUME WriterInv, NEW now \in Nat,
         SaverStep(now) \/ \E c \in Controls : ControlStep(c, now)
  PROVE  WriterInv'
<1>1. ASSUME NEW c \in Controls, NEW p \in Media, NEW o \in BOOLEAN, StartRecording(c, p, o, now)
      PROVE  WriterInv'
  <2>1. Held(c) = {} /\ Start(p, o, now) /\ stops' = stops
    BY <1>1 DEF StartRecording, Held, Idle
  <2> QED
    BY <2>1, WriterStart
<1>2. ASSUME NEW c \in Controls, NEW id \in DOMAIN sessions, StopRecording(c, id)
      PROVE  WriterInv'
  <2>1. Held(c) = {} /\ TakeOut(c, id, None) /\ UNCHANGED nextId
    BY <1>2 DEF StopRecording, Held, Idle
  <2> QED
    BY <2>1, WriterTakeOut
<1>3. ASSUME NEW c \in Controls, Finish(c) PROVE WriterInv'
  <2>1. UNCHANGED <<sessions, nextId, closing>> /\ stops' = [stops EXCEPT ![c].at = "release"]
        /\ stops[c].at = "finish"
    BY <1>3 DEF Finish
  <2>2. SessionsTyped' /\ \A d \in Controls : Held(d)' = Held(d)
    BY <2>1 DEF WriterInv, SessionsTyped, Held
  <2> QED
    BY <2>1, <2>2 DEF WriterInv, StoppedAreReserved, OneWriterPerFile, Files
<1>4. ASSUME StopSave PROVE WriterInv'
  <2>1. CASE legacy \in DOMAIN sessions
    <3>1. Held(Saver) = {} /\ TakeOut(Saver, legacy, "save") /\ UNCHANGED nextId
      BY <1>4, <2>1 DEF StopSave, Held, Idle
    <3> QED
      BY <2>1, <3>1, WriterTakeOut, RecorderAssumption
  <2>2. CASE legacy \notin DOMAIN sessions
    BY <1>4, <2>2
    DEF StopSave, WriterInv, SessionsTyped, StoppedAreReserved, OneWriterPerFile, Held, Files
  <2> QED
    BY <2>1, <2>2
<1>5. ASSUME NEW p \in Media, StartSave(p) PROVE WriterInv'
  <2>1. CASE legacy \in DOMAIN sessions
    <3>1. Held(Saver) = {} /\ TakeOut(Saver, legacy, p) /\ UNCHANGED nextId
      BY <1>5, <2>1 DEF StartSave, Held, Idle
    <3> QED
      BY <2>1, <3>1, WriterTakeOut, RecorderAssumption
  <2>2. CASE legacy \notin DOMAIN sessions
    <3>1. /\ stops' = [stops EXCEPT ![Saver] = [at |-> "start", session |-> None, then |-> p]]
          /\ UNCHANGED <<sessions, closing, nextId>>
          /\ stops[Saver].at = "idle"
      BY <1>5, <2>2 DEF StartSave, Idle
    <3>2. SessionsTyped' /\ \A d \in Controls : Held(d)' = Held(d)
      BY <3>1, RecorderAssumption DEF WriterInv, SessionsTyped, Held
    <3> QED
      BY <3>1, <3>2 DEF WriterInv, StoppedAreReserved, OneWriterPerFile, Files
  <2> QED
    BY <2>1, <2>2
<1>6. ASSUME NEW o \in BOOLEAN, ContinueSave(o, now) PROVE WriterInv'
  <2>1. /\ Held(Saver) = {} /\ stops[Saver].then \in Media
        /\ stops' = [stops EXCEPT ![Saver] = Idle]
    BY <1>6, RecorderAssumption DEF ContinueSave, Held, WriterInv, SessionsTyped
  <2>2. CASE Start(stops[Saver].then, o, now)
    BY <2>1, <2>2, WriterStart, RecorderAssumption
  <2>3. CASE UNCHANGED <<sessions, nextId, closing, legacy, disk>>
    <3>1. SessionsTyped' /\ \A d \in Controls : Held(d)' = Held(d)
      BY <2>1, <2>3 DEF WriterInv, SessionsTyped, Held, Idle
    <3> QED
      BY <2>3, <3>1 DEF WriterInv, StoppedAreReserved, OneWriterPerFile, Files
  <2> QED
    BY <1>6, <2>2, <2>3 DEF ContinueSave
<1> QED
  BY <1>1, <1>2, <1>3, <1>4, <1>5, <1>6, WriterRelease DEF SaverStep, ControlStep

\* The reading thread counts and notes in the sessions that are in the table.
LEMMA WriterRead ==
  ASSUME WriterInv, NEW packet, NEW time \in Nat,
         WriteDecoded(packet) \/ MarkDecodeFailure \/ OnVideoData(time)
  PROVE  WriterInv'
<1> USE DEF WriterInv, SessionsTyped
<1>1. CASE WriteDecoded(packet)
  <2>1. PICK refused : sessions' = [id \in DOMAIN sessions |-> Noted(sessions[id], id \notin refused)]
    BY <1>1 DEF WriteDecoded
  <2>2. ASSUME NEW t \in Sessions, NEW ok \in BOOLEAN
        PROVE  Noted(t, ok) \in Sessions /\ Noted(t, ok).path = t.path
    <3>1. ASSUME NEW b \in BOOLEAN
          PROVE  /\ [t EXCEPT !.currentPacketOffset = t.outputOffset,
                              !.outputOffset = @ + 1, !.failed = b] \in Sessions
                 /\ [t EXCEPT !.currentPacketOffset = t.outputOffset,
                              !.outputOffset = @ + 1, !.failed = b].path = t.path
      <4>1. t.outputOffset \in Nat /\ t.outputOffset + 1 \in Nat
        BY DEF Sessions
      <4> QED
        BY <4>1 DEF Sessions
    <3>2. (t.failed \/ ~ok) \in BOOLEAN
      OBVIOUS
    <3> QED
      BY <3>1, <3>2, Zenon DEF Noted
  <2>3. \A id \in DOMAIN sessions : (id \notin refused) \in BOOLEAN
    OBVIOUS
  <2>4. \A id \in DOMAIN sessions :
          Noted(sessions[id], id \notin refused) \in Sessions
          /\ Noted(sessions[id], id \notin refused).path = sessions[id].path
    BY <2>2, <2>3
  <2> QED
    BY <1>1, <2>1, <2>4, WriterKept DEF WriteDecoded
<1>2. CASE MarkDecodeFailure
  <2>1. ASSUME NEW t \in Sessions
        PROVE  /\ [t EXCEPT !.fallbackUsed = TRUE] \in Sessions
               /\ [t EXCEPT !.fallbackUsed = TRUE].path = t.path
    BY DEF Sessions
  <2>2. \A id \in DOMAIN sessions : sessions[id] \in Sessions
    OBVIOUS
  <2>3. \A id \in DOMAIN sessions :
          /\ [sessions[id] EXCEPT !.fallbackUsed = TRUE] \in Sessions
          /\ [sessions[id] EXCEPT !.fallbackUsed = TRUE].path = sessions[id].path
    BY <2>1, <2>2, Zenon
  <2> QED
    BY <1>2, <2>3, WriterKept DEF MarkDecodeFailure
<1>3. CASE OnVideoData(time)
  <2>1. ASSUME NEW t \in Sessions
        PROVE  Pointed(t, time) \in Sessions /\ Pointed(t, time).path = t.path
    <3>1. /\ [time |-> time, offset |-> t.currentPacketOffset] \in [time : Nat, offset : Nat]
          /\ t.points \in Seq([time : Nat, offset : Nat])
      BY DEF Sessions
    <3>2. Append(t.points, [time |-> time, offset |-> t.currentPacketOffset])
            \in Seq([time : Nat, offset : Nat])
      BY <3>1
    <3> QED
      BY <3>2 DEF Pointed, Sessions
  <2> QED
    BY <1>3, <2>1, WriterKept DEF OnVideoData
<1> QED
  BY <1>1, <1>2, <1>3

LEMMA WriterStep == WriterInv /\ written \in Nat /\ [Next]_vars => (WriterInv /\ written \in Nat)'
<1> SUFFICES ASSUME WriterInv, written \in Nat, [Next]_vars PROVE (WriterInv /\ written \in Nat)'
  OBVIOUS
<1>1. ASSUME UNCHANGED recVars PROVE WriterInv'
  <2>1. UNCHANGED <<sessions, nextId, closing, stops>> /\ \A c \in Controls : Held(c)' = Held(c)
    BY <1>1 DEF recVars, Held
  <2>2. SessionsTyped'
    BY <2>1 DEF WriterInv, SessionsTyped
  <2>3. StoppedAreReserved'
    BY <2>1 DEF WriterInv, StoppedAreReserved
  <2>4. OneWriterPerFile'
    BY <2>1 DEF WriterInv, OneWriterPerFile, Files
  <2> QED
    BY <2>2, <2>3, <2>4 DEF WriterInv
<1>2. Record => WriterInv'
  BY WriterControl DEF Record
<1>3. Mark => WriterInv'
  BY WriterRead DEF Mark
<1>4. Write => WriterInv'
  BY WriterRead DEF Write
<1>5. Map => WriterInv'
  BY WriterRead DEF Map
<1>6. written' \in Nat
  BY
  DEF Next, vars, tunerVars, Record, Deliver, Read, BeginRead, ReadThrough, Demux, Mark, Write,
      Process, Map, EndRead, Purge, SetChannel
<1>7. Deliver \/ BeginRead \/ ReadThrough \/ Demux \/ Process \/ EndRead \/ Purge \/ SetChannel
        \/ UNCHANGED vars => UNCHANGED recVars
  BY
  DEF vars, recVars, Deliver, BeginRead, ReadThrough, Demux, Process, EndRead, Purge, SetChannel
<1> QED
  BY <1>1, <1>2, <1>3, <1>4, <1>5, <1>6, <1>7 DEF Next, Read

\* No file is written by two recordings at a time, under way or being finished,
\* whatever the application's threads start, stop and restart meanwhile.
THEOREM OneWriter == Spec => []OneWriterPerFile
<1>1. Init => WriterInv /\ written \in Nat
  BY WriterInit DEF Init
<1>2. WriterInv => OneWriterPerFile
  BY DEF WriterInv
<1> QED
  BY <1>1, <1>2, WriterStep, PTL DEF Spec

-----------------------------------------------------------------------------
(* What a recording holds.  The session's counters are compared with the   *)
(* number of packets written since it was started, which the code never    *)
(* sees; the media file follows them until a write is refused.             *)

\* Session t, whose file holds media, when w packets have been written.
Faithful(t, media, w) ==
  /\ w = t.first + t.outputOffset
  /\ t.currentPacketOffset = IF t.outputOffset = 0 THEN 0 ELSE t.outputOffset - 1
  /\ media \in Seq([n : Nat, clear : BOOLEAN])
  /\ Len(media) <= t.outputOffset
  /\ ~t.failed => Len(media) = t.outputOffset
  /\ \A i \in DOMAIN media : media[i].n = t.first + i
  /\ \A i \in DOMAIN t.points :
       \/ t.points[i].time = t.first + t.points[i].offset + 1
            /\ t.points[i].offset < t.outputOffset
       \/ t.points[i].time = t.first /\ t.points[i].offset = 0
  /\ (\E i \in DOMAIN media \ {1} : ~media[i].clear) => t.fallbackUsed

\* Every recording under way is faithful, and knows of a packet left undecrypted
\* before it is written to it, if it was there when that packet was read.
RecordingInv ==
  /\ \A id \in DOMAIN sessions : Faithful(sessions[id], disk[sessions[id].path], written)
  /\ reader.at = "mark" => ~reader.clear
  /\ reader.at = "write" /\ ~reader.clear =>
       \A id \in DOMAIN sessions : sessions[id].outputOffset > 0 => sessions[id].fallbackUsed

LEMMA RecordingInit == Init => RecordingInv
  BY DEF Init, RecorderInit, NotReading, RecordingInv

\* A new recording, a marked one and one with another point are faithful.
LEMMA NewFaithful ==
  ASSUME NEW p \in Media, NEW w \in Nat
  PROVE  Faithful(NewSession(p, w), <<>>, w)
  BY DEF Faithful, NewSession

LEMMA MarkedFaithful ==
  ASSUME NEW t \in Sessions, NEW media, NEW w \in Nat, Faithful(t, media, w)
  PROVE  Faithful([t EXCEPT !.fallbackUsed = TRUE], media, w)
<1> DEFINE u == [t EXCEPT !.fallbackUsed = TRUE]
<1>1. /\ u.first = t.first /\ u.outputOffset = t.outputOffset /\ u.failed = t.failed
      /\ u.currentPacketOffset = t.currentPacketOffset /\ u.points = t.points
      /\ u.fallbackUsed = TRUE
  BY DEF Sessions
<1> QED
  BY <1>1 DEF Faithful

LEMMA PointedFaithful ==
  ASSUME NEW t \in Sessions, NEW media, NEW w \in Nat, Faithful(t, media, w)
  PROVE  Faithful(Pointed(t, w), media, w)
<1> DEFINE point == [time |-> w, offset |-> t.currentPacketOffset]
           u == [t EXCEPT !.points = Append(@, point)]
<1>1. CASE Pointed(t, w) = t
  BY <1>1
<1>2. CASE Pointed(t, w) = u
  <2>1. /\ u.first = t.first /\ u.outputOffset = t.outputOffset /\ u.failed = t.failed
        /\ u.currentPacketOffset = t.currentPacketOffset /\ u.points = Append(t.points, point)
        /\ u.fallbackUsed = t.fallbackUsed
    BY DEF Sessions
  <2>2. /\ t.first \in Nat /\ t.outputOffset \in Nat /\ t.currentPacketOffset \in Nat
        /\ t.points \in Seq([time : Nat, offset : Nat]) /\ point \in [time : Nat, offset : Nat]
    BY DEF Sessions
  <2>3. \/ point.time = t.first + point.offset + 1 /\ point.offset < t.outputOffset
        \/ point.time = t.first /\ point.offset = 0
    BY <2>2 DEF Faithful
  <2> HIDE DEF point
  <2>4. \A i \in DOMAIN Append(t.points, point) :
          \/ i \in DOMAIN t.points /\ Append(t.points, point)[i] = t.points[i]
          \/ Append(t.points, point)[i] = point
    BY <2>2
  <2>5. \A i \in DOMAIN u.points :
          \/ u.points[i].time = t.first + u.points[i].offset + 1
               /\ u.points[i].offset < t.outputOffset
          \/ u.points[i].time = t.first /\ u.points[i].offset = 0
    BY <2>1, <2>3, <2>4 DEF Faithful
  <2> HIDE DEF u
  <2>6. /\ w = u.first + u.outputOffset
        /\ u.currentPacketOffset = IF u.outputOffset = 0 THEN 0 ELSE u.outputOffset - 1
        /\ media \in Seq([n : Nat, clear : BOOLEAN]) /\ Len(media) <= u.outputOffset
        /\ ~u.failed => Len(media) = u.outputOffset
    BY <2>1 DEF Faithful
  <2>7. \A i \in DOMAIN media : media[i].n = u.first + i
    BY <2>1 DEF Faithful
  <2>8. (\E i \in DOMAIN media \ {1} : ~media[i].clear) => u.fallbackUsed
    BY <2>1 DEF Faithful
  <2>9. \A i \in DOMAIN u.points :
          \/ u.points[i].time = u.first + u.points[i].offset + 1
               /\ u.points[i].offset < u.outputOffset
          \/ u.points[i].time = u.first /\ u.points[i].offset = 0
    BY <2>1, <2>5
  <2>10. Faithful(u, media, w)
    BY <2>6, <2>7, <2>8, <2>9, Zenon DEF Faithful
  <2> QED
    BY <1>2, <2>10, Zenon
<1> QED
  BY <1>1, <1>2 DEF Pointed

LEMMA OffsetsOf ==
  ASSUME NEW t \in Sessions
  PROVE  \A i \in DOMAIN t.points : t.points[i].offset \in Nat
<1> DEFINE Points == [time : Nat, offset : Nat]
<1>1. t.points \in Seq(Points)
  BY DEF Sessions
<1>2. \A i \in DOMAIN t.points : t.points[i] \in Points
  <2> HIDE DEF Points
  <2> QED
    BY <1>1
<1> QED
  BY <1>2

\* A packet that is not written, because an earlier or this write is refused.
LEMMA RefusedFaithful ==
  ASSUME NEW t \in Sessions, NEW media, NEW w \in Nat, Faithful(t, media, w),
         NEW ok \in BOOLEAN, t.failed \/ ~ok
  PROVE  Faithful(Noted(t, ok), media, w + 1)
<1>1. /\ t.first \in Nat /\ t.outputOffset \in Nat /\ t.currentPacketOffset \in Nat
  BY DEF Sessions
<1>2. /\ Noted(t, ok).first = t.first /\ Noted(t, ok).outputOffset = t.outputOffset + 1
      /\ Noted(t, ok).currentPacketOffset = t.outputOffset /\ Noted(t, ok).points = t.points
      /\ Noted(t, ok).fallbackUsed = t.fallbackUsed
  BY DEF Sessions, Noted
<1>3. Noted(t, ok).failed
  BY DEF Sessions, Noted
<1>4. Len(media) \in Nat
  BY DEF Faithful
<1>5. \A i \in DOMAIN t.points : t.points[i].offset \in Nat
  BY OffsetsOf
<1>6. \A i \in DOMAIN t.points :
        \/ /\ t.points[i].time = t.first + t.points[i].offset + 1
           /\ t.points[i].offset < t.outputOffset + 1
        \/ t.points[i].time = t.first /\ t.points[i].offset = 0
  BY <1>1, <1>5 DEF Faithful
<1>7. /\ w + 1 = t.first + (t.outputOffset + 1)
      /\ t.outputOffset = IF t.outputOffset + 1 = 0 THEN 0 ELSE t.outputOffset + 1 - 1
      /\ Len(media) <= t.outputOffset + 1
  BY <1>1, <1>4 DEF Faithful
<1>8. /\ media \in Seq([n : Nat, clear : BOOLEAN])
      /\ \A i \in DOMAIN media : media[i].n = t.first + i
      /\ (\E i \in DOMAIN media \ {1} : ~media[i].clear) => t.fallbackUsed
  BY Zenon DEF Faithful
<1>9. PICK u : u = Noted(t, ok)
  OBVIOUS
<1>10. /\ w + 1 = u.first + u.outputOffset
       /\ u.currentPacketOffset = IF u.outputOffset = 0 THEN 0 ELSE u.outputOffset - 1
       /\ Len(media) <= u.outputOffset /\ u.failed
  BY <1>1, <1>2, <1>3, <1>7, <1>9
<1>11. /\ \A i \in DOMAIN u.points :
            \/ /\ u.points[i].time = u.first + u.points[i].offset + 1
               /\ u.points[i].offset < u.outputOffset
            \/ u.points[i].time = u.first /\ u.points[i].offset = 0
       /\ \A i \in DOMAIN media : media[i].n = u.first + i
  BY <1>2, <1>6, <1>8, <1>9
<1>12. (\E i \in DOMAIN media \ {1} : ~media[i].clear) => u.fallbackUsed
  BY <1>2, <1>8, <1>9, Zenon
<1> QED
  BY <1>8, <1>9, <1>10, <1>11, <1>12, Zenon DEF Faithful

\* One that is written.
LEMMA WrittenFaithful ==
  ASSUME NEW t \in Sessions, NEW media, NEW w \in Nat, Faithful(t, media, w), ~t.failed,
         NEW b \in BOOLEAN, ~b /\ t.outputOffset > 0 => t.fallbackUsed
  PROVE  Faithful(Noted(t, TRUE), Append(media, [n |-> w + 1, clear |-> b]), w + 1)
<1> DEFINE x == [n |-> w + 1, clear |-> b]
           longer == Append(media, x)
<1>1. /\ t.first \in Nat /\ t.outputOffset \in Nat /\ t.currentPacketOffset \in Nat
  BY DEF Sessions
<1>2. /\ Noted(t, TRUE).first = t.first /\ Noted(t, TRUE).outputOffset = t.outputOffset + 1
      /\ Noted(t, TRUE).currentPacketOffset = t.outputOffset /\ Noted(t, TRUE).points = t.points
      /\ Noted(t, TRUE).fallbackUsed = t.fallbackUsed
  BY DEF Sessions, Noted
<1>3. /\ media \in Seq([n : Nat, clear : BOOLEAN]) /\ x \in [n : Nat, clear : BOOLEAN]
      /\ x.n = w + 1 /\ x.clear = b
      /\ Len(media) = t.outputOffset /\ w = t.first + t.outputOffset
  BY DEF Faithful
<1> HIDE DEF x
<1>4. /\ longer \in Seq([n : Nat, clear : BOOLEAN]) /\ Len(longer) = t.outputOffset + 1
      /\ \A i \in DOMAIN longer :
           \/ i \in DOMAIN media /\ longer[i] = media[i]
           \/ i = t.outputOffset + 1 /\ longer[i] = x
  BY <1>1, <1>3
<1> HIDE DEF longer
<1>5. \A i \in DOMAIN longer : longer[i].n = t.first + i
  <2> SUFFICES ASSUME NEW i \in DOMAIN longer PROVE longer[i].n = t.first + i
    OBVIOUS
  <2>1. CASE i \in DOMAIN media /\ longer[i] = media[i]
    BY <2>1 DEF Faithful
  <2>2. CASE i = t.outputOffset + 1 /\ longer[i] = x
    BY <1>1, <1>3, <2>2
  <2> QED
    BY <1>4, <2>1, <2>2
<1>6. (\E i \in DOMAIN longer \ {1} : ~longer[i].clear) => t.fallbackUsed
  <2> SUFFICES ASSUME NEW i \in DOMAIN longer \ {1}, ~longer[i].clear PROVE t.fallbackUsed
    OBVIOUS
  <2>1. CASE i \in DOMAIN media /\ longer[i] = media[i]
    BY <2>1 DEF Faithful
  <2>2. CASE i = t.outputOffset + 1 /\ longer[i] = x
    <3>1. t.outputOffset > 0
      BY <1>1, <2>2
    <3> QED
      BY <3>1, <1>3, <2>2
  <2> QED
    BY <1>4, <2>1, <2>2
<1>7. Faithful(Noted(t, TRUE), longer, w + 1)
  <2> DEFINE u == Noted(t, TRUE)
  <2>0. /\ u.first = t.first /\ u.outputOffset = t.outputOffset + 1
        /\ u.currentPacketOffset = t.outputOffset /\ u.points = t.points
        /\ u.fallbackUsed = t.fallbackUsed
    BY <1>2
  <2> HIDE DEF u
  <2>1. w + 1 = u.first + u.outputOffset /\ u.outputOffset \in Nat /\ u.outputOffset # 0
    <3>1. PICK k \in Nat, n \in Nat : k = t.first /\ n = t.outputOffset
      BY <1>1
    <3>2. u.first = k /\ u.outputOffset = n + 1 /\ w = k + n
      BY <1>3, <2>0, <3>1
    <3> QED
      BY <3>2
  <2>2. u.currentPacketOffset = IF u.outputOffset = 0 THEN 0 ELSE u.outputOffset - 1
    BY <1>1, <2>0
  <2>3. Len(longer) = u.outputOffset /\ \A i \in DOMAIN longer : longer[i].n = u.first + i
    BY <2>0, <1>4, <1>5
  <2>4. \A i \in DOMAIN u.points :
          \/ u.points[i].time = u.first + u.points[i].offset + 1
               /\ u.points[i].offset < u.outputOffset
          \/ u.points[i].time = u.first /\ u.points[i].offset = 0
    <3>1. \A i \in DOMAIN t.points : t.points[i].offset \in Nat
      BY OffsetsOf
    <3> QED
      BY <1>1, <2>0, <3>1 DEF Faithful
  <2>5. (\E i \in DOMAIN longer \ {1} : ~longer[i].clear) => u.fallbackUsed
    BY <2>0, <1>6
  <2>6. Len(longer) <= u.outputOffset
    BY <2>1, <2>3
  <2>7. Faithful(u, longer, w + 1)
    BY <1>4, <2>1, <2>2, <2>3, <2>4, <2>5, <2>6 DEF Faithful
  <2> QED
    BY <2>7 DEF u
<1> QED
  BY <1>7 DEF longer, x

\* A session's paths are files, and nobody else's.
LEMMA OwnFiles ==
  ASSUME WriterInv, NEW id \in DOMAIN sessions
  PROVE  /\ sessions[id] \in Sessions
         /\ sessions[id].path \in Media /\ sessions[id].path \in Paths
         /\ \A i \in DOMAIN sessions : sessions[i].path = sessions[id].path => i = id
         /\ \A c \in Controls : \A s \in Held(c) : sessions[id].path # MapOf(s.path)
<1>1. sessions[id] \in Sessions
  BY DEF WriterInv, SessionsTyped
<1>2. sessions[id].path \in Media /\ sessions[id].path \in Paths
  BY <1>1 DEF Sessions, Paths
<1> QED
  BY <1>1, <1>2 DEF WriterInv, OneWriterPerFile, Files

\* The files that there may be are always the same.
LEMMA DiskStep == DOMAIN disk = Paths /\ [Next]_vars => DOMAIN disk' = Paths
<1> SUFFICES ASSUME DOMAIN disk = Paths, [Next]_vars PROVE DOMAIN disk' = Paths
  OBVIOUS
<1>1. ASSUME NEW p, NEW o, NEW now, Start(p, o, now) PROVE DOMAIN disk' = Paths
  BY <1>1 DEF Start, Opened, AfterRefusal, Removed, Cleared
<1>2. ASSUME NEW c, Finish(c) PROVE DOMAIN disk' = Paths
  BY <1>2 DEF Finish
<1>3. ASSUME Record PROVE DOMAIN disk' = Paths
  BY <1>1, <1>2, <1>3
  DEF Record, SaverStep, ControlStep, StartRecording, StopRecording, Release, StopSave, StartSave,
      ContinueSave
<1>4. ASSUME Read PROVE DOMAIN disk' = Paths
  BY <1>4
  DEF Read, BeginRead, ReadThrough, Demux, Mark, Write, Process, Map, EndRead, WriteDecoded,
      MarkDecodeFailure, OnVideoData, recVars
<1> QED
  BY <1>3, <1>4 DEF Next, Deliver, Purge, SetChannel, vars, recVars

\* Recordings stay faithful when some are taken out and other files are written.
LEMMA RecordingsKept ==
  ASSUME RecordingInv, UNCHANGED <<written, reader>>,
         DOMAIN sessions' \subseteq DOMAIN sessions,
         \A id \in DOMAIN sessions' :
           /\ sessions'[id] = sessions[id]
           /\ disk'[sessions[id].path] = disk[sessions[id].path]
  PROVE  RecordingInv'
  BY DEF RecordingInv

LEMMA RecordingStart ==
  ASSUME WriterInv, RecordingInv, DOMAIN disk = Paths, NEW p \in Media, NEW o, written \in Nat,
         Start(p, o, written), UNCHANGED <<written, reader>>
  PROVE  RecordingInv'
<1>1. /\ ~InUse(p)
      /\ \/ /\ disk' = Opened(p)
            /\ sessions' = [id \in DOMAIN sessions \cup {nextId} |->
                              IF id = nextId THEN NewSession(p, written) ELSE sessions[id]]
         \/ disk' \in AfterRefusal(p, o) /\ UNCHANGED sessions
  BY DEF Start
<1>2. \A id \in DOMAIN sessions : sessions[id].path \in Paths \ Files(p)
  BY <1>1, NotInUse, OwnFiles DEF WriterInv, Files
<1>3. CASE disk' \in AfterRefusal(p, o) /\ UNCHANGED sessions
  <2>1. \A f \in Paths \ Files(p) : disk'[f] = disk[f]
    BY <1>3 DEF AfterRefusal, Removed, Cleared, Files
  <2> QED
    BY <1>2, <1>3, <2>1, RecordingsKept
<1>4. CASE /\ disk' = Opened(p)
           /\ sessions' = [id \in DOMAIN sessions \cup {nextId} |->
                              IF id = nextId THEN NewSession(p, written) ELSE sessions[id]]
  <2>1. \A id \in DOMAIN sessions : disk'[sessions[id].path] = disk[sessions[id].path]
    BY <1>2, <1>4 DEF Opened
  <2>2. nextId \notin DOMAIN sessions
    BY DEF WriterInv, SessionsTyped
  <2>3. /\ DOMAIN sessions' = DOMAIN sessions \cup {nextId}
        /\ sessions'[nextId] = NewSession(p, written)
        /\ \A id \in DOMAIN sessions : sessions'[id] = sessions[id]
    BY <1>4, <2>2
  <2>4. NewSession(p, written).path = p /\ NewSession(p, written).outputOffset = 0 /\ disk'[p] = <<>>
    BY <1>4 DEF NewSession, Opened, Files, Paths
  <2>5. Faithful(sessions'[nextId], disk'[sessions'[nextId].path], written)
    BY <2>3, <2>4, NewFaithful
  <2> QED
    BY <2>1, <2>3, <2>4, <2>5 DEF RecordingInv
<1> QED
  BY <1>1, <1>3, <1>4

\* The control threads' steps.
LEMMA RecordingControl ==
  ASSUME WriterInv, RecordingInv, DOMAIN disk = Paths, written \in Nat,
         UNCHANGED <<written, reader>>,
         SaverStep(written) \/ \E c \in Controls : ControlStep(c, written)
  PROVE  RecordingInv'
<1>1. ASSUME NEW c \in Controls, NEW id \in DOMAIN sessions, NEW next, TakeOut(c, id, next),
             UNCHANGED disk
      PROVE  RecordingInv'
  BY <1>1, RecordingsKept DEF TakeOut, Restrict
<1>2. ASSUME UNCHANGED <<sessions, disk>> PROVE RecordingInv'
  BY <1>2, RecordingsKept
<1>3. ASSUME NEW c \in Controls, Finish(c) PROVE RecordingInv'
  <2>1. stops[c].session \in Held(c)
    BY <1>3 DEF Finish, Held
  <2>2. \A id \in DOMAIN sessions :
          sessions[id].path # MapOf(stops[c].session.path) /\ sessions[id].path \in DOMAIN disk
    BY <2>1, OwnFiles
  <2>3. /\ UNCHANGED sessions
        /\ \A id \in DOMAIN sessions : disk'[sessions[id].path] = disk[sessions[id].path]
    BY <1>3, <2>2 DEF Finish
  <2> QED
    BY <2>3, RecordingsKept
<1>4. ASSUME NEW c \in Controls, ControlStep(c, written) PROVE RecordingInv'
  BY <1>1, <1>2, <1>3, <1>4, RecordingStart
  DEF ControlStep, StartRecording, StopRecording, Release
<1>5. ASSUME SaverStep(written) PROVE RecordingInv'
  <2>1. Saver \in Controls
    BY RecorderAssumption
  <2>2. CASE StopSave
    BY <1>1, <1>2, <2>1, <2>2 DEF StopSave
  <2>3. ASSUME NEW p \in Media, StartSave(p) PROVE RecordingInv'
    BY <1>1, <1>2, <2>1, <2>3 DEF StartSave
  <2>4. ASSUME NEW o \in BOOLEAN, ContinueSave(o, written) PROVE RecordingInv'
    <3>1. stops[Saver].then \in Media
      BY <2>1, <2>4 DEF ContinueSave, WriterInv, SessionsTyped
    <3> QED
      BY <1>2, <2>4, <3>1, RecordingStart DEF ContinueSave
  <2> QED
    BY <1>5, <2>2, <2>3, <2>4 DEF SaverStep
<1> QED
  BY <1>4, <1>5

\* A packet is written to every session that has not failed and is not refused.
LEMMA RecordingWrite ==
  ASSUME WriterInv, RecordingInv, written \in Nat, Write,
         reader \in [at : Places, clear : BOOLEAN, packet : PacketOf(channel) \cup {None}]
  PROVE  RecordingInv'
<1> DEFINE packet == [n |-> written + 1, clear |-> reader.clear]
<1>1. PICK refused \in SUBSET DOMAIN sessions :
        /\ sessions' = [id \in DOMAIN sessions |-> Noted(sessions[id], id \notin refused)]
        /\ disk' = [f \in Paths |->
                      IF \E id \in DOMAIN sessions \ refused :
                           sessions[id].path = f /\ ~sessions[id].failed
                      THEN Append(disk[f], packet) ELSE disk[f]]
  BY DEF Write, WriteDecoded
<1>2. written' = written + 1 /\ reader'.at \in {"process", "demux"}
  <2>1. reader' = [reader EXCEPT !.at = IF reader.clear THEN "process" ELSE "demux"]
    BY DEF Write, At
  <2> QED
    BY <2>1 DEF Write
<1>3. ASSUME NEW id \in DOMAIN sessions
      PROVE  Faithful(sessions'[id], disk'[sessions'[id].path], written + 1)
  <2> DEFINE t == sessions[id]
             media == disk[t.path]
  <2>1. /\ t \in Sessions /\ t.path \in Paths
        /\ \A i \in DOMAIN sessions : sessions[i].path = t.path => i = id
    BY OwnFiles
  <2>2. Faithful(t, media, written)
    BY DEF RecordingInv
  <2>3. sessions'[id] = Noted(t, id \notin refused) /\ sessions'[id].path = t.path
    BY <1>1, <2>1 DEF Noted, Sessions
  <2>4. disk'[t.path] = IF id \notin refused /\ ~t.failed THEN Append(media, packet) ELSE media
    BY <1>1, <2>1
  <2>5. ~reader.clear /\ t.outputOffset > 0 => t.fallbackUsed
    BY DEF RecordingInv, Write
  <2> HIDE DEF t, media
  <2>6. CASE id \notin refused /\ ~t.failed
    <3>1. sessions'[id] = Noted(t, TRUE) /\ disk'[t.path] = Append(media, packet)
      BY <2>3, <2>4, <2>6
    <3>2. reader.clear \in BOOLEAN
      OBVIOUS
    <3>3. Faithful(Noted(t, TRUE), Append(media, packet), written + 1)
      BY <2>1, <2>2, <2>5, <2>6, <3>2, WrittenFaithful
    <3> QED
      BY <2>3, <3>1, <3>3
  <2>7. CASE id \in refused
    <3>1. sessions'[id] = Noted(t, FALSE) /\ disk'[t.path] = media
      BY <2>3, <2>4, <2>7
    <3>2. Faithful(Noted(t, FALSE), media, written + 1)
      BY <2>1, <2>2, RefusedFaithful
    <3> QED
      BY <2>3, <3>1, <3>2
  <2>8. CASE id \notin refused /\ t.failed
    <3>1. sessions'[id] = Noted(t, TRUE) /\ disk'[t.path] = media
      BY <2>3, <2>4, <2>8
    <3>2. Faithful(Noted(t, TRUE), media, written + 1)
      BY <2>1, <2>2, <2>8, RefusedFaithful
    <3> QED
      BY <2>3, <3>1, <3>2
  <2> QED
    BY <2>6, <2>7, <2>8
<1>4. DOMAIN sessions' = DOMAIN sessions
  BY <1>1
<1> QED
  BY <1>2, <1>3, <1>4 DEF RecordingInv

LEMMA RecordingStep ==
  ASSUME WriterInv, StreamInv, RecordingInv, DOMAIN disk = Paths, written \in Nat, [Next]_vars
  PROVE  RecordingInv'
<1>1. reader \in [at : Places, clear : BOOLEAN, packet : PacketOf(channel) \cup {None}]
  BY DEF StreamInv, OfThisChannel
<1>2. ASSUME Record PROVE RecordingInv'
  BY <1>2, RecordingControl DEF Record, tunerVars
<1>3. ASSUME UNCHANGED <<recVars, written>>, reader'.at \notin {"mark", "write"} PROVE RecordingInv'
  BY <1>3 DEF RecordingInv, recVars
<1>4. ASSUME UNCHANGED <<recVars, written, reader>> PROVE RecordingInv'
  BY <1>4, RecordingsKept DEF recVars
<1>5. ASSUME Demux PROVE RecordingInv'
  <2>1. /\ UNCHANGED <<sessions, disk, written>>
        /\ reader'.at \in {"write", "mark"} /\ (reader'.at = "write" <=> reader'.clear)
    BY <1>5 DEF Demux, recVars
  <2> QED
    BY <2>1 DEF RecordingInv
<1>6. ASSUME Mark PROVE RecordingInv'
  <2>1. /\ sessions' = [id \in DOMAIN sessions |-> [sessions[id] EXCEPT !.fallbackUsed = TRUE]]
        /\ UNCHANGED <<disk, written>> /\ reader'.at = "write" /\ reader'.clear = reader.clear
    BY <1>1, <1>6 DEF Mark, MarkDecodeFailure, At
  <2>2. ASSUME NEW id \in DOMAIN sessions
        PROVE  /\ sessions'[id].fallbackUsed
               /\ Faithful(sessions'[id], disk'[sessions'[id].path], written')
    BY <2>1, OwnFiles, MarkedFaithful DEF RecordingInv, Sessions
  <2> QED
    BY <2>1, <2>2 DEF RecordingInv
<1>7. ASSUME Write PROVE RecordingInv'
  BY <1>1, <1>7, RecordingWrite
<1>8. ASSUME Map PROVE RecordingInv'
  <2>1. /\ sessions' = [id \in DOMAIN sessions |-> Pointed(sessions[id], written)]
        /\ UNCHANGED <<disk, written>> /\ reader'.at = "demux"
    BY <1>1, <1>8 DEF Map, OnVideoData, At
  <2>2. ASSUME NEW id \in DOMAIN sessions
        PROVE  Faithful(sessions'[id], disk'[sessions'[id].path], written')
    <3>1. sessions'[id].path = sessions[id].path
      BY <2>1, OwnFiles DEF Pointed, Sessions
    <3> QED
      BY <2>1, <3>1, OwnFiles, PointedFaithful DEF RecordingInv
  <2> QED
    BY <2>1, <2>2 DEF RecordingInv
<1>9. Deliver \/ ReadThrough \/ Purge \/ SetChannel \/ UNCHANGED vars
        => UNCHANGED <<recVars, written, reader>>
  BY DEF Deliver, ReadThrough, Purge, SetChannel, vars, tunerVars
<1>10. BeginRead \/ Process \/ EndRead
        => UNCHANGED <<recVars, written>> /\ reader'.at \notin {"mark", "write"}
  BY <1>1 DEF BeginRead, Process, EndRead, At, NotReading
<1> QED
  BY <1>2, <1>3, <1>4, <1>5, <1>6, <1>7, <1>8, <1>9, <1>10 DEF Next, Read

\* A recording holds every packet since it was started, in order, until a write
\* is refused, and is then marked as failed; its map's points lead to the
\* packets that ended the pictures, in the file unless the recording has failed;
\* and it is marked if it holds a packet that could not be decrypted.
THEOREM RecordingsWhole == Spec => []RecordingsAreWhole
<1> DEFINE Inv == WriterInv /\ StreamInv /\ RecordingInv /\ DOMAIN disk = Paths /\ written \in Nat
<1>1. Init => Inv
  BY WriterInit, StreamInit, RecordingInit DEF Init, RecorderInit
<1>2. Inv /\ [Next]_vars => Inv'
  BY WriterStep, StreamStep, RecordingStep, DiskStep
<1>3. Inv => RecordingsAreWhole
  <2> SUFFICES ASSUME Inv, NEW id \in DOMAIN sessions
               PROVE  LET s == sessions[id]
                          media == disk[s.path]
                      IN  /\ \A i \in DOMAIN media : media[i].n = s.first + i
                          /\ ~s.failed => Len(media) = written - s.first
                          /\ \A i \in DOMAIN s.points :
                               \/ /\ s.points[i].offset < Len(media)
                                  /\ media[s.points[i].offset + 1].n = s.points[i].time
                               \/ s.points[i].offset = 0 /\ s.points[i].time = s.first
                               \/ /\ s.failed /\ s.points[i].offset >= Len(media)
                                  /\ s.points[i].time = s.first + s.points[i].offset + 1
                          /\ (\E i \in DOMAIN media \ {1} : ~media[i].clear) => s.fallbackUsed
    BY DEF RecordingsAreWhole, RecordedWithoutGap, PointsAtItsPacket
  <2>1. ASSUME NEW s, s = sessions[id], NEW media,
               media = disk[s.path]
        PROVE  /\ \A i \in DOMAIN media : media[i].n = s.first + i
               /\ ~s.failed => Len(media) = written - s.first
               /\ (\E i \in DOMAIN media \ {1} : ~media[i].clear) => s.fallbackUsed
               /\ \A i \in DOMAIN s.points :
                    \/ /\ s.points[i].offset < Len(media)
                       /\ media[s.points[i].offset + 1].n = s.points[i].time
                    \/ s.points[i].offset = 0 /\ s.points[i].time = s.first
                    \/ /\ s.failed /\ s.points[i].offset >= Len(media)
                       /\ s.points[i].time = s.first + s.points[i].offset + 1
    <3>1. /\ Faithful(s, media, written)
          /\ s \in Sessions /\ s.first \in Nat /\ s.outputOffset \in Nat
          /\ \A i \in DOMAIN s.points : s.points[i].offset \in Nat
      BY <2>1, OwnFiles, OffsetsOf DEF RecordingInv, Sessions
    <3>2. Len(media) \in Nat /\ DOMAIN media = 1..Len(media)
      BY <3>1 DEF Faithful
    <3>3. ASSUME NEW i \in DOMAIN s.points, s.points[i].offset < Len(media),
                 s.points[i].time = s.first + s.points[i].offset + 1
          PROVE  media[s.points[i].offset + 1].n = s.points[i].time
      <4>1. PICK o \in Nat : o = s.points[i].offset
        BY <3>1
      <4>2. o + 1 \in DOMAIN media
        BY <3>2, <3>3, <4>1
      <4>3. media[o + 1].n = s.first + (o + 1)
        BY <3>1, <4>2 DEF Faithful
      <4> QED
        BY <3>1, <3>3, <4>1, <4>3
    <3>4. /\ written = s.first + s.outputOffset
          /\ \A i \in DOMAIN media : media[i].n = s.first + i
          /\ ~s.failed => Len(media) = s.outputOffset
          /\ (\E i \in DOMAIN media \ {1} : ~media[i].clear) => s.fallbackUsed
      BY <3>1, Zenon DEF Faithful
    <3>5. ASSUME NEW i \in DOMAIN s.points
          PROVE  \/ /\ s.points[i].offset < Len(media)
                    /\ media[s.points[i].offset + 1].n = s.points[i].time
                 \/ s.points[i].offset = 0 /\ s.points[i].time = s.first
                 \/ /\ s.failed /\ s.points[i].offset >= Len(media)
                    /\ s.points[i].time = s.first + s.points[i].offset + 1
      <4>1. \/ /\ s.points[i].time = s.first + s.points[i].offset + 1
               /\ s.points[i].offset < s.outputOffset
            \/ s.points[i].time = s.first /\ s.points[i].offset = 0
        BY <3>1 DEF Faithful
      <4>2. s.points[i].offset \in Nat
        BY <3>1
      <4>3. ~s.failed => Len(media) = s.outputOffset
        BY <3>4
      <4> QED
        BY <3>2, <3>3, <4>1, <4>2, <4>3
    <3>6. ~s.failed => Len(media) = written - s.first
      BY <3>1, <3>4
    <3> QED
      BY <3>4, <3>5, <3>6, Zenon
  <2> QED
    BY <2>1
<1> QED
  BY <1>1, <1>2, <1>3, PTL DEF Spec

=============================================================================
