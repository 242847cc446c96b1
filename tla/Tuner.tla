------------------------------- MODULE Tuner --------------------------------
(***************************************************************************)
(* The tuner that the DLL puts before the tuner driver it loads            *)
(* (src/bonTuner.cpp), with the recordings of what it decodes (Recorder).  *)
(*                                                                         *)
(* One thread reads the stream: GetTsStream takes the driver's bytes,      *)
(* demultiplexes what is there of whole packets and hands out what that    *)
(* brings.  The mutex is held from the beginning of the call to its end,   *)
(* also while the recorder's mutex and the card are waited for; the other  *)
(* calls of the tuner take it for all they do, and are one step.           *)
(*                                                                         *)
(* A packet comes in two pieces, so that the driver may deliver a part of  *)
(* one.  What becomes of its payload in demultiplexer and remultiplexer is *)
(* left open: it comes out, after what has been held back there, or is     *)
(* held back as well.                                                      *)
(***************************************************************************)
EXTENDS Recorder

CONSTANTS
  MaxPackets,   \* bound: packets that the driver delivers
  MaxChannels   \* bound: channels selected

ASSUME TunerAssumption == MaxPackets \in Nat /\ MaxChannels \in Nat \ {0}

VARIABLES
  sent,         \* external: packets that the driver has begun to deliver
  driver,       \* external: pieces of packets queued in the driver
  channel,      \* the channel selections so far
  passthrough,  \* the channel carries MPEG-2 TS
  reader,       \* where the reading thread is
  inputBuffer,  \* pieces not demultiplexed yet
  held,         \* packets held back by demultiplexer and remultiplexer
  remuxOutput,  \* what has come out of the remultiplexer
  outputBuffer, \* what the last GetTsStream has handed out
  written,      \* history: packets given to the recorder
  due           \* history: what is to come out since the last Purge or SetChannel

tunerVars ==
  <<sent, driver, channel, passthrough, reader, inputBuffer, held, remuxOutput,
    outputBuffer, written, due>>
vars == <<recVars, tunerVars>>

Packets == [n : 1..MaxPackets, channel : 1..MaxChannels]
Pieces  == [packet : Packets, last : BOOLEAN]
Places  == {"idle", "demux", "mark", "write", "process", "map"}

TypeOK ==
  /\ RecorderTypeOK
  /\ sent \in 0..MaxPackets
  /\ driver \in Seq(Pieces)
  /\ channel \in 1..MaxChannels
  /\ passthrough \in BOOLEAN
  /\ reader \in [at : Places, clear : BOOLEAN, packet : Packets \cup {None}]
  /\ inputBuffer \in Seq(Pieces)
  /\ held \in Seq(Packets) /\ remuxOutput \in Seq(Packets) /\ outputBuffer \in Seq(Packets)
  /\ due \in Seq(Packets)
  /\ written \in 0..MaxPackets

Locked == reader.at # "idle"

NotReading == [at |-> "idle", clear |-> TRUE, packet |-> None]

Init ==
  /\ RecorderInit
  /\ sent = 0 /\ driver = <<>>
  /\ channel = 1 /\ passthrough = FALSE
  /\ reader = NotReading
  /\ inputBuffer = <<>> /\ held = <<>> /\ remuxOutput = <<>> /\ outputBuffer = <<>>
  /\ written = 0 /\ due = <<>>

-----------------------------------------------------------------------------
(* Mutated forms of definitions below, each with a mistake that the code   *)
(* could have been written with; they are no part of the model.            *)

ForgetInputOnly ==
  /\ inputBuffer' = <<>> /\ outputBuffer' = <<>>
  /\ UNCHANGED <<remuxOutput, held>>

KeepOutput ==
  /\ outputBuffer' = remuxOutput
  /\ UNCHANGED remuxOutput

-----------------------------------------------------------------------------
(* The driver.                                                             *)

\* The packet that has been delivered in part, if any.
Unfinished ==
  LET pieces == inputBuffer \o driver
  IN  IF Len(pieces) % 2 = 1 THEN {pieces[Len(pieces)].packet} ELSE {}

\* What is delivered while packets are demultiplexed might as well be later.
Deliver ==
  /\ ~Locked
  /\ IF Unfinished = {}
     THEN /\ sent < MaxPackets
          /\ sent' = sent + 1
          /\ driver' = Append(driver, [packet |-> [n |-> sent', channel |-> channel],
                                       last |-> FALSE])
     ELSE /\ \E p \in Unfinished : driver' = Append(driver, [packet |-> p, last |-> TRUE])
          /\ UNCHANGED sent
  /\ UNCHANGED <<recVars, channel, passthrough, reader, inputBuffer, held, remuxOutput,
                 outputBuffer, written, due>>

-----------------------------------------------------------------------------
(* GetTsStream.                                                            *)

At(place) == reader' = [reader EXCEPT !.at = place]

\* The driver is asked until it says that nothing remains.
BeginRead ==
  /\ ~Locked /\ ~passthrough
  /\ inputBuffer' = inputBuffer \o driver
  /\ driver' = <<>>
  /\ outputBuffer' = <<>>
  /\ At("demux")
  /\ UNCHANGED <<recVars, sent, channel, passthrough, held, remuxOutput, written, due>>

\* The driver's data as they are; nobody looks for packets in them.
ReadThrough ==
  /\ ~Locked /\ passthrough
  /\ outputBuffer' = [i \in DOMAIN driver |-> driver[i].packet]
  /\ driver' = <<>>
  /\ UNCHANGED <<recVars, sent, channel, passthrough, reader, inputBuffer, held, remuxOutput,
                 written, due>>

\* demux reads one packet, and can decrypt it or not.
Demux ==
  /\ reader.at = "demux"
  /\ Len(inputBuffer) > 1
  /\ inputBuffer' = SubSeq(inputBuffer, 3, Len(inputBuffer))
  /\ \E clear \in BOOLEAN :
       reader' = [at |-> IF clear THEN "write" ELSE "mark", clear |-> clear,
                  packet |-> inputBuffer[1].packet]
  /\ UNCHANGED <<recVars, sent, driver, channel, passthrough, held, remuxOutput, outputBuffer,
                 written, due>>

\* The recorder is told of a packet that cannot be decrypted before it gets it.
Mark ==
  /\ reader.at = "mark"
  /\ MarkDecodeFailure
  /\ At("write")
  /\ UNCHANGED <<sent, driver, channel, passthrough, inputBuffer, held, remuxOutput,
                 outputBuffer, written, due>>

Write ==
  /\ reader.at = "write"
  /\ WriteDecoded([n |-> written + 1, clear |-> reader.clear])
  /\ written' = written + 1
  /\ At(IF reader.clear THEN "process" ELSE "demux")
  /\ UNCHANGED <<sent, driver, channel, passthrough, inputBuffer, held, remuxOutput,
                 outputBuffer, due>>

\* The packet's payload comes out of the remultiplexer, or is held back, or is
\* the end of a picture and goes to the recorder after the remultiplexer.
Process ==
  /\ reader.at = "process"
  /\ due' = Append(due, reader.packet)
  /\ \/ /\ remuxOutput' = remuxOutput \o Append(held, reader.packet)
        /\ held' = <<>>
     \/ /\ held' = Append(held, reader.packet)
        /\ UNCHANGED remuxOutput
  /\ At("demux") \/ At("map")
  /\ UNCHANGED <<recVars, sent, driver, channel, passthrough, inputBuffer, outputBuffer, written>>

Map ==
  /\ reader.at = "map"
  /\ OnVideoData(written)
  /\ At("demux")
  /\ UNCHANGED <<sent, driver, channel, passthrough, inputBuffer, held, remuxOutput,
                 outputBuffer, written, due>>

\* outputBuffer = std::move(remuxOutput).
HandOut ==
  /\ outputBuffer' = remuxOutput
  /\ remuxOutput' = <<>>

EndRead ==
  /\ reader.at = "demux" /\ Len(inputBuffer) <= 1
  /\ IF remuxOutput = <<>> THEN UNCHANGED <<outputBuffer, remuxOutput>> ELSE HandOut
  /\ due' = SubSeq(due, Len(remuxOutput) + 1, Len(due))
  /\ reader' = NotReading
  /\ UNCHANGED <<recVars, sent, driver, channel, passthrough, inputBuffer, held, written>>

-----------------------------------------------------------------------------
(* PurgeTsStream and SetChannel.                                           *)

ForgetStream ==
  /\ inputBuffer' = <<>> /\ outputBuffer' = <<>>
  /\ remuxOutput' = <<>> /\ held' = <<>>

Purge ==
  /\ ~Locked
  /\ ForgetStream
  /\ driver' = <<>> /\ due' = <<>>
  /\ UNCHANGED <<recVars, sent, channel, passthrough, reader, written>>

SetChannel ==
  /\ ~Locked /\ channel < MaxChannels
  /\ ForgetStream
  /\ passthrough' \in BOOLEAN
  /\ channel' = channel + 1
  /\ driver' = <<>> /\ due' = <<>>
  /\ UNCHANGED <<recVars, sent, reader, written>>

-----------------------------------------------------------------------------
Read ==
  BeginRead \/ ReadThrough \/ Demux \/ Mark \/ Write \/ Process \/ Map \/ EndRead

Record ==
  /\ SaverStep(written) \/ \E c \in Controls : ControlStep(c, written)
  /\ UNCHANGED tunerVars

Next == Deliver \/ Read \/ Purge \/ SetChannel \/ Record

Spec == Init /\ [][Next]_vars

-----------------------------------------------------------------------------
\* What GetTsStream hands out is of the channel that is selected, and what comes out after a Purge or a change of channel is all of what
\* went in since then, once and in order.
NothingLostOrStale ==
  /\ \A i \in DOMAIN outputBuffer : outputBuffer[i].channel = channel
  /\ due = remuxOutput \o held

\* A recording holds the packets that were decoded since it was started, all of
\* them and in order, until a write fails, and then no more (mmtsRecorder.cpp:
\* 16-22); and it is marked as failed then.
RecordedWithoutGap ==
  \A id \in DOMAIN sessions :
    LET s == sessions[id]
        media == disk[s.path]
    IN  /\ \A i \in DOMAIN media : media[i].n = s.first + i
        /\ ~s.failed => Len(media) = written - s.first

\* A point of the map leads to the packet that ended the picture, which is in the
\* file, or to the beginning of the file, if the recording was started between that
\* packet and its point.  Only once a write has failed may a point lie past what was
\* written: noteOutputPacket goes on counting (mmtsRecorder.cpp:230), and the map that
\* Stop writes has such points.  And fallbackUsed is set if a packet was left
\* undecrypted (README.md:154), but for the first one.
PointsAtItsPacket ==
  \A id \in DOMAIN sessions :
    LET s == sessions[id]
        media == disk[s.path]
        Leads(point)   == point.offset < Len(media) /\ media[point.offset + 1].n = point.time
        AtStart(point) == point.offset = 0 /\ point.time = s.first
        Past(point)    == /\ s.failed /\ point.offset >= Len(media)
                          /\ point.time = s.first + point.offset + 1
    IN  /\ \A i \in DOMAIN s.points :
             Leads(s.points[i]) \/ AtStart(s.points[i]) \/ Past(s.points[i])
        /\ (\E i \in DOMAIN media \ {1} : ~media[i].clear) => s.fallbackUsed

\* A recording's media file and its map are what was received while it ran.
RecordingsAreWhole == RecordedWithoutGap /\ PointsAtItsPacket

=============================================================================
