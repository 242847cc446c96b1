----------------------------- MODULE Conversion -----------------------------
(***************************************************************************)
(* The conversion of a file (main loop of src/dantto4k.cpp, with           *)
(* src/bufferedOutput.h): read a chunk, demultiplex the whole packets in   *)
(* it, write what comes out.  "file" converts to a file through            *)
(* BufferedOutput, "stdout" and "decode" write to the stream themselves.   *)
(* Reading and writing may fail at any time.  Data are counted: input in   *)
(* bytes, output in what one packet brings.                                *)
(***************************************************************************)
EXTENDS Naturals

CONSTANTS
  InputSize,    \* bytes of the input
  MaxPacket,    \* the longest TLV packet
  ChunkSize,    \* chunkSize
  BufferSize,   \* BUFFER_SIZE, in packets' output
  None

\* A loop that must not read and cannot demultiplex would never end.
ConversionAssumption ==
  /\ InputSize \in Nat /\ MaxPacket \in Nat \ {0} /\ BufferSize \in Nat \ {0}
  /\ ChunkSize \in Nat /\ ChunkSize >= MaxPacket
  /\ None \notin Nat

VARIABLES
  mode,
  at,           \* where main is: "read", "demux", "commit", "done"
  left,         \* external: bytes not read
  eof, bad,     \* external: flags of the input stream
  inputBuffer,  \* its size
  inputEnded,
  next,         \* external: the length of the packet at its front
  consumed,     \* in this round of the loop
  offset,       \* offset_ of BufferedOutput
  streamed,     \* external: what the output stream has not passed on yet
  failed,       \* external: the flags of the output stream
  disk,         \* external: what has reached the file
  produced,     \* history: what the demultiplexer has put out
  exitCode

vars ==
  <<mode, at, left, eof, bad, inputBuffer, inputEnded, next, consumed, offset, streamed,
    failed, disk, produced, exitCode>>

in  == <<left, eof, bad, inputBuffer, inputEnded, next>>
out == <<offset, streamed, failed, disk, produced>>

\* Every round reads: a round that finds the end is the last one, and what no packet
\* can be made of is less than a chunk.
ReadsMore == ~inputEnded /\ inputBuffer < ChunkSize

TypeOK ==
  /\ mode \in {"file", "stdout", "decode"}
  /\ at \in {"read", "demux", "commit", "done"}
  /\ left \in 0..InputSize /\ inputBuffer \in 0..InputSize
  /\ {eof, bad, inputEnded, failed} \subseteq BOOLEAN
  /\ next \in 1..MaxPacket
  /\ consumed \in 0..inputBuffer + InputSize
  /\ offset \in 0..BufferSize
  /\ streamed \in 0..InputSize /\ disk \in 0..InputSize /\ produced \in 0..InputSize
  /\ exitCode \in {None, 0, 1}
  /\ at = "read" => ReadsMore

Init ==
  /\ mode \in {"file", "stdout", "decode"}
  /\ at = "read"
  /\ left = InputSize /\ eof = FALSE /\ bad = FALSE
  /\ inputBuffer = 0 /\ inputEnded = FALSE
  /\ next \in 1..MaxPacket
  /\ consumed = 0
  /\ offset = 0 /\ streamed = 0 /\ failed = FALSE /\ disk = 0 /\ produced = 0
  /\ exitCode = None

-----------------------------------------------------------------------------
(* Mutated forms of definitions below, each with a mistake that the code   *)
(* could have been written with; they are no part of the model.            *)

TailLeftToDestructor ==
  /\ \/ ~failed /\ disk' = disk + streamed /\ streamed' = 0 /\ UNCHANGED failed
     \/ failed' = TRUE /\ UNCHANGED <<streamed, disk>>
  /\ UNCHANGED offset

-----------------------------------------------------------------------------
(* The output stream: once failed it takes nothing.  What it takes it may  *)
(* pass on at any time, or fail to.                                        *)

WriteStream(n) ==
  \/ ~failed /\ streamed' = streamed + n /\ UNCHANGED <<failed, disk>>
  \/ ~failed /\ disk' = disk + streamed + n /\ streamed' = 0 /\ UNCHANGED failed
  \/ failed' = TRUE /\ UNCHANGED <<streamed, disk>>

\* BufferedOutput::write, of the output of one packet.
WriteBuffered ==
  IF offset + 1 > BufferSize
  THEN WriteStream(offset) /\ offset' = 1
  ELSE offset' = offset + 1 /\ UNCHANGED <<streamed, failed, disk>>

-----------------------------------------------------------------------------
\* A read fills the chunk, unless it meets the end of the input, or fails with
\* what it has got so far.  The end is noticed when a read returns nothing; after
\* an error every read does, but not with eof.
Read ==
  /\ at = "read" /\ ReadsMore
  /\ \E n \in 0..left :
       /\ left' = left - n /\ inputBuffer' = inputBuffer + n
       /\ \/ /\ ~eof /\ ~bad /\ n = (IF left < ChunkSize THEN left ELSE ChunkSize)
             /\ eof' = (n < ChunkSize) /\ UNCHANGED bad
          \/ ~eof /\ ~bad /\ n < ChunkSize /\ bad' = TRUE /\ UNCHANGED eof
          \/ (eof \/ bad) /\ n = 0 /\ UNCHANGED <<eof, bad>>
       /\ inputEnded' = (n = 0 /\ eof')
  /\ at' = IF inputBuffer' = 0 /\ inputEnded' THEN "commit" ELSE "demux"
  /\ consumed' = 0
  /\ UNCHANGED <<mode, next, out, exitCode>>

\* demux of one packet, with the output that it brings.
Demux ==
  /\ at = "demux" /\ inputBuffer >= next
  /\ inputBuffer' = inputBuffer - next
  /\ consumed' = consumed + next
  /\ next' \in 1..MaxPacket
  /\ \/ /\ produced' = produced + 1
        /\ IF mode = "file" THEN WriteBuffered ELSE WriteStream(1) /\ UNCHANGED offset
     \/ UNCHANGED out
  /\ UNCHANGED <<mode, at, left, eof, bad, inputEnded, exitCode>>

StopsWithoutProgress == inputEnded /\ consumed = 0

EndRound ==
  /\ at = "demux" /\ inputBuffer < next
  /\ at' = IF failed \/ StopsWithoutProgress THEN "commit" ELSE "read"
  /\ UNCHANGED <<mode, in, consumed, out, exitCode>>

\* Flush of the buffer, flush of the stream, close.
Flushed ==
  /\ offset' = 0
  /\ \/ ~failed /\ disk' = disk + streamed + offset /\ streamed' = 0 /\ UNCHANGED failed
     \/ failed' = TRUE /\ UNCHANGED <<streamed, disk>>

Commit ==
  /\ at = "commit"
  /\ Flushed
  /\ exitCode' = IF failed' THEN 1 ELSE 0
  /\ at' = "done"
  /\ UNCHANGED <<mode, in, consumed, produced>>

Next == Read \/ Demux \/ EndRound \/ Commit

Spec == Init /\ [][Next]_vars

-----------------------------------------------------------------------------
\* Exit code 0 means that all of the input that makes whole packets has been
\* converted and all that came out of it is in the file ("Commit the buffered
\* tail before deciding whether the conversion succeeded", dantto4k.cpp:1173).
ExitZeroMeansWhole ==
  exitCode = 0 => /\ left = 0 /\ inputBuffer < MaxPacket
                  /\ disk = produced

=============================================================================
