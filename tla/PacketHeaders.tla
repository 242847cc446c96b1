--------------------------- MODULE PacketHeaders ---------------------------
(***************************************************************************)
(* TLV packets, the MMTP packets in them, and the data units and messages  *)
(* in those, in octets: as the demultiplexer's unpack() functions read     *)
(* them, and as the splicer's parsePacket does.                            *)
(***************************************************************************)
EXTENDS Naturals, Sequences, SequencesExt, FiniteSetsExt, TLC

CONSTANT None

U16(s, i) == 256 * s[i] + s[i + 1]
Number(v, w) == [i \in 1..w |-> (v \div (256 ^ (w - i))) % 256]
Value(octets) == FoldLeft(LAMBDA v, octet : 256 * v + octet, 0, octets)
From(s, i) == SubSeq(s, i, Len(s))

Serialized(type, data) == <<127, type>> \o Number(Len(data), 2) \o data

-----------------------------------------------------------------------------
(* Headers.                                                                *)

Ipv6Packet == 2
HeaderCompressedIpPacket == 3
TransmissionControlSignalPacket == 254

\* The headers before an MMTP packet take 3 octets, or 42 more.
CompressedSize(data) ==
  IF Len(data) < 3 THEN None
  ELSE IF data[3] # \h60 THEN 3
  ELSE IF Len(data) < 45 THEN None ELSE 45

\* The elements of an extension header of type 0: each has a type, whose upper bit
\* says that it is the last, and a length.  What is malformed ends the list.
RECURSIVE ElementsFrom(_, _)
ElementsFrom(field, at) ==
  IF Len(field) < at + 3 \/ U16(field, at + 2) > Len(field) - at - 3 THEN <<>>
  ELSE <<[type |-> U16(field, at) % 32768, at |-> at + 4, size |-> U16(field, at + 2)]>>
         \o IF U16(field, at) >= 32768 THEN <<>>
            ELSE ElementsFrom(field, at + 4 + U16(field, at + 2))

\* StopAtUnknown, which gives up at an element of another type, is a mistake that the
\* code could have been written with.
StopAtUnknown(field) ==
  LET elements == ElementsFrom(field, 1)
  IN IF elements # <<>> /\ elements[1].type = 1 THEN elements[1].at ELSE None

\* Where the flags of the first scrambling element are.
FlagsIn(field) ==
  LET elements == ElementsFrom(field, 1)
      first == SelectInSeq(elements, LAMBDA e : e.type = 1 /\ e.size > 0)
  IN IF first = 0 THEN None ELSE elements[first].at

NotMmtp == [ok |-> FALSE]

\* An MMTP packet: its fields, and where in s its payload and the flags are.
UnpackMmtp(s) ==
  IF Len(s) < 12 THEN NotMmtp
  ELSE LET counter == (s[1] \div 32) % 2
           extension == (s[1] \div 2) % 2
           afterCounter == 12 + 4 * counter
           header == afterCounter + 4 * extension
       IN IF Len(s) < header THEN NotMmtp
          ELSE LET size == IF extension = 1 THEN U16(s, header - 1) ELSE 0
                   flags == IF extension = 1 /\ U16(s, header - 3) = 0
                            THEN FlagsIn(SubSeq(s, header + 1, header + size)) ELSE None
               IN IF Len(s) < header + size THEN NotMmtp
                  ELSE [ok |-> TRUE, type |-> s[2] % 64, packetId |-> U16(s, 3),
                        sequence |-> Value(SubSeq(s, 9, 12)), payload |-> header + size + 1,
                        flags |-> IF flags = None THEN None ELSE header + flags]

EncryptionFlag(octet) == (octet \div 8) % 4
IsScrambled(s, mmtp) == mmtp.flags # None /\ EncryptionFlag(s[mmtp.flags]) \in {2, 3}
Cleared(octet) == octet - 8 * EncryptionFlag(octet)
-----------------------------------------------------------------------------
(* Payloads.                                                               *)

Mfu(id, indicator, octets) ==
  [is |-> "unit", of |-> id, indicator |-> indicator, octets |-> octets]
Message(id, indicator, octets) ==
  [is |-> "message", of |-> id, indicator |-> indicator, octets |-> octets]

\* A data unit has a header, of 14 octets if it is timed, and of 4 if it is not.
UnitHeader(timed) == IF timed THEN 14 ELSE 4

\* Units one after the other, each with its length.
RECURSIVE Aggregated(_, _, _)
Aggregated(id, timed, s) ==
  IF Len(s) < 2 THEN <<>>
  ELSE LET length == IF timed THEN Min({U16(s, 1), Len(s) - 2}) ELSE U16(s, 1)
       IN IF length < UnitHeader(timed) \/ length > Len(s) - 2 THEN <<>>
          ELSE <<Mfu(id, 0, SubSeq(s, 3 + UnitHeader(timed), 2 + length))>>
                 \o Aggregated(id, timed, From(s, 3 + length))

\* DataUnit::unpack takes what it needs of an MPU packet that carries units.
ReadMpu(id, s) ==
  IF Len(s) < 8 \/ U16(s, 1) # Len(s) - 2 \/ s[3] \div 16 # 2 THEN <<>>
  ELSE LET timed == (s[3] \div 8) % 2 = 1
           indicator == (s[3] \div 2) % 4
           unit == From(s, 9)
       IN IF s[3] % 2 = 1
          THEN IF indicator # 0 THEN <<>> ELSE Aggregated(id, timed, unit)
          ELSE IF Len(unit) < UnitHeader(timed) THEN <<>>
          ELSE <<Mfu(id, indicator, From(unit, 1 + UnitHeader(timed)))>>

RECURSIVE AggregatedMessages(_, _)
AggregatedMessages(id, s) ==
  IF Len(s) < 2 \/ U16(s, 1) > Len(s) - 2 THEN <<>>
  ELSE <<Message(id, 0, SubSeq(s, 3, 2 + U16(s, 1)))>>
         \o AggregatedMessages(id, From(s, 3 + U16(s, 1)))

\* Lengths of 32 bits are not sent.
ReadMessages(id, s) ==
  IF Len(s) < 2 THEN <<>>
  ELSE IF s[1] % 2 = 0 THEN <<Message(id, s[1] \div 64, From(s, 3))>>
  ELSE IF s[1] \div 64 = 0 THEN AggregatedMessages(id, From(s, 3)) ELSE <<>>

ReadPayload(mmtp, s) ==
  CASE mmtp.type = 0 -> ReadMpu(mmtp.packetId, s)
    [] mmtp.type = 2 -> ReadMessages(mmtp.packetId, s)
    [] OTHER -> <<>>

\* A clock: IPv6, UDP to port 123, and 48 octets.
ReadIpv6(s) ==
  IF Len(s) < 96 \/ s[7] # 17 \/ U16(s, 43) # 123 THEN <<>>
  ELSE <<[is |-> "ntp", octets |-> SubSeq(s, 49, 96)]>>
-----------------------------------------------------------------------------
(* Splice::parsePacket.                                                    *)

Opaque(size, type) == [size |-> size, type |-> type, mmtp |-> FALSE, mpu |-> FALSE, signaling |-> FALSE]

\* SkipTypeOnly, which forgets an extension's length, is a mistake that the code could
\* have been written with.
SkipTypeOnly(s, at) == 4
ExtensionSize(s, at) == 4 + U16(s, at + 2)

\* Where the MMTP header that begins at 'at' ends, in a packet of as many octets as s.
HeaderEnd(s, at) ==
  LET counted == at + 12 + 4 * ((s[at] \div 32) % 2)
      extended == (s[at] \div 2) % 2 = 1
  IN IF counted - 1 > Len(s) THEN None
     ELSE IF ~extended THEN counted
     ELSE IF counted + 3 > Len(s) THEN None
     ELSE LET end == counted + ExtensionSize(s, counted) IN IF end - 1 > Len(s) THEN None ELSE end

\* An MMTP packet that begins at 'at', and the places of the fields that are rewritten.
ParseMmtp(s, at) ==
  LET end == HeaderEnd(s, at)
      type == s[at + 1] % 64
      isMpu == end + 7 <= Len(s) /\ U16(s, end) = Len(s) - end - 1
  IN IF end = None THEN Opaque(Len(s), s[2])
     ELSE [Opaque(Len(s), s[2]) EXCEPT !.mmtp = TRUE, !.mpu = type = 0 /\ isMpu,
                                       !.signaling = type = 2 /\ end + 1 <= Len(s)]
          @@ [payloadType |-> type, packetId |-> U16(s, at + 2), rap |-> s[at] % 2 = 1,
              sequenceAt |-> at + 8, mpuSequenceAt |-> end + 4, payloadAt |-> end + 2]

ParsePacket(s) ==
  IF Len(s) < 4 \/ s[1] # 127 \/ Len(s) < 4 + U16(s, 3) THEN None
  ELSE LET size == 4 + U16(s, 3)
           packet == SubSeq(s, 1, size)
           at == IF size >= 7 /\ s[7] = \h60 THEN 50 ELSE 8
       IN IF \/ s[2] # HeaderCompressedIpPacket \/ size < at + 11
             \/ s[7] \notin {\h20, \h21, \h60, \h61}
          THEN Opaque(size, s[2]) ELSE ParseMmtp(packet, at)
=============================================================================
