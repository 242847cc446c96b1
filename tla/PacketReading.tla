--------------------------- MODULE PacketReading ---------------------------
(***************************************************************************)
(* MmtTlvDemuxer::demux and the unpack() functions it calls: from octets,  *)
(* which arrive in pieces, to the data units, messages and clocks that are *)
(* passed on, and to the dump of decoded packets that a recording keeps.   *)
(* The recording is read again afterwards, where there is no card.         *)
(*                                                                         *)
(* What is done with units and messages is in MfuReassembly and            *)
(* SignallingReassembly, where keys come from is in AcasHandler; here a    *)
(* packet's key is there or is not.  External: the broadcaster, who writes *)
(* packets, the cipher, and the way, on which packets are lost and         *)
(* octets that belong to none are put between them.                        *)
(***************************************************************************)
EXTENDS PacketHeaders

CONSTANTS
  Streams,   \* what may be sent: sequences of packets
  Chunks     \* how many octets arrive at a time

VARIABLES
  sent,      \* the packets
  round,     \* 1: received and recorded; 2: the recording is read
  air,       \* octets that have not arrived
  input,     \* those that have and are not read
  dump,      \* the recording
  mmtStats,  \* by packet ID: the number received last, and how many were lost
  passed,    \* what was passed on in this round
  before     \* what was passed on, and recorded, in the first

vars == <<sent, round, air, input, dump, mmtStats, passed, before>>

\* In the code 1000; and numbers are of 32 bits, more than are ever sent here.
sequenceResyncThreshold == 9
-----------------------------------------------------------------------------
(* demux.                                                                  *)

\* What is lost is counted, unless numbers are so far apart that they are of another
\* series.
Counted(stat, sequence) ==
  LET expected == stat.last + 1
      distance == IF sequence > expected THEN sequence - expected ELSE expected - sequence
  IN [last |-> sequence,
      drop |-> stat.drop + IF distance > sequenceResyncThreshold THEN 0
                           ELSE IF sequence < expected THEN 1 ELSE distance]

CountPacket(mmtp) ==
  mmtStats' =
    IF mmtp.packetId \in DOMAIN mmtStats
    THEN [mmtStats EXCEPT ![mmtp.packetId] = Counted(@, mmtp.sequence)]
    ELSE [id \in DOMAIN mmtStats \cup {mmtp.packetId} |->
            IF id = mmtp.packetId THEN [last |-> mmtp.sequence, drop |-> 0] ELSE mmtStats[id]]

\* External: the cipher, which leaves the first 8 octets of a payload as they are.
Crypt(payload) == [i \in DOMAIN payload |-> IF i <= 8 THEN payload[i] ELSE 255 - payload[i]]

\* The key of a packet with this payload type and number is at hand.
HasKey(mmtp) ==
  /\ round = 1
  /\ \E i \in DOMAIN sent :
       /\ sent[i].is = "mmtp" /\ sent[i].keyed
       /\ sent[i].id = mmtp.packetId /\ sent[i].sequence = mmtp.sequence

\* The packet as it came, with the decrypted payload and the flags cleared.
Patched(s, mmtp) ==
  [i \in DOMAIN SubSeq(s, 1, mmtp.payload - 1) |-> IF i = mmtp.flags THEN Cleared(s[i]) ELSE s[i]]
    \o Crypt(From(s, mmtp.payload))

\* Without a key the packet is recorded as it is and not passed on.
ReadMmtp(head, s) ==
  LET mmtp == UnpackMmtp(s)
      scrambled == mmtp.ok /\ IsScrambled(s, mmtp)
      decrypted == scrambled /\ HasKey(mmtp)
      clear == IF decrypted THEN Patched(s, mmtp) ELSE s
  IN /\ dump' = dump \o Serialized(HeaderCompressedIpPacket, head \o clear)
     /\ IF mmtp.ok THEN CountPacket(mmtp) ELSE UNCHANGED mmtStats
     /\ passed' = IF ~mmtp.ok \/ (scrambled /\ ~decrypted) THEN passed
                  ELSE passed \o ReadPayload(mmtp, From(clear, mmtp.payload))

Pass(items, type, data) ==
  /\ passed' = passed \o items
  /\ dump' = dump \o Serialized(type, data)
  /\ UNCHANGED mmtStats

IsValidTlv(s) == s[1] = 127 /\ ~(s[2] > 4 /\ s[2] < 253)

\* A packet whose data have not all arrived is left where it is.
IsWhole == Len(input) >= 4 /\ (IsValidTlv(input) => Len(input) - 4 >= U16(input, 3))

Resync ==
  /\ IsWhole /\ ~IsValidTlv(input)
  /\ input' = Tail(input)
  /\ UNCHANGED <<sent, round, air, dump, mmtStats, passed, before>>

Demux ==
  /\ IsWhole /\ IsValidTlv(input)
  /\ \E data \in {SubSeq(input, 5, 4 + U16(input, 3))} :
       /\ CASE input[2] = HeaderCompressedIpPacket ->
                 LET size == CompressedSize(data)
                 IN IF size = None THEN Pass(<<>>, input[2], data)
                    ELSE ReadMmtp(SubSeq(data, 1, size), From(data, size + 1))
            [] input[2] = Ipv6Packet -> Pass(ReadIpv6(data), input[2], data)
            [] input[2] = TransmissionControlSignalPacket ->
                 Pass(<<[is |-> "table", octets |-> data]>>, input[2], data)
            [] OTHER -> Pass(<<>>, input[2], data)
       /\ input' = From(input, 5 + Len(data))
  /\ UNCHANGED <<sent, round, air, before>>

Arrive ==
  /\ ~IsWhole /\ air # <<>>
  /\ \E n \in Chunks :
       /\ input' = input \o SubSeq(air, 1, Min({n, Len(air)}))
       /\ air' = From(air, n + 1)
  /\ UNCHANGED <<sent, round, dump, mmtStats, passed, before>>
-----------------------------------------------------------------------------
(* External: what is sent.                                                 *)

UnitOctets(p, octets) == [i \in 1..UnitHeader(p.timed) |-> 1] \o octets
Lengthened(octets) == Number(Len(octets), 2) \o octets

PayloadOf(p) ==
  IF p.type = 2
  THEN <<64 * p.indicator + IF p.aggregate THEN 1 ELSE 0, 0>>
         \o FlattenSeq([i \in DOMAIN p.parts |->
              IF p.aggregate THEN Lengthened(p.parts[i]) ELSE p.parts[i]])
  ELSE LET units == FlattenSeq([i \in DOMAIN p.parts |->
                      IF p.aggregate THEN Lengthened(UnitOctets(p, p.parts[i]))
                      ELSE UnitOctets(p, p.parts[i])])
       IN Lengthened(<<32 + (IF p.timed THEN 8 ELSE 0) + 2 * p.indicator
                        + (IF p.aggregate THEN 1 ELSE 0), 0, 0, 0, 0, 7>> \o units)

ExtensionOf(p) ==
  LET field == FlattenSeq([i \in DOMAIN p.elements |->
                 Number(p.elements[i].type, 2) \o Lengthened(p.elements[i].octets)])
  IN IF p.elements = <<>> THEN <<>> ELSE <<0, 0>> \o Lengthened(field)

Scrambles(p) == \E i \in DOMAIN p.elements : p.elements[i].type % 32768 = 1

MmtpOctets(p) ==
  <<(IF p.counter THEN 32 ELSE 0) + IF p.elements = <<>> THEN 0 ELSE 2, p.type>>
    \o Number(p.id, 2) \o <<0, 0, 0, 0>> \o Number(p.sequence, 4)
    \o (IF p.counter THEN <<9, 9, 9, 9>> ELSE <<>>) \o ExtensionOf(p)
    \o IF Scrambles(p) THEN Crypt(PayloadOf(p)) ELSE PayloadOf(p)

OctetsOf(p) ==
  CASE p.is = "mmtp" ->
         Serialized(3, <<0, 16, p.form>> \o [i \in 1..(IF p.form = \h60 THEN 42 ELSE 0) |-> 6]
                         \o MmtpOctets(p))
    [] p.is = "ntp" ->
         Serialized(2, [[[i \in 1..96 |-> i] EXCEPT ![7] = 17, ![43] = 0] EXCEPT ![44] = 123])
    [] p.is = "table" -> Serialized(254, p.octets)
    [] p.is = "other" -> Serialized(p.type, p.octets)
    [] p.is = "noise" -> p.octets

Init ==
  /\ sent \in Streams
  /\ air = FlattenSeq([i \in DOMAIN sent |->
             IF sent[i].is = "mmtp" /\ sent[i].lost THEN <<>> ELSE OctetsOf(sent[i])])
  /\ round = 1 /\ input = <<>> /\ dump = <<>> /\ mmtStats = <<>> /\ passed = <<>>
  /\ before = None

\* The recording is read, by a demuxer that is new.
ReadAgain ==
  /\ round = 1 /\ air = <<>> /\ ~IsWhole
  /\ round' = 2 /\ air' = dump /\ before' = [passed |-> passed, dump |-> dump]
  /\ input' = <<>> /\ dump' = <<>> /\ mmtStats' = <<>> /\ passed' = <<>>
  /\ UNCHANGED sent

Next == Resync \/ Demux \/ Arrive \/ ReadAgain

Spec == Init /\ [][Next]_vars
-----------------------------------------------------------------------------
\* What the broadcaster meant.
Meant(p) ==
  LET arrives == ~p.lost /\ (p.keyed \/ ~Scrambles(p)) IN
  CASE p.is = "mmtp" ->
         IF ~arrives \/ p.type \notin {0, 2} THEN <<>>
         ELSE [i \in DOMAIN p.parts |->
                 IF p.type = 2 THEN Message(p.id, p.indicator, p.parts[i])
                 ELSE Mfu(p.id, p.indicator, p.parts[i])]
    [] p.is = "ntp" -> <<[is |-> "ntp", octets |-> SubSeq(OctetsOf(p), 53, 100)]>>
    [] p.is = "table" -> <<[is |-> "table", octets |-> p.octets]>>
    [] OTHER -> <<>>

Finished == air = <<>> /\ ~IsWhole

\* Everything that arrives is passed on, the last packet too, but for what cannot be
\* decrypted, whatever optional headers it has.
ReadAsSent ==
  round = 1 /\ Finished =>
    passed = FlattenSeq([i \in DOMAIN sent |-> Meant(sent[i])])

\* The splicer, which rewrites recordings, sees the same packets as the demultiplexer and
\* has the right places of the numbers that it changes.
SplicerSeesAlike ==
  IsWhole /\ IsValidTlv(input) /\ input[2] = HeaderCompressedIpPacket =>
    LET seen == ParsePacket(input)
        data == SubSeq(input, 5, 4 + U16(input, 3))
        s == From(data, CompressedSize(data) + 1)
        mmtp == UnpackMmtp(s)
    IN /\ seen.mmtp = mmtp.ok /\ seen.size = Len(data) + 4
       /\ seen.payloadType = mmtp.type /\ seen.packetId = mmtp.packetId
       /\ Value(SubSeq(input, seen.sequenceAt, seen.sequenceAt + 3)) = mmtp.sequence
       /\ seen.mpu => Value(SubSeq(input, seen.mpuSequenceAt, seen.mpuSequenceAt + 3)) = 7
       /\ mmtp.type = 0 => seen.mpu
       /\ seen.signaling =>
            From(SubSeq(input, 1, seen.size), seen.payloadAt) = From(s, mmtp.payload + 2)

\* Packets of one series that are lost between others are counted, no others are.
LossesCounted ==
  round = 1 /\ Finished =>
    \A id \in DOMAIN mmtStats :
      mmtStats[id].drop =
        Cardinality({i \in DOMAIN sent : sent[i].is = "mmtp" /\ sent[i].id = id /\ sent[i].lost})

\* A recording reads like what was received, without the card: each packet is in it, and
\* is marked as clear if it is and only then (mmtTlvDemuxer.cpp:252-259).
RecordingReadsAlike ==
  round = 2 /\ Finished => passed = before.passed /\ dump = before.dump

PacketsAreRead == ReadAsSent /\ SplicerSeesAlike /\ LossesCounted /\ RecordingReadsAlike

=============================================================================
