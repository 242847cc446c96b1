------------------------------- MODULE Splice -------------------------------
(***************************************************************************)
(* The splicer, mmtSplice.cpp: what an editor of recordings needs in order *)
(* to put pictures that it has encoded anew between those that it copies.  *)
(* Pictures become the packets of an MPU; the package table gets the MPU's *)
(* times, other numbers and times for all assets, and becomes a message;   *)
(* and clock packets are shifted.                                          *)
(*                                                                         *)
(* Pictures and packets are in octets; of a table, descriptors and the     *)
(* sizes that limit them are kept.  Times are exact: that seconds are      *)
(* rounded to 2^-32 and back is left out.  External: the editor, the       *)
(* encoder and, in the properties, who reads the result.                   *)
(***************************************************************************)
EXTENDS PacketHeaders

CONSTANTS
  Jobs,                 \* what the editor asks for
  MaxBasicEntries,      \* of a descriptor: 21 in the code
  MaxExtendedOctets     \* of a descriptor: 255

VARIABLES
  job,
  todo,      \* chunks of the pictures that are not packed
  packets,   \* those that are, in octets
  table,     \* the patched package table; None before that, or if it is refused
  clock,     \* a clock packet
  at         \* what comes next: "pictures", "message", "clock", or nothing: "done"

vars == <<job, todo, packets, table, clock, at>>
-----------------------------------------------------------------------------
(* Pictures.                                                               *)

\* The length of the start code at i, 0 if there is none.
StartCode(au, i) ==
  LET Has(code) == i + Len(code) - 1 <= Len(au) /\ SubSeq(au, i, i + Len(code) - 1) = code
  IN IF Has(<<0, 0, 1>>) THEN 3 ELSE IF Has(<<0, 0, 0, 1>>) THEN 4 ELSE 0

\* The beginnings of start codes: a code of four octets hides the one of three in it.
Codes(au) ==
  SetToSortSeq({i \in DOMAIN au : StartCode(au, i) > 0 /\ (i > 1 => StartCode(au, i - 1) # 4)},
               <)

SplitAnnexB(au) ==
  LET codes == Codes(au)
      End(k) == IF k = Len(codes) THEN Len(au) ELSE codes[k + 1] - 1
  IN [k \in DOMAIN codes |-> SubSeq(au, codes[k] + StartCode(au, codes[k]), End(k))]

NalType(nal) == (nal[1] \div 2) % 64
Aud == <<\h46, 1, \h50>>
NotFragmented == 0
FirstFragment == 1
MiddleFragment == 2
LastFragment == 3

Chunk(indicator, octets) == [indicator |-> indicator, octets |-> octets]
WithLength(nal) == Number(Len(nal), 4) \o nal

\* One NAL unit, with its length before it, in one piece or in several.
Pieces(nal, maxFrag) ==
  LET octets == WithLength(nal)
      count == (Len(octets) + maxFrag - 1) \div maxFrag
      Piece(k) == SubSeq(octets, (k - 1) * maxFrag + 1, Min({k * maxFrag, Len(octets)}))
  IN IF Len(octets) <= maxFrag \/ maxFrag <= 4 THEN <<Chunk(NotFragmented, octets)>>
     ELSE [k \in 1..count |->
             Chunk(IF k = 1 THEN FirstFragment
                   ELSE IF k = count THEN LastFragment ELSE MiddleFragment, Piece(k))]

\* AudIfNone, which knows an AUD by the octet that it has here and not by its type, is
\* a mistake that the code could have been written with.
AudIfNone(nals) == IF nals # <<>> /\ nals[1][1] = Aud[1] THEN <<>> ELSE <<Chunk(NotFragmented, WithLength(Aud))>>

\* The demultiplexer gives times to AUDs: a picture without one gets one.
NeededAud(nals) ==
  IF nals # <<>> /\ NalType(nals[1]) = \h23 THEN <<>>
  ELSE <<Chunk(NotFragmented, WithLength(Aud))>>

ChunksOf(au, maxFrag) ==
  LET nals == SplitAnnexB(au)
      kept == SelectSeq(nals, LAMBDA nal : nal # <<>>)
  IN NeededAud(nals) \o FlattenSeq([k \in DOMAIN kept |-> Pieces(kept[k], maxFrag)])

MfuChunks(aus, maxFrag) ==
  FlattenSeq([i \in DOMAIN aus |->
    LET chunks == ChunksOf(aus[i], maxFrag)
    IN [k \in DOMAIN chunks |-> chunks[k] @@ [sample |-> i]]])

CountVideoMpuPackets(aus, maxFrag) == Len(MfuChunks(aus, maxFrag))

\* The packet of one chunk; n have been packed before it.
MfuPacket(p, n, chunk) ==
  LET unit == Number(0, 4) \o Number(chunk.sample, 4) \o Number(0, 4) \o <<0, 0>> \o chunk.octets
      mpu == Number(6 + Len(unit), 2) \o <<32 + 8 + 2 * chunk.indicator, 0>> \o Number(p.mpu, 4)
      mmtp == <<IF n = 0 THEN 1 ELSE 0, 0>> \o Number(p.packetId, 2) \o Number(0, 4)
                \o Number(p.firstSequence + n, 4)
  IN Serialized(HeaderCompressedIpPacket,
                Number(16 * p.context + (n % 16), 2) \o <<\h61>> \o mmtp \o mpu \o unit)
-----------------------------------------------------------------------------
(* The package table.                                                      *)

\* The packet ID of an asset is that of its first location of type 0 that is not 0.
PacketIdOf(asset) ==
  LET here == SelectInSeq(asset.locations, LAMBDA l : l.type = 0 /\ l.packetId # 0)
  IN IF here = 0 THEN 0 ELSE asset.locations[here].packetId

\* A table that ends too early, or has a location of a type that is unknown, is refused.
ParsesMpt(mpt) ==
  /\ ~mpt.cut
  /\ \A i \in DOMAIN mpt.assets : \A l \in ToSet(mpt.assets[i].locations) : l.type \in 0..5

\* Descriptors whose lengths do not add up.
IsMalformed(descriptors) == \E i \in DOMAIN descriptors : descriptors[i].is = "overlong"

\* Walking through them stops there.
IsReached(descriptors, i) == ~IsMalformed(SubSeq(descriptors, 1, i))

EntriesOf(descriptors, kind) ==
  FlattenSeq([i \in DOMAIN descriptors |->
    IF descriptors[i].is = kind /\ IsReached(descriptors, i) THEN descriptors[i].entries ELSE <<>>])

FirstOf(descriptors) ==
  LET here == SelectInSeq(descriptors, LAMBDA d : d.is = "extended")
  IN IF here = 0 THEN None ELSE descriptors[here]

\* 90000 if no descriptor has one.
Timescale(descriptors) ==
  LET here == SelectInSeq(descriptors, LAMBDA d : d.is = "extended" /\ d.timescale # None)
  IN IF here = 0 THEN 90000 ELSE descriptors[here].timescale

BasicDescriptors(entries) ==
  [k \in 1..((Len(entries) + MaxBasicEntries - 1) \div MaxBasicEntries) |->
     [is |-> "basic",
      entries |-> SubSeq(entries, (k - 1) * MaxBasicEntries + 1,
                         Min({k * MaxBasicEntries, Len(entries)}))]]

\* What entries take, and as many of the first as fit.
EntrySize(entry, type) == 8 + Len(entry.units) * (IF type = 2 THEN 4 ELSE 2)
Fitting(entries, type) ==
  LET header == IF type = 1 THEN 7 ELSE 5
      Size(n) == header + FoldLeft(LAMBDA sum, e : sum + EntrySize(e, type), 0, SubSeq(entries, 1, n))
  IN SubSeq(entries, 1, Max({n \in 0..Len(entries) : Size(n) <= MaxExtendedOctets}))

\* Unless offsets are given one by one, readers take the default for all units.
Encoded(entry, type, default) ==
  IF type = 2 THEN entry
  ELSE [entry EXCEPT !.units =
          [i \in DOMAIN entry.units |-> [entry.units[i] EXCEPT !.pts = IF type = 1 THEN default ELSE 0]]]

\* One descriptor, the last, in the form that the first one had, as in broadcasts.  The
\* comment at mmtSplice.cpp:183 has another reason, that the demultiplexer's entries go
\* on to the end of all descriptors: it reads them to the end of their descriptor
\* (mpuExtendedTimestampDescriptor.cpp:11, DescriptorLayouts).
ExtendedDescriptor(entries, descriptors) ==
  LET first == FirstOf(descriptors)
      type == IF first = None THEN 1 ELSE first.type
      given == IF first = None THEN 0 ELSE first.default
      default == IF given = 0 /\ entries # <<>> /\ entries[1].units # <<>>
                 THEN entries[1].units[1].pts ELSE given
      fitting == Fitting(entries, type)
  IN [is |-> "extended", type |-> type, timescale |-> Timescale(descriptors), default |-> default,
      entries |-> [i \in DOMAIN fitting |-> Encoded(fitting[i], type, default)]]

\* KeptFirst, which adds the new times after those that are kept, is a mistake that the
\* code could have been written with.
KeptFirst(added, kept) == kept \o added
AddedFirst(added, kept) == added \o kept

\* The times of the MPUs that are replaced go, those of the new ones come.
Rebuilt(descriptors, p) ==
  LET Kept(kind) ==
        SelectSeq(EntriesOf(descriptors, kind), LAMBDA e : ~(e.mpu \in p.dropMin..p.dropMax))
      basic == [i \in DOMAIN p.added |-> [mpu |-> p.added[i].mpu, time |-> p.added[i].time]]
      extended == [i \in DOMAIN p.added |->
                     [mpu |-> p.added[i].mpu, decoding |-> p.added[i].decoding, units |-> p.added[i].units]]
  IN SelectSeq(descriptors, LAMBDA d : d.is = "other")
       \o BasicDescriptors(AddedFirst(basic, Kept("basic")))
       \o <<ExtendedDescriptor(AddedFirst(extended, Kept("extended")), descriptors)>>

\* Every asset's MPUs get other numbers, and times move; 0 stays 0.
Transformed(asset, p) ==
  LET id == PacketIdOf(asset)
      offset == IF id \in DOMAIN p.offsets THEN p.offsets[id] ELSE 0
      Moved(e) == [e EXCEPT !.mpu = @ + offset, !.time = IF @ = 0 THEN 0 ELSE @ + p.shift]
      Numbered(e) == [e EXCEPT !.mpu = @ + offset]
  IN [asset EXCEPT !.descriptors =
        [i \in DOMAIN @ |->
           IF ~IsReached(@, i) \/ @[i].is = "other" THEN @[i]
           ELSE [@[i] EXCEPT !.entries =
                   [k \in DOMAIN @ |-> IF "time" \in DOMAIN @[k] THEN Moved(@[k]) ELSE Numbered(@[k])]]]]

Patched(mpt, p) ==
  LET video == SelectInSeq(mpt.assets, LAMBDA a : PacketIdOf(a) = p.packetId)
      descriptors == mpt.assets[video].descriptors
      rebuilt == [mpt.assets EXCEPT ![video].descriptors = Rebuilt(descriptors, p)]
  IN IF ~ParsesMpt(mpt) \/ video = 0 THEN None
     ELSE IF IsMalformed(descriptors) THEN None
     ELSE [mpt EXCEPT !.assets = [i \in DOMAIN rebuilt |-> Transformed(rebuilt[i], p)]]

CollectMpuTimestamps(mpt) ==
  IF ~ParsesMpt(mpt) THEN <<>>
  ELSE FlattenSeq([i \in DOMAIN mpt.assets |->
    LET entries == EntriesOf(mpt.assets[i].descriptors, "basic")
    IN [k \in DOMAIN entries |-> entries[k] @@ [packetId |-> PacketIdOf(mpt.assets[i])]]])

\* 0 if there is none.
VideoTimescale(mpt, id) ==
  LET all == FlattenSeq([i \in DOMAIN mpt.assets |->
               IF PacketIdOf(mpt.assets[i]) = id THEN mpt.assets[i].descriptors ELSE <<>>])
      here == SelectInSeq(all, LAMBDA d : d.is = "extended" /\ d.timescale # None)
  IN IF ~ParsesMpt(mpt) \/ here = 0 THEN 0 ELSE all[here].timescale

\* A table in octets as a message of its own, in one packet.
PaMptPacket(octets, p, n) ==
  LET pa == <<0, 0, 0>> \o Number(1 + Len(octets), 4) \o <<0>> \o octets
  IN Serialized(HeaderCompressedIpPacket,
       Number(16 * p.context, 2) \o <<\h61, 0, 2>> \o Number(0, 2) \o Number(0, 4)
         \o Number(p.firstSequence + n, 4) \o <<0, 0>> \o pa)
-----------------------------------------------------------------------------
(* Clocks: four timestamps of four words of 16 bits, and a checksum.       *)

Word == 65536
Complement(w) == Word - 1 - w

\* Sum with end-around carry.
Folded(sum) ==
  LET once == (sum % Word) + (sum \div Word) IN (once % Word) + (once \div Word)

\* Words as one number, the last the least significant.
Plus(words, delta) ==
  LET carried[i \in 0..4] ==  \* into word i
        IF i = 4 THEN 0 ELSE (words[i + 1] + delta[i + 1] + carried[i + 1]) \div Word
  IN [i \in 1..4 |-> (words[i] + delta[i] + carried[i]) % Word]

\* RFC 1624, a word at a time.
Updated(checksum, old, new) ==
  FoldLeft(LAMBDA c, i : Complement(Folded(Complement(c) + Complement(old[i]) + new[i])),
           checksum, <<1, 2, 3, 4>>)

\* Timestamps of 0 are not set and stay so; a checksum of 0 is none.
ShiftedStamp(ntp, i, delta) ==
  IF ntp.stamps[i] = <<0, 0, 0, 0>> THEN ntp
  ELSE LET new == Plus(ntp.stamps[i], delta)
       IN [stamps |-> [ntp.stamps EXCEPT ![i] = new],
           checksum |-> IF ntp.checksum = 0 THEN 0
                        ELSE Updated(ntp.checksum, ntp.stamps[i], new)]

ShiftClock(ntp, delta) ==
  LET shifted == FoldLeft(LAMBDA c, i : ShiftedStamp(c, i, delta), ntp, <<1, 2, 3, 4>>)
  IN [shifted EXCEPT !.checksum = IF @ = 0 THEN ntp.checksum ELSE @]
-----------------------------------------------------------------------------
Init ==
  /\ job \in Jobs
  /\ todo = MfuChunks(job.pictures, job.maxFrag) /\ packets = <<>> /\ table = None
  /\ clock = job.clock /\ at = "pictures"

PackVideoMpu ==
  /\ at = "pictures" /\ todo # <<>>
  /\ packets' = Append(packets, MfuPacket(job, Len(packets), Head(todo)))
  /\ todo' = Tail(todo)
  /\ UNCHANGED <<job, table, clock, at>>

PatchMptVideoTimestamps ==
  /\ at = "pictures" /\ todo = <<>>
  /\ table' = Patched(job.mpt, job)
  /\ at' = IF table' = None THEN "clock" ELSE "message"
  /\ UNCHANGED <<job, todo, packets, clock>>

\* The message follows the pictures, with the number that was left for it.
PackPaMptPacket ==
  /\ at = "message"
  /\ packets' =
       Append(packets, PaMptPacket(job.octets, job, CountVideoMpuPackets(job.pictures, job.maxFrag)))
  /\ at' = "clock"
  /\ UNCHANGED <<job, todo, table, clock>>

ShiftTlvNtpTimestamps ==
  /\ at = "clock"
  /\ clock' = ShiftClock(clock, job.delta)
  /\ at' = "done"
  /\ UNCHANGED <<job, todo, packets, table>>

Next ==
  PackVideoMpu \/ PatchMptVideoTimestamps \/ PackPaMptPacket \/ ShiftTlvNtpTimestamps

Spec == Init /\ [][Next]_vars
-----------------------------------------------------------------------------
(* What a demultiplexer reads.                                             *)

DataOf(packet) == SubSeq(packet, 8, Len(packet))
Read(packet) ==
  LET mmtp == UnpackMmtp(DataOf(packet))
  IN ReadPayload(mmtp, From(DataOf(packet), mmtp.payload))[1]

\* Fragments put together.
WholeUnits ==
  FoldLeft(LAMBDA units, packet :
             LET unit == Read(packet)
             IN IF unit.is = "message" THEN units
                ELSE IF unit.indicator \in {NotFragmented, FirstFragment}
                THEN Append(units, unit.octets)
                ELSE [units EXCEPT ![Len(units)] = @ \o unit.octets],
           <<>>, packets)

\* The pictures are read unit by unit as they were encoded, each beginning with an AUD;
\* numbers leave no gap for what follows, and decoding may begin at the first packet.
PicturesAsEncoded ==
  at # "pictures" =>
    /\ WholeUnits =
         FlattenSeq([i \in DOMAIN job.pictures |->
           LET units == job.units[i]
           IN (IF units # <<>> /\ NalType(units[1]) = 35 THEN <<>> ELSE <<WithLength(Aud)>>)
                \o [k \in DOMAIN units |-> WithLength(units[k])]])
    /\ \A i \in DOMAIN packets :
         LET seen == ParsePacket(packets[i])
         IN /\ Value(SubSeq(packets[i], seen.sequenceAt, seen.sequenceAt + 3))
                 = job.firstSequence + i - 1
            /\ seen.rap = (i = 1)
            /\ seen.signaling => From(Read(packets[i]).octets, 9) = job.octets

\* The times of an asset's MPUs, and of their units, by the numbers they have now.
TimesIn(mpt, id) ==
  {[mpu |-> e.mpu, time |-> e.time] :
     e \in {x \in ToSet(CollectMpuTimestamps(mpt)) : x.packetId = id}}
UnitsIn(mpt, id) ==
  UNION {ToSet(EntriesOf(mpt.assets[i].descriptors, "extended")) :
         i \in {k \in DOMAIN mpt.assets : PacketIdOf(mpt.assets[k]) = id}}
OthersIn(mpt) ==
  [i \in DOMAIN mpt.assets |-> SelectSeq(mpt.assets[i].descriptors, LAMBDA d : d.is = "other")]

Stays(id, e) == id = job.packetId => ~(e.mpu \in job.dropMin..job.dropMax)
Renumbered(id, e) ==
  [e EXCEPT !.mpu = @ + IF id \in DOMAIN job.offsets THEN job.offsets[id] ELSE 0]
Rebased(id, e) == [Renumbered(id, e) EXCEPT !.time = IF @ = 0 THEN 0 ELSE @ + job.shift]
AddedTimes(id) ==
  IF id = job.packetId THEN {[mpu |-> a.mpu, time |-> a.time] : a \in ToSet(job.added)} ELSE {}
AddedUnit(k) ==
  LET a == job.added[k] IN [mpu |-> a.mpu, decoding |-> a.decoding, units |-> a.units]
AddedUnits(id) == IF id # job.packetId THEN {} ELSE {AddedUnit(k) : k \in DOMAIN job.added}

UnitCount(entries) == MapThenSumSet(LAMBDA e : 1 + Len(e.units), entries)

\* Whether the first n new MPUs fit into one descriptor with the units of each, of which
\* the asset's first descriptor says how they are written.
FitTogether(n) ==
  LET video == CHOOSE a \in ToSet(job.mpt.assets) : PacketIdOf(a) = job.packetId
      first == FirstOf(video.descriptors)
      each  == first # None /\ first.type = 2
      fixed == IF first = None \/ first.type = 1 THEN 7 ELSE 5
      Octets(k) == 8 + Len(job.added[k].units) * (IF each THEN 4 ELSE 2)
  IN fixed + MapThenSumSet(Octets, 1..n) <= MaxExtendedOctets

\* Each asset has the times of the MPUs that stay and of those that are new, in the new
\* numbers and on the new time line (mmtSplice.h:107-121); so have the units of the new
\* MPUs, and of those that stay if the new ones have no more than those that go.  But
\* one descriptor holds the units: of the new MPUs only the first that fit into it have
\* theirs, and the others, which the header says the table gains too, silently have none.
TableAsAsked ==
  table # None =>
    /\ OthersIn(table) = OthersIn(job.mpt)
    /\ \A asset \in ToSet(job.mpt.assets) :
         LET id == PacketIdOf(asset)
             staying == {e \in UnitsIn(job.mpt, id) : Stays(id, e)}
             going == UnitsIn(job.mpt, id) \ staying
         IN /\ TimesIn(table, id) =
                 {Rebased(id, e) :
                    e \in {x \in TimesIn(job.mpt, id) : Stays(id, x)} \cup AddedTimes(id)}
            /\ \A k \in DOMAIN job.added : id = job.packetId =>
                 (FitTogether(k) <=> Renumbered(id, AddedUnit(k)) \in UnitsIn(table, id))
            /\ UnitCount(AddedUnits(id)) <= UnitCount(going) =>
                 UnitsIn(table, id) = {Renumbered(id, e) : e \in staying \cup AddedUnits(id)}
            /\ VideoTimescale(table, id) \in {VideoTimescale(job.mpt, id), 90000}

\* External: a receiver sums all words of a packet that has a checksum; rest is the sum
\* of those that are not timestamps.
IsValid(c) ==
  c.checksum = 0 \/
    Folded(c.checksum + job.rest
             + FoldLeft(LAMBDA sum, w : sum + w, 0, FlattenSeq(c.stamps))) = Word - 1

\* The checksum of a clock that is shifted is as right as it was.
ClockIsValid == IsValid(job.clock) => IsValid(clock)

SplicedContinues == PicturesAsEncoded /\ TableAsAsked /\ ClockIsValid

=============================================================================
