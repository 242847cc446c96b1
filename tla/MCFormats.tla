----------------------------- MODULE MCFormats ------------------------------
(***************************************************************************)
(* The parts that translate data from one format to another, model-checked *)
(* in one run: part says which of them this behaviour is of, and the slots *)
(* hold its variables.                                                     *)
(***************************************************************************)
EXTENDS Naturals, Sequences, SequencesExt

CONSTANTS
  Checked,   \* the parts that a run is about
  Pages,     \* of the texts: MCPages or MCKanaPages
  Messages,  \* of the tables: MCMessages or MCLinkage
  None, Invalid

VARIABLES part, s1, s2, s3, s4, s5, s6, s7, s8

slots == <<part, s1, s2, s3, s4, s5, s6, s7, s8>>

\* Characters: one of every combination of charsets that the tables of
\* aribCharsetTables.cpp have.
MCSetsOf ==
  [c \in {"a", "overline", "hira", "kata", "dash", "kana", "gaiji", "symbol", "rare",
          "kanji", "upper", "plane2"} |->
     CASE c = "a"        -> {"Alphanumeric"}
       [] c = "overline" -> {"Alphanumeric", "JISKanjiPlane1"}
       [] c = "hira"     -> {"Hiragana", "JISKanjiPlane1"}
       [] c = "kata"     -> {"Katakana", "JISKanjiPlane1"}
       [] c = "dash"     -> {"Hiragana", "Katakana", "JISKanjiPlane1"}
       [] c = "kana"     -> {"JISX0201Katakana"}
       [] c = "gaiji"    -> {"AdditionalSymbols"}
       [] c = "symbol"   -> {"AdditionalSymbols", "JISKanjiPlane1"}
       [] c = "rare"     -> {"AdditionalSymbols", "JISKanjiPlane2"}
       [] c = "kanji"    -> {"JISKanjiPlane1"}
       [] c = "upper"    -> {"JISKanjiPlane1"}
       [] c = "plane2"   -> {"JISKanjiPlane2"}]

MCCharacters == DOMAIN MCSetsOf
MCKana == {"hira", "kata"}

\* Descriptors have no half-width Katakana (jisX0201KatakanaToKatakana).
Page(mode, characters, glyphs) ==
  [mode |-> mode, characters |-> characters, glyphs |-> glyphs]

MCPages ==
  {Page("Text", MCCharacters \ {"kana"}, {}),
   Page("Caption", MCCharacters, {}),
   Page("Caption", MCCharacters \ {"kana"}, {"g", "h"})}

\* Half-width Katakana and glyphs in one caption.
MCKanaPages == {Page("Caption", MCCharacters, {"g", "h"})}

Text ==
  INSTANCE TextEncoding WITH
    Characters <- MCCharacters, SetsOf <- MCSetsOf, Kana <- MCKana,
    Overlaid <- {"upper"}, Glyphs <- {"g", "h"}, MaxCodes <- 1, Pages <- Pages,
    page <- s1, place <- s2, enc <- s3, allocated <- s4, receiver <- s5, said <- s6, seen <- s7

Broadcaster == INSTANCE MCDocuments

Documents ==
  INSTANCE CaptionPages WITH
    MaxSpanDepth <- 2, Documents <- Broadcaster!MCDocuments, Glyphs <- Broadcaster!MCGlyphs,
    VerticalForms <- Broadcaster!MCVerticalForms, SmallKana <- Broadcaster!MCSmallKana,
    Decisecond <- 2, End <- 9,
    document <- s1, statements <- s2, codes <- s3, resume <- s4, now <- s5, receiver <- s6

Drawings ==
  INSTANCE GlyphDrawing WITH
    Outlines <- Broadcaster!MCOutlines, Resources <- Broadcaster!MCResources,
    kFlattenSteps <- 2, Cell <- 7,
    resource <- s1, code <- s2, strokes <- s3, pen <- s4, contours <- s5, before <- s6
\* A packet with the optional parts that are not its own left out.
Video ==
  [is |-> "mmtp", form |-> \h61, counter |-> FALSE, elements |-> <<>>, type |-> 0, id |-> 1,
   sequence |-> 5, timed |-> TRUE, aggregate |-> FALSE, indicator |-> 0,
   parts |-> <<<<3, 4>>>>, keyed |-> TRUE, lost |-> FALSE]

\* The scrambling element is absent, alone, after another one, or before one.
Element(type, octets) == [type |-> type, octets |-> octets]
MCElements ==
  {<<>>, <<Element(1, <<24>>)>>,
   <<Element(9, <<>>), Element(32769, <<17, 8>>)>>,
   <<Element(9, <<24>>), Element(1, <<16>>), Element(1, <<0>>)>>}

\* Every form of header, of payload and of extension; with more packets before and
\* after, of which some are lost, or are another series.
MCHeaders ==
  {[Video EXCEPT !.form = form, !.counter = counter, !.elements = elements, !.keyed = keyed] :
     form \in {\h60, \h61}, counter \in BOOLEAN, elements \in MCElements, keyed \in BOOLEAN}
MCPayloads ==
  {[Video EXCEPT !.timed = timed, !.aggregate = aggregate, !.elements = elements,
                 !.parts = IF aggregate THEN <<<<3, 4>>, <<5>>>> ELSE @] :
     timed \in BOOLEAN, aggregate \in BOOLEAN, elements \in {<<>>, <<Element(1, <<16>>)>>}}
  \cup {[Video EXCEPT !.type = 2, !.aggregate = aggregate, !.indicator = indicator,
                      !.parts = IF aggregate THEN <<<<3, 4>>, <<5>>>> ELSE @] :
          aggregate \in BOOLEAN, indicator \in {0}}
  \cup {[Video EXCEPT !.indicator = indicator] : indicator \in 1..3}
MCStreams ==
  {<<[is |-> "table", octets |-> <<64, 0>>], packet, [is |-> "ntp"]>> : packet \in MCHeaders}
  \cup {<<packet, [Video EXCEPT !.id = 2], [is |-> "noise", octets |-> <<0, 127>>],
           [packet EXCEPT !.sequence = 6, !.lost = lost],
           [packet EXCEPT !.sequence = 7, !.lost = lost], [is |-> "other", type |-> 255, octets |-> <<>>],
           [packet EXCEPT !.sequence = next]>> :
          packet \in MCPayloads, lost \in BOOLEAN, next \in {8}}
  \cup {<<Video, [Video EXCEPT !.sequence = next, !.elements = <<Element(1, <<16>>)>>],
           [Video EXCEPT !.sequence = next + 1, !.lost = TRUE],
           [Video EXCEPT !.sequence = next + 2]>> : next \in {6, 90}}

\* Pictures: two or more NAL units, with start codes of both lengths, with and without an
\* AUD, which may be of another layer.
MCAuds == {<<>>, <<<<70, 1, 80>>>>, <<<<71, 1, 80>>>>}
MCUnits == {aud \o <<<<38, 1, 5, 5, 0, 0, 5, 5, 5, 5, 5, 5>>, <<2, 1, 0, 4>>>> : aud \in MCAuds}
Coded(units, code) == FlattenSeq([k \in DOMAIN units |-> (IF k = 2 THEN <<0, 0, 1>> ELSE code) \o units[k]])

\* Times of MPUs, as they were and as they shall be.
Entry(mpu, n, pts) ==
  [mpu |-> mpu, decoding |-> mpu, units |-> [i \in 1..n |-> [dtsPts |-> i, pts |-> pts]]]
Basic(mpus) == [is |-> "basic", entries |-> [i \in DOMAIN mpus |-> [mpu |-> mpus[i], time |-> 10 * mpus[i]]]]
Extended(type, entries) ==
  [is |-> "extended", type |-> type, timescale |-> 90, default |-> IF type = 1 THEN 3 ELSE 0, entries |-> entries]
Asset(locations, descriptors) == [locations |-> locations, descriptors |-> descriptors]
At(type, id) == [type |-> type, packetId |-> id]
Other(n) == [is |-> "other", octets |-> n]

MCDescriptors ==
  {<<Other(1), Basic(<<4, 5, 6>>), Extended(1, <<Entry(4, 2, 3), Entry(5, 2, 3), Entry(6, 2, 3)>>)>>,
   <<Basic(<<4, 5>>), Other(1), Extended(2, <<Entry(4, 2, 1), Entry(5, 2, 2)>>), Other(2)>>,
   <<Other(1)>>,
   <<Basic(<<4>>), [is |-> "overlong"], Basic(<<5>>)>>}
MCTable(descriptors, cut) ==
  [cut |-> cut,
   assets |-> <<Asset(<<At(5, 0)>>, <<Basic(<<4>>)>>),
                Asset(<<At(1, 0), At(0, 2)>>, <<Basic(<<0, 5>>), Extended(1, <<Entry(5, 1, 3)>>)>>),
                Asset(<<At(0, 1)>>, descriptors)>>]
MCAdded(n) == [k \in 1..n |-> Entry(4 + k, 2, 3) @@ [time |-> 40 + k]]

\* Clocks of which some timestamps are set, with a right checksum or with none.
MCStamps == <<<<0, 0, 0, 0>>, <<9, 65535, 65535, 1>>, <<1, 2, 3, 4>>, <<59000, 0, 7, 65000>>>>
MCSum == FoldLeft(LAMBDA sum, w : sum + w, 700, FlattenSeq(MCStamps))
MCChecksum == LET sum == (MCSum % 65536) + MCSum \div 65536 IN 65535 - sum

Job(units, code, maxFrag, table, added, dropMax, offsets, delta, checksum) ==
  [pictures |-> <<Coded(units, code), Coded(Tail(units), <<0, 0, 1>>)>>,
   units |-> <<units, Tail(units)>>, maxFrag |-> maxFrag,
   packetId |-> 1, context |-> 3, mpu |-> 5, firstSequence |-> 250, mpt |-> table,
   octets |-> <<32, 0, 0, 0>>, added |-> added, dropMin |-> 5, dropMax |-> dropMax,
   offsets |-> offsets, shift |-> 7, rest |-> 700,
   clock |-> [stamps |-> MCStamps, checksum |-> checksum], delta |-> delta]
MCJobs ==
  {Job(units, code, maxFrag, MCTable(<<Other(1)>>, TRUE), <<>>, 5, <<>>, delta, checksum) :
     units \in MCUnits, code \in {<<0, 0, 1>>, <<0, 0, 0, 1>>}, maxFrag \in {4, 6, 7, 8, 99},
     delta \in {<<0, 1, 2, 65535>>, <<65535, 65535, 65530, 3>>}, checksum \in {0, MCChecksum}}
  \cup {Job(<<<<70, 1, 80>>>>, <<0, 0, 1>>, 9, MCTable(descriptors, FALSE), MCAdded(n), dropMax, offsets,
            <<0, 0, 0, 1>>, 0) :
          descriptors \in MCDescriptors, n \in 0..5, dropMax \in {6},
          offsets \in {<<>>, <<100>>, <<100, 200>>}}

Splicing ==
  INSTANCE Splice WITH
    Jobs <- MCJobs, MaxBasicEntries <- 2, MaxExtendedOctets <- 55,
    job <- s1, todo <- s2, packets <- s3, table <- s4, clock <- s5, at <- s6

Packets ==
  INSTANCE PacketReading WITH
    Streams <- MCStreams, Chunks <- {16, 90},
    sent <- s1, round <- s2, air <- s3, input <- s4, dump <- s5, mmtStats <- s6,
    passed <- s7, before <- s8

TableWriter == INSTANCE MCTableMessages

MCMessages == TableWriter!MCMessages
MCLinkage == TableWriter!MCLinkage

Tables ==
  INSTANCE TableReading WITH
    at <- s1, carrier <- s2, stream <- s3, sent <- s4, arrived <- s5, given <- s6
-----------------------------------------------------------------------------
Init ==
  /\ part \in Checked
  /\ \/ part = "text" /\ Text!Init /\ s8 = None
     \/ part = "documents" /\ Documents!Init /\ s7 = None /\ s8 = None
     \/ part = "drawings" /\ Drawings!Init /\ s7 = None /\ s8 = None
     \/ part = "packets" /\ Packets!Init
     \/ part = "splices" /\ Splicing!Init /\ s7 = None /\ s8 = None
     \/ part = "tables" /\ Tables!Init /\ s7 = None /\ s8 = None

Next ==
  \/ part = "text" /\ Text!Next /\ UNCHANGED <<part, s8>>
  \/ part = "documents" /\ Documents!Next /\ UNCHANGED <<part, s7, s8>>
  \/ part = "drawings" /\ Drawings!Next /\ UNCHANGED <<part, s7, s8>>
  \/ part = "packets" /\ Packets!Next /\ UNCHANGED part
  \/ part = "splices" /\ Splicing!Next /\ UNCHANGED <<part, s7, s8>>
  \/ part = "tables" /\ Tables!Next /\ UNCHANGED <<part, s7, s8>>

Spec == Init /\ [][Next]_slots
-----------------------------------------------------------------------------
(* Properties: those of the parts.                                         *)

\* Text is shown as it was written.
ShownAsWritten == part = "text" => Text!ShownAsWritten

\* The screen shows what the document has, when, where and as it has it.
CaptionsAsWritten == part = "documents" => Documents!CaptionsAsWritten

\* A glyph's pattern is the outline that was sent, however it was written.
PatternIsOutline == part = "drawings" => Drawings!PatternIsOutline

\* Packets are passed on, counted and recorded as they were sent.
PacketsAreRead == part = "packets" => Packets!PacketsAreRead

\* A spliced recording goes on where it was cut.
SplicedContinues == part = "splices" => Splicing!SplicedContinues

\* The handlers get the tables that were sent.
TablesAreRead == part = "tables" => Tables!TablesAreRead

=============================================================================
