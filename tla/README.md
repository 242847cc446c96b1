# dantto4k in TLA+

dantto4k turns the MMT/TLV stream of a Japanese 4K/8K broadcast into an MPEG-2
transport stream, on the command line or as a BonDriver (a tuner DLL that a
recording application loads). Encrypted streams are decrypted with the viewer's
own ACAS smart card. This directory holds TLA+ models of the parts of the
program in which several things happen at once or over time, the TLC
configurations that check them, and proofs of the central invariants.

Paths below are relative to the repository; line numbers are those of the
commit the models were written from. `PROJECT.json` lists, for every definition
of a module, the lines it models.

    tlc -config Acas.cfg MCAcasMessages        # a run
    tlapm AcasHandlerProofs.tla                # a proof

## 1. The system

```
 tuner / file                    control calls (SetChannel, PurgeTsStream, Start/Stop)
      |                                     |
      v                                     v
  CBonTuner (one mutex) --------------------+------------> MmtsRecorder
      |  input bytes                                        ^ decoded bytes
      v                                                     |
  MmtTlvDemuxer ---ECM, EMM, scrambled packets---> AcasHandler ==worker==> AcasCard
      |   packets -> fragments -> units                                     |
      |                                                    LocalSmartCard or RemoteSmartCard
      v                                                                     |
  RemuxerHandler, dumpers, map writer                          PC/SC     CasProxyClient
      |
      v
  BufferedOutput -> TS bytes
```

| component | state it keeps | operations | hard behaviour | what makes it correct |
|---|---|---|---|---|
| **CAS handler** `acasHandler.*` | ECM and EMM queues, the newest and the rejected ECM, the published key with its parity, recent EMMs, channel generation, one mutex and one condition variable | `onEcm`, `onEmm`, `decrypt`, `clear`, destructor; a worker thread | calls race the worker's card I/O; waits with the lock released; one condition variable for two kinds of waiters; retries, expiry, two capacities | keys never outlive their channel; the newest ECM decides; no lost wake-up; nothing cancelled reaches the card |
| **ACAS card session** `acasCard.*` | handle state, `cardReset`, cached card ID | `ecm`, `emm`, with retry loops | the card is pulled, exchanged, reset between any two commands | EMMs reach only their addressee; calls end; the session recovers |
| **Local smart card** `smartCard.cpp` | PC/SC context and handle | connect, reconnect, transmit, transactions | errors of every call | see card session |
| **CAS proxy client, remote smart card** `casProxyClient.*`, `smartCard.cpp` | connection generation, waiters, pending replies, send queue; an event-loop thread | connect, request with time-out, disconnect | late replies, handlers of a previous connection, time-out against reply | a reply answers its own request only; every caller is answered |
| **BonDriver DLL, tuner** `dllmain.cpp`, `bonTuner.cpp` | the tuner mutex, input and output buffers, module globals | GetTsStream (two forms), Purge, SetChannel, Open/Close, recording exports | application threads call at will; the buffer of one call is handed out after the mutex is released | a returned buffer stays valid until the next call; a channel change leaves nothing of the old one |
| **Recorder** `mmtsRecorder.*` | sessions, path reservations, one global mutex | Start, Stop, GetStatus, writes, end of session | `Stop` closes the file outside the lock | one writer per path; IDs are not reused while alive; the status of a session is its own |
| **Demultiplexer** `mmtTlvDemuxer.*` | assemblers and validators per packet ID, last sequence numbers, stream registry, statistics | `demux`, tables, MPUs, signalling | lost, repeated, damaged packets; a table that changes the streams; exceptions in mid-message | only whole units are passed on; a stream keeps its PID |
| **Fragment reassembly** `fragmentAssembler.*` | fragment state, buffered bytes | assemble, checkState, validate, clear | gaps, joins in mid-unit, decryption failures inside a unit | an emitted unit is exactly one sent unit |
| **Stream timing** `mmtStream.*`, `mpu*Processor.*`, `timebase.*` | access-unit index, timestamp table | timestamps, next PTS/DTS, extrapolation | tables that come late or never, wrapping clocks | presentation times belong to their unit and do not run back |
| **Data broadcasting** `appDataTransport.*`, `appItemAssembler.*` | versions, sent sections, pending items | tables, items, captions | repetition intervals, a cache limit, version changes | an item is whole and of one version |
| **TS remultiplexer** `remuxerHandler.*` | continuity counters, PCR state, captions waiting for glyphs, PMT PIDs of services | one handler per table and stream | queue limit, order of captions, services that come and go | losses are visible; captions in order and in time; PAT and PMTs lead to the streams |
| **Buffered output** `bufferedOutput.h` | a byte buffer | write, flush | the buffer's limit | no byte lost or reordered |
| **Tables and descriptors** `mpt.cpp` … `mmtDescriptors.cpp` | the position in a message | `unpack` of messages, tables, descriptors | two widths of length; one field misread garbles what follows | a handler gets the fields that were sent |
| **Text and captions** `aribCharsetEncoder.cpp`, `ttml/drcs.cpp` | G0 to G3, what is invoked, a pending single shift; codes of glyphs | encode a character; a chunk; a glyph | the receiver keeps the same state by itself, for as long as the text goes on | encoder and receiver agree at every character |
| **Packet headers** `mmt.cpp`, `mmtp`, `dataUnit`, `mmtTlvDemuxer.cpp` | what has arrived and is not read; numbers by packet ID | TLV, IP, MMTP, extension headers, data units, signalling headers; the dump of decoded packets | octets in pieces, noise between packets, losses, a recording read again | what is passed on is what was sent; a recording reads as the broadcast did |
| **Splicer** `mmtSplice.cpp` | none that outlives a call | pictures to MPUs, a package table patched, clocks shifted | limits of descriptors, optional fields, incremental checksums | a spliced recording goes on where it was cut |
| **Caption documents** `ttml/*` | open spans, styles, codes sent | parse, resolve, convert, draw | nested spans, inherited styles and times, regions, glyph outlines in many notations | the screen shows what the document has |
| **TS verifier, map writer, dumper** | tools over one file | – | – | – |
| **Conversion of descriptors and audio, AES, SHA-256, inflate** | none that outlives a call | pure translation | – | data, not control |
| **Command line** `dantto4k.cpp` | buffers of the main loop | read, demultiplex, write, flush | failures of reading and writing | an exit status that tells the truth |

How they interact:

- The *feeding thread* of the tuner reads input under `CBonTuner::mutex`, runs
  the demultiplexer, and through it `AcasHandler::onEcm`, `onEmm`, `decrypt`.
  Control calls of the application take the same mutex and call `clear()`.
- `AcasHandler`'s worker is the only thread that talks to the card. It shares
  `queueMutex` and `queueCv` with the callers and holds no lock during card I/O.
- `AcasCard` and the smart cards belong to the worker alone; the other
  applications of the PC/SC service, and the person at the reader, act on the
  card at any moment. `setSmartCard` is called once, before the first ECM
  (`dllmain.cpp:101`, `dantto4k.cpp:1108`).
- The recorder is called by the feeding thread (data) and by the application's
  threads (Start, Stop, status) under its own mutex.

## 2. The modules

| module | what it models |
|---|---|
| `AcasHandler` | the CAS handler: every call, every step of the worker, the condition variable |
| `KeyService` | what a `CasHandler` promises the demultiplexer; `AcasHandler` implements it |
| `Descrambling` | `AcasHandler` between a broadcast whose keys alternate, the demultiplexer's calls and the tuner's channel changes |
| `AcasCard` | the card session over PC/SC, with a local or a remote reader, with every failure |
| `CasProxyWire` | the packets between dantto4k and a CasProxyServer |
| `CasProxyClient` | the client of that server: callers, event loop, network, server |
| `RemoteCalls` | what the client promises its callers; `CasProxyClient` implements it |
| `Recorder` | recordings of decoded packets with their maps, and the threads that start and stop them |
| `Tuner` | the DLL's tuner and its buffers, with `Recorder` underneath |
| `Fragments` | the fragment states shared by the assembler and the validator |
| `UnitChannel` | what reassembly promises: units whole, once, in order; both of the next two implement it |
| `MfuReassembly` | the media path of the demultiplexer: from packets of one asset to units |
| `SignallingReassembly` | the signalling path: from packets of one packet ID to messages |
| `StreamRegistry` | which streams exist, with which index and PID, as package tables change |
| `ComponentHistory` | `StreamRegistry` with a record of the first PID every component had |
| `StreamTiming` | the timestamp tables and the times given to access units |
| `AppDataTransport` | which data-broadcasting sections are sent, and when again |
| `TsOutput` | video from packets to PES and TS packets, and back through the verifier |
| `Captions` | captions, their glyphs, their times, and the management data |
| `Conversion` | the command line's main loop with `BufferedOutput`, to the exit status |
| `DescriptorLayouts`, `TableLayouts` | a language for layouts, and in it every descriptor, table and message as `unpack` reads it |
| `TableReading` | from a message to the tables that the handlers get |
| `PacketHeaders` | TLV and MMTP packets, data units and signalling headers in octets |
| `PacketReading` | `demux` from octets to units, messages and clocks, and the recording that is read again |
| `Splice` | the splicer: pictures, package table, clock |
| `TtmlDocument` | caption documents from their elements to the spans of paragraphs |
| `CaptionPages` | from spans to control codes, and the screen of a receiver that follows them |
| `GlyphDrawing` | from an outline in SVG to the dots of a glyph |
| `ProgramTables` | `StreamRegistry` with the PAT and the PMTs made from it, up to a receiver that keeps them |
| `TextEncoding` | text in the code of ARIB STD-B24, with glyphs, and the receiver that follows it |
| `AcasHandlerProofs` | the proofs about `AcasHandler` and `Descrambling` |
| `AcasCardProofs`, `CasProxyProofs`, `TunerProofs` | the proofs about a component each; `TunerProofs` covers `Recorder` too, `CasProxyProofs` the packets of `CasProxyWire` |
| `DemuxerProofs` | the proofs about the demultiplexer: `MfuReassembly`, `SignallingReassembly`, `StreamTiming` |
| `ProgramTablesProofs` | the proofs about `StreamRegistry`, `ComponentHistory` and `ProgramTables` |
| `OutputProofs` | the proofs about what is put out: `TsOutput`, `AppDataTransport`, `Conversion`, `Captions` |
| `DataPathProofs` | those of them that are about parts of `MCDataPath`, as that module states them |
| `MCAcasHandler`, `MCAcasMessages`, `MCTuner`, `MCTableMessages`, `MCDocuments` | definitions for the runs: sets of data, symmetry, histories |
| `MCDataPath` | ten parts of the data path side by side, for one run |
| `MCFormats` | six translations of data side by side, for three runs |

### AcasHandler

The variables are the members of `AcasHandler` (`acasHandler.h:27-59`) under
their own names, the worker's local task (`current`), and per thread a program
counter. A critical section of `queueMutex` is one step, because nothing else
touches the members; what follows the unlocking is a step of its own:
`notify_one` and `notify_all` (`"notifyOne"`, `"notifyAll"`), card I/O (`"ecm"`,
`"emm"`), AES with the copied key (`"decrypt"`).

- The condition variable is the set of threads at `"blocked"`. A notification
  moves one of them, or all, to `"eval"`, where the thread takes the lock and
  evaluates its predicate again; `notify_one` chooses any of them, the worker or
  a waiting `decrypt`. `SpuriousWakeup` is the library's freedom.
- A call that returns without changing anything is a stuttering step and has no
  action: a repeated ECM, an EMM for another card, a `decrypt` with no ECM.
- A key is represented by the task it came from (channel number and ECM), so
  that a property can say whose key is used; AES is not modelled.
- Time is abstracted to what the code compares: `failedEcm` is forgotten when
  its interval ends (it is compared only while the interval is open), an EMM
  entry turns `"expired"` at any time, `decrypt` may time out whenever its
  predicate is false.
- `recentEmms` keeps, for every EMM, whether it has an entry. When the deque is
  full the code drops its front; the model drops *some* entry, which allows all
  the code does.
- The card's answers are any of those that `AcasCard` can give, with the card ID
  it leaves behind (`EcmCardId`, `EmmAnswer`).

### Descrambling

Period *p* of a station is scrambled with key *p* under parity *p* mod 2, and its
ECM carries keys *p* and *p*+1. The demultiplexer hands over every repetition of
the ECM and every packet in order; the tuner's mutex makes calls exclusive
(`NobodyCalls`). Reception does not fail: a period's end is reached after one of
its ECMs and one of its packets. The card takes any time, and `decrypt` may give up
after its ten seconds, for some packets of a period or for all of them (`gaveUp`
remembers the latter). `RightKey` excepts the period after that, and only the
number of the key there: see the observations below.

### AcasCard

One step is one PC/SC call with the code around it up to the next. The reader is
external: cards are pulled, inserted and reset by somebody else between any two
calls, and PC/SC calls fail as they like, until (perhaps) the card stays for good
(`calm`). `LocalSmartCard`'s own loops (get-response, transaction retries) are
inside `TransmitOutcome`; the result of `beginTransaction` is ignored by the
code, and no property relies on the transaction. Key arithmetic and the layout
of commands are left out: a command is accepted, refused, or fails in one of the
ways the code tells apart.

With a remote reader (`"remote"`, or `"named"` when the configuration names the
reader) the same calls go through `RemoteSmartCard`: a request may fail, and the
server may forget its handles between any two calls, as it does when it
restarts. `ContextAfterFailure` says which failures make the client give up its
handles.

### CasProxyClient and RemoteCalls

Callers are serialised by `mutex`; the one inside posts a function to the event
loop and waits on a promise for a limited time. The event loop is one thread:
posted functions in order, and the handlers of asynchronous operations when
these end. One step is one handler, to its end. `io` is what belongs to that
thread: the connection, the waiters, the send queue, the pending replies and the
operations under way. `connectionGeneration` is compared for equality only, so an
operation has a mark (`old`) that is set when the generation moves on.

External are the network (connecting, reading and writing may fail at any time),
and the server, which answers each request at most once, late, cut, twice over
the wire, with the wrong length or the wrong opcode, or never. `MaxFaults` bounds
what goes wrong in one behaviour; a caller's time-out counts as a fault, because
the clock runs out only when something is slow.

`CasProxyWire` has the fields of every request and response in their order. The
server of the model packs its replies and the client unpacks them with it, so that a reply that is
cut or of another type is refused only where the code's `unpack` refuses it.

### Recorder and Tuner

A critical section of `g_mutex` is one step. `Stop` takes the session out under
the mutex, writes the map and closes the file without it, and releases the paths
under it again; each of the three is a step, with `Start` of another thread and
the writes in between. Files fail at any write. A path's content is the sequence
of packets in it, so that a hole, or a second writer, can be seen.

In `Tuner` the reading thread goes through a `GetTsStream` in the code's order,
one packet after the other: decrypt (and `MarkDecodeFailure`), write to the
recordings, demultiplex, note points for the map. A packet comes in two pieces,
so that the driver may deliver half of one. What demultiplexer and
remultiplexer hold back is left open. The tuner's mutex is held throughout; the
control calls of the tuner take it, those of the recorder do not.

### MfuReassembly

One asset, from `MmtTlvDemuxer::demux` to the handler that gets the unit. The
broadcaster sends units one after the other, in 1 to `MaxParts` packets each,
several units to an MPU. A packet arrives, is lost, cannot be decrypted, or holds
a data unit that does not parse; a *seam* is a place where a recording was cut
and joined, which may be in the middle of a unit and changes the packet sequence
at will. `demux` is one step per packet, in the code's order: sequence check and
clearing, decryption, MPU sequence check, then the processor.

- Audio goes through `FragmentValidator` and gathers its parts in
  `MpuAudioProcessor`; subtitles go through `FragmentAssembler`. `rx` is the
  asset's `MmtStream`, its validator or assembler and its processor together:
  state, gathered parts, last MPU number, access-unit index.
- Data is a sequence of parts, so that whose bytes are where can be said. Both
  processors compare the length with one that they find in the first bytes;
  data of one unit that is not all of it is too short, but a wrong tail may have
  the right length, or not (`LongEnough`).
- Sequence numbers wrap at `SeqModulus`. `lostRow` keeps the losses in a row
  below it: a loss of exactly 2^32 packets is invisible to the code.
- `clean`, `heard` and `arrived` are history. They say what a property may ask
  for: whether damage is still in the buffers, and which unit has arrived whole.

### SignallingReassembly

The signalling path has a sequence check of its own (`checkState`), because
packets that do not parse never reach the assembler. A packet holds a part of a
message or two whole ones. A message may be one whose processing throws: the
exception leaves `processSignalingMessages` between `assemble` and `clear` and is
caught in `demux`. Bytes that are no message either throw or are read as some
message that means nothing; the model leaves that open (`misread`) for each
packet.

### StreamRegistry

One step is a whole `processMmtPackageTable`: streams that no package lists any
more are removed, then those whose type has changed, then every listed asset is
entered, in the table's order, each seeing what the ones before it left.
A table is a sequence of assets; packages may share an asset. Assumed of the
broadcaster is that a table lists no asset and no tag twice, and that an asset
keeps its tag while it is listed. Assets have one location. The PIDs are the
code's with small numbers: tags get `FirstPid + tag`, 0x1FF is the PCR's, and
0x200 to 0xEFF are for those whose own PID is taken or reserved.

`ComponentHistory` remembers the first PID of every component. Components whose
asset another package lists as well are left out (`Shared`), see below.

### StreamTiming

An access unit's time is the time of its MPU, from one descriptor, plus the
offsets of those before it, from another. A table is a function from the MPU
numbers it has to the recording they are of; entries are announced up to `Ahead`
MPUs early, replace outdated ones when the table is full, and may be lost. An MPU
that has no entry takes its time from a neighbour, unless the code refuses
(`getNextPtsDts`). A seam begins another recording with numbers and times of its
own. `RightTime` compares what was given with the time the unit really has.
Time scales are not converted, so rounding is not modelled.

### AppDataTransport

`shouldSend` with its memory of sections by content, the interval, and the
emptying of the memory at its limit; the route of a section to a service by
packet ID, the tag of an event message table, and the two kinds that are not
repeated alike (tables and items). `mapService2Pid` is `RemuxerHandler`'s: the services
that the PLT has given a PID. A section of another service is dropped in
`writeAppDataSection`, after it has been remembered as sent. Contents are model values. A content may be
too big for its sections (`Oversized`). The history `tv` is what a receiver has.

### TsOutput

A frame is a series of NAL units, sent in parts. The validator and the processor
let parts through at once; `writeStream` begins a PES packet at an access unit
delimiter and fills TS packets; `onPacketDrop` skips a value of the continuity
counter, and that is all a receiver can learn of a loss. The receiver is the
repository's own `TsVerifier`, whose `PidState` is the variable `reader`: the
properties relate what it reports to what was sent and lost.

### Captions

The media clock that PCR values set; glyphs by code; documents that wait for
glyphs, at most `MaxPending`; the times of the statements a document converts to
(`Placed`, `Shifted`); and management data at most every `Cadence`. A document is
its codes, its reference time and the offsets of its statements. NTP and video
both advance the clock; `Clear` is a channel change.

### DescriptorLayouts, TableLayouts and TableReading

A layout is a sequence of items: octets, a number that decides what follows, a
loop, a stream of its own with a length, descriptors, whatever is left. There is
one layout for each `unpack`, in the order of its reads. `Read` interprets a layout
on octets and yields the octets of each field or fails, as the code does by
throwing; `MCTableMessages` writes messages by the same layouts, but chooses the
width of a descriptor's length by the tag (`mmtDescriptorBase.h:14-15`) and not by
the code's classes. So what is checked is not that the layouts are ARIB's, but
that lengths, loops and what is skipped fit together in every combination: a
descriptor or table is written in each of its forms, between neighbours that
have to be found, and followed by other tables.

One step reads the header of a message, one step a table. A table that is
unknown or cannot be read takes the rest of the message with it. Of the sections only
the EMM's is examined (`emm.cpp`): its CRC, which the model has as a sum of its
octets, its numbers and the sizes of its messages; an octet of an EMM may change on
the way. The other tables end with a CRC that is read and not compared, so nothing
is said of them when they are damaged. An EMM that is not current is read and not
passed on.

### ProgramTables

`onPlt` gives the services of a list their PMT PIDs and writes the PAT; `onMpt`
writes a service's PMT from the registry of streams, after the demultiplexer has
entered the table (`PackageTable` and the PMT are one step, as in the code). The
receiver is external: it ignores a table whose version it has, and drops its PMT of a
service whose PID the PAT changes. The broadcaster gives a table another version
when it changes, so a table stands for its version. What a PMT says of a stream
besides its PID is left out.

### TextEncoding

`Encoder` decides for each character on a character set and how to get it into the
left or right half of the code: it is there already, a single shift, a locking
shift, a designation. A behaviour is one text, a character at a time, without an
end. The code looks ahead in the text for the next few characters; what it
finds chooses only among ways to send the same character, so the model leaves it
open (`ReadsAhead`, `Lookups`) and covers texts of every length with a small state.
There is one character for each combination of sets in the code's tables
(`MCFormats`). The receiver is ARIB's, for whom Kanji and plane 1 of JIS X 0213 are one
set; `"another character"` is what it shows when the set is not the one meant.

`encode_text_with_drcs` sends a glyph in G2 and begins a new chunk, with a new
`Encoder`, after it (`BeginChunk`); a glyph for which there is no code is dropped.

### PacketHeaders, PacketReading

Packets are in octets here, because the questions are about octets: which of the
optional fields are there, how long a header is, where the next packet begins when
noise is between two. `demux` is one step per TLV packet: find it, read its headers,
count the gap, decrypt if there is a key, pass on the parts of its payload, write it to
the dump. When all has been read the dump is read from its start, without a card.
The cipher is external: it turns every octet of a payload but the first eight over.
Numbers that are further apart than `sequenceResyncThreshold` are another series
(9 in the model, 1000 in the code); numbers do not come round.

### Splice

One step packs the pictures, one patches the table and packs the message, one shifts a
clock packet. Pictures and packets are in octets; of a table its assets, locations and
descriptors are kept, with the sizes that limit them (`MaxBasicEntries`,
`MaxExtendedOctets`). The clock's words have 16 bits and its checksum is worked out
word by word as in the code. Times are exact: the rounding of seconds to 2^-32 and back
is left out.

### TtmlDocument, CaptionPages, GlyphDrawing

A document is a tree of records, a style a function from the properties that are set to
their values. `ParseSpans` makes flat spans of nested ones, `NormalizeWhitespace` drops
what is layout only, `Resolve` finds each span's style and times, `CaptionPages` turns pages into control codes, and a receiver, which is external,
puts characters on its screen and waits as the codes say. `MCDocuments` has families of
small documents, each about one thing that documents do, and documents that are refused.
`GlyphDrawing` reads the strokes of an outline one after the other, each in any of the
notations SVG has for it, and fills the dots. Coordinates are whole numbers and
`kFlattenSteps` divides them; XML, the spelling of values and bitmap glyphs are left out.

### Conversion

Reading, demultiplexing and writing in rounds until the input ends; `BufferedOutput`
with its flush at the limit and its destructor; the commit before the exit status
is chosen. Reading and writing fail at any time.

## 3. The runs

| run | bounds | question and result |
|---|---|---|
| `acas` | 2 threads making any call; 3 ECMs or 3 EMMs for two cards in one behaviour; 2 channel changes; queues of 3 and 2, 2 recent EMMs | Are the published and the returned key always the tuned channel's, and the newest ECM's at a parity switch? Is an EMM in one place only, and does a cancelled task stay off the card? Holds, with all capacities reached. |
| `acas_live` | 2 ECMs, 1 EMM, 1 channel change, fair threads | Does `decrypt` come back without its time-out, does the destructor end, does the handler implement `KeyService`? Holds. |
| `card` | 2 cards, 3 addresses, a local, a remote and a named reader | Do EMMs reach only their addressee, do calls end, does the session recover? Holds. The retry counters are the code's own (5 and 3). |
| `card_retry` | 1 card | Do retried ECMs succeed once a card is there to stay? **Violated**. |
| `proxy` | 3 calls, 2 faults, every kind of fault | Does a caller get the answer to its own request or an error, is each promise set once, is an open connection always read, and does the client recover after one call at most? Holds. |
| `driver` | 2 packets, 2 channels, 2 recordings, 2 control threads, 3 files | Is nothing lost or left over at a purge or a channel change? Has a file one writer, is what it holds without a hole, does its map point at the right packet, and past the end of the file only where writing has failed, is an undecrypted packet reported? Holds, but for the exceptions the properties name. |
| `datapath` | see below | The ten parts of the data path. Holds. |
| `formats` | see below | Six translations of data. Holds. |
| `frame_joined` | 2 units, decryption failing | Are only whole units passed on? **Violated**. |
| `stale_message` | 3 messages of up to 2 parts, some that throw, nothing lost | Is every sound message that arrived processed? **Violated**. |
| `linkage` | events with one MH-linkage descriptor | Are its tables read? **Violated**. |
| `glyphs` | a caption of every kind of character, 2 glyphs | Are half-width katakana, glyphs and what follows shown as written? **Violated**. |

`datapath` checks ten parts that share no state, each in behaviours of its own
(`part` in `MCDataPath` says which; the slots `s1` to `s24` hold the part's variables):
a behaviour has exactly the states that the part's own specification has, with the same
actions, and the properties are the parts' own. This is a sum of ten state spaces and not
a product, and takes one configuration instead of ten. `formats` does the same with the
parts of `MCFormats`; `linkage` and `glyphs` are two of these with other data.

| part of `datapath` | bounds | question |
|---|---|---|
| `broadcast` | 2 stations, 4 periods, 2 channel changes, 2 threads | Is every packet decrypted with the key it was scrambled with (`RightKey`), or not at all, however slow the card is? Keys of two parities come round twice; `decrypt` may give up at any time. The one exception is named above. |
| `units` | 3 units of up to 3 parts, 2 MPU numbers, sequence numbers modulo 3, all failures; audio, subtitles, items | Is what is passed on whole, in order, of one MPU; is what arrived passed on (`ImplementsChannel`, `ArrivedIsPassedOn`)? |
| `messages` | 4 messages of up to 3 parts, sequence numbers modulo 3, all failures | The same of signalling messages. |
| `registry` | 2 packages, 2 packet IDs, 2 tags, one supported and one unsupported type, 3 usable PIDs | Are PIDs and indices unique, stable and reserved for those who come back (`StreamsAreListedAssets`, `StreamsAreStable`)? |
| `timing` | 4 MPUs of 1 or 2 units, even and uneven, tables of 3, 2 recordings, losses | Has an access unit its own time; is one that was announced ever dropped (`RightTime`, `AnnouncedIsTimed`)? |
| `appdata` | 2 services, those in use with a PID or none of them; tables and items, memory of 2, 3 moments; with two packet IDs in use the clock is never set back, and services have their PIDs for as long as they have routes | Is a receiver at most one interval behind (`AtMostOneIntervalBehind`)? |
| `subtitles` | 3 documents of 5 kinds, 2 codes, 2 resources, queue of 2, 5 moments | Is each caption written or dropped once, with its glyphs; in time; after its management data (`EachCaptionInTime`)? |
| `video` | 3 frames of 4 NAL units, packets of 3 parts, counters modulo 4, losses | Does the verifier see every loss, and only losses (`DamageIsReported`)? |
| `programs` | 2 services, 2 packet IDs, 1 tag, 2 PMT PIDs | Has a receiver the PIDs that the streams are written with; has a PID one use (`PmtsAreCurrent`)? |
| `file` | 7 bytes, packets of up to 2, chunk of 3, buffer of 2, all failures | Does exit status 0 mean that the file is whole (`ExitZeroMeansWhole`)? |

| part of `formats` | data | question |
|---|---|---|
| `packets` | packets with every combination of optional fields, single and aggregated payloads, fragments, noise and other packets between, losses, gaps below and above the threshold; octets in pieces of 16 and 90 | Is what is passed on what was sent, are losses counted, does the splicer see packets as the demultiplexer does, does the recording read as the broadcast did (`PacketsAreRead`)? |
| `splices` | pictures with and without delimiters, start codes of both lengths, fragments of 4 to 99 octets; tables with both descriptors, with too many entries, with a malformed one; up to 5 new MPUs, where 3 or 4 fit; clocks with and without a checksum | Has the result the pictures as encoded, the table as asked for, a clock whose checksum is right (`SplicedContinues`)? |
| `tables` | each table, each descriptor in each of its forms, loops of 0 to 2, several tables to a message, an unknown one among them; EMMs with numbers in and out of order, messages too short, right and too long, and with each of their octets changed in turn | Does a handler get what was sent (`TablesAreRead`)? Without MH-linkage, see `linkage`. |
| `documents` | the families of `MCDocuments`, scales 2, 4 and 8 | Does the screen show what the document has, when, where and as it has it (`CaptionsAsWritten`)? |
| `drawings` | outlines of lines and curves in every notation, cells of 7 dots | Is a glyph's pattern the outline that was sent, however it was written (`PatternIsOutline`)? |
| `text` | 12 characters, one for each combination of sets; 2 glyphs, 1 code; texts of any length | Is what is shown what was written (`ShownAsWritten`)? Half-width katakana with glyphs: see `glyphs`. |

The bounds `MaxGeneration` and `MaxPendingEcms` have no counterpart in the code,
which counts channels in 64 bits and does not limit its ECM queue;
`MaxPendingEmms` and `MaxRecentEmms` are the code's 64 and 128 made small.
The handler takes its lock for any caller, so `acas` does not rely on the
tuner's mutex: a second thread changes the channel and brings new ECMs while the
first waits in `decrypt`. Exchanging ECMs, or callers, changes nothing there, so
both are symmetric; the runs with liveness use no symmetry. In `acas` a behaviour
has ECMs or EMMs, because the two paths share only the worker, and `acas_live` has
both.

### What the violated runs show

- `card_retry` (`acasCard.cpp:76-113`, `156-160`; `smartCard.cpp:293-320`). If the
  first `connect` fails, `cardReset` is set while there is no handle, and
  reconnecting without a handle always fails. If a command of `ecm()` fails with
  another error than a reset, the dead handle is used on.
- `frame_joined` (`mmtTlvDemuxer.cpp:236-250`). A packet that cannot be decrypted
  has been counted, so there is no gap, and the validator has not seen it. If it
  was the last of a frame, the next frame's first packet is refused in mid-unit
  (`fragmentAssembler.cpp:80-83`) and its others are taken for the rest of the
  frame before. `mpuAudioProcessor.cpp:34-35` says that partial frames are never
  sent; the length check alone decides.
- `stale_message` (`mmtTlvDemuxer.cpp:1161-1162`). The assembler is cleared after
  processing and not when processing throws (`1195`, `409`). The next message is
  appended to what is there, throws again, and so on until a packet is lost.
- `linkage` (`mhLinkageDescriptor.h:7`). Descriptors from F000 up have a length of
  16 bits, as `mmtDescriptorBase.h:14-15` says. The class of the MH-linkage
  descriptor, F000, is declared without it and reads one octet, the upper one, as
  the length; the descriptor then fails, and the whole table with it.
- `glyphs` (`ttml/drcs.cpp:547-555`). `b24_converter.cpp:634-635` says that chunks
  re-establish the graphic sets around every glyph. They re-establish G0, G2 and
  GL. Half-width katakana leave themselves in G1 and G1 in GR; the new `Encoder`
  takes G1 for letters and GR for hiragana.

Observed while modelling, without a run of their own: only one rejected ECM is
remembered, and none that failed while a newer one waited, so two alternating
ECMs are asked again within the second (`acasHandler.cpp:33-36`, `213-226`); a
channel change forgets which EMMs the card has accepted (`acasHandler.cpp:121`);
the PID of an asset that two packages list is noted for the first of them only,
so the other's component may come back with another PID
(`mmtTlvDemuxer.cpp:760-762`, against `mmtTlvDemuxer.h:106-108`).
After a whole period without reception the parity is that of the last key and the
key is not: packets are decrypted with the key of two periods ago until the card
has answered the ECM just queued (`acasHandler.cpp:145-150`; `39-40` keeps the published
key for "the parity in use" only). The same happens
if the card was so slow that `decrypt` gave up for every packet of a period: the first
packets of the next one have the parity of `lastKeyType` again and are served with
what is published (`RightKey` excepts that period). Two packages may list one asset with
different types; the stream then has that of the last table, and no property says which
it should be (`mmtTlvDemuxer.cpp:649-656`). More of the kind:

- *Fragments and tables.* The length fields of aggregated messages are read as 16
  bits where they may have 32: `signalingMessage.cpp:10` masks the extension flag
  with `0x00000010` where its neighbours use binary masks. An item whose
  continuation begins with the bytes of its own ID loses four bytes
  (`appItemAssembler.cpp:46-56`).
- *Proxy.* In remote mode a handle that the server has forgotten is repaired only
  where its call looks for it (`smartCard.cpp:430`, `494`), so `RecoversFromReset` makes
  no promise there (`Recoverable`); `recvLength` is what the server says.
- *Tuner and recorder.* `SetChannel` waits for the tuner's mutex, and thereby up
  to ten seconds for the card, before it calls the `clear()` that would end that
  wait (`bonTuner.cpp:172-178`, against `acasHandler.cpp:130-131`). The copying
  `GetTsStream` reads the buffer after the mutex is released (`bonTuner.cpp:73`).
  A recording that is started in a pass-through space gets nothing. `Start` with
  overwriting may remove the media file and fail afterwards. A second `Stop` of a
  session returns before the first has finished. A failed write of the map is
  not reported. A write that fails does not stop `noteOutputPacket`, which counts the
  offsets on (`mmtsRecorder.cpp:230-234`, `mmtsMapWriter.cpp:133-140`), so the map that
  `Stop` writes for a failed recording has points past the end of the file
  (`PointsAtItsPacket` allows that to no other). A recording started between the failed decryption of a packet
  and its write has the packet and not the flag (`README.md:154`).
- *Data broadcasting.* Two event message tables with the same bytes on different
  packet IDs suppress one another; a packet ID that two services list belongs to
  the one whose table came last; a table without a tag, and an item that does
  not fit, count as sent. `docs/app-data-ts-transport.md:43` says that a section whose
  CRC has changed is sent at once; `shouldSend` (`appDataTransport.cpp:271-289`) asks
  whether *these bytes* were sent less than an interval ago, so when a section goes
  from A to B and back a receiver keeps B until A's interval is over, and
  `AtMostOneIntervalBehind` says that it is never longer. Nor is it sent at once (`:43`,
  `:76`) when its service has no PID yet, as after `clear()` or where the MPT comes before
  the PLT: `writeAppDataSection` (`remuxerHandler.cpp:470-475`) drops it without a word
  after `shouldSend` has remembered it (`appDataTransport.cpp:123`, `162`, `287`), and it
  is due again an interval later.
- *Timing.* A seam to a near, higher MPU number gives the times of the recording
  before; extrapolation is right for MPUs of one length only; a seam to the same
  MPU number goes unnoticed.
- *Output.* Where an access unit delimiter cannot be decrypted, two frames are in
  one PES packet that the verifier finds whole. Continuity counters come round
  after sixteen losses in a row. After a seam where times go back, PCR and caption
  clock stay silent until the old time is passed (`remuxerHandler.cpp:623`). Glyphs
  are added with `insert`, so a code that is defined again keeps its old glyph
  (`remuxerHandler.cpp:241`).
- *Tables.* An entry of a PA message skips 32 bytes where a table has 32 bits
  (`paMessage.cpp:14-20`). Masks are written in hexadecimal where binary is meant
  (`mmtGeneralLocationInfo.cpp:33`, `41`, `mpt.cpp:15`, `61`). A table's own length is
  not used, nor the CRC of a section, but for the EMM. `mmtSplice.cpp:153` takes two tags from F000 up for
  wide ones and no others. When PMT PIDs run out, services later in the list that
  have one are left out of the PAT too (`remuxerHandler.cpp:1204-1207`). An EIT of
  another stream overwrites `tsid` (`remuxerHandler.cpp:938`). Where an SDT, BIT, CDT or
  NIT needs several sections they all have one section number, which
  `remuxerHandler.cpp:1073-1080` avoids for the EIT alone.
- *Text.* `toHalfwidth` turns ￥ (U+FFE5) into a backslash, for which no set has a code,
  and the character is dropped although `canEncodeCaption` says that it has one; likewise
  ￣ (`aribCharsetEncoder.cpp:307-314`, `aribCharsetEncoder.h:16-20`). A short event's
  text may be cut inside a character (`descriptorConverter.h:64`).
- *Captions.* Every span of a paragraph with a positioned region has its own copy of
  the region and `build_page` compares pointers, so each begins a block of its own
  (`ttml/b24_converter.cpp:466`). Spans of white space between spans with a region have
  none, and the paragraph is dropped as one of mixed modes
  (`ttml/b24_converter.cpp:309-329`). Animation names are looked up in styles and
  regions of the head, never in an element's own style (`ttml/parser.cpp:206-211`). A
  line break that begins a block is lost, because APS follows it
  (`ttml/b24_converter.cpp:664-701`, against 337). A column of nothing but
  tate-chu-yoko is given half its width.
- *Splicer.* Where the checksum of a clock packet comes to 0 after one of its four
  times, the others are shifted and the checksum is left at 0, "none"
  (`mmtSplice.cpp:708-722`). Where the package table's own descriptor has one
  offset for all its access units, that is the offset of the inserted MPUs' too, whatever
  they have themselves (`mmtSplice.cpp:203-217`). New MPUs whose entries do not fit into 255
  octets get no times and the call succeeds (`mmtSplice.cpp:208-209`, against
  `mmtSplice.h:105`, by which there are entries for all of them); `TableAsAsked` says
  which those are. The comment at `mmtSplice.cpp:183-187`, that the
  demultiplexer's parser ignores the descriptor's length, is out of date
  (`mpuExtendedTimestampDescriptor.cpp:11`).
- *Sequence numbers.* A loss is not counted where the number comes round to 0, nor where
  a seam takes the number further than `sequenceResyncThreshold`
  (`mmtTlvDemuxer.cpp:195-196`).
- *Command line.* A read that fails without reaching the end of the input leaves
  the loop spinning (`dantto4k.cpp:1124-1132`).

### Why the bounds are enough

Reassembly keeps one unit's state, so what can go wrong lies between a unit, the
one before and the one after: three units, three parts (first, middle, last),
two MPU numbers (the receiver's last, and another). Modulo 3 a gap of one, a gap of two
and a repetition are all different from the next number. Four messages are two
aggregated ones between two others. In the registry two assets compete for three
PIDs of which components that are away keep some, so PIDs do run out; a third
packet ID adds no kind of conflict.

Three calls are one whose reply is late, one that it might answer, and one that
must succeed; two faults are the two that may meet in one call, such as a time-out
and the failure of the next connection. Two recordings are one being finished and
one being started on its path; two packets are one before and one after it. Tables
of three entries hold the MPUs that `Ahead` and `MaxMpuDistance` reach and one
outdated one; a fourth MPU makes the tables full. With a memory of two sections
the third content empties it. Five new MPUs are one more than fit where entries are
short and two more where they are long. In the model of the output a packet of three parts
lets a delimiter lie across a packet's end, and three frames are one damaged
between whole ones and the one that closes the last. A caption queue of two drops
a caption at the third. Reading a table keeps nothing but the position, so a
descriptor between two neighbours and a loop of two show every way to lose it. Two
services and two PMT PIDs let a service leave and return while the other takes or
keeps a PID, and let PIDs run out. The text needs no bound: its states are the
encoder's and the receiver's.

### Fairness

`AcasHandler!Fairness` is weak fairness of the worker and of each caller *inside*
a call: the operating system schedules threads and the card answers. Nothing is
assumed of calls being made, of spurious wake-ups, or of the ten-second time-out:
`DecryptReturns` says that the wait ends without it. `AcasCard!FairSpec` adds
strong fairness of `CallEcm`: ECMs are repeated many times a second and the
worker takes them before EMMs.

`CasProxyClient!Fairness` is weak fairness of `Progress`: the event loop runs its
handlers, the caller's own steps, and the server and network once nothing is left
to go wrong. `RecoversWithinOneCall` needs no fairness for its bound (one call) but
for the call to end.

That `decrypt` comes back without its time-out depends on there being one feeding
thread, which the tuner's mutex guarantees: `onEcm` notifies one thread only, and
with a second feeder waiting in `decrypt` the notification can go there while the
worker sleeps.

## 4. The proofs

Every theorem is for all values of the constants that satisfy the named assumptions:
any number of threads, ECMs, channels, calls, faults, services, assets, bytes, and any
bounds. The bounds of the runs are constants too, so nothing below depends on them.

| module | theorem | statement |
|---|---|---|
| `AcasHandlerProofs` | `TypeCorrect` | `Spec => []TypeOK` |
| | `KeyNeverOutlivesChannel` | `Spec => []KeyOfThisChannel` |
| | `ReturnedKeyCorrect` | `Spec => []ReturnedKeyOfCallersChannel` |
| | `NewestEcmDecides` | `Spec => [](NewestEcmRemembered /\ KeyOfNewestEcm)` |
| | `ParitySwitchCorrect` | `Spec => ParitySwitchUsesNewestEcm` (an action property) |
| | `EmmInOnePlace` | `Spec => []EachEmmOnce` |
| | `CancelledTasksStay` | `Spec => CancelledTaskNeverSent` (an action property) |
| | `RejectedEcmStays` | `Spec => []RejectedEcmNotRetried` |
| | `HandlerIsKeyService` | `Spec => Service!SafeSpec`: the steps of `KeyService` |
| | `DecryptedWithItsKey` | `StreamSpec => []RightKey`, of `Descrambling` |
| `AcasCardProofs` | `EmmReachesAddressee` | `Spec => []EmmReachesOnlyItsAddressee` |
| | `CardTyped` | `Spec => []TypeOK` |
| `CasProxyProofs` | `UnpackPacked` | what `Pack` writes `Unpack` reads, and a front of it is refused |
| | `ClientSound` | `Spec => []ClientInv`, the inductive invariant |
| | `ConnectionServed` | `Spec => []ConnectionIsServed` |
| | `RemoteCallsImplemented` | `Spec => ImplementsRemoteCalls` |
| `TunerProofs` | `NothingIsLostOrStale` | `Spec => []NothingLostOrStale` |
| | `OneWriter` | `Spec => []OneWriterPerFile` |
| | `RecordingsWhole` | `Spec => []RecordingsAreWhole` |
| `DemuxerProofs` | `UnitsArrive` | of `MfuReassembly`: `[]ArrivedUnitDelivered`, `[]UndamagedWholeUnits`, and the steps of `UnitChannel` |
| | `MessagesArrive` | the same of `SignallingReassembly` |
| | `TimesAreTrue` | of `StreamTiming`: `[]RightTime` and `[][TimesAnnounced]_vars` |
| `ProgramTablesProofs` | `RegistryTypeCorrect`, `RegistryAgrees` | `Spec => []TypeOK`, `Spec => []StreamsAreListedAssets` |
| | `StreamsKeepTheirPids` | `Spec => StreamsAreStable` (an action property) |
| | `ComponentsKeepPids` | the same over time, of `ComponentHistory` |
| | `ReceiverFindsStreams` | PMTs are current and PIDs have one use |
| `OutputProofs` | `ReceiverCatchesUp` | of `AppDataTransport`: `[][CatchesUp]_vars` (an action property) |
| | `ConversionTyped`, `ExitZeroIsWhole` | bounds; exit code 0 means that the file is whole |
| | `CaptionsInTime` | of `Captions`: `[]EachCaptionOnce`, `[]ShownInTime`, `[]LanguageIsKnown` |
| | `DamageReported` | of `TsOutput`: `Spec => [](LossIsReported /\ NothingElseIsReported)` |
| | `VideoTyped` | `Spec => []TypeOK` |
| | `VideoSpec` | `Spec => []VideoInv`, the inductive invariant |
| `DataPathProofs` | `DecryptedWithItsKey`, `ExitZeroIsWhole`, `RegistryAgrees`, `StreamsKeepTheirPids`, `ReceiverFindsStreams` | the same as `datapath` checks them: `RightKey`, `ExitZeroMeansWhole`, `StreamsAreListedAssets`, `StreamsAreStable`, `PmtsAreCurrent` |
| | `ArrivedIsNotLost`, `ReassemblyIsChannel`, `TimesAreTrue`, `AnnouncedGetTimes`, `ReceiverCatchesUp`, `CaptionsInTime` | likewise `ArrivedIsPassedOn`, `ImplementsChannel`, `RightTime`, `AnnouncedIsTimed`, `AtMostOneIntervalBehind`, `EachCaptionInTime` |
| | `LossIsSeen`, `PartsAreTyped` | likewise `DamageIsReported`, `TypeOK` |

### From what

- `HandlerAssumption`: the worker is not a caller, `None` is none of the data, an EMM has
  an address, the bounds are positive. `BroadcastAssumption` adds that the ECMs are those
  of the stations' periods and that every caller is a feeder.
- `CardAssumption`, `TunerAssumption`, `RecorderAssumption`: sorts of readers, `None`, bounds,
  and that the name of a recording's map is neither the recording nor another's map.
- `ClientAssumption`: the kinds of calls and faults are known ones, and "no answer",
  "failed" and "done" are no server's answers.
- `RegistryAssumption`, `SharedAssumption`, `ProgramAssumption`: finitely many packet IDs,
  the order of the PID ranges as the code's constants have it, `None`.
- `ConversionAssumption`: a chunk holds a packet (`dantto4k.cpp`'s constants), sizes positive.
- `ReassemblyAssumption`, `SignallingAssumption`: the fates of packets are known ones, sequence
  numbers have at least two values, bounds are positive, `None` is none of the data.
- `TimingAssumption`: access units last longer than 0; a table has room for all that a
  broadcaster announces ahead and two more (`MaxEntries > Ahead + 2`).
- `TransportAssumption`: a packet has one kind and one service that owns it; intervals
  and the memory are not 0.
- `TsOutputAssumption`: a frame is NAL units, the first of them and no other the delimiter, which
  fits into a packet; at least `SlicesNeeded` of them are slices, by which the processor sees
  where the frame ends (4 in 8K video, else 1); the counter has at least two values.
- `CaptionsAssumption`: the clock begins no earlier than a cadence after 0; a document's
  statements are in the order of their times, which `convertAndWriteSubtitle` relies on.

Each is an `ASSUME`, or part of `PartAssumptions` in `MCDataPath` where a component is
instantiated, so TLC evaluates it in the runs.

### Along which argument

*The handler.* `TypeOK` is made inductive by adding that the worker's task is of the kind
it is busy with and that a waiting caller has a request (`TypeInv`). `KeyOfNewestEcm` is
not inductive: whether the answer on its way may be published depends on what was
remembered when its ECM was accepted. `EcmInv` therefore says that queued ECMs are of this
channel, that `workerBusy` is exactly "an ECM is at the card", and that *while an ECM of an
earlier channel is at the card there is no usable key* — `clear()` has withdrawn it, and
only that very answer could publish another. `CallInv` carries a key from the moment it is
copied to the return of `decrypt`. `EmmInv` says that the worker's `activeEmm` is the task
in its hands, so that `onEmm` compares with the right one, and that an EMM is queued once,
at the card, or remembered. `NotRetried` is inductive with these. Each action that
touches a part of the state has a lemma; all the others are quiet
(`EcmQuietStep`, `RetryQuietStep`). `HandlerIsKeyService` maps each action to an action of
`KeyService` or to a stutter.

*The handler in a broadcast.* `RightKey` speaks of the packet in a caller's hands; what
makes it inductive is how old things may be. `NewestOnAir`: the newest ECM is of this
period or of the one before. `KeyOnAir`: so is the key, *if* the last key returned had this
period's parity and `decrypt` did not give up all through the period before.
`AfterPacket`: once a packet of the period has been answered, other than by giving up,
and got no key, the usable key is the period's own and only its ECM may be unanswered. `FailedOnAir`: the
rejected ECM is not from the future. It rests on an ECM carrying two keys and no more than two
being on the air at a time.

*The card.* `SessionInv`: the cached ID is that of the card behind a good handle, and is
forgotten before a handle becomes good again; an EMM is put to the card only after the
comparison. `CardTyped` does not need it.

*The client.* `ClientInv` says for each promise not set who owns it: a job posted or
waiting, or one pending response, and never two (`Owned`); where each request is, from the
queue over the network to the server, once (`SentOnce`, `Carried`); that a frame on its way
has the server's answer to its request, perhaps cut (`FrameKnown`); and which operations are
under way in each state of the connection (`Writing`, `Reading`), those of an
earlier generation aside. The last is what makes a reply reach the waiter of its own
generation. `ImplementsRemoteCalls` needs one thing more: that a cut answer cannot be taken
for a whole one. `UnpackPacked` proves that for any fields and values.

*Tuner and recorder.* `StreamInv` marks everything on its way with its channel and says
that what has been returned and what is held back are together all that was due.
`WriterInv`: a path is in the table of sessions, or reserved for as long as a thread has
the session in hand; that closes the gap between `Stop`'s two critical sections.
`RecordingInv` compares a session's counters with the packets really written, and has
"left undecrypted" known to the session before the packet is written.

*Units and messages.* `UnitsInv` relates the buffer to what was sent. A stream that knows
the MPU on the air has missed no packets but the last few in a row, whose number the next
sequence check will see (`UnitsInStep`); so, if it is undamaged and in mid-unit, its buffer
is what was sent of that very unit (`CleanFragment`), and if it has heard the unit so far it
is in mid-unit (`UnitHeardSoFar`). What is in the buffer comes after what was passed on
(`UnitsAhead`), hence once and in order. What becomes of a packet is one of five outcomes,
the same for audio, subtitles and items, and the proof goes by them. `MessagesInv` is the
same of an assembler, with `FreshFragment` for what an exception leaves behind: an
assembler that was cleared since is in step, another one may hold anything.

*Times.* As long as what was heard since a recording began settles that the receiver
is in it (`Settled`), the tables are of this recording, hold nothing from further ahead than
is announced, and have all that was announced (`TablesCurrent`); and the receiver's
count of access units is the broadcaster's, or behind it where packets were missed
(`InStep`). What `Remember` throws out of a full table is then outdated, because the table
is larger than what is announced ahead: a counting argument over intervals of numbers.
A sum of offsets is a recursive function, about which the lemmas are by induction.

*Data broadcasting.* `SentIsHeld`: what is remembered as sent since it last changed, its
service having had a PID since, the receiver has, or it came on another packet ID. `SentByLatest`: no time in the memory is after
the latest that the clock has shown.

*Captions.* Each document given an ID is waiting once or has its fate, and never both
(`WaitingOnce`, `EachCaptionOnce`). `Fresh` says that management data was written when due,
so that between it and any statement there is less than a cadence of the clock. The
statements of a document, and the documents that a resource releases, are taken in a loop
each (`Informing`, `InformingAll`, `Picked`); the functions are shown to exist and
to keep the invariant, by induction.

*The video.* A loss shows in the output when the next packet is written, and may be two
frames later than it happened. Until then the frame that the writer is at, with what the verifier has
of it, is in one of four states (`WriterOK`): a part of it was undecryptable; it is exactly what
was sent of the frame so far, without a gap, and the processor is in step (`Going`); it is whole, with
nothing behind it but parts of undecryptable frames (`Done`); or it will not become whole, and
then a value of the counter is skipped already or will be when the next packet arrives
(`Stalled`). `CountersAgree` has writer and verifier apart by the values skipped, less
than a turn, so that the verifier sees a break if there is one; `ReaderOK` says that a
PES packet in the verifier's hands which the writer has left is good. `CalmOK` carries the other
direction: since a frame began after which nothing went wrong, none is skipped. The proof
goes by what the processor does with a part (`ProcessInSync`, `ProcessPasses`), by how many packets the
part completes (`WrittenForms`: none, one or two), and by how the verifier reads them (`ReadForms`).

*Streams and tables.* `Updated` is a fold over a package table, `onPlt` a loop over a
list of services. Each is a function of the number of entries taken; the proofs show that
the function exists and that every step keeps the invariant, by induction up to the
length. `RegistryInv` relates streams, indices, PIDs and reservations to what packages
list. `HistInv` adds that a component with a recorded PID holds it. `ProgramInv` adds
that the PAT which the receiver has is the one that the same list would give again, so that
ignoring a repetition is right (`PatIsCurrent`), and that a PMT once sent is of the last
table (`PmtsAreLast`).

*The conversion.* `ConvInv` follows the bytes: none is in two places, and without a failure
none is missing.

*The run's properties.* `DataPathProofs` lifts a component's theorem to `MCDataPath`: a
behaviour stays in its part, and the slots step as the part's variables do.

The inductive invariants were checked with TLC as invariants of the runs' instances before
they were proved. Induction over numbers is derived from the well-ordering of `Nat`
(`NatLessThanWellFounded`, `WFMin`) with the set of numbers for which the claim holds,
because the library's induction theorems take an operator as a parameter.

### What is only model-checked

- Liveness, and the fairness in the refinements' specifications: `DecryptReturns`,
  `DestructorJoins`, `CallReturns`, `RecoversFromReset`, `RecoversWithinOneCall`; of
  `ImplementsKeyService` the promise that every question is answered. The prover cannot
  reason about `ENABLED`.
- What recursive operators compute, because a module with such an operator is out of the
  prover's reach: `CaptionsAsWritten`, `PatternIsOutline`, `TablesAreRead`,
  `PacketsAreRead`, `SplicedContinues`.
- `ShownAsWritten` (texts) and the parts of `MCFormats` above: the module reaches recursive
  operators, and its runs are over concrete tables of characters.

### What the proofs found

A proof that fails says something about the model. These were changed:

- `AppDataTransport`: an event message table without a tag is remembered as sent and is not sent
  (`appDataTransport.cpp:122-135`), and so suppresses a table with the same bytes on another
  packet ID. `CatchesUp` excepts that, but the history by which it does so (`source`) did not
  note it. TLC had not met it, because at most one packet ID lacks its tag in the run.
- `Captions`: the history `told` was the clock when management data was written. NTP writes
  it by its own time, which is ahead of the clock between two PCR values (`PcrInterval`, 2 in
  the run, was 1), and the property was not inductive; `told` is that time now. That a document's statements come in the order of
  their times is an assumption that the code makes, and is named.
- `TsOutput`: `LossIsReported` needs a frame to have as many slices as the processor waits for. Of
  one with fewer, `isLastFragment` is never set, and the next delimiter clears what is still in
  `mapPesPendingData` (`remuxerHandler.cpp:550-551`) without a gap in the counter. The
  model had one shape of frame in the run, so the assumption had no name.
- `MfuReassembly`, `SignallingReassembly`, `StreamTiming`: nothing said that `None` is none of
  the data, or that an MPU has an access unit.
- Folds of the community modules, in the modules above, are recursive functions now, because the
  prover can unfold these.

## 5. Not modelled

Of the implementation's lines about four tenths are third-party or tables:
`pugixml.cpp` and `pugixml.hpp`, `cxxopts.hpp`, `aribCharsetTables.cpp`. What else is left
out translates data and keeps nothing: the conversion of descriptors and tables to their
MPEG-2 counterparts (`descriptorConverter.h`, a good part of `remuxerHandler.cpp`), audio
to ADTS, printing.

Left out as well: AES, SHA-256, inflate and the key derivation; the byte layout of commands
and answers of the card; assets with several locations; XML and the spelling of values in
caption documents, bitmap glyphs; the dumper; the two formats of the map file; the options
of the command line and its probe of the bit rate; two feeding threads at once, which the
tuner excludes.

## 6. Plan

The system's core is modelled, and every safety property of the runs is proved but those of `MCFormats`. What is left:

1. `TextEncoding`: `ShownAsWritten` for every table of characters, from the encoder's
   graphic sets and invocations being the receiver's.
2. More of the translations in `remuxerHandler.cpp` and `descriptorConverter.h`.
