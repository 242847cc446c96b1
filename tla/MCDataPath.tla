----------------------------- MODULE MCDataPath -----------------------------
(***************************************************************************)
(* The parts of the data path that share no state, model-checked in one    *)
(* run: part says which of them this behaviour is of, and the slots hold   *)
(* its variables.  A part's modules are as they would be on their own; the *)
(* slots it does not need keep None.                                       *)
(***************************************************************************)
EXTENDS Naturals, TLC

CONSTANTS
  \* of the registry of streams and of the program tables, which have fewer tags
  \* and assets
  Packages, PacketIds, Types, OtherType, Tags, MaxAssets, FirstPid, PcrPid,
  FallbackPid, EndPid, NullPid, Shared,
  AppTypes, ProgramTags, ProgramAssets, FirstPmtPid, LastPmtPid, AppDataOffset,
  \* of a conversion to a file
  InputSize, MaxPacket, ChunkSize, BufferSize,
  \* of the CAS handler
  stream, control, worker,
  None

VARIABLES
  part, s1, s2, s3, s4, s5, s6, s7, s8, s9, s10, s11, s12, s13, s14, s15,
  s16, s17, s18, s19, s20, s21, s22, s23, s24

slots ==
  <<part, s1, s2, s3, s4, s5, s6, s7, s8, s9, s10, s11, s12, s13, s14, s15,
    s16, s17, s18, s19, s20, s21, s22, s23, s24>>

\* What only the longest part needs.
rest == <<s16, s17, s18, s19, s20, s21, s22, s23, s24>>
NoRest ==
  /\ s16 = None /\ s17 = None /\ s18 = None /\ s19 = None
  /\ s20 = None /\ s21 = None /\ s22 = None /\ s23 = None
  /\ s24 = None

\* Two threads of the tuner make all the calls; no EMM is sent.
MCStations == {"s1", "s2"}

Broadcast ==
  INSTANCE AcasHandlerProofs WITH
    Callers <- {stream, control}, Feeders <- {stream, control}, Worker <- worker,
    Stations <- MCStations, MaxPeriod <- 3,
    Ecms <- [station : MCStations, period : 0..3],
    Emms <- {}, CardIds <- {}, AddressOf <- <<>>,
    MaxGeneration <- 2, MaxPendingEcms <- 4, MaxPendingEmms <- 1, MaxRecentEmms <- 1,
    queue <- s1, emmQueue <- s2, activeEmm <- s3, emmTarget <- s4, recentEmms <- s5,
    lastEcm <- s6, failedEcm <- s7, ecmReady <- s8, keyValid <- s9, workerBusy <- s10,
    lastKeyType <- s11, key <- s12, running <- s13, generation <- s14, casModuleId <- s15,
    current <- s16, request <- s17, got <- s18, pc <- s19, onAir <- s20, heard <- s21,
    handed <- s22, gaveUp <- s23, packet <- s24

Registry ==
  INSTANCE ProgramTablesProofs WITH
    mapStream <- s1, mapPacketIdByIdx <- s2, componentPacketIds <- s3, listed <- s4,
    firstPid <- s5, tsid <- s6, mapService2Pid <- s7, assignedPmtPids <- s8, pat <- s9,
    pmts <- s10, program <- s11

\* Packages and packet IDs are compared for equality only.
Symmetry == Permutations(Packages) \cup Permutations(PacketIds)

\* Frames of one size; pictures at uneven intervals; MPUs of different lengths.
MCAssets ==
  {[m \in 0..3 |-> <<1, 1>>],
   [m \in 0..3 |-> <<1, 2>>],
   [m \in 0..3 |-> IF m = 1 THEN <<1>> ELSE <<1, 1>>]}

\* Of a demultiplexer, three parts: units, signalling messages, decoding times.
Demuxer ==
  INSTANCE DemuxerProofs WITH
    Fates <- {"intact", "lost", "undecryptable", "malformed"}, TimeKnown <- BOOLEAN,
    MaxUnits <- 3, MaxMpus <- 2,
    MessageFates <- {"intact", "lost", "malformed"}, Sound <- BOOLEAN, MaxMessages <- 4,
    MaxParts <- 3, SeqModulus <- 3,
    Assets <- MCAssets, MaxMpuDistance <- 1, MaxEntries <- 3, Ahead <- 0, MaxMpu <- 3,
    Recordings <- 2,
    kind <- s1, air <- s2, seq <- s3, lostRow <- s4, lastSeq <- s5, rx <- s6,
    pending <- s7, output <- s8, clean <- s9, heard <- s10, arrived <- s11,
    asm <- s1, processed <- s5, fresh <- s6,
    offsets <- s1, missed <- s3, lastMpu <- s4, auIndex <- s5,
    mpuTimestamps <- s6, mpuExtendedTimestamps <- s7, announced <- s8, lastRec <- s9,
    forward <- s10, given <- s11

\* Radio has tables and events, film has an item and a caption.
MCServices  == {"radio", "film"}
MCPackets   == {"ait", "emt1", "emt2", "item", "caption"}
MCOversized == {"big"}

MCOwnerOf(p)    == IF p \in {"ait", "emt1", "emt2"} THEN "radio" ELSE "film"
MCKindOf(p)     == CASE p = "ait"              -> "table"
                     [] p \in {"emt1", "emt2"} -> "emt"
                     [] p = "item"             -> "item"
                     [] p = "caption"          -> "caption"
MCContentsOf(p) == CASE p = "item"    -> {"a", "b", "big"}
                     [] p = "caption" -> {"b", "big"}
                     [] OTHER         -> {"a", "b"}

\* Two captions, in order or the second without a time of its own; a time that may
\* be late, one that is far off, and the clearing of the screen.
Says(first, second) ==
  <<[begin |-> first, clear |-> FALSE], [begin |-> second, clear |-> FALSE]>>
ClearScreen == <<[begin |-> None, clear |-> TRUE]>>
MCMenu ==
  {[codes |-> {"x"},      reference |-> None, says |-> Says(1, 4)],
   [codes |-> {"x", "y"}, reference |-> 6,    says |-> Says(None, 2)],
   [codes |-> {"y"},      reference |-> 2,    says |-> Says(0, 3)],
   [codes |-> {},         reference |-> 20,   says |-> Says(1, 2)],
   [codes |-> {},         reference |-> 6,    says |-> ClearScreen]}

\* A delimiter that does not fit whole into what a packet leaves, a slice of three
\* parts, a short one, and a unit of another type.
MCShape ==
  <<[type |-> "aud", of |-> 1], [type |-> "slice", of |-> 3],
    [type |-> "slice", of |-> 1], [type |-> "other", of |-> 1]>>

\* Of the output, four parts: data broadcasting, a conversion to a file, captions, video.
Output ==
  INSTANCE OutputProofs WITH
    Services <- MCServices, Packets <- MCPackets, OwnerOf <- MCOwnerOf, KindOf <- MCKindOf,
    ContentsOf <- MCContentsOf, Oversized <- MCOversized, Tags <- 1..2,
    TableInterval <- 1, ItemInterval <- 2, MaxRememberedSends <- 2, MaxTime <- 2,
    now <- s1, onAir <- s2, since <- s3, packetIdToService <- s4, packetIdToEmtTag <- s5,
    captionServices <- s6, lastSent <- s7, source <- s8, tv <- s9, mapService2Pid <- s11,
    mode <- s1, at <- s2, left <- s3, eof <- s4, bad <- s5, inputBuffer <- s6,
    inputEnded <- s7, next <- s8, consumed <- s9, offset <- s10, streamed <- s11,
    failed <- s12, disk <- s13, produced <- s14, exitCode <- s15,
    Codes <- {"x", "y"}, Menu <- MCMenu, MaxPending <- 2, MaxLead <- 3, Cadence <- 2,
    PcrInterval <- 2, Start <- 3, End <- 7, MaxDocuments <- 3, MaxResources <- 2,
    clock <- s1, managed <- s2, glyphs <- s3, pending <- s4, shown <- s5, sent <- s6,
    resources <- s7, fates <- s8, told <- s9, early <- s10,
    Shape <- MCShape, SlicesNeeded <- 1, PacketCells <- 3, CcModulus <- 4, MaxFrames <- 3,
    air <- s1, missed <- s2, state <- s3, proc <- s4, writer <- s5, reader <- s6,
    closed <- s7, bumps <- s8, masked <- s9, tainted <- s10, calm <- s11

\* The packet IDs in use, and those of them whose content (in s2) changes: s10.
MCUses ==
  {[ids |-> {"ait", "item"}, vary |-> {"ait"}], [ids |-> {"emt1", "emt2"}, vary |-> {"emt1"}],
   [ids |-> {"emt1"}, vary |-> {"emt1"}], [ids |-> {"item"}, vary |-> {"item"}],
   [ids |-> {"caption"}, vary |-> {"caption"}]}

AppDataInit ==
  /\ Output!Data!Init
  /\ s10 \in MCUses
  /\ \A p \in MCPackets \ s10.vary : s2[p] = "b"

\* The tag of an EMT (s5, by the packet IDs of services, s4) changes, or is missing,
\* if there is only one; a PLT gives a PID (s11) to the services in use, or to none;
\* with two packet IDs in use the clock (s1) is never set back, and services have their
\* PIDs for as long as they have routes.
AppDataNext ==
  /\ Output!Data!Next
  /\ \A p \in MCPackets \ s10.vary : s2'[p] = s2[p]
  /\ DOMAIN s4' \subseteq s10.ids
  /\ s11' \in {{}, {MCOwnerOf(p) : p \in s10.ids}}
  /\ s10.ids = s10.vary \/ (s1' >= s1 /\ (s4' = <<>> \/ s11' # {}))
  /\ "emt2" \in s10.ids => \A p \in DOMAIN s4' : p \in DOMAIN s5' /\ s5'[p] = 1
  /\ UNCHANGED s10

Programs ==
  INSTANCE ProgramTablesProofs WITH
    Tags <- ProgramTags, MaxAssets <- ProgramAssets,
    mapStream <- s1, mapPacketIdByIdx <- s2, componentPacketIds <- s3, listed <- s4,
    tsid <- s5, mapService2Pid <- s6, assignedPmtPids <- s7, pat <- s8, pmts <- s9,
    program <- s10, firstPid <- s11

\* What the proofs about these parts assume of the constants.
ASSUME PartAssumptions ==
  /\ Broadcast!HandlerAssumption /\ Broadcast!BroadcastAssumption
  /\ Registry!RegistryAssumption /\ Registry!SharedAssumption
  /\ Demuxer!Streams!ReassemblyAssumption /\ Demuxer!Messages!SignallingAssumption
  /\ Demuxer!TimingAssumption
  /\ Output!Data!TransportAssumption /\ Output!File!ConversionAssumption
  /\ Output!Subtitles!CaptionsAssumption /\ Output!TsOutputAssumption
  /\ Programs!Assumed
-----------------------------------------------------------------------------
Others ==
  \/ part = "units" /\ Demuxer!Streams!Init
     /\ s12 = None /\ s13 = None /\ s14 = None /\ s15 = None
  \/ part = "messages" /\ Demuxer!Messages!Init
     /\ s7 = None /\ s9 = None /\ s12 = None /\ s13 = None /\ s14 = None /\ s15 = None
  \/ part = "registry" /\ Registry!HistInit
     /\ s6 = None /\ s7 = None /\ s8 = None /\ s9 = None /\ s10 = None /\ s11 = None
     /\ s12 = None /\ s13 = None /\ s14 = None /\ s15 = None
  \/ part = "timing" /\ Demuxer!Init
     /\ s12 = None /\ s13 = None /\ s14 = None /\ s15 = None
  \/ part = "appdata" /\ AppDataInit
     /\ s12 = None /\ s13 = None /\ s14 = None /\ s15 = None
  \/ part = "subtitles" /\ Output!Subtitles!Init
     /\ s11 = None /\ s12 = None /\ s13 = None /\ s14 = None /\ s15 = None
  \/ part = "video" /\ Output!Init
     /\ s12 = None /\ s13 = None /\ s14 = None /\ s15 = None
  \/ part = "file" /\ Output!File!Init
  \/ part = "programs" /\ Programs!ProgramInit
     /\ s11 = None /\ s12 = None /\ s13 = None /\ s14 = None /\ s15 = None

Init ==
  \/ Others /\ NoRest
  \/ part = "broadcast" /\ Broadcast!StreamInit

OthersNext ==
  \/ part = "units" /\ Demuxer!Streams!Next /\ UNCHANGED <<part, s12, s13, s14, s15>>
  \/ /\ part = "messages" /\ Demuxer!Messages!Next
     /\ UNCHANGED <<part, s7, s9, s12, s13, s14, s15>>
  \/ /\ part = "registry" /\ Registry!HistNext
     /\ UNCHANGED <<part, s6, s7, s8, s9, s10, s11, s12, s13, s14, s15>>
  \/ part = "timing" /\ Demuxer!Next /\ UNCHANGED <<part, s12, s13, s14, s15>>
  \/ part = "appdata" /\ AppDataNext /\ UNCHANGED <<part, s12, s13, s14, s15>>
  \/ part = "subtitles" /\ Output!Subtitles!Next /\ UNCHANGED <<part, s11, s12, s13, s14, s15>>
  \/ part = "video" /\ Output!Next /\ UNCHANGED <<part, s12, s13, s14, s15>>
  \/ part = "file" /\ Output!File!Next /\ UNCHANGED part
  \/ part = "programs" /\ Programs!ProgramNext /\ UNCHANGED <<part, s11, s12, s13, s14, s15>>

Next ==
  \/ OthersNext /\ UNCHANGED rest
  \/ part = "broadcast" /\ Broadcast!StreamNext /\ UNCHANGED part

Spec == Init /\ [][Next]_slots

-----------------------------------------------------------------------------
(* Properties: those of the parts.                                         *)

\* Each part's variables have their types.
TypeOK ==
  /\ part = "units" => Demuxer!Streams!TypeOK
  /\ part = "messages" => Demuxer!Messages!TypeOK
  /\ part = "registry" => Registry!TypeOK
  /\ part = "timing" => Demuxer!TypeOK
  /\ part = "appdata" => Output!Data!TypeOK
  /\ part = "subtitles" => Output!Subtitles!TypeOK
  /\ part = "video" => Output!TypeOK
  /\ part = "file" => Output!File!TypeOK

\* Every packet is decrypted with the key it was scrambled with, unless decrypt has
\* given up waiting for every packet of the period before.
RightKey == part = "broadcast" => Broadcast!RightKey

\* A unit, and a signalling message, that has arrived whole is passed on.
ArrivedIsPassedOn ==
  /\ part = "units" => Demuxer!Streams!ArrivedUnitDelivered
  /\ part = "messages" => Demuxer!Messages!UndamagedMessageProcessed

\* Units and messages are passed on whole, in the order they were sent, each once.
ImplementsChannel ==
  /\ part = "units" => Demuxer!Streams!Channel!Init
  /\ part = "messages" => Demuxer!Messages!Channel!Init
  /\ [][/\ part = "units" =>
             [Demuxer!Streams!Channel!Next]_<<Demuxer!Streams!SentNumber,
                                              Demuxer!Streams!WholeDelivered>>
        /\ part = "messages" =>
             [Demuxer!Messages!Channel!Next]_<<Demuxer!Messages!SentNumber,
                                               Demuxer!Messages!WholeProcessed>>]_slots

\* There are streams for the assets that packages list, and for no others; their
\* indices lead to them, and no two share a PID.  A component that leaves and
\* returns gets its PID back, which none had between.
StreamsAreListedAssets ==
  part = "registry" =>
    /\ Registry!StreamsAreListedAssets
    /\ Registry!IndexFindsStream
    /\ Registry!DistinctPids
    /\ Registry!ComponentKeepsPid

\* A stream keeps its index and its PID while it is registered.
StreamsAreStable == [][part = "registry" => Registry!StableStep]_slots

\* An access unit gets the time that was signalled for it.
RightTime == part = "timing" => Demuxer!RightTime

\* An access unit whose MPU has been announced is not dropped for want of a time.
AnnouncedIsTimed == [][part = "timing" => Demuxer!TimesAnnounced]_slots

\* A receiver of data broadcasting is at most one interval behind.
AtMostOneIntervalBehind == [][part = "appdata" => Output!Data!CatchesUp]_slots

\* A caption is written or dropped once, with the glyphs it uses; it is shown in
\* time, after the management data that it needs.
EachCaptionInTime ==
  part = "subtitles" =>
    Output!Subtitles!EachCaptionOnce /\ Output!Subtitles!ShownInTime /\ Output!Subtitles!LanguageIsKnown

\* What is lost of the video is seen in the output, and nothing else is.
DamageIsReported == part = "video" => Output!LossIsReported /\ Output!NothingElseIsReported

\* Exit code 0 means that the file is whole.
ExitZeroMeansWhole == part = "file" => Output!File!ExitZeroMeansWhole

\* A receiver that ignores repetitions has the PIDs that are in use, and each of
\* them has one use.
PmtsAreCurrent == part = "programs" => Programs!PmtsAreCurrent /\ Programs!EachPidOneUse

=============================================================================
