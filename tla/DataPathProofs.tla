---------------------------- MODULE DataPathProofs ----------------------------
(***************************************************************************)
(* The properties of the run "datapath", from the proofs about its parts:  *)
(* a behaviour that is of one part stays of that part, and its slots step  *)
(* as the part's variables do.                                             *)
(***************************************************************************)
EXTENDS MCDataPath, TLAPS

-----------------------------------------------------------------------------
(* Descrambling.                                                           *)

\* A behaviour of that part begins and goes on as the broadcast does.
LEMMA BroadcastSteps ==
  /\ Init /\ part = "broadcast" => Broadcast!StreamInit
  /\ [Next]_slots =>
       (part' = "broadcast" =>
          part = "broadcast" /\ [Broadcast!StreamNext]_(Broadcast!allVars))
<1>1. Init /\ part = "broadcast" => Broadcast!StreamInit
  BY DEF Init, Others
<1>2. [Next]_slots /\ part' = "broadcast" =>
        part = "broadcast" /\ [Broadcast!StreamNext]_(Broadcast!allVars)
  BY DEF Next, OthersNext, slots, Broadcast!allVars, Broadcast!vars, Broadcast!ecmVars,
         Broadcast!emmVars, Broadcast!callVars, Broadcast!broadcast
<1> QED
  BY <1>1, <1>2

\* In the run's instance every packet is decrypted with the key it was scrambled
\* with, unless decrypt gave up waiting for every packet of the period before.
THEOREM DecryptedWithItsKey == Spec => []RightKey
<1> DEFINE Inv == part = "broadcast" => Broadcast!HandlerInv
<1>1. Init => Inv
  BY BroadcastSteps, Broadcast!StreamStart, PartAssumptions
<1>2. Inv /\ [Next]_slots => Inv'
  <2> SUFFICES ASSUME Inv, [Next]_slots, part' = "broadcast" PROVE (Broadcast!HandlerInv)'
    OBVIOUS
  <2>1. part = "broadcast" /\ [Broadcast!StreamNext]_(Broadcast!allVars)
    BY BroadcastSteps
  <2> QED
    BY <2>1, Broadcast!StreamStep, PartAssumptions
<1>3. Inv => RightKey
  BY Broadcast!StreamSays, PartAssumptions DEF RightKey
<1> QED
  BY <1>1, <1>2, <1>3, PTL DEF Spec

-----------------------------------------------------------------------------
(* The conversion of a file.                                               *)

\* A behaviour of that part begins and goes on as the conversion does.
LEMMA FileSteps ==
  /\ Init /\ part = "file" => Output!File!Init
  /\ [Next]_slots => (part' = "file" => part = "file" /\ [Output!File!Next]_(Output!File!vars))
<1>1. Init /\ part = "file" => Output!File!Init
  BY DEF Init, Others
<1>2. [Next]_slots /\ part' = "file" => part = "file" /\ [Output!File!Next]_(Output!File!vars)
  BY DEF Next, OthersNext, slots, rest, Output!File!vars
<1> QED
  BY <1>1, <1>2

FilePart == part = "file" => Output!ConvInv

\* Its invariant.
LEMMA FilePartSteps == (Init => FilePart) /\ (FilePart /\ [Next]_slots => FilePart')
<1>1. Init => FilePart
  BY FileSteps, Output!ConvInit, PartAssumptions DEF FilePart
<1>2. ASSUME FilePart, [Next]_slots, part' = "file" PROVE (Output!ConvInv)'
  <2>1. part = "file" /\ [Output!File!Next]_(Output!File!vars)
    BY <1>2, FileSteps
  <2> QED
    BY <1>2, <2>1, Output!ConvStep, PartAssumptions DEF FilePart
<1> QED
  BY <1>1, <1>2 DEF FilePart

\* Exit code 0 means that the file is whole, for every size of the input and of
\* the buffers, wherever reading and writing fail.
THEOREM ExitZeroIsWhole == Spec => []ExitZeroMeansWhole
<1>1. FilePart => ExitZeroMeansWhole
  BY DEF FilePart, ExitZeroMeansWhole, Output!ConvInv, Output!ExitAtEnd
<1> QED
  BY <1>1, FilePartSteps, PTL DEF Spec

-----------------------------------------------------------------------------
(* Units and signalling messages.                                          *)

\* A behaviour of either part begins and goes on as its reassembly does.
LEMMA ReassemblySteps ==
  /\ Init /\ part = "units" => Demuxer!Streams!Init
  /\ Init /\ part = "messages" => Demuxer!Messages!Init
  /\ [Next]_slots =>
       (part' = "units" =>
          part = "units" /\ [Demuxer!Streams!Next]_(Demuxer!Streams!vars))
  /\ [Next]_slots =>
       (part' = "messages" =>
          part = "messages" /\ [Demuxer!Messages!Next]_(Demuxer!Messages!vars))
  /\ [Next]_slots => part' = part
<1>1. /\ Init /\ part = "units" => Demuxer!Streams!Init
      /\ Init /\ part = "messages" => Demuxer!Messages!Init
  BY DEF Init, Others
<1>2. [Next]_slots /\ part' = "units" =>
        part = "units" /\ [Demuxer!Streams!Next]_(Demuxer!Streams!vars)
  BY DEF Next, OthersNext, slots, rest, Demuxer!Streams!vars
<1>3. [Next]_slots /\ part' = "messages" =>
        part = "messages" /\ [Demuxer!Messages!Next]_(Demuxer!Messages!vars)
  BY DEF Next, OthersNext, slots, rest, Demuxer!Messages!vars
<1>4. [Next]_slots => part' = part
  BY DEF Next, OthersNext, slots
<1> QED
  BY <1>1, <1>2, <1>3, <1>4

ReassemblyPart ==
  /\ part = "units" => Demuxer!UnitsInv
  /\ part = "messages" => Demuxer!MessagesInv

PassedOnInOrder ==
  /\ part = "units" =>
       [Demuxer!Streams!Channel!Next]_<<Demuxer!Streams!SentNumber,
                                        Demuxer!Streams!WholeDelivered>>
  /\ part = "messages" =>
       [Demuxer!Messages!Channel!Next]_<<Demuxer!Messages!SentNumber,
                                         Demuxer!Messages!WholeProcessed>>

\* The two invariants, with the step of the channel that a step is.
LEMMA ReassemblyPartSteps ==
  /\ Init => /\ ReassemblyPart
             /\ part = "units" => Demuxer!Streams!Channel!Init
             /\ part = "messages" => Demuxer!Messages!Channel!Init
  /\ ReassemblyPart /\ [Next]_slots => ReassemblyPart' /\ PassedOnInOrder
<1>1. Init => /\ ReassemblyPart
              /\ part = "units" => Demuxer!Streams!Channel!Init
              /\ part = "messages" => Demuxer!Messages!Channel!Init
  BY ReassemblySteps, Demuxer!UnitsStart, Demuxer!MessagesStart, PartAssumptions
  DEF ReassemblyPart
<1>2. ASSUME ReassemblyPart, [Next]_slots, part' = "units"
      PROVE  /\ (Demuxer!UnitsInv)'
             /\ [Demuxer!Streams!Channel!Next]_<<Demuxer!Streams!SentNumber,
                                                 Demuxer!Streams!WholeDelivered>>
  BY <1>2, ReassemblySteps, Demuxer!UnitsStep, PartAssumptions DEF ReassemblyPart
<1>3. ASSUME ReassemblyPart, [Next]_slots, part' = "messages"
      PROVE  /\ (Demuxer!MessagesInv)'
             /\ [Demuxer!Messages!Channel!Next]_<<Demuxer!Messages!SentNumber,
                                                  Demuxer!Messages!WholeProcessed>>
  BY <1>3, ReassemblySteps, Demuxer!MessagesStep, PartAssumptions DEF ReassemblyPart
<1>4. ASSUME ReassemblyPart, [Next]_slots
      PROVE  ReassemblyPart' /\ PassedOnInOrder
  <2>1. part' = part
    BY <1>4, ReassemblySteps
  <2> QED
    BY <1>2, <1>3, <1>4, <2>1 DEF ReassemblyPart, PassedOnInOrder
<1> QED
  BY <1>1, <1>4

\* Whatever is lost, undecryptable or malformed: a unit, or a signalling message,
\* that has arrived whole, after nothing that damages it, is passed on.
THEOREM ArrivedIsNotLost == Spec => []ArrivedIsPassedOn
<1>1. ReassemblyPart => ArrivedIsPassedOn
  BY DEF ReassemblyPart, ArrivedIsPassedOn, Demuxer!UnitsInv, Demuxer!MessagesInv
<1> QED
  BY <1>1, ReassemblyPartSteps, PTL DEF Spec

\* Either reassembly is the channel that loses units but gives whole ones only, once
\* and in the order sent: every step of it is one of the channel's, or changes
\* neither what was sent nor what was passed on.
THEOREM ReassemblyIsChannel == Spec => ImplementsChannel
<1> QED
  BY ReassemblyPartSteps, PTL DEF Spec, ImplementsChannel, PassedOnInOrder

-----------------------------------------------------------------------------
(* The decoding times.                                                     *)

\* A behaviour of that part begins and goes on as the timing does.
LEMMA TimingSteps ==
  /\ Init /\ part = "timing" => Demuxer!Init
  /\ [Next]_slots =>
       (part' = "timing" => part = "timing" /\ [Demuxer!Next]_(Demuxer!vars))
<1>1. Init /\ part = "timing" => Demuxer!Init
  BY DEF Init, Others
<1>2. [Next]_slots /\ part' = "timing" => part = "timing" /\ [Demuxer!Next]_(Demuxer!vars)
  BY DEF Next, OthersNext, slots, rest, Demuxer!vars
<1> QED
  BY <1>1, <1>2

TimingPart == part = "timing" => Demuxer!TimingInv

\* The invariant of the timing, with what a step gives an access unit.
LEMMA TimingPartSteps ==
  /\ Init => TimingPart
  /\ TimingPart /\ [Next]_slots =>
       TimingPart' /\ [part = "timing" => Demuxer!TimesAnnounced]_slots
<1>1. Init => TimingPart
  BY TimingSteps, Demuxer!TimingStart, PartAssumptions DEF TimingPart
<1>2. ASSUME TimingPart, [Next]_slots, part' = "timing"
      PROVE  (Demuxer!TimingInv)' /\ [Demuxer!TimesAnnounced]_(Demuxer!vars)
  BY <1>2, TimingSteps, Demuxer!TimingStep, PartAssumptions DEF TimingPart
<1>3. ASSUME TimingPart, Next, part = "timing"
      PROVE  Demuxer!TimesAnnounced \/ UNCHANGED slots
  <2>1. part' = "timing"
    BY <1>3 DEF Next, OthersNext
  <2>2. Demuxer!TimesAnnounced \/ UNCHANGED (Demuxer!vars)
    BY <1>2, <1>3, <2>1
  <2>3. UNCHANGED (Demuxer!vars) => UNCHANGED slots
    BY <1>3 DEF Next, OthersNext, slots, rest, Demuxer!vars
  <2> QED
    BY <2>2, <2>3
<1> QED
  BY <1>1, <1>2, <1>3 DEF TimingPart

\* Whatever is lost and wherever recordings are joined: an access unit gets its own
\* time, or none, if tables of another recording cannot be taken for this one's.
THEOREM TimesAreTrue == Spec => []RightTime
<1>1. TimingPart => RightTime
  BY DEF TimingPart, RightTime, Demuxer!TimingInv
<1> QED
  BY <1>1, TimingPartSteps, PTL DEF Spec

\* An access unit whose MPU was announced by both descriptors gets a time, however
\* full the tables are.
THEOREM AnnouncedGetTimes == Spec => AnnouncedIsTimed
<1> QED
  BY TimingPartSteps, PTL DEF Spec, AnnouncedIsTimed

-----------------------------------------------------------------------------
(* Data broadcasting.                                                      *)

\* A behaviour of that part begins and goes on as data broadcasting does.
LEMMA AppDataSteps ==
  /\ Init /\ part = "appdata" => Output!Data!Init
  /\ [Next]_slots =>
       (part' = "appdata" => part = "appdata" /\ [Output!Data!Next]_(Output!Data!vars))
<1>1. Init /\ part = "appdata" => Output!Data!Init
  BY DEF Init, Others, AppDataInit
<1>2. [Next]_slots /\ part' = "appdata" => part = "appdata" /\ [Output!Data!Next]_(Output!Data!vars)
  BY DEF Next, OthersNext, AppDataNext, slots, rest, Output!Data!vars
<1> QED
  BY <1>1, <1>2

AppDataPart == part = "appdata" => Output!AppInv

\* Its invariant, with what a receiver has of what is on the air.
LEMMA AppDataPartSteps ==
  /\ Init => AppDataPart
  /\ AppDataPart /\ [Next]_slots =>
       AppDataPart' /\ [part = "appdata" => Output!Data!CatchesUp]_slots
<1>1. Init => AppDataPart
  BY AppDataSteps, Output!AppStart, PartAssumptions DEF AppDataPart
<1>2. ASSUME AppDataPart, [Next]_slots, part' = "appdata"
      PROVE  (Output!AppInv)' /\ [Output!Data!CatchesUp]_(Output!Data!vars)
  BY <1>2, AppDataSteps, Output!AppStep, PartAssumptions DEF AppDataPart
<1>3. ASSUME AppDataPart, Next, part = "appdata"
      PROVE  Output!Data!CatchesUp \/ UNCHANGED slots
  <2>1. part' = "appdata"
    BY <1>3 DEF Next, OthersNext
  <2>2. Output!Data!CatchesUp \/ UNCHANGED (Output!Data!vars)
    BY <1>2, <1>3, <2>1
  <2>3. UNCHANGED (Output!Data!vars) => UNCHANGED slots
    BY <1>3 DEF Next, OthersNext, AppDataNext, slots, rest, Output!Data!vars
  <2> QED
    BY <2>2, <2>3
<1> QED
  BY <1>1, <1>2, <1>3 DEF AppDataPart

\* However contents change, the clock is set back, routes move and the table of what
\* was sent overflows: a section that arrives an interval after the last change
\* leaves the receiver with what is on the air.
THEOREM ReceiverCatchesUp == Spec => AtMostOneIntervalBehind
<1> QED
  BY AppDataPartSteps, PTL DEF Spec, AtMostOneIntervalBehind

-----------------------------------------------------------------------------
(* Captions.                                                               *)

\* A behaviour of that part begins and goes on as the captions do.
LEMMA CaptionSteps ==
  /\ Init /\ part = "subtitles" => Output!Subtitles!Init
  /\ [Next]_slots =>
       (part' = "subtitles" =>
          part = "subtitles" /\ [Output!Subtitles!Next]_(Output!Subtitles!vars))
<1>1. Init /\ part = "subtitles" => Output!Subtitles!Init
  BY DEF Init, Others
<1>2. [Next]_slots /\ part' = "subtitles" =>
        part = "subtitles" /\ [Output!Subtitles!Next]_(Output!Subtitles!vars)
  BY DEF Next, OthersNext, slots, rest, Output!Subtitles!vars
<1> QED
  BY <1>1, <1>2

CaptionPart == part = "subtitles" => Output!CaptionsInv

\* Its invariant.
LEMMA CaptionPartSteps ==
  (Init => CaptionPart) /\ (CaptionPart /\ [Next]_slots => CaptionPart')
<1>1. Init => CaptionPart
  BY CaptionSteps, Output!CaptionsStart, PartAssumptions DEF CaptionPart
<1>2. ASSUME CaptionPart, [Next]_slots, part' = "subtitles" PROVE (Output!CaptionsInv)'
  <2>1. part = "subtitles" /\ [Output!Subtitles!Next]_(Output!Subtitles!vars)
    BY <1>2, CaptionSteps
  <2> QED
    BY <1>2, <2>1, Output!CaptionsStep, PartAssumptions DEF CaptionPart
<1> QED
  BY <1>1, <1>2 DEF CaptionPart

\* Whatever times documents have, whichever glyphs come late and wherever the clock is:
\* a caption is written or dropped once, with its glyphs, in time, and after management
\* data.
THEOREM CaptionsInTime == Spec => []EachCaptionInTime
<1>1. CaptionPart => EachCaptionInTime
  BY DEF CaptionPart, EachCaptionInTime, Output!CaptionsInv
<1> QED
  BY <1>1, CaptionPartSteps, PTL DEF Spec

-----------------------------------------------------------------------------
(* The video.                                                              *)

\* A behaviour of that part begins and goes on as the video does.
LEMMA VideoSteps ==
  /\ Init /\ part = "video" => Output!Init
  /\ [Next]_slots => (part' = "video" => part = "video" /\ [Output!Next]_(Output!vars))
<1>1. Init /\ part = "video" => Output!Init
  BY DEF Init, Others
<1>2. [Next]_slots /\ part' = "video" => part = "video" /\ [Output!Next]_(Output!vars)
  BY DEF Next, OthersNext, slots, rest, Output!vars
<1> QED
  BY <1>1, <1>2

VideoPart == part = "video" => Output!VideoInv

\* Its invariant.
LEMMA VideoPartSteps == (Init => VideoPart) /\ (VideoPart /\ [Next]_slots => VideoPart')
<1>1. Init => VideoPart
  BY VideoSteps, Output!VideoBegins, PartAssumptions DEF VideoPart
<1>2. ASSUME VideoPart, [Next]_slots, part' = "video" PROVE (Output!VideoInv)'
  <2>1. part = "video" /\ [Output!Next]_(Output!vars)
    BY <1>2, VideoSteps
  <2> QED
    BY <1>2, <2>1, Output!VideoStep, PartAssumptions DEF VideoPart
<1> QED
  BY <1>1, <1>2 DEF VideoPart

\* Whichever packets are lost, or cannot be decrypted: a frame that is not whole is
\* found damaged, and one that arrived whole before another is not.
THEOREM LossIsSeen == Spec => []DamageIsReported
<1>1. VideoPart => DamageIsReported
  BY DEF VideoPart, DamageIsReported, Output!VideoInv
<1> QED
  BY <1>1, VideoPartSteps, PTL DEF Spec

-----------------------------------------------------------------------------
(* The registry of streams.                                                *)

\* A behaviour of that part begins and goes on as the registry does.
LEMMA RegistrySteps ==
  /\ Init /\ part = "registry" => Registry!HistInit
  /\ [Next]_slots =>
       (part' = "registry" => part = "registry" /\ [Registry!HistNext]_(Registry!histVars))
<1>1. Init /\ part = "registry" => Registry!HistInit
  BY DEF Init, Others
<1>2. [Next]_slots /\ part' = "registry" =>
        part = "registry" /\ [Registry!HistNext]_(Registry!histVars)
  BY DEF Next, OthersNext, slots, rest, Registry!histVars, Registry!vars
<1> QED
  BY <1>1, <1>2

RegistryPart == part = "registry" => Registry!HistInv

\* The registry's invariant, with what a step leaves of its streams.
LEMMA RegistryPartSteps ==
  /\ Init => RegistryPart
  /\ RegistryPart /\ [Next]_slots =>
       RegistryPart' /\ [part = "registry" => Registry!StableStep]_slots
<1>1. Init => RegistryPart
  BY RegistrySteps, Registry!HistStart, PartAssumptions DEF RegistryPart
<1>2. ASSUME RegistryPart, [Next]_slots, part' = "registry"
      PROVE  (Registry!HistInv)' /\ [Registry!StableStep]_(Registry!histVars)
  BY <1>2, RegistrySteps, Registry!HistStep, PartAssumptions DEF RegistryPart
<1>3. ASSUME [Next]_slots, part = "registry"
      PROVE  part' = "registry"
  BY <1>3 DEF Next, OthersNext, slots
<1>4. ASSUME RegistryPart, Next, part = "registry"
      PROVE  Registry!StableStep \/ UNCHANGED slots
  <2>1. part' = "registry"
    BY <1>3, <1>4
  <2>2. Registry!StableStep \/ UNCHANGED (Registry!histVars)
    BY <1>2, <1>4, <2>1
  <2>3. UNCHANGED (Registry!histVars) => UNCHANGED slots
    BY <1>4 DEF Next, OthersNext, slots, rest, Registry!histVars, Registry!vars
  <2> QED
    BY <2>2, <2>3
<1> QED
  BY <1>1, <1>2, <1>4 DEF RegistryPart

\* Whatever tables the packages send: there are streams for the assets that they
\* list and for no others, indices lead to their streams, PIDs are distinct, and a
\* component that leaves and returns gets its PID back.
THEOREM RegistryAgrees == Spec => []StreamsAreListedAssets
<1>1. RegistryPart => StreamsAreListedAssets
  BY Registry!HistSays, PartAssumptions DEF RegistryPart, StreamsAreListedAssets
<1> QED
  BY <1>1, RegistryPartSteps, PTL DEF Spec

\* No table moves a registered stream to another index or PID.
THEOREM StreamsKeepTheirPids == Spec => StreamsAreStable
<1> QED
  BY RegistryPartSteps, PTL DEF Spec, StreamsAreStable

-----------------------------------------------------------------------------
(* The program tables.                                                     *)

\* A behaviour of that part begins and goes on as the program tables do.
LEMMA ProgramsSteps ==
  /\ Init /\ part = "programs" => Programs!ProgramInit
  /\ [Next]_slots =>
       (part' = "programs" => part = "programs" /\ [Programs!ProgramNext]_(Programs!allVars))
<1>1. Init /\ part = "programs" => Programs!ProgramInit
  BY DEF Init, Others
<1>2. [Next]_slots /\ part' = "programs" =>
        part = "programs" /\ [Programs!ProgramNext]_(Programs!allVars)
  BY DEF Next, OthersNext, slots, rest, Programs!allVars, Programs!vars
<1> QED
  BY <1>1, <1>2

\* A receiver that keeps a table until its version changes has the PIDs that are
\* in use, and each PID has one use, whatever lists and tables are sent.
THEOREM ReceiverFindsStreams == Spec => []PmtsAreCurrent
<1> DEFINE Inv == part = "programs" => Programs!ProgramInv
<1>1. Init => Inv
  BY ProgramsSteps, Programs!ProgramStart, PartAssumptions
<1>2. Inv /\ [Next]_slots => Inv'
  <2> SUFFICES ASSUME Inv, [Next]_slots, part' = "programs" PROVE (Programs!ProgramInv)'
    OBVIOUS
  <2>1. part = "programs" /\ [Programs!ProgramNext]_(Programs!allVars)
    BY ProgramsSteps
  <2> QED
    BY <2>1, Programs!ProgramStep, PartAssumptions
<1>3. Inv => PmtsAreCurrent
  BY Programs!ProgramSays, PartAssumptions DEF PmtsAreCurrent
<1> QED
  BY <1>1, <1>2, <1>3, PTL DEF Spec

-----------------------------------------------------------------------------
(* The types.                                                              *)

\* Every part's invariant says what its variables are.
LEMMA PartsTyped ==
  ReassemblyPart /\ RegistryPart /\ TimingPart /\ AppDataPart /\ CaptionPart /\ VideoPart
    /\ FilePart => TypeOK
<1> SUFFICES ASSUME ReassemblyPart, RegistryPart, TimingPart, AppDataPart, CaptionPart,
                    VideoPart, FilePart
             PROVE  TypeOK
  OBVIOUS
<1>1. /\ part = "units" => Demuxer!Streams!TypeOK
      /\ part = "messages" => Demuxer!Messages!TypeOK
  BY DEF ReassemblyPart, Demuxer!UnitsInv, Demuxer!MessagesInv
<1>2. part = "registry" => Registry!TypeOK
  BY Registry!HistSays, PartAssumptions DEF RegistryPart
<1>3. part = "timing" => Demuxer!TypeOK
  BY DEF TimingPart, Demuxer!TimingInv
<1>4. part = "appdata" => Output!Data!TypeOK
  BY DEF AppDataPart, Output!AppInv
<1>5. part = "subtitles" => Output!Subtitles!TypeOK
  BY DEF CaptionPart, Output!CaptionsInv
<1>6. part = "video" => Output!TypeOK
  BY DEF VideoPart, Output!VideoInv
<1>7. part = "file" => Output!File!TypeOK
  BY Output!ConvTypes, PartAssumptions DEF FilePart
<1> QED
  BY <1>1, <1>2, <1>3, <1>4, <1>5, <1>6, <1>7 DEF TypeOK

\* Each part's variables have their types.
THEOREM PartsAreTyped == Spec => []TypeOK
<1> DEFINE Inv == /\ ReassemblyPart /\ RegistryPart /\ TimingPart /\ AppDataPart
                  /\ CaptionPart /\ VideoPart /\ FilePart
<1>1. Init => Inv
  BY ReassemblyPartSteps, RegistryPartSteps, TimingPartSteps, AppDataPartSteps,
     CaptionPartSteps, VideoPartSteps, FilePartSteps
<1>2. Inv /\ [Next]_slots => Inv'
  BY ReassemblyPartSteps, RegistryPartSteps, TimingPartSteps, AppDataPartSteps,
     CaptionPartSteps, VideoPartSteps, FilePartSteps
<1>3. Inv => TypeOK
  BY PartsTyped
<1> QED
  BY <1>1, <1>2, <1>3, PTL DEF Spec

=============================================================================
