--------------------------- MODULE MfuReassembly ---------------------------
(***************************************************************************)
(* How the packets of one asset become units again                         *)
(* (MmtTlvDemuxer::demux, processMpu, processMfuData, with                 *)
(* FragmentValidator, FragmentAssembler and the asset's MPU processor).    *)
(*                                                                         *)
(* A broadcaster sends units one after the other, each within one MPU and  *)
(* in one or more parts, a part to a packet, packets numbered through.  A  *)
(* packet may be lost on the way, may not be decryptable, or may carry a   *)
(* data unit that does not parse.  The stream may have seams, where a      *)
(* recording was cut and joined.  The kind of asset selects the path:      *)
(*   "audio"     validator, then MpuAudioProcessor, which gathers the parts*)
(*   "subtitle"  assembler, then MpuSubtitleProcessor                      *)
(*   "item"      validator, then AppItemAssembler, which gathers the parts *)
(*               of a file and belongs to the remultiplexer                *)
(*                                                                         *)
(* Bytes are not modelled: data is a sequence of parts.  The processors of *)
(* audio and subtitles find the length a unit should have in its beginning *)
(* and refuse data that is shorter.                                        *)
(***************************************************************************)
EXTENDS Fragments

CONSTANTS
  Fates,        \* what may become of a packet
  TimeKnown,    \* whether getNextPtsDts finds the MPU's timestamps
  None,
  MaxUnits,     \* bound: units sent
  MaxMpus,      \* bound: MPU sequence numbers
  MaxParts,     \* bound: parts of a unit
  SeqModulus    \* packet sequence numbers, 2^32 in the code

Parts ==
  {p \in [mpu : 1..MaxMpus, index : Nat, unit : 1..MaxUnits,
          part : 1..MaxParts, of : 1..MaxParts] : p.part <= p.of}

Receivers ==
  [lastMpu : 1..MaxMpus \cup {None}, auIndex : Nat, state : States,
   data : Seq(Parts), timed : BOOLEAN]

Results == [data : Seq(Parts), au : Nat]
Outputs == [data : Seq(Parts), au : Nat, clean : BOOLEAN]

ReassemblyAssumption ==
  /\ Fates \subseteq {"intact", "lost", "undecryptable", "malformed"}
  /\ TimeKnown \subseteq BOOLEAN /\ TimeKnown # {}
  /\ MaxUnits \in Nat \ {0} /\ MaxMpus \in Nat \ {0} /\ MaxParts \in Nat \ {0}
  /\ SeqModulus \in Nat \ {0, 1}
  /\ None \notin Nat /\ None \notin Parts /\ None \notin Receivers
  /\ None \notin Seq(Parts) /\ None \notin Results /\ None \notin Outputs

VARIABLES
  kind,      \* of the asset
  air,       \* the next part to be sent: [mpu, index in it, unit, part, of]
  seq,       \* its packet sequence number
  lostRow,   \* packets lost in a row
  lastSeq,   \* mmtStat->lastPacketSequenceNumber, None while count is 0
  rx,        \* the stream's state in the demultiplexer, None if unregistered
  pending,   \* pendingByPacketId: the parts of an item, or None
  output,    \* the last unit passed on: its parts and its timestamp, or None
  clean,     \* history: no packet was damaged since rx was last cleared
  heard,     \* history: all parts of the unit on air so far have arrived, and
             \* its timestamp; "first" if they began an MPU new to rx
  arrived    \* history: the last unit that was all heard, while rx was clean or
             \* as the first of an MPU

vars == <<kind, air, seq, lostRow, lastSeq, rx, pending, output, clean, heard, arrived>>

\* Data and a timestamp are kept within a unit only.
TypeOK ==
  /\ kind \in {"audio", "subtitle", "item"}
  /\ air \in Parts \cup {None}
  /\ seq \in 0..(SeqModulus - 1)
  /\ lostRow \in 0..(SeqModulus - 1)
  /\ lastSeq \in 0..(SeqModulus - 1) \cup {None}
  /\ rx \in Receivers \cup {None}
  /\ pending \in Seq(Parts) \cup {None}
  /\ rx # None /\ rx.state # "InFragment" => rx.data = <<>> /\ ~rx.timed
  /\ output \in Outputs \cup {None}
  /\ clean \in BOOLEAN
  /\ heard \in {"no", "yes", "first"}
  /\ arrived \in 0..MaxUnits

NewReceiver ==
  [lastMpu |-> None, auIndex |-> 0, state |-> "Init", data |-> <<>>,
   timed |-> FALSE]

Init ==
  /\ kind \in {"audio", "subtitle", "item"}
  /\ \E n \in 1..MaxParts :
       air = [mpu |-> 1, index |-> 0, unit |-> 1, part |-> 1, of |-> n]
  /\ seq = 0 /\ lostRow = 0
  /\ lastSeq = None /\ rx = None /\ pending = None /\ output = None
  /\ clean = TRUE /\ heard = "no" /\ arrived = 0

-----------------------------------------------------------------------------
(* The broadcaster.                                                        *)

\* The numbers the next MPU may have: MPU sequence numbers have 32 bits and do
\* not come round while the receiver remembers the previous one.
NextMpus ==
  {m \in 1..MaxMpus \ {air.mpu} : rx # None => m # rx.lastMpu}

\* What follows a part: the next of its unit, or a new unit, in the same MPU
\* or in the next.
Following(p) ==
  IF p.part < p.of
  THEN {[p EXCEPT !.part = @ + 1]}
  ELSE {[mpu |-> m, index |-> IF m = p.mpu THEN p.index + 1 ELSE 0,
         unit |-> p.unit + 1, part |-> 1, of |-> n] :
          m \in {p.mpu} \cup NextMpus, n \in 1..MaxParts}

OnAir == IF air.unit = MaxUnits /\ air.part = air.of THEN {None} ELSE Following(air)

Broadcast ==
  /\ air' \in OnAir
  /\ seq' = (seq + 1) % SeqModulus

\* A cut: another MPU, in the middle of a unit perhaps, and other numbers.
Seam ==
  /\ air # None /\ air.unit < MaxUnits
  /\ \E m \in NextMpus, n \in 1..MaxParts, i \in 0..1 :
       \E k \in 1..n :
         air' = [mpu |-> m, index |-> i, unit |-> air.unit + 1, part |-> k, of |-> n]
  /\ seq' \in 0..(SeqModulus - 1)
  /\ heard' = "no"
  /\ lostRow' = 0
  /\ UNCHANGED <<lastSeq, rx, pending, output, clean, arrived>>

-----------------------------------------------------------------------------
(* Mutated forms of definitions below, each with a mistake that the code   *)
(* could have been written with; they are no part of the model.            *)

ForgetStateOnly(r) == [r EXCEPT !.state = "NotStarted", !.timed = FALSE]

GapOfOne(p) == lastSeq # None /\ p # lastSeq /\ p # (lastSeq + 1) % SeqModulus

AfterMpuKeepingData(r, p) ==
  IF r.lastMpu \in {None, p.mpu}
  THEN [r EXCEPT !.lastMpu = p.mpu]
  ELSE [r EXCEPT !.lastMpu = p.mpu, !.auIndex = 0]

-----------------------------------------------------------------------------
(* The demultiplexer.                                                      *)

\* validator->clear(), assembler->clear() and mpuProcessor->clear().
Cleared(r) == [r EXCEPT !.state = "NotStarted", !.data = <<>>, !.timed = FALSE]

IsGap(s) == lastSeq # None /\ s # (lastSeq + 1) % SeqModulus

AfterGap(r) == IF IsGap(seq) THEN Cleared(r) ELSE r

\* An MPU sequence number other than the last one, whichever, clears too.
AfterMpu(r, p) ==
  IF r.lastMpu \in {None, p.mpu}
  THEN [r EXCEPT !.lastMpu = p.mpu]
  ELSE [Cleared(r) EXCEPT !.lastMpu = p.mpu, !.auIndex = 0]

\* The length check: data with a foreign part may by chance be long enough.
LongEnough(data) ==
  IF IsWholeUnit(data) THEN {TRUE}
  ELSE IF \A i \in DOMAIN data : data[i].unit = data[1].unit THEN {FALSE}
  ELSE BOOLEAN

Nothing(r) == [rx |-> r, out |-> None, timed |-> TRUE, pending |-> pending]
Untimed(r) == [Nothing(r) EXCEPT !.timed = FALSE]
Passed(r, data) == [Nothing(r) EXCEPT !.out = [data |-> data, au |-> r.auIndex]]

\* The end of a unit: it is passed on or dropped, and nothing is kept.
Ending(r) ==
  {IF ok THEN Passed(Cleared(r), r.data) ELSE Nothing(Cleared(r)) :
     ok \in LongEnough(r.data)}

\* MpuAudioProcessor::process behind the validator.  The first part takes the
\* frame's timestamp; without one the frame is dropped.
Audio(r, p, fi) ==
  IF ~Accepts(r.state, fi) THEN {Nothing(r)}
  ELSE LET begun == {IF ~Begins(fi) THEN r
                     ELSE [r EXCEPT !.data = <<>>, !.timed = known,
                                    !.auIndex = IF known THEN @ + 1 ELSE @] :
                       known \in TimeKnown}
       IN  UNION {IF ~b.timed THEN {Untimed(Cleared(b))}
                  ELSE LET more == [b EXCEPT !.data = Append(@, p),
                                             !.state = StateAfter(fi)]
                       IN  IF Ends(fi) THEN Ending(more) ELSE {Nothing(more)} :
                    b \in begun}

\* FragmentAssembler::assemble, then MpuSubtitleProcessor::process.
Subtitle(r, p, fi) ==
  IF ~Accepts(r.state, fi) THEN {Nothing(r)}
  ELSE LET more == [r EXCEPT !.data = Append(@, p), !.state = StateAfter(fi)]
       IN  IF Ends(fi) THEN Ending(more) ELSE {Nothing(more)}

\* AppItemAssembler::push of a part that the validator has accepted.
Push(r, p, fi) ==
  LET kept == IF Begins(fi) THEN <<p>>
              ELSE IF pending = None \/ pending[1].mpu # p.mpu THEN None
              ELSE Append(pending, p)
      over == kept = None \/ Ends(fi)
  IN  [Nothing(r) EXCEPT
         !.pending = IF over THEN None ELSE kept,
         !.out = IF over /\ kept # None THEN [data |-> kept, au |-> 0] ELSE None]

Item(r, p, fi) ==
  IF ~Accepts(r.state, fi) THEN {Nothing(r)}
  ELSE {Push([r EXCEPT !.state = StateAfter(fi)], p, fi)}

Process(r, p) ==
  CASE kind = "audio"    -> Audio(r, p, Indicator(p))
    [] kind = "subtitle" -> Subtitle(r, p, Indicator(p))
    [] kind = "item"     -> Item(r, p, Indicator(p))

\* What demux makes of the packet on air.
Demuxed(fate) ==
  IF rx = None THEN {Nothing(None)}
  ELSE CASE fate = "undecryptable" -> {Nothing(AfterGap(rx))}
         [] fate = "malformed"     -> {Nothing(AfterMpu(AfterGap(rx), air))}
         [] fate = "intact"        -> Process(AfterMpu(AfterGap(rx), air), air)

NewMpu == rx # None /\ rx.lastMpu # air.mpu

\* History: has rx been free of damaged packets since it was last cleared?
Clean(fate) ==
  fate = "intact" /\ (clean \/ IsGap(seq) \/ (NewMpu /\ rx.lastMpu # None))

\* History: has the unit on air arrived so far, this packet included?
Heard(fate, timed) ==
  IF rx = None \/ fate # "intact" \/ ~timed THEN "no"
  ELSE IF air.part > 1 THEN heard
  ELSE IF NewMpu THEN "first" ELSE "yes"

Receive(fate) ==
  /\ air # None
  /\ clean' = (rx = None \/ Clean(fate))
  /\ \E result \in Demuxed(fate) :
       /\ rx' = result.rx
       /\ pending' = result.pending
       /\ output' = IF result.out = None THEN output
                    ELSE [data |-> result.out.data, au |-> result.out.au,
                          clean |-> clean']
       /\ heard' = Heard(fate, result.timed)
  /\ lastSeq' = seq
  /\ lostRow' = 0
  /\ arrived' = IF air.part = air.of /\ (heard' = "first" \/ (heard' = "yes" /\ clean'))
                THEN air.unit ELSE arrived
  /\ Broadcast

\* As many as SeqModulus packets lost in a row would go unnoticed.
Lose ==
  /\ air # None
  /\ lostRow < SeqModulus - 1
  /\ lostRow' = lostRow + 1
  /\ heard' = "no"
  /\ Broadcast
  /\ UNCHANGED <<lastSeq, rx, pending, output, clean, arrived>>

\* rx is new, or gone.
Renewed ==
  /\ clean' = TRUE /\ heard' = "no"
  /\ UNCHANGED <<air, seq, lostRow, output, arrived>>

\* processMmtPackageTable: the asset enters, or leaves, the package.
Register   == rx = None /\ rx' = NewReceiver /\ Renewed /\ UNCHANGED <<lastSeq, pending>>
Unregister == rx # None /\ rx' = None /\ Renewed /\ UNCHANGED <<lastSeq, pending>>

\* resetStreams(): the position in the recording has changed.
ResetStreams == rx # None /\ rx' = NewReceiver /\ Renewed /\ UNCHANGED <<lastSeq, pending>>

\* clear() of the demultiplexer and of its handler: all is forgotten.
Clear == rx' = None /\ lastSeq' = None /\ pending' = None /\ Renewed

Next ==
  /\ \/ \E fate \in Fates \ {"lost"} : Receive(fate)
     \/ "lost" \in Fates /\ Lose
     \/ Seam \/ Register \/ Unregister \/ ResetStreams \/ Clear
  /\ UNCHANGED kind

Spec == Init /\ [][Next]_vars

-----------------------------------------------------------------------------
(* Safety.                                                                 *)

Delivered == IF output = None THEN 0 ELSE output.data[1].unit

\* Only whole units are passed on ("never send partial LOAS frames",
\* mpuAudioProcessor.cpp:34-35).
WholeUnits == output # None => IsWholeUnit(output.data)

\* Only whole units are passed on, whatever is lost and wherever the stream is
\* cut, unless packets could not be decrypted or parsed and nothing has been
\* cleared since.
UndamagedWholeUnits == output # None /\ output.clean => IsWholeUnit(output.data)

\* What has arrived is passed on: a unit all of whose packets were received,
\* with its timestamp, by a registered stream is not withheld; if it is the
\* first of a new MPU, whatever became of the MPU before ("Incomplete
\* fragments must not poison a new MPU", mmtTlvDemuxer.cpp:1035).
ArrivedUnitDelivered == Delivered >= arrived

SentNumber == IF air = None THEN MaxUnits ELSE air.unit
WholeDelivered == IF UndamagedWholeUnits THEN Delivered ELSE 0
Channel ==
  INSTANCE UnitChannel WITH sent <- SentNumber, delivered <- WholeDelivered

\* Units are passed on whole (see UndamagedWholeUnits), in the order they were
\* sent, each once.
ImplementsChannel == Channel!Spec

=============================================================================
