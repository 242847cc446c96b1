---------------------------- MODULE DemuxerProofs ----------------------------
(***************************************************************************)
(* Proofs about the MMT/TLV demultiplexer: units and signalling messages   *)
(* that arrive whole are passed on, once and in order, and their access    *)
(* units get the times that were announced for them.  The parts share no   *)
(* state; a variable with the same name in two of them stands for either.  *)
(***************************************************************************)
EXTENDS StreamTiming, FiniteSetTheorems, WellFoundedInduction, TLAPS

CONSTANTS
  Fates, TimeKnown, MaxUnits, MaxMpus,  \* of the reassembly of units
  MessageFates, Sound, MaxMessages,     \* of that of signalling messages
  MaxParts, SeqModulus                  \* of both

VARIABLES
  kind, lastSeq, rx, pending, clean,    \* of units
  asm, processed, fresh,                \* of signalling messages
  seq, lostRow, output, heard, arrived  \* of both

Streams == INSTANCE MfuReassembly
Messages == INSTANCE SignallingReassembly WITH Fates <- MessageFates

-----------------------------------------------------------------------------
(* The reassembly of units.                                                *)


\* What the stream has gathered of a unit, None for nothing.
Held ==
  IF kind = "item" THEN pending
  ELSE IF rx = None \/ rx.data = <<>> THEN None ELSE rx.data

\* Beyond the types: who keeps data, and that it is not empty.
Kept ==
  /\ rx # None /\ rx.lastMpu = None => rx.state # "InFragment"
  /\ kind = "item" /\ rx # None => rx.data = <<>> /\ ~rx.timed
  /\ kind # "item" => pending = None
  /\ pending # None => pending # <<>>
  /\ output # None => output.data # <<>>

\* What is on air, and what has been gathered, comes after what was passed on.
UnitsAhead ==
  /\ air # None => Streams!Delivered < air.unit
  /\ Held # None => Held[1].unit > Streams!Delivered /\ Held[1].unit <= Streams!SentNumber
  /\ Streams!Delivered <= MaxUnits

\* A stream that has the MPU on air has missed no packet but those lost in a row.
UnitsInStep ==
  rx # None /\ rx.lastMpu # None =>
    /\ lastSeq # None
    /\ air # None /\ air.mpu = rx.lastMpu =>
         seq = (lastSeq + 1 + lostRow) % SeqModulus

\* Data is what was sent of a unit before the part p.
UnitGathered(data, p) ==
  /\ data # None /\ Len(data) = p.part - 1
  /\ \A i \in DOMAIN data : /\ data[i].unit = p.unit /\ data[i].part = i
                            /\ data[i].of = p.of /\ data[i].mpu = p.mpu

\* An undamaged stream in mid-unit has all of it so far.
CleanFragment ==
  /\ clean /\ rx # None /\ rx.state = "InFragment"
  /\ air # None /\ air.mpu = rx.lastMpu /\ lostRow = 0
  => UnitGathered(Held, air)

\* A stream that has heard a unit so far is in mid-unit, and if the unit began an
\* MPU, has all of it so far.
UnitHeardSoFar ==
  heard # "no" /\ air # None /\ air.part > 1 =>
    /\ rx # None /\ rx.state = "InFragment" /\ rx.lastMpu = air.mpu /\ lostRow = 0
    /\ heard = "first" => UnitGathered(Held, air)

UnitsInv ==
  /\ Streams!TypeOK
  /\ Kept
  /\ UnitsAhead
  /\ UnitsInStep
  /\ CleanFragment
  /\ UnitHeardSoFar
  /\ Streams!UndamagedWholeUnits
  /\ Streams!ArrivedUnitDelivered

-----------------------------------------------------------------------------
(* What becomes of a packet.                                               *)

\* A receiver as every packet finds it.
Receiving(r) ==
  /\ r \in Streams!Receivers
  /\ r.state # "InFragment" => r.data = <<>> /\ ~r.timed
  /\ kind = "item" => r.data = <<>> /\ ~r.timed

\* What is gathered already of the unit that a part belongs to.
Before(r, p) ==
  IF Streams!Begins(Streams!Indicator(p)) THEN <<>>
  ELSE IF kind # "item" THEN r.data
  ELSE IF pending = None \/ pending[1].mpu # p.mpu THEN None ELSE pending

\* A part that was not accepted, or for which there was no timestamp; a part that
\* continues no item; one that is put to the unit, and one that ends it.
Refused(r, p, res) ==
  /\ ~Streams!Accepts(r.state, Streams!Indicator(p))
  /\ res.rx = r /\ res.pending = pending /\ res.out = None

Dropped(r, p, res) ==
  /\ kind = "audio" /\ ~res.timed /\ res.pending = pending /\ res.out = None
  /\ res.rx.state = "NotStarted" /\ res.rx.data = <<>>

Stray(r, p, res) ==
  /\ Streams!Accepts(r.state, Streams!Indicator(p))
  /\ kind = "item" /\ Before(r, p) = None /\ res.pending = None /\ res.out = None
  /\ res.rx.state = Streams!StateAfter(Streams!Indicator(p)) /\ res.rx.data = <<>>

UnitAdded(r, p, res) ==
  /\ Streams!Accepts(r.state, Streams!Indicator(p)) /\ ~Streams!Ends(Streams!Indicator(p)) /\ Before(r, p) # None
  /\ res.out = None /\ res.rx.state = "InFragment"
  /\ IF kind = "item"
     THEN res.rx.data = <<>> /\ res.pending = Append(Before(r, p), p)
     ELSE res.pending = pending /\ res.rx.data = Append(Before(r, p), p)

UnitEnded(r, p, res) ==
  /\ Streams!Accepts(r.state, Streams!Indicator(p)) /\ Streams!Ends(Streams!Indicator(p)) /\ Before(r, p) # None
  /\ res.rx.state = "NotStarted" /\ res.rx.data = <<>>
  /\ res.pending = IF kind = "item" THEN None ELSE pending
  /\ \/ /\ res.out = None /\ ~Streams!IsWholeUnit(Append(Before(r, p), p))
     \/ res.out \in Streams!Results /\ res.out.data = Append(Before(r, p), p)

Outcome(r, p, res) ==
  /\ Receiving(res.rx)
  /\ res.rx.lastMpu = r.lastMpu
  /\ \/ Refused(r, p, res)
     \/ Dropped(r, p, res)
     \/ Stray(r, p, res)
     \/ UnitAdded(r, p, res)
     \/ UnitEnded(r, p, res)

LEMMA AppendUnitParts ==
  ASSUME NEW d \in Seq(Streams!Parts), NEW p \in Streams!Parts
  PROVE  /\ Append(d, p) \in Seq(Streams!Parts)
         /\ Len(Append(d, p)) = Len(d) + 1
         /\ Append(d, p) # <<>>
         /\ \A i \in 1..Len(d) : Append(d, p)[i] = d[i]
         /\ Append(d, p)[Len(d) + 1] = p
         /\ DOMAIN Append(d, p) = 1..(Len(d) + 1)
  OBVIOUS

\* The end of a unit leaves nothing.
LEMMA EndingResults ==
  ASSUME Streams!ReassemblyAssumption, NEW r \in Streams!Receivers, NEW res \in Streams!Ending(r)
  PROVE  /\ res.rx = Streams!Cleared(r) /\ res.pending = pending
         /\ \/ res.out = None /\ ~Streams!IsWholeUnit(r.data)
            \/ res.out \in Streams!Results /\ res.out.data = r.data
<1>1. PICK ok \in Streams!LongEnough(r.data) :
        res = IF ok THEN Streams!Passed(Streams!Cleared(r), r.data) ELSE Streams!Nothing(Streams!Cleared(r))
  BY DEF Streams!Ending
<1>2. ok \in BOOLEAN /\ (Streams!IsWholeUnit(r.data) => ok)
  BY <1>1 DEF Streams!LongEnough
<1>3. PICK c : c = Streams!Cleared(r)
  OBVIOUS
<1>4. c.auIndex \in Nat
  BY <1>3 DEF Streams!Cleared, Streams!Receivers
<1>5. CASE ok
  <2>1. res = [rx |-> c, out |-> [data |-> r.data, au |-> c.auIndex], timed |-> TRUE,
               pending |-> pending]
    BY <1>1, <1>3, <1>5 DEF Streams!Passed, Streams!Nothing
  <2>2. r.data \in Seq(Streams!Parts)
    BY DEF Streams!Receivers
  <2> QED
    BY <1>3, <1>4, <2>1, <2>2 DEF Streams!Results
<1>6. CASE ~ok
  BY <1>1, <1>2, <1>6 DEF Streams!Nothing
<1> QED
  BY <1>2, <1>5, <1>6

LEMMA ClearedIs ==
  ASSUME NEW r \in Streams!Receivers
  PROVE  /\ Streams!Cleared(r) \in Streams!Receivers
         /\ Streams!Cleared(r).state = "NotStarted" /\ Streams!Cleared(r).data = <<>> /\ ~Streams!Cleared(r).timed
         /\ Streams!Cleared(r).lastMpu = r.lastMpu
<1>1. PICK c : c = [r EXCEPT !.state = "NotStarted", !.data = <<>>, !.timed = FALSE]
  OBVIOUS
<1>2. <<>> \in Seq(Streams!Parts) /\ "NotStarted" \in Streams!States
  BY DEF Streams!States
<1>3. c \in Streams!Receivers /\ c.state = "NotStarted" /\ c.data = <<>> /\ ~c.timed /\ c.lastMpu = r.lastMpu
  BY <1>1, <1>2 DEF Streams!Receivers
<1>4. Streams!Cleared(r) = c
  BY <1>1 DEF Streams!Cleared
<1> QED
  BY <1>3, <1>4

\* The parts that a fragment's state accepts.
LEMMA UnitFragmentStates ==
  ASSUME NEW p \in Streams!Parts
  PROVE  /\ Streams!StateAfter(Streams!Indicator(p)) \in Streams!States
         /\ Streams!Ends(Streams!Indicator(p)) <=> p.part = p.of
         /\ Streams!Begins(Streams!Indicator(p)) <=> p.part = 1
         /\ Streams!StateAfter(Streams!Indicator(p)) = IF p.part = p.of THEN "NotStarted" ELSE "InFragment"
  BY DEF Streams!StateAfter, Streams!States, Streams!Ends, Streams!Begins, Streams!Indicator, Streams!Parts

LEMMA AddedOrEnded ==
  ASSUME Streams!ReassemblyAssumption, kind # "item", NEW p \in Streams!Parts, NEW r, Receiving(r),
         Streams!Accepts(r.state, Streams!Indicator(p)),
         NEW b \in Streams!Receivers, b.lastMpu = r.lastMpu, b.data = Before(r, p),
         NEW m, m = [b EXCEPT !.data = Append(@, p), !.state = Streams!StateAfter(Streams!Indicator(p))],
         NEW res \in IF Streams!Ends(Streams!Indicator(p)) THEN Streams!Ending(m) ELSE {Streams!Nothing(m)}
  PROVE  Outcome(r, p, res)
<1>1. PICK d \in Seq(Streams!Parts) : d = b.data
  BY DEF Streams!Receivers
<1>2. PICK e \in Seq(Streams!Parts) : e = Append(d, p)
  BY <1>1, AppendUnitParts
<1>3. /\ m \in Streams!Receivers /\ m.data = e /\ m.lastMpu = r.lastMpu /\ m.timed = b.timed
      /\ m.state = Streams!StateAfter(Streams!Indicator(p))
  BY <1>1, <1>2, UnitFragmentStates DEF Streams!Receivers
<1>4. d # None /\ d = Before(r, p)
  BY <1>1 DEF Streams!ReassemblyAssumption
<1>5. CASE Streams!Ends(Streams!Indicator(p))
  <2>1. /\ res.rx = Streams!Cleared(m) /\ res.pending = pending
        /\ \/ res.out = None /\ ~Streams!IsWholeUnit(e)
           \/ res.out \in Streams!Results /\ res.out.data = e
    BY <1>3, <1>5, EndingResults
  <2>2. Receiving(res.rx) /\ res.rx.lastMpu = r.lastMpu /\ res.rx.state = "NotStarted"
        /\ res.rx.data = <<>>
    BY <1>3, <2>1, ClearedIs DEF Receiving
  <2> QED
    BY <1>2, <1>4, <1>5, <2>1, <2>2 DEF Outcome, UnitEnded
<1>6. CASE ~Streams!Ends(Streams!Indicator(p))
  <2>1. res.rx = m /\ res.pending = pending /\ res.out = None
    BY <1>6 DEF Streams!Nothing
  <2>2. m.state = "InFragment"
    BY <1>3, <1>6 DEF Streams!StateAfter
  <2>3. Receiving(m)
    BY <1>3, <2>2 DEF Receiving
  <2> QED
    BY <1>2, <1>3, <1>4, <1>6, <2>1, <2>2, <2>3 DEF Outcome, UnitAdded
<1> QED
  BY <1>5, <1>6

LEMMA AudioOutcome ==
  ASSUME Streams!ReassemblyAssumption, kind = "audio", NEW p \in Streams!Parts, NEW r, Receiving(r),
         NEW res \in Streams!Audio(r, p, Streams!Indicator(p))
  PROVE  Outcome(r, p, res)
<1>1. CASE ~Streams!Accepts(r.state, Streams!Indicator(p))
  BY <1>1 DEF Streams!Audio, Streams!Nothing, Outcome, Refused
<1>2. CASE Streams!Accepts(r.state, Streams!Indicator(p))
  <2> DEFINE begun == {IF ~Streams!Begins(Streams!Indicator(p)) THEN r
                       ELSE [r EXCEPT !.data = <<>>, !.timed = known,
                                      !.auIndex = IF known THEN @ + 1 ELSE @] :
                         known \in TimeKnown}
             more(b) == [b EXCEPT !.data = Append(@, p), !.state = Streams!StateAfter(Streams!Indicator(p))]
  <2>1. PICK b \in begun :
          res \in IF ~b.timed THEN {Streams!Untimed(Streams!Cleared(b))}
                  ELSE IF Streams!Ends(Streams!Indicator(p)) THEN Streams!Ending(more(b)) ELSE {Streams!Nothing(more(b))}
    BY <1>2, Zenon DEF Streams!Audio
  <2> HIDE DEF begun, more
  <2>2. /\ b \in Streams!Receivers /\ b.lastMpu = r.lastMpu
        /\ Streams!Begins(Streams!Indicator(p)) => b.data = <<>>
        /\ ~Streams!Begins(Streams!Indicator(p)) => b.data = r.data
    <3>1. PICK known \in TimeKnown :
            b = IF ~Streams!Begins(Streams!Indicator(p)) THEN r
                ELSE [r EXCEPT !.data = <<>>, !.timed = known,
                               !.auIndex = IF known THEN @ + 1 ELSE @]
      BY <2>1, Zenon DEF begun
    <3> known \in BOOLEAN
      BY DEF Streams!ReassemblyAssumption
    <3>2. r \in Streams!Receivers /\ <<>> \in Seq(Streams!Parts)
      BY DEF Receiving
    <3>3. CASE ~Streams!Begins(Streams!Indicator(p))
      BY <3>1, <3>2, <3>3
    <3>4. CASE Streams!Begins(Streams!Indicator(p))
      <4>0. r.auIndex \in Nat /\ r.auIndex + 1 \in Nat
        BY <3>2 DEF Streams!Receivers
      <4>1. PICK n \in Nat : n = IF known THEN r.auIndex + 1 ELSE r.auIndex
        BY <4>0, Zenon
      <4>2. b = [r EXCEPT !.data = <<>>, !.timed = known, !.auIndex = n]
        BY <3>1, <3>4, <4>1
      <4> QED
        BY <3>2, <3>4, <4>2 DEF Streams!Receivers
    <3> QED
      BY <3>3, <3>4
  <2>3. b.data = Before(r, p)
    BY <2>2 DEF Before
  <2>4. CASE ~b.timed
    <3>1. res = Streams!Untimed(Streams!Cleared(b))
      BY <2>1, <2>4
    <3>2. res.rx = Streams!Cleared(b) /\ ~res.timed /\ res.pending = pending /\ res.out = None
      BY <3>1 DEF Streams!Untimed, Streams!Nothing
    <3> QED
      BY <2>2, <3>2, ClearedIs DEF Outcome, Dropped, Receiving
  <2>5. CASE b.timed
    <3>1. PICK m : m = more(b)
      OBVIOUS
    <3>2. res \in IF Streams!Ends(Streams!Indicator(p)) THEN Streams!Ending(m) ELSE {Streams!Nothing(m)}
      BY <2>1, <2>5, <3>1
    <3>3. m = [b EXCEPT !.data = Append(@, p), !.state = Streams!StateAfter(Streams!Indicator(p))]
      BY <3>1 DEF more
    <3>4. kind # "item"
      OBVIOUS
    <3> QED
      BY <1>2, <2>2, <2>3, <3>2, <3>3, <3>4, AddedOrEnded
  <2> QED
    BY <2>4, <2>5
<1> QED
  BY <1>1, <1>2

LEMMA SubtitleOutcome ==
  ASSUME Streams!ReassemblyAssumption, kind = "subtitle", NEW p \in Streams!Parts, NEW r, Receiving(r),
         NEW res \in Streams!Subtitle(r, p, Streams!Indicator(p))
  PROVE  Outcome(r, p, res)
<1>1. CASE ~Streams!Accepts(r.state, Streams!Indicator(p))
  BY <1>1 DEF Streams!Subtitle, Streams!Nothing, Outcome, Refused
<1>2. CASE Streams!Accepts(r.state, Streams!Indicator(p))
  <2>1. PICK m : m = [r EXCEPT !.data = Append(@, p), !.state = Streams!StateAfter(Streams!Indicator(p))]
    OBVIOUS
  <2>2. res \in IF Streams!Ends(Streams!Indicator(p)) THEN Streams!Ending(m) ELSE {Streams!Nothing(m)}
    BY <1>2, <2>1 DEF Streams!Subtitle
  <2>3. r \in Streams!Receivers /\ r.data = Before(r, p)
    BY <1>2 DEF Receiving, Before, Streams!Accepts
  <2> QED
    BY <1>2, <2>1, <2>2, <2>3, AddedOrEnded
<1> QED
  BY <1>1, <1>2

LEMMA ItemOutcome ==
  ASSUME Streams!ReassemblyAssumption, kind = "item", NEW p \in Streams!Parts, NEW r, Receiving(r),
         pending \in Seq(Streams!Parts) \cup {None},
         NEW res \in Streams!Item(r, p, Streams!Indicator(p))
  PROVE  Outcome(r, p, res) /\ res.timed
<1>1. CASE ~Streams!Accepts(r.state, Streams!Indicator(p))
  BY <1>1 DEF Streams!Item, Streams!Nothing, Outcome, Refused
<1>2. CASE Streams!Accepts(r.state, Streams!Indicator(p))
  <2>1. PICK s : s = [r EXCEPT !.state = Streams!StateAfter(Streams!Indicator(p))]
    OBVIOUS
  <2>2. Receiving(s) /\ s.lastMpu = r.lastMpu /\ s.state = Streams!StateAfter(Streams!Indicator(p)) /\ s.data = <<>>
    BY <2>1, UnitFragmentStates DEF Receiving, Streams!Receivers
  <2>3. res = Streams!Push(s, p, Streams!Indicator(p))
    BY <1>2, <2>1 DEF Streams!Item
  <2>4. PICK k : k = IF Streams!Begins(Streams!Indicator(p)) THEN <<p>>
                     ELSE IF pending = None \/ pending[1].mpu # p.mpu THEN None
                     ELSE Append(pending, p)
    OBVIOUS
  <2>5. /\ res.rx = s
        /\ res.timed
        /\ res.pending = IF k = None \/ Streams!Ends(Streams!Indicator(p)) THEN None ELSE k
        /\ res.out = IF (k = None \/ Streams!Ends(Streams!Indicator(p))) /\ k # None
                     THEN [data |-> k, au |-> 0] ELSE None
    BY <2>3, <2>4 DEF Streams!Push, Streams!Nothing
  <2>6. <<>> # None /\ <<>> \in Seq(Streams!Parts) /\ Append(<<>>, p) = <<p>>
    <3>1. <<>> \in Seq(Streams!Parts)
      OBVIOUS
    <3>2. Append(<<>>, p) = <<p>>
      OBVIOUS
    <3> QED
      BY <3>1, <3>2 DEF Streams!ReassemblyAssumption
  <2>7. /\ Before(r, p) = None => k = None
        /\ Before(r, p) # None => Before(r, p) \in Seq(Streams!Parts) /\ k = Append(Before(r, p), p)
    <3>1. CASE Streams!Begins(Streams!Indicator(p))
      <4>1. k = <<p>> /\ Before(r, p) = <<>>
        BY <2>4, <3>1 DEF Before
      <4> QED
        BY <2>6, <4>1
    <3>2. CASE ~Streams!Begins(Streams!Indicator(p)) /\ (pending = None \/ pending[1].mpu # p.mpu)
      BY <2>4, <3>2 DEF Before
    <3>3. CASE ~Streams!Begins(Streams!Indicator(p)) /\ ~(pending = None \/ pending[1].mpu # p.mpu)
      BY <2>4, <3>3 DEF Before
    <3> QED
      BY <3>1, <3>2, <3>3
  <2>8. CASE Before(r, p) = None
    BY <1>2, <2>2, <2>5, <2>7, <2>8 DEF Outcome, Stray
  <2>9. CASE Before(r, p) # None
    <3>1. k \in Seq(Streams!Parts) /\ k # None
      BY <2>7, <2>9, AppendUnitParts DEF Streams!ReassemblyAssumption
    <3>2. CASE Streams!Ends(Streams!Indicator(p))
      <4>1. res.out = [data |-> k, au |-> 0] /\ res.pending = None
        BY <2>5, <3>1, <3>2
      <4>2. res.out \in Streams!Results /\ res.out.data = k
        BY <3>1, <4>1 DEF Streams!Results
      <4> QED
        BY <1>2, <2>2, <2>5, <2>7, <2>9, <3>2, <4>1, <4>2 DEF Outcome, UnitEnded, Streams!StateAfter
    <3>3. CASE ~Streams!Ends(Streams!Indicator(p))
      BY <1>2, <2>2, <2>5, <2>7, <2>9, <3>1, <3>3 DEF Outcome, UnitAdded, Streams!StateAfter
    <3> QED
      BY <3>2, <3>3
  <2> QED
    BY <2>8, <2>9
<1> QED
  BY <1>1, <1>2
-----------------------------------------------------------------------------
(* The steps.                                                              *)

\* A sequence number that is expected after losses is so after none only.
LEMMA UnitSequenceNumbers ==
  ASSUME NEW M \in Nat \ {0}, NEW a \in 0..(M - 1), NEW k \in 0..(M - 1)
  PROVE  /\ (a + 1 + k) % M = (a + 1) % M => k = 0
         /\ (((a + 1 + k) % M) + 1) % M = (a + 1 + (k + 1)) % M
         /\ (a + 1) % M \in 0..(M - 1) /\ (a + 1 + k) % M \in 0..(M - 1)
<1>1. (a + 1 + k) % M = (a + 1) % M => k = 0
  OBVIOUS
<1>2. (((a + 1 + k) % M) + 1) % M = (a + 1 + (k + 1)) % M
  OBVIOUS
<1>3. (a + 1) % M \in 0..(M - 1) /\ (a + 1 + k) % M \in 0..(M - 1)
  OBVIOUS
<1> QED
  BY <1>1, <1>2, <1>3

\* What comes on air after a part.
LEMMA NextUnitOnAir ==
  ASSUME Streams!ReassemblyAssumption, Streams!TypeOK, air # None, Streams!Broadcast
  PROVE  /\ air \in Streams!Parts
         /\ air' = None <=> air.unit = MaxUnits /\ air.part = air.of
         /\ air' # None =>
              /\ air' \in Streams!Parts
              /\ air.part < air.of =>
                   /\ air'.mpu = air.mpu /\ air'.unit = air.unit
                   /\ air'.part = air.part + 1 /\ air'.of = air.of
              /\ air.part = air.of => air'.part = 1 /\ air'.unit = air.unit + 1
              /\ air'.mpu # air.mpu => rx = None \/ air'.mpu # rx.lastMpu
         /\ seq' \in 0..(SeqModulus - 1)
<1>1. air \in Streams!Parts /\ air.part <= air.of
  BY DEF Streams!TypeOK, Streams!Parts
<1>2. /\ air.mpu \in 1..MaxMpus /\ air.index \in Nat /\ air.unit \in 1..MaxUnits
      /\ air.part \in 1..MaxParts /\ air.of \in 1..MaxParts
      /\ MaxUnits \in Nat /\ MaxParts \in Nat /\ MaxMpus \in Nat /\ SeqModulus \in Nat \ {0}
      /\ None \notin Streams!Parts
  BY <1>1 DEF Streams!Parts, Streams!ReassemblyAssumption
<1>3. seq' \in 0..(SeqModulus - 1)
  <2>1. seq' = (seq + 1) % SeqModulus /\ seq \in 0..(SeqModulus - 1)
    BY DEF Streams!Broadcast, Streams!TypeOK
  <2>2. 0 \in 0..(SeqModulus - 1)
    BY <1>2
  <2>3. (seq + 1) % SeqModulus \in 0..(SeqModulus - 1)
    BY <1>2, <2>1, <2>2, UnitSequenceNumbers
  <2> QED
    BY <2>1, <2>3, Zenon
<1>4. CASE air.unit = MaxUnits /\ air.part = air.of
  BY <1>1, <1>2, <1>3, <1>4 DEF Streams!Broadcast, Streams!OnAir
<1>5. CASE air.part < air.of
  <2>1. air' = [air EXCEPT !.part = @ + 1]
    BY <1>2, <1>5 DEF Streams!Broadcast, Streams!OnAir, Streams!Following
  <2>2. PICK n \in 1..MaxParts : n = air.part + 1
    BY <1>2, <1>5
  <2>3. air' = [air EXCEPT !.part = n] /\ n <= air.of
    BY <1>2, <1>5, <2>1, <2>2
  <2>4. air' \in Streams!Parts /\ air'.mpu = air.mpu /\ air'.unit = air.unit /\ air'.part = n
        /\ air'.of = air.of
    BY <1>1, <2>3 DEF Streams!Parts
  <2> QED
    BY <1>1, <1>2, <1>3, <1>5, <2>2, <2>4
<1>6. CASE air.part = air.of /\ air.unit # MaxUnits
  <2>1. PICK m \in {air.mpu} \cup Streams!NextMpus, n \in 1..MaxParts :
          air' = [mpu |-> m, index |-> IF m = air.mpu THEN air.index + 1 ELSE 0,
                  unit |-> air.unit + 1, part |-> 1, of |-> n]
    BY <1>2, <1>6 DEF Streams!Broadcast, Streams!OnAir, Streams!Following
  <2>2. m \in 1..MaxMpus /\ (m # air.mpu => rx = None \/ m # rx.lastMpu)
    BY <1>2 DEF Streams!NextMpus
  <2>3. PICK i \in Nat : i = IF m = air.mpu THEN air.index + 1 ELSE 0
    BY <1>2
  <2>4. PICK u \in 1..MaxUnits : u = air.unit + 1
    BY <1>2, <1>6
  <2>5. air' = [mpu |-> m, index |-> i, unit |-> u, part |-> 1, of |-> n]
    BY <2>1, <2>3, <2>4
  <2>6. air' \in Streams!Parts /\ air'.mpu = m /\ air'.unit = u /\ air'.part = 1
    BY <1>2, <2>2, <2>5 DEF Streams!Parts
  <2> QED
    BY <1>1, <1>2, <1>3, <1>6, <2>2, <2>4, <2>6
<1> QED
  BY <1>1, <1>2, <1>4, <1>5, <1>6

\* What is held is a non-empty sequence of parts.
LEMMA HeldTyped ==
  ASSUME Streams!ReassemblyAssumption, Streams!TypeOK, Kept, Held # None
  PROVE  Held \in Seq(Streams!Parts) /\ Held # <<>> /\ Len(Held) \in Nat \ {0} /\ Held[1] \in Streams!Parts
<1>1. Held \in Seq(Streams!Parts) /\ Held # <<>>
  <2>1. CASE kind = "item"
    BY <2>1 DEF Held, Streams!TypeOK, Kept
  <2>2. CASE kind # "item"
    BY <2>2 DEF Held, Streams!TypeOK, Streams!Receivers
  <2> QED
    BY <2>1, <2>2
<1> QED
  BY <1>1

\* A gap, or another MPU, clears the stream; otherwise it stays as it was.
LEMMA BeforeThePart ==
  ASSUME Streams!ReassemblyAssumption, UnitsInv, rx # None, air # None,
         NEW r, r = Streams!AfterMpu(Streams!AfterGap(rx), air)
  PROVE  /\ Receiving(r) /\ r.lastMpu = air.mpu
         /\ \/ r.state = "NotStarted" /\ r.data = <<>>
            \/ /\ ~Streams!IsGap(seq) /\ rx.lastMpu \in {None, air.mpu}
               /\ r.state = rx.state /\ r.data = rx.data
         /\ ~Streams!IsGap(seq) /\ rx.lastMpu = air.mpu => r.state = rx.state /\ r.data = rx.data
         /\ Streams!IsGap(seq) \/ rx.lastMpu # air.mpu => r.state # "InFragment"
<1>1. rx \in Streams!Receivers /\ air \in Streams!Parts /\ air.mpu \in 1..MaxMpus
      /\ (rx.state # "InFragment" => rx.data = <<>> /\ ~rx.timed)
      /\ (rx.lastMpu = None => rx.state # "InFragment")
      /\ (kind = "item" => rx.data = <<>> /\ ~rx.timed)
      /\ None \notin 1..MaxMpus
  BY DEF UnitsInv, Streams!TypeOK, Kept, Streams!Parts, Streams!ReassemblyAssumption
<1>2. PICK g : g = Streams!AfterGap(rx)
  OBVIOUS
<1>3. /\ g \in Streams!Receivers /\ g.lastMpu = rx.lastMpu
      /\ Streams!IsGap(seq) => g.state = "NotStarted" /\ g.data = <<>> /\ ~g.timed
      /\ ~Streams!IsGap(seq) => g = rx
  BY <1>1, <1>2, ClearedIs DEF Streams!AfterGap
<1>4. CASE rx.lastMpu \in {None, air.mpu}
  <2>1. r = [g EXCEPT !.lastMpu = air.mpu]
    BY <1>2, <1>3, <1>4 DEF Streams!AfterMpu
  <2>2. r \in Streams!Receivers /\ r.lastMpu = air.mpu /\ r.state = g.state /\ r.data = g.data
        /\ r.timed = g.timed
    BY <1>1, <1>3, <2>1 DEF Streams!Receivers
  <2> QED
    BY <1>1, <1>3, <1>4, <2>2 DEF Receiving
<1>5. CASE rx.lastMpu \notin {None, air.mpu}
  <2>1. PICK c : c = Streams!Cleared(g)
    OBVIOUS
  <2>2. r = [c EXCEPT !.lastMpu = air.mpu, !.auIndex = 0]
    BY <1>2, <1>3, <1>5, <2>1 DEF Streams!AfterMpu
  <2>3. c \in Streams!Receivers /\ c.state = "NotStarted" /\ c.data = <<>> /\ ~c.timed
    BY <1>3, <2>1, ClearedIs
  <2>4. r \in Streams!Receivers /\ r.lastMpu = air.mpu /\ r.state = "NotStarted" /\ r.data = <<>> /\ ~r.timed
    <3>1. PICK m \in 1..MaxMpus : m = air.mpu
      BY <1>1
    <3>2. PICK q : q = [c EXCEPT !.lastMpu = m, !.auIndex = 0]
      OBVIOUS
    <3>3. q \in Streams!Receivers /\ q.lastMpu = m /\ q.state = c.state /\ q.data = c.data /\ q.timed = c.timed
      BY <2>3, <3>2 DEF Streams!Receivers
    <3>4. q = r
      BY <2>2, <3>1, <3>2
    <3> QED
      BY <2>3, <3>1, <3>3, <3>4
  <2> QED
    BY <1>1, <1>5, <2>4 DEF Receiving
<1> QED
  BY <1>4, <1>5

\* What was gathered before the part is what is held, or nothing.
LEMMA BeforeIsHeld ==
  ASSUME Streams!ReassemblyAssumption, UnitsInv, rx # None, air # None,
         NEW r, r = Streams!AfterMpu(Streams!AfterGap(rx), air)
  PROVE  /\ Before(r, air) # None =>
              /\ Before(r, air) \in Seq(Streams!Parts)
              /\ Before(r, air) # <<>> => Held # None /\ Before(r, air) = Held
         /\ /\ Held # None /\ ~Streams!Begins(Streams!Indicator(air)) /\ Held[1].mpu = air.mpu
            /\ ~Streams!IsGap(seq) /\ rx.lastMpu = air.mpu
            => Before(r, air) = Held
<1>1. /\ Receiving(r)
      /\ r.data = <<>> \/ r.data = rx.data
      /\ ~Streams!IsGap(seq) /\ rx.lastMpu = air.mpu => r.data = rx.data
  BY BeforeThePart
<1>2. r.data \in Seq(Streams!Parts) /\ <<>> \in Seq(Streams!Parts) /\ None \notin Seq(Streams!Parts)
  BY <1>1 DEF Receiving, Streams!Receivers, Streams!ReassemblyAssumption
<1>3. pending \in Seq(Streams!Parts) \cup {None}
  BY DEF UnitsInv, Streams!TypeOK
<1>4. CASE kind = "item"
  <2>1. Held = pending
    BY <1>4 DEF Held
  <2> QED
    BY <1>2, <1>3, <1>4, <2>1 DEF Before
<1>5. CASE kind # "item"
  <2>1. Held = IF rx.data = <<>> THEN None ELSE rx.data
    BY <1>5 DEF Held
  <2> QED
    BY <1>1, <1>2, <1>5, <2>1 DEF Before
<1> QED
  BY <1>4, <1>5

\* An intact part is accepted if it has been heard from the unit's beginning; and
\* what is gathered before it, is all of the unit so far.
LEMMA SoFar ==
  ASSUME Streams!ReassemblyAssumption, UnitsInv, rx # None, air # None,
         NEW r, r = Streams!AfterMpu(Streams!AfterGap(rx), air),
         NEW c \in BOOLEAN, c <=> Streams!Clean("intact"),
         NEW h, h = IF air.part > 1 THEN heard ELSE IF Streams!NewMpu THEN "first" ELSE "yes"
  PROVE  /\ (c \/ h = "first") /\ Streams!Accepts(r.state, Streams!Indicator(air)) =>
              UnitGathered(Before(r, air), air)
         /\ h = "first" \/ (h = "yes" /\ c) => Streams!Accepts(r.state, Streams!Indicator(air))
         /\ h # "no" /\ air.part > 1 => r.state = "InFragment" /\ ~Streams!IsGap(seq) /\ rx.lastMpu = air.mpu
         /\ c /\ r.state = "InFragment" => Streams!Accepts(r.state, Streams!Indicator(air))
<1>1. /\ air \in Streams!Parts /\ air.part \in Nat \ {0} /\ air.mpu \in Nat /\ None \notin Nat
      /\ seq \in 0..(SeqModulus - 1) /\ lostRow \in 0..(SeqModulus - 1)
      /\ lastSeq \in 0..(SeqModulus - 1) \cup {None} /\ SeqModulus \in Nat \ {0}
      /\ heard \in {"no", "yes", "first"}
  BY DEF UnitsInv, Streams!TypeOK, Streams!Parts, Streams!ReassemblyAssumption
<1>2. Streams!Begins(Streams!Indicator(air)) <=> air.part = 1
  BY <1>1, UnitFragmentStates
<1>3. Streams!Accepts(r.state, Streams!Indicator(air)) <=> (air.part = 1 <=> r.state # "InFragment")
  BY <1>2 DEF Streams!Accepts
<1>4. ASSUME ~Streams!IsGap(seq), rx.lastMpu = air.mpu
      PROVE  lostRow = 0
  <2>1. lastSeq # None /\ seq = (lastSeq + 1 + lostRow) % SeqModulus
    BY <1>1, <1>4 DEF UnitsInv, UnitsInStep
  <2>2. seq = (lastSeq + 1) % SeqModulus
    BY <1>4, <2>1 DEF Streams!IsGap
  <2>3. lastSeq \in 0..(SeqModulus - 1)
    BY <1>1, <2>1
  <2>4. (lastSeq + 1 + lostRow) % SeqModulus = (lastSeq + 1) % SeqModulus
    BY <2>1, <2>2
  <2> QED
    BY <1>1, <2>3, <2>4, UnitSequenceNumbers, Zenon
<1>5. ASSUME lostRow = 0, rx.lastMpu = air.mpu
      PROVE  ~Streams!IsGap(seq)
  <2>1. lastSeq # None /\ seq = (lastSeq + 1 + lostRow) % SeqModulus
    BY <1>1, <1>5 DEF UnitsInv, UnitsInStep
  <2>2. lastSeq \in 0..(SeqModulus - 1)
    BY <1>1, <2>1
  <2>3. lastSeq + 1 + lostRow = lastSeq + 1
    BY <1>5, <2>2
  <2> QED
    BY <2>1, <2>3 DEF Streams!IsGap
<1>6. ASSUME UnitGathered(Held, air), ~Streams!IsGap(seq), rx.lastMpu = air.mpu
      PROVE  air.part > 1 /\ UnitGathered(Before(r, air), air)
  <2>1. Held # None /\ Len(Held) = air.part - 1
        /\ \A i \in DOMAIN Held : Held[i].mpu = air.mpu
    BY <1>6 DEF UnitGathered
  <2>2. Held \in Seq(Streams!Parts) /\ Held # <<>> /\ Len(Held) \in Nat \ {0}
    BY <2>1, HeldTyped DEF UnitsInv
  <2>3. air.part > 1 /\ Held[1].mpu = air.mpu
    BY <1>1, <2>1, <2>2
  <2>4. Before(r, air) = Held
    BY <1>2, <1>6, <2>1, <2>3, BeforeIsHeld
  <2> QED
    BY <1>6, <2>3, <2>4
<1>7. r.state = "InFragment" => ~Streams!IsGap(seq) /\ rx.lastMpu = air.mpu /\ rx.state = "InFragment"
  BY BeforeThePart
<1>8. ASSUME c, r.state = "InFragment"
      PROVE  UnitGathered(Held, air)
  <2>1. ~Streams!IsGap(seq) /\ rx.lastMpu = air.mpu /\ rx.state = "InFragment" /\ lostRow = 0
    BY <1>4, <1>7, <1>8
  <2>2. clean
    BY <1>8, <2>1 DEF Streams!Clean, Streams!NewMpu
  <2> QED
    BY <2>1, <2>2 DEF UnitsInv, CleanFragment
<1>9. ASSUME h # "no", air.part > 1
      PROVE  /\ r.state = "InFragment" /\ ~Streams!IsGap(seq) /\ rx.lastMpu = air.mpu
             /\ h = "first" => UnitGathered(Held, air)
  <2>1. /\ rx.state = "InFragment" /\ rx.lastMpu = air.mpu /\ lostRow = 0
        /\ h = "first" => UnitGathered(Held, air)
    BY <1>9 DEF UnitsInv, UnitHeardSoFar
  <2>2. ~Streams!IsGap(seq)
    BY <1>5, <2>1
  <2> QED
    BY <2>1, <2>2, BeforeThePart
<1>10. ASSUME c \/ h = "first", Streams!Accepts(r.state, Streams!Indicator(air))
       PROVE  UnitGathered(Before(r, air), air)
  <2>1. CASE air.part = 1
    <3>0. <<>> \in Seq(Streams!Parts)
      OBVIOUS
    <3>1. Before(r, air) = <<>> /\ <<>> # None
      BY <1>2, <2>1, <3>0 DEF Before, Streams!ReassemblyAssumption
    <3> QED
      BY <2>1, <3>1 DEF UnitGathered
  <2>2. CASE air.part # 1
    <3>1. r.state = "InFragment"
      BY <1>3, <1>10, <2>2
    <3>2. UnitGathered(Held, air)
      BY <1>1, <1>8, <1>9, <1>10, <2>2, <3>1
    <3> QED
      BY <1>6, <1>7, <3>1, <3>2
  <2> QED
    BY <2>1, <2>2
<1>11. ASSUME c, r.state = "InFragment"
       PROVE  air.part > 1
  BY <1>6, <1>7, <1>8, <1>11
<1>12. ASSUME h = "first" \/ (h = "yes" /\ c)
       PROVE  Streams!Accepts(r.state, Streams!Indicator(air))
  <2>1. CASE air.part > 1
    BY <1>1, <1>3, <1>9, <1>12, <2>1
  <2>2. CASE air.part = 1
    <3>1. r.state # "InFragment"
      BY <1>7, <1>11, <1>12, <2>2 DEF Streams!NewMpu
    <3> QED
      BY <1>3, <2>2, <3>1
  <2> QED
    BY <1>1, <2>1, <2>2
<1>13. c /\ r.state = "InFragment" => Streams!Accepts(r.state, Streams!Indicator(air))
  BY <1>1, <1>3, <1>11
<1> QED
  BY <1>9, <1>10, <1>12, <1>13

\* The last unit passed on is one that was sent before.
LEMMA DeliveredIs ==
  ASSUME Streams!ReassemblyAssumption, UnitsInv
  PROVE  /\ Streams!Delivered \in 0..MaxUnits /\ Streams!SentNumber \in Nat
         /\ Streams!Delivered <= Streams!SentNumber
         /\ air # None => Streams!Delivered < air.unit /\ Streams!SentNumber = air.unit /\ air.unit \in 1..MaxUnits
<1>1. /\ air \in Streams!Parts \cup {None} /\ output \in Streams!Outputs \cup {None} /\ MaxUnits \in Nat
      /\ output # None => output.data # <<>>
      /\ Streams!Delivered <= MaxUnits /\ (air # None => Streams!Delivered < air.unit)
  BY DEF UnitsInv, Streams!TypeOK, Kept, UnitsAhead, Streams!ReassemblyAssumption
<1>2. output # None => output.data[1] \in Streams!Parts
  BY <1>1 DEF Streams!Outputs
<1>3. Streams!Delivered \in 0..MaxUnits
  BY <1>1, <1>2 DEF Streams!Delivered, Streams!Parts
<1>4. air # None => air.unit \in 1..MaxUnits
  BY <1>1 DEF Streams!Parts
<1> QED
  BY <1>1, <1>3, <1>4 DEF Streams!SentNumber

\* What a step passes on comes after what was passed on before, and was sent.
UnitOnward ==
  /\ Streams!SentNumber' >= Streams!SentNumber
  /\ Streams!Delivered' = Streams!Delivered \/ Streams!Delivered' \in (Streams!Delivered + 1)..Streams!SentNumber

\* An intact packet of a registered stream.
LEMMA UnitIntact ==
  ASSUME Streams!ReassemblyAssumption, UnitsInv, UNCHANGED kind, rx # None, Streams!Receive("intact")
  PROVE  UnitsInv' /\ UnitOnward
<1>1. air # None /\ Streams!Broadcast /\ lastSeq' = seq /\ lostRow' = 0
  BY DEF Streams!Receive
<1>2. PICK r : r = Streams!AfterMpu(Streams!AfterGap(rx), air)
  OBVIOUS
<1>3. PICK res \in Streams!Process(r, air) :
        /\ rx' = res.rx /\ pending' = res.pending
        /\ output' = IF res.out = None THEN output
                     ELSE [data |-> res.out.data, au |-> res.out.au, clean |-> clean']
        /\ heard' = Streams!Heard("intact", res.timed)
  BY <1>2 DEF Streams!Receive, Streams!Demuxed
<1>4. /\ clean' \in BOOLEAN /\ (clean' <=> Streams!Clean("intact"))
  <2>1. clean' = (rx = None \/ Streams!Clean("intact"))
    BY DEF Streams!Receive
  <2>2. Streams!Clean("intact") \in BOOLEAN
    BY DEF Streams!Clean
  <2> QED
    BY <2>1, <2>2
<1>5. PICK h : h = IF air.part > 1 THEN heard ELSE IF Streams!NewMpu THEN "first" ELSE "yes"
  OBVIOUS
<1>6. heard' = IF ~res.timed THEN "no" ELSE h
  BY <1>3, <1>5 DEF Streams!Heard
<1>7. arrived' = IF air.part = air.of /\ (heard' = "first" \/ (heard' = "yes" /\ clean'))
                 THEN air.unit ELSE arrived
  BY DEF Streams!Receive
<1>8. /\ air \in Streams!Parts
      /\ air.part \in 1..MaxParts /\ air.of \in 1..MaxParts /\ air.part <= air.of
      /\ air.unit \in 1..MaxUnits /\ air.mpu \in 1..MaxMpus
      /\ MaxUnits \in Nat /\ MaxParts \in Nat /\ MaxMpus \in Nat
      /\ kind \in {"audio", "subtitle", "item"} /\ pending \in Seq(Streams!Parts) \cup {None}
      /\ heard \in {"no", "yes", "first"} /\ arrived \in 0..MaxUnits
      /\ output \in Streams!Outputs \cup {None}
      /\ (kind # "item" => pending = None) /\ (pending # None => pending # <<>>)
      /\ (output # None => output.data # <<>>)
  BY <1>1 DEF UnitsInv, Streams!TypeOK, Kept, Streams!Parts, Streams!ReassemblyAssumption
<1>9. /\ Receiving(r) /\ r.lastMpu = air.mpu
      /\ r.data = <<>> \/ r.data = rx.data
  BY <1>1, <1>2, BeforeThePart
<1>10. Outcome(r, air, res) /\ (kind = "item" => res.timed)
  BY <1>3, <1>8, <1>9, AudioOutcome, SubtitleOutcome, ItemOutcome DEF Streams!Process
<1>11. /\ (clean' \/ h = "first") /\ Streams!Accepts(r.state, Streams!Indicator(air)) =>
            UnitGathered(Before(r, air), air)
       /\ h = "first" \/ (h = "yes" /\ clean') => Streams!Accepts(r.state, Streams!Indicator(air))
       /\ h # "no" /\ air.part > 1 => r.state = "InFragment" /\ ~Streams!IsGap(seq) /\ rx.lastMpu = air.mpu
       /\ clean' /\ r.state = "InFragment" => Streams!Accepts(r.state, Streams!Indicator(air))
  BY <1>1, <1>2, <1>4, <1>5, SoFar
<1>12. /\ Before(r, air) # None =>
            /\ Before(r, air) \in Seq(Streams!Parts)
            /\ Before(r, air) # <<>> => Held # None /\ Before(r, air) = Held
  BY <1>1, <1>2, BeforeIsHeld
<1>13. /\ air' = None <=> air.unit = MaxUnits /\ air.part = air.of
       /\ air' # None =>
            /\ air' \in Streams!Parts
            /\ air.part < air.of =>
                 /\ air'.mpu = air.mpu /\ air'.unit = air.unit
                 /\ air'.part = air.part + 1 /\ air'.of = air.of
            /\ air.part = air.of => air'.part = 1 /\ air'.unit = air.unit + 1
       /\ seq' \in 0..(SeqModulus - 1)
  BY <1>1, NextUnitOnAir DEF UnitsInv
<1>14. /\ Receiving(rx') /\ rx'.lastMpu = air.mpu /\ rx' # None /\ air.mpu # None
       /\ rx' \in Streams!Receivers
  BY <1>3, <1>8, <1>9, <1>10 DEF Outcome, Receiving, Streams!ReassemblyAssumption
<1>15. /\ Streams!Ends(Streams!Indicator(air)) <=> air.part = air.of
       /\ Streams!Begins(Streams!Indicator(air)) <=> air.part = 1
       /\ Streams!StateAfter(Streams!Indicator(air)) = IF air.part = air.of THEN "NotStarted" ELSE "InFragment"
  BY <1>8, UnitFragmentStates
\* The parts that the unit now has.
<1>16. PICK e : e = Append(Before(r, air), air)
  OBVIOUS
<1>17. ASSUME Before(r, air) # None
       PROVE  /\ e \in Seq(Streams!Parts) /\ e # <<>> /\ e # None /\ Len(e) \in Nat \ {0} /\ e[1] \in Streams!Parts
              /\ e[1].unit > Streams!Delivered /\ e[1].unit <= air.unit
              /\ UnitGathered(Before(r, air), air) =>
                   /\ Len(e) = air.part /\ DOMAIN e = 1..air.part
                   /\ \A i \in 1..air.part : /\ e[i].unit = air.unit /\ e[i].part = i
                                             /\ e[i].of = air.of /\ e[i].mpu = air.mpu
  <2>1. PICK b \in Seq(Streams!Parts) : b = Before(r, air)
    BY <1>12, <1>17
  <2>2. /\ e \in Seq(Streams!Parts) /\ Len(e) = Len(b) + 1 /\ e # <<>>
        /\ \A i \in 1..Len(b) : e[i] = b[i]
        /\ e[Len(b) + 1] = air
        /\ DOMAIN e = 1..(Len(b) + 1)
    BY <1>8, <1>16, <2>1, AppendUnitParts
  <2>3. Len(b) \in Nat /\ DOMAIN b = 1..Len(b) /\ (b # <<>> => Len(b) > 0)
    BY <2>1
  <2>4. e[1] \in Streams!Parts
    BY <2>2, <2>3
  <2>5. e[1].unit > Streams!Delivered /\ e[1].unit <= air.unit
    <3>1. Streams!Delivered < air.unit /\ Streams!SentNumber = air.unit /\ Streams!Delivered \in Nat
      BY <1>1, DeliveredIs
    <3>2. CASE b = <<>>
      <4>1. e[1] = air
        BY <2>2, <2>3, <3>2
      <4> QED
        BY <1>8, <3>1, <4>1
    <3>3. CASE b # <<>>
      <4>1. Held # None /\ b = Held /\ Held[1].unit > Streams!Delivered /\ Held[1].unit <= Streams!SentNumber
        BY <1>12, <1>17, <2>1, <3>3 DEF UnitsInv, UnitsAhead
      <4>2. e[1] = b[1]
        BY <2>2, <2>3, <3>3
      <4> QED
        BY <3>1, <4>1, <4>2
    <3> QED
      BY <3>2, <3>3
  <2>6. ASSUME UnitGathered(b, air)
        PROVE  /\ Len(e) = air.part /\ DOMAIN e = 1..air.part
               /\ \A i \in 1..air.part : /\ e[i].unit = air.unit /\ e[i].part = i
                                         /\ e[i].of = air.of /\ e[i].mpu = air.mpu
    <3>1. Len(b) = air.part - 1
      BY <2>6 DEF UnitGathered
    <3>2. ASSUME NEW i \in 1..air.part
          PROVE  e[i].unit = air.unit /\ e[i].part = i /\ e[i].of = air.of /\ e[i].mpu = air.mpu
      <4>1. CASE i = air.part
        BY <1>8, <2>2, <3>1, <4>1
      <4>2. CASE i # air.part
        <5>1. i \in 1..Len(b) /\ i \in DOMAIN b
          BY <1>8, <2>3, <3>1, <4>2
        <5> QED
          BY <2>2, <2>6, <5>1 DEF UnitGathered
      <4> QED
        BY <4>1, <4>2
    <3> QED
      BY <1>8, <2>2, <3>1, <3>2
  <2> QED
    BY <2>1, <2>2, <2>3, <2>4, <2>5, <2>6 DEF Streams!ReassemblyAssumption
<1>18. ASSUME Before(r, air) # None, UnitGathered(Before(r, air), air), air.part = air.of
       PROVE  Streams!IsWholeUnit(e) /\ e[1].unit = air.unit
  BY <1>8, <1>17, <1>18 DEF Streams!IsWholeUnit
<1>19. UnitGathered(Before(r, air), air) => Before(r, air) # None
  BY DEF UnitGathered
\* What is held afterwards.
<1>20. \/ ~Streams!Accepts(r.state, Streams!Indicator(air)) /\ (Held' = None \/ Held' = Held) /\ output' = output
          /\ rx'.state = r.state
       \/ ~res.timed /\ Held' = None /\ output' = output /\ rx'.state # "InFragment"
       \/ Before(r, air) = None /\ Held' = None /\ output' = output
          /\ rx'.state = Streams!StateAfter(Streams!Indicator(air)) /\ Streams!Accepts(r.state, Streams!Indicator(air))
       \/ /\ Streams!Accepts(r.state, Streams!Indicator(air)) /\ Before(r, air) # None
          /\ Held' = e /\ output' = output /\ air.part # air.of
          /\ rx'.state = "InFragment"
       \/ /\ Streams!Accepts(r.state, Streams!Indicator(air)) /\ Before(r, air) # None
          /\ Held' = None /\ air.part = air.of /\ rx'.state = "NotStarted"
          /\ \/ output' = output /\ ~Streams!IsWholeUnit(e)
             \/ /\ output' \in Streams!Outputs /\ output'.data = e /\ output'.clean = clean'
  <2>1. Held' = IF kind = "item" THEN pending' ELSE IF rx'.data = <<>> THEN None ELSE rx'.data
    BY <1>14 DEF Held
  <2>2. Held = IF kind = "item" THEN pending ELSE IF rx.data = <<>> THEN None ELSE rx.data
    BY DEF Held
  <2>3. res.out = None => output' = output
    BY <1>3
  <2>4. rx' = res.rx /\ pending' = res.pending
    BY <1>3
  <2>5. CASE Refused(r, air, res)
    BY <1>9, <2>1, <2>2, <2>3, <2>4, <2>5 DEF Refused
  <2>6. CASE Dropped(r, air, res)
    BY <2>1, <2>3, <2>4, <2>6 DEF Dropped
  <2>7. CASE Stray(r, air, res)
    BY <2>1, <2>3, <2>4, <2>7 DEF Stray
  <2>8. CASE UnitAdded(r, air, res)
    <3>1. Held' = e
      BY <1>16, <1>17, <2>1, <2>4, <2>8 DEF UnitAdded
    <3> QED
      BY <1>15, <2>3, <2>4, <2>8, <3>1 DEF UnitAdded
  <2>9. CASE UnitEnded(r, air, res)
    <3>1. Held' = None
      BY <2>1, <2>4, <2>9 DEF UnitEnded
    <3>2. CASE res.out = None
      <4>1. ~Streams!IsWholeUnit(e)
        BY <1>16, <2>9, <3>2 DEF UnitEnded, Streams!ReassemblyAssumption
      <4> QED
        BY <1>15, <2>3, <2>4, <2>9, <3>1, <3>2, <4>1 DEF UnitEnded
    <3>3. CASE res.out # None
      <4>1. res.out \in Streams!Results /\ res.out.data = e
        BY <1>16, <2>9, <3>3 DEF UnitEnded
      <4>2. output' = [data |-> e, au |-> res.out.au, clean |-> clean']
        BY <1>3, <3>3, <4>1
      <4>3. output' \in Streams!Outputs /\ output'.data = e /\ output'.clean = clean'
        BY <1>4, <4>1, <4>2 DEF Streams!Results, Streams!Outputs
      <4> QED
        BY <1>15, <2>4, <2>9, <3>1, <4>3 DEF UnitEnded
    <3> QED
      BY <3>2, <3>3
  <2> QED
    BY <1>10, <2>5, <2>6, <2>7, <2>8, <2>9 DEF Outcome
\* The conjuncts.
<1>21. Kept'
  <2>1. pending' \in Seq(Streams!Parts) \cup {None} /\ (kind # "item" => pending' = None)
        /\ (pending' # None => pending' # <<>>)
    <3>1. pending' = res.pending
      BY <1>3
    <3>2. Before(r, air) # None => Append(Before(r, air), air) \in Seq(Streams!Parts) /\ Append(Before(r, air), air) # <<>>
      BY <1>16, <1>17
    <3> QED
      BY <1>8, <1>10, <3>1, <3>2 DEF Outcome, Refused, Dropped, Stray, UnitAdded, UnitEnded
  <2>2. output' # None => output'.data # <<>>
    BY <1>8, <1>17, <1>20
  <2> QED
    BY <1>14, <2>1, <2>2 DEF Kept, Receiving
<1>22. Streams!TypeOK'
  <2>1. air' \in Streams!Parts \cup {None}
    BY <1>13
  <2>2. pending' \in Seq(Streams!Parts) \cup {None}
    <3>1. pending' = res.pending
      BY <1>3
    <3>2. Before(r, air) # None => Append(Before(r, air), air) \in Seq(Streams!Parts)
      BY <1>16, <1>17
    <3> QED
      BY <1>8, <1>10, <3>1, <3>2 DEF Outcome, Refused, Dropped, Stray, UnitAdded, UnitEnded
  <2>3. output' \in Streams!Outputs \cup {None}
    BY <1>8, <1>20
  <2>4. heard' \in {"no", "yes", "first"}
    BY <1>5, <1>6, <1>8
  <2>5. arrived' \in 0..MaxUnits
    BY <1>7, <1>8
  <2>6. lastSeq' \in 0..(SeqModulus - 1) \cup {None} /\ lostRow' \in 0..(SeqModulus - 1)
    BY <1>1 DEF UnitsInv, Streams!TypeOK, Streams!ReassemblyAssumption
  <2> QED
    BY <1>4, <1>8, <1>13, <1>14, <2>1, <2>2, <2>3, <2>4, <2>5, <2>6 DEF Streams!TypeOK, Receiving
<1>23. Streams!Delivered' = Streams!Delivered \/ (air.part = air.of /\ Before(r, air) # None /\ Streams!Delivered' = e[1].unit)
  BY <1>20 DEF Streams!Delivered, Streams!ReassemblyAssumption
<1>24. Streams!SentNumber' >= air.unit /\ (air' # None => Streams!SentNumber' = air'.unit)
       /\ (air' # None /\ air.part = air.of => air'.unit > air.unit)
       /\ (air' # None => air'.unit >= air.unit)
  <2>1. air' # None => air'.unit = air.unit \/ air'.unit = air.unit + 1
    BY <1>8, <1>13
  <2> QED
    BY <1>8, <1>13, <2>1 DEF Streams!SentNumber
<1>25. Streams!Delivered \in 0..MaxUnits /\ Streams!Delivered < air.unit /\ Streams!SentNumber = air.unit
  BY <1>1, DeliveredIs
<1>26. UnitOnward
  <2>1. CASE Streams!Delivered' = Streams!Delivered
    BY <1>24, <1>25, <2>1 DEF UnitOnward
  <2>2. CASE Before(r, air) # None /\ Streams!Delivered' = e[1].unit
    <3>1. e[1].unit \in 1..MaxUnits /\ e[1].unit > Streams!Delivered /\ e[1].unit <= air.unit
      BY <1>17, <2>2 DEF Streams!Parts
    <3> QED
      BY <1>8, <1>24, <1>25, <2>2, <3>1 DEF UnitOnward
  <2> QED
    BY <1>23, <2>1, <2>2
<1>27. UnitsAhead'
  <2>1. Streams!Delivered' <= MaxUnits /\ (air' # None => Streams!Delivered' < air'.unit)
    <3>1. CASE Streams!Delivered' = Streams!Delivered
      BY <1>8, <1>13, <1>24, <1>25, <3>1
    <3>2. CASE air.part = air.of /\ Before(r, air) # None /\ Streams!Delivered' = e[1].unit
      <4>1. e[1].unit \in 1..MaxUnits /\ e[1].unit <= air.unit
        BY <1>17, <3>2 DEF Streams!Parts
      <4>2. air' # None => air'.unit \in Nat
        BY <1>13 DEF Streams!Parts
      <4> QED
        BY <1>8, <1>24, <3>2, <4>1, <4>2
    <3> QED
      BY <1>23, <3>1, <3>2
  <2>2. ASSUME Held' # None
        PROVE  Held'[1].unit > Streams!Delivered' /\ Held'[1].unit <= Streams!SentNumber'
    <3>1. output' = output /\ (Held' = Held \/ (Before(r, air) # None /\ Held' = e))
      BY <1>20, <2>2
    <3>2. Streams!Delivered' = Streams!Delivered
      BY <3>1 DEF Streams!Delivered
    <3>3. Held'[1].unit > Streams!Delivered /\ Held'[1].unit <= air.unit
      BY <1>17, <1>25, <2>2, <3>1 DEF UnitsInv, UnitsAhead
    <3>4. Held'[1].unit \in Nat /\ Streams!SentNumber' \in Nat
      <4>1. Held'[1] \in Streams!Parts
        BY <1>17, <2>2, <3>1, HeldTyped DEF UnitsInv
      <4>2. Streams!SentNumber' \in Nat
        BY <1>8, <1>13, <1>24 DEF Streams!SentNumber, Streams!Parts
      <4> QED
        BY <4>1, <4>2 DEF Streams!Parts
    <3> QED
      BY <1>8, <1>24, <3>2, <3>3, <3>4
  <2> QED
    BY <2>1, <2>2 DEF UnitsAhead
<1>28. UnitsInStep'
  <2>1. seq' = (seq + 1) % SeqModulus /\ seq \in 0..(SeqModulus - 1) /\ None \notin Nat
    BY <1>1 DEF Streams!Broadcast, UnitsInv, Streams!TypeOK, Streams!ReassemblyAssumption
  <2>2. seq + 1 + 0 = seq + 1
    BY <2>1
  <2>3. seq' = (lastSeq' + 1 + lostRow') % SeqModulus /\ lastSeq' # None
    BY <1>1, <2>1, <2>2
  <2> QED
    BY <2>3 DEF UnitsInStep
\* What the next part finds.
<1>29. ASSUME air' # None, air.part < air.of, UnitGathered(Before(r, air), air)
       PROVE  UnitGathered(e, air')
  <2>1. /\ air'.mpu = air.mpu /\ air'.unit = air.unit
        /\ air'.part = air.part + 1 /\ air'.of = air.of
    BY <1>13, <1>29
  <2>2. Before(r, air) # None
    BY <1>29 DEF UnitGathered
  <2>3. e # None /\ Len(e) = air.part /\ DOMAIN e = 1..air.part
        /\ \A i \in 1..air.part : /\ e[i].unit = air.unit /\ e[i].part = i
                                  /\ e[i].of = air.of /\ e[i].mpu = air.mpu
    BY <1>17, <1>29, <2>2
  <2> QED
    BY <1>8, <2>1, <2>3 DEF UnitGathered
<1>30. CleanFragment'
  <2> SUFFICES ASSUME clean', rx'.state = "InFragment", air' # None
               PROVE  UnitGathered(Held', air')
    BY DEF CleanFragment, UnitGathered
  <2>1. Streams!Accepts(r.state, Streams!Indicator(air))
    BY <1>11, <1>20
  <2>2. UnitGathered(Before(r, air), air) /\ Before(r, air) # None
    BY <1>11, <1>19, <2>1
  <2>3. Held' = e /\ air.part # air.of
    BY <1>20, <2>1, <2>2
  <2> QED
    BY <1>8, <1>29, <2>2, <2>3
<1>31. UnitHeardSoFar'
  <2> SUFFICES ASSUME heard' # "no", air' # None, air'.part > 1
               PROVE  /\ rx' # None /\ rx'.state = "InFragment" /\ rx'.lastMpu = air'.mpu /\ lostRow' = 0
                      /\ heard' = "first" => UnitGathered(Held', air')
    BY DEF UnitHeardSoFar, UnitGathered
  <2>1. air.part < air.of /\ res.timed /\ heard' = h
    BY <1>6, <1>8, <1>13
  <2>2. rx'.lastMpu = air'.mpu
    BY <1>13, <1>14, <2>1
  <2>3. rx'.state = "InFragment"
    <3>1. air.part > 1 => r.state = "InFragment"
      BY <1>11, <2>1
    <3>2. ~Streams!Accepts(r.state, Streams!Indicator(air)) => r.state = "InFragment"
      BY <1>8, <1>15, <3>1 DEF Streams!Accepts
    <3> QED
      <4>1. CASE ~Streams!Accepts(r.state, Streams!Indicator(air))
        BY <1>20, <2>1, <3>2, <4>1
      <4>2. CASE Streams!Accepts(r.state, Streams!Indicator(air))
        BY <1>8, <1>15, <1>20, <2>1, <4>2
      <4> QED
        BY <4>1, <4>2
  <2>4. ASSUME h = "first"
        PROVE  UnitGathered(Held', air')
    <3>1. Streams!Accepts(r.state, Streams!Indicator(air)) /\ UnitGathered(Before(r, air), air)
          /\ Before(r, air) # None
      BY <1>11, <1>19, <2>4
    <3>2. Held' = e
      BY <1>8, <1>20, <2>1, <3>1
    <3> QED
      BY <1>29, <2>1, <3>1, <3>2
  <2> QED
    BY <1>1, <1>14, <2>1, <2>2, <2>3, <2>4
<1>32. Streams!UndamagedWholeUnits'
  <2>1. CASE output' = output
    BY <2>1 DEF UnitsInv, Streams!UndamagedWholeUnits
  <2>2. CASE output' # output
    <3>1. /\ Streams!Accepts(r.state, Streams!Indicator(air)) /\ Before(r, air) # None /\ air.part = air.of
          /\ output'.data = e /\ output'.clean = clean'
      BY <1>20, <2>2
    <3>2. clean' => Streams!IsWholeUnit(e)
      BY <1>11, <1>18, <3>1
    <3> QED
      BY <3>1, <3>2 DEF Streams!UndamagedWholeUnits
  <2> QED
    BY <2>1, <2>2
<1>33. Streams!ArrivedUnitDelivered'
  <2>0. Streams!Delivered' \in Nat /\ Streams!Delivered' >= Streams!Delivered
    <3>1. CASE Streams!Delivered' = Streams!Delivered
      BY <1>25, <3>1
    <3>2. CASE Before(r, air) # None /\ Streams!Delivered' = e[1].unit
      <4>1. e[1].unit \in Nat /\ e[1].unit > Streams!Delivered
        BY <1>17, <3>2 DEF Streams!Parts
      <4> QED
        BY <1>25, <3>2, <4>1
    <3> QED
      BY <1>23, <3>1, <3>2
  <2>1. CASE ~(air.part = air.of /\ (heard' = "first" \/ (heard' = "yes" /\ clean')))
    <3>1. arrived' = arrived /\ Streams!Delivered >= arrived
      BY <1>7, <2>1 DEF UnitsInv, Streams!ArrivedUnitDelivered
    <3> QED
      BY <1>8, <1>25, <2>0, <3>1 DEF Streams!ArrivedUnitDelivered
  <2>2. CASE air.part = air.of /\ (heard' = "first" \/ (heard' = "yes" /\ clean'))
    <3>1. res.timed /\ heard' = h
      BY <1>6, <2>2
    <3>2. Streams!Accepts(r.state, Streams!Indicator(air)) /\ UnitGathered(Before(r, air), air)
          /\ Before(r, air) # None
      BY <1>11, <1>19, <2>2, <3>1
    <3>3. Streams!IsWholeUnit(e) /\ e[1].unit = air.unit
      BY <1>18, <2>2, <3>2
    <3>4. output' \in Streams!Outputs /\ output'.data = e
      BY <1>20, <2>2, <3>1, <3>2, <3>3
    <3>5. Streams!Delivered' = air.unit /\ arrived' = air.unit
      BY <1>7, <2>2, <3>3, <3>4 DEF Streams!Delivered, Streams!ReassemblyAssumption
    <3> QED
      BY <1>8, <3>5 DEF Streams!ArrivedUnitDelivered
  <2> QED
    BY <2>1, <2>2
<1> QED
  BY <1>21, <1>22, <1>26, <1>27, <1>28, <1>30, <1>31, <1>32, <1>33 DEF UnitsInv

\* A packet that no unit takes: the stream is not registered, or the packet cannot
\* be decrypted or parsed.
LEMMA UselessStep ==
  ASSUME Streams!ReassemblyAssumption, UnitsInv, UNCHANGED kind, NEW fate, Streams!Receive(fate),
         rx = None \/ fate \in {"undecryptable", "malformed"}
  PROVE  UnitsInv' /\ UnitOnward
<1>1. air # None /\ Streams!Broadcast /\ lastSeq' = seq /\ lostRow' = 0
  BY DEF Streams!Receive
<1>2. PICK res \in Streams!Demuxed(fate) :
        /\ rx' = res.rx /\ pending' = res.pending
        /\ output' = IF res.out = None THEN output
                     ELSE [data |-> res.out.data, au |-> res.out.au, clean |-> clean']
        /\ heard' = Streams!Heard(fate, res.timed)
  BY DEF Streams!Receive
<1>3. /\ clean' \in BOOLEAN /\ heard' = "no"
      /\ rx # None => ~clean'
  <2>1. clean' = (rx = None \/ Streams!Clean(fate)) /\ Streams!Clean(fate) \in BOOLEAN
    BY DEF Streams!Receive, Streams!Clean
  <2>2. rx # None => ~Streams!Clean(fate)
    BY DEF Streams!Clean
  <2> QED
    BY <1>2, <2>1, <2>2 DEF Streams!Heard
<1>4. /\ air \in Streams!Parts /\ rx \in Streams!Receivers \cup {None}
      /\ (rx # None /\ rx.state # "InFragment" => rx.data = <<>> /\ ~rx.timed)
      /\ (rx # None /\ rx.lastMpu = None => rx.state # "InFragment")
      /\ (kind = "item" /\ rx # None => rx.data = <<>> /\ ~rx.timed)
  BY <1>1 DEF UnitsInv, Streams!TypeOK, Kept
<1>5. PICK g : g = Streams!AfterGap(rx)
  OBVIOUS
<1>6. PICK r : r = Streams!AfterMpu(g, air)
  OBVIOUS
<1>7. rx # None => \/ res = Streams!Nothing(g) /\ fate = "undecryptable"
                   \/ res = Streams!Nothing(r)
  <2>1. ASSUME rx # None, fate = "undecryptable"
        PROVE  res = Streams!Nothing(g)
    BY <1>2, <1>5, <2>1 DEF Streams!Demuxed
  <2>2. ASSUME rx # None, fate = "malformed"
        PROVE  res = Streams!Nothing(r)
    BY <1>2, <1>5, <1>6, <2>2 DEF Streams!Demuxed
  <2> QED
    BY <2>1, <2>2
<1>8. rx = None => res = Streams!Nothing(None)
  BY <1>2 DEF Streams!Demuxed
<1>9. res.out = None /\ res.pending = pending
  BY <1>7, <1>8 DEF Streams!Nothing
<1>10. output' = output /\ pending' = pending
  BY <1>2, <1>9
<1>11. ASSUME rx # None
       PROVE  /\ rx' \in Streams!Receivers /\ rx' # None
              /\ (rx'.state # "InFragment" => rx'.data = <<>> /\ ~rx'.timed)
              /\ (kind = "item" => rx'.data = <<>> /\ ~rx'.timed)
              /\ (rx'.lastMpu = None => rx'.state # "InFragment")
              /\ rx'.lastMpu \in {rx.lastMpu, air.mpu}
              /\ rx'.data = <<>> \/ rx'.data = rx.data
  <2>1. /\ g \in Streams!Receivers /\ g.lastMpu = rx.lastMpu
        /\ (g.state # "InFragment" => g.data = <<>> /\ ~g.timed)
        /\ (kind = "item" => g.data = <<>> /\ ~g.timed)
        /\ (g.lastMpu = None => g.state # "InFragment")
        /\ g.data = <<>> \/ g.data = rx.data
    BY <1>4, <1>5, <1>11, ClearedIs DEF Streams!AfterGap
  <2>2. /\ Receiving(r) /\ r.lastMpu = air.mpu /\ (r.data = <<>> \/ r.data = rx.data)
    BY <1>1, <1>5, <1>6, <1>11, BeforeThePart
  <2>3. rx' = g \/ rx' = r
    BY <1>2, <1>7, <1>11 DEF Streams!Nothing
  <2>4. air.mpu # None
    BY <1>4 DEF Streams!Parts, Streams!ReassemblyAssumption
  <2> QED
    BY <2>1, <2>2, <2>3, <2>4 DEF Receiving, Streams!ReassemblyAssumption
<1>12. rx = None => rx' = None
  BY <1>2, <1>8 DEF Streams!Nothing
<1>13. Held' = Held \/ Held' = None
  BY <1>10, <1>11, <1>12 DEF Held
<1>14. /\ air' \in Streams!Parts \cup {None} /\ seq' \in 0..(SeqModulus - 1)
       /\ air' # None => air'.unit >= air.unit
       /\ Streams!SentNumber' \in Nat /\ Streams!SentNumber' >= air.unit
  <2>1. /\ air' # None => air' \in Streams!Parts /\ (air'.unit = air.unit \/ air'.unit = air.unit + 1)
        /\ seq' \in 0..(SeqModulus - 1)
    <3>1. /\ air' # None =>
               /\ air' \in Streams!Parts
               /\ air.part < air.of =>
                    /\ air'.mpu = air.mpu /\ air'.unit = air.unit
                    /\ air'.part = air.part + 1 /\ air'.of = air.of
               /\ air.part = air.of => air'.part = 1 /\ air'.unit = air.unit + 1
          /\ seq' \in 0..(SeqModulus - 1)
      BY <1>1, NextUnitOnAir DEF UnitsInv
    <3>2. air.part \in Nat /\ air.of \in Nat /\ air.part <= air.of
      BY <1>4 DEF Streams!Parts, Streams!ReassemblyAssumption
    <3> QED
      BY <3>1, <3>2
  <2>2. air.unit \in 1..MaxUnits /\ MaxUnits \in Nat /\ (air' # None => air'.unit \in Nat)
    BY <1>4, <2>1 DEF Streams!Parts, Streams!ReassemblyAssumption
  <2> QED
    BY <2>1, <2>2 DEF Streams!SentNumber
<1>15. Streams!TypeOK'
  <2>1. lastSeq' \in 0..(SeqModulus - 1) \cup {None} /\ lostRow' \in 0..(SeqModulus - 1)
    BY <1>1 DEF UnitsInv, Streams!TypeOK, Streams!ReassemblyAssumption
  <2>2. arrived' = arrived
    BY <1>3 DEF Streams!Receive
  <2>3. rx' \in Streams!Receivers \cup {None}
    BY <1>11, <1>12
  <2> QED
    BY <1>3, <1>10, <1>11, <1>12, <1>14, <2>1, <2>2, <2>3 DEF UnitsInv, Streams!TypeOK
<1>16. Kept'
  BY <1>10, <1>11, <1>12 DEF UnitsInv, Kept
<1>17. Streams!Delivered' = Streams!Delivered
  BY <1>10 DEF Streams!Delivered
<1>18. /\ Streams!Delivered \in 0..MaxUnits /\ Streams!Delivered < air.unit /\ Streams!SentNumber = air.unit
       /\ air.unit \in 1..MaxUnits /\ MaxUnits \in Nat
  BY <1>1, DeliveredIs DEF Streams!ReassemblyAssumption
<1>19. UnitsAhead'
  <2>1. air' # None => Streams!Delivered' < air'.unit
    <3>1. air' # None => air'.unit \in Nat
      BY <1>14 DEF Streams!Parts
    <3> QED
      BY <1>14, <1>17, <1>18, <3>1
  <2>2. ASSUME Held' # None PROVE Held'[1].unit > Streams!Delivered' /\ Held'[1].unit <= Streams!SentNumber'
    <3>1. Held' = Held /\ Held # None
      BY <1>13, <2>2
    <3>2. Held[1].unit \in Nat
      BY <3>1, HeldTyped DEF UnitsInv, Streams!Parts
    <3>3. Held[1].unit > Streams!Delivered /\ Held[1].unit <= air.unit
      BY <1>18, <3>1 DEF UnitsInv, UnitsAhead
    <3> QED
      BY <1>14, <1>17, <1>18, <3>1, <3>2, <3>3
  <2> QED
    BY <1>17, <1>18, <2>1, <2>2 DEF UnitsAhead
<1>20. UnitsInStep'
  <2>1. seq' = (seq + 1) % SeqModulus /\ seq \in 0..(SeqModulus - 1) /\ None \notin Nat
    BY <1>1 DEF Streams!Broadcast, UnitsInv, Streams!TypeOK, Streams!ReassemblyAssumption
  <2>2. seq + 1 + 0 = seq + 1
    BY <2>1
  <2>3. seq' = (lastSeq' + 1 + lostRow') % SeqModulus /\ lastSeq' # None
    BY <1>1, <2>1, <2>2
  <2> QED
    BY <2>3 DEF UnitsInStep
<1>21. CleanFragment' /\ UnitHeardSoFar'
  BY <1>3, <1>12 DEF CleanFragment, UnitHeardSoFar
<1>22. Streams!UndamagedWholeUnits' /\ Streams!ArrivedUnitDelivered'
  <2>1. arrived' = arrived
    BY <1>3 DEF Streams!Receive
  <2> QED
    BY <1>10, <1>17, <2>1 DEF UnitsInv, Streams!UndamagedWholeUnits, Streams!ArrivedUnitDelivered
<1>23. UnitOnward
  BY <1>14, <1>17, <1>18 DEF UnitOnward
<1> QED
  BY <1>15, <1>16, <1>19, <1>20, <1>21, <1>22, <1>23 DEF UnitsInv

\* A packet that is lost.
LEMMA UnitLost ==
  ASSUME Streams!ReassemblyAssumption, UnitsInv, UNCHANGED kind, Streams!Lose
  PROVE  UnitsInv' /\ UnitOnward
<1>1. /\ air # None /\ Streams!Broadcast /\ lostRow < SeqModulus - 1 /\ lostRow' = lostRow + 1
      /\ heard' = "no"
      /\ UNCHANGED <<lastSeq, rx, pending, output, clean, arrived>>
  BY DEF Streams!Lose
<1>2. /\ air \in Streams!Parts /\ seq \in 0..(SeqModulus - 1) /\ lostRow \in 0..(SeqModulus - 1)
      /\ SeqModulus \in Nat \ {0} /\ lastSeq \in 0..(SeqModulus - 1) \cup {None}
  BY <1>1 DEF UnitsInv, Streams!TypeOK, Streams!ReassemblyAssumption
<1>3. /\ air' # None =>
           /\ air' \in Streams!Parts
           /\ air'.unit = air.unit \/ air'.unit = air.unit + 1
           /\ air'.mpu # air.mpu => rx = None \/ air'.mpu # rx.lastMpu
      /\ seq' \in 0..(SeqModulus - 1)
  <2>1. /\ air' # None =>
             /\ air' \in Streams!Parts
             /\ air.part < air.of =>
                  /\ air'.mpu = air.mpu /\ air'.unit = air.unit
                  /\ air'.part = air.part + 1 /\ air'.of = air.of
             /\ air.part = air.of => air'.part = 1 /\ air'.unit = air.unit + 1
             /\ air'.mpu # air.mpu => rx = None \/ air'.mpu # rx.lastMpu
        /\ seq' \in 0..(SeqModulus - 1)
    BY <1>1, NextUnitOnAir DEF UnitsInv
  <2>2. air.part \in Nat /\ air.of \in Nat /\ air.part <= air.of
    BY <1>2 DEF Streams!Parts, Streams!ReassemblyAssumption
  <2> QED
    BY <2>1, <2>2
<1>4. /\ Streams!Delivered \in 0..MaxUnits /\ Streams!Delivered < air.unit /\ Streams!SentNumber = air.unit
      /\ air.unit \in 1..MaxUnits /\ MaxUnits \in Nat
  BY <1>1, DeliveredIs DEF Streams!ReassemblyAssumption
<1>5. (air' # None => air'.unit \in Nat) /\ Streams!SentNumber' \in Nat /\ Streams!SentNumber' >= air.unit
  BY <1>3, <1>4 DEF Streams!SentNumber, Streams!Parts
<1>6. Streams!Delivered' = Streams!Delivered /\ Held' = Held
  BY <1>1 DEF Streams!Delivered, Held
<1>7. Streams!TypeOK'
  BY <1>1, <1>2, <1>3 DEF UnitsInv, Streams!TypeOK
<1>8. Kept'
  BY <1>1 DEF UnitsInv, Kept
<1>9. UnitsAhead'
  <2>1. air' # None => Streams!Delivered' < air'.unit
    BY <1>3, <1>4, <1>5, <1>6
  <2>2. ASSUME Held # None PROVE Held[1].unit > Streams!Delivered' /\ Held[1].unit <= Streams!SentNumber'
    <3>1. Held[1].unit \in Nat
      BY <2>2, HeldTyped DEF UnitsInv, Streams!Parts
    <3>2. Held[1].unit > Streams!Delivered /\ Held[1].unit <= air.unit
      BY <1>4, <2>2 DEF UnitsInv, UnitsAhead
    <3> QED
      BY <1>4, <1>5, <1>6, <3>1, <3>2
  <2> QED
    BY <1>4, <1>6, <2>1, <2>2 DEF UnitsAhead
<1>10. UnitsInStep'
  <2> SUFFICES ASSUME rx # None, rx.lastMpu # None, air' # None, air'.mpu = rx.lastMpu
               PROVE  seq' = (lastSeq + 1 + lostRow') % SeqModulus
    BY <1>1 DEF UnitsInStep, UnitsInv
  <2>1. air.mpu = rx.lastMpu
    BY <1>3
  <2>2. lastSeq \in 0..(SeqModulus - 1) /\ seq = (lastSeq + 1 + lostRow) % SeqModulus
    BY <1>1, <1>2, <2>1 DEF UnitsInv, UnitsInStep
  <2>3. (((lastSeq + 1 + lostRow) % SeqModulus) + 1) % SeqModulus =
          (lastSeq + 1 + (lostRow + 1)) % SeqModulus
    BY <1>2, <2>2, UnitSequenceNumbers, Zenon
  <2>4. seq' = (seq + 1) % SeqModulus
    BY <1>1 DEF Streams!Broadcast
  <2> QED
    BY <1>1, <2>2, <2>3, <2>4
<1>11. CleanFragment' /\ UnitHeardSoFar'
  BY <1>1, <1>2 DEF CleanFragment, UnitHeardSoFar
<1>12. Streams!UndamagedWholeUnits' /\ Streams!ArrivedUnitDelivered'
  BY <1>1, <1>6 DEF UnitsInv, Streams!UndamagedWholeUnits, Streams!ArrivedUnitDelivered
<1>13. UnitOnward
  BY <1>4, <1>5, <1>6 DEF UnitOnward
<1> QED
  BY <1>7, <1>8, <1>9, <1>10, <1>11, <1>12, <1>13 DEF UnitsInv

\* A seam of the recording.
LEMMA UnitSeam ==
  ASSUME Streams!ReassemblyAssumption, UnitsInv, UNCHANGED kind, Streams!Seam
  PROVE  UnitsInv' /\ UnitOnward
<1>1. /\ air # None /\ air.unit < MaxUnits /\ seq' \in 0..(SeqModulus - 1) /\ heard' = "no"
      /\ lostRow' = 0 /\ UNCHANGED <<lastSeq, rx, pending, output, clean, arrived>>
  BY DEF Streams!Seam
<1>2. PICK m \in Streams!NextMpus, n \in 1..MaxParts, i \in 0..1 : \E k \in 1..n :
        air' = [mpu |-> m, index |-> i, unit |-> air.unit + 1, part |-> k, of |-> n]
  BY DEF Streams!Seam
<1>3. PICK k \in 1..n :
        air' = [mpu |-> m, index |-> i, unit |-> air.unit + 1, part |-> k, of |-> n]
  BY <1>2
<1>4. /\ air \in Streams!Parts /\ MaxParts \in Nat /\ MaxUnits \in Nat /\ SeqModulus \in Nat \ {0}
      /\ None \notin Streams!Parts
  BY <1>1 DEF UnitsInv, Streams!TypeOK, Streams!ReassemblyAssumption
<1>5. m \in 1..MaxMpus /\ m # air.mpu /\ (rx # None => m # rx.lastMpu)
  BY DEF Streams!NextMpus
<1>6. PICK u \in 1..MaxUnits : u = air.unit + 1
  BY <1>1, <1>4 DEF Streams!Parts
<1>7. /\ air' \in Streams!Parts /\ air'.unit = u /\ air'.mpu = m /\ air' # None
  BY <1>3, <1>4, <1>5, <1>6 DEF Streams!Parts
<1>8. /\ Streams!Delivered \in 0..MaxUnits /\ Streams!Delivered < air.unit /\ Streams!SentNumber = air.unit
      /\ air.unit \in 1..MaxUnits
  BY <1>1, DeliveredIs
<1>9. Streams!Delivered' = Streams!Delivered /\ Held' = Held /\ Streams!SentNumber' = u
  BY <1>1, <1>7 DEF Streams!Delivered, Held, Streams!SentNumber
<1>10. Streams!TypeOK'
  BY <1>1, <1>4, <1>7 DEF UnitsInv, Streams!TypeOK
<1>11. Kept'
  BY <1>1 DEF UnitsInv, Kept
<1>12. UnitsAhead'
  <2>1. ASSUME Held # None PROVE Held[1].unit > Streams!Delivered /\ Held[1].unit <= u
    <3>1. Held[1].unit \in Nat
      BY <2>1, HeldTyped DEF UnitsInv, Streams!Parts
    <3>2. Held[1].unit > Streams!Delivered /\ Held[1].unit <= air.unit
      BY <1>8, <2>1 DEF UnitsInv, UnitsAhead
    <3> QED
      BY <1>6, <1>8, <3>1, <3>2
  <2> QED
    BY <1>4, <1>6, <1>7, <1>8, <1>9, <2>1 DEF UnitsAhead
<1>13. UnitsInStep' /\ CleanFragment' /\ UnitHeardSoFar'
  BY <1>1, <1>5, <1>7 DEF UnitsInv, UnitsInStep, CleanFragment, UnitHeardSoFar
<1>14. Streams!UndamagedWholeUnits' /\ Streams!ArrivedUnitDelivered'
  BY <1>1, <1>9 DEF UnitsInv, Streams!UndamagedWholeUnits, Streams!ArrivedUnitDelivered
<1>15. UnitOnward
  BY <1>4, <1>6, <1>8, <1>9 DEF UnitOnward
<1> QED
  BY <1>10, <1>11, <1>12, <1>13, <1>14, <1>15 DEF UnitsInv

\* The stream enters or leaves the package, or all is forgotten.
LEMMA RenewedStep ==
  ASSUME Streams!ReassemblyAssumption, UnitsInv, UNCHANGED kind, Streams!Renewed,
         \/ rx' = Streams!NewReceiver /\ UNCHANGED <<lastSeq, pending>>
         \/ rx' = None /\ UNCHANGED <<lastSeq, pending>>
         \/ rx' = None /\ lastSeq' = None /\ pending' = None
  PROVE  UnitsInv' /\ UnitOnward
<1>1. clean' = TRUE /\ heard' = "no" /\ UNCHANGED <<air, seq, lostRow, output, arrived>>
  BY DEF Streams!Renewed
<1>2. /\ Streams!NewReceiver \in Streams!Receivers /\ Streams!NewReceiver.lastMpu = None /\ Streams!NewReceiver.data = <<>>
      /\ Streams!NewReceiver.state = "Init" /\ ~Streams!NewReceiver.timed
  <2>1. <<>> \in Seq(Streams!Parts) /\ "Init" \in Streams!States /\ 0 \in Nat
    BY DEF Streams!States
  <2> QED
    BY <2>1 DEF Streams!NewReceiver, Streams!Receivers
<1>3. /\ rx' \in Streams!Receivers \cup {None}
      /\ rx' # None => rx'.lastMpu = None /\ rx'.data = <<>> /\ rx'.state = "Init" /\ ~rx'.timed
  BY <1>2
<1>4. Streams!Delivered' = Streams!Delivered /\ Streams!SentNumber' = Streams!SentNumber
  BY <1>1 DEF Streams!Delivered, Streams!SentNumber
<1>5. Held' = None \/ Held' = Held
  BY <1>3 DEF Held
<1>6. Streams!TypeOK'
  BY <1>1, <1>3 DEF UnitsInv, Streams!TypeOK
<1>7. Kept'
  BY <1>1, <1>3 DEF UnitsInv, Kept
<1>8. UnitsAhead'
  BY <1>1, <1>4, <1>5 DEF UnitsInv, UnitsAhead
<1>9. UnitsInStep' /\ CleanFragment' /\ UnitHeardSoFar'
  BY <1>1, <1>3 DEF UnitsInStep, CleanFragment, UnitHeardSoFar
<1>10. Streams!UndamagedWholeUnits' /\ Streams!ArrivedUnitDelivered'
  BY <1>1, <1>4 DEF UnitsInv, Streams!UndamagedWholeUnits, Streams!ArrivedUnitDelivered
<1>11. UnitOnward
  BY <1>4, DeliveredIs DEF UnitOnward
<1> QED
  BY <1>6, <1>7, <1>8, <1>9, <1>10, <1>11 DEF UnitsInv

LEMMA UnitsStart == Streams!ReassemblyAssumption /\ Streams!Init => UnitsInv /\ Streams!Channel!Init
<1> SUFFICES ASSUME Streams!ReassemblyAssumption, Streams!Init PROVE UnitsInv /\ Streams!Channel!Init
  OBVIOUS
<1>1. /\ kind \in {"audio", "subtitle", "item"} /\ seq = 0 /\ lostRow = 0 /\ lastSeq = None
      /\ rx = None /\ pending = None /\ output = None /\ clean = TRUE /\ heard = "no"
      /\ arrived = 0
  BY DEF Streams!Init
<1>2. PICK n \in 1..MaxParts : air = [mpu |-> 1, index |-> 0, unit |-> 1, part |-> 1, of |-> n]
  BY DEF Streams!Init
<1>3. /\ MaxUnits \in Nat \ {0} /\ MaxParts \in Nat \ {0} /\ MaxMpus \in Nat \ {0}
      /\ SeqModulus \in Nat \ {0} /\ None \notin Streams!Parts
  BY DEF Streams!ReassemblyAssumption
<1>4. air \in Streams!Parts /\ air.unit = 1 /\ air # None /\ air.part = 1
  BY <1>2, <1>3 DEF Streams!Parts
<1>5. Streams!Delivered = 0 /\ Streams!SentNumber = 1 /\ Held = None
  BY <1>1, <1>4 DEF Streams!Delivered, Streams!SentNumber, Held
<1>6. Streams!TypeOK
  BY <1>1, <1>3, <1>4 DEF Streams!TypeOK
<1>7. Kept /\ UnitsAhead /\ UnitsInStep /\ CleanFragment /\ UnitHeardSoFar
  BY <1>1, <1>3, <1>4, <1>5 DEF Kept, UnitsAhead, UnitsInStep, CleanFragment, UnitHeardSoFar
<1>8. Streams!UndamagedWholeUnits /\ Streams!ArrivedUnitDelivered
  BY <1>1, <1>5 DEF Streams!UndamagedWholeUnits, Streams!ArrivedUnitDelivered
<1>9. Streams!Channel!Init
  BY <1>5, <1>8 DEF Streams!Channel!Init, Streams!WholeDelivered
<1> QED
  BY <1>6, <1>7, <1>8, <1>9 DEF UnitsInv

\* What the steps do to the units and to the abstract channel.
LEMMA UnitsStep ==
  ASSUME Streams!ReassemblyAssumption, UnitsInv, [Streams!Next]_(Streams!vars)
  PROVE  /\ UnitsInv'
         /\ [Streams!Channel!Next]_<<Streams!SentNumber, Streams!WholeDelivered>>
<1>1. ASSUME Streams!Next PROVE UnitsInv' /\ UnitOnward
  <2>0. UNCHANGED kind
    BY <1>1 DEF Streams!Next
  <2>1. ASSUME NEW fate \in Fates \ {"lost"}, Streams!Receive(fate) PROVE UnitsInv' /\ UnitOnward
    <3>1. fate \in {"intact", "undecryptable", "malformed"}
      BY DEF Streams!ReassemblyAssumption
    <3> QED
      BY <2>0, <2>1, <3>1, UnitIntact, UselessStep
  <2>2. ASSUME Streams!Register \/ Streams!Unregister \/ Streams!ResetStreams \/ Streams!Clear PROVE UnitsInv' /\ UnitOnward
    BY <2>0, <2>2, RenewedStep DEF Streams!Register, Streams!Unregister, Streams!ResetStreams, Streams!Clear
  <2> QED
    BY <1>1, <2>0, <2>1, <2>2, UnitLost, UnitSeam DEF Streams!Next
<1>2. ASSUME UNCHANGED Streams!vars PROVE UnitsInv' /\ UnitOnward
  <2>1. Held' = Held /\ Streams!Delivered' = Streams!Delivered /\ Streams!SentNumber' = Streams!SentNumber
    BY <1>2 DEF Streams!vars, Held, Streams!Delivered, Streams!SentNumber
  <2>2. Streams!TypeOK' /\ Kept' /\ UnitsAhead' /\ UnitsInStep'
    BY <1>2, <2>1 DEF Streams!vars, UnitsInv, Streams!TypeOK, Kept, UnitsAhead, UnitsInStep
  <2>3. CleanFragment' /\ UnitHeardSoFar' /\ Streams!UndamagedWholeUnits' /\ Streams!ArrivedUnitDelivered'
    BY <1>2, <2>1 DEF Streams!vars, UnitsInv, CleanFragment, UnitHeardSoFar, Streams!UndamagedWholeUnits,
                      Streams!ArrivedUnitDelivered
  <2>4. UnitOnward
    BY <2>1, DeliveredIs DEF UnitOnward
  <2> QED
    BY <2>2, <2>3, <2>4 DEF UnitsInv
<1>3. UnitsInv' /\ UnitOnward
  BY <1>1, <1>2
<1>4. Streams!WholeDelivered = Streams!Delivered /\ Streams!WholeDelivered' = Streams!Delivered'
  BY <1>3 DEF UnitsInv, Streams!WholeDelivered
<1>5. Streams!SentNumber \in Nat /\ Streams!SentNumber' \in Nat
  <2>1. Streams!SentNumber \in Nat
    BY DeliveredIs
  <2>2. Streams!SentNumber' \in Nat
    BY <1>3 DEF UnitsInv, Streams!TypeOK, Streams!SentNumber, Streams!Parts, Streams!ReassemblyAssumption
  <2> QED
    BY <2>1, <2>2
<1>6. Streams!Channel!Next
  BY <1>3, <1>4, <1>5 DEF UnitOnward, Streams!Channel!Next, Streams!Channel!SendOn, Streams!Channel!Deliver
<1> QED
  BY <1>3, <1>6

-----------------------------------------------------------------------------
(* The reassembly of signalling messages.                                  *)


\* A packet carries a part of one message, or two whole ones.
AirShape ==
  air # None =>
    \/ \E p \in Messages!Parts : air = <<p>>
    \/ \E p \in Messages!Parts, q \in Messages!Parts :
         air = <<p, q>> /\ p.of = 1 /\ q.of = 1 /\ q.unit = p.unit + 1

\* An assembler knows of every packet but those missed in a row.
MessagesInStep ==
  asm # None =>
    /\ asm.state # "Init"
    /\ air # None => seq = (asm.lastSeq + 1 + lostRow) % SeqModulus

\* Data is what was sent of a message before the part p.
MessageGathered(data, p) ==
  /\ Len(data) = p.part - 1
  /\ \A i \in DOMAIN data : /\ data[i].unit = p.unit /\ data[i].part = i
                            /\ data[i].of = p.of /\ data[i].sound = p.sound

\* An undamaged assembler in mid-message has all of it so far.
FreshFragment ==
  fresh /\ asm # None /\ asm.state = "InFragment" =>
    /\ asm.data # <<>>
    /\ air # None /\ lostRow = 0 => MessageGathered(asm.data, air[1])

\* An assembler that has heard a message so far is in mid-message.
MessageHeardSoFar ==
  heard /\ air # None /\ air[1].part > 1 =>
    /\ asm # None /\ lostRow = 0
    /\ fresh => asm.state = "InFragment"

\* The messages on air come after those processed.
MessagesAhead == air # None => processed < air[1].unit

MessagesInv ==
  /\ Messages!TypeOK
  /\ AirShape
  /\ MessagesInStep
  /\ FreshFragment
  /\ MessageHeardSoFar
  /\ MessagesAhead
  /\ Messages!WholeMessages
  /\ Messages!UndamagedMessageProcessed

-----------------------------------------------------------------------------
(* What becomes of the parts in a packet.                                  *)

Begun ==
  [asm       |-> Messages!CheckState(IF asm = None THEN Messages!NewAssembler ELSE asm),
   output    |-> <<>>,
   processed |-> processed,
   thrown    |-> FALSE]

\* The parts are taken one after the other.
LEMMA PartsTaken ==
  ASSUME AirShape, air # None, NEW m
  PROVE  \/ \E p \in Messages!Parts : air = <<p>> /\ Messages!Demuxed(m) = Messages!Assemble(Begun, p, m)
         \/ \E p \in Messages!Parts, q \in Messages!Parts :
              /\ air = <<p, q>> /\ p.of = 1 /\ q.of = 1 /\ q.unit = p.unit + 1
              /\ Messages!Demuxed(m) = Messages!Assemble(Messages!Assemble(Begun, p, m), q, m)
<1>0. PICK b : b = Begun
  OBVIOUS
<1> DEFINE F(f) == f = [i \in 0..Len(air) |-> IF i = 0 THEN b ELSE Messages!Assemble(f[i - 1], air[i], m)]
           after == CHOOSE g : F(g)
<1>1. Messages!Demuxed(m) = after[Len(air)]
  BY <1>0, Zenon DEF Messages!Demuxed, Begun
<1>2. Len(air) \in {1, 2}
  BY DEF AirShape
<1>3. PICK c : c = Messages!Assemble(b, air[1], m)
  OBVIOUS
<1>4. PICK d : d = Messages!Assemble(c, air[2], m)
  OBVIOUS
<1>5. F([i \in 0..Len(air) |-> IF i = 0 THEN b ELSE IF i = 1 THEN c ELSE d])
  <2>1. PICK g : g = [i \in 0..Len(air) |-> IF i = 0 THEN b ELSE IF i = 1 THEN c ELSE d]
    OBVIOUS
  <2>2. PICK h : h = [i \in 0..Len(air) |-> IF i = 0 THEN b ELSE Messages!Assemble(g[i - 1], air[i], m)]
    OBVIOUS
  <2>3. g[0] = b /\ g[1] = c
    BY <1>2, <2>1
  <2>4. ASSUME NEW i \in 0..Len(air) PROVE g[i] = h[i]
    <3>1. CASE i = 0
      BY <2>1, <2>2, <3>1
    <3>2. CASE i = 1
      <4>1. h[1] = Messages!Assemble(g[0], air[1], m)
        BY <2>2, <3>2
      <4> QED
        BY <1>3, <2>3, <3>2, <4>1
    <3>3. CASE i = 2
      <4>1. h[2] = Messages!Assemble(g[1], air[2], m) /\ g[2] = d
        BY <2>1, <2>2, <3>3
      <4> QED
        BY <1>4, <2>3, <3>3, <4>1
    <3>4. i = 0 \/ i = 1 \/ i = 2
      BY <1>2
    <3> QED
      BY <3>1, <3>2, <3>3, <3>4, Zenon
  <2>5. g = h
    BY <2>1, <2>2, <2>4
  <2> QED
    BY <2>1, <2>2, <2>5, Zenon
<1>6. F(after)
  <2>1. \E f : F(f)
    BY <1>5, Zenon
  <2> HIDE DEF F
  <2> QED
    BY <2>1, Zenon
<1> HIDE DEF after
<1>7. /\ after[0] = b
      /\ after[1] = Messages!Assemble(after[0], air[1], m)
      /\ Len(air) = 2 => after[2] = Messages!Assemble(after[1], air[2], m)
  <2>1. 0 \in 0..Len(air) /\ 1 \in 0..Len(air) /\ (Len(air) = 2 => 2 \in 0..Len(air))
    BY <1>2
  <2>2. \A i \in 0..Len(air) : after[i] = IF i = 0 THEN b ELSE Messages!Assemble(after[i - 1], air[i], m)
    BY <1>6, Zenon
  <2>3. 1 - 1 = 0 /\ 2 - 1 = 1
    OBVIOUS
  <2>4. after[0] = b
    BY <2>1, <2>2, Zenon
  <2>5. after[1] = Messages!Assemble(after[1 - 1], air[1], m)
    BY <2>1, <2>2
  <2>6. Len(air) = 2 => after[2] = Messages!Assemble(after[2 - 1], air[2], m)
    BY <2>1, <2>2
  <2> QED
    BY <2>3, <2>4, <2>5, <2>6
<1>8. CASE \E p \in Messages!Parts : air = <<p>>
  <2>1. PICK p \in Messages!Parts : air = <<p>>
    BY <1>8
  <2>2. Len(air) = 1 /\ air[1] = p
    BY <2>1
  <2>3. Messages!Demuxed(m) = Messages!Assemble(Begun, p, m)
    BY <1>0, <1>1, <1>7, <2>2
  <2> QED
    BY <2>1, <2>3, Zenon
<1>9. CASE \E p \in Messages!Parts, q \in Messages!Parts :
             air = <<p, q>> /\ p.of = 1 /\ q.of = 1 /\ q.unit = p.unit + 1
  <2>1. PICK p \in Messages!Parts, q \in Messages!Parts :
               air = <<p, q>> /\ p.of = 1 /\ q.of = 1 /\ q.unit = p.unit + 1
    BY <1>9
  <2>2. Len(air) = 2 /\ air[1] = p /\ air[2] = q
    BY <2>1
  <2>3. Messages!Demuxed(m) = Messages!Assemble(Messages!Assemble(Begun, p, m), q, m)
    BY <1>0, <1>1, <1>7, <2>2
  <2> QED
    BY <2>1, <2>3, Zenon
<1> QED
  BY <1>8, <1>9 DEF AirShape

\* What processing has to go on with.
MessageResults ==
  [asm : Messages!Assemblers, output : Seq(Seq(Messages!Parts)), processed : 0..MaxMessages, thrown : BOOLEAN]

LEMMA MessageFragmentStates ==
  ASSUME NEW p \in Messages!Parts
  PROVE  /\ Messages!StateAfter(Messages!Indicator(p)) \in Messages!States /\ Messages!StateAfter(Messages!Indicator(p)) # "Init"
         /\ Messages!Ends(Messages!Indicator(p)) <=> p.part = p.of
         /\ Messages!Begins(Messages!Indicator(p)) <=> p.part = 1
         /\ Messages!StateAfter(Messages!Indicator(p)) = IF p.part = p.of THEN "NotStarted" ELSE "InFragment"
  BY DEF Messages!StateAfter, Messages!States, Messages!Ends, Messages!Begins, Messages!Indicator, Messages!Parts

LEMMA AppendMessageParts ==
  ASSUME NEW d \in Seq(Messages!Parts), NEW p \in Messages!Parts
  PROVE  /\ Append(d, p) \in Seq(Messages!Parts)
         /\ Len(Append(d, p)) = Len(d) + 1
         /\ Append(d, p) # <<>>
         /\ \A i \in 1..Len(d) : Append(d, p)[i] = d[i]
         /\ Append(d, p)[Len(d) + 1] = p
         /\ DOMAIN Append(d, p) = 1..(Len(d) + 1)
  OBVIOUS

\* A part that is not accepted, or comes after an exception; one that is put to the
\* message; one that ends it.
Left(r, p, s) ==
  (r.thrown \/ ~Messages!Accepts(r.asm.state, Messages!Indicator(p))) /\ s = r

MessageAdded(r, p, s) ==
  /\ ~r.thrown /\ Messages!Accepts(r.asm.state, Messages!Indicator(p)) /\ p.part # p.of
  /\ s.asm.state = "InFragment" /\ s.asm.data = Append(r.asm.data, p)
  /\ s.output = r.output /\ s.processed = r.processed /\ ~s.thrown

MessageEnded(r, p, s) ==
  /\ ~r.thrown /\ Messages!Accepts(r.asm.state, Messages!Indicator(p)) /\ p.part = p.of
  /\ s.asm.state = "NotStarted" /\ (~s.thrown => s.asm.data = <<>>)
  /\ s.output = Append(r.output, Append(r.asm.data, p))
  /\ s.processed = r.processed \/ s.processed = p.unit
  /\ Messages!IsWholeUnit(Append(r.asm.data, p)) /\ Append(r.asm.data, p)[1].sound =>
       s.processed = p.unit /\ ~s.thrown

LEMMA Assembled ==
  ASSUME Messages!SignallingAssumption, NEW r \in MessageResults, NEW p \in Messages!Parts, NEW m, NEW s,
         s = Messages!Assemble(r, p, m), r.asm.state # "Init"
  PROVE  /\ s \in MessageResults /\ s.asm.lastSeq = r.asm.lastSeq /\ s.asm.state # "Init"
         /\ Left(r, p, s) \/ MessageAdded(r, p, s) \/ MessageEnded(r, p, s)
<1>1. /\ r.asm \in Messages!Assemblers /\ r.output \in Seq(Seq(Messages!Parts)) /\ r.processed \in 0..MaxMessages
      /\ r.thrown \in BOOLEAN /\ r.asm.data \in Seq(Messages!Parts)
      /\ p.unit \in 0..MaxMessages
  BY DEF MessageResults, Messages!Assemblers, Messages!Parts, Messages!SignallingAssumption
<1>2. PICK fi : fi = Messages!Indicator(p)
  OBVIOUS
<1>3. PICK d \in Seq(Messages!Parts) : d = Append(r.asm.data, p)
  BY <1>1, AppendMessageParts
<1>4. PICK more : more = [r.asm EXCEPT !.data = Append(@, p), !.state = Messages!StateAfter(fi)]
  OBVIOUS
<1>5. /\ more \in Messages!Assemblers /\ more.data = d /\ more.state = Messages!StateAfter(fi)
      /\ more.lastSeq = r.asm.lastSeq
  BY <1>1, <1>2, <1>3, <1>4, MessageFragmentStates DEF Messages!Assemblers
<1>6. PICK end : end = Messages!Processing(d, m)
  OBVIOUS
<1>7. s = IF r.thrown \/ ~Messages!Accepts(r.asm.state, fi) THEN r
          ELSE IF ~Messages!Ends(fi) THEN [r EXCEPT !.asm = more]
          ELSE [asm       |-> IF end = "throws" THEN more ELSE Messages!Cleared(more),
                output    |-> Append(r.output, d),
                processed |-> IF end = "done" THEN p.unit ELSE r.processed,
                thrown    |-> end = "throws"]
  BY <1>2, <1>4, <1>5, <1>6 DEF Messages!Assemble
<1>8. CASE r.thrown \/ ~Messages!Accepts(r.asm.state, fi)
  BY <1>2, <1>7, <1>8 DEF Left
<1>9. CASE ~(r.thrown \/ ~Messages!Accepts(r.asm.state, fi)) /\ ~Messages!Ends(fi)
  <2>1. s = [r EXCEPT !.asm = more]
    BY <1>7, <1>9
  <2>2. s \in MessageResults /\ s.asm = more /\ s.output = r.output /\ s.processed = r.processed
        /\ s.thrown = r.thrown
    BY <1>5, <2>1 DEF MessageResults
  <2>3. more.state = "InFragment" /\ p.part # p.of
    BY <1>2, <1>5, <1>9, MessageFragmentStates
  <2> QED
    BY <1>2, <1>3, <1>5, <1>9, <2>2, <2>3 DEF MessageAdded
<1>10. CASE ~(r.thrown \/ ~Messages!Accepts(r.asm.state, fi)) /\ Messages!Ends(fi)
  <2>1. PICK a : a = IF end = "throws" THEN more ELSE Messages!Cleared(more)
    OBVIOUS
  <2>2. PICK n : n = IF end = "done" THEN p.unit ELSE r.processed
    OBVIOUS
  <2>3. PICK o : o = Append(r.output, d)
    OBVIOUS
  <2>4. PICK t : t = (end = "throws")
    OBVIOUS
  <2>5. s = [asm |-> a, output |-> o, processed |-> n, thrown |-> t]
    BY <1>7, <1>10, <2>1, <2>2, <2>3, <2>4
  <2>6. Messages!Cleared(more) \in Messages!Assemblers /\ Messages!Cleared(more).state = "NotStarted"
        /\ Messages!Cleared(more).data = <<>> /\ Messages!Cleared(more).lastSeq = more.lastSeq
    <3>1. <<>> \in Seq(Messages!Parts) /\ "NotStarted" \in Messages!States
      BY DEF Messages!States
    <3>2. PICK c : c = [more EXCEPT !.state = "NotStarted", !.data = <<>>]
      OBVIOUS
    <3>3. c \in Messages!Assemblers /\ c.state = "NotStarted" /\ c.data = <<>> /\ c.lastSeq = more.lastSeq
      BY <1>5, <3>1, <3>2 DEF Messages!Assemblers
    <3> QED
      BY <3>2, <3>3 DEF Messages!Cleared
  <2>7. more.state = "NotStarted" /\ p.part = p.of
    BY <1>2, <1>5, <1>10, MessageFragmentStates
  <2>8. a \in Messages!Assemblers /\ a.state = "NotStarted" /\ a.lastSeq = r.asm.lastSeq
        /\ (~t => a.data = <<>>)
    BY <1>5, <2>1, <2>4, <2>6, <2>7
  <2>9. n \in 0..MaxMessages /\ (n = r.processed \/ n = p.unit) /\ t \in BOOLEAN
    BY <1>1, <2>2, <2>4
  <2>10. o \in Seq(Seq(Messages!Parts))
    BY <1>1, <2>3
  <2>11. s \in MessageResults /\ s.asm = a /\ s.output = o /\ s.processed = n /\ s.thrown = t
    BY <2>5, <2>8, <2>9, <2>10 DEF MessageResults
  <2>12. Messages!IsWholeUnit(d) /\ d[1].sound => n = p.unit /\ ~t
    BY <1>6, <2>2, <2>4 DEF Messages!Processing
  <2>13. MessageEnded(r, p, s)
    BY <1>2, <1>3, <1>10, <2>3, <2>7, <2>8, <2>9, <2>11, <2>12 DEF MessageEnded
  <2> QED
    BY <2>8, <2>11, <2>13
<1> QED
  BY <1>8, <1>9, <1>10
-----------------------------------------------------------------------------
(* The steps.                                                              *)

LEMMA MessageSequenceNumbers ==
  ASSUME NEW M \in Nat \ {0}, NEW a \in 0..(M - 1), NEW k \in 0..(M - 1)
  PROVE  /\ (a + 1 + k) % M = (a + 1) % M => k = 0
         /\ (((a + 1 + k) % M) + 1) % M = (a + 1 + (k + 1)) % M
         /\ (a + 1) % M \in 0..(M - 1) /\ (a + 1 + k) % M \in 0..(M - 1)
<1>1. (a + 1 + k) % M = (a + 1) % M => k = 0
  OBVIOUS
<1>2. (((a + 1 + k) % M) + 1) % M = (a + 1 + (k + 1)) % M
  OBVIOUS
<1>3. (a + 1) % M \in 0..(M - 1) /\ (a + 1 + k) % M \in 0..(M - 1)
  OBVIOUS
<1> QED
  BY <1>1, <1>2, <1>3

\* The parts of a packet.
LEMMA OnAir ==
  ASSUME Messages!SignallingAssumption, AirShape, air # None
  PROVE  /\ air[1] \in Messages!Parts /\ Messages!Last(air) \in Messages!Parts
         /\ air[1].unit \in 1..MaxMessages /\ Messages!Last(air).unit \in 1..MaxMessages
         /\ air[1].part \in Nat \ {0} /\ air[1].unit <= Messages!Last(air).unit
         /\ Messages!Last(air).part <= Messages!Last(air).of
         /\ Messages!Last(air).part \in Nat \ {0} /\ Messages!Last(air).of \in Nat
<1>1. CASE \E p \in Messages!Parts : air = <<p>>
  <2>1. PICK p \in Messages!Parts : air = <<p>>
    BY <1>1
  <2>2. air[1] = p /\ Messages!Last(air) = p
    BY <2>1 DEF Messages!Last
  <2> QED
    BY <2>2 DEF Messages!Parts, Messages!SignallingAssumption
<1>2. CASE \E p \in Messages!Parts, q \in Messages!Parts :
             air = <<p, q>> /\ p.of = 1 /\ q.of = 1 /\ q.unit = p.unit + 1
  <2>1. PICK p \in Messages!Parts, q \in Messages!Parts :
          air = <<p, q>> /\ p.of = 1 /\ q.of = 1 /\ q.unit = p.unit + 1
    BY <1>2
  <2>2. air[1] = p /\ Messages!Last(air) = q
    BY <2>1 DEF Messages!Last
  <2> QED
    BY <2>1, <2>2 DEF Messages!Parts, Messages!SignallingAssumption
<1> QED
  BY <1>1, <1>2 DEF AirShape

\* The packets that begin a message.
LEMMA BeginningsAre ==
  ASSUME Messages!SignallingAssumption, NEW u \in Nat, NEW a \in Messages!Beginnings(u)
  PROVE  /\ a \in Seq(Messages!Parts) /\ a # None /\ a[1].unit = u /\ a[1].part = 1
         /\ \/ \E p \in Messages!Parts : a = <<p>>
            \/ \E p \in Messages!Parts, q \in Messages!Parts :
                 a = <<p, q>> /\ p.of = 1 /\ q.of = 1 /\ q.unit = p.unit + 1
<1>1. CASE a \in {<<p>> : p \in {q \in Messages!Parts : q.unit = u /\ q.part = 1}}
  <2>1. PICK p \in Messages!Parts : a = <<p>> /\ p.unit = u /\ p.part = 1
    BY <1>1
  <2>2. a \in Seq(Messages!Parts) /\ a[1] = p
    BY <2>1
  <2>3. a # None
    BY <2>2 DEF Messages!SignallingAssumption
  <2>4. \E w \in Messages!Parts : a = <<w>>
    BY <2>1, Zenon
  <2> QED
    BY <2>1, <2>2, <2>3, <2>4
<1>2. CASE a \in {<<p, q>> : p \in {w \in Messages!Parts : w.unit = u /\ w.of = 1},
                             q \in {w \in Messages!Parts : w.unit = u + 1 /\ w.of = 1}}
  <2>1. PICK p \in Messages!Parts, q \in Messages!Parts :
          a = <<p, q>> /\ p.unit = u /\ p.of = 1 /\ q.unit = u + 1 /\ q.of = 1
    BY <1>2
  <2>2. p.part = 1
    BY <2>1 DEF Messages!Parts, Messages!SignallingAssumption
  <2>3. a \in Seq(Messages!Parts) /\ a[1] = p
    BY <2>1
  <2>4. a # None
    BY <2>3 DEF Messages!SignallingAssumption
  <2>5. q.unit = p.unit + 1
    BY <2>1
  <2>6. \E v \in Messages!Parts, w \in Messages!Parts :
           a = <<v, w>> /\ v.of = 1 /\ w.of = 1 /\ w.unit = v.unit + 1
    BY <2>1, <2>5, Zenon
  <2> QED
    BY <2>1, <2>2, <2>3, <2>4, <2>6
<1> QED
  BY <1>1, <1>2 DEF Messages!Beginnings

\* What comes on air after a packet.
LEMMA NextMessageOnAir ==
  ASSUME Messages!SignallingAssumption, Messages!TypeOK, AirShape, air # None, Messages!Broadcast
  PROVE  /\ air' \in Seq(Messages!Parts) \cup {None} /\ seq' \in 0..(SeqModulus - 1)
         /\ AirShape'
         /\ air' # None /\ Messages!Last(air).part = Messages!Last(air).of =>
              air'[1].unit = Messages!Last(air).unit + 1 /\ air'[1].part = 1
         /\ air' # None /\ Messages!Last(air).part < Messages!Last(air).of =>
              /\ air'[1].unit = Messages!Last(air).unit /\ air'[1].part = Messages!Last(air).part + 1
              /\ air'[1].of = Messages!Last(air).of /\ air'[1].sound = Messages!Last(air).sound
         /\ air' # None => air'[1] \in Messages!Parts
         /\ air' # None => Messages!SentNumber' >= air'[1].unit
         /\ Messages!SentNumber' \in Nat /\ Messages!SentNumber' >= Messages!Last(air).unit
<1>1. PICK l \in Messages!Parts : l = Messages!Last(air)
  BY OnAir
<1>2. /\ l.unit \in 1..MaxMessages /\ l.part \in 1..MaxParts /\ l.of \in 1..MaxParts
      /\ l.part <= l.of /\ MaxMessages \in Nat /\ MaxParts \in Nat
      /\ SeqModulus \in Nat \ {0} /\ seq \in 0..(SeqModulus - 1) /\ None \notin Seq(Messages!Parts)
  BY DEF Messages!Parts, Messages!SignallingAssumption, Messages!TypeOK
<1>3. seq' \in 0..(SeqModulus - 1) /\ air' \in Messages!Following(l)
  BY <1>1, <1>2 DEF Messages!Broadcast
<1>4. CASE l.part < l.of
  <2>1. PICK n \in 1..MaxParts : n = l.part + 1
    BY <1>2, <1>4
  <2>2. PICK q : q = [l EXCEPT !.part = n]
    OBVIOUS
  <2>3. air' = <<q>>
    BY <1>3, <1>4, <2>1, <2>2 DEF Messages!Following
  <2>4. q \in Messages!Parts /\ q.unit = l.unit /\ q.part = l.part + 1 /\ q.of = l.of /\ q.sound = l.sound
    BY <1>2, <1>4, <2>1, <2>2 DEF Messages!Parts
  <2>5. air' \in Seq(Messages!Parts) /\ air' # None /\ air'[1] = q /\ Messages!Last(air') = q
    <3>1. air' \in Seq(Messages!Parts) /\ air'[1] = q /\ Len(air') = 1
      BY <2>3, <2>4
    <3>2. Messages!Last(air') = q
      BY <3>1 DEF Messages!Last
    <3> QED
      BY <1>2, <3>1, <3>2
  <2>6. Messages!SentNumber' = l.unit
    BY <2>4, <2>5 DEF Messages!SentNumber
  <2>7. AirShape'
    BY <2>3, <2>4 DEF AirShape
  <2> QED
    BY <1>1, <1>2, <1>3, <1>4, <2>3, <2>4, <2>5, <2>6, <2>7
<1>5. CASE l.part = l.of /\ l.unit = MaxMessages
  <2>1. air' = None
    BY <1>2, <1>3, <1>5 DEF Messages!Following
  <2> QED
    BY <1>1, <1>2, <1>3, <1>5, <2>1 DEF AirShape, Messages!SentNumber
<1>6. CASE l.part = l.of /\ l.unit # MaxMessages
  <2>1. PICK u \in Nat : u = l.unit + 1
    BY <1>2
  <2>2. air' \in Messages!Beginnings(u)
    BY <1>2, <1>3, <1>6, <2>1 DEF Messages!Following
  <2>3. air' \in Seq(Messages!Parts) /\ air' # None /\ air'[1].unit = u /\ air'[1].part = 1 /\ AirShape'
    BY <2>2, BeginningsAre DEF AirShape
  <2>4. Messages!SentNumber' = Messages!Last(air').unit /\ air'[1] \in Messages!Parts /\ Messages!Last(air').unit \in Nat
        /\ Messages!Last(air').unit >= u
    <3>1. CASE \E p \in Messages!Parts : air' = <<p>>
      <4>1. PICK p \in Messages!Parts : air' = <<p>>
        BY <3>1
      <4>2. air'[1] = p /\ Messages!Last(air') = p
        BY <4>1 DEF Messages!Last
      <4> QED
        BY <1>2, <2>3, <4>2 DEF Messages!SentNumber, Messages!Parts
    <3>2. CASE \E p \in Messages!Parts, q \in Messages!Parts :
                 air' = <<p, q>> /\ p.of = 1 /\ q.of = 1 /\ q.unit = p.unit + 1
      <4>1. PICK p \in Messages!Parts, q \in Messages!Parts :
              air' = <<p, q>> /\ p.of = 1 /\ q.of = 1 /\ q.unit = p.unit + 1
        BY <3>2
      <4>2. air'[1] = p /\ Messages!Last(air') = q
        BY <4>1 DEF Messages!Last
      <4> QED
        BY <1>2, <2>3, <4>1, <4>2 DEF Messages!SentNumber, Messages!Parts
    <3> QED
      BY <2>3, <3>1, <3>2 DEF AirShape
  <2> QED
    BY <1>1, <1>2, <1>3, <1>6, <2>1, <2>3, <2>4
<1> QED
  BY <1>2, <1>4, <1>5, <1>6

\* The assembler when it is given a packet: it has missed nothing, or keeps nothing.
LEMMA Checked ==
  ASSUME Messages!SignallingAssumption, MessagesInv, air # None
  PROVE  /\ Begun \in MessageResults /\ ~Begun.thrown /\ Begun.output = <<>>
         /\ Begun.processed = processed /\ Begun.asm.lastSeq = seq
         /\ Begun.asm.state # "Init"
         /\ \/ Begun.asm.state = "Skip" /\ Begun.asm.data = <<>>
            \/ /\ asm # None /\ lostRow = 0
               /\ Begun.asm.state = asm.state /\ Begun.asm.data = asm.data
         /\ asm # None /\ lostRow = 0 =>
              Begun.asm.state = asm.state /\ Begun.asm.data = asm.data
<1>1. /\ seq \in 0..(SeqModulus - 1) /\ asm \in Messages!Assemblers \cup {None} /\ SeqModulus \in Nat \ {0}
      /\ processed \in 0..MaxMessages /\ lostRow \in 0..(SeqModulus - 1)
  BY DEF MessagesInv, Messages!TypeOK, Messages!SignallingAssumption
<1>2. <<>> \in Seq(Messages!Parts) /\ "Skip" \in Messages!States /\ "Init" \in Messages!States /\ <<>> \in Seq(Seq(Messages!Parts))
  BY DEF Messages!States
<1>3. PICK a : a = Messages!CheckState(IF asm = None THEN Messages!NewAssembler ELSE asm)
  OBVIOUS
<1>4. Begun = [asm |-> a, output |-> <<>>, processed |-> processed, thrown |-> FALSE]
  BY <1>3 DEF Begun
<1>5. CASE asm = None
  <2>1. a = [Messages!NewAssembler EXCEPT !.state = "Skip", !.lastSeq = seq]
    BY <1>3, <1>5 DEF Messages!CheckState, Messages!NewAssembler
  <2>2. a = [state |-> "Skip", data |-> <<>>, lastSeq |-> seq]
    BY <2>1 DEF Messages!NewAssembler
  <2> QED
    BY <1>1, <1>2, <1>4, <1>5, <2>2 DEF Messages!Assemblers, MessageResults
<1>6. CASE asm # None
  <2>1. /\ asm \in Messages!Assemblers /\ asm.state # "Init" /\ asm.lastSeq \in 0..(SeqModulus - 1)
        /\ seq = (asm.lastSeq + 1 + lostRow) % SeqModulus
    BY <1>1, <1>6 DEF MessagesInv, MessagesInStep, Messages!Assemblers
  <2>2. PICK k \in 0..(SeqModulus - 1) : k = asm.lastSeq
    BY <2>1
  <2>3. CASE seq # (asm.lastSeq + 1) % SeqModulus
    <3>1. a = [state |-> "Skip", data |-> <<>>, lastSeq |-> seq]
      BY <1>3, <1>6, <2>1, <2>3 DEF Messages!CheckState
    <3>2. lostRow # 0
      <4>1. ASSUME lostRow = 0 PROVE k + 1 + lostRow = k + 1
        BY <4>1
      <4> QED
        BY <2>1, <2>2, <2>3, <4>1
    <3> QED
      BY <1>1, <1>2, <1>4, <3>1, <3>2 DEF Messages!Assemblers, MessageResults
  <2>4. CASE seq = (asm.lastSeq + 1) % SeqModulus
    <3>1. a = [asm EXCEPT !.lastSeq = seq]
      BY <1>3, <1>6, <2>1, <2>4 DEF Messages!CheckState
    <3>2. lostRow = 0
      <4>1. (k + 1 + lostRow) % SeqModulus = (k + 1) % SeqModulus
        BY <2>1, <2>2, <2>4
      <4> QED
        BY <1>1, <4>1, MessageSequenceNumbers, Zenon
    <3>3. a \in Messages!Assemblers /\ a.state = asm.state /\ a.data = asm.data /\ a.lastSeq = seq
      BY <1>1, <2>1, <3>1 DEF Messages!Assemblers
    <3> QED
      BY <1>1, <1>2, <1>4, <1>6, <2>1, <3>2, <3>3 DEF MessageResults
  <2> QED
    BY <2>3, <2>4
<1> QED
  BY <1>5, <1>6
-----------------------------------------------------------------------------
(* A sound part put to an undamaged message.                               *)

\* Data is kept in mid-message only, and is what was sent of it before p.
Intact(a, p) ==
  IF a.state = "InFragment" THEN a.data # <<>> /\ MessageGathered(a.data, p) ELSE a.data = <<>>

\* Data is what has been sent of a message once p has.
GatheredUpTo(data, p) ==
  \A n : n.unit = p.unit /\ n.part = p.part + 1 /\ n.of = p.of /\ n.sound = p.sound
           => MessageGathered(data, n)

LEMMA SoundPart ==
  ASSUME Messages!SignallingAssumption, NEW r \in MessageResults, NEW p \in Messages!Parts, NEW m, NEW s,
         s = Messages!Assemble(r, p, m), r.asm.state # "Init", ~r.thrown, p.sound, Intact(r.asm, p)
  PROVE  /\ ~s.thrown
         /\ s.asm.state # "InFragment" => s.asm.data = <<>>
         /\ s.asm.state = "InFragment" => s.asm.data # <<>> /\ p.part < p.of /\ GatheredUpTo(s.asm.data, p)
         /\ \/ s.output = r.output
            \/ \E d \in Seq(Messages!Parts) : Messages!IsWholeUnit(d) /\ s.output = Append(r.output, d)
         /\ r.asm.state = "InFragment" \/ p.part = 1 =>
              /\ p.part = p.of => s.processed = p.unit
              /\ p.part < p.of => s.asm.state = "InFragment"
<1>1. /\ r.asm \in Messages!Assemblers /\ r.asm.data \in Seq(Messages!Parts)
      /\ p.part \in 1..MaxParts /\ p.of \in 1..MaxParts /\ p.part <= p.of /\ MaxParts \in Nat
  BY DEF MessageResults, Messages!Assemblers, Messages!Parts, Messages!SignallingAssumption
<1>2. PICK a \in Messages!Assemblers : a = r.asm
  BY <1>1
<1>3. Messages!Begins(Messages!Indicator(p)) <=> p.part = 1
  BY MessageFragmentStates
<1>4. Messages!Accepts(a.state, Messages!Indicator(p)) <=> (p.part = 1 <=> a.state # "InFragment")
  BY <1>3 DEF Messages!Accepts
<1>5. PICK d \in Seq(Messages!Parts) : d = a.data
  BY <1>1, <1>2
<1>6. p.part = 1 => a.state # "InFragment"
  <2> SUFFICES ASSUME p.part = 1, a.state = "InFragment" PROVE FALSE
    OBVIOUS
  <2>1. d # <<>> /\ Len(d) = 0
    BY <1>2, <1>5 DEF Intact, MessageGathered
  <2> QED
    BY <2>1
<1>7. CASE Left(r, p, s)
  <2>1. s = r /\ ~Messages!Accepts(a.state, Messages!Indicator(p))
    BY <1>2, <1>7 DEF Left
  <2>2. p.part # 1 /\ a.state # "InFragment"
    BY <1>4, <1>6, <2>1
  <2> QED
    BY <1>2, <2>1, <2>2 DEF Intact
<1>8. CASE MessageAdded(r, p, s) \/ MessageEnded(r, p, s)
  <2>1. Messages!Accepts(a.state, Messages!Indicator(p))
    BY <1>2, <1>8 DEF MessageAdded, MessageEnded
  <2>2. /\ Len(d) = p.part - 1
        /\ \A i \in 1..Len(d) : /\ d[i].unit = p.unit /\ d[i].part = i
                                /\ d[i].of = p.of /\ d[i].sound = p.sound
    <3>1. CASE a.state = "InFragment"
      <4>1. MessageGathered(d, p)
        BY <1>2, <1>5, <3>1, Zenon DEF Intact
      <4>2. DOMAIN d = 1..Len(d)
        OBVIOUS
      <4> QED
        BY <4>1, <4>2 DEF MessageGathered
    <3>2. CASE a.state # "InFragment"
      <4>1. p.part = 1 /\ d = <<>>
        BY <1>2, <1>4, <1>5, <2>1, <3>2 DEF Intact
      <4> QED
        BY <4>1
    <3> QED
      BY <3>1, <3>2
  <2>3. PICK e \in Seq(Messages!Parts) : e = Append(d, p)
    BY AppendMessageParts
  <2>4. /\ Len(e) = p.part /\ e # <<>>
        /\ \A i \in 1..p.part : /\ e[i].unit = p.unit /\ e[i].part = i
                                /\ e[i].of = p.of /\ e[i].sound = p.sound
    <3>1. Len(e) = p.part /\ e # <<>> /\ e[p.part] = p /\ \A i \in 1..Len(d) : e[i] = d[i]
      BY <1>1, <2>2, <2>3, AppendMessageParts
    <3>2. ASSUME NEW i \in 1..p.part
          PROVE  e[i].unit = p.unit /\ e[i].part = i /\ e[i].of = p.of /\ e[i].sound = p.sound
      <4>1. i = p.part \/ i \in 1..Len(d)
        BY <1>1, <2>2
      <4> QED
        BY <2>2, <3>1, <4>1
    <3> QED
      BY <3>1, <3>2
  <2>5. CASE MessageAdded(r, p, s)
    <3>1. /\ p.part # p.of /\ s.asm.state = "InFragment" /\ s.asm.data = e
          /\ s.output = r.output /\ ~s.thrown
      BY <1>2, <1>5, <2>3, <2>5 DEF MessageAdded
    <3>2. ASSUME NEW n, n.unit = p.unit, n.part = p.part + 1, n.of = p.of, n.sound = p.sound
          PROVE  MessageGathered(e, n)
      <4>1. n.part - 1 = p.part /\ DOMAIN e = 1..p.part
        BY <1>1, <2>4, <3>2
      <4> QED
        BY <2>4, <3>2, <4>1 DEF MessageGathered
    <3>3. GatheredUpTo(s.asm.data, p)
      BY <3>1, <3>2, Zenon DEF GatheredUpTo
    <3>4. p.part < p.of /\ s.asm.data # <<>>
      BY <1>1, <2>4, <3>1
    <3> QED
      BY <3>1, <3>3, <3>4, Zenon
  <2>6. CASE MessageEnded(r, p, s)
    <3>1. /\ p.part = p.of /\ s.asm.state = "NotStarted" /\ (~s.thrown => s.asm.data = <<>>)
          /\ s.output = Append(r.output, e)
          /\ Messages!IsWholeUnit(e) /\ e[1].sound => s.processed = p.unit /\ ~s.thrown
      BY <1>2, <1>5, <2>3, <2>6 DEF MessageEnded
    <3>2. Messages!IsWholeUnit(e) /\ e[1].sound
      <4>1. 1 \in 1..p.part /\ DOMAIN e = 1..p.part
        BY <1>1, <2>4
      <4>2. e[1].unit = p.unit /\ e[1].of = p.of /\ e[1].sound = p.sound
        BY <2>4, <4>1
      <4>3. Messages!IsWholeUnit(e)
        BY <2>4, <3>1, <4>1, <4>2 DEF Messages!IsWholeUnit
      <4> QED
        BY <4>2, <4>3
    <3>3. ~(p.part < p.of) /\ s.asm.state # "InFragment"
      BY <1>1, <3>1
    <3>4. \E w \in Seq(Messages!Parts) : Messages!IsWholeUnit(w) /\ s.output = Append(r.output, w)
      BY <3>1, <3>2, Zenon
    <3> QED
      BY <3>1, <3>2, <3>3, <3>4, Zenon
  <2> QED
    BY <1>8, <2>5, <2>6, Zenon
<1> QED
  BY <1>7, <1>8, Assembled
-----------------------------------------------------------------------------
(* A packet that arrives intact.                                           *)

LEMMA PacketTaken ==
  ASSUME Messages!SignallingAssumption, MessagesInv, air # None, NEW m, NEW s, s = Messages!Demuxed(m)
  PROVE  /\ s \in MessageResults /\ s.asm.lastSeq = seq /\ s.asm.state # "Init"
         /\ s.processed = processed \/ s.processed \in air[1].unit..Messages!Last(air).unit
<1>1. PICK b \in MessageResults : b = Begun /\ b.asm.lastSeq = seq /\ b.asm.state # "Init"
                           /\ b.processed = processed
  BY Checked
<1>2. AirShape
  BY DEF MessagesInv
<1>3. CASE \E p \in Messages!Parts : air = <<p>> /\ s = Messages!Assemble(b, p, m)
  <2>1. PICK p \in Messages!Parts : air = <<p>> /\ s = Messages!Assemble(b, p, m)
    BY <1>3
  <2>2. /\ s \in MessageResults /\ s.asm.lastSeq = seq /\ s.asm.state # "Init"
        /\ Left(b, p, s) \/ MessageAdded(b, p, s) \/ MessageEnded(b, p, s)
    BY <1>1, <2>1, Assembled
  <2>3. s.processed = processed \/ s.processed = p.unit
    BY <1>1, <2>2 DEF Left, MessageAdded, MessageEnded
  <2>4. air[1] = p /\ Messages!Last(air) = p /\ p.unit \in Nat
    <3>1. Len(air) = 1 /\ air[1] = p
      BY <2>1
    <3>2. Messages!Last(air) = p
      BY <3>1 DEF Messages!Last
    <3> QED
      BY <3>1, <3>2 DEF Messages!Parts, Messages!SignallingAssumption
  <2> QED
    BY <2>2, <2>3, <2>4
<1>4. CASE \E p \in Messages!Parts, q \in Messages!Parts :
             /\ air = <<p, q>> /\ p.of = 1 /\ q.of = 1 /\ q.unit = p.unit + 1
             /\ s = Messages!Assemble(Messages!Assemble(b, p, m), q, m)
  <2>1. PICK p \in Messages!Parts, q \in Messages!Parts :
          /\ air = <<p, q>> /\ p.of = 1 /\ q.of = 1 /\ q.unit = p.unit + 1
          /\ s = Messages!Assemble(Messages!Assemble(b, p, m), q, m)
    BY <1>4
  <2>2. PICK c : c = Messages!Assemble(b, p, m)
    OBVIOUS
  <2>3. /\ c \in MessageResults /\ c.asm.lastSeq = seq /\ c.asm.state # "Init"
        /\ Left(b, p, c) \/ MessageAdded(b, p, c) \/ MessageEnded(b, p, c)
    BY <1>1, <2>2, Assembled
  <2>4. s = Messages!Assemble(c, q, m)
    BY <2>1, <2>2
  <2>5. /\ s \in MessageResults /\ s.asm.lastSeq = seq /\ s.asm.state # "Init"
        /\ Left(c, q, s) \/ MessageAdded(c, q, s) \/ MessageEnded(c, q, s)
    BY <2>3, <2>4, Assembled
  <2>6. c.processed = processed \/ c.processed = p.unit
    BY <1>1, <2>3 DEF Left, MessageAdded, MessageEnded
  <2>7. s.processed = c.processed \/ s.processed = q.unit
    BY <2>5 DEF Left, MessageAdded, MessageEnded
  <2>8. air[1] = p /\ Messages!Last(air) = q /\ p.unit \in Nat
    <3>1. Len(air) = 2 /\ air[1] = p /\ air[2] = q
      BY <2>1
    <3>2. Messages!Last(air) = q
      BY <3>1 DEF Messages!Last
    <3> QED
      BY <3>1, <3>2 DEF Messages!Parts, Messages!SignallingAssumption
  <2> QED
    BY <2>1, <2>5, <2>6, <2>7, <2>8
<1>5. \/ \E p \in Messages!Parts : air = <<p>> /\ s = Messages!Assemble(b, p, m)
      \/ \E p \in Messages!Parts, q \in Messages!Parts :
             /\ air = <<p, q>> /\ p.of = 1 /\ q.of = 1 /\ q.unit = p.unit + 1
             /\ s = Messages!Assemble(Messages!Assemble(b, p, m), q, m)
  <2>1. \/ \E p \in Messages!Parts : air = <<p>> /\ Messages!Demuxed(m) = Messages!Assemble(Begun, p, m)
        \/ \E p \in Messages!Parts, q \in Messages!Parts :
             /\ air = <<p, q>> /\ p.of = 1 /\ q.of = 1 /\ q.unit = p.unit + 1
             /\ Messages!Demuxed(m) = Messages!Assemble(Messages!Assemble(Begun, p, m), q, m)
    BY <1>2, PartsTaken
  <2> QED
    BY <1>1, <2>1, Zenon
<1> QED
  BY <1>3, <1>4, <1>5

\* An undamaged packet finds an undamaged assembler, or one that keeps nothing.
LEMMA FreshlyChecked ==
  ASSUME Messages!SignallingAssumption, MessagesInv, air # None, fresh \/ lostRow > 0
  PROVE  /\ Intact(Begun.asm, air[1])
         /\ heard => Begun.asm.state = "InFragment" \/ air[1].part = 1
<1>1. /\ \/ Begun.asm.state = "Skip" /\ Begun.asm.data = <<>>
         \/ /\ asm # None /\ lostRow = 0
            /\ Begun.asm.state = asm.state /\ Begun.asm.data = asm.data
      /\ asm # None /\ lostRow = 0 =>
           Begun.asm.state = asm.state /\ Begun.asm.data = asm.data
  BY Checked
<1>2. Intact(Begun.asm, air[1])
  <2>1. CASE Begun.asm.state = "Skip" /\ Begun.asm.data = <<>>
    BY <2>1 DEF Intact
  <2>2. CASE /\ asm # None /\ lostRow = 0
             /\ Begun.asm.state = asm.state /\ Begun.asm.data = asm.data
    <3>1. fresh
      BY <2>2
    <3>2. asm.state # "InFragment" => asm.data = <<>>
      BY <2>2, <3>1 DEF MessagesInv, Messages!TypeOK
    <3>3. asm.state = "InFragment" => asm.data # <<>> /\ MessageGathered(asm.data, air[1])
      BY <2>2, <3>1 DEF MessagesInv, FreshFragment
    <3> QED
      BY <2>2, <3>2, <3>3, Zenon DEF Intact
  <2> QED
    BY <1>1, <2>1, <2>2
<1>3. ASSUME heard, air[1].part # 1 PROVE Begun.asm.state = "InFragment"
  <2>1. air[1].part > 1
    BY <1>3, OnAir DEF MessagesInv
  <2>2. asm # None /\ lostRow = 0 /\ (fresh => asm.state = "InFragment")
    BY <1>3, <2>1 DEF MessagesInv, MessageHeardSoFar
  <2> QED
    BY <1>1, <2>2
<1> QED
  BY <1>2, <1>3, Zenon

LEMMA AppendWhole ==
  ASSUME NEW o \in Seq(Seq(Messages!Parts)), \A i \in DOMAIN o : Messages!IsWholeUnit(o[i]),
         NEW d \in Seq(Messages!Parts), Messages!IsWholeUnit(d), NEW n, n = Append(o, d)
  PROVE  \A i \in DOMAIN n : Messages!IsWholeUnit(n[i])
<1>1. DOMAIN n = 1..(Len(o) + 1) /\ DOMAIN o = 1..Len(o) /\ n[Len(o) + 1] = d
      /\ \A i \in 1..Len(o) : n[i] = o[i]
  OBVIOUS
<1>2. ASSUME NEW i \in DOMAIN n PROVE Messages!IsWholeUnit(n[i])
  <2>1. i \in DOMAIN o \/ i = Len(o) + 1
    BY <1>1
  <2> QED
    BY <1>1, <2>1, Zenon
<1> QED
  BY <1>2

LEMMA SoundPacketTaken ==
  ASSUME Messages!SignallingAssumption, MessagesInv, air # None, NEW m, NEW s, s = Messages!Demuxed(m),
         fresh \/ lostRow > 0, \A i \in DOMAIN air : air[i].sound
  PROVE  /\ s.asm.state # "InFragment" => s.asm.data = <<>>
         /\ s.asm.state = "InFragment" =>
              /\ s.asm.data # <<>> /\ Messages!Last(air).part < Messages!Last(air).of
              /\ GatheredUpTo(s.asm.data, Messages!Last(air))
         /\ \A i \in DOMAIN s.output : Messages!IsWholeUnit(s.output[i])
         /\ heard \/ air[1].part = 1 =>
              /\ Messages!Last(air).part = Messages!Last(air).of => s.processed = Messages!Last(air).unit
              /\ Messages!Last(air).part < Messages!Last(air).of => s.asm.state = "InFragment"
<1>1. PICK b \in MessageResults : /\ b = Begun /\ b.asm.state # "Init" /\ ~b.thrown /\ b.output = <<>>
  BY Checked
<1>2. /\ Intact(b.asm, air[1])
      /\ heard => b.asm.state = "InFragment" \/ air[1].part = 1
  BY <1>1, FreshlyChecked
<1>3. CASE \E p \in Messages!Parts : air = <<p>> /\ s = Messages!Assemble(b, p, m)
  <2>1. PICK p \in Messages!Parts : air = <<p>> /\ s = Messages!Assemble(b, p, m)
    BY <1>3
  <2>2. air[1] = p /\ Messages!Last(air) = p /\ p.sound
    <3>1. Len(air) = 1 /\ air[1] = p /\ 1 \in DOMAIN air
      BY <2>1
    <3>2. Messages!Last(air) = p
      BY <3>1 DEF Messages!Last
    <3> QED
      BY <3>1, <3>2
  <2>3. /\ s.asm.state # "InFragment" => s.asm.data = <<>>
        /\ s.asm.state = "InFragment" => s.asm.data # <<>> /\ p.part < p.of /\ GatheredUpTo(s.asm.data, p)
        /\ \/ s.output = b.output
           \/ \E d \in Seq(Messages!Parts) : Messages!IsWholeUnit(d) /\ s.output = Append(b.output, d)
        /\ b.asm.state = "InFragment" \/ p.part = 1 =>
              /\ p.part = p.of => s.processed = p.unit
              /\ p.part < p.of => s.asm.state = "InFragment"
    <3>1. Intact(b.asm, p)
      BY <1>2, <2>2
    <3>2. PICK c : c = Messages!Assemble(b, p, m)
      OBVIOUS
    <3>3. /\ c.asm.state # "InFragment" => c.asm.data = <<>>
          /\ c.asm.state = "InFragment" =>
               c.asm.data # <<>> /\ p.part < p.of /\ GatheredUpTo(c.asm.data, p)
          /\ \/ c.output = b.output
             \/ \E d \in Seq(Messages!Parts) : Messages!IsWholeUnit(d) /\ c.output = Append(b.output, d)
          /\ b.asm.state = "InFragment" \/ p.part = 1 =>
                /\ p.part = p.of => c.processed = p.unit
                /\ p.part < p.of => c.asm.state = "InFragment"
      BY <1>1, <2>2, <3>1, <3>2, SoundPart
    <3>4. s = c
      BY <2>1, <3>2
    <3> QED
      BY <3>3, <3>4, Zenon
  <2>4. \A i \in DOMAIN s.output : Messages!IsWholeUnit(s.output[i])
    <3>1. b.output \in Seq(Seq(Messages!Parts)) /\ \A i \in DOMAIN b.output : Messages!IsWholeUnit(b.output[i])
      BY <1>1 DEF MessageResults
    <3> QED
      BY <2>3, <3>1, AppendWhole, Zenon
  <2>5. PICK l \in Messages!Parts : l = p /\ l = Messages!Last(air)
    BY <2>2
  <2>6. s.asm.state = "InFragment" =>
          s.asm.data # <<>> /\ l.part < l.of /\ GatheredUpTo(s.asm.data, l)
    BY <2>3, <2>5, Zenon
  <2>7. heard \/ l.part = 1 =>
          /\ l.part = l.of => s.processed = l.unit
          /\ l.part < l.of => s.asm.state = "InFragment"
    BY <1>2, <2>2, <2>3, <2>5, Zenon
  <2>8. s.asm.state = "InFragment" =>
          s.asm.data # <<>> /\ Messages!Last(air).part < Messages!Last(air).of /\ GatheredUpTo(s.asm.data, Messages!Last(air))
    BY <2>5, <2>6
  <2>9. heard \/ air[1].part = 1 =>
          /\ Messages!Last(air).part = Messages!Last(air).of => s.processed = Messages!Last(air).unit
          /\ Messages!Last(air).part < Messages!Last(air).of => s.asm.state = "InFragment"
    <3>1. air[1] = l
      BY <2>2, <2>5
    <3> QED
      BY <1>2, <1>1, <2>5, <2>7, <2>3, <3>1, <2>2, Zenon
  <2> QED
    BY <2>3, <2>4, <2>8, <2>9, Zenon
<1>4. CASE \E p \in Messages!Parts, q \in Messages!Parts :
             /\ air = <<p, q>> /\ p.of = 1 /\ q.of = 1 /\ q.unit = p.unit + 1
             /\ s = Messages!Assemble(Messages!Assemble(b, p, m), q, m)
  <2>1. PICK p \in Messages!Parts, q \in Messages!Parts :
          /\ air = <<p, q>> /\ p.of = 1 /\ q.of = 1 /\ q.unit = p.unit + 1
          /\ s = Messages!Assemble(Messages!Assemble(b, p, m), q, m)
    BY <1>4
  <2>2. air[1] = p /\ Messages!Last(air) = q /\ p.sound /\ q.sound
    <3>1. Len(air) = 2 /\ air[1] = p /\ air[2] = q /\ 1 \in DOMAIN air /\ 2 \in DOMAIN air
      BY <2>1
    <3>2. Messages!Last(air) = q
      BY <3>1 DEF Messages!Last
    <3>3. air[1].sound /\ air[2].sound
      BY <3>1
    <3> QED
      BY <3>1, <3>2, <3>3
  <2>3. p.part = 1 /\ q.part = 1 /\ ~(p.part < p.of) /\ ~(q.part < q.of)
    BY <2>1 DEF Messages!Parts, Messages!SignallingAssumption
  <2>4. PICK c : c = Messages!Assemble(b, p, m)
    OBVIOUS
  <2>5. s = Messages!Assemble(c, q, m)
    BY <2>1, <2>4
  <2>6. c \in MessageResults /\ c.asm.state # "Init"
    BY <1>1, <2>4, Assembled
  <2>7. /\ ~c.thrown
        /\ c.asm.state # "InFragment" => c.asm.data = <<>>
        /\ c.asm.state # "InFragment"
        /\ c.output = b.output \/ \E d \in Seq(Messages!Parts) : Messages!IsWholeUnit(d) /\ c.output = Append(b.output, d)
    <3>1. Intact(b.asm, p)
      BY <1>2, <2>2
    <3>2. /\ ~c.thrown
          /\ c.asm.state # "InFragment" => c.asm.data = <<>>
          /\ c.asm.state = "InFragment" => p.part < p.of
          /\ c.output = b.output \/ \E d \in Seq(Messages!Parts) : Messages!IsWholeUnit(d) /\ c.output = Append(b.output, d)
      BY <1>1, <2>2, <2>4, <3>1, SoundPart
    <3> QED
      BY <2>3, <3>2, Zenon
  <2>8. Intact(c.asm, q)
    BY <2>7 DEF Intact
  <2>9. /\ s.asm.state # "InFragment" => s.asm.data = <<>>
        /\ s.asm.state = "InFragment" => q.part < q.of
        /\ s.output = c.output \/ \E d \in Seq(Messages!Parts) : Messages!IsWholeUnit(d) /\ s.output = Append(c.output, d)
        /\ q.part = 1 =>
              /\ q.part = q.of => s.processed = q.unit
              /\ q.part < q.of => s.asm.state = "InFragment"
    BY <2>2, <2>5, <2>6, <2>7, <2>8, SoundPart
  <2>10. \A i \in DOMAIN c.output : Messages!IsWholeUnit(c.output[i])
    <3>1. b.output \in Seq(Seq(Messages!Parts)) /\ \A i \in DOMAIN b.output : Messages!IsWholeUnit(b.output[i])
      BY <1>1 DEF MessageResults
    <3> QED
      BY <2>7, <3>1, AppendWhole, Zenon
  <2>11. \A i \in DOMAIN s.output : Messages!IsWholeUnit(s.output[i])
    <3>1. c.output \in Seq(Seq(Messages!Parts))
      BY <2>6 DEF MessageResults
    <3> QED
      BY <2>9, <2>10, <3>1, AppendWhole, Zenon
  <2>12. s.asm.state # "InFragment" /\ s.processed = q.unit
    BY <2>1, <2>3, <2>9, Zenon
  <2> QED
    BY <2>2, <2>3, <2>9, <2>11, <2>12, Zenon
<1>5. \/ \E p \in Messages!Parts : air = <<p>> /\ s = Messages!Assemble(b, p, m)
      \/ \E p \in Messages!Parts, q \in Messages!Parts :
             /\ air = <<p, q>> /\ p.of = 1 /\ q.of = 1 /\ q.unit = p.unit + 1
             /\ s = Messages!Assemble(Messages!Assemble(b, p, m), q, m)
  <2>1. \/ \E p \in Messages!Parts : air = <<p>> /\ Messages!Demuxed(m) = Messages!Assemble(Begun, p, m)
        \/ \E p \in Messages!Parts, q \in Messages!Parts :
             /\ air = <<p, q>> /\ p.of = 1 /\ q.of = 1 /\ q.unit = p.unit + 1
             /\ Messages!Demuxed(m) = Messages!Assemble(Messages!Assemble(Begun, p, m), q, m)
    BY PartsTaken DEF MessagesInv
  <2> QED
    BY <1>1, <2>1, Zenon
<1> QED
  BY <1>3, <1>4, <1>5
-----------------------------------------------------------------------------
(* The steps.                                                              *)

\* What a step does to the messages passed on: what UnitChannel allows.
MessageOnward ==
  /\ Messages!SentNumber' \in Nat /\ Messages!SentNumber' >= Messages!SentNumber
  /\ processed' = processed \/ processed' \in (processed + 1)..Messages!SentNumber

\* A packet that arrives.
LEMMA MessageIntact ==
  ASSUME Messages!SignallingAssumption, MessagesInv, Messages!ReceiveIntact
  PROVE  MessagesInv' /\ MessageOnward
<1>1. PICK m \in {"throws", "ignored"} :
        LET r == Messages!Demuxed(m) IN asm' = r.asm /\ output' = r.output /\ processed' = r.processed
  BY DEF Messages!ReceiveIntact
<1>2. PICK s : s = Messages!Demuxed(m)
  OBVIOUS
<1>3. asm' = s.asm /\ output' = s.output /\ processed' = s.processed
  BY <1>1, <1>2
<1>4. /\ air # None /\ lostRow' = 0 /\ Messages!Broadcast
      /\ heard' = (heard \/ Messages!Begins(Messages!Indicator(air[1])))
      /\ fresh' = ((fresh \/ lostRow > 0) /\ \A i \in DOMAIN air : air[i].sound)
      /\ arrived' = IF heard' /\ Messages!Last(air).part = Messages!Last(air).of /\ Messages!Last(air).sound
                    THEN [unit |-> Messages!Last(air).unit, fresh |-> fresh'] ELSE arrived
  BY DEF Messages!ReceiveIntact
<1>5. /\ s \in MessageResults /\ s.asm.lastSeq = seq /\ s.asm.state # "Init"
      /\ s.processed = processed \/ s.processed \in air[1].unit..Messages!Last(air).unit
  BY <1>2, <1>4, PacketTaken
<1>6. /\ air[1] \in Messages!Parts /\ Messages!Last(air) \in Messages!Parts
      /\ air[1].unit \in 1..MaxMessages /\ Messages!Last(air).unit \in 1..MaxMessages
      /\ air[1].part \in Nat \ {0} /\ air[1].unit <= Messages!Last(air).unit
      /\ Messages!Last(air).part <= Messages!Last(air).of
      /\ Messages!Last(air).part \in Nat \ {0} /\ Messages!Last(air).of \in Nat
  BY <1>4, OnAir DEF MessagesInv
<1>7. PICK l \in Messages!Parts : l = Messages!Last(air)
  BY <1>6
<1>8. /\ air' \in Seq(Messages!Parts) \cup {None} /\ seq' \in 0..(SeqModulus - 1)
      /\ AirShape'
      /\ air' # None /\ l.part = l.of => air'[1].unit = l.unit + 1 /\ air'[1].part = 1
      /\ air' # None /\ l.part < l.of =>
              /\ air'[1].unit = l.unit /\ air'[1].part = l.part + 1
              /\ air'[1].of = l.of /\ air'[1].sound = l.sound
      /\ air' # None => air'[1] \in Messages!Parts
      /\ Messages!SentNumber' \in Nat /\ Messages!SentNumber' >= l.unit
  BY <1>4, <1>7, NextMessageOnAir DEF MessagesInv
<1>9. /\ processed \in 0..MaxMessages /\ processed < air[1].unit /\ Messages!SentNumber = l.unit
      /\ MaxMessages \in Nat /\ SeqModulus \in Nat \ {0, 1}
      /\ seq \in 0..(SeqModulus - 1) /\ heard \in BOOLEAN /\ fresh \in BOOLEAN
      /\ arrived \in [unit : 0..MaxMessages, fresh : BOOLEAN]
  BY <1>4, <1>7 DEF MessagesInv, Messages!TypeOK, MessagesAhead, Messages!SentNumber, Messages!SignallingAssumption
<1>10. /\ s.asm \in Messages!Assemblers /\ s.output \in Seq(Seq(Messages!Parts)) /\ s.processed \in 0..MaxMessages
       /\ asm' # None
  BY <1>3, <1>5 DEF MessageResults, Messages!SignallingAssumption
<1>11. /\ l.unit \in 1..MaxMessages /\ l.part \in Nat \ {0} /\ l.of \in Nat /\ l.part <= l.of
       /\ air[1].unit <= l.unit
  BY <1>6, <1>7
<1>12. processed' \in processed..l.unit
  BY <1>3, <1>5, <1>6, <1>7, <1>9, <1>11
<1>13. heard' \in BOOLEAN /\ fresh' \in BOOLEAN /\ (heard' => heard \/ air[1].part = 1)
  <2>1. Messages!Begins(Messages!Indicator(air[1])) <=> air[1].part = 1
    BY <1>6, MessageFragmentStates
  <2>2. heard' \in BOOLEAN /\ fresh' \in BOOLEAN
    BY <1>4, <1>9
  <2> QED
    BY <1>4, <2>1, <2>2
<1>14. ASSUME fresh'
       PROVE  /\ s.asm.state # "InFragment" => s.asm.data = <<>>
              /\ s.asm.state = "InFragment" =>
                   s.asm.data # <<>> /\ l.part < l.of /\ GatheredUpTo(s.asm.data, l)
              /\ \A i \in DOMAIN s.output : Messages!IsWholeUnit(s.output[i])
              /\ heard' =>
                   /\ l.part = l.of => s.processed = l.unit
                   /\ l.part < l.of => s.asm.state = "InFragment"
  <2>1. fresh \/ lostRow > 0
    BY <1>4, <1>14
  <2>2. \A i \in DOMAIN air : air[i].sound
    BY <1>4, <1>14
  <2> QED
    BY <1>2, <1>4, <1>7, <1>13, <2>1, <2>2, SoundPacketTaken, Zenon
<1>15. arrived' \in [unit : 0..MaxMessages, fresh : BOOLEAN]
  <2>1. CASE heard' /\ l.part = l.of /\ l.sound
    BY <1>4, <1>7, <1>9, <1>11, <1>13, <2>1
  <2>2. CASE ~(heard' /\ l.part = l.of /\ l.sound)
    BY <1>4, <1>7, <1>9, <2>2
  <2> QED
    BY <2>1, <2>2
<1>16. Messages!TypeOK'
  <2>1. asm' # None /\ asm'.state # "InFragment" /\ fresh' => asm'.data = <<>>
    BY <1>3, <1>14
  <2>2. lostRow' \in 0..(SeqModulus - 1)
    BY <1>4, <1>9
  <2> QED
    BY <1>3, <1>8, <1>10, <1>13, <1>15, <2>1, <2>2 DEF Messages!TypeOK
<1>17. MessagesInStep'
  <2>1. seq' = (seq + 1) % SeqModulus /\ seq + 1 + 0 = seq + 1
    BY <1>4, <1>9 DEF Messages!Broadcast
  <2>2. seq' = (asm'.lastSeq + 1 + lostRow') % SeqModulus
    BY <1>3, <1>4, <1>5, <2>1
  <2> QED
    BY <1>3, <1>5, <2>2 DEF MessagesInStep
<1>18. FreshFragment'
  <2> SUFFICES ASSUME fresh', asm'.state = "InFragment"
               PROVE  asm'.data # <<>> /\ (air' # None => MessageGathered(asm'.data, air'[1]))
    BY DEF FreshFragment
  <2>1. s.asm.data # <<>> /\ l.part < l.of /\ GatheredUpTo(s.asm.data, l)
    BY <1>3, <1>14
  <2>2. ASSUME air' # None PROVE MessageGathered(s.asm.data, air'[1])
    BY <1>8, <2>1, <2>2, Zenon DEF GatheredUpTo
  <2> QED
    BY <1>3, <2>1, <2>2
<1>19. MessageHeardSoFar'
  <2> SUFFICES ASSUME heard', air' # None, air'[1].part > 1, fresh'
               PROVE  asm'.state = "InFragment"
    BY <1>4, <1>10 DEF MessageHeardSoFar
  <2>1. l.part < l.of
    BY <1>8, <1>11
  <2> QED
    BY <1>3, <1>14, <2>1
<1>20. MessagesAhead'
  <2> SUFFICES ASSUME air' # None PROVE processed' < air'[1].unit
    BY DEF MessagesAhead
  <2>1. CASE l.part = l.of
    <3>1. air'[1].unit = l.unit + 1
      BY <1>8, <2>1
    <3> QED
      BY <1>9, <1>11, <1>12, <3>1
  <2>2. CASE l.part < l.of
    <3>1. l = air[1]
      <4>1. CASE \E p \in Messages!Parts : air = <<p>>
        <5>1. PICK p \in Messages!Parts : air = <<p>>
          BY <4>1
        <5>2. Len(air) = 1 /\ air[1] = p
          BY <5>1
        <5> QED
          BY <1>7, <5>2 DEF Messages!Last
      <4>2. CASE \E p \in Messages!Parts, q \in Messages!Parts :
                   air = <<p, q>> /\ p.of = 1 /\ q.of = 1 /\ q.unit = p.unit + 1
        <5>1. PICK p \in Messages!Parts, q \in Messages!Parts : air = <<p, q>> /\ q.of = 1
          BY <4>2
        <5>2. Len(air) = 2 /\ air[2] = q
          BY <5>1
        <5>3. l = q
          BY <1>7, <5>2 DEF Messages!Last
        <5> QED
          BY <1>11, <2>2, <5>1, <5>3
      <4> QED
        BY <1>4, <4>1, <4>2 DEF MessagesInv, AirShape
    <3>2. s.processed # l.unit
      <4>1. \E p \in Messages!Parts : air = <<p>> /\ Messages!Demuxed(m) = Messages!Assemble(Begun, p, m)
        <5>1. \/ \E p \in Messages!Parts : air = <<p>> /\ Messages!Demuxed(m) = Messages!Assemble(Begun, p, m)
              \/ \E p \in Messages!Parts, q \in Messages!Parts :
                   /\ air = <<p, q>> /\ p.of = 1 /\ q.of = 1 /\ q.unit = p.unit + 1
                   /\ Messages!Demuxed(m) = Messages!Assemble(Messages!Assemble(Begun, p, m), q, m)
          BY <1>4, PartsTaken DEF MessagesInv
        <5>2. ASSUME NEW p \in Messages!Parts, NEW q \in Messages!Parts, air = <<p, q>>, p.of = 1 PROVE FALSE
          <6>1. air[1] = p
            BY <5>2
          <6> QED
            BY <1>11, <2>2, <3>1, <5>2, <6>1
        <5> QED
          BY <5>1, <5>2, Zenon
      <4>2. PICK p \in Messages!Parts : air = <<p>> /\ s = Messages!Assemble(Begun, p, m)
        BY <1>2, <4>1, Zenon
      <4>3. p = l
        BY <3>1, <4>2
      <4>4. Begun \in MessageResults /\ Begun.asm.state # "Init" /\ Begun.processed = processed
        BY <1>4, Checked
      <4>5. Left(Begun, p, s) \/ MessageAdded(Begun, p, s) \/ MessageEnded(Begun, p, s)
        BY <4>2, <4>4, Assembled
      <4>6. s.processed = processed
        BY <1>11, <2>2, <4>3, <4>4, <4>5 DEF Left, MessageAdded, MessageEnded
      <4> QED
        BY <1>9, <3>1, <4>6
    <3>3. air'[1].unit = l.unit
      BY <1>8, <2>2
    <3> QED
      BY <1>3, <1>9, <1>11, <1>12, <3>2, <3>3
  <2> QED
    BY <1>11, <2>1, <2>2
<1>21. Messages!WholeMessages'
  BY <1>3, <1>14 DEF Messages!WholeMessages
<1>22. Messages!UndamagedMessageProcessed'
  <2> SUFFICES ASSUME arrived'.fresh PROVE processed' >= arrived'.unit
    BY DEF Messages!UndamagedMessageProcessed
  <2>1. CASE heard' /\ l.part = l.of /\ l.sound
    <3>1. arrived' = [unit |-> l.unit, fresh |-> fresh']
      BY <1>4, <1>7, <2>1
    <3>2. arrived'.unit = l.unit /\ fresh'
      BY <3>1
    <3> QED
      BY <1>3, <1>11, <1>14, <2>1, <3>2
  <2>2. CASE ~(heard' /\ l.part = l.of /\ l.sound)
    <3>1. arrived' = arrived
      BY <1>4, <1>7, <2>2
    <3>2. processed >= arrived.unit /\ arrived.unit \in Nat
      BY <1>9, <3>1 DEF MessagesInv, Messages!UndamagedMessageProcessed
    <3> QED
      BY <1>9, <1>11, <1>12, <3>1, <3>2
  <2> QED
    BY <2>1, <2>2
<1>23. MessageOnward
  BY <1>8, <1>9, <1>11, <1>12 DEF MessageOnward
<1> QED
  BY <1>8, <1>16, <1>17, <1>18, <1>19, <1>20, <1>21, <1>22, <1>23 DEF MessagesInv

\* A packet that the assembler does not get to see.
LEMMA MissedStep ==
  ASSUME Messages!SignallingAssumption, MessagesInv, air # None, Messages!MissedByAssembler,
         output' = output \/ output' = <<>>
  PROVE  MessagesInv' /\ MessageOnward
<1>1. /\ lostRow < SeqModulus - 1 /\ lostRow' = lostRow + 1 /\ heard' = FALSE /\ Messages!Broadcast
      /\ UNCHANGED <<asm, processed, fresh, arrived>>
  BY DEF Messages!MissedByAssembler
<1>2. /\ seq \in 0..(SeqModulus - 1) /\ lostRow \in 0..(SeqModulus - 1) /\ SeqModulus \in Nat \ {0}
      /\ asm \in Messages!Assemblers \cup {None} /\ processed \in 0..MaxMessages /\ MaxMessages \in Nat
      /\ processed < air[1].unit
  BY DEF MessagesInv, Messages!TypeOK, MessagesAhead, Messages!SignallingAssumption
<1>3. PICK l \in Messages!Parts : l = Messages!Last(air)
  BY OnAir DEF MessagesInv
<1>4. /\ l.unit \in 1..MaxMessages /\ l.part \in Nat \ {0} /\ l.of \in Nat /\ l.part <= l.of
      /\ air[1].unit \in 1..MaxMessages /\ air[1].unit <= l.unit
  BY <1>3, OnAir DEF MessagesInv
<1>5. /\ air' \in Seq(Messages!Parts) \cup {None} /\ seq' \in 0..(SeqModulus - 1)
      /\ AirShape'
      /\ air' # None /\ l.part = l.of => air'[1].unit = l.unit + 1
      /\ air' # None /\ l.part < l.of => air'[1].unit = l.unit
      /\ Messages!SentNumber' \in Nat /\ Messages!SentNumber' >= l.unit
  BY <1>1, <1>3, NextMessageOnAir DEF MessagesInv
<1>6. Messages!SentNumber = l.unit
  BY <1>3 DEF Messages!SentNumber
<1>7. output' \in Seq(Seq(Messages!Parts)) /\ Messages!WholeMessages'
  <2>1. CASE output' = output
    BY <1>1, <2>1 DEF MessagesInv, Messages!TypeOK, Messages!WholeMessages
  <2>2. CASE output' = <<>>
    BY <2>2 DEF Messages!WholeMessages
  <2> QED
    BY <2>1, <2>2
<1>8. Messages!TypeOK'
  <2>1. lostRow' \in 0..(SeqModulus - 1)
    BY <1>1, <1>2
  <2>2. /\ asm # None /\ asm.state # "InFragment" /\ fresh => asm.data = <<>>
        /\ heard' \in BOOLEAN /\ fresh \in BOOLEAN
        /\ arrived \in [unit : 0..MaxMessages, fresh : BOOLEAN]
    BY <1>1 DEF MessagesInv, Messages!TypeOK
  <2> QED
    BY <1>1, <1>2, <1>5, <1>7, <2>1, <2>2 DEF Messages!TypeOK
<1>9. MessagesInStep'
  <2> SUFFICES ASSUME asm # None, air' # None
               PROVE  asm.state # "Init" /\ seq' = (asm.lastSeq + 1 + lostRow') % SeqModulus
    BY <1>1 DEF MessagesInStep, MessagesInv
  <2>1. /\ asm.state # "Init" /\ seq = (asm.lastSeq + 1 + lostRow) % SeqModulus
        /\ asm.lastSeq \in 0..(SeqModulus - 1)
    BY <1>2 DEF MessagesInv, MessagesInStep, Messages!Assemblers
  <2>2. (((asm.lastSeq + 1 + lostRow) % SeqModulus) + 1) % SeqModulus =
          (asm.lastSeq + 1 + (lostRow + 1)) % SeqModulus
    BY <1>2, <2>1, MessageSequenceNumbers, Zenon
  <2>3. seq' = (seq + 1) % SeqModulus
    BY <1>1 DEF Messages!Broadcast
  <2> QED
    BY <1>1, <2>1, <2>2, <2>3
<1>10. FreshFragment' /\ MessageHeardSoFar'
  BY <1>1, <1>2 DEF MessagesInv, FreshFragment, MessageHeardSoFar
<1>11. MessagesAhead'
  <2> SUFFICES ASSUME air' # None PROVE processed' < air'[1].unit
    BY DEF MessagesAhead
  <2>1. air'[1].unit = l.unit \/ air'[1].unit = l.unit + 1
    BY <1>4, <1>5
  <2> QED
    BY <1>1, <1>2, <1>4, <2>1
<1>12. Messages!UndamagedMessageProcessed'
  BY <1>1 DEF MessagesInv, Messages!UndamagedMessageProcessed
<1>13. MessageOnward
  BY <1>1, <1>4, <1>5, <1>6 DEF MessageOnward
<1> QED
  BY <1>5, <1>7, <1>8, <1>9, <1>10, <1>11, <1>12, <1>13 DEF MessagesInv

LEMMA SentIs == Messages!SignallingAssumption /\ MessagesInv => Messages!SentNumber \in Nat
<1> SUFFICES ASSUME Messages!SignallingAssumption, MessagesInv PROVE Messages!SentNumber \in Nat
  OBVIOUS
<1>1. CASE air = None
  BY <1>1 DEF Messages!SentNumber, Messages!SignallingAssumption
<1>2. CASE air # None
  BY <1>2, OnAir DEF Messages!SentNumber, MessagesInv
<1> QED
  BY <1>1, <1>2

\* All assemblers are dropped.
LEMMA DropStep ==
  ASSUME Messages!SignallingAssumption, MessagesInv, Messages!DropAssemblers
  PROVE  MessagesInv' /\ MessageOnward
<1>1. /\ asm' = None /\ output' = <<>> /\ heard' = FALSE /\ fresh' = TRUE
      /\ UNCHANGED <<air, seq, lostRow, processed, arrived>>
  BY DEF Messages!DropAssemblers
<1>2. Messages!SentNumber' = Messages!SentNumber
  BY <1>1 DEF Messages!SentNumber
<1>3. <<>> \in Seq(Seq(Messages!Parts))
  OBVIOUS
<1>4. Messages!TypeOK'
  BY <1>1, <1>3 DEF MessagesInv, Messages!TypeOK
<1>5. AirShape' /\ MessagesInStep' /\ FreshFragment' /\ MessageHeardSoFar' /\ MessagesAhead'
  BY <1>1 DEF MessagesInv, AirShape, MessagesInStep, FreshFragment, MessageHeardSoFar, MessagesAhead
<1>6. Messages!WholeMessages' /\ Messages!UndamagedMessageProcessed'
  BY <1>1 DEF MessagesInv, Messages!WholeMessages, Messages!UndamagedMessageProcessed
<1>7. MessageOnward
  BY <1>1, <1>2, SentIs DEF MessageOnward
<1> QED
  BY <1>4, <1>5, <1>6, <1>7 DEF MessagesInv

LEMMA MessagesStart == Messages!SignallingAssumption /\ Messages!Init => MessagesInv /\ Messages!Channel!Init
<1> SUFFICES ASSUME Messages!SignallingAssumption, Messages!Init PROVE MessagesInv /\ Messages!Channel!Init
  OBVIOUS
<1>1. /\ air \in Messages!Beginnings(1) /\ seq = 0 /\ lostRow = 0 /\ asm = None /\ output = <<>>
      /\ processed = 0 /\ heard = FALSE /\ fresh = TRUE
      /\ arrived = [unit |-> 0, fresh |-> TRUE]
  BY DEF Messages!Init
<1>2. air \in Seq(Messages!Parts) /\ air # None /\ air[1].unit = 1 /\ AirShape
  BY <1>1, BeginningsAre DEF AirShape
<1>3. MaxMessages \in Nat /\ SeqModulus \in Nat \ {0} /\ <<>> \in Seq(Seq(Messages!Parts))
  BY DEF Messages!SignallingAssumption
<1>4. Messages!TypeOK
  <2>1. seq \in 0..(SeqModulus - 1) /\ lostRow \in 0..(SeqModulus - 1)
        /\ processed \in 0..MaxMessages
    BY <1>1, <1>3
  <2>2. arrived \in [unit : 0..MaxMessages, fresh : BOOLEAN]
    BY <1>1, <1>3
  <2> QED
    BY <1>1, <1>2, <1>3, <2>1, <2>2 DEF Messages!TypeOK
<1>5. MessagesInStep /\ FreshFragment /\ MessageHeardSoFar /\ MessagesAhead
  BY <1>1, <1>2 DEF MessagesInStep, FreshFragment, MessageHeardSoFar, MessagesAhead
<1>6. Messages!WholeMessages /\ Messages!UndamagedMessageProcessed
  BY <1>1 DEF Messages!WholeMessages, Messages!UndamagedMessageProcessed
<1>7. MessagesInv
  BY <1>2, <1>4, <1>5, <1>6 DEF MessagesInv
<1>8. Messages!Channel!Init
  BY <1>1, <1>6, <1>7, SentIs DEF Messages!Channel!Init, Messages!WholeProcessed
<1> QED
  BY <1>7, <1>8

\* What the steps do to the messages and to the abstract channel.
LEMMA MessagesStep ==
  ASSUME Messages!SignallingAssumption, MessagesInv, [Messages!Next]_(Messages!vars)
  PROVE  /\ MessagesInv'
         /\ [Messages!Channel!Next]_<<Messages!SentNumber, Messages!WholeProcessed>>
<1>1. ASSUME Messages!Next PROVE MessagesInv' /\ MessageOnward
  <2>1. CASE Messages!ReceiveIntact
    BY <2>1, MessageIntact
  <2>2. CASE Messages!Lose
    BY <2>2, MissedStep DEF Messages!Lose
  <2>3. CASE Messages!ReceiveMalformed
    BY <2>3, MissedStep DEF Messages!ReceiveMalformed
  <2>4. CASE Messages!DropAssemblers
    BY <2>4, DropStep
  <2> QED
    BY <1>1, <2>1, <2>2, <2>3, <2>4 DEF Messages!Next
<1>2. ASSUME UNCHANGED Messages!vars PROVE MessagesInv' /\ MessageOnward
  <2>1. Messages!SentNumber' = Messages!SentNumber
    BY <1>2 DEF Messages!vars, Messages!SentNumber
  <2>2. Messages!TypeOK' /\ AirShape' /\ MessagesInStep' /\ FreshFragment'
    BY <1>2 DEF Messages!vars, MessagesInv, Messages!TypeOK, AirShape, MessagesInStep, FreshFragment
  <2>3. MessageHeardSoFar' /\ MessagesAhead' /\ Messages!WholeMessages' /\ Messages!UndamagedMessageProcessed'
    BY <1>2 DEF Messages!vars, MessagesInv, MessageHeardSoFar, MessagesAhead, Messages!WholeMessages, Messages!UndamagedMessageProcessed
  <2>4. MessageOnward
    BY <1>2, <2>1, SentIs DEF MessageOnward, Messages!vars
  <2> QED
    BY <2>2, <2>3, <2>4 DEF MessagesInv
<1>3. MessagesInv' /\ MessageOnward
  BY <1>1, <1>2
<1>4. Messages!WholeProcessed = processed /\ Messages!WholeProcessed' = processed'
  BY <1>3 DEF MessagesInv, Messages!WholeProcessed
<1>5. Messages!Channel!Next
  BY <1>3, <1>4 DEF MessageOnward, Messages!Channel!Next, Messages!Channel!SendOn, Messages!Channel!Deliver
<1> QED
  BY <1>3, <1>5

-----------------------------------------------------------------------------
(* The decoding times.                                                     *)


\* The recording on air is the first, or one whose first packet to arrive had a lower
\* MPU number than the last: nothing is kept of another.
Settled == ~forward /\ (air.rec = 1 \/ lastRec = air.rec)

\* What is received does not run ahead of what is on air, and what has been received
\* of an MPU is counted, as far as it has got a time.
InStep ==
  /\ lastMpu # None => lastMpu <= air.mpu
  /\ lastMpu = air.mpu => air.au > 0 /\ auIndex <= air.au
  /\ ~missed /\ air.au > 0 => lastMpu = air.mpu /\ auIndex = air.au

\* The tables are of this recording, hold nothing from further ahead than is
\* announced, and have all that was announced.
TablesCurrent ==
  /\ \A m \in DOMAIN mpuTimestamps : mpuTimestamps[m] = air.rec /\ m <= air.mpu + Ahead + 1
  /\ \A m \in DOMAIN mpuExtendedTimestamps :
       mpuExtendedTimestamps[m] = air.rec /\ m <= air.mpu + Ahead + 1
  /\ \A m \in 0..MaxMpu : <<"basic", m>> \in announced => m \in DOMAIN mpuTimestamps
  /\ \A m \in 0..MaxMpu : <<"extended", m>> \in announced => m \in DOMAIN mpuExtendedTimestamps

TimingInv ==
  /\ TypeOK
  /\ lastRec <= air.rec
  /\ air.rec = 1 => ~forward
  /\ \A a \in announced : a[2] >= air.mpu
  /\ Settled => InStep /\ TablesCurrent
  /\ RightTime

-----------------------------------------------------------------------------
(* Sums.                                                                   *)

\* A non-empty set of numbers has a least one.
LEMMA LeastNumber ==
  ASSUME NEW T \in SUBSET Nat, T # {}
  PROVE  \E n \in T : \A m \in T : n <= m
<1>1. PICK n \in T : \A m \in T : ~(<<m, n>> \in OpToRel(<, Nat))
  BY NatLessThanWellFounded, WFMin
<1>2. OpToRel(<, Nat) = {ss \in Nat \X Nat : ss[1] < ss[2]}
  BY Zenon DEF OpToRel
<1>3. PICK R : R = OpToRel(<, Nat)
  OBVIOUS
<1>4. R = {ss \in Nat \X Nat : ss[1] < ss[2]} /\ \A m \in T : <<m, n>> \notin R
  BY <1>1, <1>2, <1>3, Zenon
<1>5. \A m \in T : m \in Nat /\ n \in Nat /\ ~(m < n)
  BY <1>4
<1> QED
  BY <1>5

\* Numbers up to a limit, from 0 on one after the other, are all of them.
LEMMA UpTo ==
  ASSUME NEW L \in Nat, NEW T, 0 \in T, \A n \in 1..L : n - 1 \in T => n \in T
  PROVE  \A n \in 0..L : n \in T
<1> DEFINE U == {n \in 0..L : n \notin T}
<1> SUFFICES ASSUME U # {} PROVE FALSE
  OBVIOUS
<1>1. U \in SUBSET Nat
  OBVIOUS
<1>2. PICK n \in U : \A m \in U : n <= m
  <2> HIDE DEF U
  <2> QED
    BY <1>1, LeastNumber
<1>3. n \in 0..L /\ n \notin T
  BY DEF U
<1>4. n # 0 /\ n - 1 \in 0..L
  BY <1>3
<1>5. n - 1 \notin U
  BY <1>2, <1>3, <1>4
<1>6. n - 1 \in T
  BY <1>4, <1>5
<1>7. n \in 1..L
  BY <1>3, <1>4
<1> QED
  BY <1>3, <1>6, <1>7

LEMMA SumExists ==
  ASSUME NEW s \in Seq(Nat)
  PROVE  \E f : f = [k \in 0..Len(s) |-> IF k = 0 THEN 0 ELSE f[k - 1] + s[k]]
<1> DEFINE G(f, n) == f = [k \in 0..n |-> IF k = 0 THEN 0 ELSE f[k - 1] + s[k]]
           T == {n \in 0..Len(s) : \E f : G(f, n)}
<1>1. 0 \in T
  <2>1. PICK f : f = [k \in 0..0 |-> 0]
    OBVIOUS
  <2>2. G(f, 0)
    BY <2>1
  <2> QED
    BY <2>2
<1>2. ASSUME NEW n \in 1..Len(s), n - 1 \in T PROVE n \in T
  <2>1. PICK f : G(f, n - 1)
    BY <1>2
  <2>2. PICK g : g = [k \in 0..n |-> IF k = n THEN f[n - 1] + s[n] ELSE f[k]]
    OBVIOUS
  <2>3. PICK h : h = [k \in 0..n |-> IF k = 0 THEN 0 ELSE g[k - 1] + s[k]]
    OBVIOUS
  <2>4. ASSUME NEW k \in 0..n PROVE g[k] = h[k]
    <3>1. CASE k = 0
      <4>1. 0 \in 0..(n - 1) /\ k # n
        BY <3>1
      <4>2. f[0] = 0
        BY <2>1, <4>1
      <4> QED
        BY <2>2, <2>3, <3>1, <4>1, <4>2
    <3>2. CASE k # 0 /\ k # n
      <4>1. k \in 0..(n - 1) /\ k - 1 \in 0..n /\ k - 1 # n
        BY <3>2
      <4>2. f[k] = f[k - 1] + s[k]
        BY <2>1, <3>2, <4>1
      <4>3. g[k - 1] = f[k - 1] /\ g[k] = f[k] /\ h[k] = g[k - 1] + s[k]
        BY <2>2, <2>3, <3>2, <4>1
      <4> QED
        BY <4>2, <4>3
    <3>3. CASE k # 0 /\ k = n
      <4>1. n - 1 \in 0..n /\ n - 1 # n
        BY <3>3
      <4>2. g[n - 1] = f[n - 1] /\ g[n] = f[n - 1] + s[n] /\ h[n] = g[n - 1] + s[n]
        BY <2>2, <2>3, <3>3, <4>1
      <4> QED
        BY <3>3, <4>2
    <3> QED
      BY <3>1, <3>2, <3>3
  <2>5. g = h
    BY <2>2, <2>3, <2>4
  <2>6. G(g, n)
    BY <2>3, <2>5
  <2> QED
    BY <2>6
<1>3. \A n \in 0..Len(s) : n \in T
  <2> Len(s) \in Nat
    OBVIOUS
  <2> HIDE DEF T
  <2> QED
    BY <1>1, <1>2, UpTo
<1>4. Len(s) \in 0..Len(s)
  OBVIOUS
<1> QED
  BY <1>3, <1>4

\* The sum, term by term.
LEMMA SumSteps ==
  ASSUME NEW s \in Seq(Nat)
  PROVE  /\ SumOf(s, 0) = 0
         /\ \A n \in 1..Len(s) : SumOf(s, n) = SumOf(s, n - 1) + s[n]
<1> DEFINE G(f) == f = [k \in 0..Len(s) |-> IF k = 0 THEN 0 ELSE f[k - 1] + s[k]]
           sum == CHOOSE f : G(f)
<1>1. G(sum)
  <2>1. \E f : G(f)
    BY SumExists
  <2> HIDE DEF G
  <2> QED
    BY <2>1, Zenon
<1>2. \A n : SumOf(s, n) = sum[n]
  BY Zenon DEF SumOf
<1> HIDE DEF sum
<1>3. 0 \in 0..Len(s) /\ \A n \in 1..Len(s) : n \in 0..Len(s) /\ n # 0
  OBVIOUS
<1>4. \A k \in 0..Len(s) : sum[k] = IF k = 0 THEN 0 ELSE sum[k - 1] + s[k]
  BY <1>1, Zenon
<1>5. sum[0] = 0 /\ \A n \in 1..Len(s) : sum[n] = sum[n - 1] + s[n]
  BY <1>3, <1>4, Zenon
<1> QED
  BY <1>2, <1>5, Zenon

LEMMA SumNat ==
  ASSUME NEW s \in Seq(Nat)
  PROVE  \A n \in 0..Len(s) : SumOf(s, n) \in Nat
<1> DEFINE T == {n \in 0..Len(s) : SumOf(s, n) \in Nat}
<1>1. 0 \in T
  BY SumSteps
<1>2. ASSUME NEW n \in 1..Len(s), n - 1 \in T PROVE n \in T
  <2>1. SumOf(s, n) = SumOf(s, n - 1) + s[n] /\ SumOf(s, n - 1) \in Nat /\ s[n] \in Nat
    BY <1>2, SumSteps
  <2> QED
    BY <2>1
<1>3. Len(s) \in Nat
  OBVIOUS
<1>4. \A n \in 0..Len(s) : n \in T
  <2> HIDE DEF T
  <2> QED
    BY <1>1, <1>2, <1>3, UpTo
<1> QED
  BY <1>4

\* More terms make no less.
LEMMA SumGrows ==
  ASSUME NEW s \in Seq(Nat), NEW i \in 0..Len(s)
  PROVE  \A n \in 0..Len(s) : i <= n => SumOf(s, i) <= SumOf(s, n)
<1> DEFINE T == {n \in 0..Len(s) : i <= n => SumOf(s, i) <= SumOf(s, n)}
<1>1. 0 \in T
  <2>1. i <= 0 => i = 0
    OBVIOUS
  <2>2. SumOf(s, 0) = 0
    BY SumSteps
  <2> QED
    BY <2>1, <2>2
<1>2. ASSUME NEW n \in 1..Len(s), n - 1 \in T PROVE n \in T
  <2>1. /\ SumOf(s, n) = SumOf(s, n - 1) + s[n] /\ s[n] \in Nat
        /\ SumOf(s, n - 1) \in Nat /\ SumOf(s, n) \in Nat /\ SumOf(s, i) \in Nat
    BY SumSteps, SumNat
  <2>2. i <= n => i = n \/ i <= n - 1
    OBVIOUS
  <2>3. i <= n - 1 => SumOf(s, i) <= SumOf(s, n - 1)
    BY <1>2
  <2>4. i = n => SumOf(s, i) = SumOf(s, n)
    OBVIOUS
  <2>5. i <= n => SumOf(s, i) <= SumOf(s, n)
    BY <2>1, <2>2, <2>3, <2>4
  <2> QED
    BY <2>5
<1>3. Len(s) \in Nat
  OBVIOUS
<1>4. \A n \in 0..Len(s) : n \in T
  <2> HIDE DEF T
  <2> QED
    BY <1>1, <1>2, <1>3, UpTo
<1> QED
  BY <1>4

\* Equal terms.
LEMMA SumOfEqual ==
  ASSUME NEW s \in Seq(Nat), NEW c \in Nat, \A i \in 1..Len(s) : s[i] = c
  PROVE  \A n \in 0..Len(s) : SumOf(s, n) = n * c
<1> DEFINE T == {n \in 0..Len(s) : SumOf(s, n) = n * c}
<1>1. 0 \in T
  BY SumSteps
<1>2. ASSUME NEW n \in 1..Len(s), n - 1 \in T PROVE n \in T
  <2>1. SumOf(s, n) = SumOf(s, n - 1) + c /\ SumOf(s, n - 1) = (n - 1) * c
    BY <1>2, SumSteps
  <2>2. (n - 1) * c + c = n * c
    OBVIOUS
  <2> QED
    BY <2>1, <2>2
<1>3. Len(s) \in Nat
  OBVIOUS
<1>4. \A n \in 0..Len(s) : n \in T
  <2> HIDE DEF T
  <2> QED
    BY <1>1, <1>2, <1>3, UpTo
<1> QED
  BY <1>4

-----------------------------------------------------------------------------
(* The tables.                                                             *)

\* Nothing in it is from further ahead than is announced.
Orderly(t) ==
  /\ lastMpu # None => lastMpu <= air.mpu
  /\ \A m \in DOMAIN t : m <= air.mpu + Ahead + 1

\* What entries for some MPUs make of a table: what is current stays.
Grown(t, u, mpus) ==
  /\ TableOK(u)
  /\ \A m \in DOMAIN u : (m \in DOMAIN t /\ u[m] = t[m]) \/ (m \in mpus /\ u[m] = air.rec)
  /\ Orderly(t) => \A m \in DOMAIN t \cup mpus : m >= air.mpu => m \in DOMAIN u

LEMMA EnteredIs ==
  ASSUME TimingAssumption, TypeOK, NEW t, TableOK(t), NEW mpu \in 0..MaxMpu,
         NEW u \in Entered(t, mpu)
  PROVE  Grown(t, u, {mpu})
<1>1. PICK gone \in Overwritten(t, mpu) :
        u = [m \in (DOMAIN t \ gone) \cup {mpu} |-> IF m = mpu THEN air.rec ELSE t[m]]
  BY DEF Entered
<1>2. PICK D : D = DOMAIN t
  OBVIOUS
<1>3. /\ D \subseteq 0..MaxMpu /\ Cardinality(D) <= MaxEntries /\ MaxMpu \in Nat
      /\ MaxEntries \in Nat /\ Ahead \in Nat /\ MaxEntries > Ahead + 2
      /\ air.mpu \in 0..MaxMpu /\ air.rec \in 1..Recordings /\ Range(t) \subseteq 1..Recordings
      /\ lastMpu \in 0..MaxMpu \cup {None}
  BY <1>2 DEF TableOK, TimingAssumption, TypeOK, Units
<1>4. IsFiniteSet(D) /\ Cardinality(D) \in Nat
  <2>1. IsFiniteSet(0..MaxMpu)
    BY <1>3, FS_Interval
  <2> QED
    BY <1>3, <2>1, FS_Subset, FS_CardinalityType
<1>5. PICK E : E = (D \ gone) \cup {mpu}
  OBVIOUS
<1>6. DOMAIN u = E /\ \A m \in E : u[m] = IF m = mpu THEN air.rec ELSE t[m]
  BY <1>1, <1>2, <1>5
<1>7. \/ mpu \in D /\ gone = {mpu}
      \/ mpu \notin D /\ \E m \in D : Outdated(m) /\ gone = {m}
      \/ mpu \notin D /\ Cardinality(D) < MaxEntries /\ gone = {}
      \/ /\ mpu \notin D /\ ~(Cardinality(D) < MaxEntries)
         /\ \E m \in D : (\A n \in D : m <= n) /\ gone = {m}
  BY <1>2, Zenon DEF Overwritten
<1>8. Cardinality(E) <= MaxEntries
  <2>1. CASE mpu \in D /\ gone = {mpu}
    <3>1. E = D
      BY <1>5, <2>1
    <3> QED
      BY <1>3, <3>1
  <2>2. ASSUME mpu \notin D, NEW m \in D, gone = {m} PROVE Cardinality(E) <= MaxEntries
    <3>1. IsFiniteSet(D \ {m}) /\ Cardinality(D \ {m}) = Cardinality(D) - 1
      BY <1>4, FS_RemoveElement
    <3>2. mpu \notin D \ {m} /\ E = (D \ {m}) \cup {mpu}
      BY <1>5, <2>2
    <3>3. Cardinality(E) = Cardinality(D \ {m}) + 1
      BY <3>1, <3>2, FS_AddElement
    <3> QED
      BY <1>3, <1>4, <3>1, <3>3
  <2>3. CASE mpu \notin D /\ Cardinality(D) < MaxEntries /\ gone = {}
    <3>1. E = D \cup {mpu}
      BY <1>5, <2>3
    <3>2. Cardinality(E) = Cardinality(D) + 1
      BY <1>4, <2>3, <3>1, FS_AddElement
    <3> QED
      BY <1>3, <1>4, <2>3, <3>2
  <2> QED
    BY <1>7, <2>1, <2>2, <2>3, Zenon
<1>9. TableOK(u)
  <2>1. E \subseteq 0..MaxMpu
    BY <1>3, <1>5
  <2>2. ASSUME NEW m \in E PROVE u[m] \in 1..Recordings
    <3>1. CASE m = mpu
      BY <1>3, <1>6, <3>1
    <3>2. CASE m # mpu
      <4>1. m \in DOMAIN t /\ u[m] = t[m]
        BY <1>2, <1>5, <1>6, <3>2
      <4> QED
        BY <1>3, <4>1 DEF Range
    <3> QED
      BY <3>1, <3>2
  <2>3. Range(u) \subseteq 1..Recordings
    BY <1>6, <2>2 DEF Range
  <2> QED
    BY <1>6, <1>8, <2>1, <2>3 DEF TableOK
<1>10. \A m \in DOMAIN u : (m \in DOMAIN t /\ u[m] = t[m]) \/ (m \in {mpu} /\ u[m] = air.rec)
  BY <1>2, <1>5, <1>6
<1>11. ASSUME Orderly(t), NEW m \in DOMAIN t \cup {mpu}, m >= air.mpu PROVE m \in DOMAIN u
  <2> SUFFICES ASSUME m # mpu PROVE m \notin gone
    BY <1>2, <1>5, <1>6
  <2>0. m \in D /\ m \in 0..MaxMpu
    BY <1>2, <1>3
  <2>1. ASSUME NEW n \in D, Outdated(n), gone = {n} PROVE m \notin gone
    <3>1. n < lastMpu /\ lastMpu <= air.mpu /\ lastMpu \in 0..MaxMpu /\ n \in 0..MaxMpu
      BY <1>3, <1>11, <2>1 DEF Outdated, Orderly
    <3> QED
      BY <1>3, <1>11, <2>0, <2>1, <3>1
  <2>2. ASSUME ~(Cardinality(D) < MaxEntries), NEW n \in D, \A o \in D : n <= o, gone = {n}
        PROVE  m \notin gone
    <3> SUFFICES ASSUME n >= air.mpu PROVE FALSE
      BY <1>11, <2>2
    <3>1. D \subseteq air.mpu..(air.mpu + Ahead + 1)
      <4> SUFFICES ASSUME NEW o \in D PROVE o \in air.mpu..(air.mpu + Ahead + 1)
        OBVIOUS
      <4>1. n <= o /\ o <= air.mpu + Ahead + 1 /\ o \in Nat /\ n \in Nat
        BY <1>2, <1>3, <1>11, <2>2 DEF Orderly
      <4> QED
        BY <1>3, <4>1
    <3>2. /\ IsFiniteSet(air.mpu..(air.mpu + Ahead + 1))
          /\ Cardinality(air.mpu..(air.mpu + Ahead + 1)) = Ahead + 2
      <4>1. PICK a \in Int, b \in Int : a = air.mpu /\ b = air.mpu + Ahead + 1
        BY <1>3
      <4>2. /\ IsFiniteSet(a..b)
            /\ Cardinality(a..b) = IF a > b THEN 0 ELSE b - a + 1
        BY FS_Interval
      <4>3. ~(a > b) /\ b - a + 1 = Ahead + 2
        BY <1>3, <4>1
      <4>4. Cardinality(a..b) = Ahead + 2
        BY <4>2, <4>3
      <4> QED
        BY <4>1, <4>2, <4>4, Zenon
    <3>3. Cardinality(D) <= Ahead + 2
      BY <3>1, <3>2, FS_Subset
    <3> QED
      BY <1>3, <1>4, <2>2, <3>3
  <2> QED
    BY <1>7, <2>1, <2>2
<1> QED
  BY <1>9, <1>10, <1>11 DEF Grown

LEMMA FilledIs ==
  ASSUME TimingAssumption, TypeOK, NEW t, TableOK(t), NEW first \in Nat, first < MaxMpu,
         first <= air.mpu + Ahead,
         NEW taken \in SUBSET {first, first + 1}, NEW u \in Filled(t, first, taken)
  PROVE  Grown(t, u, taken)
<1>1. PICK v \in IF first \in taken THEN Entered(t, first) ELSE {t} :
        u \in IF first + 1 \in taken THEN Entered(v, first + 1) ELSE {v}
  BY DEF Filled
<1>2. first \in 0..MaxMpu /\ first + 1 \in 0..MaxMpu /\ MaxMpu \in Nat /\ Ahead \in Nat
      /\ air.mpu \in Nat
  <2>1. MaxMpu \in Nat /\ Ahead \in Nat
    BY DEF TimingAssumption
  <2>2. air.mpu \in 0..MaxMpu
    BY DEF TypeOK, Units
  <2> QED
    BY <2>1, <2>2
<1>3. PICK A : A = taken \cap {first}
  OBVIOUS
<1>4. PICK B : B = taken \cap {first + 1}
  OBVIOUS
<1>5. taken = A \cup B /\ A \subseteq {first} /\ B \subseteq {first + 1}
  BY <1>3, <1>4
<1>6. \A w : TableOK(w) => Grown(w, w, {})
  BY DEF Grown
<1>7. Grown(t, v, A)
  <2>1. CASE first \in taken
    <3>1. A = {first} /\ v \in Entered(t, first)
      BY <1>1, <1>3, <2>1
    <3> QED
      BY <1>2, <3>1, EnteredIs
  <2>2. CASE first \notin taken
    <3>1. A = {} /\ v = t
      BY <1>1, <1>3, <2>2
    <3> QED
      BY <1>6, <3>1, Zenon
  <2> QED
    BY <2>1, <2>2
<1>8. TableOK(v)
  BY <1>7 DEF Grown
<1>9. Grown(v, u, B)
  <2>1. CASE first + 1 \in taken
    <3>1. B = {first + 1} /\ u \in Entered(v, first + 1)
      BY <1>1, <1>4, <2>1
    <3> QED
      BY <1>2, <1>8, <3>1, EnteredIs
  <2>2. CASE first + 1 \notin taken
    <3>1. B = {} /\ u = v
      BY <1>1, <1>4, <2>2
    <3> QED
      BY <1>6, <1>8, <3>1, Zenon
  <2> QED
    BY <2>1, <2>2
<1>10. Orderly(t) => Orderly(v)
  <2> SUFFICES ASSUME Orderly(t), NEW m \in DOMAIN v PROVE m <= air.mpu + Ahead + 1
    BY DEF Orderly
  <2>1. m \in DOMAIN t \/ m = first
    BY <1>5, <1>7 DEF Grown
  <2> QED
    BY <1>2, <2>1 DEF Orderly
<1>11. TableOK(u)
  BY <1>9 DEF Grown
<1>12. \A m \in DOMAIN u : (m \in DOMAIN t /\ u[m] = t[m]) \/ (m \in taken /\ u[m] = air.rec)
  BY <1>5, <1>7, <1>9 DEF Grown
<1>13. Orderly(t) => \A m \in DOMAIN t \cup taken : m >= air.mpu => m \in DOMAIN u
  BY <1>5, <1>7, <1>9, <1>10 DEF Grown
<1> QED
  BY <1>11, <1>12, <1>13 DEF Grown

-----------------------------------------------------------------------------
(* The times.                                                              *)

\* The offsets of the access units of an MPU.
LEMMA OffsetsAre ==
  ASSUME TimingAssumption, TypeOK, NEW m \in 0..MaxMpu
  PROVE  /\ offsets[m] \in Seq(Nat) /\ offsets[m] # <<>> /\ Len(offsets[m]) \in Nat \ {0}
         /\ Duration(m) \in Nat
<1>1. offsets[m] \in Seq(Nat \ {0}) \ {<<>>}
  BY DEF TimingAssumption, TypeOK
<1>2. PICK s \in Seq(Nat) : s = offsets[m]
  BY <1>1
<1>3. Len(s) \in 0..Len(s) /\ s # <<>> /\ Len(s) \in Nat
  BY <1>1, <1>2
<1>4. SumOf(s, Len(s)) \in Nat
  BY <1>3, SumNat
<1>5. Len(s) # 0
  BY <1>3
<1> QED
  BY <1>2, <1>3, <1>4, <1>5 DEF Duration

LEMMA DurationsAre ==
  ASSUME TimingAssumption, TypeOK
  PROVE  /\ [m \in 1..MaxMpu |-> Duration(m - 1)] \in Seq(Nat)
         /\ Len([m \in 1..MaxMpu |-> Duration(m - 1)]) = MaxMpu
         /\ \A rec \in Nat, mpu \in 0..MaxMpu : TimeOfMpu(rec, mpu) \in Nat
<1>1. MaxMpu \in Nat
  BY DEF TimingAssumption
<1>2. PICK d : d = [m \in 1..MaxMpu |-> Duration(m - 1)]
  OBVIOUS
<1>3. \A m \in 1..MaxMpu : m - 1 \in 0..MaxMpu
  BY <1>1
<1>4. \A m \in 1..MaxMpu : Duration(m - 1) \in Nat
  BY <1>3, OffsetsAre, Zenon
<1>5. d \in Seq(Nat) /\ Len(d) = MaxMpu
  BY <1>1, <1>2, <1>4
<1>6. \A mpu \in 0..MaxMpu : SumOf(d, mpu) \in Nat
  BY <1>5, SumNat
<1>7. \A rec \in Nat, mpu \in 0..MaxMpu : TimeOfMpu(rec, mpu) \in Nat
  <2> SUFFICES ASSUME NEW rec \in Nat, NEW mpu \in 0..MaxMpu PROVE TimeOfMpu(rec, mpu) \in Nat
    OBVIOUS
  <2>1. TimeOfMpu(rec, mpu) = 1000 * rec + SumOf(d, mpu)
    BY <1>2 DEF TimeOfMpu
  <2> QED
    BY <1>6, <2>1
<1> QED
  BY <1>2, <1>5, <1>7

\* Times are numbers.
LEMMA TimesAreInt ==
  ASSUME TimingAssumption, TypeOK, NEW basic, TableOK(basic), NEW extended,
         NEW t \in Times(basic, extended)
  PROVE  t \in Int
<1>1. /\ air.mpu \in 0..MaxMpu /\ MaxMpu \in Nat /\ auIndex \in Nat
      /\ AuIndexNow \in Nat
  BY DEF TimingAssumption, TypeOK, Units, AuIndexNow
<1>2. \A m \in DOMAIN basic : m \in 0..MaxMpu /\ TimeOfMpu(basic[m], m) \in Nat
  <2> SUFFICES ASSUME NEW m \in DOMAIN basic PROVE m \in 0..MaxMpu /\ TimeOfMpu(basic[m], m) \in Nat
    OBVIOUS
  <2>1. m \in 0..MaxMpu /\ basic[m] \in 1..Recordings /\ Recordings \in Nat
    BY DEF TableOK, Range, TimingAssumption
  <2>2. basic[m] \in Nat
    BY <2>1
  <2> QED
    BY <2>1, <2>2, DurationsAre
<1>3. CASE ~Described(basic, extended)
  <2>1. PICK m \in Anchors(basic, extended) :
          /\ EvenlySpaced(m)
          /\ t = TimeOfMpu(basic[m], m) - (m - air.mpu) * Len(offsets[m]) * offsets[m][1]
                   + AuIndexNow * offsets[m][1]
    BY <1>3 DEF Times, Extrapolated
  <2>2. m \in DOMAIN basic
    BY <2>1 DEF Anchors
  <2>3. /\ m \in 0..MaxMpu /\ TimeOfMpu(basic[m], m) \in Nat
        /\ offsets[m] \in Seq(Nat) /\ offsets[m] # <<>> /\ Len(offsets[m]) \in Nat \ {0}
    BY <1>2, <2>2, OffsetsAre
  <2>4. PICK s \in Seq(Nat) : s = offsets[m]
    BY <2>3
  <2>5. s[1] \in Nat /\ Len(s) \in Nat
    BY <2>3, <2>4
  <2>6. PICK c \in Nat : c = s[1]
    BY <2>5
  <2>7. PICK l \in Nat : l = Len(s)
    BY <2>5
  <2>8. PICK n \in Nat : n = AuIndexNow
    BY <1>1
  <2>9. PICK k \in Int : k = m - air.mpu
    BY <1>1, <2>3
  <2>10. PICK b \in Nat : b = TimeOfMpu(basic[m], m)
    BY <2>3
  <2>11. t = b - k * l * c + n * c
    BY <2>1, <2>4, <2>6, <2>7, <2>8, <2>9, <2>10
  <2>12. k * l \in Int /\ n * c \in Int
    OBVIOUS
  <2>13. k * l * c \in Int
    BY <2>12
  <2> QED
    BY <2>11, <2>12, <2>13
<1>4. CASE Described(basic, extended)
  <2>1. /\ AuIndexNow < Len(offsets[air.mpu])
        /\ t = TimeOfMpu(basic[air.mpu], air.mpu) + SumOf(offsets[air.mpu], AuIndexNow)
    BY <1>4, <1>1, OffsetsAre DEF Times
  <2>2. air.mpu \in DOMAIN basic
    BY <1>4 DEF Described
  <2>3. PICK s \in Seq(Nat) : s = offsets[air.mpu]
    BY <1>1, OffsetsAre
  <2>4. AuIndexNow \in 0..Len(s)
    BY <1>1, <2>1, <2>3
  <2>5. SumOf(s, AuIndexNow) \in Nat
    BY <2>4, SumNat
  <2> QED
    BY <1>2, <2>1, <2>2, <2>3, <2>5
<1> QED
  BY <1>3, <1>4

\* A time from tables of the recording on air is the right one, for the access unit
\* that the count says.
LEMMA TimesAreRight ==
  ASSUME TimingAssumption, TypeOK, NEW basic, TableOK(basic), NEW extended,
         \A m \in DOMAIN basic : basic[m] = air.rec,
         AuIndexNow <= air.au,
         Described(basic, extended) \/ AllAlike,
         NEW t \in Times(basic, extended)
  PROVE  /\ t <= TrueTime(air)
         /\ t >= TimeOfMpu(air.rec, air.mpu)
         /\ AuIndexNow = air.au => t = TrueTime(air)
<1>1. /\ air.mpu \in 0..MaxMpu /\ MaxMpu \in Nat /\ air.rec \in Nat /\ air.au \in Nat
      /\ air.au < Len(offsets[air.mpu]) /\ AuIndexNow \in Nat
  BY DEF TimingAssumption, TypeOK, Units, AuIndexNow
<1>2. PICK s \in Seq(Nat) : s = offsets[air.mpu] /\ s # <<>> /\ Len(s) \in Nat \ {0}
  BY <1>1, OffsetsAre
<1>3. PICK n \in 0..Len(s) : n = AuIndexNow
  BY <1>1, <1>2
<1>4. PICK a \in 0..Len(s) : a = air.au
  BY <1>1, <1>2
<1>5. n <= a
  BY <1>3, <1>4
<1>6. SumOf(s, n) \in Nat /\ SumOf(s, a) \in Nat /\ SumOf(s, n) <= SumOf(s, a)
  BY <1>5, SumNat, SumGrows
<1>7. PICK b \in Nat : b = TimeOfMpu(air.rec, air.mpu)
  BY <1>1, DurationsAre
<1>8. TrueTime(air) = b + SumOf(s, a)
  BY <1>2, <1>4, <1>7 DEF TrueTime
<1>9. t = b + SumOf(s, n)
  <2>1. CASE Described(basic, extended)
    <3>1. t = TimeOfMpu(basic[air.mpu], air.mpu) + SumOf(offsets[air.mpu], AuIndexNow)
      BY <2>1, <1>1, OffsetsAre DEF Times
    <3>2. basic[air.mpu] = air.rec
      BY <2>1 DEF Described
    <3> QED
      BY <1>2, <1>3, <1>7, <3>1, <3>2
  <2>2. CASE ~Described(basic, extended) /\ AllAlike
    <3>1. PICK m \in Anchors(basic, extended) :
            /\ EvenlySpaced(m)
            /\ t = TimeOfMpu(basic[m], m) - (m - air.mpu) * Len(offsets[m]) * offsets[m][1]
                     + AuIndexNow * offsets[m][1]
      BY <2>2 DEF Times, Extrapolated
    <3>2. m \in DOMAIN basic /\ m \in 0..MaxMpu /\ basic[m] = air.rec
      BY <3>1 DEF Anchors, TableOK
    <3>3. \A k \in 0..MaxMpu : offsets[k] = s
      <4>1. DOMAIN offsets = 0..MaxMpu
        BY DEF TypeOK, TimingAssumption
      <4> QED
        BY <1>1, <1>2, <2>2, <4>1 DEF AllAlike
    <3>4. offsets[m] = s
      BY <3>2, <3>3
    <3>5. PICK c \in Nat : c = s[1]
      BY <1>2
    <3>6. PICK l \in Nat : l = Len(s)
      BY <1>2
    <3>7. \A i \in 1..Len(s) : s[i] = c
      BY <3>1, <3>4, <3>5 DEF EvenlySpaced
    <3>8. \A i \in 0..Len(s) : SumOf(s, i) = i * c
      BY <3>7, SumOfEqual
    <3>9. PICK d \in Nat : d = l * c
      OBVIOUS
    <3>10. \A k \in 0..MaxMpu : Duration(k) = d
      <4>1. SumOf(s, Len(s)) = d
        BY <1>2, <3>6, <3>8, <3>9
      <4> QED
        BY <3>3, <4>1 DEF Duration
    <3>11. PICK e \in Seq(Nat) : e = [k \in 1..MaxMpu |-> Duration(k - 1)] /\ Len(e) = MaxMpu
      BY DurationsAre
    <3>12. \A k \in 1..Len(e) : e[k] = d
      <4>1. \A k \in 1..MaxMpu : k - 1 \in 0..MaxMpu
        BY <1>1
      <4>2. \A k \in 1..MaxMpu : e[k] = Duration(k - 1)
        BY <3>11
      <4> QED
        BY <3>10, <3>11, <4>1, <4>2, Zenon
    <3>13. \A k \in 0..MaxMpu : SumOf(e, k) = k * d
      <4>1. \A k \in 0..Len(e) : SumOf(e, k) = k * d
        BY <3>12, SumOfEqual
      <4> QED
        BY <3>11, <4>1, Zenon
    <3>14. \A k \in 0..MaxMpu : TimeOfMpu(air.rec, k) = 1000 * air.rec + SumOf(e, k)
      <4> DEFINE g == [m_1 \in 1..MaxMpu |-> Duration(m_1 - 1)]
      <4>1. \A k \in 0..MaxMpu : TimeOfMpu(air.rec, k) = 1000 * air.rec + SumOf(g, k)
        BY Zenon DEF TimeOfMpu
      <4>2. g = e
        BY <3>11, Zenon
      <4> HIDE DEF g
      <4> QED
        BY <4>1, <4>2
    <3>15. PICK r \in Nat : r = 1000 * air.rec
      BY <1>1
    <3>16. PICK i \in 0..MaxMpu : i = air.mpu
      BY <1>1
    <3>17. b = r + i * d
      BY <1>7, <3>13, <3>14, <3>15, <3>16
    <3>18. TimeOfMpu(basic[m], m) = r + m * d
      BY <3>2, <3>13, <3>14, <3>15
    <3>19. t = (r + m * d) - (m - i) * l * c + n * c
      <4>1. t = TimeOfMpu(basic[m], m) - (m - i) * l * c + n * c
        <5>1. offsets[m][1] = c /\ Len(offsets[m]) = l
          BY <3>4, <3>5, <3>6
        <5> QED
          BY <1>3, <3>1, <3>16, <5>1, Zenon
      <4>2. PICK w : w = TimeOfMpu(basic[m], m)
        OBVIOUS
      <4>3. t = w - (m - i) * l * c + n * c
        BY <4>1, <4>2, Zenon
      <4>4. w = r + m * d
        BY <3>18, <4>2
      <4> QED
        BY <4>3, <4>4, Zenon
    <3>20. m * d - (m - i) * l * c = i * d
      <4>1. m \in Int /\ i \in Int
        BY <1>1, <3>2
      <4>2. (m - i) * l * c = (m - i) * (l * c)
        BY <4>1
      <4>3. (m - i) * d = m * d - i * d
        BY <4>1
      <4>4. m * d \in Int /\ i * d \in Int
        BY <4>1
      <4> QED
        BY <3>9, <4>2, <4>3, <4>4
    <3>21. SumOf(s, n) = n * c
      BY <3>8
    <3>22. PICK x \in Int : x = m * d
      BY <1>1, <3>2
    <3>23. PICK y \in Int : y = (m - i) * l * c
      <4>1. (m - i) * l \in Int
        BY <1>1, <3>2
      <4>2. (m - i) * l * c \in Int
        BY <4>1
      <4> QED
        BY <4>2
    <3>24. PICK z \in Int : z = i * d
      BY <1>1
    <3>25. x - y = z /\ t = r + x - y + SumOf(s, n) /\ b = r + z
      BY <3>17, <3>19, <3>20, <3>21, <3>22, <3>23, <3>24
    <3> QED
      BY <1>6, <3>25
  <2> QED
    BY <2>1, <2>2
<1> QED
  BY <1>3, <1>4, <1>6, <1>7, <1>8, <1>9

-----------------------------------------------------------------------------
(* The steps.                                                              *)

LEMMA TimingStart == TimingAssumption /\ Init => TimingInv
<1> SUFFICES ASSUME TimingAssumption, Init PROVE TimingInv
  OBVIOUS
<1>1. /\ offsets \in Assets /\ air = [rec |-> 1, mpu |-> 0, au |-> 0] /\ missed = FALSE
      /\ lastMpu = None /\ auIndex = 0 /\ mpuTimestamps = <<>> /\ mpuExtendedTimestamps = <<>>
      /\ announced = {} /\ lastRec = 0 /\ forward = FALSE /\ given = None
  BY DEF Init
<1>2. /\ MaxMpu \in Nat /\ Recordings \in Nat \ {0} /\ MaxEntries \in Nat /\ None \notin Int
      /\ 0 \in 0..MaxMpu
  BY DEF TimingAssumption
<1>3. TableOK(<<>>)
  <2>1. DOMAIN <<>> = {}
    OBVIOUS
  <2>2. Range(<<>>) = {}
    BY <2>1 DEF Range
  <2>3. Cardinality({}) = 0
    BY FS_EmptySet
  <2> QED
    BY <1>2, <2>1, <2>2, <2>3 DEF TableOK
<1>4. offsets[0] \in Seq(Nat \ {0}) \ {<<>>}
  BY <1>1, <1>2 DEF TimingAssumption
<1>5. 0 < Len(offsets[0])
  BY <1>4
<1>6. air \in Units /\ air.au < Len(offsets[air.mpu])
  BY <1>1, <1>2, <1>5 DEF Units
<1>7. TypeOK
  <2>1. missed \in BOOLEAN /\ forward \in BOOLEAN /\ lastMpu \in 0..MaxMpu \cup {None}
    BY <1>1
  <2>2. auIndex \in Nat /\ announced \subseteq {"basic", "extended"} \X (0..MaxMpu)
    BY <1>1
  <2>3. lastRec \in 0..Recordings /\ given \in Results
    BY <1>1, <1>2 DEF Results
  <2> QED
    BY <1>1, <1>3, <1>6, <2>1, <2>2, <2>3, Zenon DEF TypeOK
<1>8. InStep /\ TablesCurrent
  BY <1>1, <1>2 DEF InStep, TablesCurrent
<1> QED
  BY <1>1, <1>7, <1>8 DEF TimingInv, RightTime

LEMMA AnnounceStep ==
  ASSUME TimingAssumption, TimingInv, Announce
  PROVE  TimingInv'
<1>1. PICK first \in air.mpu - 1..air.mpu + Ahead, carries \in SUBSET {"basic", "extended"} :
        /\ first >= 0 /\ first < MaxMpu
        /\ mpuTimestamps' \in
             IF "basic" \in carries THEN Filled(mpuTimestamps, first, {first, first + 1})
             ELSE {mpuTimestamps}
        /\ mpuExtendedTimestamps' \in
             IF "extended" \in carries
             THEN Filled(mpuExtendedTimestamps, first,
                         {m \in {first, first + 1} : ~Outdated(m)})
             ELSE {mpuExtendedTimestamps}
        /\ announced' = announced
             \cup (carries \cap {"basic"}) \X {m \in {first, first + 1} : m >= air.mpu}
             \cup (carries \cap {"extended"}) \X
                    ({m \in {first, first + 1} : m >= air.mpu}
                       \cap {m \in {first, first + 1} : ~Outdated(m)})
        /\ given' = None
        /\ UNCHANGED <<offsets, air, missed, lastMpu, auIndex, lastRec, forward>>
  BY DEF Announce
<1>2. PICK mpus : mpus = {first, first + 1}
  OBVIOUS
<1>3. PICK news : news = {m \in mpus : ~Outdated(m)}
  OBVIOUS
<1>4. PICK from : from = {m \in mpus : m >= air.mpu}
  OBVIOUS
<1>5. /\ mpuTimestamps' \in
           IF "basic" \in carries THEN Filled(mpuTimestamps, first, mpus) ELSE {mpuTimestamps}
      /\ mpuExtendedTimestamps' \in
           IF "extended" \in carries THEN Filled(mpuExtendedTimestamps, first, news)
           ELSE {mpuExtendedTimestamps}
      /\ announced' = announced \cup (carries \cap {"basic"}) \X from
                                \cup (carries \cap {"extended"}) \X (from \cap news)
      /\ given' = None
      /\ UNCHANGED <<offsets, air, missed, lastMpu, auIndex, lastRec, forward>>
  BY <1>1, <1>2, <1>3, <1>4
<1>6. /\ air.mpu \in Nat /\ Ahead \in Nat /\ MaxMpu \in Nat /\ first \in Nat /\ first < MaxMpu
      /\ first <= air.mpu + Ahead /\ mpus \subseteq 0..MaxMpu
      /\ \A m \in mpus : m <= air.mpu + Ahead + 1
  <2>1. air.mpu \in 0..MaxMpu /\ MaxMpu \in Nat /\ Ahead \in Nat
    BY DEF TimingInv, TypeOK, Units, TimingAssumption
  <2>2. air.mpu \in Nat
    BY <2>1
  <2>3. first \in air.mpu - 1..air.mpu + Ahead /\ first >= 0 /\ first < MaxMpu
    BY <1>1
  <2>4. first \in Nat /\ first <= air.mpu + Ahead
    BY <2>1, <2>2, <2>3
  <2> QED
    BY <1>2, <2>1, <2>2, <2>3, <2>4
<1>7. TableOK(mpuTimestamps) /\ TableOK(mpuExtendedTimestamps) /\ TypeOK
  BY DEF TimingInv, TypeOK, TableOK
<1>8. PICK A \in SUBSET mpus : /\ Grown(mpuTimestamps, mpuTimestamps', A)
                               /\ "basic" \in carries => A = mpus
  <2>1. CASE "basic" \in carries
    <3>1. mpuTimestamps' \in Filled(mpuTimestamps, first, mpus)
      BY <1>5, <2>1
    <3>2. Grown(mpuTimestamps, mpuTimestamps', mpus)
      BY <1>2, <1>6, <1>7, <3>1, FilledIs
    <3> QED
      BY <3>2
  <2>2. CASE "basic" \notin carries
    <3>1. mpuTimestamps' = mpuTimestamps
      BY <1>5, <2>2
    <3>2. Grown(mpuTimestamps, mpuTimestamps', {})
      BY <1>7, <3>1 DEF Grown
    <3> QED
      BY <2>2, <3>2
  <2> QED
    BY <2>1, <2>2
<1>9. PICK B \in SUBSET mpus : /\ Grown(mpuExtendedTimestamps, mpuExtendedTimestamps', B)
                               /\ "extended" \in carries => B = news
  <2>1. CASE "extended" \in carries
    <3>1. mpuExtendedTimestamps' \in Filled(mpuExtendedTimestamps, first, news)
      BY <1>5, <2>1
    <3>2. news \in SUBSET {first, first + 1} /\ news \in SUBSET mpus
      BY <1>2, <1>3
    <3>3. Grown(mpuExtendedTimestamps, mpuExtendedTimestamps', news)
      BY <1>6, <1>7, <3>1, <3>2, FilledIs
    <3> QED
      BY <3>2, <3>3
  <2>2. CASE "extended" \notin carries
    <3>1. mpuExtendedTimestamps' = mpuExtendedTimestamps
      BY <1>5, <2>2
    <3>2. Grown(mpuExtendedTimestamps, mpuExtendedTimestamps', {})
      BY <1>7, <3>1 DEF Grown
    <3> QED
      BY <2>2, <3>2
  <2> QED
    BY <2>1, <2>2
<1>10. TableOK(mpuTimestamps') /\ TableOK(mpuExtendedTimestamps')
  BY <1>8, <1>9 DEF Grown
<1>11. /\ announced' \subseteq {"basic", "extended"} \X (0..MaxMpu)
       /\ \A a \in announced' : a[2] >= air.mpu
       /\ \A m : <<"basic", m>> \in announced' =>
                   <<"basic", m>> \in announced \/ ("basic" \in carries /\ m \in from)
       /\ \A m : <<"extended", m>> \in announced' =>
                   \/ <<"extended", m>> \in announced
                   \/ "extended" \in carries /\ m \in from \cap news
  <2>1. from \subseteq mpus /\ \A m \in from : m >= air.mpu
    BY <1>4
  <2>2. announced \subseteq {"basic", "extended"} \X (0..MaxMpu)
        /\ \A a \in announced : a[2] >= air.mpu
    BY DEF TimingInv, TypeOK
  <2>3. ASSUME NEW a \in announced'
        PROVE  \/ a \in announced
               \/ \E m \in from : a = <<"basic", m>> /\ "basic" \in carries
               \/ \E m \in from \cap news : a = <<"extended", m>> /\ "extended" \in carries
    BY <1>5
  <2>4. ASSUME NEW a \in announced'
        PROVE  a \in {"basic", "extended"} \X (0..MaxMpu) /\ a[2] >= air.mpu
    BY <1>6, <2>1, <2>2, <2>3
  <2>5. ASSUME NEW m, <<"basic", m>> \in announced'
        PROVE  <<"basic", m>> \in announced \/ ("basic" \in carries /\ m \in from)
    BY <2>3, <2>5
  <2>6. ASSUME NEW m, <<"extended", m>> \in announced'
        PROVE  \/ <<"extended", m>> \in announced
               \/ "extended" \in carries /\ m \in from \cap news
    BY <2>3, <2>6
  <2> QED
    BY <2>4, <2>5, <2>6
<1>12. TypeOK'
  <2>1. TableOK(mpuTimestamps)' /\ TableOK(mpuExtendedTimestamps)'
    BY <1>10 DEF TableOK
  <2>2. given' \in Results
    BY <1>5 DEF Results
  <2>3. announced' \subseteq {"basic", "extended"} \X (0..MaxMpu)
    BY <1>11
  <2>4. /\ offsets' = offsets /\ air' = air /\ missed' = missed /\ lastMpu' = lastMpu
        /\ auIndex' = auIndex /\ lastRec' = lastRec /\ forward' = forward
    BY <1>5
  <2> QED
    BY <1>7, <2>1, <2>2, <2>3, <2>4 DEF TypeOK
<1>13. Settled' => InStep' /\ TablesCurrent'
  <2> SUFFICES ASSUME Settled' PROVE InStep' /\ TablesCurrent'
    OBVIOUS
  <2>1. Settled
    BY <1>5 DEF Settled
  <2>2. InStep /\ TablesCurrent
    BY <2>1 DEF TimingInv
  <2>3. InStep'
    BY <1>5, <2>2 DEF InStep
  <2>4. Orderly(mpuTimestamps) /\ Orderly(mpuExtendedTimestamps)
    BY <2>2 DEF Orderly, InStep, TablesCurrent
  <2>5. /\ \A m \in DOMAIN mpuTimestamps' :
             mpuTimestamps'[m] = air.rec /\ m <= air.mpu + Ahead + 1
        /\ \A m \in DOMAIN mpuExtendedTimestamps' :
             mpuExtendedTimestamps'[m] = air.rec /\ m <= air.mpu + Ahead + 1
    <3>1. ASSUME NEW m \in DOMAIN mpuTimestamps'
          PROVE  mpuTimestamps'[m] = air.rec /\ m <= air.mpu + Ahead + 1
      <4>1. \/ m \in DOMAIN mpuTimestamps /\ mpuTimestamps'[m] = mpuTimestamps[m]
            \/ m \in mpus /\ mpuTimestamps'[m] = air.rec
        BY <1>8, <3>1 DEF Grown
      <4> QED
        BY <1>6, <2>2, <4>1 DEF TablesCurrent
    <3>2. ASSUME NEW m \in DOMAIN mpuExtendedTimestamps'
          PROVE  mpuExtendedTimestamps'[m] = air.rec /\ m <= air.mpu + Ahead + 1
      <4>1. \/ m \in DOMAIN mpuExtendedTimestamps
               /\ mpuExtendedTimestamps'[m] = mpuExtendedTimestamps[m]
            \/ m \in mpus /\ mpuExtendedTimestamps'[m] = air.rec
        BY <1>9, <3>2 DEF Grown
      <4> QED
        BY <1>6, <2>2, <4>1 DEF TablesCurrent
    <3> QED
      BY <3>1, <3>2, Zenon
  <2>6. ASSUME NEW m \in 0..MaxMpu, <<"basic", m>> \in announced' PROVE m \in DOMAIN mpuTimestamps'
    <3>1. m >= air.mpu
      <4>1. <<"basic", m>>[2] = m
        OBVIOUS
      <4> QED
        BY <1>11, <2>6, <4>1
    <3>2. m \in DOMAIN mpuTimestamps \cup A
      BY <1>4, <1>8, <1>11, <2>2, <2>6 DEF TablesCurrent
    <3> QED
      BY <1>8, <2>4, <3>1, <3>2 DEF Grown
  <2>7. ASSUME NEW m \in 0..MaxMpu, <<"extended", m>> \in announced'
        PROVE  m \in DOMAIN mpuExtendedTimestamps'
    <3>1. m >= air.mpu
      <4>1. <<"extended", m>>[2] = m
        OBVIOUS
      <4> QED
        BY <1>11, <2>7, <4>1
    <3>2. m \in DOMAIN mpuExtendedTimestamps \cup B
      BY <1>9, <1>11, <2>2, <2>7 DEF TablesCurrent
    <3> QED
      BY <1>9, <2>4, <3>1, <3>2 DEF Grown
  <2> QED
    BY <1>5, <2>3, <2>5, <2>6, <2>7 DEF TablesCurrent
<1>14. RightTime'
  BY <1>5 DEF RightTime
<1> QED
  BY <1>5, <1>11, <1>12, <1>13, <1>14 DEF TimingInv

\* The access unit that follows.
LEMMA FollowingIs ==
  ASSUME TimingAssumption, TypeOK, air.mpu < MaxMpu
  PROVE  /\ Following \in Units /\ Following.rec = air.rec /\ Following.mpu \in Nat
         /\ Following.au < Len(offsets[Following.mpu])
         /\ \/ Following.mpu = air.mpu /\ Following.au = air.au + 1
            \/ Following.mpu = air.mpu + 1 /\ Following.au = 0
<1>1. /\ air \in Units /\ air.mpu \in 0..MaxMpu /\ air.au \in Nat /\ MaxMpu \in Nat
      /\ air.rec \in 1..Recordings
  BY DEF TimingAssumption, TypeOK, Units
<1>2. PICK f : f = Following
  OBVIOUS
<1>3. CASE air.au + 1 < Len(offsets[air.mpu])
  <2>1. PICK n \in Nat : n = air.au + 1
    BY <1>1
  <2>2. f = [air EXCEPT !.au = n]
    BY <1>2, <1>3, <2>1 DEF Following
  <2>3. f \in Units /\ f.rec = air.rec /\ f.mpu = air.mpu /\ f.au = n
    BY <1>1, <2>2 DEF Units
  <2> QED
    BY <1>1, <1>2, <1>3, <2>1, <2>3
<1>4. CASE ~(air.au + 1 < Len(offsets[air.mpu]))
  <2>1. PICK m \in 0..MaxMpu : m = air.mpu + 1
    BY <1>1
  <2>2. f = [air EXCEPT !.mpu = m, !.au = 0]
    BY <1>2, <1>4, <2>1 DEF Following
  <2>3. f \in Units /\ f.rec = air.rec /\ f.mpu = m /\ f.au = 0
    BY <1>1, <2>2 DEF Units
  <2>4. Len(offsets[m]) \in Nat \ {0}
    BY OffsetsAre
  <2> QED
    BY <1>1, <1>2, <2>1, <2>3, <2>4
<1> QED
  BY <1>3, <1>4

LEMMA AnnouncedFrom ==
  ASSUME TimingInv, NEW unit
  PROVE  /\ From(unit) \subseteq announced
         /\ \A a \in From(unit) : a[2] >= unit.mpu
  BY DEF From

LEMMA LoseStep ==
  ASSUME TimingAssumption, TimingInv, Lose
  PROVE  TimingInv'
<1>1. /\ air.mpu < MaxMpu /\ air' = Following /\ missed' = (Following.mpu = air.mpu)
      /\ announced' = From(Following) /\ given' = None
      /\ UNCHANGED <<offsets, lastMpu, auIndex, mpuTimestamps, mpuExtendedTimestamps,
                     lastRec, forward>>
  BY DEF Lose, tables
<1>2. TypeOK
  BY DEF TimingInv
<1>3. /\ air' \in Units /\ air'.rec = air.rec /\ air'.mpu \in Nat
      /\ air'.au < Len(offsets[air'.mpu])
      /\ \/ air'.mpu = air.mpu /\ air'.au = air.au + 1
         \/ air'.mpu = air.mpu + 1 /\ air'.au = 0
  BY <1>1, <1>2, FollowingIs
<1>4. /\ air.mpu \in Nat /\ air.au \in Nat /\ auIndex \in Nat /\ Ahead \in Nat /\ MaxMpu \in Nat
      /\ None \notin Int /\ lastMpu \in 0..MaxMpu \cup {None}
  BY <1>2 DEF TypeOK, Units, TimingAssumption
<1>5. announced' \subseteq announced /\ \A a \in announced' : a[2] >= air'.mpu
  BY <1>1, AnnouncedFrom
<1>6. TypeOK'
  <2>1. TableOK(mpuTimestamps)' /\ TableOK(mpuExtendedTimestamps)'
    BY <1>1, <1>2 DEF TypeOK, TableOK
  <2>2. given' \in Results /\ missed' \in BOOLEAN
    BY <1>1 DEF Results
  <2>3. announced' \subseteq {"basic", "extended"} \X (0..MaxMpu)
    BY <1>2, <1>5 DEF TypeOK
  <2>4. /\ offsets' = offsets /\ lastMpu' = lastMpu
        /\ auIndex' = auIndex /\ lastRec' = lastRec /\ forward' = forward
    BY <1>1
  <2>5. air' \in Units /\ air'.au < Len(offsets'[air'.mpu])
    BY <1>3, <2>4
  <2> QED
    BY <1>2, <2>1, <2>2, <2>3, <2>4, <2>5 DEF TypeOK
<1>7. Settled' => InStep' /\ TablesCurrent'
  <2> SUFFICES ASSUME Settled' PROVE InStep' /\ TablesCurrent'
    OBVIOUS
  <2>1. Settled
    BY <1>1, <1>3 DEF Settled
  <2>2. InStep /\ TablesCurrent
    BY <2>1 DEF TimingInv
  <2>3. InStep'
    <3>1. /\ lastMpu # None => lastMpu <= air.mpu /\ lastMpu \in Nat
          /\ lastMpu = air.mpu => air.au > 0 /\ auIndex <= air.au
      BY <1>4, <2>2 DEF InStep
    <3>2. CASE air'.mpu = air.mpu /\ air'.au = air.au + 1
      <4>1. missed'
        BY <1>1, <3>2
      <4> QED
        BY <1>1, <1>4, <3>1, <3>2, <4>1 DEF InStep
    <3>3. CASE air'.mpu = air.mpu + 1 /\ air'.au = 0
      BY <1>1, <1>4, <3>1, <3>3 DEF InStep
    <3> QED
      BY <1>3, <3>2, <3>3
  <2>4. /\ \A m \in DOMAIN mpuTimestamps :
             mpuTimestamps[m] = air'.rec /\ m <= air'.mpu + Ahead + 1
        /\ \A m \in DOMAIN mpuExtendedTimestamps :
             mpuExtendedTimestamps[m] = air'.rec /\ m <= air'.mpu + Ahead + 1
    <3>1. \A m \in DOMAIN mpuTimestamps : m \in Nat
      BY <1>2, <1>4 DEF TypeOK, TableOK
    <3>2. \A m \in DOMAIN mpuExtendedTimestamps : m \in Nat
      BY <1>2, <1>4 DEF TypeOK, TableOK
    <3> QED
      BY <1>3, <1>4, <2>2, <3>1, <3>2 DEF TablesCurrent
  <2> QED
    BY <1>1, <1>5, <2>2, <2>3, <2>4 DEF TablesCurrent
<1>8. lastRec' <= air'.rec /\ (air'.rec = 1 => ~forward') /\ RightTime'
  BY <1>1, <1>3 DEF TimingInv, RightTime
<1> QED
  BY <1>5, <1>6, <1>7, <1>8 DEF TimingInv

LEMMA SeamStep ==
  ASSUME TimingAssumption, TimingInv, Seam
  PROVE  TimingInv'
<1>1. /\ air.rec < Recordings /\ missed' = FALSE /\ announced' = {} /\ given' = None
      /\ UNCHANGED <<offsets, lastMpu, auIndex, mpuTimestamps, mpuExtendedTimestamps,
                     lastRec, forward>>
  BY DEF Seam, tables
<1>2. PICK m \in 0..MaxMpu - 1 : air' = [rec |-> air.rec + 1, mpu |-> m, au |-> 0]
  BY DEF Seam
<1>3. TypeOK
  BY DEF TimingInv
<1>4. /\ air.rec \in 1..Recordings /\ Recordings \in Nat /\ MaxMpu \in Nat /\ m \in 0..MaxMpu
      /\ lastRec \in 0..Recordings /\ lastRec <= air.rec
  BY <1>2, <1>3 DEF TypeOK, Units, TimingAssumption, TimingInv
<1>5. air' \in Units /\ air'.rec = air.rec + 1 /\ air'.mpu = m /\ air'.au = 0
  BY <1>1, <1>2, <1>4 DEF Units
<1>6. Len(offsets[m]) \in Nat \ {0}
  BY <1>3, <1>4, OffsetsAre
<1>7. TypeOK'
  <2>1. air'.au < Len(offsets'[air'.mpu]) /\ missed' \in BOOLEAN
    <3>1. offsets' = offsets /\ missed' = FALSE
      BY <1>1
    <3>2. 0 < Len(offsets[m])
      BY <1>6
    <3> QED
      BY <1>5, <3>1, <3>2
  <2>2. announced' \subseteq {"basic", "extended"} \X (0..MaxMpu) /\ given' \in Results
    BY <1>1 DEF Results
  <2>3. TableOK(mpuTimestamps)' /\ TableOK(mpuExtendedTimestamps)'
    BY <1>1, <1>3 DEF TypeOK, TableOK
  <2> QED
    BY <1>1, <1>3, <1>5, <2>1, <2>2, <2>3 DEF TypeOK
<1>8. ~Settled'
  BY <1>1, <1>4, <1>5 DEF Settled
<1>9. lastRec' <= air'.rec /\ air'.rec # 1 /\ RightTime'
  BY <1>1, <1>4, <1>5 DEF RightTime
<1> QED
  BY <1>1, <1>7, <1>8, <1>9 DEF TimingInv

\* An access unit received: it gets the right time, and gets one if it was announced.
LEMMA AccessUnitStep ==
  ASSUME TimingAssumption, TimingInv, AccessUnit
  PROVE  TimingInv' /\ TimesAnnounced
<1>1. PICK now : now = TablesNow(Backward)
  OBVIOUS
<1>2. PICK times : times = Times(now[1], now[2])
  OBVIOUS
<1>3. PICK gone \in BOOLEAN : gone = (missed /\ air.au > 0)
  OBVIOUS
<1>4. /\ air.mpu < MaxMpu
      /\ mpuTimestamps' = now[1] /\ mpuExtendedTimestamps' = now[2]
      /\ \/ times = {} /\ auIndex' = AuIndexNow /\ given' = Given(None, gone, FALSE)
         \/ /\ times # {} /\ auIndex' = AuIndexNow + 1
            /\ \E t \in times : given' = Given(t, gone, Described(now[1], now[2]))
      /\ missed' = (Following.mpu = air.mpu /\ (gone \/ times = {}))
      /\ lastMpu' = air.mpu /\ lastRec' = air.rec
      /\ announced' = IF Backward THEN {} ELSE From(Following)
      /\ forward' = IF lastRec # air.rec THEN air.rec > 1 /\ ~Backward ELSE forward
      /\ air' = Following /\ offsets' = offsets
  BY <1>1, <1>2, <1>3 DEF AccessUnit
<1>5. TypeOK
  BY DEF TimingInv
<1>6. /\ air' \in Units /\ air'.rec = air.rec /\ air'.mpu \in Nat
      /\ air'.au < Len(offsets[air'.mpu])
      /\ \/ air'.mpu = air.mpu /\ air'.au = air.au + 1
         \/ air'.mpu = air.mpu + 1 /\ air'.au = 0
  BY <1>4, <1>5, FollowingIs
<1>7. /\ air \in Units /\ air.mpu \in 0..MaxMpu /\ air.au \in Nat /\ air.rec \in 1..Recordings
      /\ auIndex \in Nat /\ Ahead \in Nat /\ MaxMpu \in Nat /\ Recordings \in Nat
      /\ None \notin Int /\ lastMpu \in 0..MaxMpu \cup {None} /\ lastRec \in 0..Recordings
      /\ AuIndexNow \in Nat /\ air.au < Len(offsets[air.mpu]) /\ lastRec <= air.rec
      /\ missed \in BOOLEAN /\ forward \in BOOLEAN /\ MaxEntries \in Nat
  BY <1>5 DEF TypeOK, Units, TimingAssumption, AuIndexNow, TimingInv
<1>8. TableOK(mpuTimestamps) /\ TableOK(mpuExtendedTimestamps)
  BY <1>5 DEF TypeOK, TableOK
<1>11. /\ lastRec' = air.rec
       /\ forward' = IF lastRec # air.rec THEN air.rec > 1 /\ ~Backward ELSE forward
  BY <1>4
<1>12. /\ offsets' \in Assets /\ air' \in Units /\ air'.au < Len(offsets'[air'.mpu])
  BY <1>4, <1>5, <1>6 DEF TypeOK
<1>13. forward' \in BOOLEAN /\ lastRec' \in 0..Recordings
  <2>1. CASE lastRec # air.rec
    <3>1. forward' = (air.rec > 1 /\ ~Backward)
      BY <1>11, <2>1, Zenon
    <3>2. forward' \in BOOLEAN
      BY <3>1
    <3> QED
      BY <1>7, <1>11, <3>2
  <2>2. CASE lastRec = air.rec
    BY <1>7, <1>11, <2>2
  <2> QED
    BY <2>1, <2>2
<1>9. CASE Backward
  <2>1. now[1] = <<>> /\ now[2] = <<>>
    BY <1>1, <1>9 DEF TablesNow
  <2>2. times = {}
    <3>1. DOMAIN now[1] = {}
      BY <2>1
    <3>2. ~Described(now[1], now[2]) /\ Anchors(now[1], now[2]) = {}
      BY <3>1 DEF Described, Anchors
    <3>3. Extrapolated(now[1], now[2]) = {}
      BY <3>2 DEF Extrapolated
    <3> QED
      BY <1>2, <3>2, <3>3 DEF Times
  <2>3. /\ auIndex' = AuIndexNow /\ given' = Given(None, gone, FALSE)
        /\ missed' = (Following.mpu = air.mpu) /\ announced' = {}
    BY <1>4, <1>9, <2>2
  <2>4. given' \in Results /\ given'.dts = None
    BY <1>7, <2>3 DEF Given, Results
  <2>5. TableOK(<<>>)
    <3>1. DOMAIN <<>> = {}
      OBVIOUS
    <3>2. Range(<<>>) = {}
      BY <3>1 DEF Range
    <3>3. Cardinality({}) = 0
      BY FS_EmptySet
    <3> QED
      BY <1>7, <3>1, <3>2, <3>3 DEF TableOK
  <2>6. missed' \in BOOLEAN /\ forward' \in BOOLEAN /\ lastRec' \in 0..Recordings
    <3>1. missed' \in BOOLEAN
      BY <2>3
    <3> QED
      BY <1>7, <1>13, <3>1
  <2>7. TypeOK'
    <3>1. auIndex' \in Nat /\ lastMpu' \in 0..MaxMpu \cup {None}
      BY <1>4, <1>7, <2>3
    <3>2. TableOK(mpuTimestamps') /\ TableOK(mpuExtendedTimestamps')
      BY <1>4, <2>1, <2>5
    <3>3. announced' \subseteq {"basic", "extended"} \X (0..MaxMpu)
      BY <2>3
    <3>4. TableOK(mpuTimestamps)' /\ TableOK(mpuExtendedTimestamps)'
      BY <3>2 DEF TableOK
    <3> QED
      BY <1>12, <2>4, <2>6, <3>1, <3>3, <3>4, Zenon DEF TypeOK
  <2>8. AuIndexNow = 0
    BY <1>7, <1>9 DEF AuIndexNow, Backward
  <2>9. InStep'
    <3>1. lastMpu' = air.mpu /\ auIndex' = 0 /\ (missed' <=> air'.mpu = air.mpu)
      BY <1>4, <2>3, <2>8
    <3>2. CASE air'.mpu = air.mpu /\ air'.au = air.au + 1
      BY <1>7, <3>1, <3>2 DEF InStep
    <3>3. CASE air'.mpu = air.mpu + 1 /\ air'.au = 0
      BY <1>7, <3>1, <3>3 DEF InStep
    <3> QED
      BY <1>6, <3>2, <3>3
  <2>10. TablesCurrent'
    BY <1>4, <2>1, <2>3 DEF TablesCurrent
  <2>11. air'.rec = 1 => ~forward'
    BY <1>4, <1>6, <1>9 DEF TimingInv
  <2>12. lastRec' <= air'.rec /\ \A a \in announced' : a[2] >= air'.mpu
    BY <1>4, <1>6, <1>7, <2>3
  <2> QED
    BY <1>9, <2>4, <2>7, <2>9, <2>10, <2>11, <2>12 DEF TimingInv, RightTime, TimesAnnounced
<1>10. CASE ~Backward
  <2>1. now[1] = mpuTimestamps /\ now[2] = mpuExtendedTimestamps
    BY <1>1, <1>10 DEF TablesNow, tables
  <2>2. ASSUME NEW t \in times PROVE t \in Int
    BY <1>2, <1>5, <1>8, <2>1, <2>2, TimesAreInt
  <2>3. /\ given' \in Results
        /\ given'.unit = air /\ given'.missed = gone
        /\ given'.dts # None =>
             given'.dts \in times /\ given'.described = Described(now[1], now[2])
        /\ times # {} => given'.dts # None
    <3>1. CASE times = {}
      <4>1. given' = [unit |-> air, dts |-> None, missed |-> gone, described |-> FALSE]
        BY <1>4, <3>1 DEF Given
      <4>2. PICK g : g = given'
        OBVIOUS
      <4>3. g \in Results /\ g.unit = air /\ g.missed = gone /\ g.dts = None
        <5>1. g \in Results
          BY <1>7, <4>1, <4>2 DEF Results
        <5> QED
          BY <4>1, <4>2, <5>1
      <4> QED
        BY <3>1, <4>2, <4>3
    <3>2. CASE times # {}
      <4>1. PICK t \in times : given' = Given(t, gone, Described(now[1], now[2]))
        BY <1>4, <3>2
      <4>2. t \in Int /\ t # None
        BY <1>7, <2>2
      <4>3. Described(now[1], now[2]) \in BOOLEAN
        BY DEF Described
      <4> QED
        <5>1. PICK d \in BOOLEAN : d = Described(now[1], now[2])
          BY <4>3
        <5>2. PICK g : g = given' /\ g = [unit |-> air, dts |-> t, missed |-> gone, described |-> d]
          BY <4>1, <5>1 DEF Given
        <5>3. g \in Results
          BY <1>7, <4>2, <5>2 DEF Results
        <5>4. g.unit = air /\ g.missed = gone /\ g.dts = t /\ g.described = d
          BY <5>2
        <5> QED
          BY <4>2, <5>1, <5>2, <5>3, <5>4
    <3> QED
      BY <3>1, <3>2
  <2>4. auIndex' \in {AuIndexNow, AuIndexNow + 1} /\ (times # {} => auIndex' = AuIndexNow + 1)
    BY <1>4
  <2>5. announced' \subseteq announced /\ \A a \in announced' : a[2] >= air'.mpu
    BY <1>4, <1>10, AnnouncedFrom
  <2>6. missed' \in BOOLEAN /\ forward' \in BOOLEAN /\ lastRec' \in 0..Recordings
    <3>1. missed' = (Following.mpu = air.mpu /\ (gone \/ times = {}))
      BY <1>4
    <3>2. missed' \in BOOLEAN
      BY <3>1
    <3> QED
      BY <1>7, <1>13, <3>2
  <2>7. TypeOK'
    <3>1. auIndex' \in Nat /\ lastMpu' \in 0..MaxMpu \cup {None}
      BY <1>4, <1>7, <2>4
    <3>2. TableOK(mpuTimestamps') /\ TableOK(mpuExtendedTimestamps')
      BY <1>4, <1>8, <2>1
    <3>3. TableOK(mpuTimestamps)' /\ TableOK(mpuExtendedTimestamps)'
      BY <3>2 DEF TableOK
    <3>4. announced' \subseteq {"basic", "extended"} \X (0..MaxMpu)
      BY <1>5, <2>5 DEF TypeOK
    <3> QED
      BY <1>12, <2>3, <2>6, <3>1, <3>3, <3>4, Zenon DEF TypeOK
  <2>8. ASSUME ~forward' PROVE Settled
    <3>1. air.rec = 1 => ~forward
      BY DEF TimingInv
    <3> QED
      <4>1. CASE lastRec # air.rec
        <5>1. ~(air.rec > 1)
          BY <1>10, <1>11, <2>8, <4>1, Zenon
        <5>2. air.rec = 1
          BY <1>7, <5>1
        <5> QED
          BY <3>1, <5>2 DEF Settled
      <4>2. CASE lastRec = air.rec
        BY <1>11, <2>8, <4>2, Zenon DEF Settled
      <4> QED
        BY <4>1, <4>2
  <2>9. ASSUME ~forward'
        PROVE  /\ InStep /\ TablesCurrent /\ AuIndexNow <= air.au
               /\ ~gone => AuIndexNow = air.au
    <3>1. InStep /\ TablesCurrent
      BY <2>8, <2>9 DEF TimingInv
    <3>2. AuIndexNow <= air.au
      BY <1>7, <3>1 DEF InStep, AuIndexNow
    <3>3. ASSUME ~gone PROVE AuIndexNow = air.au
      <4>1. CASE air.au = 0
        BY <1>7, <3>2, <4>1
      <4>2. CASE air.au > 0
        BY <1>3, <3>1, <3>3, <4>2 DEF InStep, AuIndexNow
      <4> QED
        BY <1>7, <4>1, <4>2
    <3> QED
      BY <3>1, <3>2, <3>3
  <2>10. Settled' => InStep' /\ TablesCurrent'
    <3> SUFFICES ASSUME ~forward' PROVE InStep' /\ TablesCurrent'
      BY DEF Settled
    <3>1. /\ InStep /\ TablesCurrent /\ AuIndexNow <= air.au
          /\ ~gone => AuIndexNow = air.au
      BY <2>9
    <3>2. lastMpu' # None => lastMpu' <= air'.mpu
      BY <1>4, <1>6, <1>7
    <3>3. lastMpu' = air'.mpu => air'.au > 0 /\ auIndex' <= air'.au
      BY <1>4, <1>6, <1>7, <2>4, <3>1
    <3>4. ~missed' /\ air'.au > 0 => lastMpu' = air'.mpu /\ auIndex' = air'.au
      <4> SUFFICES ASSUME ~missed', air'.au > 0 PROVE lastMpu' = air'.mpu /\ auIndex' = air'.au
        OBVIOUS
      <4>1. air'.mpu = air.mpu /\ air'.au = air.au + 1
        BY <1>6
      <4>2. ~gone /\ times # {}
        BY <1>4, <4>1
      <4> QED
        BY <1>4, <2>4, <3>1, <4>1, <4>2
    <3>5. /\ \A m \in DOMAIN mpuTimestamps :
               mpuTimestamps[m] = air'.rec /\ m <= air'.mpu + Ahead + 1
          /\ \A m \in DOMAIN mpuExtendedTimestamps :
               mpuExtendedTimestamps[m] = air'.rec /\ m <= air'.mpu + Ahead + 1
      <4>1. \A m \in DOMAIN mpuTimestamps : m \in Nat
        BY <1>7, <1>8 DEF TableOK
      <4>2. \A m \in DOMAIN mpuExtendedTimestamps : m \in Nat
        BY <1>7, <1>8 DEF TableOK
      <4> QED
        <5>1. \A m \in Nat : m <= air.mpu + Ahead + 1 => m <= air'.mpu + Ahead + 1
          BY <1>6, <1>7
        <5> QED
          BY <1>6, <3>1, <4>1, <4>2, <5>1 DEF TablesCurrent
    <3>6. TablesCurrent'
      BY <1>4, <2>1, <2>5, <3>1, <3>5 DEF TablesCurrent
    <3> QED
      BY <3>2, <3>3, <3>4, <3>6 DEF InStep
  <2>11. RightTime'
    <3> SUFFICES ASSUME given' # None, given'.dts # None, ~forward',
                        given'.described \/ AllAlike'
                 PROVE  /\ given'.dts <= TrueTime(given.unit)'
                        /\ given'.dts >= TimeOfMpu(given.unit.rec, given.unit.mpu)'
                        /\ given'.missed \/ given'.dts = TrueTime(given.unit)'
      BY Zenon DEF RightTime
    <3>1. given'.dts \in times /\ given'.described = Described(now[1], now[2])
      BY <2>3, Zenon
    <3>2. AllAlike' = AllAlike
      BY <1>4 DEF AllAlike
    <3>3. PICK t : t = given'.dts
      OBVIOUS
    <3>4. /\ AuIndexNow <= air.au
          /\ ~gone => AuIndexNow = air.au
          /\ \A m \in DOMAIN mpuTimestamps : mpuTimestamps[m] = air.rec
      BY <2>9 DEF TablesCurrent
    <3>5. t \in Times(mpuTimestamps, mpuExtendedTimestamps)
          /\ (Described(mpuTimestamps, mpuExtendedTimestamps) \/ AllAlike)
      BY <1>2, <2>1, <3>1, <3>2, <3>3
    <3>6. /\ t <= TrueTime(air)
          /\ t >= TimeOfMpu(air.rec, air.mpu)
          /\ AuIndexNow = air.au => t = TrueTime(air)
      BY <1>5, <1>8, <3>4, <3>5, TimesAreRight
    <3>7. /\ TrueTime(given.unit)' = TrueTime(air)
          /\ TimeOfMpu(given.unit.rec, given.unit.mpu)' = TimeOfMpu(air.rec, air.mpu)
      <4>1. offsets' = offsets /\ given'.unit = air
        BY <1>4, <2>3
      <4> QED
        BY <4>1 DEF TrueTime, TimeOfMpu, Duration
    <3> QED
      <4>1. given'.missed = gone
        BY <2>3
      <4> QED
        BY <3>3, <3>4, <3>6, <3>7, <4>1
  <2>12. TimesAnnounced
    <3> SUFFICES ASSUME ~forward', {"basic", "extended"} \X {air.mpu} \subseteq announced
                 PROVE  given'.dts # None
      BY DEF TimesAnnounced
    <3>1. air.mpu \in DOMAIN mpuTimestamps \cap DOMAIN mpuExtendedTimestamps
      <4>1. <<"basic", air.mpu>> \in announced /\ <<"extended", air.mpu>> \in announced
        OBVIOUS
      <4> QED
        BY <1>7, <2>9, <4>1 DEF TablesCurrent
    <3>2. Described(now[1], now[2])
      BY <2>1, <3>1 DEF Described
    <3>3. ~(AuIndexNow >= Len(offsets[air.mpu]))
      <4>1. Len(offsets[air.mpu]) \in Nat
        BY <1>5, <1>7, OffsetsAre
      <4> QED
        BY <1>7, <2>9, <4>1
    <3>4. times # {}
      BY <1>2, <3>2, <3>3 DEF Times
    <3> QED
      BY <2>3, <3>4, Zenon
  <2>13. air'.rec = 1 => ~forward'
    BY <1>4, <1>6, <1>7, <1>10 DEF TimingInv
  <2>14. lastRec' <= air'.rec
    BY <1>4, <1>6, <1>7
  <2> QED
    BY <2>5, <2>7, <2>10, <2>11, <2>12, <2>13, <2>14 DEF TimingInv
<1> QED
  BY <1>9, <1>10

\* What the steps do to the times.
LEMMA TimingStep ==
  ASSUME TimingAssumption, TimingInv, [Next]_vars
  PROVE  TimingInv' /\ [TimesAnnounced]_vars
<1>1. CASE Next
  <2>1. CASE AccessUnit
    BY <2>1, AccessUnitStep
  <2>2. CASE ~AccessUnit
    <3>1. TimesAnnounced
      BY <2>2 DEF TimesAnnounced
    <3> QED
      BY <1>1, <2>2, <3>1, AnnounceStep, LoseStep, SeamStep DEF Next
  <2> QED
    BY <2>1, <2>2
<1>2. CASE UNCHANGED vars
  <2>1. TypeOK' /\ (Settled' <=> Settled) /\ (InStep' <=> InStep)
    BY <1>2 DEF vars, TimingInv, TypeOK, Settled, InStep
  <2>2. TablesCurrent' <=> TablesCurrent
    BY <1>2 DEF vars, TablesCurrent
  <2>3. RightTime'
    BY <1>2 DEF vars, TimingInv, RightTime, TrueTime, TimeOfMpu, Duration, AllAlike
  <2> QED
    BY <1>2, <2>1, <2>2, <2>3 DEF vars, TimingInv
<1> QED
  BY <1>1, <1>2

-----------------------------------------------------------------------------
(* What the three promise, for every value of the constants.               *)

\* A unit that has arrived whole is passed on; what is passed on are whole units, in
\* the order they were sent, each once.
THEOREM UnitsArrive ==
  ASSUME Streams!ReassemblyAssumption
  PROVE  Streams!Spec => []Streams!ArrivedUnitDelivered /\ Streams!ImplementsChannel
<1>1. Streams!Init => UnitsInv /\ Streams!Channel!Init
  BY UnitsStart
<1>2. UnitsInv /\ [Streams!Next]_(Streams!vars) =>
        UnitsInv' /\ [Streams!Channel!Next]_<<Streams!SentNumber, Streams!WholeDelivered>>
  BY UnitsStep
<1>3. UnitsInv => Streams!ArrivedUnitDelivered
  BY DEF UnitsInv
<1> QED
  BY <1>1, <1>2, <1>3, PTL
  DEF Streams!Spec, Streams!ImplementsChannel, Streams!Channel!Spec, Streams!Channel!vars

\* So with signalling messages, whichever of them are lost or malformed.
THEOREM MessagesArrive ==
  ASSUME Messages!SignallingAssumption
  PROVE  Messages!Spec => []Messages!UndamagedMessageProcessed /\ Messages!ImplementsChannel
<1>1. Messages!Init => MessagesInv /\ Messages!Channel!Init
  BY MessagesStart
<1>2. MessagesInv /\ [Messages!Next]_(Messages!vars) =>
        MessagesInv' /\ [Messages!Channel!Next]_<<Messages!SentNumber, Messages!WholeProcessed>>
  BY MessagesStep
<1>3. MessagesInv => Messages!UndamagedMessageProcessed
  BY DEF MessagesInv
<1> QED
  BY <1>1, <1>2, <1>3, PTL
  DEF Messages!Spec, Messages!ImplementsChannel, Messages!Channel!Spec, Messages!Channel!vars

\* An access unit gets its own time or none, and gets one if its MPU was announced, however
\* far ahead broadcasters announce and however many entries the tables hold.
THEOREM TimesAreTrue ==
  ASSUME TimingAssumption
  PROVE  Spec => []RightTime /\ [][TimesAnnounced]_vars
<1>1. Init => TimingInv
  BY TimingStart
<1>2. TimingInv /\ [Next]_vars => TimingInv' /\ [TimesAnnounced]_vars
  BY TimingStep
<1>3. TimingInv => RightTime
  BY DEF TimingInv
<1> QED
  BY <1>1, <1>2, <1>3, PTL DEF Spec

=============================================================================
