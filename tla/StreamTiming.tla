----------------------------- MODULE StreamTiming ----------------------------
(***************************************************************************)
(* The decoding times of the access units of one asset                     *)
(* (MmtStream::getNextPtsDts, with the two timestamp tables that           *)
(* MmtTlvDemuxer fills from the package table, and processMpu).            *)
(*                                                                         *)
(* The first access unit of an MPU is decoded at the MPU's time, each      *)
(* later than the one before by its offset, and the next MPU follows at    *)
(* once.  Two descriptors announce that: the MPU's time in one, *)
(* the offsets in the other.  Losses take access units and descriptors; a  *)
(* seam, where recordings were joined, begins another one with MPU numbers *)
(* and times of its own.  The offset of the MPU's first decoding from its  *)
(* presentation, and the reordering of pictures, are left out.  A table is *)
(* a function from the MPU numbers it has to the recordings they are of;   *)
(* the order of its entries is not modelled, nor which of several outdated *)
(* ones is overwritten, or which of two neighbours equally near is taken.  *)
(***************************************************************************)
EXTENDS Integers, Sequences, FiniteSets, Functions

CONSTANTS
  Assets,       \* of each, the offsets of the access units of each MPU
  MaxMpuDistance, \* kMaxMpuDistance
  MaxEntries,   \* entries of a table; 100 in the code
  Ahead,        \* bound: how far ahead of its MPU an entry is announced
  MaxMpu,       \* bound: MPU sequence numbers, which do not come round
  Recordings,   \* bound: recordings that are joined
  None

TimingAssumption ==
  /\ \A o \in Assets : DOMAIN o = 0..MaxMpu /\ \A m \in 0..MaxMpu : o[m] \in Seq(Nat \ {0}) \ {<<>>}
  /\ {MaxMpuDistance, Ahead, MaxMpu} \subseteq Nat /\ Recordings \in Nat \ {0}
  /\ MaxEntries \in Nat /\ MaxEntries > Ahead + 2
  /\ None \notin Int

VARIABLES
  offsets,    \* of the asset, one of Assets
  air,        \* the access unit on air: recording, MPU, number in the MPU
  missed,     \* history: an access unit of the MPU on air was missed or dropped
  lastMpu,    \* lastMpuSequenceNumber
  auIndex,
  mpuTimestamps, mpuExtendedTimestamps,
  announced,  \* history: which descriptors have announced which MPUs of the
              \* recording, from the one on air, since its first packet
  lastRec,    \* history: the recording of the last access unit received
  forward,    \* history: the first packet received of the recording had no lower
              \* MPU number than the last of the one before, if any
  given       \* after an access unit: what became of it

vars ==
  <<offsets, air, missed, lastMpu, auIndex, mpuTimestamps, mpuExtendedTimestamps, announced,
    lastRec, forward, given>>
tables == <<mpuTimestamps, mpuExtendedTimestamps>>

Units   == [rec : 1..Recordings, mpu : 0..MaxMpu, au : Nat]
Results ==
  [unit : Units, dts : Int \cup {None}, missed : BOOLEAN, described : BOOLEAN] \cup {None}

TableOK(t) ==
  /\ DOMAIN t \subseteq 0..MaxMpu /\ Range(t) \subseteq 1..Recordings
  /\ Cardinality(DOMAIN t) <= MaxEntries

TypeOK ==
  /\ offsets \in Assets
  /\ air \in Units /\ air.au < Len(offsets[air.mpu])
  /\ missed \in BOOLEAN /\ forward \in BOOLEAN
  /\ lastMpu \in 0..MaxMpu \cup {None}
  /\ auIndex \in Nat
  /\ TableOK(mpuTimestamps) /\ TableOK(mpuExtendedTimestamps)
  /\ announced \subseteq {"basic", "extended"} \X (0..MaxMpu)
  /\ lastRec \in 0..Recordings
  /\ given \in Results

Init ==
  /\ offsets \in Assets
  /\ air = [rec |-> 1, mpu |-> 0, au |-> 0]
  /\ missed = FALSE
  /\ lastMpu = None /\ auIndex = 0
  /\ mpuTimestamps = <<>> /\ mpuExtendedTimestamps = <<>>
  /\ announced = {} /\ lastRec = 0 /\ forward = FALSE
  /\ given = None

-----------------------------------------------------------------------------
\* The true times.  The times of a recording are far from those of the others.
SumOf(s, n) ==
  LET sum[k \in 0..Len(s)] == IF k = 0 THEN 0 ELSE sum[k - 1] + s[k]
  IN  sum[n]
Duration(m) == SumOf(offsets[m], Len(offsets[m]))
TimeOfMpu(rec, mpu) ==
  1000 * rec + SumOf([m \in 1..MaxMpu |-> Duration(m - 1)], mpu)
TrueTime(unit) == TimeOfMpu(unit.rec, unit.mpu) + SumOf(offsets[unit.mpu], unit.au)

-----------------------------------------------------------------------------
(* Mutated forms of definitions below, each with a mistake that the code   *)
(* could have been written with; they are no part of the model.            *)

OutdatedOrCurrent(mpu) == lastMpu # None /\ mpu <= lastMpu

KeepTables(backward) == tables

AnyShape(m) == auIndex < Len(offsets[m])

-----------------------------------------------------------------------------
(* processMpuTimestampDescriptor, processMpuExtendedTimestampDescriptor.   *)

Outdated(mpu) == lastMpu # None /\ mpu < lastMpu

\* An entry overwrites the one of its MPU, or one that is outdated, or is added,
\* or overwrites that of the lowest number.
Overwritten(t, mpu) ==
  LET old == {m \in DOMAIN t : Outdated(m)}
  IN  IF mpu \in DOMAIN t THEN {{mpu}}
      ELSE IF old # {} THEN {{m} : m \in old}
      ELSE IF Cardinality(DOMAIN t) < MaxEntries THEN {{}}
      ELSE {{m} : m \in {m \in DOMAIN t : \A n \in DOMAIN t : m <= n}}

Entered(t, mpu) ==
  {[m \in (DOMAIN t \ gone) \cup {mpu} |-> IF m = mpu THEN air.rec ELSE t[m]] :
     gone \in Overwritten(t, mpu)}

\* Two entries, one after the other, those of them that are taken.
Filled(t, first, taken) ==
  LET with(u, mpu) == IF mpu \in taken THEN Entered(u, mpu) ELSE {u}
  IN  UNION {with(u, first + 1) : u \in with(t, first)}

\* A package table has either descriptor or both, with entries for two MPUs in
\* a row.  The offsets of an outdated MPU are not taken.
Announce ==
  \E first \in air.mpu - 1..air.mpu + Ahead, carries \in SUBSET {"basic", "extended"} :
    LET mpus == {first, first + 1}
        news == {m \in mpus : ~Outdated(m)}
        from == {m \in mpus : m >= air.mpu}
    IN  /\ first >= 0 /\ first < MaxMpu /\ carries # {}
        /\ mpuTimestamps' \in
             IF "basic" \in carries THEN Filled(mpuTimestamps, first, mpus) ELSE {mpuTimestamps}
        /\ mpuExtendedTimestamps' \in
             IF "extended" \in carries THEN Filled(mpuExtendedTimestamps, first, news)
             ELSE {mpuExtendedTimestamps}
        /\ announced' = announced \cup (carries \cap {"basic"}) \X from
                                  \cup (carries \cap {"extended"}) \X (from \cap news)
        /\ given' = None
        /\ UNCHANGED <<offsets, air, missed, lastMpu, auIndex, lastRec, forward>>

-----------------------------------------------------------------------------
(* processMpu of the unit on air: the MPU number first.  A step back       *)
(* empties the tables.                                                     *)

Backward == lastMpu # None /\ air.mpu < lastMpu
AuIndexNow == IF lastMpu = air.mpu THEN auIndex ELSE 0
TablesNow(backward) == IF backward THEN <<<<>>, <<>>>> ELSE tables

-----------------------------------------------------------------------------
(* getNextPtsDts.                                                          *)

Distance(m) == IF m > air.mpu THEN m - air.mpu ELSE air.mpu - m

\* The nearest other MPUs that both tables have.
Anchors(basic, extended) ==
  LET both == (DOMAIN basic \cap DOMAIN extended) \ {air.mpu}
  IN  {m \in both : \A n \in both : Distance(m) <= Distance(n)}

\* The shape of the anchor: access units at even intervals.
EvenlySpaced(m) ==
  /\ AuIndexNow < Len(offsets[m])
  /\ \A i \in DOMAIN offsets[m] : offsets[m][i] = offsets[m][1]

\* extrapolateTiming: the times it may come to, none if it refuses.
Extrapolated(basic, extended) ==
  {TimeOfMpu(basic[m], m) - (m - air.mpu) * Len(offsets[m]) * offsets[m][1]
     + AuIndexNow * offsets[m][1] :
     m \in {a \in Anchors(basic, extended) : Distance(a) <= MaxMpuDistance /\ EvenlySpaced(a)}}

Described(basic, extended) == air.mpu \in DOMAIN basic \cap DOMAIN extended

Times(basic, extended) ==
  IF ~Described(basic, extended) THEN Extrapolated(basic, extended)
  ELSE IF AuIndexNow >= Len(offsets[air.mpu]) THEN {}
  ELSE {TimeOfMpu(basic[air.mpu], air.mpu) + SumOf(offsets[air.mpu], AuIndexNow)}

Following ==
  IF air.au + 1 < Len(offsets[air.mpu]) THEN [air EXCEPT !.au = @ + 1]
  ELSE [air EXCEPT !.mpu = @ + 1, !.au = 0]

\* What is announced of the MPUs from that of a unit on.
From(unit) == {a \in announced : a[2] >= unit.mpu}

Given(time, gone, described) ==
  [unit |-> air, dts |-> time, missed |-> gone, described |-> described]

AccessUnit ==
  /\ air.mpu < MaxMpu
  /\ LET now   == TablesNow(Backward)
         times == Times(now[1], now[2])
         gone  == missed /\ air.au > 0
     IN  /\ mpuTimestamps' = now[1] /\ mpuExtendedTimestamps' = now[2]
         /\ IF times = {}
            THEN auIndex' = AuIndexNow /\ given' = Given(None, gone, FALSE)
            ELSE /\ auIndex' = AuIndexNow + 1
                 /\ \E t \in times : given' = Given(t, gone, Described(now[1], now[2]))
         /\ missed' = (Following.mpu = air.mpu /\ (gone \/ times = {}))
  /\ lastMpu' = air.mpu /\ lastRec' = air.rec
  /\ announced' = IF Backward THEN {} ELSE From(Following)
  /\ forward' = IF lastRec # air.rec THEN air.rec > 1 /\ ~Backward ELSE forward
  /\ air' = Following
  /\ UNCHANGED offsets

Lose ==
  /\ air.mpu < MaxMpu
  /\ air' = Following
  /\ missed' = (Following.mpu = air.mpu)
  /\ announced' = From(Following)
  /\ given' = None
  /\ UNCHANGED <<offsets, lastMpu, auIndex, tables, lastRec, forward>>

Seam ==
  /\ air.rec < Recordings
  /\ \E m \in 0..MaxMpu - 1 : air' = [rec |-> air.rec + 1, mpu |-> m, au |-> 0]
  /\ missed' = FALSE /\ announced' = {} /\ given' = None
  /\ UNCHANGED <<offsets, lastMpu, auIndex, tables, lastRec, forward>>

Next ==
  Announce \/ AccessUnit \/ Lose \/ Seam

Spec == Init /\ [][Next]_vars

-----------------------------------------------------------------------------
AllAlike == \A m \in DOMAIN offsets : offsets[m] = offsets[0]

\* An access unit gets its own time, or, if some of its MPU were missed before
\* it, that of an earlier one of the MPU.  A time worked out from another MPU is
\* right for assets whose MPUs are all alike.  After a seam to a higher MPU number
\* the times of the recording before may be taken for those of this one.
RightTime ==
  given # None /\ given.dts # None /\ ~forward /\ (given.described \/ AllAlike) =>
    /\ given.dts <= TrueTime(given.unit)
    /\ given.dts >= TimeOfMpu(given.unit.rec, given.unit.mpu)
    /\ given.missed \/ given.dts = TrueTime(given.unit)

\* An access unit is not dropped for want of a time once both descriptors have
\* announced its MPU, in the recording it is of.  After a seam to the MPU number
\* of the last packet the access units of both are counted as one MPU's.
TimesAnnounced ==
  AccessUnit /\ ~Backward /\ ~forward' /\ {"basic", "extended"} \X {air.mpu} \subseteq announced
    => given'.dts # None

AnnouncedIsTimed == [][TimesAnnounced]_vars

=============================================================================
